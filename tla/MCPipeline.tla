------------------------------ MODULE MCPipeline ------------------------------
(***************************************************************************)
(* Small instances of ModelPipeline: one or two hosts, and configurations  *)
(* that keep a model, load it on demand, or use none.                      *)
(***************************************************************************)
EXTENDS ModelPipeline

OneHost == {1}
TwoHosts == {1, 2}
AllConfigs == {"keep", "demand", "off"}
AllUsable == {"keep", "demand"}
KeepConfigs == {"keep", "off"}
KeepUsable == {"keep"}
MCKeeping == {"keep"}
=============================================================================
