------------------------------ MODULE MCSettings ------------------------------
(***************************************************************************)
(* Small instances of Settings: two main tables in directories of their    *)
(* own, one auxiliary table whose directory need not exist, and other      *)
(* programs that write, break and delete any of the files.                 *)
(***************************************************************************)
EXTENDS Settings, TLC

CONSTANTS A, B, X, Home, Other, Bundle

Main2 == {A, B}
Aux1 == {X}
Setting(m, text) == [refs |-> {m}, text |-> text]
Table(refs) == [refs |-> refs, text |-> "table"]

MCEditions ==
  [p \in {Config, User, A, B, X} |->
     CASE p = Config -> {Setting(m, t) : m \in Main2, t \in {"1", "2"}}
       [] p \in Main2 -> {Table({}), Table({X})}
       [] OTHER -> {Table({})}]
MCDefault == Setting(A, "1")
MCShipped == A :> Table({})
MCDirOf == Config :> Home @@ User :> Home @@ A :> Home @@ B :> Other @@ X :> Bundle
MCAbove == Home :> {Home} @@ Other :> {Other} @@ Bundle :> {Bundle, Other}
MCFirst == {Home, Other}

\* A fresh installation with a second table whose auxiliary table is not there, and the same with
\* nothing readable but the first table.  RepairIsNoticed fails from a third disk, the fresh one
\* whose second table is unreadable.
Fresh == Config :> MCDefault @@ User :> Absent @@ A :> Table({}) @@ B :> Table({X}) @@ X :> Absent
MCFirstDisks ==
  {Fresh, [Fresh EXCEPT ![Config] = Broken, ![User] = Broken, ![B] = Broken]}
MCByOthers == {Config, B, X}
================================================================================
