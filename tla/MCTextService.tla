---------------------------- MODULE MCTextService ----------------------------
(***************************************************************************)
(* A small text service: one code letter and two words; a runtime that     *)
(* commits a unique word at once and asks a model, and one that does       *)
(* neither.                                                                *)
(***************************************************************************)
EXTENDS TextService, TLC

Entry(code, word) == [code |-> code, word |-> word, weight |-> 1]
Table(entries, auto) ==
  [main |-> entries,
   pinyin |-> [present |-> TRUE, entries |-> <<Entry(<<"a">>, "P1")>>], pinyinMax |-> 2,
   english |-> [present |-> TRUE, entries |-> <<>>], englishError |-> FALSE,
   charset |-> {"a"}, trigger |-> {";"},
   maxCode |-> 1, overflow |-> TRUE, autoCommit |-> auto, pageSize |-> 2]
MCTables ==
  [first |-> Table(<<Entry(<<"a">>, "W1")>>, TRUE),
   second |-> Table(<<Entry(<<"a">>, "W2")>>, FALSE)]

MCCodeChars == {"a", "1"}
MCDigits == {"1"}
MCDigitValue == [d \in MCDigits |-> 1]
MCLower == {"a"}
MCPunctuation == {";", "'", ","}
MCNonAscii == {"cn"}

Runtime(tables, enabled, model) ==
  [tables |-> tables, prediction |-> [enabled |-> enabled, model |-> model]]
ModelRuntimes == <<Runtime("first", TRUE, TRUE), Runtime("second", TRUE, FALSE)>>
MCRecall == [w \in {"W1", "W2", "N1"} |-> IF w = "W1" THEN <<"N1">> ELSE <<"N2">>]
MCKeys == {Legacy(CharEvent("Char", "a")), Legacy(Event("Space"))}
MCWords == {<<>>, <<"W2">>}
ModelProposals == {<<[id |-> 0, text |-> "M1"]>>}

\* The host's contexts are told apart by their identity alone.
EditorsAlike == Permutations(Editors)

Unbounded == 1000
\* What is read before the caret is the text of others, or what the service has written.
Readable == UNION {[1..n -> {"W1", "W2", "P1", "N1", "N2", "M1", "a"}] : n \in 0..PrefixLimit}
Calls == INSTANCE SessionCalls WITH
  newest <- Newest(session), Words <- Readable,
  Contexts <- {Usual, [Usual EXCEPT !.assist = FALSE]},
  Answers <- {"Applied", "RejectedBeforeWrite", "OutcomeUnknown"},
  Calls <- {"input", "recover", "offer", "gate", "focus", "context", "terminated", "prefix", "assist"},
  Nested <- {"input", "recover", "offer", "gate", "focus", "context", "terminated", "prefix", "assist"},
  MaxGeneration <- Unbounded, MaxPrefix <- Unbounded
(***************************************************************************)
(* The text service makes only the calls of the session that SessionCalls  *)
(* allows, with answers to plans that are out, whatever the host calls     *)
(* while it edits (run_edit and execute in input_session.rs): what is      *)
(* proved of SessionCalls holds of the session inside it.                  *)
(***************************************************************************)
UsesTheSessionAsAllowed == Calls!Spec
=============================================================================
