------------------------------ MODULE MCSession ------------------------------
(***************************************************************************)
(* Small instances of SessionCalls: one code letter and two words, a       *)
(* temporary pinyin table, and runtimes that differ by their tables or by  *)
(* their prediction settings only.                                         *)
(***************************************************************************)
EXTENDS SessionCalls

Entry(code, word) == [code |-> code, word |-> word, weight |-> 1]
Table(entries) ==
  [main |-> entries,
   pinyin |-> [present |-> TRUE, entries |-> <<Entry(<<"a">>, "P1")>>], pinyinMax |-> 2,
   english |-> [present |-> TRUE, entries |-> <<>>], englishError |-> FALSE,
   charset |-> {"a"}, trigger |-> {";"},
   maxCode |-> 1, overflow |-> TRUE, autoCommit |-> FALSE, pageSize |-> 2]

MCTables ==
  [first |-> Table(<<Entry(<<"a">>, "W1"), Entry(<<"a">>, "W2")>>),
   second |-> Table(<<Entry(<<"a">>, "W2")>>)]

MCCodeChars == {"a", "1", "2"}
MCDigits == {"1", "2"}
MCDigitValue == [d \in MCDigits |-> IF d = "1" THEN 1 ELSE 2]
MCLower == {"a"}
MCPunctuation == {";", "'", ","}
MCNonAscii == {"cn"}

Runtime(tables, enabled, model) ==
  [tables |-> tables, prediction |-> [enabled |-> enabled, model |-> model]]
Plain == Runtime("first", FALSE, FALSE)
Predicting == Runtime("first", TRUE, FALSE)
Modelled == Runtime("first", TRUE, TRUE)
Reloaded == Runtime("second", TRUE, FALSE)

LexiconRuntimes == <<Predicting, Reloaded>>
WindowsRuntimes == <<Predicting, Plain, Reloaded>>
ModelRuntimes == <<Modelled, Predicting, Runtime("second", TRUE, TRUE)>>
MCRecall == [w \in {"W1", "W2"} |-> IF w = "W1" THEN <<"N1", "N2">> ELSE <<"N1">>]

Usual == [assist |-> TRUE, preedit |-> TRUE, insert |-> TRUE, purpose |-> "Text"]
OneContext == {Usual}
TouchContexts ==
  {Usual, [Usual EXCEPT !.preedit = FALSE], [Usual EXCEPT !.insert = FALSE],
   [Usual EXCEPT !.purpose = "Password"]}

TouchKeys ==
  {Typed("InputText", "a"), Act("Space"), Act("Cancel"), Act("Backspace"),
   ModeAct("SetBaseMode", "English"), ModeAct("BeginTemporary", "Pinyin")}
LegacyKeys ==
  {Legacy(CharEvent("Char", c)) : c \in {"a", ";", "1"}}
  \cup {Legacy(Event("Space")), Legacy(Event("Esc")), Legacy(SelectEvent(2))}

TouchAnswers == Outcomes
LegacyAnswers == {"Applied", "RejectedBeforeWrite", "OutcomeUnknown"}
NoProposals == {}
ModelProposals == {<<[id |-> 0, text |-> "M1"]>>}
MCWords == {<<>>, <<"W2">>}
=============================================================================
