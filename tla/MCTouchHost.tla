---------------------------- MODULE MCTouchHost ----------------------------
(***************************************************************************)
(* A small input method service: one code letter, two words, two editors,  *)
(* and a runtime that changes its table.                                   *)
(***************************************************************************)
EXTENDS TouchHost

Entry(code, word) == [code |-> code, word |-> word, weight |-> 1]
Table(entries) ==
  [main |-> entries,
   pinyin |-> [present |-> TRUE, entries |-> <<Entry(<<"a">>, "P1")>>], pinyinMax |-> 2,
   english |-> [present |-> TRUE, entries |-> <<>>], englishError |-> FALSE,
   charset |-> {"a"}, trigger |-> {";"},
   maxCode |-> 1, overflow |-> TRUE, autoCommit |-> FALSE, pageSize |-> 2]
MCTables ==
  [first |-> Table(<<Entry(<<"a">>, "W1")>>), second |-> Table(<<Entry(<<"a">>, "W2")>>)]

MCCodeChars == {"a", "1"}
MCDigits == {"1"}
MCDigitValue == [d \in MCDigits |-> 1]
MCLower == {"a"}
MCPunctuation == {";", "'", ","}
MCNonAscii == {"cn"}

Runtime(tables, enabled, model) ==
  [tables |-> tables, prediction |-> [enabled |-> enabled, model |-> model]]
MCRuntimes ==
  <<Runtime("first", TRUE, FALSE), Runtime("second", TRUE, FALSE), Runtime("first", TRUE, FALSE)>>
MCRecall == [w \in {"W1", "W2", "N1"} |-> IF w = "W1" THEN <<"N1">> ELSE <<"N2">>]

Usual == [purpose |-> "Text", preedit |-> TRUE, assist |-> TRUE]
MCEditors == <<Usual, [Usual EXCEPT !.preedit = FALSE]>>
MCWords == {<<"W2">>}

MCRequests ==
  {Typed("InputText", "a"), Act("Space"), Act("Backspace"), Act("CyclePinyin"),
   Act("ClearEditor"),
   [Act("PasteClipboard") EXCEPT !.text = <<"W1">>]}
=============================================================================
