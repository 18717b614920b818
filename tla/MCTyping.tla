------------------------------- MODULE MCTyping -------------------------------
(***************************************************************************)
(* Small instances of Typing: two code letters, a digit, a comma and one   *)
(* non-ASCII character; tables with overflow, an automatic commit, more    *)
(* than one page, an absent pinyin table and a broken English one.         *)
(***************************************************************************)
EXTENDS Typing

Entry(code, word, weight) == [code |-> code, word |-> word, weight |-> weight]
Present(entries) == [present |-> TRUE, entries |-> entries]
Absent == [present |-> FALSE, entries |-> <<>>]

MainEntries ==
  << Entry(<<"a">>, "W1", 1), Entry(<<"a">>, "W2", 2),
     Entry(<<"a", "b">>, "W3", 9), Entry(<<"a", "b">>, "W1", 3),
     Entry(<<"b", "a">>, "W4", 1), Entry(<<"b", "b">>, "W5", 1),
     Entry(<<"b", "b">>, "W6", 5) >>
PinyinEntries == << Entry(<<"a">>, "P1", 1), Entry(<<"a", "b">>, "P2", 1),
                    Entry(<<"b">>, "P3", 1) >>
EnglishEntries == << Entry(<<"a", "b">>, "E1", 1) >>

Resources(pinyin, english, error, overflow, auto, size, charset) ==
  [main |-> MainEntries, pinyin |-> pinyin, pinyinMax |-> 2, english |-> english,
   englishError |-> error, charset |-> charset, trigger |-> {";"},
   maxCode |-> 2, overflow |-> overflow, autoCommit |-> auto, pageSize |-> size]

MCTables ==
  [full |-> Resources(Present(PinyinEntries), Present(EnglishEntries), FALSE, TRUE, TRUE, 2, {"a", "b"}),
   bare |-> Resources(Absent, Absent, TRUE, FALSE, FALSE, 1, {"a", "b", "cn"})]

MCCodeChars == {"a", "b", "1", "2"}
MCDigits == {"1", "2"}
MCDigitValue == [d \in MCDigits |-> IF d = "1" THEN 1 ELSE 2]
MCLower == {"a", "b"}
MCPunctuation == {",", "'", ";"}
MCNonAscii == {"cn"}

TouchKeys ==
  {Typed(op, c) : op \in {"InputText", "InputCode"}, c \in {"a", "b", "1", ",", "'"}}
  \cup {Typed("InputSymbol", ","), Typed("InputText", "cn"), Literal(<<"L">>), Literal(<<>>)}
  \cup {Act(op) : op \in {"CommitPreferred", "CommitRaw", "Space", "Enter", "Backspace",
                          "Cancel", "EndTemporary", "OpenModeChooser", "CloseModeChooser"}}
  \cup {[Act("MovePage") EXCEPT !.id = d] : d \in {0, 1}}
  \cup {ModeAct("SetBaseMode", m) : m \in {"Main", "English"}}
  \cup {ModeAct(op, m) : op \in {"BeginTemporary", "ChooseMode"}, m \in TemporaryModes}

LegacyKeys ==
  {Legacy(CharEvent("Char", c)) : c \in {"a", "b", "1", "2", ",", "'", ";"}}
  \cup {Legacy(CharEvent("Symbol", c)) : c \in {",", "cn", ";"}}
  \cup {Legacy(Event(k)) : k \in {"Space", "Enter", "Backspace", "Esc", "PageNext", "PagePrev"}}
  \cup {Legacy(SelectEvent(n)) : n \in 0..3}

MCKeyboards == [profile \in {"Touch", "Legacy"} |->
                  IF profile = "Touch" THEN TouchKeys ELSE LegacyKeys]
=============================================================================
