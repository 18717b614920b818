----------------------------- MODULE InputEngine -----------------------------
(***************************************************************************)
(* The pure input engine of core_engine: the StateMachine that turns key   *)
(* events into spelling, candidates and committed text, its routing of     *)
(* temporary (one-round) input, and the SemanticEngine around it that adds *)
(* a persistent base mode, a temporary overlay and a query revision.       *)
(*                                                                         *)
(* An engine is a record; every operation is an operator from an engine to *)
(* an engine or to a result.  A character is a string of one letter, a     *)
(* spelling a sequence of characters, a committed text a sequence of       *)
(* characters and words.  Hints, presentation and view revisions are left  *)
(* out: no operation reads them back.                                      *)
(***************************************************************************)
EXTENDS Integers, Sequences, FiniteSets

CONSTANTS
  Tables,      \* [name -> resource set]: what one runtime snapshot binds an engine to
  CodeChars,   \* the ASCII letters and digits in use
  Digits,      \* the ASCII digits among CodeChars
  DigitValue,  \* [Digits -> 0..9]
  Lower,       \* the ASCII lower-case letters among CodeChars
  Punctuation, \* the ASCII punctuation characters in use
  NonAscii     \* the non-ASCII characters in use

ASSUME CharAssumption ==
  /\ Digits \subseteq CodeChars
  /\ Lower \subseteq CodeChars \ Digits
  /\ DigitValue \in [Digits -> 0..9]
  /\ Punctuation \cap CodeChars = {}
  /\ NonAscii \cap (CodeChars \cup Punctuation) = {}

Chars == CodeChars \cup Punctuation \cup NonAscii
Apostrophe == "'"
Alphabetic == CodeChars \ Digits

Modes == {"Main", "Menu", "Pinyin", "English"}
TemporaryModes == {"Pinyin", "English"}

\* A dictionary is a sequence of entries [code, word, weight] in the order of their codes; the
\* temporary ones are optional: [present, entries].  The engine raises both limits to one.
ASSUME ResourceAssumption ==
  \A t \in DOMAIN Tables :
    LET r == Tables[t]
        isDictionary(d) == DOMAIN d = 1..Len(d) /\ Len(d) \in Nat
    IN /\ isDictionary(r.main)
       /\ isDictionary(r.pinyin.entries) /\ isDictionary(r.english.entries)
       /\ r.pageSize \in Nat \ {0} /\ r.maxCode \in Nat \ {0}
T(e) == Tables[e.tables]

-----------------------------------------------------------------------------
(* Dictionary search: exact codes first, then heavier words, one entry a word. *)

HasPrefix(s, p) == Len(p) <= Len(s) /\ SubSeq(s, 1, Len(p)) = p

Search(dict, key) ==
  LET exact(i) == dict[i].code = key
      hits == {i \in DOMAIN dict : key # <<>> /\ HasPrefix(dict[i].code, key)}
      met(i, j) == (exact(i) /\ ~exact(j)) \/ (exact(i) = exact(j) /\ i < j)
      kept == {j \in hits : \A i \in hits : dict[i].word = dict[j].word => ~met(i, j)}
      ahead(i, j) == \/ exact(i) /\ ~exact(j)
                     \/ exact(i) = exact(j) /\ dict[i].weight > dict[j].weight
                     \/ exact(i) = exact(j) /\ dict[i].weight = dict[j].weight /\ i < j
  IN [n \in 1..Cardinality(kept) |->
        dict[CHOOSE j \in kept : Cardinality({i \in kept : ahead(i, j)}) = n - 1].word]

-----------------------------------------------------------------------------
(* The state machine. *)

NewEngine(tables, profile, id) ==
  [tables |-> tables, profile |-> profile,
   mode |-> "Main", spelling |-> <<>>, page |-> 0, cands |-> <<>>, total |-> 0,
   state |-> "Idle", base |-> "Main", temporary |-> "None", query |-> <<id, 0>>]

\* Mutant of Reset: the candidate page survives the spelling it was found for.
ResetKeepsPage(e) ==
  [e EXCEPT !.mode = "Main", !.spelling = <<>>, !.page = 0, !.state = "Idle"]
Reset(e) == [e EXCEPT !.mode = "Main", !.spelling = <<>>, !.page = 0,
                      !.cands = <<>>, !.total = 0, !.state = "Idle"]
ResetCandidates(e) == [e EXCEPT !.cands = <<>>, !.total = 0, !.page = 0]

AcceptsCodeChar(e, c) == c \in CodeChars \cup T(e).charset
IsTemporaryTrigger(e, c) == e.mode = "Main" /\ e.spelling = <<>> /\ c \in T(e).trigger

\* The leading run of code characters: punctuation after it is buffered, never looked up.
LookupKey(e) ==
  LET codes(n) == \A i \in 1..n : AcceptsCodeChar(e, e.spelling[i])
  IN SubSeq(e.spelling, 1, CHOOSE n \in 0..Len(e.spelling) :
                              codes(n) /\ (n = Len(e.spelling) \/ ~codes(n + 1)))
HasBufferedPunctuation(e) == LookupKey(e) # e.spelling

Page(e, all) ==
  LET first == e.page * T(e).pageSize
      upto(n) == IF n < Len(all) THEN n ELSE Len(all)
  IN SubSeq(all, upto(first) + 1, upto(first + T(e).pageSize))
TotalPages(e) ==
  LET pages == (e.total + T(e).pageSize - 1) \div T(e).pageSize
  IN IF pages = 0 THEN 1 ELSE pages

Shown(e, all) == [e EXCEPT !.cands = Page(e, all), !.total = Len(all)]
Snapshot(e) == Shown(e, Search(T(e).main, LookupKey(e)))
WithState(e) == [e EXCEPT !.state = IF e.cands = <<>> THEN "Composing" ELSE "Selecting"]

CanSelectWithDigit(e, c) ==
  /\ c \in Digits /\ DigitValue[c] # 0
  /\ e.state = "Selecting" /\ ~HasBufferedPunctuation(e)

\* A step of the machine: the engine after it and the visible transition.
Step(e, kind, text, replace) ==
  [engine |-> e, kind |-> kind, text |-> text, replace |-> replace]
None(e) == Step(e, "None", <<>>, 0)
Commit(e, text) == Step(e, "Commit", text, 0)
Update(e) == Step(e, "Update", <<>>, 0)
Cleared(e) == Step(e, "Cleared", <<>>, 0)
Passthrough(e) == Step(e, "Passthrough", <<>>, 0)

CommitAndStartNext(e, c) ==
  Step(WithState(Snapshot([Reset(e) EXCEPT !.spelling = <<c>>])),
       "CommitThenUpdate", <<e.cands[1]>>, Len(e.spelling))

BufferSymbol(e, c) ==
  IF ~HasBufferedPunctuation(e) /\ e.cands # <<>>
  THEN Commit(Reset(e), <<e.cands[1], c>>)
  ELSE Update([ResetCandidates(e) EXCEPT !.spelling = Append(e.spelling, c),
                                         !.state = "Composing"])

OnSymbol(e, c) ==
  CASE e.spelling # <<>> -> BufferSymbol(e, c)
    [] e.spelling = <<>> /\ c \in NonAscii -> Commit(e, <<c>>)
    [] OTHER -> Passthrough(e)

\* The spelling has just changed: look it up again unless punctuation is buffered.
Refresh(e) ==
  IF HasBufferedPunctuation(e)
  THEN [ResetCandidates(e) EXCEPT !.state = "Composing"]
  ELSE WithState(Snapshot([e EXCEPT !.page = 0]))

Pushed(e) ==
  IF /\ T(e).autoCommit /\ e.total = 1 /\ ~HasBufferedPunctuation(e)
     /\ Len(e.spelling) >= T(e).maxCode
  THEN Commit(Reset(e), <<e.cands[1]>>)
  ELSE Update(e)

PushCode(e, c) ==
  Pushed(Refresh([e EXCEPT !.spelling = Append(e.spelling, c)]))

OnCodeChar(e, c) ==
  LET inTable == c \in T(e).charset
      overflow == /\ e.state = "Selecting" /\ ~HasBufferedPunctuation(e)
                  /\ T(e).overflow /\ e.cands # <<>>
                  /\ Len(LookupKey(e)) >= T(e).maxCode
  IN CASE c \in Punctuation /\ ~inTable ->
            IF e.spelling = <<>> THEN Passthrough(e) ELSE OnSymbol(e, c)
       [] c \in NonAscii /\ ~inTable -> Passthrough(e)
       [] OTHER -> IF overflow THEN CommitAndStartNext(e, c) ELSE PushCode(e, c)

OnSelect(e, n) ==
  IF n \in 1..Len(e.cands) THEN Commit(Reset(e), <<e.cands[n]>>) ELSE Passthrough(e)

OnChar(e, c) ==
  IF c \notin T(e).charset /\ CanSelectWithDigit(e, c)
  THEN OnSelect(e, DigitValue[c])
  ELSE OnCodeChar(e, c)

OnSpace(e) ==
  CASE e.spelling = <<>> -> Passthrough(e)
    [] e.spelling # <<>> /\ (HasBufferedPunctuation(e) \/ e.cands = <<>>) ->
         Commit(Reset(e), e.spelling)
    [] OTHER -> Commit(Reset(e), <<e.cands[1]>>)

\* Mutants of OnEnter: an idle Enter is swallowed; the spelling is reset before it is read.
OnEnterSwallows(e) == IF e.spelling = <<>> THEN None(e) ELSE Commit(Reset(e), e.spelling)
OnEnterTooLate(e) ==
  IF e.spelling = <<>> THEN Passthrough(e) ELSE Commit(Reset(e), Reset(e).spelling)
OnEnter(e) == IF e.spelling = <<>> THEN Passthrough(e) ELSE Commit(Reset(e), e.spelling)

OnBackspace(e) ==
  CASE e.spelling = <<>> -> Passthrough(e)
    [] Len(e.spelling) = 1 -> Cleared(Reset(e))
    [] OTHER -> Update(Refresh([e EXCEPT !.spelling = SubSeq(@, 1, Len(@) - 1)]))

\* Mutant of OnEsc: the spelling is dropped and the key still reaches the editor.
OnEscPasses(e) == Passthrough(Reset(e))
OnEsc(e) == IF e.spelling = <<>> THEN Passthrough(e) ELSE Cleared(Reset(e))

TurnPage(e, to) ==
  IF to \in 0..(TotalPages(e) - 1)
  THEN Update(Snapshot([e EXCEPT !.page = to]))
  ELSE None(e)

-----------------------------------------------------------------------------
(* Temporary input: its own routing, no overflow, no automatic commit. *)

MenuLabels == <<"menu-pinyin", "menu-english">>

TemporaryDict(e) == IF e.mode = "Pinyin" THEN T(e).pinyin ELSE T(e).english

\* An absent dictionary has no entries, so that its search finds nothing.
ShownTemporary(e) ==
  IF e.mode = "Menu"
  THEN [e EXCEPT !.cands = MenuLabels, !.total = 2, !.state = "Selecting"]
  ELSE WithState(Shown(e, Search(TemporaryDict(e).entries, e.spelling)))
RefreshTemporary(e) == Update(ShownTemporary(e))

PinyinRoom(e, c) ==
  LET letters == {i \in DOMAIN e.spelling : e.spelling[i] # Apostrophe}
  IN IF c = Apostrophe
     THEN e.spelling # <<>> /\ e.spelling[Len(e.spelling)] # Apostrophe
     ELSE c \in Lower /\ Cardinality(letters) < T(e).pinyinMax

SelectTemporary(e, n) ==
  IF n \in 1..Len(e.cands) THEN Commit(Reset(e), <<e.cands[n]>>) ELSE None(e)

ChooseFromMenu(e, n) ==
  CASE n = 1 /\ T(e).pinyin.present ->
         RefreshTemporary([ResetCandidates(e) EXCEPT !.mode = "Pinyin"])
    [] n = 2 /\ ~T(e).englishError ->
         RefreshTemporary([ResetCandidates(e) EXCEPT !.mode = "English"])
    [] OTHER -> None(e)

HandleTemporary(e, ev) ==
  CASE ev.key = "Esc" \/ (ev.key = "Backspace" /\ e.spelling = <<>>) -> Cleared(Reset(e))
    [] e.mode = "Menu" /\ ~(ev.key = "Backspace" /\ e.spelling = <<>>) /\ ev.key # "Esc" ->
         ChooseFromMenu(e, CASE ev.key = "Select" -> ev.n
                             [] ev.key = "Char" /\ ev.c \in Digits -> DigitValue[ev.c]
                             [] OTHER -> 0)
    [] e.mode # "Menu" /\ ev.key = "Backspace" /\ e.spelling # <<>> ->
         RefreshTemporary([e EXCEPT !.spelling = SubSeq(@, 1, Len(@) - 1), !.page = 0])
    [] e.mode # "Menu" /\ ev.key \in {"Enter", "Space"} ->
         IF e.spelling = <<>> THEN None(e)
         ELSE Commit(Reset(e), IF ev.key = "Space" /\ e.cands # <<>> THEN <<e.cands[1]>>
                               ELSE e.spelling)
    [] e.mode # "Menu" /\ ev.key = "Select" -> SelectTemporary(e, ev.n)
    [] e.mode # "Menu" /\ ev.key = "Char" /\ ev.c \in Digits ->
         SelectTemporary(e, DigitValue[ev.c])
    [] /\ e.mode # "Menu" /\ ev.key \in {"Char", "Symbol"}
       /\ ~(ev.key = "Char" /\ ev.c \in Digits) ->
         IF e.mode = "Pinyin" => PinyinRoom(e, ev.c)
         THEN RefreshTemporary([e EXCEPT !.spelling = Append(@, ev.c), !.page = 0])
         ELSE None(e)
    [] e.mode # "Menu" /\ ev.key = "PageNext" /\ e.page + 1 < TotalPages(e) ->
         RefreshTemporary([e EXCEPT !.page = @ + 1])
    [] e.mode # "Menu" /\ ev.key = "PagePrev" /\ e.page > 0 ->
         RefreshTemporary([e EXCEPT !.page = @ - 1])
    [] OTHER -> None(e)

HandleMain(e, ev) ==
  CASE ev.key \in {"Char", "Symbol"} /\ IsTemporaryTrigger(e, ev.c) ->
         RefreshTemporary([e EXCEPT !.mode = "Menu"])
    [] ev.key = "Char" /\ ~IsTemporaryTrigger(e, ev.c) -> OnChar(e, ev.c)
    [] ev.key = "Symbol" /\ ~IsTemporaryTrigger(e, ev.c) ->
         IF ev.c \in T(e).charset THEN OnChar(e, ev.c) ELSE OnSymbol(e, ev.c)
    [] ev.key = "Space" -> OnSpace(e)
    [] ev.key = "Enter" -> OnEnter(e)
    [] ev.key = "Backspace" -> OnBackspace(e)
    [] ev.key = "Esc" -> OnEsc(e)
    [] ev.key = "Select" -> OnSelect(e, ev.n)
    [] ev.key = "PageNext" -> TurnPage(e, e.page + 1)
    [] ev.key = "PagePrev" -> TurnPage(e, e.page - 1)

Handle(e, ev) == IF e.mode = "Main" THEN HandleMain(e, ev) ELSE HandleTemporary(e, ev)

\* The routing prediction of one event, made without performing it.
WouldConsume(e, ev) ==
  CASE e.mode # "Main" -> TRUE
    [] e.mode = "Main" /\ ev.key \in {"Char", "Symbol"} ->
         \/ IsTemporaryTrigger(e, ev.c)
         \/ IF ev.key = "Char"
            THEN IF ev.c \notin T(e).charset /\ CanSelectWithDigit(e, ev.c)
                 THEN DigitValue[ev.c] \in 1..Len(e.cands)
                 ELSE \/ AcceptsCodeChar(e, ev.c)
                      \/ ev.c \in Punctuation /\ e.spelling # <<>>
            ELSE ev.c \in T(e).charset \cup NonAscii \/ e.spelling # <<>>
    [] e.mode = "Main" /\ ev.key = "Select" -> ev.n \in 1..Len(e.cands)
    [] e.mode = "Main" /\ ev.key \in {"PageNext", "PagePrev"} -> TRUE
    [] OTHER -> e.spelling # <<>>

-----------------------------------------------------------------------------
(* The semantic engine. *)

Keystrokes ==
  {"Char", "Symbol", "Space", "Enter", "Backspace", "Esc", "Select", "PageNext", "PagePrev"}
Operations ==
  {"Legacy", "SelectCandidate", "SetBaseMode", "BeginTemporary", "ChooseMode", "EndTemporary",
   "CloseModeChooser", "OpenModeChooser", "InputCode", "InputText", "InputSymbol",
   "InsertLiteral", "CommitPreferred", "CommitRaw", "Space", "Enter", "Backspace", "Cancel",
   "MovePage"}

\* An action is [op, ev, c, mode, text, query, id]; an operation reads the fields it needs.
Event(key) == [key |-> key, c |-> "", n |-> 0]
CharEvent(key, c) == [key |-> key, c |-> c, n |-> 0]
SelectEvent(n) == [key |-> "Select", c |-> "", n |-> n]
Act(op) == [op |-> op, ev |-> Event(""), c |-> "", mode |-> "", text |-> <<>>,
            query |-> <<0, 0>>, id |-> 0]
Legacy(ev) == [Act("Legacy") EXCEPT !.ev = ev]
Typed(op, c) == [Act(op) EXCEPT !.c = c]
ModeAct(op, mode) == [Act(op) EXCEPT !.mode = mode]
Literal(text) == [Act("InsertLiteral") EXCEPT !.text = text]
SelectCandidate(query, id) == [Act("SelectCandidate") EXCEPT !.query = query, !.id = id]

\* The actions a keyboard can send.  A symbol is no letter and no digit; the touch protocol
\* has none of the legacy events.
IsAction(a) ==
  /\ a.op \in Operations
  /\ a.op = "Legacy" =>
       /\ a.ev.key \in Keystrokes
       /\ a.ev.key = "Char" => a.ev.c \in Chars
       /\ a.ev.key = "Symbol" => a.ev.c \in Punctuation \cup NonAscii
  /\ a.op \in {"InputCode", "InputText"} => a.c \in Chars
  /\ a.op = "SetBaseMode" => a.mode \in {"Main", "English"}
  /\ a.op \in {"BeginTemporary", "ChooseMode"} => a.mode \in TemporaryModes
  /\ a.op = "InsertLiteral" => a.text \in Seq({a.text[i] : i \in DOMAIN a.text})
  /\ a.op = "SelectCandidate" => a.id \in Nat
Suits(a, profile) == IsAction(a) /\ (a.op = "Legacy" <=> profile = "Legacy")

InvalidateQuery(e) == [e EXCEPT !.query = <<@[1], @[2] + 1>>]

TemporaryMode(e) ==
  IF e.profile = "Touch" THEN e.temporary
  ELSE IF e.mode \in TemporaryModes THEN e.mode ELSE "None"

PersistentEnglish(e) == e.base = "English" /\ e.temporary = "None"

Available(e, mode) ==
  IF mode = "Pinyin" THEN T(e).pinyin.present
  ELSE e.profile = "Touch" \/ ~T(e).englishError

EndTemporary(e) ==
  InvalidateQuery([Reset(e) EXCEPT !.temporary = "None",
                                   !.mode = IF e.base = "English" THEN "English" ELSE "Main"])
ResetContext(e) == EndTemporary(e)

\* The full result list of the current query, from which a window is copied.
AllCandidates(e) ==
  IF e.spelling = <<>> \/ e.cands = <<>> \/ e.mode = "Menu" THEN <<>>
  ELSE IF e.mode = "Main" THEN Search(T(e).main, LookupKey(e))
  ELSE Search(TemporaryDict(e).entries, e.spelling)

Rejected(e) == Step(e, "Rejected", <<>>, 0)

ChangeMode(e, base, temporary) ==
  LET unchanged == \/ base = e.base /\ e.temporary = "None"
                   \/ temporary # "None" /\ TemporaryMode(e) = temporary
      needs == IF temporary # "None" THEN {temporary}
               ELSE IF base = "English" THEN {"English"} ELSE {}
      newBase == IF base = "" THEN e.base ELSE base
      raw == IF TemporaryMode(e) = "None" /\ e.mode # "Menu" THEN e.spelling ELSE <<>>
      changed == [Reset(e) EXCEPT
                    !.base = newBase, !.temporary = temporary,
                    !.mode = IF temporary # "None" THEN temporary
                             ELSE IF newBase = "English" THEN "English" ELSE "Main"]
  IN CASE unchanged -> None(e)
       [] ~unchanged /\ (\E m \in needs : ~Available(e, m)) -> Rejected(e)
       [] OTHER -> IF raw = <<>> THEN Cleared(changed) ELSE Commit(changed, raw)

PreferredText(e) ==
  IF HasBufferedPunctuation(e) \/ e.cands = <<>> THEN e.spelling ELSE <<e.cands[1]>>

InsertLiteral(e, text) ==
  IF text = <<>> THEN None(e)
  ELSE Commit(Reset(e), (IF e.spelling = <<>> THEN <<>>
                         ELSE IF e.mode = "Main" THEN PreferredText(e)
                         ELSE e.spelling) \o text)

InputCode(e, c) ==
  CASE e.mode = "Main" ->
         IF AcceptsCodeChar(e, c) THEN OnCodeChar(e, c) ELSE Rejected(e)
    [] e.mode = "Pinyin" ->
         IF c \in Lower \/ c = Apostrophe
         THEN HandleTemporary(e, CharEvent("Char", c)) ELSE Rejected(e)
    [] e.mode = "English" ->
         RefreshTemporary([e EXCEPT !.spelling = Append(@, c), !.page = 0])
    [] e.mode = "Menu" -> Rejected(e)

InputText(e, c) ==
  LET literal == \/ e.mode = "Main" /\ c \notin Alphabetic \cup T(e).charset
                 \/ e.mode # "Main" /\ PersistentEnglish(e) /\ c \notin Alphabetic \cup NonAscii
                 \/ e.mode # "Main" /\ c \in Digits
                 \/ e.mode = "Pinyin" /\ c \notin Lower \cup {Apostrophe}
  IN IF literal THEN InsertLiteral(e, <<c>>)
     ELSE IF e.mode = "Main" THEN OnCodeChar(e, c)
     ELSE HandleTemporary(e, CharEvent("Char", c))

SelectById(e, query, id) ==
  IF query = e.query /\ id + 1 \in DOMAIN AllCandidates(e)
  THEN Commit(EndTemporary(e), <<AllCandidates(e)[id + 1]>>)
  ELSE Rejected(e)

\* After a semantic action a finished temporary round falls back to the base mode.
FallBack(e) ==
  IF e.mode = "Main" /\ e.profile = "Touch"
  THEN [e EXCEPT !.temporary = "None",
                 !.mode = IF e.base = "English" THEN "English" ELSE "Main"]
  ELSE e

\* The key event an action stands for.
AsEvent(a) ==
  CASE a.op = "Legacy" -> a.ev
    [] a.op = "Cancel" -> Event("Esc")
    [] a.op = "MovePage" -> Event(IF a.id = 1 THEN "PageNext" ELSE "PagePrev")
    [] OTHER -> Event(a.op)

Perform(e, a) ==
  LET empty == e.spelling = <<>>
      persistent == PersistentEnglish(e)
  IN CASE a.op = "SelectCandidate" -> SelectById(e, a.query, a.id)
       [] a.op = "SetBaseMode" -> ChangeMode(e, a.mode, "None")
       [] a.op \in {"BeginTemporary", "ChooseMode"} -> ChangeMode(e, "", a.mode)
       [] a.op \in {"EndTemporary", "CloseModeChooser"} ->
            IF TemporaryMode(e) = "None" /\ e.mode # "Menu" THEN None(e)
            ELSE Cleared(EndTemporary(e))
       [] a.op = "OpenModeChooser" ->
            IF empty THEN RefreshTemporary([e EXCEPT !.mode = "Menu"]) ELSE Rejected(e)
       [] a.op = "InputCode" -> InputCode(e, a.c)
       [] a.op = "InputText" -> InputText(e, a.c)
       [] a.op = "InputSymbol" -> InsertLiteral(e, <<a.c>>)
       [] a.op = "InsertLiteral" -> InsertLiteral(e, a.text)
       [] a.op = "CommitPreferred" ->
            IF empty THEN None(e) ELSE Commit(Reset(e), PreferredText(e))
       [] a.op = "CommitRaw" -> IF empty THEN None(e) ELSE Commit(Reset(e), e.spelling)
       [] persistent /\ a.op = "Space" ->
            Commit(Reset(e), (IF empty THEN <<>> ELSE PreferredText(e)) \o <<" ">>)
       [] persistent /\ empty /\ a.op \in {"Enter", "Backspace"} -> Passthrough(e)
       [] OTHER -> Handle(e, AsEvent(a))

\* Mode changes, the chooser when it ends a round and rejections return before FallBack.
ReturnsEarly(e, a, step) ==
  \/ step.kind = "Rejected"
  \/ a.op \in {"SetBaseMode", "BeginTemporary", "ChooseMode", "Legacy"}
  \/ a.op \in {"EndTemporary", "CloseModeChooser"} /\ step.kind = "None"

\* The whole dispatch: any change of the round gives the query a new revision.
Concluded(e, a, step) ==
  LET after == IF ReturnsEarly(e, a, step) THEN step.engine ELSE FallBack(step.engine)
      round(x) == <<x.spelling, x.mode, x.base, x.temporary>>
      stale == \/ round(e) # round(after)
               \/ step.kind \in {"Commit", "Cleared", "CommitThenUpdate"}
  IN [step EXCEPT !.engine = IF stale THEN InvalidateQuery(after) ELSE after]
Dispatch(e, a) == Concluded(e, a, Perform(e, a))

Disposition(step) ==
  IF step.kind = "Rejected" THEN "Rejected"
  ELSE IF step.kind = "Passthrough" THEN "NotHandled" ELSE "Handled"

\* The routing prediction of one action, made without a search.
WouldHandle(e, a) ==
  CASE a.op = "SelectCandidate" ->
         a.query = e.query /\ e.mode # "Menu" /\ a.id < e.total
    [] a.op = "Legacy" -> WouldConsume(e, a.ev)
    [] a.op = "InputCode" ->
         \/ e.mode = "Main" /\ AcceptsCodeChar(e, a.c)
         \/ e.mode = "Pinyin" /\ (a.c \in Lower \/ a.c = Apostrophe)
         \/ e.mode = "English"
    [] a.op = "InsertLiteral" -> a.text # <<>>
    [] a.op = "Space" -> WouldConsume(e, Event("Space"))
    [] a.op \in {"Enter", "Backspace"} ->
         IF PersistentEnglish(e) THEN e.spelling # <<>> ELSE WouldConsume(e, Event(a.op))
    [] a.op = "Cancel" -> WouldConsume(e, Event("Esc"))
    [] OTHER -> TRUE

-----------------------------------------------------------------------------
(* What the fields of an engine have to do with one another.  The modules that keep an      *)
(* engine state these of their own.                                                         *)

\* The list the code would find if it searched again for the current spelling.
Found(e) ==
  CASE e.mode = "Main" /\ HasBufferedPunctuation(e) -> <<>>
    [] e.mode = "Main" /\ ~HasBufferedPunctuation(e) -> Search(T(e).main, e.spelling)
    [] e.mode = "Menu" -> MenuLabels
    [] OTHER -> Search(TemporaryDict(e).entries, e.spelling)

\* The cached page, the cached total and the state are those of a fresh search.
PageIsFresh(e) ==
  /\ e.mode # "Menu" =>
       /\ e.cands = Page(e, Found(e))
       /\ e.total = Len(Found(e))
       /\ e.page < TotalPages(e)
  /\ e.cands # <<>> <=> e.state = "Selecting"

\* A temporary overlay shows its own mode, and without one the persistent base mode shows.
ModeIsOverlay(e) ==
  e.mode # "Menu" /\ e.profile = "Touch" =>
    e.mode = IF e.temporary # "None" THEN e.temporary ELSE e.base

IsStart(text, of) == Len(text) <= Len(of) /\ SubSeq(of, 1, Len(text)) = text

\* What was typed stays in the spelling, or is committed ahead of anything else: raw, or as
\* one of its candidates.
KeepsTyped(e, step) ==
  \/ IsStart(e.spelling, step.engine.spelling)
  \/ /\ step.kind \in {"Commit", "CommitThenUpdate"}
     /\ \/ IsStart(e.spelling, step.text)
        \/ step.text # <<>> /\ step.text[1] \in {Found(e)[i] : i \in DOMAIN Found(e)}

\* An automatic commit: the new character has completed a unique code.
CompletesCode(e, c, step) ==
  step.kind = "Commit" /\ step.text = Search(T(e).main, Append(e.spelling, c))

\* The key test and the outcome of the key do not contradict one another.
Agrees(a, outcome, promised) ==
  /\ outcome = "NotHandled" => ~promised
  /\ outcome = "Handled" => promised \/ (a.op = "InsertLiteral" /\ a.text = <<>>)
  /\ a.op = "SelectCandidate" => (promised <=> outcome = "Handled")

\* Actions whose purpose is to drop what was typed, or part of it.
Drops(a) ==
  \/ a.op \in {"Cancel", "Backspace", "EndTemporary", "CloseModeChooser"}
  \/ a.op = "Legacy" /\ a.ev.key \in {"Esc", "Backspace"}

KeepsText(e, a, step) ==
  \/ KeepsTyped(e, step)
  \/ /\ a.op \in {"Legacy", "InputCode", "InputText"}
     /\ CompletesCode(e, IF a.op = "Legacy" THEN a.ev.c ELSE a.c, step)
=============================================================================
