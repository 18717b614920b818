------------------------------- MODULE Session -------------------------------
(***************************************************************************)
(* core_engine/session.rs: two-phase host editing.  A call is prepared     *)
(* into a plan with a unique token; the host performs it and its outcome   *)
(* is acknowledged.  LegacyV1 (Windows) advances the engine before the     *)
(* host answers and may be re-entered meanwhile; TouchV1 (Android) waits.  *)
(*                                                                         *)
(* A session is a record and every method an operator from a session to a  *)
(* session, in the order of the method's assignments, so that acknowledge, *)
(* which may apply a deferred runtime, is one step as it is under the      *)
(* caller's lock.  An optional field is a set of at most one element.      *)
(* SessionCalls makes the methods the actions of a specification.          *)
(***************************************************************************)
EXTENDS InputEngine

CONSTANTS
  Profile,     \* "Touch" or "Legacy": fixed when the session's engine is made
  Runtimes,    \* [revision -> [tables, prediction]]: the published runtime snapshots
  Recall,      \* [word -> sequence of texts]: what the lexicon recalls after a word
  PrefixLimit  \* how much of the committed prefix is kept

ASSUME SessionAssumption ==
  /\ Profile \in {"Touch", "Legacy"}
  /\ DOMAIN Runtimes \subseteq Nat /\ 1 \in DOMAIN Runtimes
  /\ \A r \in DOMAIN Runtimes : Runtimes[r].tables \in DOMAIN Tables
  /\ PrefixLimit \in Nat \ {0}

The(option) == CHOOSE x \in option : TRUE

Touch == Profile = "Touch"
Outcomes == {"Applied", "RejectedBeforeWrite", "PartiallyApplied", "OutcomeUnknown", "StaleContext"}

\* The resource set and the prediction settings a session is bound to.
R(s) == Runtimes[s.revision]
Prediction(s) == R(s).prediction   \* [enabled, model, limit]
Token(s) == <<s.generation, s.context.editor, s.context.epoch, s.revision>>

DefaultView ==
  [visible |-> FALSE, spelling |-> <<>>, items |-> <<>>, mode |-> "Main", prediction |-> FALSE]

NewSession(r, context) ==
  LET engine == NewEngine(Runtimes[r].tables, Profile, 1)
      allowed == /\ Runtimes[r].prediction.enabled
                 /\ context.purpose = "Text" /\ context.assist
  IN [engine |-> engine, published |-> engine, revision |-> r, generation |-> 0,
      gate |-> TRUE, context |-> context, view |-> DefaultView, pending |-> {},
      cleanup |-> {}, closed |-> FALSE, deferred |-> {}, prediction |-> {}, wait |-> {},
      prefix |-> [editor |-> <<context.editor, context.epoch>>, enabled |-> allowed,
                  generation |-> 1, text |-> <<>>]]

-----------------------------------------------------------------------------
(* The committed prefix (assistance/context.rs). *)

Allowed(s) == Prediction(s).enabled /\ s.context.purpose = "Text" /\ s.context.assist

InvalidatePrefix(s) ==
  [s EXCEPT !.prefix.text = <<>>, !.prefix.generation = @ + 1]

Bind(s) ==
  LET editor == <<s.context.editor, s.context.epoch>>
      same == s.prefix.editor = editor /\ s.prefix.enabled = Allowed(s)
      kept == IF same THEN s ELSE InvalidatePrefix(s)
  IN [kept EXCEPT !.prefix.editor = editor, !.prefix.enabled = Allowed(s)]

LastOf(text) ==
  IF Len(text) <= PrefixLimit THEN text
  ELSE SubSeq(text, Len(text) - PrefixLimit + 1, Len(text))

Observe(s, text) ==
  IF s.prefix.text = LastOf(text) THEN s
  ELSE [s EXCEPT !.prefix.text = LastOf(text), !.prefix.generation = @ + 1]

Commits(op) == op.kind \in {"Commit", "CommitThenUpdate"}

\* Confirmed text joins the prefix, an uncertain write discards it.
PrefixAcknowledged(s, p, outcome) ==
  LET replaced == Commits(p.op) /\ p.op.replace # 0 /\ ~p.owned
      known == IF replaced THEN <<>> ELSE s.prefix.text
      bumps == IF replaced THEN 2 ELSE 1
  IN CASE ~s.prefix.enabled \/ s.prefix.editor # <<s.context.editor, s.context.epoch>>
          \/ outcome = "RejectedBeforeWrite" -> s
       [] /\ s.prefix.enabled /\ s.prefix.editor = <<s.context.editor, s.context.epoch>>
          /\ outcome = "Applied" ->
            IF ~Commits(p.op) THEN s
            ELSE [s EXCEPT !.prefix.text = LastOf(known \o p.op.text),
                           !.prefix.generation = @ + bumps]
       [] OTHER -> InvalidatePrefix(s)

-----------------------------------------------------------------------------
(* Predictions. *)

\* Mutant of ClearPrediction: the request is not withdrawn.
ClearKeepsRequest(s) == [InvalidatePrefix(s) EXCEPT !.prediction = {}, !.view = DefaultView]

ClearPrediction(s) ==
  [InvalidatePrefix(s) EXCEPT !.wait = {}, !.prediction = {},
                              !.view = IF s.view.prediction THEN DefaultView ELSE @]

HasPrediction(s) == s.prediction # {} /\ s.wait = {}
Items(s) == The(s.prediction).items

Texts(items) == [i \in DOMAIN items |-> items[i].text]
PredictionView(items) ==
  [DefaultView EXCEPT !.visible = TRUE, !.items = Texts(items), !.prediction = TRUE]

Recalled(s) ==
  LET text == s.prefix.text
      found == IF text = <<>> \/ text[Len(text)] \notin DOMAIN Recall THEN <<>>
               ELSE Recall[text[Len(text)]]
  IN [i \in 1..Len(found) |-> [id |-> i - 1, text |-> found[i]]]

PlainRound(e) ==
  e.base = "Main" /\ TemporaryMode(e) = "None" /\ e.mode = "Main"

\* One list per acknowledged commit, so the generation names it: the code draws a
\* process-wide counter.
PublishPredictions(s) ==
  LET items == Recalled(s)
      query == <<0, s.generation>>
      model == Prediction(s).model
  IN IF /\ Allowed(s) /\ s.gate /\ PlainRound(s.engine) /\ s.engine.spelling = <<>>
        /\ items # <<>> \/ (model /\ s.prefix.text # <<>>)
     THEN [s EXCEPT
             !.prediction = {[query |-> query, items |-> items]},
             !.wait = IF model THEN {[token |-> Token(s), query |-> query,
                                      context |-> s.prefix.generation]} ELSE @,
             !.view = IF model THEN DefaultView ELSE PredictionView(items)]
     ELSE s

\* The answer of the model: the items to show, or none for a failure, a timeout, an
\* answer past the deadline or one that accepts nothing.
CompletePrediction(s, key, items) ==
  LET taken == [s EXCEPT !.wait = {}]
  IN CASE s.wait = {} \/ key \notin s.wait -> s
       [] key \in s.wait /\ (key.token # Token(s) \/ key.context # s.prefix.generation) ->
            [taken EXCEPT !.prediction = {}]
       [] /\ key \in s.wait /\ key.token = Token(s) /\ key.context = s.prefix.generation
          /\ \A p \in s.prediction : p.query # key.query -> taken
       [] OTHER ->
            IF items = <<>>
            THEN [taken EXCEPT !.prediction = {}, !.view = DefaultView]
            ELSE [taken EXCEPT !.prediction = {[query |-> key.query, items |-> items]},
                               !.view = PredictionView(items)]

SetAssistance(s, allowed) ==
  IF s.context.assist = allowed THEN s
  ELSE Bind([ClearPrediction(s) EXCEPT !.context.assist = allowed])

\* Mutant of ObservePrefix: the text is kept whatever the editor is.
ObserveAnyEditor(s, text) == Observe(s, text)

ObservePrefix(s, text) ==
  LET seen == Observe(s, text)
  IN IF Allowed(s) /\ s.prefix.enabled
        /\ s.prefix.editor = <<s.context.editor, s.context.epoch>>
     THEN IF s.prediction # {} /\ seen.prefix.text # s.prefix.text
          THEN [seen EXCEPT !.wait = {}, !.prediction = {}, !.view = DefaultView]
          ELSE seen
     ELSE s

-----------------------------------------------------------------------------
(* Plans. *)

Op(kind, text, replace, spelling, delete) ==
  [kind |-> kind, text |-> text, replace |-> replace, spelling |-> spelling, delete |-> delete]
NoOp == Op("NoOp", <<>>, 0, <<>>, FALSE)
CompositionUpdate(spelling) == Op("Update", <<>>, 0, spelling, FALSE)
CommitAndReplace(text, replace) == Op("Commit", text, replace, <<>>, FALSE)
EndComposition(delete) == Op("End", <<>>, 0, <<>>, delete)

PlanOp(step) ==
  LET spelling == step.engine.spelling
  IN CASE step.kind \in {"None", "Passthrough"} -> NoOp
       [] step.kind = "Commit" -> CommitAndReplace(step.text, 0)
       [] step.kind = "CommitThenUpdate" ->
            Op("CommitThenUpdate", step.text, step.replace, spelling, FALSE)
       [] step.kind = "Update" /\ spelling # <<>> -> CompositionUpdate(spelling)
       [] OTHER -> EndComposition(TRUE)

PlanView(step, current) ==
  LET e == step.engine
      composed == [DefaultView EXCEPT !.visible = TRUE, !.spelling = e.spelling, !.items = e.cands]
      view == CASE step.kind \in {"None", "Passthrough"} -> current
                [] step.kind \in {"Update", "CommitThenUpdate"}
                   /\ (e.spelling # <<>> \/ e.mode # "Main") -> composed
                [] OTHER -> DefaultView
  IN IF e.mode = "Main" THEN [view EXCEPT !.mode = "Main"]
     ELSE [view EXCEPT !.mode = e.mode, !.visible = TRUE, !.spelling = e.spelling]

\* What a touch host can be asked to do: no replacement lengths, no preedit it cannot
\* show, no end of a composition it does not own.
HostOp(s, op) ==
  LET free == [op EXCEPT !.replace = 0]
      shown == CASE s.context.preedit -> free
                 [] ~s.context.preedit /\ op.kind \in {"Update", "End"} -> NoOp
                 [] ~s.context.preedit /\ op.kind = "CommitThenUpdate" ->
                      CommitAndReplace(op.text, 0)
                 [] OTHER -> free
  IN IF ~Touch THEN op
     ELSE IF ~s.context.owns /\ shown.kind = "End" THEN NoOp ELSE shown

Unavailable(s, op) ==
  Touch /\ ~s.context.insert /\ op.kind \in {"Update", "Commit", "CommitThenUpdate"}

\* Mutant of StartPlan: the generation is used again.
StartPlanAgain(s, next) ==
  [s EXCEPT !.engine = IF Touch THEN @ ELSE next, !.prediction = {}]

StartPlan(s, next) ==
  [s EXCEPT !.generation = @ + 1, !.engine = IF Touch THEN @ ELSE next, !.prediction = {}]

\* parts: [op, view, consumed, unchanged, predict, cleanup, rollback]
Stage(s, next, parts) ==
  LET staged == StartPlan(s, next)
      hidden == Touch /\ s.context.purpose = "Password"
  IN IF s.closed \/ Unavailable(s, parts.op) THEN s
     ELSE [staged EXCEPT !.pending =
             {[token |-> Token(staged), owned |-> s.context.owns, previous |-> s.prediction,
               predict |-> parts.predict, op |-> HostOp(s, parts.op),
               unchanged |-> parts.unchanged,
               view |-> IF hidden THEN DefaultView ELSE parts.view,
               consumed |-> parts.consumed, next |-> next,
               rollback |-> parts.rollback, cleanup |-> parts.cleanup]}]

\* The plan of a control event: it empties the view.
StageCleared(s, next, op, cleanup) ==
  Stage(s, next, [op |-> op, view |-> DefaultView, consumed |-> TRUE, unchanged |-> FALSE,
                  predict |-> FALSE, cleanup |-> cleanup, rollback |-> {}])

-----------------------------------------------------------------------------
(* Preparing an action. *)

IsLegacy(a, keys) == a.op = "Legacy" /\ a.ev.key \in keys

\* A key that selects from the published prediction: the position it names.
KeyPosition(a) ==
  CASE a.op \in {"Space", "CommitPreferred"} \/ IsLegacy(a, {"Space"}) -> 1
    [] IsLegacy(a, {"Select"}) -> a.ev.n
    [] a.op \in {"InputCode", "InputText"} /\ a.c \in Digits -> DigitValue[a.c]
    [] IsLegacy(a, {"Char"}) /\ a.ev.c \in Digits -> DigitValue[a.ev.c]
    [] OTHER -> 0
PredictionKeys(s, a) ==
  {i \in {KeyPosition(a)} : HasPrediction(s) /\ i \in DOMAIN Items(s)}

Chosen(s, a) ==
  IF a.op = "SelectCandidate"
  THEN {i \in DOMAIN Items(s) : Items(s)[i].id = a.id /\ a.query = The(s.prediction).query}
  ELSE PredictionKeys(s, a)

\* A selection that names nothing in the published prediction.
StaleChoice(s, a) ==
  /\ s.prediction # {} /\ Chosen(s, a) = {}
  /\ a.op = "SelectCandidate" \/ IsLegacy(a, {"Select"})

Resolved(s, a) ==
  IF s.prediction # {} /\ Chosen(s, a) # {}
  THEN Literal(<<Items(s)[The(Chosen(s, a))].text>>) ELSE a

\* Keys that may move or delete text around the caret when nothing is composed.
LeavesPrefix(s, a) ==
  /\ \/ a.op \in {"Backspace", "Space", "Enter", "SetBaseMode", "BeginTemporary"}
     \/ IsLegacy(a, {"Backspace", "Space", "Enter"})
  /\ s.engine.spelling = <<>>

\* A restricted editor takes literal text only: typed text becomes literal, keys of
\* the editor are passed on, and anything else is refused.
Restricted(s) == Touch /\ s.context.purpose # "Text"
IsTyped(a) ==
  a.op \in {"InputText", "InputCode", "InputSymbol", "InsertLiteral"}
  \/ IsLegacy(a, {"Char", "Symbol"})
PassedOn(a) ==
  \/ a.op \in {"Space", "Enter", "Backspace", "Cancel", "CommitPreferred", "CommitRaw"}
  \/ IsLegacy(a, {"Space", "Enter", "Backspace", "Esc"})
AsLiteral(a) ==
  IF a.op = "InsertLiteral" THEN a
  ELSE Literal(<<IF a.op = "Legacy" THEN a.ev.c ELSE a.c>>)

\* The plan for one step of the engine.
PlanStep(s, a, wasLegacy, step) ==
  LET shown == s.prediction # {}
      current == IF shown THEN DefaultView ELSE s.view
      dismiss == shown /\ (a.op = "Cancel" \/ IsLegacy(a, {"Esc"}))
  IN IF step.kind = "Rejected" THEN s
     ELSE Stage(s, step.engine,
            [op |-> PlanOp(step), view |-> PlanView(step, current),
             consumed |-> dismiss \/ (s.gate /\ Disposition(step) = "Handled"),
             unchanged |-> step.kind \in {"None", "Passthrough"} /\ ~shown,
             predict |-> PlainRound(s.engine), cleanup |-> FALSE,
             rollback |-> IF wasLegacy /\ ~Touch /\ s.engine.mode # "Main"
                          THEN {s.engine} ELSE {}])

PrepareDispatched(s, a, wasLegacy) ==
  PlanStep(s, a, wasLegacy, IF s.gate THEN Dispatch(s.engine, a) ELSE None(s.engine))

Refused(s) == s.closed \/ s.cleanup # {} \/ (Touch /\ s.pending # {})

Prepare(s, a) ==
  LET settled == IF s.wait = {} THEN s ELSE [s EXCEPT !.wait = {}, !.prediction = {}]
      act == Resolved(settled, a)
      ready == IF LeavesPrefix(s, act) THEN InvalidatePrefix(settled) ELSE settled
  IN CASE Refused(s) \/ StaleChoice(settled, a) -> settled
       [] ~Refused(s) /\ ~StaleChoice(settled, a) /\ Restricted(s) /\ ~IsTyped(act) ->
            IF PassedOn(act)
            THEN Stage(ready, s.engine,
                   [op |-> NoOp, view |-> s.view, consumed |-> FALSE, unchanged |-> TRUE,
                    predict |-> FALSE, cleanup |-> FALSE, rollback |-> {}])
            ELSE ready
       [] OTHER ->
            PrepareDispatched(ready, IF Restricted(s) THEN AsLiteral(act) ELSE act,
                              ~Restricted(s) /\ act.op = "Legacy")

\* The Windows key test, without a system modifier.
WouldHandleLegacy(s, ev) ==
  LET a == Legacy(ev)
      e == s.engine
  IN \/ HasPrediction(s) /\ (PredictionKeys(s, a) # {} \/ ev.key \in {"Select", "Esc"})
     \/ /\ ~s.closed /\ s.cleanup = {} /\ s.gate /\ WouldHandle(e, a)
        /\ \/ e.mode # "Main" \/ e.spelling # <<>>
           \/ ev.key \in {"Char", "Symbol"} /\ IsTemporaryTrigger(e, ev.c)
           \/ ev.key \in {"Char", "Symbol"} /\ AcceptsCodeChar(e, ev.c)
           \/ ev.key = "Symbol" /\ ev.c \in NonAscii

-----------------------------------------------------------------------------
(* Control events. *)

InRound(e) == TemporaryMode(e) # "None" \/ e.mode = "Menu"
Emptied(e) == InvalidateQuery(ResetContext(e))

\* A host that shows no preedit has no range to finish: the raw text is inserted.
FinishOp(s) ==
  IF Touch /\ ~s.context.preedit /\ ~InRound(s.engine) /\ s.engine.spelling # <<>>
  THEN CommitAndReplace(s.engine.spelling, 0)
  ELSE EndComposition(InRound(s.engine))

\* Mutant of FreshEngine: the tables are swapped under the spelling and its query.
SwappedEngine(s, r, base) == [s.engine EXCEPT !.tables = Runtimes[r].tables]

FreshEngine(s, r, base) ==
  LET e == NewEngine(Runtimes[r].tables, Profile, s.generation + 2)
  IN IF base = "English" THEN InvalidateQuery(ChangeMode(e, "English", "None").engine) ELSE e

OnlyPredictionChanged(s, r) ==
  Runtimes[r].tables = R(s).tables /\ Runtimes[r].prediction # R(s).prediction

\* Mutant of InPlace: a plan that is out does not matter.
InPlaceAnyTime(s, r) == OnlyPredictionChanged(s, r)

\* A runtime that changes the prediction settings only keeps the engine and needs no plan.
InPlace(s, r) == s.pending = {} /\ OnlyPredictionChanged(s, r)

\* Mutant of Ignores: the order of arrival decides.
IgnoresCurrent(s, r) == s.closed \/ r = s.revision

\* A touch session takes newer runtimes only, and keeps the newest of those it defers.
Ignores(s, r) ==
  \/ s.closed \/ r = s.revision
  \/ Touch /\ (r < s.revision \/ \E d \in s.deferred : d > r)

ApplyRuntime(s, r) ==
  LET adopted == Bind(ClearPrediction([s EXCEPT !.revision = r]))
      next == FreshEngine(s, r, IF Touch THEN s.engine.base ELSE "Main")
      same == InvalidateQuery(s.engine)
  IN CASE Ignores(s, r) -> s
       [] ~Ignores(s, r) /\ Touch /\ s.pending # {} -> [s EXCEPT !.deferred = {r}]
       [] OTHER ->
            IF InPlace(s, r)
            THEN [adopted EXCEPT !.generation = @ + 1, !.engine = same, !.published = same]
            ELSE StageCleared([adopted EXCEPT !.engine = next], next, FinishOp(s), FALSE)

\* Mutant of AdoptDeferred: the context is lost and the deferred runtime waits on.
AdoptNothing(s, base) == s

\* The newest runtime deferred during an edit, adopted with the loss of the context.
AdoptDeferred(s, base) ==
  IF s.deferred = {} THEN s
  ELSE LET r == The(s.deferred)
       IN [s EXCEPT !.revision = r, !.deferred = {}, !.engine = FreshEngine(s, r, base)]

InvalidateContext(s, context, preserve) ==
  LET base == IF preserve THEN s.engine.base ELSE "Main"
      engine == InvalidateQuery(
                  IF preserve THEN ResetContext(s.engine)
                  ELSE NewEngine(s.engine.tables, Profile, s.generation + 2))
      left == Bind([ClearPrediction(s) EXCEPT !.context = context])
      adopted == AdoptDeferred(
                   [left EXCEPT !.pending = {}, !.cleanup = {}, !.engine = engine], base)
  IN Bind([adopted EXCEPT !.generation = @ + 1, !.published = adopted.engine,
                          !.view = DefaultView])

HostTerminated(s) ==
  InvalidateContext(s, [s.context EXCEPT !.owns = FALSE, !.epoch = @ + 1], Touch)

Close(s) == [HostTerminated(s) EXCEPT !.closed = TRUE, !.deferred = {}]

LoseFocus(s) ==
  StageCleared(ClearPrediction(s), Emptied(s.engine), FinishOp(s), FALSE)

SetInputGate(s, enabled) ==
  LET e == s.engine
      gated == ClearPrediction([s EXCEPT !.gate = enabled])
      op == CASE InRound(e) -> EndComposition(TRUE)
              [] ~InRound(e) /\ e.spelling # <<>> ->
                   CommitAndReplace(e.spelling, Len(e.spelling))
              [] OTHER -> EndComposition(FALSE)
  IN CASE s.closed \/ s.gate = enabled -> s
       [] ~s.closed /\ s.gate # enabled /\ enabled -> gated
       [] OTHER -> StageCleared(gated, Emptied(e), op, FALSE)

Recover(s) ==
  IF s.closed \/ s.cleanup = {} THEN s
  ELSE StageCleared(s, s.engine, EndComposition(The(s.cleanup)), TRUE)

-----------------------------------------------------------------------------
(* Acknowledging a plan. *)

IsCurrent(s, token) ==
  ~s.closed /\ token = Token(s) /\ \E p \in s.pending : p.token = token

OwnsAfter(s, op) ==
  CASE op.kind \in {"Update", "CommitThenUpdate"} -> s.context.preedit
    [] op.kind \in {"End", "Commit"} -> FALSE
    [] OTHER -> s.context.owns

AckApplied(s, p) ==
  LET published ==
        [s EXCEPT !.engine = p.next, !.published = p.next, !.cleanup = {},
                  !.view = IF p.unchanged THEN @ ELSE p.view,
                  !.context.owns = OwnsAfter(s, p.op)]
  IN IF p.predict /\ Commits(p.op) /\ p.op.text # <<>>
     THEN PublishPredictions(published) ELSE published

\* Nothing was written: the plan may be tried again.
Retains(s, p) ==
  ~p.cleanup /\ (Touch \/ p.rollback # {} \/ p.previous # {})
AckRetained(s, p) ==
  [s EXCEPT !.engine = IF p.rollback = {} THEN @ ELSE The(p.rollback),
            !.prediction = p.previous]

\* Mutant of Intent: the last plan decides, whatever was to be cleaned up.
IntentOfPlan(s, p) == p.op.kind = "End" /\ p.op.delete

\* Whether the preedit that may be left is to be deleted or kept.
Intent(s, p) ==
  IF s.cleanup = {} THEN p.op.kind = "End" /\ p.op.delete ELSE The(s.cleanup)

\* Mutant of Leftover: a preedit the host has already taken back is cleaned up too.
LeftoverAlways(s, p) == {Intent(s, p)}

Leftover(s, p) == IF ~Touch \/ s.context.owns THEN {Intent(s, p)} ELSE {}

\* The editor's text is uncertain: what was typed is dropped, never replayed.
AckUncertain(s, p) ==
  LET e == Emptied(s.engine)
  IN [s EXCEPT !.engine = e, !.published = e, !.view = DefaultView,
               !.cleanup = Leftover(s, p)]

Settle(s, p, outcome) ==
  CASE outcome = "Applied" -> AckApplied(s, p)
    [] outcome = "RejectedBeforeWrite" /\ Retains(s, p) -> AckRetained(s, p)
    [] outcome = "StaleContext" -> InvalidateContext(s, s.context, FALSE)
    [] OTHER -> AckUncertain(s, p)

\* The runtime deferred behind the plan is applied when the plan is settled.
Resumed(s) ==
  IF s.deferred = {} THEN s ELSE ApplyRuntime([s EXCEPT !.deferred = {}], The(s.deferred))

Acknowledge(s, token, outcome, owns) ==
  LET p == The(s.pending)
      taken == [s EXCEPT !.pending = {},
                         !.context.owns = IF Touch THEN owns ELSE @]
  IN IF IsCurrent(s, token)
     THEN Resumed(Settle(PrefixAcknowledged(taken, p, outcome), p, outcome))
     ELSE s

-----------------------------------------------------------------------------
(* What the fields of a session have to do with one another.  The modules that keep a       *)
(* session state these of their own.                                                        *)

\* The plan that is out is the one the token of the session names.
PlanIsCurrent(x) == \A p \in x.pending : p.token = Token(x) /\ ~x.closed

\* Nothing is offered after a commit, and nothing is asked of a model.
NothingPredicted(x) == x.prediction = {} /\ x.wait = {}

\* The model is asked about the present token, prefix and list, and the list is hidden.
RequestIsCurrent(x) ==
  \A w \in x.wait :
    /\ w.token = Token(x) /\ w.context = x.prefix.generation
    /\ \E p \in x.prediction : p.query = w.query
    /\ ~x.view.prediction

\* The prefix is bound to the editor, and empty where assistance is not allowed.
PrefixIsAllowed(x) ==
  /\ x.prefix.editor = <<x.context.editor, x.context.epoch>>
  /\ x.prefix.enabled = Allowed(x)
  /\ ~Allowed(x) => x.prefix.text = <<>>
=============================================================================
