---------------------------- MODULE SessionCalls ----------------------------
(***************************************************************************)
(* One session under its shell: the calls InputSession (Windows) and the   *)
(* native protocol (Android) make of it, each under the caller's lock, and *)
(* the host's answers between them.  The lock is dropped while the host    *)
(* works, so any call may come between a plan and its acknowledgement.     *)
(***************************************************************************)
EXTENDS Session

CONSTANTS
  Keys,          \* the actions the keyboard sends, candidate selections aside
  Contexts,      \* the editors: [assist, preedit, insert, purpose]
  Words,         \* the texts an editor may show before its caret
  Proposals,     \* the item lists a model may answer with
  Answers,       \* the outcomes its host reports
  Calls,         \* the calls the shell makes, a subset of AllCalls
  Nested,        \* those of them the host's callbacks may make while a plan is out
  MaxGeneration, \* bound: plans and context changes
  MaxPrefix      \* bound: changes of the committed prefix

AllCalls ==
  {"input", "recover", "offer", "gate", "focus", "context", "terminated", "close", "prefix",
   "assist"}

ASSUME CallsAssumption ==
  /\ Answers \subseteq Outcomes
  /\ Calls \subseteq AllCalls /\ Nested \subseteq Calls
  /\ \A a \in Keys : Suits(a, Profile)
  /\ \A text \in Words : text \in Seq({text[i] : i \in DOMAIN text})
  /\ MaxGeneration \in Nat /\ MaxPrefix \in Nat

VARIABLES
  session,
  newest   \* the newest runtime revision offered to the session

vars == <<session, newest>>
s == session

Editor(c, editor, epoch) ==
  [assist |-> c.assist, editor |-> editor, epoch |-> epoch, preedit |-> c.preedit,
   insert |-> c.insert, owns |-> FALSE, purpose |-> c.purpose]

Init ==
  /\ newest = 1
  /\ \E c \in Contexts : session = NewSession(1, Editor(c, 1, 0))

\* A call comes when no plan is out, or from a callback of the host.
Comes(call) ==
  /\ call \in Calls /\ (s.pending = {} \/ call \in Nested)
  /\ s.generation < MaxGeneration /\ s.prefix.generation < MaxPrefix

\* The shell's calls change the session alone.
Call(next) == session' = next /\ UNCHANGED newest

\* A click on a drawn candidate: of the engine's query or of the prediction list, the
\* current one or one drawn before.
Clicks ==
  {SelectCandidate(q, id) :
     q \in {s.published.query, <<s.published.query[1], s.published.query[2] - 1>>,
            <<0, s.generation>>, <<0, s.generation - 1>>},
     id \in 0..1}

\* The Windows shell prepares what its key test takes, and clicks on predictions only.
Offered(a) ==
  CASE Touch -> TRUE
    [] ~Touch /\ a.op = "SelectCandidate" -> HasPrediction(s)
    [] OTHER -> WouldHandleLegacy(s, a.ev)

Input(a) == Comes("input") /\ Offered(a) /\ Call(Prepare(s, a))

\* The host answers the plan of the newest token; an older token is no longer current and
\* its answer changes nothing.  A plan that writes nothing is not sent to the editor, and
\* only a touch host reports whether it still owns the preedit.
Answer(outcome, owns) ==
  /\ s.pending # {}
  /\ IsCurrent(s, The(s.pending).token)
  /\ owns => s.context.owns
  /\ ~Touch \/ outcome = "RejectedBeforeWrite" => owns = s.context.owns
  /\ The(s.pending).op.kind = "NoOp" => outcome = "Applied"
  /\ Call(Acknowledge(s, The(s.pending).token, outcome, owns))

RecoverCleanup == Comes("recover") /\ s.cleanup # {} /\ Call(Recover(s))
ToggleGate == Comes("gate") /\ Call(SetInputGate(s, ~s.gate))
FocusLost == Comes("focus") /\ ~s.closed /\ Call(LoseFocus(s))
\* Windows keeps the other fields of the context, Android starts it anew.
NextEditor(c) ==
  [Editor(c, s.context.editor + 1, s.context.epoch + 1)
     EXCEPT !.owns = ~Touch /\ s.context.owns]
ContextChanged(c, preserve) ==
  /\ Comes("context") /\ ~s.closed
  /\ Call(InvalidateContext(s, NextEditor(c), preserve))
Terminated == Comes("terminated") /\ ~s.closed /\ Call(HostTerminated(s))
Closed == Comes("close") /\ ~s.closed /\ Call(Close(s))

\* A snapshot may reach the session after a newer one.
Offer(r) ==
  /\ Comes("offer")
  /\ ~Touch => r >= newest
  /\ newest' = IF r > newest THEN r ELSE newest
  /\ session' = ApplyRuntime(s, r)

TextChanged == Comes("prefix") /\ Call(ClearPrediction(s))
PrefixRead(text) == Comes("prefix") /\ Call(ObservePrefix(s, text))
AssistanceSet == Comes("assist") /\ Call(SetAssistance(s, ~s.context.assist))

\* A score keeps some of the listed items in its own order, a proposal brings words of its
\* own; <<>> is a failure, a timeout or an answer that accepts nothing.
Scored(items) ==
  {<<>>} \cup {<<items[i]>> : i \in DOMAIN items}
         \cup {<<items[ij[1]], items[ij[2]]>> :
                 ij \in {p \in (DOMAIN items) \X (DOMAIN items) : p[1] # p[2]}}
ModelAnswered(items) ==
  /\ s.wait # {}
  /\ Call(CompletePrediction(s, The(s.wait), items))

Next ==
  \/ \E a \in Keys \cup Clicks : Input(a)
  \/ \E outcome \in Answers, owns \in BOOLEAN : Answer(outcome, owns)
  \/ RecoverCleanup \/ ToggleGate \/ FocusLost \/ Terminated \/ Closed
  \/ \E c \in Contexts, preserve \in BOOLEAN : ContextChanged(c, preserve)
  \/ \E r \in DOMAIN Runtimes : Offer(r)
  \/ TextChanged \/ AssistanceSet
  \/ \E text \in Words : PrefixRead(text)
  \/ \E items \in Proposals
       \cup UNION {Scored(p.items) : p \in s.prediction} : ModelAnswered(items)

Spec == Init /\ [][Next]_vars

\* Both shells acknowledge a plan as soon as the host call returns: weak fairness of the
\* answer, with its ENABLED written out (a plan is out), which TLC evaluates far faster.
Answered == \E outcome \in Answers, owns \in BOOLEAN : Answer(outcome, owns)
Fairness == []<>(session.pending = {}) \/ []<><<Answered>>_vars
FairSpec == Spec /\ Fairness

-----------------------------------------------------------------------------
\* The session record is well formed.
TypeOK ==
  /\ newest \in DOMAIN Runtimes /\ s.revision \in DOMAIN Runtimes
  /\ s.generation \in Nat /\ s.gate \in BOOLEAN /\ s.closed \in BOOLEAN
  /\ s.cleanup \subseteq BOOLEAN /\ Cardinality(s.cleanup) <= 1
  /\ s.deferred \subseteq DOMAIN Runtimes /\ Cardinality(s.deferred) <= 1
  /\ Cardinality(s.pending) <= 1 /\ Cardinality(s.prediction) <= 1
  /\ Cardinality(s.wait) <= 1
  /\ Len(s.prefix.text) <= PrefixLimit
  /\ s.engine.profile = Profile /\ s.published.profile = Profile

(***************************************************************************)
(* The plan a session keeps is the one its token names: whatever changes   *)
(* the generation, the editor, the epoch or the runtime also drops or      *)
(* replaces the plan, so that no answer is ever lost as stale while the    *)
(* session goes on waiting for it (is_current in session.rs).              *)
(***************************************************************************)
PendingIsCurrent == PlanIsCurrent(session)

\* While a plan is out the session offers no prediction and waits for no model: an answer
\* of the model cannot publish over the plan.
PlanHidesPredictions == s.pending # {} => NothingPredicted(s)

(***************************************************************************)
(* The model is asked about the present: the token, the prefix and the     *)
(* list of an awaited request are the session's own, so that whatever      *)
(* invalidates them also withdraws the request, and its list is hidden     *)
(* (complete_model_prediction re-checks all three when the answer comes).  *)
(***************************************************************************)
WaitIsCurrent == RequestIsCurrent(session)

\* A key selects only from a list that is on the screen, as it is on the screen
\* (prediction_key_index: hidden model work never turns a key into a selection).
SelectionIsVisible ==
  HasPrediction(s) => s.view = PredictionView(Items(s))

\* Nothing is predicted, and no text is kept, for an editor that does not allow it:
\* a password, an editor that asks for privacy, predictions switched off.
PrefixIsPrivate == PrefixIsAllowed(session)
PredictionIsAllowed ==
  s.prediction # {} => Allowed(s) /\ s.gate

IsShown(id, step) ==
  step.kind = "Commit" =>
    id + 1 \in DOMAIN AllCandidates(s.published)
    /\ step.text = <<AllCandidates(s.published)[id + 1]>>

(***************************************************************************)
(* A click on a published candidate commits the text that is shown, or is  *)
(* refused: a reload, a nested key, a mode change or a lost editor never   *)
(* lets it hit another word (the query revision of design section 7).      *)
(***************************************************************************)
ClicksCommitWhatTheyShow ==
  \A id \in 0..2 :
    IsShown(id, Dispatch(s.engine, SelectCandidate(s.published.query, id)))

\* What a session offers can be trusted, words and predictions alike: it is offered where it
\* may be, it is what the screen shows, and a choice commits it.
OfferedIsShown == TypeOK /\ SelectionIsVisible /\ PredictionIsAllowed /\ ClicksCommitWhatTheyShow

\* A touch session cleans up only while it still owns the preedit: otherwise the cleanup
\* would delete text of the new selection.
CleanupIsOwned ==
  s.cleanup # {} /\ Touch => s.context.owns

\* Whether the preedit is to be deleted or kept does not change while its cleanup is pending: no
\* call or answer in between puts the other intent in its place (recover_cleanup and
\* acknowledge_with_ownership).
CleanupKeepsIntent ==
  [][\A d \in s.cleanup : s'.cleanup \subseteq {d}]_vars
\* ... and is done only by an edit of that intent, or given up with the editor.  This the code
\* does not keep.
CleanupIsDoneAsMeant ==
  [][\A d \in s.cleanup, p \in s.pending :
       s'.cleanup = {} /\ s'.prefix.editor = s.prefix.editor /\ s'.generation = s.generation
         => p.op = EndComposition(d)]_vars

\* A deferred runtime waits for a plan, and is newer than the one in use.
DeferredWaits ==
  \A r \in s.deferred : r > s.revision /\ s.pending # {} /\ ~s.closed

\* A touch session is never left behind: it uses the newest runtime it was offered, or has
\* deferred it, whatever order the runtimes arrive in and whatever becomes of the edits.
NewestIsKept ==
  Touch /\ ~s.closed => newest \in {s.revision} \cup s.deferred

\* A token is never issued twice, and a generation never comes back.
TokensAreFresh ==
  [][/\ s'.generation >= s.generation
     /\ \A p \in s'.pending \ s.pending : p.token[1] > s.generation]_vars

\* A touch session never goes back to an older runtime.
RuntimesMoveForward ==
  [][Touch => s'.revision >= s.revision]_vars

IsTaken(a) == a.op = "Legacy" /\ WouldHandleLegacy(s, a.ev)
Consumed(next) == next.generation > s.generation /\ \A p \in next.pending : p.consumed

\* A key the test takes is a key the event handles: it is never taken from the editor and
\* then returned to it.  A quick-select key beyond the predictions is the exception, which
\* EveryTakenKeyIsHandled does not make.
TakenKeysAreHandled ==
  \A a \in Keys : IsTaken(a) /\ ~StaleChoice(s, a) => Consumed(Prepare(s, a))
EveryTakenKeyIsHandled ==
  \A a \in Keys : IsTaken(a) => Consumed(Prepare(s, a))

\* Every deferred runtime is adopted, or a newer one is, unless the session is closed.
DeferredIsAdopted ==
  \A r \in DOMAIN Runtimes : r \in s.deferred ~> (s.revision >= r \/ s.closed)
=============================================================================
