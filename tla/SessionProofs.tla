---------------------------- MODULE SessionProofs ----------------------------
(***************************************************************************)
(* Theorems about SessionCalls, for every keyboard, host, set of runtimes  *)
(* and order of calls.  Good(x) and Deferral(x, n) of SessionLemmas make   *)
(* the inductive invariant, and Steady(x) what is proved of the engines    *)
(* with it.  The last section is about Typing, the engine alone:           *)
(* EngineOk(e) of SessionLemmas is its invariant.                          *)
(***************************************************************************)
EXTENDS SessionCalls, Typing, SessionLemmas

USE DEF SessionFields, ContextFields, PrefixFields
-----------------------------------------------------------------------------
(* The specification. *)

IInv == Good(session) /\ Deferral(session, newest) /\ Owned(session)

LEMMA InitIInv == Init => IInv
<1> SUFFICES ASSUME newest = 1, NEW c \in Contexts, session = NewSession(1, Editor(c, 1, 0))
             PROVE  IInv
  BY DEF Init
<1>1. DOMAIN Editor(c, 1, 0) = ContextFields
  BY DEF Editor
<1> QED BY <1>1, NewGood, SessionAssumption DEF IInv

\* What every step does: the invariant, and the action properties at once.
Progress ==
  /\ IInv' /\ Advances(session, session') /\ KeepsIntent(session, session')
  /\ Touch => session'.revision >= session.revision

LEMMA KeptProgress ==
  ASSUME IInv, Kept(session, session'), UNCHANGED newest
  PROVE  Progress
<1>1. Moves(session, session', newest)
  BY KeptMoves DEF IInv
<1>2. KeepsIntent(session, session') /\ Owned(session')
  BY DEF IInv, Good, FewRequests, Few, Kept, KeepsCleanup, KeepsIntent, Owned
<1> QED BY <1>1, <1>2 DEF Moves, Kept, IInv, Progress

LEMMA LostProgress ==
  ASSUME IInv, Good(session'), session'.pending = {}, session'.deferred = {},
         session'.cleanup = {},
         session'.closed = session.closed \/ session'.closed,
         session'.revision = Adopted(session),
         session'.generation = session.generation + 1, UNCHANGED newest
  PROVE  Progress
<1>1. Moves(session, session', newest)
  BY AdoptedMoves DEF IInv
<1>2. Advances(session, session')
  BY DEF Advances, IInv, Good, Shape
<1>3. KeepsIntent(session, session') /\ Owned(session')
  BY DEF KeepsIntent, Owned
<1> QED BY <1>1, <1>2, <1>3 DEF Moves, IInv, Progress

LEMMA NextProgress == IInv /\ [Next]_vars => Progress
<1> SUFFICES ASSUME IInv, [Next]_vars
             PROVE  Progress
  OBVIOUS
<1> USE DEF s, Call
<1>0. Good(session) /\ Shape(session) /\ Deferral(session, newest) /\ Owned(session)
  BY DEF IInv, Good
<1>1. ASSUME NEW a, Input(a)
      PROVE  Progress
  BY <1>0, <1>1, PrepareGood, KeptProgress DEF Input
<1>2. ASSUME NEW outcome, NEW owns, Answer(outcome, owns)
      PROVE  Progress
  <2> DEFINE token == The(session.pending).token
             y == Acknowledge(session, token, outcome, owns)
  <2>1. session' = y /\ UNCHANGED newest
    BY <1>2 DEF Answer
  <2>2. /\ Good(y) /\ Advances(session, y) /\ Moves(session, y, newest)
        /\ AnswerTaken(session, y, token, outcome, owns)
    BY <1>0, AcknowledgeGood
  <2>3. Touch /\ outcome = "RejectedBeforeWrite" => owns = session.context.owns
    BY <1>2 DEF Answer
  <2> HIDE DEF y, token
  <2> QED BY <1>0, <2>1, <2>2, <2>3 DEF Moves, AnswerTaken, IInv, Progress
<1>3. CASE RecoverCleanup
  BY <1>0, <1>3, RecoverGood, KeptProgress DEF RecoverCleanup
<1>4. CASE ToggleGate
  BY <1>0, <1>4, GateGood, KeptProgress DEF ToggleGate
<1>5. CASE FocusLost
  BY <1>0, <1>5, LoseFocusGood, KeptProgress DEF FocusLost
<1>6. CASE Terminated
  <2>1. Lost(session, session') /\ UNCHANGED newest
    BY <1>0, <1>6, TerminatedLost DEF Terminated
  <2> QED BY <2>1, LostProgress DEF Lost
<1>7. CASE Closed
  <2> DEFINE y == Close(session)
  <2>1. session' = y /\ UNCHANGED newest
    BY <1>7 DEF Closed
  <2>2. Good(y) /\ y.closed /\ y.deferred = {} /\ y.pending = {} /\ y.cleanup = {}
        /\ y.generation = session.generation + 1 /\ y.revision = Adopted(session)
    BY <1>0, CloseGood
  <2> HIDE DEF y
  <2> QED BY <2>1, <2>2, LostProgress
<1>8. ASSUME NEW c \in Contexts, NEW preserve, ContextChanged(c, preserve)
      PROVE  Progress
  <2> DEFINE editor == NextEditor(c)
  <2>1. DOMAIN editor = ContextFields
    BY DEF NextEditor, Editor
  <2>2. session' = InvalidateContext(session, editor, preserve) /\ UNCHANGED newest
    BY <1>8 DEF ContextChanged
  <2> HIDE DEF editor
  <2>3. Lost(session, session')
    BY <1>0, <2>1, <2>2, ContextLost
  <2> QED BY <2>2, <2>3, LostProgress DEF Lost
<1>9. ASSUME NEW r \in DOMAIN Runtimes, Offer(r)
      PROVE  Progress
  <2> DEFINE y == ApplyRuntime(session, r)
             m == IF r > newest THEN r ELSE newest
  <2>1. session' = y /\ newest' = m
    BY <1>9 DEF Offer
  <2>2. /\ Good(y) /\ Advances(session, y) /\ Taken(session, y, r)
        /\ KeepsCleanup(session, y)
    BY <1>0, ApplyGood
  <2>3. Moves(session, y, m)
    BY <1>0, <2>2, OfferMoves
  <2> HIDE DEF y, m
  <2>4. KeepsIntent(session, y) /\ Owned(y)
    BY <1>0, <2>2 DEF Good, FewRequests, Few, KeepsCleanup, KeepsIntent, Owned
  <2> QED BY <2>1, <2>2, <2>3, <2>4 DEF Moves, IInv, Progress
<1>10. CASE TextChanged
  BY <1>0, <1>10, ClearGood, KeptProgress DEF TextChanged
<1>11. CASE AssistanceSet
  BY <1>0, <1>11, AssistanceGood, KeptProgress DEF AssistanceSet
<1>12. ASSUME NEW text, PrefixRead(text)
       PROVE  Progress
  BY <1>0, <1>12, ObserveGood, KeptProgress DEF PrefixRead
<1>13. ASSUME NEW items, ModelAnswered(items)
       PROVE  Progress
  BY <1>0, <1>13, CompleteGood, KeptProgress DEF ModelAnswered
<1>14. CASE UNCHANGED vars
  <2>1. session' = session /\ newest' = newest
    BY <1>14 DEF vars
  <2>2. Kept(session, session')
    BY <1>0, <2>1, KeptReflexive
  <2> QED BY <2>1, <2>2, KeptProgress
<1> QED BY <1>1, <1>2, <1>3, <1>4, <1>5, <1>6, <1>7, <1>8, <1>9, <1>10, <1>11, <1>12,
           <1>13, <1>14 DEF Next

LEMMA SpecIInv == Spec => []IInv
<1>1. IInv /\ [Next]_vars => IInv'
  BY NextProgress DEF Progress
<1> QED BY InitIInv, <1>1, PTL DEF Spec

\* The plan a session keeps is always the one its token names, whatever the order of the
\* calls: no answer is lost as stale while the session waits for it.
THEOREM PlansAreCurrent == Spec => []PendingIsCurrent
<1>1. IInv => PendingIsCurrent
  BY DEF IInv, Good, PendingIsCurrent
<1> QED BY SpecIInv, <1>1, PTL

\* While a plan is out no prediction is offered and no model is waited for, so that an
\* answer of the model never publishes over a plan.
THEOREM PlansHidePredictions == Spec => []PlanHidesPredictions
<1>1. IInv => PlanHidesPredictions
  BY DEF IInv, Good, PlanHidesPredictions, s
<1> QED BY SpecIInv, <1>1, PTL

\* An awaited request is about the present token, prefix and list.
THEOREM RequestsAreCurrent == Spec => []WaitIsCurrent
<1>1. IInv => WaitIsCurrent
  BY DEF IInv, Good, WaitIsCurrent
<1> QED BY SpecIInv, <1>1, PTL

\* No text is kept for an editor that does not allow it, in any order of setting changes,
\* editor changes and acknowledgements.
THEOREM PrefixesArePrivate == Spec => []PrefixIsPrivate
<1>1. IInv => PrefixIsPrivate
  BY DEF IInv, Good, PrefixIsPrivate
<1> QED BY SpecIInv, <1>1, PTL

\* A runtime is deferred only while a plan is out, and only for a newer one.
THEOREM DeferredRuntimesWait == Spec => []DeferredWaits
<1>1. IInv => DeferredWaits
  BY DEF IInv, Deferral, DeferredWaits, s
<1> QED BY SpecIInv, <1>1, PTL

\* A touch session uses or has deferred the newest runtime it was offered, whatever order
\* the runtimes arrive in and whatever becomes of the edits.
THEOREM NewestIsNeverLost == Spec => []NewestIsKept
<1>1. IInv => NewestIsKept
  BY DEF IInv, Deferral, NewestIsKept, s
<1> QED BY SpecIInv, <1>1, PTL

\* A touch session that must clean up still owns the preedit it would delete, as long as a
\* host that rejected a plan reports the ownership it had before.
THEOREM CleanupsAreOwned == Spec => []CleanupIsOwned
<1>1. IInv => CleanupIsOwned
  BY DEF IInv, Owned, CleanupIsOwned, s
<1> QED BY SpecIInv, <1>1, PTL

\* While a preedit is to be cleaned up, what is to be done with it, to delete or to keep it, does
\* not change: no call, plan or outcome turns one into the other.  What ends the cleanup may
\* be an edit of the other intent all the same (CleanupIsDoneAsMeant).
THEOREM CleanupsKeepTheirIntent == Spec => CleanupKeepsIntent
<1>1. IInv /\ [Next]_vars => [\A d \in s.cleanup : s'.cleanup \subseteq {d}]_vars
  BY NextProgress DEF Progress, KeepsIntent, s
<1> QED BY SpecIInv, <1>1, PTL DEF CleanupKeepsIntent, Spec

\* No token is issued twice: a new plan has a generation of its own.
THEOREM TokensAreNeverReused == Spec => TokensAreFresh
<1>1. IInv /\ [Next]_vars =>
        [/\ s'.generation >= s.generation
         /\ \A p \in s'.pending \ s.pending : p.token[1] > s.generation]_vars
  <2> SUFFICES ASSUME IInv, [Next]_vars
               PROVE  /\ s'.generation >= s.generation
                      /\ \A p \in s'.pending \ s.pending : p.token[1] > s.generation
    OBVIOUS
  <2>1. IInv' /\ Advances(session, session')
    BY NextProgress DEF Progress
  <2>2. session.generation \in Nat /\ session'.generation \in Nat
    BY <2>1 DEF IInv, Good, Shape
  <2>3. \A p \in session'.pending : p.token[1] = session'.generation
    BY <2>1 DEF IInv, Good, PlanIsCurrent, Token
  <2> QED BY <2>1, <2>2, <2>3 DEF Advances, s
<1> QED BY SpecIInv, <1>1, PTL DEF TokensAreFresh, Spec

\* A touch session never goes back to an older runtime.
THEOREM RuntimesNeverGoBack == Spec => RuntimesMoveForward
<1>1. IInv /\ [Next]_vars => [Touch => s'.revision >= s.revision]_vars
  BY NextProgress DEF Progress, s
<1> QED BY SpecIInv, <1>1, PTL DEF RuntimesMoveForward, Spec

-----------------------------------------------------------------------------
(***************************************************************************)
(* The session and its engine together: Steady(session) says what is       *)
(* offered and which engines there are.  Seen(session) is about the        *)
(* screen; the Windows shell clears the prefix and the assistance while a  *)
(* plan is out, and a refused plan then brings back a list that is no      *)
(* longer on the screen, so it is proved for the hosts that do not.        *)
(***************************************************************************)
Undisturbed == Nested \cap {"prefix", "assist"} = {}

\* What every step keeps.
StaysSteady ==
  Steady(session') /\ (Undisturbed /\ Seen(session) => Seen(session'))

LEMMA InputsAreSent ==
  ASSUME NEW a \in Keys \cup Clicks
  PROVE  Sent(a)
<1>1. CASE a \in Keys
  BY <1>1, CallsAssumption DEF Suits, Sent
<1>2. CASE a \in Clicks
  <2> DEFINE Q == {s.published.query, <<s.published.query[1], s.published.query[2] - 1>>,
                   <<0, s.generation>>, <<0, s.generation - 1>>}
             I == 0..1
  <2>1. a \in {SelectCandidate(q, id) : q \in Q, id \in I} /\ I \subseteq Nat
    BY <1>2 DEF Clicks
  <2> HIDE DEF Q, I
  <2>2. PICK q \in Q, id \in I : a = SelectCandidate(q, id)
    BY <2>1
  <2>3. a.op = "SelectCandidate" /\ a.id \in Nat
    BY <2>1, <2>2, ClickFields
  <2> QED BY <2>3 DEF Sent, IsAction, Operations
<1> QED BY <1>1, <1>2

LEMMA InitSteady == Init => Steady(session) /\ Seen(session)
<1> SUFFICES ASSUME NEW c \in Contexts, session = NewSession(1, Editor(c, 1, 0))
             PROVE  Steady(session) /\ Seen(session)
  BY DEF Init
<1>1. Steady(session) /\ ~Offers(session)
  BY NewSteady, SessionAssumption
<1> QED BY <1>1, NothingSeen

LEMMA NextSteady == IInv /\ Steady(session) /\ [Next]_vars => StaysSteady
<1> SUFFICES ASSUME IInv, Steady(session), [Next]_vars
             PROVE  StaysSteady
  OBVIOUS
<1> USE DEF s, Call
<1>0. /\ Good(session) /\ Shape(session) /\ (session.deferred # {} => Touch)
      /\ session.gate \in BOOLEAN
  BY DEF IInv, Good, Deferral, Steady, FieldsOk
<1>a. ASSUME ~Offers(session'), Steady(session')
      PROVE  StaysSteady
  BY <1>a, NothingSeen DEF StaysSteady
<1>1. ASSUME NEW a \in Keys \cup Clicks, Input(a)
      PROVE  StaysSteady
  BY <1>0, <1>1, InputsAreSent, PrepareSteady DEF Input, StaysSteady
<1>2. ASSUME NEW outcome, NEW owns, Answer(outcome, owns)
      PROVE  StaysSteady
  BY <1>0, <1>2, AcknowledgeSteady DEF Answer, StaysSteady
<1>3. CASE RecoverCleanup
  BY <1>0, <1>3, RecoverSteady DEF RecoverCleanup, StaysSteady
<1>4. CASE ToggleGate
  BY <1>0, <1>4, GateSteady DEF ToggleGate, StaysSteady
<1>5. CASE FocusLost
  BY <1>0, <1>5, LoseFocusSteady DEF FocusLost, StaysSteady
<1>6. CASE Terminated
  BY <1>0, <1>6, <1>a, TerminatedSteady DEF Terminated
<1>7. CASE Closed
  BY <1>0, <1>7, <1>a, CloseSteady DEF Closed
<1>8. ASSUME NEW c \in Contexts, NEW preserve, ContextChanged(c, preserve)
      PROVE  StaysSteady
  <2> DEFINE editor == NextEditor(c)
  <2>1. DOMAIN editor = ContextFields
    BY DEF NextEditor, Editor
  <2>2. session' = InvalidateContext(session, editor, preserve)
    BY <1>8 DEF ContextChanged
  <2> HIDE DEF editor
  <2> QED BY <1>0, <1>a, <2>1, <2>2, LostSteady
<1>9. ASSUME NEW r \in DOMAIN Runtimes, Offer(r)
      PROVE  StaysSteady
  BY <1>0, <1>9, ApplySteady DEF Offer, StaysSteady
<1>10. CASE TextChanged
  <2>1. session' = ClearPrediction(session) /\ (Undisturbed => session.pending = {})
    BY <1>10 DEF TextChanged, Comes, Undisturbed
  <2> QED BY <1>0, <2>1, ClearSteady DEF StaysSteady
<1>11. CASE AssistanceSet
  <2>1. /\ session' = SetAssistance(session, ~session.context.assist)
        /\ Undisturbed => session.pending = {}
    BY <1>11 DEF AssistanceSet, Comes, Undisturbed
  <2> QED BY <1>0, <2>1, AssistanceSteady DEF StaysSteady
<1>12. ASSUME NEW text \in Words, PrefixRead(text)
       PROVE  StaysSteady
  <2>1. session' = ObservePrefix(session, text) /\ (Undisturbed => session.pending = {})
    BY <1>12 DEF PrefixRead, Comes, Undisturbed
  <2>2. IsSeq(text)
    BY CallsAssumption DEF IsSeq
  <2> QED BY <1>0, <2>1, <2>2, ObserveSteady DEF StaysSteady
<1>13. ASSUME NEW items, ModelAnswered(items)
       PROVE  StaysSteady
  BY <1>0, <1>13, CompleteSteady DEF ModelAnswered, StaysSteady
<1>14. CASE UNCHANGED vars
  BY <1>14 DEF vars, StaysSteady
<1> QED BY <1>1, <1>2, <1>3, <1>4, <1>5, <1>6, <1>7, <1>8, <1>9, <1>10, <1>11, <1>12,
           <1>13, <1>14 DEF Next

LEMMA SpecSteady == Spec => []Steady(session)
<1>1. Init => Steady(session)
  BY InitSteady
<1>2. IInv /\ Steady(session) /\ [Next]_vars => Steady(session)'
  BY NextSteady DEF StaysSteady
<1> QED BY SpecIInv, <1>1, <1>2, PTL DEF Spec

\* A key the key test takes from the editor is a key its event handles, in every state the
\* calls and callbacks of the shell can lead to.
THEOREM TakenKeysAreNotReturned == Spec => []TakenKeysAreHandled
<1>1. IInv /\ Steady(session) => TakenKeysAreHandled
  <2> SUFFICES ASSUME IInv, Steady(session), NEW a \in Keys, IsTaken(a),
                      ~StaleChoice(session, a)
               PROVE  Consumed(Prepare(session, a))
    BY DEF TakenKeysAreHandled, s
  <2> DEFINE y == Prepare(session, a)
  <2>1. Sent(a) /\ a.op = "Legacy" /\ WouldHandleLegacy(session, a.ev)
    BY InputsAreSent DEF IsTaken, s
  <2>2. ~Touch
    BY <2>1, CallsAssumption DEF Suits, Touch
  <2>3. Shape(session) /\ session.generation \in Nat
    BY DEF IInv, Good, Shape
  <2>4. y.generation = session.generation + 1 /\ \A p \in y.pending : p.consumed
    BY <2>1, <2>2, <2>3, TakenIsHandled
  <2> HIDE DEF y
  <2>5. Consumed(y)
    BY <2>3, <2>4 DEF Consumed, s
  <2> QED BY <2>5 DEF y
<1> QED BY SpecIInv, SpecSteady, <1>1, PTL

\* A click on a published candidate commits the word it shows or is refused, whatever came
\* between the drawing and the click.
THEOREM ClicksHitWhatTheyShow == Spec => []ClicksCommitWhatTheyShow
<1>1. Steady(session) => ClicksCommitWhatTheyShow
  <2> SUFFICES ASSUME Steady(session), NEW id \in 0..2
               PROVE  IsShown(id, Dispatch(s.engine, SelectCandidate(s.published.query, id)))
    BY DEF ClicksCommitWhatTheyShow
  <2>1. ClickShows(session, id)
    BY ClicksShow
  <2> QED BY <2>1 DEF ClickShows, IsShown, s
<1> QED BY SpecSteady, <1>1, PTL

\* The session record is well formed: no optional field holds two values.
THEOREM SessionsAreWellFormed == Spec => []TypeOK
<1>1. IInv /\ Steady(session) => TypeOK
  <2> SUFFICES ASSUME IInv, Steady(session)
               PROVE  TypeOK
    OBVIOUS
  <2>1. \A S : Few(S) => Cardinality(S) <= 1
    <3> SUFFICES ASSUME NEW S, Few(S) PROVE Cardinality(S) <= 1
      OBVIOUS
    <3>1. S = {} \/ \E e : S = {e}
      BY DEF Few
    <3>2. Cardinality({}) = 0 /\ \A e : Cardinality({e}) = 1
      BY FS_EmptySet, FS_Singleton
    <3>3. Cardinality(S) \in {0, 1}
      BY <3>1, <3>2
    <3> QED BY <3>3
  <2>2. Few(session.deferred)
    BY DEF IInv, Deferral, Few
  <2>3. /\ Few(session.cleanup) /\ Few(session.pending) /\ Few(session.prediction)
        /\ Few(session.wait)
    BY DEF IInv, Good, FewPlans, FewRequests
  <2>4. newest \in DOMAIN Runtimes /\ session.generation \in Nat
    BY DEF IInv, Good, Shape, Deferral
  <2>5. session.engine.profile = Profile /\ session.published.profile = Profile
    BY MineFields DEF Steady, EnginesOk, EnginesBase
  <2> QED BY <2>1, <2>2, <2>3, <2>4, <2>5 DEF TypeOK, Steady, FieldsOk, PrefixOk, s
<1> QED BY SpecIInv, SpecSteady, <1>1, PTL

\* What a session offers can be trusted: it is offered where it may be, it is what the screen
\* shows and a choice commits it, for every host whose callbacks leave the prefix and the
\* assistance alone while a plan is out, as the Android service's do.
THEOREM OffersAreShown ==
  ASSUME Undisturbed
  PROVE  Spec => []OfferedIsShown
<1>1. Init => Seen(session)
  BY InitSteady
<1>2. IInv /\ Steady(session) /\ Seen(session) /\ [Next]_vars => Seen(session)'
  BY NextSteady DEF StaysSteady
<1>3. Steady(session) /\ Seen(session) => SelectionIsVisible /\ PredictionIsAllowed
  BY DEF Steady, OffersOk, Offers, Open, Seen, SelectionIsVisible, PredictionIsAllowed,
         HasPrediction, s
<1>4. TypeOK /\ ClicksCommitWhatTheyShow /\ SelectionIsVisible /\ PredictionIsAllowed
        => OfferedIsShown
  BY DEF OfferedIsShown
<1> QED BY SpecIInv, SpecSteady, SessionsAreWellFormed, ClicksHitWhatTheyShow,
           <1>1, <1>2, <1>3, <1>4, PTL DEF Spec

-----------------------------------------------------------------------------
(***************************************************************************)
(* The engine alone, under every keyboard (Typing).  EngineOk of           *)
(* SessionLemmas is the inductive invariant, and DispatchSound says what   *)
(* any action does to an engine that satisfies it.                         *)
(***************************************************************************)
EngineIInv == EngineOk(engine) /\ engine.profile \in DOMAIN Keyboards

LEMMA ActionsAreSent ==
  ASSUME EngineIInv, NEW a \in Actions(engine)
  PROVE  Sends(engine, a)
<1>1. CASE a \in Keyboards[engine.profile]
  <2>1. Suits(a, engine.profile)
    BY <1>1, TypingAssumption DEF EngineIInv
  <2> QED BY <2>1 DEF Suits, Sends
<1>2. CASE a \in EngineClicks(engine)
  <2> DEFINE V == {engine.query[2], engine.query[2] - 1}
             I == 0..2
  <2>0. a \in {SelectCandidate(<<1, v>>, id) : v \in V, id \in I} /\ I \subseteq Nat
    BY <1>2 DEF EngineClicks
  <2> HIDE DEF V, I
  <2>1. PICK v \in V, id \in I : a = SelectCandidate(<<1, v>>, id)
    BY <2>0
  <2>2. a.op = "SelectCandidate" /\ a.id = id
    BY <2>1, ClickFields
  <2>3. a.id \in Nat
    BY <2>0, <2>2
  <2> QED BY <2>2, <2>3 DEF Sends, IsAction, Operations
<1> QED BY <1>1, <1>2 DEF Actions

LEMMA EngineInitIInv == EngineInit => EngineIInv
<1> SUFFICES ASSUME NEW t \in DOMAIN Tables, NEW profile \in DOMAIN Keyboards,
                    engine = NewEngine(t, profile, 1)
             PROVE  EngineIInv
  BY DEF EngineInit
<1>1. profile \in {"Touch", "Legacy"}
  BY TypingAssumption
<1>2. engine.profile = profile
  BY DEF NewEngine
<1> QED BY <1>1, <1>2, NewEngineOk, ResourceAssumption DEF EngineIInv

LEMMA EngineNextIInv == EngineIInv /\ [EngineNext]_engine => EngineIInv'
<1>1. ASSUME EngineIInv, NEW a \in Actions(engine), Press(a)
      PROVE  EngineIInv'
  <2>1. Dispatched(engine, a, Dispatch(engine, a))
    BY <1>1, ActionsAreSent, DispatchSound, ResourceAssumption, CharAssumption DEF EngineIInv
  <2>2. engine' = Dispatch(engine, a).engine
    BY <1>1 DEF Press
  <2> QED BY <1>1, <2>1, <2>2 DEF Dispatched, Binds, EngineIInv
<1>2. ASSUME EngineIInv, UNCHANGED engine
      PROVE  EngineIInv'
  BY <1>2 DEF EngineIInv
<1> QED BY <1>1, <1>2 DEF EngineNext

LEMMA EngineSpecIInv == EngineSpec => []EngineIInv
  BY EngineInitIInv, EngineNextIInv, PTL DEF EngineSpec

\* Whatever is typed, the cached page, the total and the state are those of a fresh search,
\* the mode is the one the overlay or the base asks for, and one revision names one list.
THEOREM EngineCachesAgree == EngineSpec => CachesAgree
<1>1. EngineIInv => EngineTypeOK /\ CandidatesAreFresh /\ ModesAgree
  <2> SUFFICES ASSUME EngineIInv
               PROVE  EngineTypeOK /\ CandidatesAreFresh /\ ModesAgree
    OBVIOUS
  <2>1. EngineOk(engine) /\ Sound(engine) /\ Shaped(engine)
    BY DEF EngineIInv, EngineOk, Sound
  <2>2. engine.mode # "Menu" => Len(engine.cands) <= T(engine).pageSize
    BY <2>1, SoundPage, ResourceAssumption
  <2>3. \A i \in DOMAIN engine.spelling : engine.spelling[i] \in Chars \cup {Apostrophe}
    BY <2>1 DEF Shaped
  <2>4. EngineTypeOK
    BY <2>1, <2>2, <2>3 DEF EngineTypeOK, Sound, Shaped
  <2> QED BY <2>1, <2>4 DEF CandidatesAreFresh, ModesAgree, Sound, EngineOk
<1>2. EngineIInv /\ [EngineNext]_engine =>
        [engine'.query = engine.query =>
           AllCandidates(engine') = AllCandidates(engine)]_engine
  <2> SUFFICES ASSUME EngineIInv, NEW a \in Actions(engine), Press(a),
                      engine'.query = engine.query
               PROVE  AllCandidates(engine') = AllCandidates(engine)
    BY DEF EngineNext
  <2>1. Dispatched(engine, a, Dispatch(engine, a))
    BY ActionsAreSent, DispatchSound, ResourceAssumption, CharAssumption DEF EngineIInv
  <2>2. engine' = Dispatch(engine, a).engine
    BY DEF Press
  <2> QED BY <2>1, <2>2 DEF Dispatched
<1> QED BY EngineSpecIInv, <1>1, <1>2, PTL DEF CachesAgree, QueryNamesOneList, EngineSpec

\* The key test never contradicts the key: for every action of the keyboard and every click,
\* what would_handle promises is what dispatch then does.
THEOREM KeyTestAgrees == EngineSpec => []RoutingAgrees
<1>1. EngineIInv => RoutingAgrees
  <2> SUFFICES ASSUME EngineIInv, NEW a \in Actions(engine)
               PROVE  Agrees(a, Disposition(Dispatch(engine, a)), WouldHandle(engine, a))
    BY DEF RoutingAgrees
  <2>1. Dispatched(engine, a, Dispatch(engine, a))
    BY ActionsAreSent, DispatchSound, ResourceAssumption, CharAssumption DEF EngineIInv
  <2> QED BY <2>1 DEF Dispatched
<1> QED BY EngineSpecIInv, <1>1, PTL

\* No action that is not meant to drop the spelling drops it: it stays, or it is committed
\* ahead of whatever else the action commits, raw or as a candidate of its own list.
THEOREM TypedTextIsKept == EngineSpec => []NothingTypedIsLost
<1>1. EngineIInv => NothingTypedIsLost
  <2> SUFFICES ASSUME EngineIInv, engine.temporary = "None",
                      engine.mode \in {"Main", "English"}, engine.spelling # <<>>,
                      NEW a \in Keyboards[engine.profile], ~Drops(a)
               PROVE  KeepsText(engine, a, Dispatch(engine, a))
    BY DEF NothingTypedIsLost
  <2>1. Dispatched(engine, a, Dispatch(engine, a))
    BY ActionsAreSent, DispatchSound, ResourceAssumption, CharAssumption
       DEF EngineIInv, Actions
  <2> QED BY <2>1 DEF Dispatched
<1> QED BY EngineSpecIInv, <1>1, PTL
=============================================================================
