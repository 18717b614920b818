---------------------------- MODULE SessionLemmas ----------------------------
(***************************************************************************)
(* What each method of Session keeps, for every session, keyboard, host,   *)
(* set of runtimes and order of calls.  The first sections leave the       *)
(* engine opaque: no proof there looks into what a key does to the         *)
(* spelling.                                                               *)
(*                                                                         *)
(* Good(x) is what every method keeps of a session record.  Acknowledge    *)
(* passes through records where a deferred runtime waits for no plan, so   *)
(* that part, Deferral, is kept apart.  SessionProofs, TextServiceProofs   *)
(* and TouchHostProofs build their inductive invariants from both, and     *)
(* share the lemmas about sequences and stacks that follow.                *)
(*                                                                         *)
(* Then comes the engine: what every operation of it keeps, up to          *)
(* DispatchSound, which the theorems about Typing rest on.  The last       *)
(* sections put the two together: Steady(x) is about the engines and the   *)
(* offers of a session, Seen(x) about what is on its screen.               *)
(***************************************************************************)
EXTENDS Session, FiniteSetTheorems, TLAPS

SessionFields ==
  {"engine", "published", "revision", "generation", "gate", "context", "view", "pending",
   "cleanup", "closed", "deferred", "prediction", "wait", "prefix"}
ContextFields == {"assist", "editor", "epoch", "preedit", "insert", "owns", "purpose"}
PrefixFields == {"editor", "enabled", "generation", "text"}

Shape(x) ==
  /\ DOMAIN x = SessionFields
  /\ DOMAIN x.context = ContextFields
  /\ DOMAIN x.prefix = PrefixFields
  /\ x.generation \in Nat

\* A disabled prefix is empty: what a change of the editor or of the settings binds.
DisabledIsEmpty(x) == ~x.prefix.enabled => x.prefix.text = <<>>

\* The optional fields hold one value or none, the list a rejected plan brings back too.
Few(S) == \A a, b \in S : a = b
FewPlans(x) == Few(x.pending) /\ \A p \in x.pending : Few(p.previous)
FewRequests(x) == Few(x.cleanup) /\ Few(x.prediction) /\ Few(x.wait)

\* A session that is switched off, or that must clean up, waits for no model.
WaitsWhereItMay(x) == x.wait # {} => x.cleanup = {} /\ x.gate

\* A plan that puts a preedit into a touch host's text is for a host that shows one.
Composing(op) == op.kind \in {"Update", "CommitThenUpdate"}
ComposesWhereItMay(x) ==
  \A p \in x.pending : Touch /\ Composing(p.op) => x.context.preedit

Good(x) ==
  /\ Shape(x)
  /\ PlanIsCurrent(x)
  /\ x.pending # {} => NothingPredicted(x)
  /\ RequestIsCurrent(x)
  /\ PrefixIsAllowed(x)
  /\ WaitsWhereItMay(x)
  /\ ComposesWhereItMay(x)
  /\ FewPlans(x) /\ FewRequests(x)

\* What every call does to the tokens: a new plan comes with a new generation.
Advances(x, y) ==
  /\ y.generation >= x.generation
  /\ y.generation = x.generation => y.pending \subseteq x.pending

\* What a call that is not about runtimes leaves alone.
KeepsRuntime(x, y) ==
  /\ y.revision = x.revision /\ y.deferred = x.deferred /\ y.closed = x.closed
  /\ x.pending # {} => y.pending # {}

(***************************************************************************)
(* The deferred runtimes of a session that was offered n as its newest: it *)
(* uses n, or the plan it waits for defers n.                              *)
(***************************************************************************)
Deferral(x, n) ==
  /\ x.revision \in DOMAIN Runtimes /\ n \in DOMAIN Runtimes
  /\ x.deferred # {} => x.pending # {} /\ Touch /\ ~x.closed
  /\ Touch /\ ~x.closed =>
       \/ x.deferred = {} /\ x.revision = n
       \/ x.deferred = {n} /\ n > x.revision

\* What a call does to them.
Moves(x, y, n) ==
  Deferral(y, n) /\ (Touch => y.revision >= x.revision)

\* A call asks no model, and a cleanup that is due stays due: only an acknowledgement
\* or the loss of the context changes what there is to clean up.
KeepsCleanup(x, y) ==
  /\ y.cleanup = x.cleanup /\ y.context.owns = x.context.owns
  /\ y.wait \subseteq x.wait

Kept(x, y) == Good(y) /\ Advances(x, y) /\ KeepsRuntime(x, y) /\ KeepsCleanup(x, y)

\* A call that is not an action of the user makes no plan that composes or is followed by
\* predictions.
Silent(x, y) == \A p \in y.pending : p \in x.pending \/ ~(p.predict \/ Composing(p.op))

\* The plan p that takes the session from x to y.
PlanOf(x, y, parts, p) ==
  /\ p.token = Token(y) /\ p.previous = x.prediction /\ p.predict = parts.predict
  /\ p.op = HostOp(x, parts.op)

USE DEF SessionFields, ContextFields, PrefixFields

-----------------------------------------------------------------------------
(* The helpers. *)

\* What a host is asked to do composes only where it was meant to, and where it is shown.
LEMMA HostOpEffect ==
  ASSUME NEW x, NEW op
  PROVE  Composing(HostOp(x, op)) => Composing(op) /\ (Touch => x.context.preedit)
<1> DEFINE free == [op EXCEPT !.replace = 0]
<1>1. Composing(free) => Composing(op)
  BY DEF Composing
<1>2. ~Composing(NoOp) /\ ~Composing(CommitAndReplace(op.text, 0))
  BY DEF Composing, NoOp, CommitAndReplace, Op
<1>3. CASE ~Touch
  BY <1>3 DEF HostOp
<1>4. CASE Touch /\ x.context.preedit
  <2>1. HostOp(x, op) = NoOp \/ HostOp(x, op) = free
    BY <1>4 DEF HostOp
  <2> QED BY <1>1, <1>2, <1>4, <2>1
<1>5. CASE Touch /\ ~x.context.preedit
  <2>1. CASE op.kind \in {"Update", "End", "CommitThenUpdate"}
    <3>1. HostOp(x, op) = NoOp \/ HostOp(x, op) = CommitAndReplace(op.text, 0)
      BY <1>5, <2>1 DEF HostOp
    <3> QED BY <1>2, <3>1
  <2>2. CASE op.kind \notin {"Update", "End", "CommitThenUpdate"}
    <3>1. HostOp(x, op) = NoOp \/ HostOp(x, op) = free
      BY <1>5, <2>2 DEF HostOp
    <3>2. ~Composing(op)
      BY <2>2 DEF Composing
    <3> QED BY <1>1, <1>2, <3>1, <3>2
  <2> QED BY <2>1, <2>2
<1> QED BY <1>3, <1>4, <1>5

\* The plans of control events do not compose.
LEMMA PlainOps ==
  /\ ~Composing(NoOp)
  /\ \A text, n : ~Composing(CommitAndReplace(text, n))
  /\ \A delete : ~Composing(EndComposition(delete))
  /\ \A x : ~Composing(FinishOp(x))
<1>1. /\ ~Composing(NoOp)
      /\ \A text, n : ~Composing(CommitAndReplace(text, n))
      /\ \A delete : ~Composing(EndComposition(delete))
  BY DEF Composing, NoOp, CommitAndReplace, EndComposition, Op
<1>2. \A x : \/ FinishOp(x) = CommitAndReplace(x.engine.spelling, 0)
            \/ FinishOp(x) = EndComposition(InRound(x.engine))
  BY DEF FinishOp
<1>3. \A x : ~Composing(FinishOp(x))
  BY <1>1, <1>2
<1> QED BY <1>1, <1>3

\* Invalidating the prefix changes nothing else.
LEMMA InvalidateEffect ==
  ASSUME NEW x, Shape(x)
  PROVE  LET y == InvalidatePrefix(x)
         IN /\ Shape(y) /\ y.prefix.text = <<>>
            /\ y.prefix.editor = x.prefix.editor /\ y.prefix.enabled = x.prefix.enabled
            /\ \A f \in SessionFields \ {"prefix"} : y[f] = x[f]
  BY DEF InvalidatePrefix, Shape

\* Binding leaves the prefix bound to the editor in use, and empty if it is disabled.
LEMMA BindEffect ==
  ASSUME NEW x, Shape(x), DisabledIsEmpty(x)
  PROVE  LET y == Bind(x)
         IN /\ Shape(y) /\ PrefixIsAllowed(y)
            /\ \A f \in SessionFields \ {"prefix"} : y[f] = x[f]
<1> DEFINE editor == <<x.context.editor, x.context.epoch>>
           same == x.prefix.editor = editor /\ x.prefix.enabled = Allowed(x)
           kept == IF same THEN x ELSE InvalidatePrefix(x)
           y == Bind(x)
<1>1. /\ Shape(kept) /\ \A f \in SessionFields \ {"prefix"} : kept[f] = x[f]
      /\ ~same => kept.prefix.text = <<>>
  BY InvalidateEffect
<1>2. y = [kept EXCEPT !.prefix.editor = editor, !.prefix.enabled = Allowed(x)]
  BY DEF Bind
<1> DEFINE p == [kept.prefix EXCEPT !.editor = editor, !.enabled = Allowed(x)]
<1> HIDE DEF editor, kept, y
<1>a. /\ DOMAIN y = SessionFields /\ y.prefix = p
      /\ \A f \in SessionFields \ {"prefix"} : y[f] = kept[f]
  BY <1>1, <1>2 DEF Shape
<1>b. /\ DOMAIN p = PrefixFields /\ p.text = kept.prefix.text
      /\ p.editor = editor /\ p.enabled = Allowed(x)
  BY <1>1 DEF Shape
<1>3. /\ Shape(y) /\ \A f \in SessionFields \ {"prefix"} : y[f] = x[f]
      /\ y.prefix.editor = editor /\ y.prefix.enabled = Allowed(x)
      /\ y.prefix.text = kept.prefix.text
  BY <1>1, <1>a, <1>b DEF Shape
<1>4. Allowed(y) = Allowed(x)
  BY <1>3 DEF Allowed, Prediction, R
<1>5. ~Allowed(x) => y.prefix.text = <<>>
<2>1. CASE same
  BY <2>1, <1>1, <1>3 DEF DisabledIsEmpty, Allowed, kept
<2>2. CASE ~same
  BY <2>2, <1>1, <1>3
<2> QED BY <2>1, <2>2
<1> USE DEF editor, kept, y
<1> QED BY <1>3, <1>4, <1>5 DEF PrefixIsAllowed

\* Clearing the prediction withdraws the list and the request, and nothing else but the
\* prefix and the view.
LEMMA ClearEffect ==
  ASSUME NEW x, Shape(x)
  PROVE  LET y == ClearPrediction(x)
         IN /\ Shape(y) /\ NothingPredicted(y) /\ y.prefix.text = <<>>
            /\ y.prefix.editor = x.prefix.editor /\ y.prefix.enabled = x.prefix.enabled
            /\ \A f \in SessionFields \ {"prefix", "prediction", "wait", "view"} : y[f] = x[f]
<1> DEFINE z == InvalidatePrefix(x)
           y == ClearPrediction(x)
<1>1. /\ Shape(z) /\ z.prefix.text = <<>>
      /\ z.prefix.editor = x.prefix.editor /\ z.prefix.enabled = x.prefix.enabled
      /\ \A f \in SessionFields \ {"prefix"} : z[f] = x[f]
  BY InvalidateEffect
<1>2. PICK v : y = [z EXCEPT !.wait = {}, !.prediction = {}, !.view = v]
  BY <1>1 DEF ClearPrediction
<1> HIDE DEF y, z
<1>3. /\ DOMAIN y = SessionFields /\ y.wait = {} /\ y.prediction = {}
      /\ \A f \in SessionFields \ {"prediction", "wait", "view"} : y[f] = z[f]
  BY <1>1, <1>2 DEF Shape
<1>4. Shape(y)
  BY <1>1, <1>3 DEF Shape
<1> USE DEF y
<1> QED BY <1>1, <1>3, <1>4 DEF NothingPredicted

\* A plan is staged with the token of the session it leaves, or not staged at all.
LEMMA StageEffect ==
  ASSUME NEW x, Shape(x), NEW next, NEW parts
  PROVE  LET y == Stage(x, next, parts)
         IN \/ y = x /\ (x.closed \/ Touch)
            \/ /\ Shape(y) /\ ~x.closed
               /\ y.generation = x.generation + 1 /\ y.prediction = {}
               /\ \E p : y.pending = {p} /\ PlanOf(x, y, parts, p)
               /\ \A f \in SessionFields \ {"generation", "engine", "prediction", "pending"} :
                    y[f] = x[f]
<1> DEFINE y == Stage(x, next, parts)
<1>0. y = x => x.closed \/ Touch
  <2>1. x.closed \/ Unavailable(x, parts.op) \/ y.generation = x.generation + 1
    BY DEF Stage, StartPlan, Shape
  <2> QED BY <2>1 DEF Unavailable, Shape
<1> SUFFICES ASSUME y # x
             PROVE  /\ Shape(y) /\ ~x.closed
                    /\ y.generation = x.generation + 1 /\ y.prediction = {}
                    /\ \E p : y.pending = {p} /\ PlanOf(x, y, parts, p)
                    /\ \A f \in SessionFields \ {"generation", "engine", "prediction", "pending"} :
                         y[f] = x[f]
  BY <1>0
<1> DEFINE z == StartPlan(x, next)
<1>1. ~x.closed
  BY DEF Stage
<1>2. PICK p : /\ y = [z EXCEPT !.pending = {p}] /\ p.token = Token(z)
               /\ p.previous = x.prediction /\ p.predict = parts.predict
               /\ p.op = HostOp(x, parts.op)
  <2> DEFINE hidden == Touch /\ x.context.purpose = "Password"
             p == [token |-> Token(z), owned |-> x.context.owns, previous |-> x.prediction,
                   predict |-> parts.predict, op |-> HostOp(x, parts.op),
                   unchanged |-> parts.unchanged,
                   view |-> IF hidden THEN DefaultView ELSE parts.view,
                   consumed |-> parts.consumed, next |-> next,
                   rollback |-> parts.rollback, cleanup |-> parts.cleanup]
  <2>1. y = [z EXCEPT !.pending = {p}]
    BY DEF Stage
  <2>2. /\ p.token = Token(z) /\ p.previous = x.prediction /\ p.predict = parts.predict
        /\ p.op = HostOp(x, parts.op)
    OBVIOUS
  <2> HIDE DEF p, y, z
  <2> QED BY <2>1, <2>2
<1>3. /\ DOMAIN z = SessionFields /\ z.generation = x.generation + 1 /\ z.prediction = {}
      /\ \A f \in SessionFields \ {"generation", "engine", "prediction"} : z[f] = x[f]
  <2> DEFINE e == IF Touch THEN x.engine ELSE next
  <2>1. z = [x EXCEPT !.generation = @ + 1, !.engine = e, !.prediction = {}]
    BY DEF StartPlan
  <2> HIDE DEF z, e
  <2> QED BY <2>1 DEF Shape
<1> HIDE DEF y, z
<1>4. /\ DOMAIN y = SessionFields /\ y.pending = {p}
      /\ \A f \in SessionFields \ {"pending"} : y[f] = z[f]
  BY <1>2, <1>3
<1>5. Shape(y) /\ y.generation = x.generation + 1 /\ y.prediction = {}
  BY <1>3, <1>4 DEF Shape
<1>6. PlanOf(x, y, parts, p)
  BY <1>2, <1>4 DEF Token, PlanOf
<1> QED BY <1>1, <1>3, <1>4, <1>5, <1>6

\* Staging keeps the invariant once no model is waited for.
LEMMA StageGood ==
  ASSUME NEW x, Good(x), x.wait = {}, NEW next, NEW parts
  PROVE  LET y == Stage(x, next, parts)
         IN Kept(x, y) /\ (~parts.predict /\ ~Composing(parts.op) => Silent(x, y))
<1> DEFINE y == Stage(x, next, parts)
<1>1. CASE y = x
  BY <1>1 DEF Kept, Good, Shape, Advances, KeepsRuntime, KeepsCleanup, Silent
<1>2. CASE y # x
  <2>1. /\ Shape(x) /\ Shape(y) /\ ~x.closed
        /\ y.generation = x.generation + 1 /\ y.prediction = {}
        /\ \E p : y.pending = {p} /\ PlanOf(x, y, parts, p)
        /\ \A f \in SessionFields \ {"generation", "engine", "prediction", "pending"} :
             y[f] = x[f]
    BY <1>2, StageEffect DEF Good
  <2> HIDE DEF y
  <2>2. PICK p : y.pending = {p} /\ PlanOf(x, y, parts, p)
    BY <2>1
  <2>3. y.wait = {} /\ ~y.closed
    BY <2>1
  <2>4. PlanIsCurrent(y) /\ NothingPredicted(y) /\ RequestIsCurrent(y)
    BY <2>1, <2>2, <2>3 DEF PlanIsCurrent, NothingPredicted, RequestIsCurrent, PlanOf
  <2>5. PrefixIsAllowed(y) /\ WaitsWhereItMay(y)
    BY <2>1, <2>3 DEF Good, PrefixIsAllowed, Allowed, Prediction, R, WaitsWhereItMay
  <2>6. Advances(x, y)
    BY <2>1 DEF Advances, Shape
  <2>7. KeepsRuntime(x, y) /\ KeepsCleanup(x, y)
    BY <2>1, <2>2 DEF KeepsRuntime, KeepsCleanup
  <2>8. FewPlans(y) /\ FewRequests(y)
    BY <2>1, <2>2, <2>3 DEF Good, FewPlans, FewRequests, Few, PlanOf
  <2>11. ComposesWhereItMay(y)
    BY <2>1, <2>2, HostOpEffect DEF ComposesWhereItMay, PlanOf
  <2>9. Good(y)
    BY <2>1, <2>4, <2>5, <2>8, <2>11 DEF Good
  <2>10. ~parts.predict /\ ~Composing(parts.op) => Silent(x, y)
    BY <2>2, HostOpEffect DEF Silent, PlanOf
  <2> USE DEF y
  <2> QED BY <2>6, <2>7, <2>9, <2>10 DEF Kept
<1> QED BY <1>1, <1>2

\* Calls compose.
LEMMA KeptTransitive ==
  ASSUME NEW x, NEW y, NEW z, Good(x), Kept(x, y), Kept(y, z)
  PROVE  Kept(x, z)
<1>1. x.generation \in Nat /\ y.generation \in Nat /\ z.generation \in Nat
  BY DEF Kept, Good, Shape
<1>2. Advances(x, z)
  BY <1>1 DEF Kept, Advances
<1>3. KeepsRuntime(x, z) /\ KeepsCleanup(x, z)
  BY DEF Kept, KeepsRuntime, KeepsCleanup
<1> QED BY <1>2, <1>3 DEF Kept

LEMMA KeptReflexive ==
  ASSUME NEW x, Good(x)
  PROVE  Kept(x, x)
  BY DEF Kept, Good, Shape, Advances, KeepsRuntime, KeepsCleanup

\* A call that withdraws the request and does not change the plan.
LEMMA FrameGood ==
  ASSUME NEW x, NEW y, Good(x), Shape(y), y.wait = {}, Few(y.prediction),
         y.pending # {} => y.prediction = {},
         \A f \in {"generation", "pending", "closed", "revision", "deferred", "cleanup"} :
           y[f] = x[f],
         \A f \in ContextFields \ {"assist"} : y.context[f] = x.context[f],
         PrefixIsAllowed(y)
  PROVE  Kept(x, y)
<1>1. PlanIsCurrent(y) /\ (y.pending # {} => NothingPredicted(y)) /\ RequestIsCurrent(y)
  BY DEF Good, PlanIsCurrent, NothingPredicted, RequestIsCurrent, Token
<1>2. WaitsWhereItMay(y) /\ ComposesWhereItMay(y) /\ FewPlans(y) /\ FewRequests(y)
  BY DEF Good, WaitsWhereItMay, ComposesWhereItMay, FewPlans, FewRequests, Few
<1>3. Advances(x, y) /\ KeepsRuntime(x, y) /\ KeepsCleanup(x, y)
  BY DEF Good, Advances, KeepsRuntime, KeepsCleanup, Shape
<1> QED BY <1>1, <1>2, <1>3 DEF Good, Kept

\* The prefix of an editor that did not change stays allowed while no text is added to it.
LEMMA AllowedStays ==
  ASSUME NEW x, NEW y, Good(x), y.context = x.context, y.revision = x.revision,
         y.prefix.editor = x.prefix.editor, y.prefix.enabled = x.prefix.enabled,
         y.prefix.text = x.prefix.text \/ y.prefix.text = <<>>
  PROVE  PrefixIsAllowed(y)
  BY DEF Good, PrefixIsAllowed, Allowed, Prediction, R

\* Withdrawing the predictions.
LEMMA ClearGood ==
  ASSUME NEW x, Good(x)
  PROVE  /\ Kept(x, ClearPrediction(x)) /\ NothingPredicted(ClearPrediction(x))
         /\ ClearPrediction(x).pending = x.pending
<1> DEFINE y == ClearPrediction(x)
<1>1. /\ Shape(y) /\ NothingPredicted(y) /\ y.prefix.text = <<>>
      /\ y.prefix.editor = x.prefix.editor /\ y.prefix.enabled = x.prefix.enabled
      /\ \A f \in SessionFields \ {"prefix", "prediction", "wait", "view"} : y[f] = x[f]
  BY ClearEffect DEF Good
<1> HIDE DEF y
<1>2. PrefixIsAllowed(y)
  BY <1>1, AllowedStays
<1>3. Kept(x, y)
  BY <1>1, <1>2, FrameGood DEF NothingPredicted, Few
<1>4. Kept(x, y) /\ NothingPredicted(y) /\ y.pending = x.pending
  BY <1>1, <1>3
<1> USE DEF y
<1> QED BY <1>4

-----------------------------------------------------------------------------
(* The calls that are not about runtimes. *)

LEMMA DispatchedGood ==
  ASSUME NEW x, Good(x), x.wait = {}, NEW a, NEW wasLegacy
  PROVE  Kept(x, PrepareDispatched(x, a, wasLegacy))
<1> DEFINE step == IF x.gate THEN Dispatch(x.engine, a) ELSE None(x.engine)
           shown == x.prediction # {}
           current == IF shown THEN DefaultView ELSE x.view
           dismiss == shown /\ (a.op = "Cancel" \/ IsLegacy(a, {"Esc"}))
           parts == [op |-> PlanOp(step), view |-> PlanView(step, current),
             consumed |-> dismiss \/ (x.gate /\ Disposition(step) = "Handled"),
             unchanged |-> step.kind \in {"None", "Passthrough"} /\ ~shown,
             predict |-> PlainRound(x.engine), cleanup |-> FALSE,
             rollback |-> IF wasLegacy /\ ~Touch /\ x.engine.mode # "Main"
                          THEN {x.engine} ELSE {}]
           y == PrepareDispatched(x, a, wasLegacy)
<1>1. y = x \/ y = Stage(x, step.engine, parts)
  BY Zenon DEF PrepareDispatched, PlanStep
<1> HIDE DEF step, parts, y
<1>2. Kept(x, x) /\ Kept(x, Stage(x, step.engine, parts))
  BY KeptReflexive, StageGood
<1>3. Kept(x, y)
  BY <1>1, <1>2
<1> USE DEF y
<1> QED BY <1>3

\* Every key, click and text that a plan is prepared for.
LEMMA PrepareGood ==
  ASSUME NEW x, Good(x), NEW a
  PROVE  Kept(x, Prepare(x, a))
<1> DEFINE settled == IF x.wait = {} THEN x ELSE [x EXCEPT !.wait = {}, !.prediction = {}]
           act == Resolved(settled, a)
           ready == IF LeavesPrefix(x, act) THEN InvalidatePrefix(settled) ELSE settled
           passed == [op |-> NoOp, view |-> x.view, consumed |-> FALSE, unchanged |-> TRUE,
                      predict |-> FALSE, cleanup |-> FALSE, rollback |-> {}]
           y == Prepare(x, a)
<1>1. Kept(x, settled) /\ settled.wait = {}
  <2>1. CASE x.wait = {}
    BY <2>1, KeptReflexive
  <2>2. CASE x.wait # {}
    <3> DEFINE w == [x EXCEPT !.wait = {}, !.prediction = {}]
    <3>1. /\ Shape(w) /\ w.wait = {} /\ w.prediction = {}
          /\ \A f \in SessionFields \ {"wait", "prediction"} : w[f] = x[f]
      BY DEF Good, Shape
    <3> HIDE DEF w
    <3>2. PrefixIsAllowed(w)
      BY <3>1, AllowedStays
    <3>3. Kept(x, w)
      BY <3>1, <3>2, FrameGood DEF Few
    <3> USE DEF w
    <3> QED BY <2>2, <3>1, <3>3
  <2> QED BY <2>1, <2>2
<1>2. y \in {settled, ready, Stage(ready, x.engine, passed),
             PrepareDispatched(ready, IF Restricted(x) THEN AsLiteral(act) ELSE act,
                               ~Restricted(x) /\ act.op = "Legacy")}
  BY Zenon DEF Prepare
<1> HIDE DEF settled, act, passed, y
<1>3. Kept(x, ready) /\ ready.wait = {}
  <2> DEFINE i == InvalidatePrefix(settled)
  <2>1. /\ Shape(i) /\ i.prefix.text = <<>>
        /\ i.prefix.editor = settled.prefix.editor /\ i.prefix.enabled = settled.prefix.enabled
        /\ \A f \in SessionFields \ {"prefix"} : i[f] = settled[f]
    BY <1>1, InvalidateEffect DEF Kept, Good
  <2> HIDE DEF i
  <2>2. Good(settled) /\ (i.pending # {} => i.prediction = {}) /\ Few(i.prediction)
    BY <1>1, <2>1 DEF Kept, Good, NothingPredicted, FewRequests
  <2>5. PrefixIsAllowed(i)
    BY <2>1, <2>2, AllowedStays
  <2>3. Kept(settled, i) /\ i.wait = {}
    BY <1>1, <2>1, <2>2, <2>5, FrameGood
  <2>4. Kept(x, i)
    BY <1>1, <2>3, KeptTransitive
  <2> USE DEF i
  <2> QED BY <1>1, <2>3, <2>4
<1> HIDE DEF ready
<1>4. \A z : Kept(ready, z) => Kept(x, z)
  BY <1>3, KeptTransitive
<1>5. Good(ready)
  BY <1>3 DEF Kept
<1>6. /\ Kept(ready, Stage(ready, x.engine, passed))
      /\ Kept(ready, PrepareDispatched(ready, IF Restricted(x) THEN AsLiteral(act) ELSE act,
                                       ~Restricted(x) /\ act.op = "Legacy"))
  BY <1>3, <1>5, StageGood, DispatchedGood
<1>7. Kept(x, y)
  BY <1>1, <1>2, <1>3, <1>4, <1>6
<1> USE DEF y
<1> QED BY <1>7

LEMMA ClearedStageGood ==
  ASSUME NEW x, Good(x), x.wait = {}, NEW next, NEW op, ~Composing(op), NEW cleanup
  PROVE  Kept(x, StageCleared(x, next, op, cleanup)) /\ Silent(x, StageCleared(x, next, op, cleanup))
<1> DEFINE parts == [op |-> op, view |-> DefaultView, consumed |-> TRUE, unchanged |-> FALSE,
                     predict |-> FALSE, cleanup |-> cleanup, rollback |-> {}]
<1>1. ~parts.predict /\ parts.op = op /\ StageCleared(x, next, op, cleanup) = Stage(x, next, parts)
  BY DEF StageCleared
<1> HIDE DEF parts
<1> QED BY <1>1, StageGood

\* The loss of the focus, before or after the host ended the composition.
LEMMA LoseFocusGood ==
  ASSUME NEW x, Good(x)
  PROVE  Kept(x, LoseFocus(x)) /\ Silent(x, LoseFocus(x))
<1> DEFINE c == ClearPrediction(x)
           y == StageCleared(c, Emptied(x.engine), FinishOp(x), FALSE)
<1>1. Kept(x, c) /\ c.wait = {} /\ c.pending = x.pending
  BY ClearGood DEF NothingPredicted
<1> HIDE DEF c
<1>2. Kept(c, y) /\ Silent(c, y)
  BY <1>1, ClearedStageGood, PlainOps DEF Kept
<1> HIDE DEF y
<1>3. Kept(x, y) /\ Silent(x, y)
  BY <1>1, <1>2, KeptTransitive DEF Silent
<1> USE DEF c, y
<1> QED BY <1>3 DEF LoseFocus

LEMMA RecoverGood ==
  ASSUME NEW x, Good(x)
  PROVE  Kept(x, Recover(x)) /\ Silent(x, Recover(x))
<1>1. CASE x.closed \/ x.cleanup = {}
  BY <1>1, KeptReflexive DEF Recover, Silent
<1>2. CASE ~(x.closed \/ x.cleanup = {})
  <2>1. x.wait = {}
    BY <1>2 DEF Good, WaitsWhereItMay
  <2> DEFINE y == StageCleared(x, x.engine, EndComposition(The(x.cleanup)), TRUE)
  <2>2. Kept(x, y) /\ Silent(x, y)
    BY <2>1, ClearedStageGood, PlainOps
  <2> QED BY <1>2, <2>2 DEF Recover
<1> QED BY <1>1, <1>2

\* Switching the input method on or off.
LEMMA GateGood ==
  ASSUME NEW x, Good(x), NEW enabled
  PROVE  Kept(x, SetInputGate(x, enabled)) /\ Silent(x, SetInputGate(x, enabled))
<1> DEFINE g == [x EXCEPT !.gate = enabled]
           c == ClearPrediction(g)
           next == Emptied(x.engine)
           y == SetInputGate(x, enabled)
<1>1. /\ Shape(g) /\ \A f \in SessionFields \ {"gate"} : g[f] = x[f]
  BY DEF Good, Shape
<1>2. \/ y = x \/ y = c \/ \E op : ~Composing(op) /\ y = StageCleared(c, next, op, FALSE)
  <2> DEFINE e == x.engine
             op == CASE InRound(e) -> EndComposition(TRUE)
                     [] ~InRound(e) /\ e.spelling # <<>> ->
                          CommitAndReplace(e.spelling, Len(e.spelling))
                     [] OTHER -> EndComposition(FALSE)
  <2>1. y = x \/ y = c \/ y = StageCleared(c, next, op, FALSE)
    BY Zenon DEF SetInputGate
  <2>2. \/ op = EndComposition(TRUE) \/ op = EndComposition(FALSE)
        \/ op = CommitAndReplace(e.spelling, Len(e.spelling))
    BY Zenon
  <2> HIDE DEF op, e, y, c, next
  <2>3. ~Composing(op)
    BY <2>2, PlainOps
  <2> QED BY <2>1, <2>3
<1> HIDE DEF g
<1>3. Kept(x, c) /\ c.wait = {} /\ c.pending = x.pending
  <2>1. /\ Shape(c) /\ NothingPredicted(c) /\ c.prefix.text = <<>>
        /\ c.prefix.editor = g.prefix.editor /\ c.prefix.enabled = g.prefix.enabled
        /\ \A f \in SessionFields \ {"prefix", "prediction", "wait", "view"} : c[f] = g[f]
    BY <1>1, ClearEffect
  <2> HIDE DEF c
  <2>2. PrefixIsAllowed(c)
    BY <1>1, <2>1, AllowedStays
  <2>3. Kept(x, c)
    BY <1>1, <2>1, <2>2, FrameGood DEF NothingPredicted, Few
  <2> USE DEF c
  <2> QED BY <1>1, <2>1, <2>3 DEF NothingPredicted
<1> HIDE DEF c, next, y
<1>4. \A op : ~Composing(op) => /\ Kept(c, StageCleared(c, next, op, FALSE))
                               /\ Silent(c, StageCleared(c, next, op, FALSE))
  BY <1>3, ClearedStageGood DEF Kept
<1>5. \A op : ~Composing(op) => /\ Kept(x, StageCleared(c, next, op, FALSE))
                               /\ Silent(x, StageCleared(c, next, op, FALSE))
  BY <1>3, <1>4, KeptTransitive DEF Silent
<1>6. Kept(x, y) /\ Silent(x, y)
  BY <1>2, <1>3, <1>5, KeptReflexive DEF Silent
<1> USE DEF y
<1> QED BY <1>6

\* The answer of the model, in time or late.
LEMMA CompleteGood ==
  ASSUME NEW x, Good(x), NEW key, NEW items
  PROVE  LET y == CompletePrediction(x, key, items)
         IN Kept(x, y) /\ Silent(x, y)
<1> DEFINE y == CompletePrediction(x, key, items)
<1>1. CASE x.wait = {} \/ key \notin x.wait
  BY <1>1, KeptReflexive DEF CompletePrediction, Silent
<1>2. CASE key \in x.wait
  <2>1. x.pending = {}
    BY <1>2 DEF Good, NothingPredicted
  <2>2. \E q, v : Few(q) /\ y = [x EXCEPT !.wait = {}, !.prediction = q, !.view = v]
    <3> DEFINE w == [x EXCEPT !.wait = {}]
    <3>2. w = [w EXCEPT !.prediction = x.prediction, !.view = x.view]
      BY DEF Good, Shape
    <3>3. [w EXCEPT !.prediction = {}] = [w EXCEPT !.prediction = {}, !.view = x.view]
      BY DEF Good, Shape
    <3> DEFINE one == {[query |-> key.query, items |-> items]}
    <3>4. \/ y = w
          \/ y = [w EXCEPT !.prediction = {}]
          \/ y = [w EXCEPT !.prediction = {}, !.view = DefaultView]
          \/ y = [w EXCEPT !.prediction = one, !.view = PredictionView(items)]
      BY <1>2, Zenon DEF CompletePrediction
    <3>5. Few(x.prediction) /\ Few({}) /\ Few(one)
      BY DEF Good, FewRequests, Few
    <3> HIDE DEF y, one
    <3>6. CASE y = w  BY <3>2, <3>5, <3>6
    <3>7. CASE y = [w EXCEPT !.prediction = {}]  BY <3>3, <3>5, <3>7
    <3>8. CASE y = [w EXCEPT !.prediction = {}, !.view = DefaultView]
      BY <3>5, <3>8
    <3>9. CASE y = [w EXCEPT !.prediction = one, !.view = PredictionView(items)]
      BY <3>5, <3>9
    <3> QED BY <3>4, <3>6, <3>7, <3>8, <3>9
  <2> HIDE DEF y
  <2>3. PICK q, v : Few(q) /\ y = [x EXCEPT !.wait = {}, !.prediction = q, !.view = v]
    BY <2>2
  <2>4. /\ DOMAIN y = SessionFields /\ y.wait = {}
        /\ \A f \in SessionFields \ {"wait", "prediction", "view"} : y[f] = x[f]
    BY <2>3 DEF Good, Shape
  <2>5. Shape(y) /\ y.pending = {}
    BY <2>1, <2>4 DEF Good, Shape
  <2>7. PrefixIsAllowed(y)
    BY <2>4, AllowedStays
  <2>8. Few(y.prediction)
    BY <2>3, <2>4 DEF Good, Shape
  <2>6. Kept(x, y) /\ Silent(x, y)
    BY <2>4, <2>5, <2>7, <2>8, FrameGood DEF Silent
  <2> USE DEF y
  <2> QED BY <2>6
<1> QED BY <1>1, <1>2

\* What the host reads before its caret.
LEMMA ObserveGood ==
  ASSUME NEW x, Good(x), NEW text
  PROVE  Kept(x, ObservePrefix(x, text)) /\ Silent(x, ObservePrefix(x, text))
<1> DEFINE seen == Observe(x, text)
           y == ObservePrefix(x, text)
<1>1. CASE y = x
  BY <1>1, KeptReflexive DEF Silent
<1>2. CASE y # x
  <2>1. /\ Allowed(x) /\ x.prefix.enabled /\ x.prefix.text # LastOf(text)
        /\ seen = [x EXCEPT !.prefix.text = LastOf(text), !.prefix.generation = @ + 1]
    <3>1. Allowed(x) /\ x.prefix.enabled
      BY <1>2 DEF ObservePrefix
    <3>2. x.prefix.text = LastOf(text) => seen = x
      BY DEF Observe
    <3>3. x.prefix.text # LastOf(text)
      BY <1>2, <3>2 DEF ObservePrefix
    <3> QED BY <3>1, <3>3 DEF Observe
  <2>2. /\ Shape(seen) /\ seen.prefix.text = LastOf(text)
        /\ seen.prefix.editor = x.prefix.editor /\ seen.prefix.enabled = x.prefix.enabled
        /\ \A f \in SessionFields \ {"prefix"} : seen[f] = x[f]
    <3> HIDE DEF seen
    <3>1. seen = [x EXCEPT !.prefix.text = LastOf(text), !.prefix.generation = @ + 1]
      BY <2>1
    <3>2. Shape(x)
      BY DEF Good
    <3>3. /\ DOMAIN seen = SessionFields
          /\ seen.prefix = [[x.prefix EXCEPT !.text = LastOf(text)]
                             EXCEPT !.generation = x.prefix.generation + 1]
          /\ \A f \in SessionFields \ {"prefix"} : seen[f] = x[f]
      BY <3>1, <3>2 DEF Shape
    <3>4. /\ DOMAIN seen.prefix = PrefixFields /\ seen.prefix.text = LastOf(text)
          /\ seen.prefix.editor = x.prefix.editor /\ seen.prefix.enabled = x.prefix.enabled
      BY <3>2, <3>3 DEF Shape
    <3> QED BY <3>2, <3>3, <3>4 DEF Shape
  <2>3. IF x.prediction # {}
        THEN y = [seen EXCEPT !.wait = {}, !.prediction = {}, !.view = DefaultView]
        ELSE y = seen
    <3> HIDE DEF seen
    <3> QED BY <1>2, <2>1, <2>2 DEF ObservePrefix, seen
  <2> HIDE DEF y, seen
  <2>4. x.prediction = {} => x.wait = {}
    BY DEF Good, RequestIsCurrent
  <2>5. /\ Shape(y) /\ y.wait = {} /\ y.prediction = {}
        /\ y.prefix = seen.prefix
        /\ \A f \in SessionFields \ {"prefix", "wait", "prediction", "view"} : y[f] = x[f]
    BY <2>2, <2>3, <2>4 DEF Shape
  <2>6. PrefixIsAllowed(y)
    BY <2>1, <2>2, <2>5 DEF Good, PrefixIsAllowed, Allowed, Prediction, R
  <2>7. Kept(x, y) /\ Silent(x, y)
    BY <2>5, <2>6, FrameGood DEF Few, Silent
  <2> USE DEF y
  <2> QED BY <2>7
<1> QED BY <1>1, <1>2

\* The editor allows or forbids assistance.
LEMMA AssistanceGood ==
  ASSUME NEW x, Good(x), NEW allowed
  PROVE  Kept(x, SetAssistance(x, allowed)) /\ Silent(x, SetAssistance(x, allowed))
<1> DEFINE c == ClearPrediction(x)
           z == [c EXCEPT !.context.assist = allowed]
           y == Bind(z)
<1>1. CASE x.context.assist = allowed
  BY <1>1, KeptReflexive DEF SetAssistance, Silent
<1>2. CASE x.context.assist # allowed
  <2>1. /\ Shape(c) /\ NothingPredicted(c) /\ c.prefix.text = <<>>
        /\ \A f \in SessionFields \ {"prefix", "prediction", "wait", "view"} : c[f] = x[f]
    BY ClearEffect DEF Good
  <2> HIDE DEF c
  <2>2. /\ Shape(z) /\ NothingPredicted(z) /\ z.prefix.text = <<>>
        /\ \A f \in ContextFields \ {"assist"} : z.context[f] = x.context[f]
        /\ \A f \in SessionFields \ {"prefix", "prediction", "wait", "view", "context"} :
             z[f] = x[f]
    <3>1. /\ DOMAIN z = SessionFields
          /\ z.context = [c.context EXCEPT !.assist = allowed]
          /\ \A f \in SessionFields \ {"context"} : z[f] = c[f]
      BY <2>1 DEF Shape
    <3>2. DOMAIN z.context = ContextFields
          /\ \A f \in ContextFields \ {"assist"} : z.context[f] = c.context[f]
      BY <2>1, <3>1 DEF Shape
    <3> HIDE DEF z
    <3> QED BY <2>1, <3>1, <3>2 DEF Shape, NothingPredicted
  <2> HIDE DEF z
  <2>3. /\ Shape(y) /\ PrefixIsAllowed(y)
        /\ \A f \in SessionFields \ {"prefix"} : y[f] = z[f]
    BY <2>2, BindEffect DEF DisabledIsEmpty
  <2> HIDE DEF y
  <2>4. NothingPredicted(y) /\ y.pending = x.pending
    BY <2>1, <2>2, <2>3 DEF NothingPredicted
  <2>5. \A f \in {"generation", "pending", "closed", "revision", "deferred", "cleanup"} :
          y[f] = x[f]
    BY <2>2, <2>3
  <2>6. \A f \in ContextFields \ {"assist"} : y.context[f] = x.context[f]
    BY <2>2, <2>3
  <2>7. Kept(x, y) /\ Silent(x, y)
    BY <2>3, <2>4, <2>5, <2>6, FrameGood DEF NothingPredicted, Few, Silent
  <2> USE DEF y, z, c
  <2> QED BY <1>2, <2>7 DEF SetAssistance
<1> QED BY <1>1, <1>2

-----------------------------------------------------------------------------
(* Lost contexts. *)

\* A session without a plan or a request needs only a bound prefix.
LEMMA IdleGood ==
  ASSUME NEW y, Shape(y), PrefixIsAllowed(y), y.pending = {}, y.wait = {},
         Few(y.cleanup), Few(y.prediction)
  PROVE  Good(y)
  BY DEF Good, PlanIsCurrent, NothingPredicted, RequestIsCurrent, WaitsWhereItMay,
         ComposesWhereItMay, FewPlans, FewRequests, Few

\* The runtime a lost context adopts.
Adopted(x) == IF x.deferred = {} THEN x.revision ELSE The(x.deferred)

\* A lost context leaves nothing of the edit, whatever it was.
Lost(x, y) ==
  /\ Good(y) /\ NothingPredicted(y) /\ y.pending = {} /\ y.cleanup = {} /\ y.deferred = {}
  /\ y.closed = x.closed /\ y.generation = x.generation + 1 /\ y.revision = Adopted(x)

LEMMA AdoptEffect ==
  ASSUME NEW x, Shape(x), NEW base
  PROVE  LET y == AdoptDeferred(x, base)
         IN /\ Shape(y) /\ y.deferred = {} /\ y.revision = Adopted(x)
            /\ \A f \in SessionFields \ {"revision", "deferred", "engine"} : y[f] = x[f]
<1> DEFINE y == AdoptDeferred(x, base)
<1>1. CASE x.deferred = {}
  BY <1>1 DEF AdoptDeferred, Adopted
<1>2. CASE x.deferred # {}
  <2>1. \E e : y = [x EXCEPT !.revision = Adopted(x), !.deferred = {}, !.engine = e]
    BY <1>2 DEF AdoptDeferred, Adopted
  <2> HIDE DEF y
  <2>2. PICK e : y = [x EXCEPT !.revision = Adopted(x), !.deferred = {}, !.engine = e]
    BY <2>1
  <2>3. /\ DOMAIN y = SessionFields /\ y.deferred = {} /\ y.revision = Adopted(x)
        /\ \A f \in SessionFields \ {"revision", "deferred", "engine"} : y[f] = x[f]
    BY <2>2 DEF Shape
  <2>4. Shape(y)
    BY <2>3 DEF Shape
  <2> USE DEF y
  <2> QED BY <2>3, <2>4
<1> QED BY <1>1, <1>2

LEMMA ContextLost ==
  ASSUME NEW x, Shape(x), NEW c, DOMAIN c = ContextFields, NEW preserve
  PROVE  Lost(x, InvalidateContext(x, c, preserve)) /\ InvalidateContext(x, c, preserve).context = c
<1> DEFINE base == IF preserve THEN x.engine.base ELSE "Main"
           engine == InvalidateQuery(
                       IF preserve THEN ResetContext(x.engine)
                       ELSE NewEngine(x.engine.tables, Profile, x.generation + 2))
           cleared == ClearPrediction(x)
           moved == [cleared EXCEPT !.context = c]
           left == Bind(moved)
           dropped == [left EXCEPT !.pending = {}, !.cleanup = {}, !.engine = engine]
           adopted == AdoptDeferred(dropped, base)
           published == [adopted EXCEPT !.generation = @ + 1, !.published = adopted.engine,
                                        !.view = DefaultView]
           y == Bind(published)
<1>0. InvalidateContext(x, c, preserve) = y
  BY DEF InvalidateContext
<1> HIDE DEF base, engine
<1>1. /\ Shape(cleared) /\ NothingPredicted(cleared) /\ cleared.prefix.text = <<>>
      /\ \A f \in SessionFields \ {"prefix", "prediction", "wait", "view"} :
           cleared[f] = x[f]
  BY ClearEffect
<1> HIDE DEF cleared
<1>2. /\ Shape(moved) /\ NothingPredicted(moved) /\ moved.prefix.text = <<>>
      /\ moved.context = c
      /\ \A f \in SessionFields \ {"prefix", "prediction", "wait", "view", "context"} :
           moved[f] = x[f]
  BY <1>1 DEF Shape, NothingPredicted
<1> HIDE DEF moved
<1>3. /\ Shape(left) /\ PrefixIsAllowed(left)
      /\ \A f \in SessionFields \ {"prefix"} : left[f] = moved[f]
  BY <1>2, BindEffect DEF DisabledIsEmpty
<1> HIDE DEF left
<1>4. /\ Shape(dropped) /\ dropped.pending = {} /\ dropped.cleanup = {}
      /\ \A f \in SessionFields \ {"pending", "cleanup", "engine"} : dropped[f] = left[f]
  BY <1>3 DEF Shape
<1> HIDE DEF dropped
<1>5. /\ Shape(adopted) /\ adopted.deferred = {} /\ adopted.revision = Adopted(dropped)
      /\ \A f \in SessionFields \ {"revision", "deferred", "engine"} : adopted[f] = dropped[f]
  BY <1>4, AdoptEffect
<1> HIDE DEF adopted
<1>6. /\ Shape(published) /\ published.generation = adopted.generation + 1
      /\ \A f \in SessionFields \ {"generation", "published", "view"} :
           published[f] = adopted[f]
  <2>1. DOMAIN adopted = SessionFields /\ adopted.generation \in Nat
    BY <1>5 DEF Shape
  <2>2. /\ DOMAIN published = SessionFields
        /\ published.generation = adopted.generation + 1
        /\ \A f \in SessionFields \ {"generation", "published", "view"} :
             published[f] = adopted[f]
    BY <2>1
  <2> HIDE DEF published
  <2> QED BY <1>5, <2>1, <2>2 DEF Shape
<1> HIDE DEF published
<1>7. DisabledIsEmpty(published)
  BY <1>3, <1>4, <1>5, <1>6 DEF PrefixIsAllowed, DisabledIsEmpty
<1>8. /\ Shape(y) /\ PrefixIsAllowed(y)
      /\ \A f \in SessionFields \ {"prefix"} : y[f] = published[f]
  BY <1>6, <1>7, BindEffect
<1> HIDE DEF y
<1>9. /\ NothingPredicted(y) /\ y.pending = {} /\ y.cleanup = {} /\ y.deferred = {}
      /\ y.closed = x.closed /\ y.generation = x.generation + 1 /\ y.context = c
  BY <1>2, <1>3, <1>4, <1>5, <1>6, <1>8 DEF NothingPredicted
<1>10. y.revision = Adopted(x)
  BY <1>2, <1>3, <1>4, <1>5, <1>6, <1>8 DEF Adopted
<1>11. Good(y)
  BY <1>8, <1>9, IdleGood DEF NothingPredicted, Few
<1> QED BY <1>0, <1>9, <1>10, <1>11 DEF Lost

LEMMA TerminatedLost ==
  ASSUME NEW x, Shape(x)
  PROVE  Lost(x, HostTerminated(x))
<1> DEFINE c == [x.context EXCEPT !.owns = FALSE, !.epoch = @ + 1]
<1>1. DOMAIN c = ContextFields
  BY DEF Shape
<1> HIDE DEF c
<1>2. Lost(x, InvalidateContext(x, c, Touch))
  BY <1>1, ContextLost
<1> USE DEF c
<1> QED BY <1>2 DEF HostTerminated

LEMMA CloseGood ==
  ASSUME NEW x, Shape(x)
  PROVE  LET y == Close(x)
         IN /\ Good(y) /\ y.closed /\ y.deferred = {} /\ y.pending = {} /\ y.cleanup = {}
            /\ y.generation = x.generation + 1 /\ y.revision = Adopted(x)
<1> DEFINE h == HostTerminated(x)
           y == Close(x)
<1>1. Lost(x, h)
  BY TerminatedLost
<1> HIDE DEF h
<1>2. y = [h EXCEPT !.closed = TRUE, !.deferred = {}]
  BY DEF Close, h
<1>3. /\ DOMAIN y = SessionFields /\ y.closed = TRUE /\ y.deferred = {}
      /\ \A f \in SessionFields \ {"closed", "deferred"} : y[f] = h[f]
  BY <1>1, <1>2 DEF Lost, Good, Shape
<1> HIDE DEF y
<1>4. /\ Shape(y) /\ PrefixIsAllowed(y) /\ y.pending = {} /\ y.wait = {}
      /\ y.prediction = {} /\ y.cleanup = {}
      /\ y.generation = x.generation + 1 /\ y.revision = Adopted(x)
  BY <1>1, <1>3
     DEF Lost, Good, Shape, PrefixIsAllowed, Allowed, Prediction, R, NothingPredicted
<1>5. Good(y)
  BY <1>4, IdleGood DEF Few
<1> USE DEF y
<1> QED BY <1>3, <1>4, <1>5

-----------------------------------------------------------------------------
(* Runtimes. *)

\* A runtime is ignored, deferred until the plan is answered, or taken.
Taken(x, y, r) ==
  /\ y.closed = x.closed
  /\ CASE Ignores(x, r) -> y = x
       [] ~Ignores(x, r) /\ Touch /\ x.pending # {} ->
            y.revision = x.revision /\ y.deferred = {r} /\ y.pending = x.pending
       [] OTHER -> y.revision = r /\ y.deferred = x.deferred

LEMMA ApplyGood ==
  ASSUME NEW x, Good(x), NEW r
  PROVE  LET y == ApplyRuntime(x, r)
         IN Good(y) /\ Advances(x, y) /\ Taken(x, y, r) /\ KeepsCleanup(x, y) /\ Silent(x, y)
<1> DEFINE bound == [x EXCEPT !.revision = r]
           cleared == ClearPrediction(bound)
           adopted == Bind(cleared)
           next == FreshEngine(x, r, IF Touch THEN x.engine.base ELSE "Main")
           same == InvalidateQuery(x.engine)
           swapped == [adopted EXCEPT !.generation = @ + 1, !.engine = same, !.published = same]
           z == [adopted EXCEPT !.engine = next]
           staged == StageCleared(z, next, FinishOp(x), FALSE)
           y == ApplyRuntime(x, r)
<1>1. CASE Ignores(x, r)
  <2>1. y = x
    BY <1>1 DEF ApplyRuntime
  <2> QED BY <1>1, <2>1 DEF Good, Shape, Advances, Taken, KeepsCleanup, Silent
<1>2. CASE ~Ignores(x, r) /\ Touch /\ x.pending # {}
  <2>1. y = [x EXCEPT !.deferred = {r}]
    BY <1>2 DEF ApplyRuntime
  <2> HIDE DEF y
  <2>2. /\ Shape(y) /\ y.deferred = {r} /\ \A f \in SessionFields \ {"deferred"} : y[f] = x[f]
    BY <2>1 DEF Good, Shape
  <2>3. PlanIsCurrent(y) /\ (y.pending # {} => NothingPredicted(y)) /\ RequestIsCurrent(y)
    BY <2>2 DEF Good, PlanIsCurrent, NothingPredicted, RequestIsCurrent, Token
  <2>4. PrefixIsAllowed(y) /\ WaitsWhereItMay(y)
    BY <2>2 DEF Good, PrefixIsAllowed, Allowed, Prediction, R, WaitsWhereItMay
  <2>5. ComposesWhereItMay(y) /\ FewPlans(y) /\ FewRequests(y)
    BY <2>2 DEF Good, ComposesWhereItMay, FewPlans, FewRequests
  <2>6. Good(y) /\ Advances(x, y) /\ Taken(x, y, r)
    BY <1>2, <2>2, <2>3, <2>4, <2>5 DEF Good, Shape, Advances, Taken
  <2>7. KeepsCleanup(x, y) /\ Silent(x, y)
    BY <2>2 DEF KeepsCleanup, Silent
  <2> USE DEF y
  <2> QED BY <2>6, <2>7
<1>3. CASE ~Ignores(x, r) /\ ~(Touch /\ x.pending # {})
  <2>1. (y = swapped /\ x.pending = {}) \/ y = staged
    BY <1>3 DEF ApplyRuntime, InPlace
  <2> HIDE DEF same, next, y
  <2>2. Shape(bound) /\ bound.revision = r
        /\ \A f \in SessionFields \ {"revision"} : bound[f] = x[f]
    BY DEF Good, Shape
  <2> HIDE DEF bound
  <2>3. /\ Shape(cleared) /\ NothingPredicted(cleared) /\ cleared.prefix.text = <<>>
        /\ \A f \in SessionFields \ {"prefix", "prediction", "wait", "view"} :
             cleared[f] = bound[f]
    BY <2>2, ClearEffect
  <2> HIDE DEF cleared
  <2>4. /\ Shape(adopted) /\ PrefixIsAllowed(adopted) /\ NothingPredicted(adopted)
        /\ \A f \in SessionFields \ {"prefix"} : adopted[f] = cleared[f]
    BY <2>3, BindEffect DEF DisabledIsEmpty, NothingPredicted
  <2>5. /\ adopted.revision = r /\ adopted.deferred = x.deferred /\ adopted.closed = x.closed
        /\ adopted.pending = x.pending /\ adopted.generation = x.generation
        /\ x.generation \in Nat
        /\ adopted.cleanup = x.cleanup /\ adopted.context = x.context
    BY <2>2, <2>3, <2>4 DEF Shape
  <2> HIDE DEF adopted
  <2>6. ASSUME y = swapped, x.pending = {}
        PROVE  Good(y) /\ Advances(x, y) /\ Taken(x, y, r) /\ KeepsCleanup(x, y) /\ Silent(x, y)
    <3>1. /\ DOMAIN swapped = SessionFields /\ swapped.generation = x.generation + 1
          /\ \A f \in SessionFields \ {"generation", "engine", "published"} :
               swapped[f] = adopted[f]
      BY <2>4, <2>5 DEF Shape
    <3> HIDE DEF swapped
    <3>2. /\ Shape(y) /\ PrefixIsAllowed(y) /\ y.pending = {} /\ y.wait = {}
          /\ y.prediction = {} /\ y.cleanup = x.cleanup /\ y.context = x.context
      BY <2>4, <2>5, <2>6, <3>1
         DEF Shape, PrefixIsAllowed, Allowed, Prediction, R, NothingPredicted
    <3>3. Good(y)
      BY <3>2, IdleGood DEF Good, FewRequests, Few
    <3>4. Advances(x, y) /\ Taken(x, y, r)
      BY <1>3, <2>5, <2>6, <3>1 DEF Advances, Taken
    <3>5. KeepsCleanup(x, y) /\ Silent(x, y)
      BY <3>2 DEF KeepsCleanup, Silent
    <3> QED BY <3>3, <3>4, <3>5
  <2>7. ASSUME y = staged
        PROVE  Good(y) /\ Advances(x, y) /\ Taken(x, y, r) /\ KeepsCleanup(x, y) /\ Silent(x, y)
    <3>1. /\ Shape(z) /\ PrefixIsAllowed(z) /\ NothingPredicted(z)
          /\ \A f \in SessionFields \ {"engine"} : z[f] = adopted[f]
      BY <2>4 DEF Shape, PrefixIsAllowed, Allowed, Prediction, R, NothingPredicted
    <3> HIDE DEF z
    <3>2. \/ y = z /\ (z.closed \/ Touch)
          \/ /\ Shape(y) /\ ~z.closed
             /\ y.generation = z.generation + 1 /\ y.prediction = {}
             /\ \E p : y.pending = {p} /\ p.token = Token(y)
                      /\ p.previous = z.prediction /\ ~p.predict /\ ~Composing(p.op)
             /\ \A f \in SessionFields \ {"generation", "engine", "prediction", "pending"} :
                  y[f] = z[f]
      <4>1. PICK parts : /\ y = Stage(z, next, parts)
                         /\ ~parts.predict /\ parts.op = FinishOp(x)
        BY <2>7 DEF StageCleared
      <4>2. \A p : PlanOf(z, y, parts, p) =>
                    /\ p.token = Token(y) /\ p.previous = z.prediction
                    /\ ~p.predict /\ ~Composing(p.op)
        BY <4>1, PlainOps, HostOpEffect DEF PlanOf
      <4> QED BY <3>1, <4>1, <4>2, StageEffect
    <3>3. ~x.closed
      BY <1>3 DEF Ignores
    <3>6. z.pending = x.pending /\ z.cleanup = x.cleanup /\ z.context = x.context
      BY <2>5, <3>1
    <3>4. CASE y = z /\ (z.closed \/ Touch)
      <4>0. y.pending = {} /\ y.wait = {} /\ Few(y.cleanup) /\ Few(y.prediction)
        BY <1>3, <2>5, <3>1, <3>3, <3>4, <3>6 DEF NothingPredicted, Good, FewRequests, Few
      <4>1. Good(y)
        BY <3>1, <3>4, <4>0, IdleGood
      <4>2. Advances(x, y) /\ Taken(x, y, r)
        BY <1>3, <2>5, <3>1, <3>4 DEF Advances, Taken
      <4>3. KeepsCleanup(x, y) /\ Silent(x, y)
        BY <3>4, <3>6, <4>0 DEF KeepsCleanup, Silent
      <4> QED BY <4>1, <4>2, <4>3
    <3>5. CASE /\ Shape(y) /\ ~z.closed
               /\ y.generation = z.generation + 1 /\ y.prediction = {}
               /\ \E p : y.pending = {p} /\ p.token = Token(y)
                        /\ p.previous = z.prediction /\ ~p.predict /\ ~Composing(p.op)
               /\ \A f \in SessionFields \ {"generation", "engine", "prediction", "pending"} :
                    y[f] = z[f]
      <4>1. NothingPredicted(y) /\ RequestIsCurrent(y) /\ WaitsWhereItMay(y)
        BY <3>1, <3>5 DEF NothingPredicted, RequestIsCurrent, WaitsWhereItMay
      <4>2. PlanIsCurrent(y)
        BY <3>5 DEF PlanIsCurrent
      <4>3. PrefixIsAllowed(y)
        BY <3>1, <3>5 DEF PrefixIsAllowed, Allowed, Prediction, R
      <4>4. Advances(x, y) /\ Taken(x, y, r)
        BY <1>3, <2>5, <3>1, <3>5 DEF Advances, Taken
      <4>5. FewPlans(y) /\ FewRequests(y)
        BY <3>1, <3>5, <3>6, <4>1 DEF Good, FewPlans, FewRequests, Few, NothingPredicted
      <4>6. KeepsCleanup(x, y) /\ Silent(x, y)
        BY <3>5, <3>6, <4>1 DEF KeepsCleanup, Silent, NothingPredicted
      <4>7. ComposesWhereItMay(y)
        BY <3>5 DEF ComposesWhereItMay
      <4> QED BY <3>5, <4>1, <4>2, <4>3, <4>4, <4>5, <4>6, <4>7 DEF Good
    <3> QED BY <3>2, <3>4, <3>5
  <2> USE DEF y
  <2> QED BY <2>1, <2>6, <2>7
<1> QED BY <1>1, <1>2, <1>3

-----------------------------------------------------------------------------
(* Acknowledgements. *)

\* The prefix takes the outcome of a plan, and nothing else does.
LEMMA PrefixAckEffect ==
  ASSUME NEW x, Shape(x), NEW p, NEW outcome
  PROVE  LET y == PrefixAcknowledged(x, p, outcome)
         IN /\ Shape(y)
            /\ y.prefix.editor = x.prefix.editor /\ y.prefix.enabled = x.prefix.enabled
            /\ ~x.prefix.enabled => y.prefix.text = x.prefix.text
            /\ \A f \in SessionFields \ {"prefix"} : y[f] = x[f]
<1> DEFINE y == PrefixAcknowledged(x, p, outcome)
<1>1. ASSUME x.prefix.enabled, y = InvalidatePrefix(x)
      PROVE  /\ Shape(y)
             /\ y.prefix.editor = x.prefix.editor /\ y.prefix.enabled = x.prefix.enabled
             /\ \A f \in SessionFields \ {"prefix"} : y[f] = x[f]
  BY <1>1, InvalidateEffect
<1>3. ASSUME x.prefix.enabled,
             NEW text, NEW n, y = [x EXCEPT !.prefix.text = text, !.prefix.generation = n]
      PROVE  /\ Shape(y)
             /\ y.prefix.editor = x.prefix.editor /\ y.prefix.enabled = x.prefix.enabled
             /\ \A f \in SessionFields \ {"prefix"} : y[f] = x[f]
  <2> HIDE DEF y
  <2>1. /\ DOMAIN y = SessionFields
        /\ y.prefix = [[x.prefix EXCEPT !.text = text] EXCEPT !.generation = n]
        /\ \A f \in SessionFields \ {"prefix"} : y[f] = x[f]
    BY <1>3 DEF Shape
  <2>2. /\ DOMAIN y.prefix = PrefixFields
        /\ y.prefix.editor = x.prefix.editor /\ y.prefix.enabled = x.prefix.enabled
    BY <2>1 DEF Shape
  <2> QED BY <2>1, <2>2 DEF Shape
<1>4. \/ y = x
      \/ x.prefix.enabled /\ y = InvalidatePrefix(x)
      \/ x.prefix.enabled
         /\ \E text, n : y = [x EXCEPT !.prefix.text = text, !.prefix.generation = n]
  <2> DEFINE replaced == Commits(p.op) /\ p.op.replace # 0 /\ ~p.owned
             known == IF replaced THEN <<>> ELSE x.prefix.text
             text == LastOf(known \o p.op.text)
             n == x.prefix.generation + (IF replaced THEN 2 ELSE 1)
  <2>1. \/ y = x
        \/ x.prefix.enabled /\ y = InvalidatePrefix(x)
        \/ x.prefix.enabled
           /\ y = [x EXCEPT !.prefix.text = text, !.prefix.generation = n]
    BY Zenon DEF PrefixAcknowledged
  <2> HIDE DEF text, n, y
  <2> QED BY <2>1
<1> HIDE DEF y
<1>5. /\ Shape(y)
      /\ y.prefix.editor = x.prefix.editor /\ y.prefix.enabled = x.prefix.enabled
      /\ ~x.prefix.enabled => y.prefix.text = x.prefix.text
      /\ \A f \in SessionFields \ {"prefix"} : y[f] = x[f]
  BY <1>1, <1>3, <1>4
<1> USE DEF y
<1> QED BY <1>5

\* Publishing the predictions after a commit asks about the present.
LEMMA PublishEffect ==
  ASSUME NEW x, Good(x), x.pending = {}, x.cleanup = {}, x.wait = {}, Few(x.prediction)
  PROVE  LET y == PublishPredictions(x)
         IN Good(y) /\ \A f \in SessionFields \ {"prediction", "wait", "view"} : y[f] = x[f]
<1> DEFINE items == Recalled(x)
           query == <<0, x.generation>>
           model == Prediction(x).model
           request == [token |-> Token(x), query |-> query, context |-> x.prefix.generation]
           list == [query |-> query, items |-> items]
           wait == IF model THEN {request} ELSE x.wait
           view == IF model THEN DefaultView ELSE PredictionView(items)
           y == PublishPredictions(x)
<1>1. \/ y = x
      \/ x.gate /\ y = [x EXCEPT !.prediction = {list}, !.wait = wait, !.view = view]
  BY DEF PublishPredictions
<1>2. wait = {} \/ (wait = {request} /\ ~view.prediction)
  BY DEF DefaultView
<1>3. request.token = Token(x) /\ request.context = x.prefix.generation
      /\ request.query = list.query
  OBVIOUS
<1> HIDE DEF items, query, model, request, list, wait, view, y
<1>4. CASE y = x
  BY <1>4 DEF y
<1>5. ASSUME x.gate, y = [x EXCEPT !.prediction = {list}, !.wait = wait, !.view = view]
      PROVE  Good(y) /\ \A f \in SessionFields \ {"prediction", "wait", "view"} : y[f] = x[f]
  <2>1. /\ DOMAIN y = SessionFields
        /\ y.prediction = {list} /\ y.wait = wait /\ y.view = view
        /\ \A f \in SessionFields \ {"prediction", "wait", "view"} : y[f] = x[f]
    BY <1>5 DEF Good, Shape
  <2>2. Shape(y) /\ y.pending = {} /\ y.cleanup = {}
    BY <2>1 DEF Good, Shape
  <2>3. RequestIsCurrent(y)
    BY <1>2, <1>3, <2>1 DEF RequestIsCurrent, Token
  <2>4. PlanIsCurrent(y) /\ WaitsWhereItMay(y) /\ ComposesWhereItMay(y)
    BY <1>5, <2>1, <2>2 DEF PlanIsCurrent, WaitsWhereItMay, ComposesWhereItMay
  <2>6. FewPlans(y) /\ FewRequests(y)
    BY <1>2, <2>1, <2>2 DEF FewPlans, FewRequests, Few
  <2>5. PrefixIsAllowed(y)
    BY <2>1 DEF Good, PrefixIsAllowed, Allowed, Prediction, R
  <2> QED BY <2>1, <2>2, <2>3, <2>4, <2>5, <2>6 DEF Good
<1> QED BY <1>1, <1>4, <1>5 DEF y

\* A cleanup that was due is done or due as it was.
KeepsIntent(x, y) == \A d \in x.cleanup : y.cleanup \subseteq {d}

\* A touch session that must clean up owns the preedit.
Owned(x) == x.cleanup # {} /\ Touch => x.context.owns

\* What the settled plan leaves: no plan, and the runtime as it was unless the context
\* is lost.
Settled(x, y) ==
  /\ Good(y) /\ y.pending = {} /\ y.closed = x.closed
  /\ KeepsIntent(x, y)
  /\ \/ y.generation = x.generation /\ y.revision = x.revision /\ y.deferred = x.deferred
     \/ y.generation = x.generation + 1 /\ y.revision = Adopted(x) /\ y.deferred = {}

\* An outcome that leaves the context replaces the engine, the view, the list and the cleanup.
LEMMA ReplacedSettles ==
  ASSUME NEW x, Shape(x), PrefixIsAllowed(x), x.pending = {}, x.wait = {},
         NEW y, DOMAIN y = SessionFields, Few(y.prediction), Few(y.cleanup), KeepsIntent(x, y),
         \A f \in SessionFields
                  \ {"engine", "published", "view", "cleanup", "prediction"} : y[f] = x[f]
  PROVE  Settled(x, y) /\ y.wait = {} /\ y.context = x.context
<1>1. Shape(y) /\ PrefixIsAllowed(y)
  BY DEF Shape, PrefixIsAllowed, Allowed, Prediction, R
<1>2. Good(y)
  BY <1>1, IdleGood
<1> QED BY <1>2 DEF Settled

\* The preedit is the session's after the answer as the applied operation leaves it, or as
\* the host says; one that is not owned leaves nothing to clean up.
SettledAs(x, y, op, outcome) ==
  /\ y.context.owns = IF outcome = "Applied" THEN OwnsAfter(x, op) ELSE x.context.owns
  /\ Touch /\ x.cleanup = {} /\ (~x.context.owns \/ outcome \in {"Applied", "StaleContext"})
       => y.cleanup = {}

LEMMA SettleGood ==
  ASSUME NEW x, Good(x), x.pending = {}, x.wait = {}, NEW p, Few(p.previous), NEW outcome
  PROVE  LET y == Settle(x, p, outcome)
         IN /\ Settled(x, y) /\ (y.wait # {} => p.predict)
            /\ (outcome = "RejectedBeforeWrite" => Owned(x)) => Owned(y)
            /\ SettledAs(x, y, p.op, outcome)
<1> DEFINE y == Settle(x, p, outcome)
<1>0. Shape(x) /\ PrefixIsAllowed(x) /\ Few(x.cleanup) /\ Few(x.prediction)
  BY DEF Good, FewRequests
<1>1. ASSUME y = AckApplied(x, p)
      PROVE  /\ Settled(x, y) /\ (y.wait # {} => p.predict) /\ Owned(y)
             /\ y.context.owns = OwnsAfter(x, p.op) /\ y.cleanup = {}
  <2> DEFINE view == IF p.unchanged THEN x.view ELSE p.view
             q == [x EXCEPT !.engine = p.next, !.published = p.next, !.cleanup = {},
                            !.view = view,
                            !.context.owns = OwnsAfter(x, p.op)]
  <2>1. y = q \/ (p.predict /\ y = PublishPredictions(q))
    BY <1>1 DEF AckApplied
  <2> HIDE DEF view, y
  <2>2. /\ DOMAIN q = SessionFields /\ q.cleanup = {}
        /\ q.context = [x.context EXCEPT !.owns = OwnsAfter(x, p.op)]
        /\ \A f \in SessionFields \ {"engine", "published", "cleanup", "view", "context"} :
             q[f] = x[f]
    BY <1>0 DEF Shape
  <2> HIDE DEF q
  <2>3. /\ DOMAIN q.context = ContextFields /\ q.context.owns = OwnsAfter(x, p.op)
        /\ \A f \in ContextFields \ {"owns"} : q.context[f] = x.context[f]
    BY <1>0, <2>2 DEF Shape
  <2>4. Shape(q) /\ PrefixIsAllowed(q)
    BY <1>0, <2>2, <2>3 DEF Shape, PrefixIsAllowed, Allowed, Prediction, R
  <2>5. Good(q) /\ Few(q.prediction)
    BY <1>0, <2>2, <2>4, IdleGood DEF Few
  <2>6. Settled(x, q)
    BY <2>2, <2>5 DEF Settled, KeepsIntent
  <2>7. /\ Good(PublishPredictions(q))
        /\ \A f \in SessionFields \ {"prediction", "wait", "view"} :
             PublishPredictions(q)[f] = q[f]
    BY <2>2, <2>5, PublishEffect
  <2>8. Settled(x, PublishPredictions(q))
    BY <2>6, <2>7 DEF Settled, KeepsIntent
  <2> QED BY <2>1, <2>2, <2>3, <2>6, <2>7, <2>8 DEF Owned
<1>3. ASSUME y = AckRetained(x, p)
      PROVE  Settled(x, y) /\ y.wait = {} /\ y.cleanup = x.cleanup /\ y.context = x.context
  <2> DEFINE e == IF p.rollback = {} THEN x.engine ELSE The(p.rollback)
  <2>1. y = [x EXCEPT !.engine = e, !.prediction = p.previous]
    BY <1>3 DEF AckRetained
  <2> HIDE DEF e, y
  <2>2. /\ DOMAIN y = SessionFields /\ y.prediction = p.previous /\ y.cleanup = x.cleanup
        /\ \A f \in SessionFields
                      \ {"engine", "published", "view", "cleanup", "prediction"} : y[f] = x[f]
    BY <1>0, <2>1 DEF Shape
  <2>3. KeepsIntent(x, y)
    BY <1>0, <2>2 DEF KeepsIntent, Few
  <2> QED BY <1>0, <2>2, <2>3, ReplacedSettles
<1>4. ASSUME y = AckUncertain(x, p)
      PROVE  /\ Settled(x, y) /\ y.wait = {} /\ Owned(y) /\ y.context = x.context
             /\ Touch /\ ~x.context.owns => y.cleanup = {}
  <2> DEFINE e == Emptied(x.engine)
             c == Leftover(x, p)
  <2>1. y = [x EXCEPT !.engine = e, !.published = e, !.view = DefaultView, !.cleanup = c]
    BY <1>4 DEF AckUncertain
  <2>2. Few(c) /\ \A d \in x.cleanup : c \subseteq {d}
    <3>1. c \subseteq {Intent(x, p)}
      BY DEF Leftover
    <3>2. \A d \in x.cleanup : Intent(x, p) = d
      BY <1>0 DEF Intent, The, Few
    <3> QED BY <3>1, <3>2 DEF Few
  <2>3. /\ c # {} /\ Touch => x.context.owns
        /\ Touch /\ ~x.context.owns => c = {}
    BY DEF Leftover
  <2> HIDE DEF e, c, y
  <2>4. /\ DOMAIN y = SessionFields /\ y.prediction = x.prediction /\ y.cleanup = c
        /\ \A f \in SessionFields
                      \ {"engine", "published", "view", "cleanup", "prediction"} : y[f] = x[f]
    BY <1>0, <2>1 DEF Shape
  <2>5. Settled(x, y) /\ y.wait = {} /\ y.context = x.context
    BY <1>0, <2>2, <2>4, ReplacedSettles DEF KeepsIntent
  <2> QED BY <2>3, <2>4, <2>5 DEF Owned
<1>5. ASSUME y = InvalidateContext(x, x.context, FALSE)
      PROVE  Settled(x, y) /\ y.wait = {} /\ Owned(y) /\ y.context = x.context /\ y.cleanup = {}
  <2>1. DOMAIN x.context = ContextFields
    BY <1>0 DEF Shape
  <2> DEFINE z == InvalidateContext(x, x.context, FALSE)
  <2>2. Lost(x, z) /\ z.context = x.context
    BY <1>0, <2>1, ContextLost
  <2> HIDE DEF z
  <2>3. Lost(x, y) /\ y.context = x.context
    BY <1>5, <2>2 DEF z
  <2> QED BY <2>3 DEF Lost, Settled, KeepsIntent, NothingPredicted, Owned
<1>6. \/ y = AckApplied(x, p) /\ outcome = "Applied"
      \/ y = AckUncertain(x, p) /\ outcome \notin {"Applied", "StaleContext"}
      \/ y = AckRetained(x, p) /\ outcome = "RejectedBeforeWrite"
      \/ y = InvalidateContext(x, x.context, FALSE) /\ outcome = "StaleContext"
  BY DEF Settle
<1> HIDE DEF y
<1>7. /\ Settled(x, y) /\ (y.wait # {} => p.predict)
      /\ (outcome = "RejectedBeforeWrite" => Owned(x)) => Owned(y)
  BY <1>1, <1>3, <1>4, <1>5, <1>6 DEF Owned
<1>8. SettledAs(x, y, p.op, outcome)
  BY <1>1, <1>3, <1>4, <1>5, <1>6 DEF SettledAs
<1> USE DEF y
<1> QED BY <1>7, <1>8

LEMMA KeptMoves ==
  ASSUME NEW x, NEW y, NEW n, Deferral(x, n), Kept(x, y)
  PROVE  Moves(x, y, n)
<1>1. x.revision \in Nat
  BY SessionAssumption DEF Deferral
<1> QED BY <1>1 DEF Deferral, Moves, Kept, KeepsRuntime

\* A lost context adopts the newest runtime that was deferred.
LEMMA AdoptedMoves ==
  ASSUME NEW x, NEW y, NEW n, Deferral(x, n),
         y.closed = x.closed \/ y.closed, y.deferred = {}, y.revision = Adopted(x)
  PROVE  Moves(x, y, n)
<1>1. x.revision \in Nat /\ n \in Nat
  BY SessionAssumption DEF Deferral
<1>2. CASE x.deferred = {}
  BY <1>1, <1>2 DEF Adopted, Moves, Deferral
<1>3. CASE x.deferred # {}
  <2>1. Touch /\ ~x.closed /\ x.deferred = {n} /\ n > x.revision
    BY <1>3 DEF Deferral
  <2>2. Adopted(x) = n
    BY <1>3, <2>1 DEF Adopted, The
  <2> QED BY <1>1, <2>1, <2>2 DEF Moves, Deferral
<1> QED BY <1>2, <1>3

\* A runtime is offered: the newest one is now the newer of the two.
LEMMA OfferMoves ==
  ASSUME NEW x, NEW n, Deferral(x, n), NEW r \in DOMAIN Runtimes, NEW y, Taken(x, y, r)
  PROVE  Moves(x, y, IF r > n THEN r ELSE n)
<1> DEFINE m == IF r > n THEN r ELSE n
<1>1. /\ x.revision \in Nat /\ n \in Nat /\ r \in Nat /\ m \in DOMAIN Runtimes
      /\ x.revision \in DOMAIN Runtimes
  BY SessionAssumption DEF Deferral
<1>2. CASE ~Touch
  BY <1>1, <1>2 DEF Deferral, Moves, Taken
<1>3. CASE Touch
  <2>1. CASE Ignores(x, r)
    <3>1. y = x /\ (x.closed \/ m = n)
      BY <1>1, <1>3, <2>1 DEF Taken, Ignores, Deferral
    <3> QED BY <1>1, <1>3, <3>1 DEF Deferral, Moves
  <2>2. CASE ~Ignores(x, r) /\ x.pending # {}
    BY <1>1, <1>3, <2>2 DEF Taken, Ignores, Deferral, Moves
  <2>3. CASE ~Ignores(x, r) /\ x.pending = {}
    BY <1>1, <1>3, <2>3 DEF Taken, Ignores, Deferral, Moves
  <2> QED BY <2>1, <2>2, <2>3
<1> QED BY <1>2, <1>3

\* Only a plan of the user's is followed by a question to the model, and a touch session
\* cleans up what it owns if its host tells the truth about a plan it did not begin.
AnswerTaken(x, y, token, outcome, owns) ==
  /\ KeepsIntent(x, y) /\ Silent(x, y) /\ y.closed = x.closed
  /\ y.wait # {} => x.wait # {} \/ (IsCurrent(x, token) /\ The(x.pending).predict)
  /\ Owned(x) /\ (Touch /\ outcome = "RejectedBeforeWrite" => owns = x.context.owns)
       => Owned(y)

\* What a touch session owns once the operation it was asked for is answered.
OwnsThen(x, op, outcome, owns) ==
  CASE outcome # "Applied" -> owns
    [] outcome = "Applied" /\ Composing(op) -> x.context.preedit
    [] outcome = "Applied" /\ op.kind \in {"End", "Commit"} -> FALSE
    [] OTHER -> owns

\* The plan that is answered is settled, and a plan that follows it is a new one; any other
\* answer changes nothing.
PlanSettled(x, y, token, outcome, owns) ==
  IF ~IsCurrent(x, token) THEN y = x
  ELSE /\ y.pending # {} => y.generation > x.generation
       /\ Touch => y.context.owns = OwnsThen(x, The(x.pending).op, outcome, owns)
       /\ Touch /\ x.cleanup = {} /\ (~owns \/ outcome \in {"Applied", "StaleContext"})
            => y.cleanup = {}

\* The answer of the host: current or not, and with a runtime deferred or not.
LEMMA AcknowledgeGood ==
  ASSUME NEW x, Good(x), NEW n, Deferral(x, n), NEW token, NEW outcome, NEW owns
  PROVE  LET y == Acknowledge(x, token, outcome, owns)
         IN /\ Good(y) /\ Advances(x, y) /\ Moves(x, y, n)
            /\ AnswerTaken(x, y, token, outcome, owns)
            /\ PlanSettled(x, y, token, outcome, owns)
<1> DEFINE p == The(x.pending)
           owned == IF Touch THEN owns ELSE x.context.owns
           taken == [x EXCEPT !.pending = {}, !.context.owns = owned]
           known == PrefixAcknowledged(taken, p, outcome)
           settled == Settle(known, p, outcome)
           idle == [settled EXCEPT !.deferred = {}]
           y == Acknowledge(x, token, outcome, owns)
<1>1. CASE ~IsCurrent(x, token)
  <2>1. y = x
    BY <1>1 DEF Acknowledge
  <2>2. Kept(x, y)
    BY <2>1, KeptReflexive
  <2>3. Moves(x, y, n)
    BY <2>2, KeptMoves
  <2> HIDE DEF y
  <2>4. Good(y) /\ Advances(x, y) /\ Moves(x, y, n)
    BY <2>2, <2>3 DEF Kept
  <2>5. AnswerTaken(x, y, token, outcome, owns)
    BY <2>1 DEF AnswerTaken, KeepsIntent, Silent, Good, FewRequests, Few
  <2>6. PlanSettled(x, y, token, outcome, owns)
    BY <1>1, <2>1 DEF PlanSettled
  <2> USE DEF y
  <2> QED BY <2>4, <2>5, <2>6
<1>2. CASE IsCurrent(x, token)
  <2>1. IF settled.deferred = {} THEN y = settled
        ELSE y = ApplyRuntime(idle, The(settled.deferred))
    BY <1>2 DEF Acknowledge, Resumed
  <2> HIDE DEF p, owned, y
  <2>2. /\ x.wait = {} /\ ~x.closed /\ Shape(x) /\ PrefixIsAllowed(x) /\ Few(p.previous)
        /\ Few(x.cleanup) /\ x.prediction = {}
    <3>1. p \in x.pending
      BY <1>2 DEF IsCurrent, The, p
    <3> QED BY <1>2, <3>1 DEF IsCurrent, Good, NothingPredicted, FewPlans, FewRequests
  <2>3. /\ DOMAIN taken = SessionFields /\ taken.pending = {}
        /\ taken.context = [x.context EXCEPT !.owns = owned]
        /\ \A f \in SessionFields \ {"pending", "context"} : taken[f] = x[f]
    BY <2>2 DEF Shape
  <2> HIDE DEF taken
  <2>4. /\ DOMAIN taken.context = ContextFields
        /\ \A f \in ContextFields \ {"owns"} : taken.context[f] = x.context[f]
    BY <2>2, <2>3 DEF Shape
  <2>5. Shape(taken) /\ PrefixIsAllowed(taken)
    BY <2>2, <2>3, <2>4 DEF Shape, PrefixIsAllowed, Allowed, Prediction, R
  <2>6. /\ Shape(known)
        /\ known.prefix.editor = taken.prefix.editor
        /\ known.prefix.enabled = taken.prefix.enabled
        /\ ~taken.prefix.enabled => known.prefix.text = taken.prefix.text
        /\ \A f \in SessionFields \ {"prefix"} : known[f] = taken[f]
    BY <2>5, PrefixAckEffect
  <2> HIDE DEF known
  <2>7. PrefixIsAllowed(known) /\ known.pending = {} /\ known.wait = {}
    BY <2>2, <2>3, <2>5, <2>6 DEF PrefixIsAllowed, Allowed, Prediction, R
  <2>8. Good(known)
    BY <2>2, <2>3, <2>6, <2>7, IdleGood DEF Few
  <2>9. /\ Settled(known, settled) /\ (settled.wait # {} => p.predict)
        /\ (outcome = "RejectedBeforeWrite" => Owned(known)) => Owned(settled)
        /\ SettledAs(known, settled, p.op, outcome)
    BY <2>2, <2>7, <2>8, SettleGood
  <2> HIDE DEF settled
  <2>10. /\ known.generation = x.generation /\ known.revision = x.revision
         /\ known.deferred = x.deferred /\ known.closed = x.closed
         /\ x.generation \in Nat
    BY <2>2, <2>3, <2>6 DEF Shape
  <2>11. Adopted(known) = Adopted(x)
    BY <2>10 DEF Adopted
  <2>12. Advances(x, settled)
    BY <2>9, <2>10 DEF Settled, Advances
  <2>15. /\ KeepsIntent(x, settled)
         /\ Owned(x) /\ (Touch /\ outcome = "RejectedBeforeWrite" => owns = x.context.owns)
              => Owned(settled)
    <3>1. known.cleanup = x.cleanup /\ known.context = [x.context EXCEPT !.owns = owned]
      BY <2>3, <2>6
    <3>2. known.context.owns = owned
      BY <2>2, <3>1 DEF Shape
    <3> QED BY <2>9, <3>1, <3>2 DEF Settled, KeepsIntent, Owned, owned
  <2>16. /\ Touch => settled.context.owns = OwnsThen(x, p.op, outcome, owns)
         /\ Touch /\ x.cleanup = {} /\ (~owns \/ outcome \in {"Applied", "StaleContext"})
              => settled.cleanup = {}
    <3>1. known.cleanup = x.cleanup /\ known.context = [x.context EXCEPT !.owns = owned]
      BY <2>3, <2>6
    <3>2. known.context.owns = owned /\ known.context.preedit = x.context.preedit
      BY <2>2, <3>1 DEF Shape
    <3>3. Touch => OwnsAfter(known, p.op) = OwnsThen(x, p.op, "Applied", owns)
      BY <3>2 DEF OwnsAfter, OwnsThen, Composing, owned
    <3>4. outcome # "Applied" => OwnsThen(x, p.op, outcome, owns) = owns
      BY DEF OwnsThen
    <3> QED BY <2>9, <3>1, <3>2, <3>3, <3>4 DEF SettledAs, owned
  <2>13. CASE settled.deferred = {}
    <3>1. y = settled
      BY <2>1, <2>13
    <3>2. y.revision = Adopted(x) /\ y.closed = x.closed
      BY <2>9, <2>10, <2>11, <2>13, <3>1 DEF Settled, Adopted
    <3>3. Moves(x, y, n)
      BY <2>13, <3>1, <3>2, AdoptedMoves
    <3>5. AnswerTaken(x, y, token, outcome, owns)
      BY <1>2, <2>9, <2>15, <3>1, <3>2 DEF Settled, AnswerTaken, Silent, p
    <3>6. PlanSettled(x, y, token, outcome, owns)
      BY <1>2, <2>9, <2>16, <3>1 DEF Settled, PlanSettled, p
    <3>4. /\ Good(y) /\ Advances(x, y) /\ Moves(x, y, n)
          /\ AnswerTaken(x, y, token, outcome, owns) /\ PlanSettled(x, y, token, outcome, owns)
      BY <2>9, <2>12, <3>1, <3>3, <3>5, <3>6 DEF Settled
    <3> USE DEF y
    <3> QED BY <3>4
  <2>14. CASE settled.deferred # {}
    <3>1. /\ settled.generation = x.generation /\ settled.revision = x.revision
          /\ settled.deferred = x.deferred /\ ~settled.closed /\ Good(settled)
          /\ settled.pending = {}
      BY <2>2, <2>9, <2>10, <2>14 DEF Settled
    <3>2. Touch /\ x.deferred = {n} /\ n > x.revision
      BY <2>14, <3>1 DEF Deferral
    <3>3. The(settled.deferred) = n
      BY <3>1, <3>2 DEF The
    <3>4. /\ DOMAIN idle = SessionFields /\ idle.deferred = {}
          /\ \A f \in SessionFields \ {"deferred"} : idle[f] = settled[f]
      BY <3>1 DEF Good, Shape
    <3> HIDE DEF idle
    <3>5. Shape(idle) /\ PrefixIsAllowed(idle) /\ idle.pending = {}
      BY <3>1, <3>4 DEF Good, Shape, PrefixIsAllowed, Allowed, Prediction, R
    <3>7. Good(idle)
      <4>1. RequestIsCurrent(idle)
        BY <3>1, <3>4 DEF Good, RequestIsCurrent, Token
      <4>2. WaitsWhereItMay(idle) /\ PlanIsCurrent(idle) /\ ComposesWhereItMay(idle)
        BY <3>1, <3>4 DEF Good, WaitsWhereItMay, PlanIsCurrent, ComposesWhereItMay
      <4>3. FewPlans(idle) /\ FewRequests(idle)
        BY <3>1, <3>4 DEF Good, FewPlans, FewRequests
      <4> QED BY <3>5, <4>1, <4>2, <4>3 DEF Good
    <3>8. /\ Good(y) /\ Advances(idle, y) /\ Taken(idle, y, n)
          /\ KeepsCleanup(idle, y) /\ Silent(idle, y)
      BY <2>1, <2>14, <3>3, <3>7, ApplyGood
    <3>9. n \in Nat /\ x.revision \in Nat /\ n \in DOMAIN Runtimes
      BY SessionAssumption DEF Deferral
    <3>10. ~Ignores(idle, n)
      BY <3>1, <3>2, <3>4, <3>9 DEF Ignores
    <3>11. y.revision = n /\ y.deferred = {} /\ ~y.closed
      BY <3>1, <3>4, <3>5, <3>8, <3>10 DEF Taken
    <3>12. Moves(x, y, n)
      BY <3>2, <3>9, <3>11 DEF Moves, Deferral
    <3>13. Advances(x, y)
      BY <2>10, <3>1, <3>4, <3>8 DEF Advances
    <3>15. AnswerTaken(x, y, token, outcome, owns)
      <4>1. y.cleanup = settled.cleanup /\ y.context.owns = settled.context.owns
            /\ y.wait \subseteq settled.wait
        BY <3>4, <3>8 DEF KeepsCleanup
      <4>2. Silent(x, y)
        BY <3>5, <3>8 DEF Silent
      <4>3. y.closed = x.closed
        BY <2>2, <3>11, <3>8, <3>4, <2>9, <2>10 DEF Taken, Settled
      <4> QED BY <1>2, <2>9, <2>15, <4>1, <4>2, <4>3 DEF AnswerTaken, KeepsIntent, Owned, p
    <3>16. PlanSettled(x, y, token, outcome, owns)
      <4>1. y.cleanup = settled.cleanup /\ y.context.owns = settled.context.owns
        BY <3>4, <3>8 DEF KeepsCleanup
      <4>2. y.pending # {} => y.generation > x.generation
        <5>1. y.generation \in Nat /\ idle.generation = x.generation /\ x.generation \in Nat
          BY <2>10, <3>1, <3>4, <3>8 DEF Good, Shape
        <5> QED BY <3>5, <3>8, <5>1 DEF Advances
      <4> QED BY <1>2, <2>16, <4>1, <4>2 DEF PlanSettled, p
    <3>14. /\ Good(y) /\ Advances(x, y) /\ Moves(x, y, n)
           /\ AnswerTaken(x, y, token, outcome, owns)
           /\ PlanSettled(x, y, token, outcome, owns)
      BY <3>8, <3>12, <3>13, <3>15, <3>16
    <3> USE DEF y
    <3> QED BY <3>14
  <2> QED BY <2>13, <2>14
<1> QED BY <1>1, <1>2

\* A session starts with what its methods keep.
LEMMA NewGood ==
  ASSUME NEW r \in DOMAIN Runtimes, NEW c, DOMAIN c = ContextFields
  PROVE  LET x == NewSession(r, c)
         IN /\ Good(x) /\ Deferral(x, r) /\ Owned(x) /\ x.wait = {} /\ x.revision = r
            /\ x.pending = {} /\ x.cleanup = {} /\ ~x.closed
<1> DEFINE engine == NewEngine(Runtimes[r].tables, Profile, 1)
           allowed == /\ Runtimes[r].prediction.enabled
                      /\ c.purpose = "Text" /\ c.assist
           prefix == [editor |-> <<c.editor, c.epoch>>, enabled |-> allowed,
                      generation |-> 1, text |-> <<>>]
           x == NewSession(r, c)
<1>1. x = [engine |-> engine, published |-> engine, revision |-> r, generation |-> 0,
      gate |-> TRUE, context |-> c, view |-> DefaultView, pending |-> {},
      cleanup |-> {}, closed |-> FALSE, deferred |-> {}, prediction |-> {}, wait |-> {},
      prefix |-> prefix]
  BY DEF NewSession
<1> HIDE DEF engine, x
<1>3. Shape(x)
  BY <1>1 DEF Shape
<1>4. PrefixIsAllowed(x)
  <2>1. /\ prefix.editor = <<c.editor, c.epoch>> /\ prefix.enabled = allowed
        /\ prefix.text = <<>>
    OBVIOUS
  <2> HIDE DEF prefix
  <2>2. x.revision = r /\ x.context = c /\ x.prefix = prefix
    BY <1>1
  <2>3. Allowed(x) = allowed
    BY <2>2 DEF Allowed, Prediction, R
  <2> QED BY <2>1, <2>2, <2>3 DEF PrefixIsAllowed
<1>5. Good(x)
  BY <1>1, <1>3, <1>4, IdleGood DEF Few
<1>6. /\ Deferral(x, r) /\ Owned(x) /\ x.wait = {} /\ x.revision = r
      /\ x.pending = {} /\ x.cleanup = {} /\ ~x.closed
  BY <1>1 DEF Deferral, Owned
<1> USE DEF x
<1> QED BY <1>5, <1>6

-----------------------------------------------------------------------------
(* Sequences, whatever their elements. *)

IsSeq(q) == \E S : q \in Seq(S)

LEMMA DomainOf ==
  ASSUME NEW q, IsSeq(q)
  PROVE  Len(q) \in Nat /\ DOMAIN q = 1..Len(q) /\ (q = <<>> <=> Len(q) = 0)
  BY DEF IsSeq

LEMMA TailOf ==
  ASSUME NEW q, IsSeq(q), q # <<>>
  PROVE  /\ IsSeq(Tail(q)) /\ Len(Tail(q)) = Len(q) - 1 /\ Len(q) > 0 /\ Head(q) = q[1]
         /\ \A i \in 1..(Len(q) - 1) : Tail(q)[i] = q[i + 1]
<1>1. PICK S : q \in Seq(S)
  BY DEF IsSeq
<1>2. Tail(q) \in Seq(S)
  BY <1>1
<1> QED BY <1>1, <1>2 DEF IsSeq

LEMMA CatOf ==
  ASSUME NEW p, NEW q, IsSeq(p), IsSeq(q)
  PROVE  /\ IsSeq(p \o q) /\ Len(p \o q) = Len(p) + Len(q)
         /\ \A i \in 1..Len(p) : (p \o q)[i] = p[i]
         /\ \A i \in 1..Len(q) : (p \o q)[Len(p) + i] = q[i]
<1>1. PICK S, U : p \in Seq(S) /\ q \in Seq(U)
  BY DEF IsSeq
<1>2. p \in Seq(S \cup U) /\ q \in Seq(S \cup U)
  BY <1>1
<1>3. p \o q \in Seq(S \cup U)
  BY <1>2
<1> QED BY <1>1, <1>2, <1>3 DEF IsSeq

LEMMA EmptySequence ==
  /\ IsSeq(<<>>) /\ Len(<<>>) = 0
  /\ \A q : IsSeq(q) => <<>> \o q = q
<1>1. <<>> \in Seq({})
  OBVIOUS
<1>2. ASSUME NEW q, IsSeq(q)
      PROVE  <<>> \o q = q
  BY <1>2 DEF IsSeq
<1> QED BY <1>1, <1>2 DEF IsSeq

LEMMA OneInstruction ==
  ASSUME NEW a
  PROVE  IsSeq(<<a>>) /\ Len(<<a>>) = 1 /\ <<a>>[1] = a /\ <<a>> # <<>>
<1>1. <<a>> \in Seq({a})
  OBVIOUS
<1> QED BY <1>1 DEF IsSeq

LEMMA TwoInstructions ==
  ASSUME NEW a, NEW b
  PROVE  IsSeq(<<a, b>>) /\ Len(<<a, b>>) = 2 /\ <<a, b>>[1] = a /\ <<a, b>>[2] = b
<1>1. <<a, b>> \in Seq({a, b})
  OBVIOUS
<1> QED BY <1>1 DEF IsSeq

LEMMA ThreeInstructions ==
  ASSUME NEW a, NEW b, NEW c
  PROVE  /\ IsSeq(<<a, b, c>>) /\ Len(<<a, b, c>>) = 3
         /\ <<a, b, c>>[1] = a /\ <<a, b, c>>[2] = b /\ <<a, b, c>>[3] = c
<1>1. <<a, b, c>> \in Seq({a, b, c})
  OBVIOUS
<1> QED BY <1>1 DEF IsSeq

\* A sequence is its head and its tail.
LEMMA HeadAndTail ==
  ASSUME NEW a, NEW q, IsSeq(q)
  PROVE  /\ IsSeq(<<a>> \o q) /\ <<a>> \o q # <<>>
         /\ Head(<<a>> \o q) = a /\ Tail(<<a>> \o q) = q
<1>1. PICK S : q \in Seq(S)
  BY DEF IsSeq
<1>2. <<a>> \o q \in Seq(S \cup {a})
  BY <1>1
<1> QED BY <1>1, <1>2 DEF IsSeq

\* A sequence that ends in something is not empty.
LEMMA NotEmpty ==
  ASSUME NEW p, NEW q, IsSeq(p), IsSeq(q), q # <<>>
  PROVE  p \o q # <<>>
<1>1. Len(p) \in Nat /\ Len(q) \in Nat /\ Len(q) # 0
  BY DomainOf
<1>2. IsSeq(p \o q) /\ Len(p \o q) = Len(p) + Len(q)
  BY CatOf
<1>3. p \o q = <<>> <=> Len(p \o q) = 0
  BY <1>2, DomainOf
<1> QED BY <1>1, <1>2, <1>3

-----------------------------------------------------------------------------
(* The frames of a stack: the running one is the first, and the others wait below it. *)

FramesOf(st) == {st[f] : f \in DOMAIN st}
Below(st) == {st[f] : f \in 2..Len(st)}

LEMMA StackOf ==
  ASSUME NEW st, IsSeq(st), st # <<>>
  PROVE  FramesOf(st) = {Head(st)} \cup Below(st) /\ Head(st) \in FramesOf(st)
<1>1. Len(st) \in Nat /\ DOMAIN st = 1..Len(st) /\ Len(st) > 0 /\ Head(st) = st[1]
  BY DomainOf, TailOf
<1>2. 1..Len(st) = {1} \cup 2..Len(st)
  BY <1>1
<1> QED BY <1>1, <1>2 DEF FramesOf, Below

LEMMA PushEffect ==
  ASSUME NEW st, IsSeq(st), NEW q
  PROVE  LET new == <<q>> \o st
         IN /\ IsSeq(new) /\ new # <<>> /\ Head(new) = q
            /\ Below(new) = FramesOf(st)
            /\ FramesOf(new) = {q} \cup FramesOf(st)
<1> DEFINE new == <<q>> \o st
<1>1. /\ IsSeq(new) /\ new # <<>> /\ Head(new) = q
  BY HeadAndTail
<1>2. /\ Len(new) = 1 + Len(st) /\ \A i \in 1..Len(st) : new[1 + i] = st[i]
  BY OneInstruction, CatOf
<1>3. Len(st) \in Nat /\ DOMAIN st = 1..Len(st)
  BY DomainOf
<1> HIDE DEF new
<1>4. \A f \in 2..Len(new) : f - 1 \in DOMAIN st /\ new[f] = st[f - 1]
  BY <1>2, <1>3
<1>5. \A f \in DOMAIN st : f + 1 \in 2..Len(new) /\ new[f + 1] = st[f]
  BY <1>2, <1>3
<1>6. Below(new) \subseteq FramesOf(st)
  BY <1>4 DEF Below, FramesOf
<1>7. FramesOf(st) \subseteq Below(new)
  BY <1>5 DEF Below, FramesOf
<1>8. Below(new) = FramesOf(st)
  BY <1>6, <1>7
<1>9. FramesOf(new) = {q} \cup Below(new)
  BY <1>1, StackOf
<1> USE DEF new
<1> QED BY <1>1, <1>8, <1>9

LEMMA PopEffect ==
  ASSUME NEW st, IsSeq(st), st # <<>>
  PROVE  LET old == Tail(st)
         IN IsSeq(old) /\ FramesOf(old) = Below(st)
<1> DEFINE old == Tail(st)
<1>1. /\ IsSeq(old) /\ Len(old) = Len(st) - 1 /\ Len(st) > 0
      /\ \A i \in 1..(Len(st) - 1) : old[i] = st[i + 1]
  BY TailOf
<1>2. Len(st) \in Nat /\ DOMAIN old = 1..Len(old)
  BY <1>1, DomainOf
<1> HIDE DEF old
<1>3. \A f \in DOMAIN old : f + 1 \in 2..Len(st) /\ old[f] = st[f + 1]
  BY <1>1, <1>2
<1>4. \A f \in 2..Len(st) : f - 1 \in DOMAIN old /\ st[f] = old[f - 1]
  BY <1>1, <1>2
<1>5. FramesOf(old) \subseteq Below(st)
  BY <1>3 DEF FramesOf, Below
<1>6. Below(st) \subseteq FramesOf(old)
  BY <1>4 DEF FramesOf, Below
<1> USE DEF old
<1> QED BY <1>1, <1>5, <1>6

-----------------------------------------------------------------------------
(***************************************************************************)
(* The engine below the session.  Sound(e) is what every operation keeps   *)
(* of an engine: the cached page, the total and the state are those of a   *)
(* fresh search.  SoundStep follows the machine, Performed an operation of *)
(* the semantic engine, Dispatched a whole dispatch.                       *)
(***************************************************************************)

EngineFields ==
  {"tables", "profile", "mode", "spelling", "page", "cands", "total", "state", "base",
   "temporary", "query"}
Kinds ==
  {"None", "Commit", "Update", "Cleared", "Passthrough", "CommitThenUpdate", "Rejected"}

\* An engine record, its caches apart.
Shaped(e) ==
  /\ DOMAIN e = EngineFields
  /\ e.tables \in DOMAIN Tables /\ e.profile \in {"Touch", "Legacy"}
  /\ e.mode \in Modes /\ e.base \in {"Main", "English"}
  /\ e.temporary \in TemporaryModes \cup {"None"}
  /\ e.spelling \in Seq(Chars \cup {Apostrophe})
  /\ e.page \in Nat /\ e.query \in Nat \X Nat

\* What every operation keeps of an engine.
Sound(e) ==
  /\ Shaped(e)
  /\ e.state \in {"Idle", "Composing", "Selecting"}
  /\ PageIsFresh(e)
  /\ e.mode = "Menu" => e.cands = MenuLabels /\ e.spelling = <<>>

\* What the machine below the semantic engine leaves alone.
SameBase(e, f) ==
  /\ f.tables = e.tables /\ f.profile = e.profile
  /\ f.base = e.base /\ f.temporary = e.temporary /\ f.query = e.query

SoundStep(e, step) ==
  /\ step = Step(step.engine, step.kind, step.text, step.replace)
  /\ step.kind \in Kinds
  /\ Sound(step.engine) /\ SameBase(e, step.engine)

LEMMA SearchIsList ==
  ASSUME NEW dict, DOMAIN dict = 1..Len(dict), Len(dict) \in Nat, NEW key
  PROVE  IsSeq(Search(dict, key)) /\ (key = <<>> => Search(dict, key) = <<>>)
<1> DEFINE exact(i) == dict[i].code = key
           hits == {i \in DOMAIN dict : key # <<>> /\ HasPrefix(dict[i].code, key)}
           met(i, j) == (exact(i) /\ ~exact(j)) \/ (exact(i) = exact(j) /\ i < j)
           kept == {j \in hits : \A i \in hits : dict[i].word = dict[j].word => ~met(i, j)}
           ahead(i, j) == \/ exact(i) /\ ~exact(j)
                          \/ exact(i) = exact(j) /\ dict[i].weight > dict[j].weight
                          \/ exact(i) = exact(j) /\ dict[i].weight = dict[j].weight /\ i < j
           word(n) == dict[CHOOSE j \in kept : Cardinality({i \in kept : ahead(i, j)}) = n - 1].word
           q == [n \in 1..Cardinality(kept) |-> word(n)]
<1>1. Search(dict, key) = q
  BY Zenon DEF Search
<1>2. kept \subseteq 1..Len(dict) /\ (key = <<>> => kept = {})
  OBVIOUS
<1> HIDE DEF kept
<1>3. Cardinality(kept) \in Nat /\ Cardinality({}) = 0
  <2>1. IsFiniteSet(1..Len(dict))
    BY FS_Interval
  <2>2. IsFiniteSet(kept)
    BY <1>2, <2>1, FS_Subset
  <2> QED BY <2>2, FS_CardinalityType, FS_EmptySet
<1> DEFINE k == Cardinality(kept)
<1>4. \E S : q \in [1..k -> S]
  <2>1. q \in [1..k -> {word(n) : n \in 1..k}]
    BY Zenon
  <2> QED BY <2>1
<1> HIDE DEF q
<1>5. \E S : q \in Seq(S)
  BY <1>3, <1>4
<1>6. Len(q) = k /\ DOMAIN q = 1..k
  BY <1>3, <1>4
<1>7. key = <<>> => q = <<>>
  <2> PICK S : q \in Seq(S)
    BY <1>5
  <2> SUFFICES ASSUME key = <<>> PROVE Len(q) = 0
    OBVIOUS
  <2> QED BY <1>2, <1>3, <1>6
<1> QED BY <1>1, <1>3, <1>5, <1>6, <1>7 DEF IsSeq

LEMMA SubSequence ==
  ASSUME NEW q, IsSeq(q), NEW m \in Nat, NEW n \in Nat, n <= Len(q), m <= n
  PROVE  /\ IsSeq(SubSeq(q, m + 1, n)) /\ Len(SubSeq(q, m + 1, n)) = n - m
         /\ \A i \in 1..(n - m) : SubSeq(q, m + 1, n)[i] = q[m + i]
<1>1. PICK S : q \in Seq(S)
  BY DEF IsSeq
<1>2. Len(q) \in Nat /\ m + 1 \in 1..(Len(q) + 1) /\ n \in m..Len(q)
  BY DomainOf
<1>3. SubSeq(q, m + 1, n) \in Seq(S) /\ Len(SubSeq(q, m + 1, n)) = n - m
  BY <1>1, <1>2
<1>4. \A i \in 1..(n - m) : SubSeq(q, m + 1, n)[i] = q[m + i]
  BY <1>1, <1>2
<1> QED BY <1>3, <1>4 DEF IsSeq

\* The number of pages is enough and no page is empty.
LEMMA PagesDivide ==
  ASSUME NEW total \in Nat, NEW size \in Nat \ {0}, NEW page \in Nat
  PROVE  LET pages == (total + size - 1) \div size
         IN /\ pages \in Nat /\ (pages = 0 <=> total = 0)
            /\ page < pages => page * size \in Nat /\ page * size < total
<1> DEFINE pages == (total + size - 1) \div size
<1>1. pages \in Int /\ pages * size <= total + size - 1 /\ total + size - 1 < (pages + 1) * size
  OBVIOUS
<1> HIDE DEF pages
<1>2. pages \in Nat /\ (pages = 0 <=> total = 0)
  BY <1>1
<1>3. page * size \in Nat
  OBVIOUS
<1>4. ASSUME page < pages PROVE page * size < total
  <2>1. (page + 1) * size <= pages * size
    BY <1>2, <1>4
  <2> QED BY <1>1, <1>2, <1>3, <2>1
<1> USE DEF pages
<1> QED BY <1>2, <1>3, <1>4
\* A page is a part of the list, and empty only where the list is.
LEMMA PageOfList ==
  ASSUME ResourceAssumption, NEW e, e.tables \in DOMAIN Tables, e.page \in Nat,
         NEW all, IsSeq(all)
  PROVE  LET page == Page(e, all)
         IN /\ IsSeq(page) /\ Len(page) <= T(e).pageSize
            /\ \A n \in DOMAIN page : page[n] \in {all[i] : i \in DOMAIN all}
            /\ e.page = 0 /\ page # <<>> => page[1] = all[1]
            /\ e.total = Len(all) /\ e.page < TotalPages(e) => (page = <<>> <=> all = <<>>)
            /\ e.total = Len(all) /\ e.page = 0 => e.page < TotalPages(e)
<1> DEFINE size == T(e).pageSize
           first == e.page * size
           upto(n) == IF n < Len(all) THEN n ELSE Len(all)
           left == upto(first)
           right == upto(first + size)
           page == Page(e, all)
<1>1. size \in Nat \ {0}
  BY DEF ResourceAssumption, T
<1>2. first \in Nat
  BY <1>1
<1>3. page = SubSeq(all, left + 1, right)
  BY DEF Page
<1> HIDE DEF page
<1>4. Len(all) \in Nat /\ DOMAIN all = 1..Len(all) /\ (all = <<>> <=> Len(all) = 0)
  BY DomainOf
<1>5. e.page = 0 => first = 0
  BY <1>1
<1>6. e.page < TotalPages(e) /\ e.total = Len(all) /\ all # <<>> => first < Len(all)
  <2> SUFFICES ASSUME e.page < TotalPages(e), e.total = Len(all), all # <<>>
               PROVE  first < Len(all)
    OBVIOUS
  <2> DEFINE pages == (e.total + size - 1) \div size
  <2>1. pages \in Nat /\ pages # 0 /\ (e.page < pages => first < e.total)
    BY <1>1, <1>4, PagesDivide
  <2>2. TotalPages(e) = IF pages = 0 THEN 1 ELSE pages
    BY DEF TotalPages
  <2> HIDE DEF pages, first, size
  <2> QED BY <2>1, <2>2
<1> HIDE DEF first, size
<1>7. left \in Nat /\ right \in Nat /\ right <= Len(all) /\ left <= right /\ right - left <= size
      /\ (first < Len(all) => right > left) /\ (first = 0 => left = 0)
  BY <1>1, <1>2, <1>4
<1> HIDE DEF left, right
<1>8. IsSeq(page) /\ Len(page) = right - left /\ \A i \in 1..(right - left) : page[i] = all[left + i]
  BY <1>3, <1>7, SubSequence
<1>9. DOMAIN page = 1..(right - left) /\ (page = <<>> <=> right = left)
  BY <1>7, <1>8, DomainOf
<1>10. ASSUME NEW i \in DOMAIN page
       PROVE  left + i \in DOMAIN all /\ page[i] = all[left + i]
  <2>1. i \in 1..(right - left) /\ left \in Nat /\ right \in Nat /\ right <= Len(all)
    BY <1>7, <1>9
  <2>2. page[i] = all[left + i]
    BY <1>8, <2>1
  <2>3. left + i \in 1..Len(all)
    BY <1>4, <2>1
  <2> QED BY <1>4, <2>2, <2>3
<1>11. page # <<>> => all # <<>> /\ 1 \in DOMAIN page
  BY <1>4, <1>7, <1>9, <1>10
<1>12. e.page = 0 /\ page # <<>> => page[1] = all[1]
  <2> SUFFICES ASSUME e.page = 0, page # <<>> PROVE page[1] = all[1]
    OBVIOUS
  <2>1. left = 0
    BY <1>4, <1>5, <1>7
  <2>2. page[1] = all[left + 1]
    BY <1>10, <1>11
  <2> QED BY <2>1, <2>2
<1>13. e.total = Len(all) => 0 < TotalPages(e)
  <2> SUFFICES ASSUME e.total = Len(all) PROVE 0 < TotalPages(e)
    OBVIOUS
  <2> DEFINE pages == (e.total + size - 1) \div size
  <2>1. pages \in Nat
    BY <1>1, <1>4, PagesDivide
  <2>2. TotalPages(e) = IF pages = 0 THEN 1 ELSE pages
    BY DEF TotalPages, size
  <2> HIDE DEF pages
  <2> QED BY <2>1, <2>2
<1>14. e.page < TotalPages(e) /\ e.total = Len(all) /\ all # <<>> => page # <<>>
  BY <1>6, <1>7, <1>9
<1> USE DEF page
<1> QED BY <1>1, <1>7, <1>8, <1>10, <1>12, <1>13, <1>14 DEF size

-----------------------------------------------------------------------------
(* The caches of an engine. *)

LEMMA FoundIsList ==
  ASSUME ResourceAssumption, NEW e, Shaped(e)
  PROVE  IsSeq(Found(e)) /\ (e.spelling = <<>> /\ e.mode # "Menu" => Found(e) = <<>>)
<1>1. IsSeq(Search(T(e).main, e.spelling))
      /\ (e.spelling = <<>> => Search(T(e).main, e.spelling) = <<>>)
  BY SearchIsList DEF ResourceAssumption, Shaped, T
<1>2. IsSeq(Search(TemporaryDict(e).entries, e.spelling))
      /\ (e.spelling = <<>> => Search(TemporaryDict(e).entries, e.spelling) = <<>>)
  <2>1. CASE e.mode = "Pinyin"
    BY <2>1, SearchIsList DEF ResourceAssumption, Shaped, T, TemporaryDict
  <2>2. CASE e.mode # "Pinyin"
    BY <2>2, SearchIsList DEF ResourceAssumption, Shaped, T, TemporaryDict
  <2> QED BY <2>1, <2>2
<1>3. IsSeq(MenuLabels) /\ IsSeq(<<>>)
  BY TwoInstructions, EmptySequence DEF MenuLabels
<1>4. CASE e.mode = "Main"
  BY <1>1, <1>3, <1>4, Zenon DEF Found
<1>5. CASE e.mode = "Menu"
  BY <1>3, <1>5, Zenon DEF Found
<1>6. CASE e.mode \notin {"Main", "Menu"}
  BY <1>2, <1>6 DEF Found
<1> QED BY <1>4, <1>5, <1>6

LEMMA FoundDepends ==
  ASSUME NEW e, NEW f, f.tables = e.tables, f.mode = e.mode, f.spelling = e.spelling
  PROVE  /\ Found(f) = Found(e) /\ LookupKey(f) = LookupKey(e) /\ T(f) = T(e)
         /\ HasBufferedPunctuation(f) = HasBufferedPunctuation(e)
         /\ TemporaryDict(f) = TemporaryDict(e)
<1>1. T(f) = T(e)
  BY DEF T
<1>2. LookupKey(f) = LookupKey(e)
  BY <1>1 DEF LookupKey, AcceptsCodeChar
<1>3. HasBufferedPunctuation(f) = HasBufferedPunctuation(e)
  BY <1>2 DEF HasBufferedPunctuation
<1>4. TemporaryDict(f) = TemporaryDict(e)
  BY <1>1 DEF TemporaryDict
<1>5. Found(f) = Found(e)
  BY <1>1, <1>3, <1>4 DEF Found
<1> QED BY <1>1, <1>2, <1>3, <1>4, <1>5

LEMMA BareSound ==
  ASSUME ResourceAssumption, NEW e, Shaped(e), e.mode # "Menu", Found(e) = <<>>,
         e.cands = <<>>, e.total = 0, e.page = 0, e.state \in {"Idle", "Composing"}
  PROVE  Sound(e)
<1>1. IsSeq(<<>>) /\ Len(<<>>) = 0
  BY EmptySequence
<1>2. Page(e, <<>>) = <<>> /\ e.page < TotalPages(e)
  BY <1>1, PageOfList DEF Shaped
<1> QED BY <1>1, <1>2 DEF Sound, PageIsFresh

LEMMA ResetSound ==
  ASSUME ResourceAssumption, NEW e, Shaped(e), {"cands", "total", "state"} \subseteq DOMAIN e
  PROVE  /\ Sound(Reset(e)) /\ SameBase(e, Reset(e))
         /\ Reset(e).mode = "Main" /\ Reset(e).spelling = <<>>
<1> DEFINE f == Reset(e)
<1>1. /\ DOMAIN f = EngineFields /\ f.mode = "Main" /\ f.spelling = <<>> /\ f.page = 0
      /\ f.cands = <<>> /\ f.total = 0 /\ f.state = "Idle" /\ SameBase(e, f)
  BY DEF Shaped, Reset, SameBase, EngineFields
<1> HIDE DEF f
<1>2. f.spelling \in Seq(Chars \cup {Apostrophe})
  BY <1>1
<1>3. Shaped(f)
  BY <1>1, <1>2 DEF Shaped, SameBase, Modes
<1>4. Found(f) = <<>>
  BY <1>1, <1>3, FoundIsList
<1>5. Sound(f)
  BY <1>1, <1>3, <1>4, BareSound
<1> USE DEF f
<1> QED BY <1>1, <1>5

\* What is shown of the list of the present spelling is sound.
LEMMA ShownSound ==
  ASSUME ResourceAssumption, NEW e, Shaped(e), e.mode # "Menu", NEW all, all = Found(e),
         NEW f, f = WithState(Shown(e, all)), e.page = 0 \/ e.page < TotalPages(f)
  PROVE  /\ Sound(f) /\ SameBase(e, f)
         /\ f.mode = e.mode /\ f.spelling = e.spelling /\ f.page = e.page
         /\ f.cands = Page(e, all) /\ f.total = Len(all)
<1> DEFINE g == Shown(e, all)
<1>1. /\ DOMAIN g = EngineFields /\ g.cands = Page(e, all) /\ g.total = Len(all)
      /\ SameBase(e, g) /\ g.mode = e.mode /\ g.spelling = e.spelling /\ g.page = e.page
  BY DEF Shaped, Shown, SameBase, EngineFields
<1> HIDE DEF g
<1>2. /\ DOMAIN f = EngineFields /\ f.cands = Page(e, all) /\ f.total = Len(all)
      /\ SameBase(e, f) /\ f.mode = e.mode /\ f.spelling = e.spelling /\ f.page = e.page
      /\ f.state = IF f.cands = <<>> THEN "Composing" ELSE "Selecting"
  BY <1>1 DEF SameBase, WithState, EngineFields, g
<1>3. Shaped(f)
  BY <1>2 DEF Shaped, SameBase
<1>4. Found(f) = all /\ Page(f, all) = Page(e, all)
  BY <1>2, FoundDepends DEF SameBase, Page
<1>5. IsSeq(all)
  BY FoundIsList
<1>6. f.page < TotalPages(f)
  <2>1. CASE e.page = 0
    <3>1. f.tables \in DOMAIN Tables /\ f.page \in Nat /\ f.page = 0 /\ f.total = Len(all)
      BY <1>2, <1>3, <2>1 DEF Shaped
    <3> QED BY <1>5, <3>1, PageOfList
  <2> QED BY <1>2, <2>1
<1> QED BY <1>2, <1>3, <1>4, <1>6 DEF Sound, PageIsFresh

\* What the page of a sound engine says of its list.
LEMMA SoundPage ==
  ASSUME ResourceAssumption, NEW e, Sound(e), e.mode # "Menu"
  PROVE  /\ IsSeq(e.cands) /\ Len(e.cands) <= T(e).pageSize
         /\ \A n \in DOMAIN e.cands : e.cands[n] \in {Found(e)[i] : i \in DOMAIN Found(e)}
         /\ e.page = 0 /\ e.cands # <<>> => e.cands[1] = Found(e)[1]
         /\ e.cands = <<>> <=> Found(e) = <<>>
         /\ e.total \in Nat /\ (e.cands = <<>> <=> e.total = 0)
<1>1. Shaped(e) /\ PageIsFresh(e)
  BY DEF Sound
<1>2. IsSeq(Found(e))
  BY <1>1, FoundIsList
<1> QED BY <1>1, <1>2, PageOfList, DomainOf DEF Shaped, PageIsFresh

LEMMA PagesAreNat ==
  ASSUME ResourceAssumption, NEW e, Sound(e), e.mode # "Menu"
  PROVE  TotalPages(e) \in Nat
<1> DEFINE size == T(e).pageSize
           pages == (e.total + size - 1) \div size
<1>1. e.total \in Nat /\ size \in Nat \ {0}
  BY SoundPage DEF ResourceAssumption, T, Sound, Shaped
<1>2. pages \in Nat
  BY <1>1, PagesDivide
<1>3. TotalPages(e) = IF pages = 0 THEN 1 ELSE pages
  BY DEF TotalPages
<1> HIDE DEF pages
<1> QED BY <1>2, <1>3

\* A set of positions has a least one: the intervals before them are well-founded.
LEMMA LeastOf ==
  ASSUME NEW len \in Nat, NEW S \in SUBSET (1..len), S # {}
  PROVE  \E j \in S : \A i \in S : j <= i
<1> DEFINE before(i) == 1..(i - 1)
           U == {before(i) : i \in S}
<1>1. IsFiniteSet(1..len)
  BY FS_Interval
<1>2. U \subseteq FiniteSubsetsOf(1..len) /\ U # {}
  <2>1. \A i \in S : before(i) \subseteq 1..len
    OBVIOUS
  <2>2. FiniteSubsetsOf(1..len) = SUBSET (1..len)
    BY <1>1, FS_FiniteSubsetsOfFinite
  <2> QED BY <2>1, <2>2
<1>3. PICK x \in U : \A y \in U : <<y, x>> \notin StrictSubsetOrdering(1..len)
  BY <1>2, FS_StrictSubsetOrderingWellFounded, WFMin
<1>4. PICK j \in S : x = before(j)
  BY <1>3
<1>5. ASSUME NEW i \in S, i < j PROVE FALSE
  <2>1. before(i) \subseteq before(j) /\ i \notin before(i) /\ i \in before(j)
    BY <1>5
  <2>2. <<before(i), x>> \in StrictSubsetOrdering(1..len)
    BY <1>2, <1>4, <2>1 DEF StrictSubsetOrdering, FiniteSubsetsOf
  <2> QED BY <1>3, <2>2
<1> QED BY <1>5

\* The lookup key is the whole spelling exactly when every character is a code character.
LEMMA BufferedIff ==
  ASSUME NEW e, IsSeq(e.spelling)
  PROVE  /\ HasBufferedPunctuation(e) <=>
              \E i \in DOMAIN e.spelling : ~AcceptsCodeChar(e, e.spelling[i])
         /\ ~HasBufferedPunctuation(e) => LookupKey(e) = e.spelling
<1> DEFINE len == Len(e.spelling)
           codes(n) == \A i \in 1..n : AcceptsCodeChar(e, e.spelling[i])
           ends(n) == codes(n) /\ (n = len \/ ~codes(n + 1))
           end == CHOOSE n \in 0..len : ends(n)
           stops == {i \in 1..len : ~AcceptsCodeChar(e, e.spelling[i])}
<1>1. LookupKey(e) = SubSeq(e.spelling, 1, end)
  BY DEF LookupKey
<1>2. len \in Nat /\ DOMAIN e.spelling = 1..len
  BY DomainOf
<1>3. \E n \in 0..len : ends(n)
  <2>1. CASE stops = {}
    <3>1. ends(len) /\ len \in 0..len
      BY <1>2, <2>1
    <3> QED BY <3>1
  <2>2. CASE stops # {}
    <3>1. PICK j \in stops : \A i \in stops : j <= i
      BY <1>2, <2>2, LeastOf
    <3>2. j \in 1..len /\ j - 1 \in 0..len /\ j - 1 + 1 = j
      BY <1>2, <3>1
    <3>3. codes(j - 1)
      <4> SUFFICES ASSUME NEW i \in 1..(j - 1), ~AcceptsCodeChar(e, e.spelling[i]) PROVE FALSE
        OBVIOUS
      <4>1. i \in stops
        BY <1>2, <3>2
      <4> QED BY <3>1, <3>2, <4>1
    <3>4. ~codes(j)
      BY <3>1, <3>2
    <3> QED BY <3>2, <3>3, <3>4
  <2> QED BY <2>1, <2>2
<1> HIDE DEF ends
<1>4. end \in 0..len /\ ends(end)
  BY <1>3
<1> HIDE DEF end
<1> USE DEF ends
<1>5. ASSUME end = len
      PROVE  stops = {} /\ LookupKey(e) = e.spelling
  <2>1. SubSeq(e.spelling, 1, len) = e.spelling
    BY <1>2 DEF IsSeq
  <2> QED BY <1>1, <1>2, <1>4, <1>5, <2>1
<1>6. ASSUME end # len
      PROVE  stops # {} /\ LookupKey(e) # e.spelling
  <2>1. end \in Nat /\ end < len /\ codes(end) /\ ~codes(end + 1)
    BY <1>2, <1>4, <1>6
  <2>2. Len(SubSeq(e.spelling, 0 + 1, end)) = end - 0
    BY <1>2, <2>1, SubSequence
  <2>3. Len(SubSeq(e.spelling, 1, end)) # len
    BY <1>2, <2>1, <2>2
  <2> QED BY <1>1, <1>2, <2>1, <2>3
<1> QED BY <1>2, <1>5, <1>6 DEF HasBufferedPunctuation

-----------------------------------------------------------------------------
(* The steps of the machine. *)

LEMMA StepFields ==
  ASSUME NEW e, NEW text
  PROVE  /\ \A st \in {None(e), Update(e), Cleared(e), Passthrough(e), Rejected(e),
                       Commit(e, text)} :
              st = Step(st.engine, st.kind, st.text, st.replace) /\ st.engine = e
         /\ None(e).kind = "None" /\ Update(e).kind = "Update" /\ Cleared(e).kind = "Cleared"
         /\ Passthrough(e).kind = "Passthrough" /\ Rejected(e).kind = "Rejected"
         /\ Commit(e, text).kind = "Commit" /\ Commit(e, text).text = text
  BY DEF None, Update, Cleared, Passthrough, Rejected, Commit, Step

LEMMA QuietStep ==
  ASSUME NEW e, NEW f, Sound(f), SameBase(e, f), NEW text
  PROVE  /\ SoundStep(e, None(f)) /\ SoundStep(e, Update(f)) /\ SoundStep(e, Cleared(f))
         /\ SoundStep(e, Passthrough(f)) /\ SoundStep(e, Rejected(f))
         /\ SoundStep(e, Commit(f, text))
<1>1. {"None", "Update", "Cleared", "Passthrough", "Rejected", "Commit"} \subseteq Kinds
  BY DEF Kinds
<1> QED BY <1>1, StepFields DEF SoundStep

LEMMA SameAsItself == \A e : SameBase(e, e)
  BY DEF SameBase

LEMMA SameThrough ==
  ASSUME NEW e, NEW f, NEW g, SameBase(e, f), SameBase(f, g)
  PROVE  SameBase(e, g)
  BY DEF SameBase

\* A prefix of what is appended to it, or followed by more.
LEMMA StartOf ==
  ASSUME NEW q, IsSeq(q)
  PROVE  /\ IsStart(q, q) /\ (\A c : IsStart(q, Append(q, c)))
         /\ \A r : IsSeq(r) => IsStart(q, q \o r)
<1> PICK S : q \in Seq(S)
  BY DEF IsSeq
<1>1. IsStart(q, q)
  BY DEF IsStart
<1>2. ASSUME NEW c
      PROVE  IsStart(q, Append(q, c))
  <2>1. q \in Seq(S \cup {c})
    OBVIOUS
  <2> QED BY <2>1 DEF IsStart
<1>3. ASSUME NEW r, IsSeq(r)
      PROVE  IsStart(q, q \o r)
  <2>1. PICK U : r \in Seq(U)
    BY <1>3 DEF IsSeq
  <2>2. q \in Seq(S \cup U) /\ r \in Seq(S \cup U)
    BY <2>1
  <2> QED BY <2>2 DEF IsStart
<1> QED BY <1>1, <1>2, <1>3

LEMMA SpellingIsList ==
  ASSUME NEW e, Shaped(e)
  PROVE  IsSeq(e.spelling)
  BY DEF Shaped, IsSeq

\* An engine in the base table with a new spelling, looked up from its first page.
LEMMA RefreshSound ==
  ASSUME ResourceAssumption, NEW e, Shaped(e), e.mode = "Main"
  PROVE  /\ Sound(Refresh(e)) /\ SameBase(e, Refresh(e))
         /\ Refresh(e).mode = "Main" /\ Refresh(e).spelling = e.spelling
         /\ Refresh(e).page = 0
<1> DEFINE f == Refresh(e)
<1>1. CASE HasBufferedPunctuation(e)
  <2>1. f = [ResetCandidates(e) EXCEPT !.state = "Composing"]
    BY <1>1 DEF Refresh
  <2>2. /\ DOMAIN f = EngineFields /\ f.mode = e.mode /\ f.spelling = e.spelling
        /\ f.page = 0 /\ f.cands = <<>> /\ f.total = 0 /\ f.state = "Composing" /\ SameBase(e, f)
    BY <2>1 DEF Shaped, ResetCandidates, SameBase, EngineFields
  <2> HIDE DEF f
  <2>3. Shaped(f)
    BY <2>2 DEF Shaped, SameBase
  <2>4. Found(f) = <<>>
    <3>1. HasBufferedPunctuation(f)
      BY <1>1, <2>2, FoundDepends DEF SameBase
    <3> QED BY <2>2, <3>1 DEF Found
  <2>5. Sound(f)
    BY <2>2, <2>3, <2>4, BareSound
  <2> USE DEF f
  <2> QED BY <2>2, <2>5
<1>2. CASE ~HasBufferedPunctuation(e)
  <2> DEFINE g == [e EXCEPT !.page = 0]
  <2>1. Shaped(g) /\ SameBase(e, g) /\ g.mode = "Main" /\ g.spelling = e.spelling /\ g.page = 0
        /\ g.tables = e.tables
    BY DEF Shaped, SameBase, EngineFields
  <2>2. f = WithState(Snapshot(g))
    BY <1>2 DEF Refresh
  <2> HIDE DEF g, f
  <2>3. Found(g) = Search(T(g).main, LookupKey(g))
    <3>1. ~HasBufferedPunctuation(g)
      BY <1>2, <2>1, FoundDepends
    <3>2. LookupKey(g) = g.spelling
      BY <2>1, <3>1, SpellingIsList, BufferedIff
    <3> QED BY <2>1, <3>1, <3>2 DEF Found
  <2>4. f = WithState(Shown(g, Found(g)))
    BY <2>2, <2>3 DEF Snapshot
  <2>5. /\ Sound(f) /\ SameBase(g, f)
        /\ f.mode = g.mode /\ f.spelling = g.spelling /\ f.page = g.page
    BY <2>1, <2>4, ShownSound
  <2>6. SameBase(e, f)
    BY <2>1, <2>5, SameThrough
  <2> USE DEF f
  <2> QED BY <2>1, <2>5, <2>6
<1> QED BY <1>1, <1>2

LEMMA ResetSteps ==
  ASSUME ResourceAssumption, NEW e, Sound(e), NEW text
  PROVE  /\ SoundStep(e, Commit(Reset(e), text)) /\ SoundStep(e, Cleared(Reset(e)))
         /\ Reset(e).mode = "Main" /\ Reset(e).spelling = <<>>
         /\ Commit(Reset(e), text).engine.mode = "Main" /\ Cleared(Reset(e)).engine.mode = "Main"
         /\ Commit(Reset(e), text).engine.spelling = <<>>
         /\ Cleared(Reset(e)).engine.spelling = <<>>
<1>1. Shaped(e) /\ {"cands", "total", "state"} \subseteq DOMAIN e
  BY DEF Sound, Shaped, EngineFields
<1> QED BY <1>1, ResetSound, QuietStep, StepFields

LEMMA StaysSteps ==
  ASSUME NEW e, Sound(e)
  PROVE  /\ SoundStep(e, None(e)) /\ SoundStep(e, Update(e)) /\ SoundStep(e, Passthrough(e))
         /\ SoundStep(e, Rejected(e))
         /\ KeepsTyped(e, None(e)) /\ KeepsTyped(e, Passthrough(e)) /\ KeepsTyped(e, Rejected(e))
<1>1. IsStart(e.spelling, e.spelling)
  BY SpellingIsList, StartOf DEF Sound
<1> QED BY <1>1, QuietStep, SameAsItself, StepFields DEF KeepsTyped

\* A candidate that is committed is one of those found.
LEMMA CandidateKept ==
  ASSUME ResourceAssumption, NEW e, Sound(e), e.mode # "Menu", NEW n \in DOMAIN e.cands,
         NEW step, step.kind \in {"Commit", "CommitThenUpdate"}, step.text # <<>>,
         step.text[1] = e.cands[n]
  PROVE  KeepsTyped(e, step)
  BY SoundPage DEF KeepsTyped

\* The raw spelling is committed, alone or ahead of more.
LEMMA RawKept ==
  ASSUME NEW e, Sound(e), NEW step, step.kind = "Commit",
         step.text = e.spelling \/ \E r : IsSeq(r) /\ step.text = e.spelling \o r
  PROVE  KeepsTyped(e, step)
  BY SpellingIsList, StartOf DEF Sound, KeepsTyped

LEMMA FirstCandidate ==
  ASSUME ResourceAssumption, NEW e, Sound(e), e.mode # "Menu", e.cands # <<>>
  PROVE  1 \in DOMAIN e.cands
<1>1. IsSeq(e.cands)
  BY SoundPage
<1> QED BY <1>1, DomainOf

LEMMA PushCodeSound ==
  ASSUME ResourceAssumption, NEW e, Sound(e), e.mode = "Main", NEW c \in Chars
  PROVE  LET step == PushCode(e, c)
         IN /\ SoundStep(e, step) /\ step.kind \in {"Commit", "Update"}
            /\ KeepsTyped(e, step) \/ CompletesCode(e, c, step)
            /\ step.engine.mode = "Main"
<1> DEFINE g == [e EXCEPT !.spelling = Append(e.spelling, c)]
           f == Refresh(g)
           step == PushCode(e, c)
<1>1. /\ Shaped(g) /\ SameBase(e, g) /\ g.mode = "Main" /\ g.tables = e.tables
      /\ g.spelling = Append(e.spelling, c)
  BY DEF Sound, Shaped, SameBase, EngineFields
<1>2. step = Pushed(f)
  BY DEF PushCode
<1> HIDE DEF g
<1>3. /\ Sound(f) /\ SameBase(g, f) /\ f.mode = "Main" /\ f.spelling = g.spelling /\ f.page = 0
  BY <1>1, RefreshSound
<1>4. SameBase(e, f)
  BY <1>1, <1>3, SameThrough
<1> HIDE DEF f, step
<1>5. CASE step = Update(f)
  <2>1. SoundStep(e, step) /\ step.kind = "Update" /\ step.engine = f
    BY <1>3, <1>4, <1>5, QuietStep, StepFields
  <2>2. IsStart(e.spelling, f.spelling)
    BY <1>1, <1>3, SpellingIsList, StartOf DEF Sound
  <2> USE DEF step
  <2> QED BY <1>3, <2>1, <2>2 DEF KeepsTyped
<1>6. CASE f.total = 1 /\ ~HasBufferedPunctuation(f) /\ step = Commit(Reset(f), <<f.cands[1]>>)
  <2>1. SoundStep(f, step) /\ step.kind = "Commit" /\ step.text = <<f.cands[1]>>
        /\ step.engine.mode = "Main"
    BY <1>3, <1>6, ResetSteps, StepFields
  <2>2. SoundStep(e, step)
    BY <1>4, <2>1, SameThrough DEF SoundStep
  <2>3. Found(f) = Search(T(e).main, Append(e.spelling, c))
    BY <1>1, <1>3, <1>4, <1>6 DEF Found, T, SameBase
  <2>4. IsSeq(Found(f)) /\ Len(Found(f)) = 1 /\ f.cands[1] = Found(f)[1]
    <3>1. IsSeq(Found(f)) /\ f.total = Len(Found(f))
      BY <1>3, FoundIsList DEF Sound, PageIsFresh
    <3> QED BY <1>3, <1>6, <3>1, SoundPage
  <2>5. Found(f) = <<f.cands[1]>>
    <3>1. PICK S : Found(f) \in Seq(S)
      BY <2>4 DEF IsSeq
    <3> QED BY <2>4, <3>1
  <2> USE DEF step
  <2> QED BY <2>1, <2>2, <2>3, <2>5 DEF CompletesCode
<1>7. \/ step = Update(f)
      \/ f.total = 1 /\ ~HasBufferedPunctuation(f) /\ step = Commit(Reset(f), <<f.cands[1]>>)
  BY <1>2 DEF Pushed
<1> QED BY <1>5, <1>6, <1>7

\* One candidate is committed and the key starts the next spelling.
LEMMA NextSound ==
  ASSUME ResourceAssumption, NEW e, Sound(e), e.mode = "Main", e.cands # <<>>, NEW c \in Chars,
         AcceptsCodeChar(e, c)
  PROVE  LET step == CommitAndStartNext(e, c)
         IN SoundStep(e, step) /\ step.kind = "CommitThenUpdate" /\ KeepsTyped(e, step)
            /\ step.engine.mode = "Main"
<1> DEFINE r == Reset(e)
           g == [Reset(e) EXCEPT !.spelling = <<c>>]
           f == WithState(Snapshot(g))
           step == CommitAndStartNext(e, c)
<1>1. Sound(r) /\ SameBase(e, r) /\ r.mode = "Main" /\ r.page = 0
  <2>1. Shaped(e) /\ {"cands", "total", "state"} \subseteq DOMAIN e /\ "page" \in DOMAIN e
    BY DEF Sound, Shaped, EngineFields
  <2>2. r.page = 0
    BY <2>1 DEF Reset
  <2> QED BY <2>1, <2>2, ResetSound
<1>2. g = [r EXCEPT !.spelling = <<c>>]
  OBVIOUS
<1> HIDE DEF r, g
<1>3. <<c>> \in Seq(Chars \cup {Apostrophe})
  OBVIOUS
<1>4. Shaped(g) /\ SameBase(e, g) /\ g.mode = "Main" /\ g.spelling = <<c>> /\ g.page = 0
  BY <1>1, <1>2, <1>3 DEF Sound, Shaped, SameBase, EngineFields
<1>5. f = WithState(Shown(g, Search(T(g).main, LookupKey(g))))
  BY DEF Snapshot
<1>6. Search(T(g).main, LookupKey(g)) = Found(g)
  <2>1. IsSeq(g.spelling) /\ DOMAIN g.spelling = {1} /\ g.spelling[1] = c
    BY <1>4, SpellingIsList
  <2>2. AcceptsCodeChar(g, c)
    BY <1>4 DEF AcceptsCodeChar, T, SameBase
  <2>3. ~HasBufferedPunctuation(g) /\ LookupKey(g) = g.spelling
    BY <2>1, <2>2, BufferedIff
  <2> QED BY <1>4, <2>3 DEF Found
<1> HIDE DEF f
<1>7. Sound(f) /\ SameBase(g, f) /\ f.mode = "Main"
  BY <1>4, <1>5, <1>6, ShownSound
<1>8. SameBase(e, f)
  BY <1>4, <1>7, SameThrough
<1>9. step = Step(f, "CommitThenUpdate", <<e.cands[1]>>, Len(e.spelling))
  BY DEF CommitAndStartNext, f, g
<1> HIDE DEF step
<1>10. /\ step.engine = f /\ step.kind = "CommitThenUpdate" /\ step.text = <<e.cands[1]>>
       /\ step = Step(step.engine, step.kind, step.text, step.replace)
  BY <1>9 DEF Step
<1>11. SoundStep(e, step)
  BY <1>7, <1>8, <1>10 DEF SoundStep, Kinds
<1>12. KeepsTyped(e, step)
  <2>1. 1 \in DOMAIN e.cands
    BY FirstCandidate
  <2>2. step.text # <<>> /\ step.text[1] = e.cands[1]
    BY <1>10, OneInstruction
  <2> QED BY <1>10, <2>1, <2>2, CandidateKept
<1> USE DEF step
<1> QED BY <1>7, <1>10, <1>11, <1>12

\* What is in a table or a letter or a digit is a code; the rest is punctuation.
LEMMA CodeOrNot ==
  ASSUME CharAssumption, NEW e, NEW c \in Chars
  PROVE  /\ ~AcceptsCodeChar(e, c) <=>
              c \notin T(e).charset /\ (c \in Punctuation \/ c \in NonAscii)
         /\ ~(c \in Punctuation /\ c \in NonAscii)
  BY DEF CharAssumption, Chars, AcceptsCodeChar

\* A symbol after the spelling: it follows the first candidate, or is buffered.
LEMMA SymbolSound ==
  ASSUME ResourceAssumption, CharAssumption, NEW e, Sound(e), e.mode = "Main", NEW c \in Chars,
         ~AcceptsCodeChar(e, c)
  PROVE  LET step == OnSymbol(e, c)
         IN /\ SoundStep(e, step) /\ step.kind \in {"Commit", "Update", "Passthrough"}
            /\ step.kind = "Passthrough" <=> e.spelling = <<>> /\ c \notin NonAscii
            /\ e.spelling # <<>> => KeepsTyped(e, step)
            /\ step.engine.mode = "Main"
<1> DEFINE step == OnSymbol(e, c)
<1>1. CASE e.spelling = <<>>
  <2>1. step = IF c \in NonAscii THEN Commit(e, <<c>>) ELSE Passthrough(e)
    BY <1>1 DEF OnSymbol
  <2> HIDE DEF step
  <2>2. step.kind \in {"Commit", "Passthrough"} /\ (step.kind = "Passthrough" <=> c \notin NonAscii)
        /\ SoundStep(e, step) /\ step.engine = e
    BY <2>1, QuietStep, SameAsItself, StepFields
  <2> USE DEF step
  <2> QED BY <1>1, <2>2
<1>2. CASE e.spelling # <<>> /\ ~HasBufferedPunctuation(e) /\ e.cands # <<>>
  <2>1. step = Commit(Reset(e), <<e.cands[1], c>>)
    BY <1>2 DEF OnSymbol, BufferSymbol
  <2> HIDE DEF step
  <2>2. SoundStep(e, step) /\ step.kind = "Commit" /\ step.text = <<e.cands[1], c>>
        /\ step.engine.mode = "Main"
    BY <2>1, ResetSteps, StepFields
  <2>3. step.text # <<>> /\ step.text[1] = e.cands[1] /\ 1 \in DOMAIN e.cands
    BY <1>2, <2>2, FirstCandidate
  <2>4. KeepsTyped(e, step)
    BY <2>2, <2>3, CandidateKept
  <2> USE DEF step
  <2> QED BY <1>2, <2>2, <2>4
<1>3. CASE e.spelling # <<>> /\ (HasBufferedPunctuation(e) \/ e.cands = <<>>)
  <2> DEFINE f == [ResetCandidates(e) EXCEPT !.spelling = Append(e.spelling, c),
                                             !.state = "Composing"]
  <2>1. step = Update(f)
    BY <1>3 DEF OnSymbol, BufferSymbol
  <2>2. /\ Shaped(f) /\ f.mode = "Main" /\ f.spelling = Append(e.spelling, c)
        /\ f.page = 0 /\ f.cands = <<>> /\ f.total = 0 /\ f.state = "Composing" /\ SameBase(e, f)
    BY DEF Sound, Shaped, ResetCandidates, SameBase, EngineFields
  <2> HIDE DEF f, step
  <2>3. IsSeq(e.spelling) /\ IsSeq(f.spelling)
    BY <2>2, SpellingIsList DEF Sound
  <2>4. HasBufferedPunctuation(f)
    <3>1. PICK S : e.spelling \in Seq(S)
      BY <2>3 DEF IsSeq
    <3>2. e.spelling \in Seq(S \cup {c})
      BY <3>1
    <3>3. Len(e.spelling) + 1 \in DOMAIN f.spelling /\ f.spelling[Len(e.spelling) + 1] = c
      BY <2>2, <3>2
    <3>4. ~AcceptsCodeChar(f, c)
      BY <2>2 DEF AcceptsCodeChar, T, SameBase
    <3> QED BY <2>3, <3>3, <3>4, BufferedIff
  <2>5. Found(f) = <<>>
    BY <2>2, <2>4 DEF Found
  <2>6. Sound(f)
    BY <2>2, <2>5, BareSound
  <2>7. SoundStep(e, step) /\ step.kind = "Update" /\ step.engine = f
    BY <2>1, <2>2, <2>6, QuietStep, StepFields
  <2>8. KeepsTyped(e, step)
    <3>1. IsStart(e.spelling, Append(e.spelling, c))
      BY <2>3, StartOf
    <3> QED BY <2>2, <2>7, <3>1 DEF KeepsTyped
  <2> USE DEF step
  <2> QED BY <1>3, <2>2, <2>7, <2>8
<1> QED BY <1>1, <1>2, <1>3

LEMMA CodeCharSound ==
  ASSUME ResourceAssumption, CharAssumption, NEW e, Sound(e), e.mode = "Main", NEW c \in Chars
  PROVE  LET step == OnCodeChar(e, c)
         IN /\ SoundStep(e, step)
            /\ step.kind \in {"Commit", "Update", "CommitThenUpdate", "Passthrough"}
            /\ step.kind = "Passthrough" <=>
                 ~AcceptsCodeChar(e, c) /\ (c \in Punctuation => e.spelling = <<>>)
            /\ KeepsTyped(e, step) \/ CompletesCode(e, c, step)
            /\ step.engine.mode = "Main"
<1> DEFINE step == OnCodeChar(e, c)
<1>1. CASE ~AcceptsCodeChar(e, c) /\ c \in Punctuation
  <2>1. step = IF e.spelling = <<>> THEN Passthrough(e) ELSE OnSymbol(e, c)
    BY <1>1, CodeOrNot, Zenon DEF OnCodeChar
  <2> HIDE DEF step
  <2>2. c \notin NonAscii
    BY <1>1, CodeOrNot
  <2>3. SoundStep(e, Passthrough(e)) /\ KeepsTyped(e, Passthrough(e))
        /\ Passthrough(e).kind = "Passthrough" /\ Passthrough(e).engine = e
    BY StaysSteps, StepFields
  <2> USE DEF step
  <2> QED BY <1>1, <2>1, <2>2, <2>3, SymbolSound
<1>2. CASE ~AcceptsCodeChar(e, c) /\ c \notin Punctuation
  <2>1. step = Passthrough(e)
    BY <1>2, CodeOrNot, Zenon DEF OnCodeChar
  <2>2. SoundStep(e, Passthrough(e)) /\ KeepsTyped(e, Passthrough(e))
        /\ Passthrough(e).kind = "Passthrough" /\ Passthrough(e).engine = e
    BY StaysSteps, StepFields
  <2> QED BY <1>2, <2>1, <2>2
<1>3. CASE AcceptsCodeChar(e, c)
  <2> DEFINE overflow == /\ e.state = "Selecting" /\ ~HasBufferedPunctuation(e)
                         /\ T(e).overflow /\ e.cands # <<>>
                         /\ Len(LookupKey(e)) >= T(e).maxCode
  <2>1. step = IF overflow THEN CommitAndStartNext(e, c) ELSE PushCode(e, c)
    BY <1>3, CodeOrNot, Zenon DEF OnCodeChar
  <2>2. overflow => e.cands # <<>>
    OBVIOUS
  <2> HIDE DEF overflow, step
  <2>3. CASE overflow
    <3>1. step = CommitAndStartNext(e, c)
      BY <2>1, <2>3
    <3> USE DEF step
    <3> QED BY <1>3, <2>2, <2>3, <3>1, NextSound
  <2>4. CASE ~overflow
    <3>1. step = PushCode(e, c)
      BY <2>1, <2>4
    <3> USE DEF step
    <3> QED BY <1>3, <3>1, PushCodeSound
  <2> QED BY <2>3, <2>4
<1> QED BY <1>1, <1>2, <1>3

LEMMA StillMain ==
  ASSUME NEW e, e.mode = "Main"
  PROVE  /\ None(e).engine.mode = "Main" /\ Passthrough(e).engine.mode = "Main"
  BY StepFields

LEMMA SelectSound ==
  ASSUME ResourceAssumption, NEW e, Sound(e), e.mode = "Main", NEW n
  PROVE  LET step == OnSelect(e, n)
         IN /\ SoundStep(e, step) /\ step.kind \in {"Commit", "Passthrough"}
            /\ step.kind = "Passthrough" <=> n \notin 1..Len(e.cands)
            /\ KeepsTyped(e, step)
            /\ step.engine.mode = "Main"
<1> DEFINE step == OnSelect(e, n)
<1>1. CASE n \notin 1..Len(e.cands)
  <2>1. step = Passthrough(e)
    BY <1>1 DEF OnSelect
  <2> HIDE DEF step
  <2>2. SoundStep(e, step) /\ step.kind = "Passthrough" /\ KeepsTyped(e, step)
        /\ step.engine.mode = "Main"
    BY <2>1, StaysSteps, StepFields, StillMain
  <2> USE DEF step
  <2> QED BY <1>1, <2>2
<1>2. CASE n \in 1..Len(e.cands)
  <2>1. step = Commit(Reset(e), <<e.cands[n]>>)
    BY <1>2 DEF OnSelect
  <2> HIDE DEF step
  <2>2. SoundStep(e, step) /\ step.kind = "Commit" /\ step.text = <<e.cands[n]>>
        /\ step.engine.mode = "Main"
    BY <2>1, ResetSteps, StepFields
  <2>3. step.text # <<>> /\ step.text[1] = e.cands[n]
    BY <2>2
  <2>4. n \in DOMAIN e.cands
    BY <1>2, SoundPage, DomainOf
  <2>5. KeepsTyped(e, step)
    BY <2>2, <2>3, <2>4, CandidateKept
  <2> USE DEF step
  <2> QED BY <1>2, <2>2, <2>5
<1> QED BY <1>1, <1>2

SelectsByDigit(e, c) == c \notin T(e).charset /\ CanSelectWithDigit(e, c)

\* A digit that selects is none of the codes; any other character is a code or a symbol.
LEMMA CharSound ==
  ASSUME ResourceAssumption, CharAssumption, NEW e, Sound(e), e.mode = "Main", NEW c \in Chars,
         NEW step, step = OnChar(e, c)
  PROVE  /\ SoundStep(e, step)
         /\ step.kind \in {"Commit", "Update", "CommitThenUpdate", "Passthrough"}
         /\ SelectsByDigit(e, c) =>
              (step.kind = "Passthrough" <=> DigitValue[c] \notin 1..Len(e.cands))
         /\ ~SelectsByDigit(e, c) =>
              (step.kind = "Passthrough" <=>
                 ~AcceptsCodeChar(e, c) /\ (c \in Punctuation => e.spelling = <<>>))
         /\ KeepsTyped(e, step) \/ CompletesCode(e, c, step)
         /\ step.engine.mode = "Main"
<1>1. CASE SelectsByDigit(e, c)
  <2>1. step = OnSelect(e, DigitValue[c])
    BY <1>1 DEF OnChar, SelectsByDigit
  <2> QED BY <1>1, <2>1, SelectSound
<1>2. CASE ~SelectsByDigit(e, c)
  <2>1. step = OnCodeChar(e, c)
    BY <1>2 DEF OnChar, SelectsByDigit
  <2> QED BY <1>2, <2>1, CodeCharSound
<1> QED BY <1>1, <1>2

\* The keys that commit: nothing of the spelling is lost.
LEMMA CommitsSound ==
  ASSUME ResourceAssumption, NEW e, Sound(e), e.mode = "Main",
         NEW step, step \in {OnSpace(e), OnEnter(e)}
  PROVE  /\ SoundStep(e, step) /\ step.kind \in {"Commit", "Passthrough"}
         /\ step.kind = "Passthrough" <=> e.spelling = <<>>
         /\ KeepsTyped(e, step)
         /\ step.engine.mode = "Main"
<1>1. CASE e.spelling = <<>>
  <2>1. step = Passthrough(e)
    BY <1>1 DEF OnSpace, OnEnter
  <2> QED BY <1>1, <2>1, StaysSteps, StepFields, StillMain
<1>2. CASE e.spelling # <<>> /\ step = Commit(Reset(e), e.spelling)
  <2>1. SoundStep(e, step) /\ step.kind = "Commit" /\ step.text = e.spelling
        /\ step.engine.mode = "Main"
    BY <1>2, ResetSteps, StepFields
  <2> QED BY <1>2, <2>1, RawKept
<1>3. CASE e.spelling # <<>> /\ e.cands # <<>> /\ step = Commit(Reset(e), <<e.cands[1]>>)
  <2>1. SoundStep(e, step) /\ step.kind = "Commit" /\ step.text = <<e.cands[1]>>
        /\ step.engine.mode = "Main"
    BY <1>3, ResetSteps, StepFields
  <2>2. step.text # <<>> /\ step.text[1] = e.cands[1] /\ 1 \in DOMAIN e.cands
    BY <1>3, <2>1, FirstCandidate
  <2>3. KeepsTyped(e, step)
    BY <2>1, <2>2, CandidateKept
  <2> QED BY <1>3, <2>1, <2>3
<1>4. step = OnEnter(e) => e.spelling = <<>> \/ step = Commit(Reset(e), e.spelling)
  BY DEF OnEnter
<1>5. step = OnSpace(e) =>
        \/ e.spelling = <<>>
        \/ step = Commit(Reset(e), e.spelling)
        \/ e.cands # <<>> /\ step = Commit(Reset(e), <<e.cands[1]>>)
  BY Zenon DEF OnSpace
<1> QED BY <1>1, <1>2, <1>3, <1>4, <1>5

\* A shorter spelling is looked up again from its first page.
LEMMA BackspaceSound ==
  ASSUME ResourceAssumption, NEW e, Sound(e), e.mode = "Main"
  PROVE  LET step == OnBackspace(e)
         IN /\ SoundStep(e, step) /\ step.kind \in {"Cleared", "Update", "Passthrough"}
            /\ step.kind = "Passthrough" <=> e.spelling = <<>>
            /\ step.engine.mode = "Main"
<1> DEFINE step == OnBackspace(e)
<1>1. CASE e.spelling = <<>>
  <2>1. step = Passthrough(e)
    BY <1>1, SMT DEF OnBackspace
  <2> HIDE DEF step
  <2>2. SoundStep(e, step) /\ step.kind = "Passthrough" /\ step.engine.mode = "Main"
    BY <2>1, StaysSteps, StepFields, StillMain
  <2> USE DEF step
  <2> QED BY <1>1, <2>2
<1>2. CASE e.spelling # <<>> /\ Len(e.spelling) = 1
  <2>1. step = Cleared(Reset(e))
    BY <1>2, Zenon DEF OnBackspace
  <2> HIDE DEF step
  <2>2. SoundStep(e, step) /\ step.kind = "Cleared" /\ step.engine.mode = "Main"
    BY <2>1, ResetSteps, StepFields
  <2> USE DEF step
  <2> QED BY <1>2, <2>2
<1>3. CASE e.spelling # <<>> /\ Len(e.spelling) # 1
  <2> DEFINE g == [e EXCEPT !.spelling = SubSeq(@, 1, Len(@) - 1)]
             f == Refresh(g)
  <2>1. step = Update(f)
    BY <1>3, Zenon DEF OnBackspace
  <2>2. e.spelling \in Seq(Chars \cup {Apostrophe})
    BY DEF Sound, Shaped
  <2>3. SubSeq(e.spelling, 1, Len(e.spelling) - 1) \in Seq(Chars \cup {Apostrophe})
    BY <1>3, <2>2
  <2>4. Shaped(g) /\ SameBase(e, g) /\ g.mode = "Main"
    BY <2>3 DEF Sound, Shaped, SameBase, EngineFields
  <2> HIDE DEF g, step
  <2>5. Sound(f) /\ SameBase(g, f) /\ f.mode = "Main"
    BY <2>4, RefreshSound
  <2> HIDE DEF f
  <2>6. SameBase(e, f)
    BY <2>4, <2>5, SameThrough
  <2>7. SoundStep(e, step) /\ step.kind = "Update" /\ step.engine = f
    BY <2>1, <2>5, <2>6, QuietStep, StepFields
  <2> USE DEF step
  <2> QED BY <1>3, <2>5, <2>7
<1> QED BY <1>1, <1>2, <1>3

LEMMA EscSound ==
  ASSUME ResourceAssumption, NEW e, Sound(e), e.mode = "Main"
  PROVE  LET step == OnEsc(e)
         IN /\ SoundStep(e, step) /\ step.kind \in {"Cleared", "Passthrough"}
            /\ step.kind = "Passthrough" <=> e.spelling = <<>>
            /\ step.engine.mode = "Main"
<1> DEFINE step == OnEsc(e)
<1>1. step = IF e.spelling = <<>> THEN Passthrough(e) ELSE Cleared(Reset(e))
  BY DEF OnEsc
<1> HIDE DEF step
<1>2. /\ SoundStep(e, Passthrough(e)) /\ Passthrough(e).kind = "Passthrough"
      /\ Passthrough(e).engine.mode = "Main"
  BY StaysSteps, StepFields, StillMain
<1>3. /\ SoundStep(e, Cleared(Reset(e))) /\ Cleared(Reset(e)).kind = "Cleared"
      /\ Cleared(Reset(e)).engine.mode = "Main"
  BY ResetSteps, StepFields
<1> USE DEF step
<1> QED BY <1>1, <1>2, <1>3

\* A page turn shows another page of the same list: it needs one, so none is buffered.
LEMMA TurnSound ==
  ASSUME ResourceAssumption, NEW e, Sound(e), e.mode = "Main", NEW to \in Int, to # e.page
  PROVE  LET step == TurnPage(e, to)
         IN /\ SoundStep(e, step) /\ step.kind \in {"Update", "None"}
            /\ KeepsTyped(e, step)
            /\ step.engine.mode = "Main"
<1> DEFINE step == TurnPage(e, to)
<1>1. CASE to \notin 0..(TotalPages(e) - 1)
  <2>1. step = None(e)
    BY <1>1 DEF TurnPage
  <2> HIDE DEF step
  <2>2. SoundStep(e, step) /\ KeepsTyped(e, step)
    BY <2>1, StaysSteps
  <2>3. step.kind = "None" /\ step.engine.mode = "Main"
    BY <2>1, StepFields
  <2> USE DEF step
  <2> QED BY <2>2, <2>3
<1>2. CASE to \in 0..(TotalPages(e) - 1)
  <2> DEFINE g == [e EXCEPT !.page = to]
             f == Snapshot(g)
  <2>1. step = Update(f)
    BY <1>2 DEF TurnPage
  <2>2. /\ Shaped(g) /\ SameBase(e, g) /\ g.mode = "Main" /\ g.spelling = e.spelling
        /\ g.page = to /\ g.tables = e.tables /\ g.total = e.total /\ g.state = e.state
    BY <1>2 DEF Sound, Shaped, SameBase, EngineFields
  <2>3. f = Shown(g, Search(T(g).main, LookupKey(g)))
    BY DEF Snapshot
  <2> HIDE DEF g, step
  <2>4. e.total = Len(Found(e)) /\ e.page < TotalPages(e) /\ e.page \in Nat
        /\ e.total \in Nat /\ (e.cands = <<>> <=> e.total = 0)
        /\ (e.cands # <<>> <=> e.state = "Selecting")
    BY SoundPage DEF Sound, Shaped, PageIsFresh
  <2>5. e.total # 0 /\ TotalPages(e) \in Nat
    <3> DEFINE size == T(e).pageSize
               pages == (e.total + size - 1) \div size
    <3>1. size \in Nat \ {0}
      BY DEF ResourceAssumption, T, Sound, Shaped
    <3>2. pages \in Nat /\ (e.total = 0 => pages = 0)
      BY <2>4, <3>1, PagesDivide
    <3>3. TotalPages(e) = IF pages = 0 THEN 1 ELSE pages
      BY DEF TotalPages
    <3> HIDE DEF pages
    <3>4. e.total = 0 => TotalPages(e) = 1
      BY <3>2, <3>3
    <3> QED BY <1>2, <2>4, <3>2, <3>3, <3>4
  <2>6. Found(g) = Found(e) /\ LookupKey(g) = LookupKey(e) /\ T(g) = T(e)
    BY <2>2, FoundDepends
  <2>7. Found(e) # <<>> /\ IsSeq(Found(e))
    BY <2>4, <2>5, FoundIsList, DomainOf DEF Sound
  <2>8. Search(T(g).main, LookupKey(g)) = Found(g)
    <3>1. ~HasBufferedPunctuation(e)
      BY <2>7 DEF Found
    <3>2. LookupKey(e) = e.spelling
      BY <3>1, SpellingIsList, BufferedIff DEF Sound
    <3> QED BY <2>2, <2>6, <3>1, <3>2 DEF Found
  <2>9. f.cands = Page(g, Found(g)) /\ f.total = Len(Found(g)) /\ f.state = e.state
        /\ DOMAIN f = EngineFields /\ f.tables = g.tables
    BY <2>2, <2>3, <2>8 DEF Shown, Shaped, EngineFields
  <2>10. TotalPages(g) = TotalPages(e) /\ TotalPages(f) = TotalPages(e)
    <3>1. T(f) = T(e)
      BY <2>6, <2>9 DEF T
    <3> QED BY <2>2, <2>4, <2>6, <2>9, <3>1 DEF TotalPages
  <2>11. to < TotalPages(e)
    BY <1>2, <2>5
  <2>12. f.cands # <<>>
    <3>1. g.total = Len(Found(g)) /\ g.page < TotalPages(g)
      BY <2>2, <2>4, <2>6, <2>10, <2>11
    <3>2. g.tables \in DOMAIN Tables /\ g.page \in Nat
      BY <2>2 DEF Shaped
    <3> QED BY <2>6, <2>7, <2>9, <3>1, <3>2, PageOfList
  <2> HIDE DEF f
  <2>13. f = WithState(f)
    <3>1. WithState(f) = [f EXCEPT !.state = f.state]
      BY <2>4, <2>5, <2>9, <2>12 DEF WithState
    <3>2. f = [f EXCEPT !.state = f.state]
      BY <2>3, <2>9 DEF Shown, EngineFields
    <3> QED BY <3>1, <3>2
  <2>14. f = WithState(Shown(g, Found(g)))
    BY <2>3, <2>8, <2>13
  <2>15. g.page < TotalPages(f)
    BY <2>2, <2>10, <2>11
  <2>16. Sound(f) /\ SameBase(g, f) /\ f.mode = "Main" /\ f.spelling = e.spelling
    BY <2>2, <2>14, <2>15, ShownSound
  <2>17. SameBase(e, f)
    BY <2>2, <2>16, SameThrough
  <2>18. SoundStep(e, step) /\ step.kind = "Update" /\ step.engine = f
    BY <2>1, <2>16, <2>17, QuietStep, StepFields
  <2>19. KeepsTyped(e, step)
    <3>1. IsStart(e.spelling, f.spelling)
      BY <2>16, SpellingIsList, StartOf DEF Sound
    <3> QED BY <2>18, <3>1 DEF KeepsTyped
  <2> USE DEF step
  <2> QED BY <2>16, <2>18, <2>19
<1> QED BY <1>1, <1>2

IsEvent(ev) ==
  /\ ev.key \in Keystrokes
  /\ ev.key = "Char" => ev.c \in Chars
  /\ ev.key = "Symbol" => ev.c \in Punctuation \cup NonAscii

\* What one key event does to an engine in the base table.
MainStep(e, ev, step) ==
  /\ SoundStep(e, step) /\ step.kind # "Rejected"
  /\ step.kind = "Passthrough" <=> ~WouldConsume(e, ev)
  /\ e.spelling # <<>> /\ ev.key \notin {"Esc", "Backspace"} =>
       \/ KeepsTyped(e, step)
       \/ ev.key \in {"Char", "Symbol"} /\ CompletesCode(e, ev.c, step)
  /\ step.engine.mode \in {"Main", "Menu"}
  /\ ev.key \notin {"Char", "Symbol"} => step.engine.mode = "Main"

\* The chooser shows its two entries.
LEMMA MenuSound ==
  ASSUME NEW e, Sound(e), e.spelling = <<>>, NEW step,
         step = RefreshTemporary([e EXCEPT !.mode = "Menu"])
  PROVE  SoundStep(e, step) /\ step.kind = "Update" /\ step.engine.mode = "Menu"
<1> DEFINE g == [e EXCEPT !.mode = "Menu"]
           f == ShownTemporary(g)
<1>1. Shaped(g) /\ SameBase(e, g) /\ g.mode = "Menu" /\ g.spelling = <<>> /\ DOMAIN g = EngineFields
  BY DEF Sound, Shaped, SameBase, EngineFields, Modes
<1>2. f = [g EXCEPT !.cands = MenuLabels, !.total = 2, !.state = "Selecting"]
  BY <1>1 DEF ShownTemporary
<1>3. step = Update(f)
  BY DEF RefreshTemporary
<1> HIDE DEF g, f
<1>4. /\ Shaped(f) /\ SameBase(e, f) /\ f.mode = "Menu" /\ f.spelling = <<>>
      /\ f.cands = MenuLabels /\ f.state = "Selecting"
  BY <1>1, <1>2 DEF Shaped, SameBase, EngineFields
<1>5. MenuLabels # <<>>
  BY TwoInstructions DEF MenuLabels
<1>6. Sound(f)
  BY <1>4, <1>5 DEF Sound, PageIsFresh
<1> QED BY <1>3, <1>4, <1>6, QuietStep, StepFields

LEMMA MainChar ==
  ASSUME ResourceAssumption, CharAssumption, NEW e, Sound(e), e.mode = "Main",
         NEW ev, IsEvent(ev), ev.key \in {"Char", "Symbol"}, NEW step, step = HandleMain(e, ev)
  PROVE  MainStep(e, ev, step)
<1>1. CASE IsTemporaryTrigger(e, ev.c)
  <2>1. step = RefreshTemporary([e EXCEPT !.mode = "Menu"])
    BY <1>1, Zenon DEF HandleMain
  <2>2. e.spelling = <<>>
    BY <1>1 DEF IsTemporaryTrigger
  <2>3. SoundStep(e, step) /\ step.kind = "Update" /\ step.engine.mode = "Menu"
    BY <2>1, <2>2, MenuSound
  <2>4. WouldConsume(e, ev)
    BY <1>1, Zenon DEF WouldConsume
  <2> QED BY <2>2, <2>3, <2>4 DEF MainStep
<1>2. CASE ev.key = "Char" /\ ~IsTemporaryTrigger(e, ev.c)
  <2>1. step = OnChar(e, ev.c)
    BY <1>2 DEF HandleMain
  <2>2. ev.c \in Chars
    BY <1>2 DEF IsEvent
  <2>3. WouldConsume(e, ev) <=>
          IF SelectsByDigit(e, ev.c) THEN DigitValue[ev.c] \in 1..Len(e.cands)
          ELSE AcceptsCodeChar(e, ev.c) \/ (ev.c \in Punctuation /\ e.spelling # <<>>)
    BY <1>2 DEF WouldConsume, SelectsByDigit
  <2>4. /\ SoundStep(e, step)
        /\ step.kind \in {"Commit", "Update", "CommitThenUpdate", "Passthrough"}
        /\ SelectsByDigit(e, ev.c) =>
             (step.kind = "Passthrough" <=> DigitValue[ev.c] \notin 1..Len(e.cands))
        /\ ~SelectsByDigit(e, ev.c) =>
             (step.kind = "Passthrough" <=>
                ~AcceptsCodeChar(e, ev.c) /\ (ev.c \in Punctuation => e.spelling = <<>>))
        /\ KeepsTyped(e, step) \/ CompletesCode(e, ev.c, step)
        /\ step.engine.mode = "Main"
    BY <2>1, <2>2, CharSound
  <2> QED BY <2>3, <2>4 DEF MainStep
<1>3. CASE ev.key = "Symbol" /\ ~IsTemporaryTrigger(e, ev.c)
  <2>1. ev.c \in Chars /\ ev.c \in Punctuation \cup NonAscii /\ ev.c \notin CodeChars
    BY <1>3 DEF IsEvent, CharAssumption, Chars
  <2>2. WouldConsume(e, ev) <=> ev.c \in T(e).charset \cup NonAscii \/ e.spelling # <<>>
    BY <1>3 DEF WouldConsume
  <2>3. CASE ev.c \in T(e).charset
    <3>1. step = OnChar(e, ev.c)
      BY <1>3, <2>3 DEF HandleMain
    <3>2. ~SelectsByDigit(e, ev.c) /\ AcceptsCodeChar(e, ev.c)
      BY <2>3 DEF SelectsByDigit, AcceptsCodeChar
    <3>3. /\ SoundStep(e, step)
          /\ step.kind \in {"Commit", "Update", "CommitThenUpdate"}
          /\ KeepsTyped(e, step) \/ CompletesCode(e, ev.c, step)
          /\ step.engine.mode = "Main"
      BY <2>1, <3>1, <3>2, CharSound
    <3> QED BY <2>2, <2>3, <3>3 DEF MainStep
  <2>4. CASE ev.c \notin T(e).charset
    <3>1. step = OnSymbol(e, ev.c)
      BY <1>3, <2>4 DEF HandleMain
    <3>2. ~AcceptsCodeChar(e, ev.c)
      BY <2>1, <2>4 DEF AcceptsCodeChar
    <3>3. /\ SoundStep(e, step) /\ step.kind \in {"Commit", "Update", "Passthrough"}
          /\ step.kind = "Passthrough" <=> e.spelling = <<>> /\ ev.c \notin NonAscii
          /\ e.spelling # <<>> => KeepsTyped(e, step)
          /\ step.engine.mode = "Main"
      BY <2>1, <3>1, <3>2, SymbolSound
    <3> QED BY <2>2, <2>4, <3>3 DEF MainStep
  <2> QED BY <2>3, <2>4
<1> QED BY <1>1, <1>2, <1>3

LEMMA MainSound ==
  ASSUME ResourceAssumption, CharAssumption, NEW e, Sound(e), e.mode = "Main",
         NEW ev, IsEvent(ev), NEW step, step = HandleMain(e, ev)
  PROVE  MainStep(e, ev, step)
<1>0. ev.key \in Keystrokes
  BY DEF IsEvent
<1>1. CASE ev.key \in {"Char", "Symbol"}
  BY <1>1, MainChar
<1>2. CASE ev.key \in {"Space", "Enter", "Backspace", "Esc"}
  <2>1. WouldConsume(e, ev) <=> e.spelling # <<>>
    BY <1>2 DEF WouldConsume
  <2>2. CASE ev.key \in {"Space", "Enter"}
    <3>1. step \in {OnSpace(e), OnEnter(e)}
      BY <2>2 DEF HandleMain
    <3> QED BY <2>1, <2>2, <3>1, CommitsSound DEF MainStep
  <2>3. CASE ev.key = "Backspace"
    <3>1. step = OnBackspace(e)
      BY <2>3 DEF HandleMain
    <3> QED BY <2>1, <2>3, <3>1, BackspaceSound DEF MainStep
  <2>4. CASE ev.key = "Esc"
    <3>1. step = OnEsc(e)
      BY <2>4 DEF HandleMain
    <3> QED BY <2>1, <2>4, <3>1, EscSound DEF MainStep
  <2> QED BY <1>2, <2>2, <2>3, <2>4
<1>3. CASE ev.key = "Select"
  <2>1. WouldConsume(e, ev) <=> ev.n \in 1..Len(e.cands)
    BY <1>3 DEF WouldConsume
  <2>2. step = OnSelect(e, ev.n)
    BY <1>3 DEF HandleMain
  <2> QED BY <1>3, <2>1, <2>2, SelectSound DEF MainStep
<1>4. CASE ev.key \in {"PageNext", "PagePrev"}
  <2>1. WouldConsume(e, ev)
    BY <1>4 DEF WouldConsume
  <2>2. e.page + 1 \in Int /\ e.page - 1 \in Int /\ e.page + 1 # e.page /\ e.page - 1 # e.page
    BY DEF Sound, Shaped
  <2>3. step = TurnPage(e, e.page + 1) \/ step = TurnPage(e, e.page - 1)
    BY <1>4 DEF HandleMain
  <2>4. /\ SoundStep(e, step) /\ step.kind \in {"Update", "None"}
        /\ KeepsTyped(e, step) /\ step.engine.mode = "Main"
    BY <2>2, <2>3, TurnSound
  <2> QED BY <1>4, <2>1, <2>4 DEF MainStep
<1> QED BY <1>0, <1>1, <1>2, <1>3, <1>4 DEF Keystrokes

-----------------------------------------------------------------------------
(* Temporary input. *)

LEMMA TemporaryShown ==
  ASSUME ResourceAssumption, NEW e, NEW g, Shaped(g), SameBase(e, g), g.mode \in TemporaryModes,
         NEW step, step = RefreshTemporary(g),
         g.page = 0 \/ (\A f : f.tables = g.tables /\ f.total = Len(Found(g)) =>
                          g.page < TotalPages(f))
  PROVE  /\ SoundStep(e, step) /\ step.kind = "Update"
         /\ step.engine.mode = g.mode /\ step.engine.spelling = g.spelling
<1> DEFINE f == ShownTemporary(g)
<1>1. g.mode # "Menu" /\ g.mode # "Main"
  BY DEF TemporaryModes
<1>2. Found(g) = Search(TemporaryDict(g).entries, g.spelling)
  BY <1>1 DEF Found
<1>3. f = WithState(Shown(g, Found(g)))
  BY <1>1, <1>2 DEF ShownTemporary
<1>4. f.tables = g.tables /\ f.total = Len(Found(g))
  BY <1>3 DEF WithState, Shown, Shaped, EngineFields
<1>5. step = Update(f)
  BY DEF RefreshTemporary
<1> HIDE DEF f
<1>6. Sound(f) /\ SameBase(g, f) /\ f.mode = g.mode /\ f.spelling = g.spelling
  BY <1>1, <1>3, <1>4, ShownSound
<1>7. SameBase(e, f)
  BY <1>6, SameThrough
<1> QED BY <1>5, <1>6, <1>7, QuietStep, StepFields

\* What one key event does to an engine in temporary input.
TemporaryStep(e, ev, step) ==
  /\ SoundStep(e, step) /\ step.kind \in {"None", "Update", "Cleared", "Commit"}
  /\ e.spelling # <<>> /\ ev.key \notin {"Esc", "Backspace"} => KeepsTyped(e, step)
  /\ e.mode # "Menu" \/ ~(ev.key = "Select" \/ (ev.key = "Char" /\ ev.c \in Digits)) =>
       step.engine.mode \in {"Main", e.mode}
  /\ e.mode # "Main" /\ step.engine.mode = "Main" => step.engine.spelling = <<>>

LEMMA StaysTemporary ==
  ASSUME NEW e, Sound(e), NEW ev
  PROVE  TemporaryStep(e, ev, None(e))
  BY StaysSteps, StepFields DEF TemporaryStep

LEMMA ClearedTemporary ==
  ASSUME ResourceAssumption, NEW e, Sound(e), NEW ev,
         ev.key \in {"Esc", "Backspace"}
  PROVE  TemporaryStep(e, ev, Cleared(Reset(e)))
  BY ResetSteps, StepFields DEF TemporaryStep

LEMMA SelectTemporarySound ==
  ASSUME ResourceAssumption, NEW e, Sound(e), e.mode \in TemporaryModes, NEW ev, NEW n
  PROVE  TemporaryStep(e, ev, SelectTemporary(e, n))
<1> DEFINE step == SelectTemporary(e, n)
<1>1. CASE n \notin 1..Len(e.cands)
  <2>1. step = None(e)
    BY <1>1 DEF SelectTemporary
  <2> QED BY <2>1, StaysTemporary
<1>2. CASE n \in 1..Len(e.cands)
  <2>1. step = Commit(Reset(e), <<e.cands[n]>>)
    BY <1>2 DEF SelectTemporary
  <2> HIDE DEF step
  <2>2. SoundStep(e, step) /\ step.kind = "Commit" /\ step.text = <<e.cands[n]>>
        /\ step.engine.mode = "Main" /\ step.engine.spelling = <<>>
    BY <2>1, ResetSteps, StepFields
  <2>3. step.text # <<>> /\ step.text[1] = e.cands[n] /\ e.mode # "Menu"
    BY <2>2 DEF TemporaryModes
  <2>4. n \in DOMAIN e.cands
    BY <1>2, <2>3, SoundPage, DomainOf
  <2>5. KeepsTyped(e, step)
    BY <2>2, <2>3, <2>4, CandidateKept
  <2>6. TemporaryStep(e, ev, step)
    BY <2>2, <2>5 DEF TemporaryStep
  <2> USE DEF step
  <2> QED BY <2>6
<1> QED BY <1>1, <1>2

\* The chooser opens a temporary round, with nothing typed in it yet.
LEMMA ChooseSound ==
  ASSUME ResourceAssumption, NEW e, Sound(e), e.mode = "Menu", NEW ev, NEW n,
         n = 0 \/ ev.key = "Select" \/ (ev.key = "Char" /\ ev.c \in Digits)
  PROVE  TemporaryStep(e, ev, ChooseFromMenu(e, n))
<1> DEFINE step == ChooseFromMenu(e, n)
<1>1. ASSUME NEW m \in TemporaryModes, n # 0,
             step = RefreshTemporary([ResetCandidates(e) EXCEPT !.mode = m])
      PROVE  TemporaryStep(e, ev, step)
  <2> DEFINE g == [ResetCandidates(e) EXCEPT !.mode = m]
  <2>1. /\ Shaped(g) /\ SameBase(e, g) /\ g.mode \in TemporaryModes /\ g.page = 0
    BY DEF Sound, Shaped, ResetCandidates, SameBase, EngineFields, TemporaryModes, Modes
  <2>2. step = RefreshTemporary(g)
    BY <1>1
  <2> HIDE DEF g, step
  <2>3. SoundStep(e, step) /\ step.kind = "Update" /\ step.engine.mode \in TemporaryModes
    BY <2>1, <2>2, TemporaryShown
  <2>4. e.spelling = <<>>
    BY DEF Sound
  <2> QED BY <1>1, <2>3, <2>4 DEF TemporaryStep, TemporaryModes
<1>2. CASE step = None(e)
  BY <1>2, StaysTemporary
<1>3. CASE n = 1 /\ T(e).pinyin.present
  <2>1. step = RefreshTemporary([ResetCandidates(e) EXCEPT !.mode = "Pinyin"])
    <3>1. ~(n = 2 /\ ~T(e).englishError)
      BY <1>3
    <3> QED BY <1>3, <3>1, Zenon DEF ChooseFromMenu
  <2>2. "Pinyin" \in TemporaryModes /\ n # 0
    BY <1>3 DEF TemporaryModes
  <2> HIDE DEF step
  <2>3. TemporaryStep(e, ev, step)
    BY <1>1, <2>1, <2>2, Zenon
  <2> USE DEF step
  <2> QED BY <2>3
<1>4. CASE n = 2 /\ ~T(e).englishError
  <2>1. step = RefreshTemporary([ResetCandidates(e) EXCEPT !.mode = "English"])
    <3>1. ~(n = 1 /\ T(e).pinyin.present)
      BY <1>4
    <3> QED BY <1>4, <3>1, Zenon DEF ChooseFromMenu
  <2>2. "English" \in TemporaryModes /\ n # 0
    BY <1>4 DEF TemporaryModes
  <2> HIDE DEF step
  <2>3. TemporaryStep(e, ev, step)
    BY <1>1, <2>1, <2>2, Zenon
  <2> USE DEF step
  <2> QED BY <2>3
<1>5. CASE ~(n = 1 /\ T(e).pinyin.present) /\ ~(n = 2 /\ ~T(e).englishError)
  <2>1. step = None(e)
    BY <1>5, Zenon DEF ChooseFromMenu
  <2> QED BY <1>2, <2>1
<1> QED BY <1>3, <1>4, <1>5

\* A spelling grows or shrinks by a character, or another page of its list is shown.
LEMMA RespelledSound ==
  ASSUME ResourceAssumption, NEW e, Sound(e), e.mode \in TemporaryModes, NEW ev,
         NEW spelling, spelling \in Seq(Chars \cup {Apostrophe}),
         IsStart(e.spelling, spelling) \/ ev.key = "Backspace"
  PROVE  TemporaryStep(e, ev, RefreshTemporary([e EXCEPT !.spelling = spelling, !.page = 0]))
<1> DEFINE g == [e EXCEPT !.spelling = spelling, !.page = 0]
           step == RefreshTemporary(g)
<1>1. /\ Shaped(g) /\ SameBase(e, g) /\ g.mode = e.mode /\ g.page = 0 /\ g.spelling = spelling
  BY DEF Sound, Shaped, SameBase, EngineFields
<1> HIDE DEF g
<1>2. SoundStep(e, step) /\ step.kind = "Update"
      /\ step.engine.mode = e.mode /\ step.engine.spelling = spelling
  BY <1>1, TemporaryShown
<1> HIDE DEF step
<1>3. TemporaryStep(e, ev, step)
  BY <1>2 DEF TemporaryStep, KeepsTyped
<1> USE DEF step, g
<1> QED BY <1>3

LEMMA TurnedSound ==
  ASSUME ResourceAssumption, NEW e, Sound(e), e.mode \in TemporaryModes, NEW ev,
         NEW to \in Nat, to < TotalPages(e)
  PROVE  TemporaryStep(e, ev, RefreshTemporary([e EXCEPT !.page = to]))
<1> DEFINE g == [e EXCEPT !.page = to]
           step == RefreshTemporary(g)
<1>1. /\ Shaped(g) /\ SameBase(e, g) /\ g.mode = e.mode /\ g.page = to /\ g.spelling = e.spelling
      /\ g.tables = e.tables
  BY DEF Sound, Shaped, SameBase, EngineFields
<1>2. e.mode # "Menu" /\ e.total = Len(Found(e))
  BY DEF Sound, PageIsFresh, TemporaryModes
<1> HIDE DEF g
<1>3. Found(g) = Found(e)
  BY <1>1, FoundDepends
<1>4. ASSUME NEW f, f.tables = g.tables, f.total = Len(Found(g))
      PROVE  g.page < TotalPages(f)
  <2>1. TotalPages(f) = TotalPages(e)
    BY <1>1, <1>2, <1>3, <1>4 DEF TotalPages, T
  <2> QED BY <1>1, <2>1
<1>5. SoundStep(e, step) /\ step.kind = "Update"
      /\ step.engine.mode = e.mode /\ step.engine.spelling = e.spelling
  BY <1>1, <1>4, TemporaryShown
<1> HIDE DEF step
<1>6. IsStart(e.spelling, e.spelling)
  BY SpellingIsList, StartOf DEF Sound
<1>7. TemporaryStep(e, ev, step)
  BY <1>5, <1>6 DEF TemporaryStep, KeepsTyped
<1> USE DEF step, g
<1> QED BY <1>7

\* Enter and Space commit the spelling, or the first candidate.
LEMMA TakenTemporary ==
  ASSUME ResourceAssumption, NEW e, Sound(e), e.mode \in TemporaryModes, NEW ev, NEW text,
         text = e.spelling \/ (e.cands # <<>> /\ text = <<e.cands[1]>>)
  PROVE  TemporaryStep(e, ev, Commit(Reset(e), text))
<1> DEFINE step == Commit(Reset(e), text)
<1>1. SoundStep(e, step) /\ step.kind = "Commit" /\ step.text = text
      /\ step.engine.mode = "Main" /\ step.engine.spelling = <<>>
  BY ResetSteps, StepFields
<1> HIDE DEF step
<1>2. KeepsTyped(e, step)
  <2>1. CASE text = e.spelling
    BY <1>1, <2>1, RawKept
  <2>2. CASE e.cands # <<>> /\ text = <<e.cands[1]>>
    <3>1. text # <<>> /\ text[1] = e.cands[1] /\ e.mode # "Menu"
      BY <2>2 DEF TemporaryModes
    <3>2. 1 \in DOMAIN e.cands
      BY <2>2, <3>1, FirstCandidate
    <3> QED BY <1>1, <3>1, <3>2, CandidateKept
  <2> QED BY <2>1, <2>2
<1>3. TemporaryStep(e, ev, step)
  BY <1>1, <1>2 DEF TemporaryStep
<1> USE DEF step
<1> QED BY <1>3

LEMMA TemporarySound ==
  ASSUME ResourceAssumption, CharAssumption, NEW e, Sound(e), e.mode # "Main",
         NEW ev, IsEvent(ev), NEW step, step = HandleTemporary(e, ev)
  PROVE  TemporaryStep(e, ev, step)
<1>0. /\ ev.key \in Keystrokes /\ e.spelling \in Seq(Chars \cup {Apostrophe})
      /\ IsSeq(e.spelling) /\ e.page \in Nat /\ e.mode \in Modes
  BY SpellingIsList DEF IsEvent, Sound, Shaped
<1>1. CASE ev.key = "Esc" \/ (ev.key = "Backspace" /\ e.spelling = <<>>)
  <2>1. step = Cleared(Reset(e))
    BY <1>1 DEF HandleTemporary
  <2> QED BY <1>1, <2>1, ClearedTemporary
<1>2. CASE e.mode = "Menu" /\ ~(ev.key = "Esc" \/ (ev.key = "Backspace" /\ e.spelling = <<>>))
  <2> DEFINE n == CASE ev.key = "Select" -> ev.n
                    [] ev.key = "Char" /\ ev.c \in Digits -> DigitValue[ev.c]
                    [] OTHER -> 0
  <2>1. step = ChooseFromMenu(e, n)
    BY <1>2, Zenon DEF HandleTemporary
  <2>2. n = 0 \/ ev.key = "Select" \/ (ev.key = "Char" /\ ev.c \in Digits)
    BY Zenon
  <2> QED BY <1>2, <2>1, <2>2, ChooseSound
<1>3. CASE e.mode # "Menu" /\ ev.key = "Backspace" /\ e.spelling # <<>>
  <2> DEFINE shorter == SubSeq(e.spelling, 1, Len(e.spelling) - 1)
  <2>1. step = RefreshTemporary([e EXCEPT !.spelling = shorter, !.page = 0])
    BY <1>3, Zenon DEF HandleTemporary
  <2>2. shorter \in Seq(Chars \cup {Apostrophe})
    BY <1>0, <1>3
  <2>3. e.mode \in TemporaryModes
    BY <1>0, <1>3 DEF Modes, TemporaryModes
  <2> HIDE DEF shorter
  <2>4. TemporaryStep(e, ev, RefreshTemporary([e EXCEPT !.spelling = shorter, !.page = 0]))
    BY <1>3, <2>2, <2>3, RespelledSound
  <2> QED BY <2>1, <2>4
<1>4. CASE e.mode # "Menu" /\ ev.key \in {"Enter", "Space"}
  <2>1. step = IF e.spelling = <<>> THEN None(e)
               ELSE Commit(Reset(e), IF ev.key = "Space" /\ e.cands # <<>> THEN <<e.cands[1]>>
                                     ELSE e.spelling)
    BY <1>4 DEF HandleTemporary
  <2>2. e.mode \in TemporaryModes
    BY <1>0, <1>4 DEF Modes, TemporaryModes
  <2> QED BY <2>1, <2>2, StaysTemporary, TakenTemporary
<1>5. CASE e.mode # "Menu" /\ (ev.key = "Select" \/ (ev.key = "Char" /\ ev.c \in Digits))
  <2>1. step = SelectTemporary(e, ev.n) \/ step = SelectTemporary(e, DigitValue[ev.c])
    BY <1>5 DEF HandleTemporary
  <2>2. e.mode \in TemporaryModes
    BY <1>0, <1>5 DEF Modes, TemporaryModes
  <2> QED BY <2>1, <2>2, SelectTemporarySound
<1>6. CASE /\ e.mode # "Menu" /\ ev.key \in {"Char", "Symbol"}
           /\ ~(ev.key = "Char" /\ ev.c \in Digits)
  <2>1. \/ step = RefreshTemporary([e EXCEPT !.spelling = Append(e.spelling, ev.c), !.page = 0])
        \/ step = None(e)
    BY <1>6, Zenon DEF HandleTemporary
  <2>2. ev.c \in Chars
    BY <1>6 DEF IsEvent, Chars
  <2>3. /\ Append(e.spelling, ev.c) \in Seq(Chars \cup {Apostrophe})
        /\ IsStart(e.spelling, Append(e.spelling, ev.c))
    BY <1>0, <2>2, StartOf
  <2>4. e.mode \in TemporaryModes
    BY <1>0, <1>6 DEF Modes, TemporaryModes
  <2> DEFINE longer == Append(e.spelling, ev.c)
  <2> HIDE DEF longer
  <2>5. TemporaryStep(e, ev, RefreshTemporary([e EXCEPT !.spelling = longer, !.page = 0]))
    BY <2>3, <2>4, RespelledSound DEF longer
  <2> QED BY <2>1, <2>5, StaysTemporary DEF longer
<1>7. CASE e.mode # "Menu" /\ ev.key \in {"PageNext", "PagePrev"}
  <2>1. \/ ev.key = "PageNext" /\ e.page + 1 < TotalPages(e)
           /\ step = RefreshTemporary([e EXCEPT !.page = e.page + 1])
        \/ ev.key = "PagePrev" /\ e.page > 0
           /\ step = RefreshTemporary([e EXCEPT !.page = e.page - 1])
        \/ step = None(e)
    BY <1>7, Zenon DEF HandleTemporary
  <2>2. e.mode \in TemporaryModes
    BY <1>0, <1>7 DEF Modes, TemporaryModes
  <2>3. e.page < TotalPages(e)
    BY <1>7 DEF Sound, PageIsFresh
  <2>4. TotalPages(e) \in Nat
    BY <1>7, PagesAreNat
  <2>5. ASSUME NEW to \in Nat, to < TotalPages(e), step = RefreshTemporary([e EXCEPT !.page = to])
        PROVE  TemporaryStep(e, ev, step)
    BY <2>2, <2>5, TurnedSound
  <2>6. CASE ev.key = "PageNext" /\ e.page + 1 < TotalPages(e)
             /\ step = RefreshTemporary([e EXCEPT !.page = e.page + 1])
    <3>1. e.page + 1 \in Nat
      BY <1>0
    <3> QED BY <2>5, <2>6, <3>1
  <2>7. CASE ev.key = "PagePrev" /\ e.page > 0
             /\ step = RefreshTemporary([e EXCEPT !.page = e.page - 1])
    <3>1. e.page - 1 \in Nat /\ e.page - 1 < TotalPages(e)
      BY <1>0, <2>3, <2>4, <2>7
    <3> QED BY <2>5, <2>7, <3>1
  <2> QED BY <2>1, <2>6, <2>7, StaysTemporary
<1> QED BY <1>0, <1>1, <1>2, <1>3, <1>4, <1>5, <1>6, <1>7 DEF Keystrokes

-----------------------------------------------------------------------------
(* The semantic engine. *)

\* What one key event does, in the mode the engine is in.
HandledKey(e, ev, step) ==
  /\ SoundStep(e, step) /\ step.kind # "Rejected"
  /\ step.kind = "Passthrough" <=> ~WouldConsume(e, ev)
  /\ e.spelling # <<>> /\ ev.key \notin {"Esc", "Backspace"} =>
       \/ KeepsTyped(e, step)
       \/ ev.key \in {"Char", "Symbol"} /\ CompletesCode(e, ev.c, step)
  /\ ev.key \notin {"Char", "Symbol", "Select"} => step.engine.mode \in {"Main", e.mode}
  /\ e.mode # "Main" /\ step.engine.mode = "Main" => step.engine.spelling = <<>>

LEMMA HandleSound ==
  ASSUME ResourceAssumption, CharAssumption, NEW e, Sound(e), NEW ev, IsEvent(ev),
         NEW step, step = Handle(e, ev)
  PROVE  HandledKey(e, ev, step)
<1>1. CASE e.mode = "Main"
  <2>1. step = HandleMain(e, ev)
    BY <1>1 DEF Handle
  <2> QED BY <1>1, <2>1, MainSound DEF MainStep, HandledKey
<1>2. CASE e.mode # "Main"
  <2>1. step = HandleTemporary(e, ev)
    BY <1>2 DEF Handle
  <2>2. WouldConsume(e, ev)
    BY <1>2, Zenon DEF WouldConsume
  <2>3. TemporaryStep(e, ev, step)
    BY <1>2, <2>1, TemporarySound
  <2> QED BY <1>2, <2>2, <2>3 DEF TemporaryStep, HandledKey
<1> QED BY <1>1, <1>2

LEMMA HeadOfJoined ==
  ASSUME NEW p, IsSeq(p), p # <<>>, NEW q, IsSeq(q)
  PROVE  p \o q # <<>> /\ (p \o q)[1] = p[1]
<1>1. Len(p) \in Nat /\ Len(p) # 0 /\ Len(q) \in Nat
  BY DomainOf
<1>2. IsSeq(p \o q) /\ Len(p \o q) = Len(p) + Len(q) /\ (p \o q)[1] = p[1]
  BY <1>1, CatOf
<1> QED BY <1>1, <1>2, DomainOf

LEMMA PreferredKept ==
  ASSUME ResourceAssumption, NEW e, Sound(e), e.spelling # <<>>, NEW step, step.kind = "Commit",
         NEW text, text \in {e.spelling, PreferredText(e)},
         step.text = text \/ \E r : IsSeq(r) /\ step.text = text \o r
  PROVE  KeepsTyped(e, step)
<1>1. e.mode # "Menu"
  BY DEF Sound
<1>2. CASE text = e.spelling
  BY <1>2, RawKept
<1>3. CASE text # e.spelling
  <2>1. e.cands # <<>> /\ text = <<e.cands[1]>>
    BY <1>3 DEF PreferredText
  <2>2. step.text # <<>> /\ step.text[1] = e.cands[1]
    <3>1. CASE step.text = text
      BY <2>1, <3>1, OneInstruction
    <3>2. ASSUME NEW r, IsSeq(r), step.text = text \o r
          PROVE  step.text # <<>> /\ step.text[1] = e.cands[1]
      <4>1. IsSeq(text) /\ text # <<>> /\ text[1] = e.cands[1]
        BY <2>1, OneInstruction
      <4> QED BY <3>2, <4>1, HeadOfJoined
    <3> QED BY <3>1, <3>2
  <2>3. 1 \in DOMAIN e.cands
    BY <1>1, <2>1, FirstCandidate
  <2> QED BY <1>1, <2>2, <2>3, CandidateKept
<1> QED BY <1>2, <1>3

\* An operation of the semantic engine keeps its tables; the query only moves forward.
Binds(e, f) ==
  /\ f.tables = e.tables /\ f.profile = e.profile
  /\ f.query[1] = e.query[1] /\ f.query[2] >= e.query[2]

EngineOk(e) ==
  /\ Sound(e) /\ ModeIsOverlay(e)
  /\ e.profile = "Legacy" => e.base = "Main" /\ e.temporary = "None"

\* What one operation does, before the round it ended falls back to the base mode.
Performed(e, a, step) ==
  /\ step = Step(step.engine, step.kind, step.text, step.replace)
  /\ step.kind \in Kinds
  /\ Sound(step.engine) /\ Binds(e, step.engine)
  /\ e.profile = "Legacy" =>
       step.engine.base = "Main" /\ step.engine.temporary = "None"
  /\ e.profile = "Touch" =>
       \/ ModeIsOverlay(step.engine)
       \/ /\ step.engine.mode = "Main" /\ step.engine.spelling = <<>>
          /\ ~ReturnsEarly(e, a, step)
  /\ Agrees(a, Disposition(step), WouldHandle(e, a))
  /\ e.temporary = "None" /\ e.mode \in {"Main", "English"} /\ e.spelling # <<>> =>
       (~Drops(a) => KeepsText(e, a, step))

\* An operation that leaves the mode, or empties the spelling and falls back.
Follows(e, step) ==
  /\ SameBase(e, step.engine)
  /\ \/ step.engine.mode = e.mode
     \/ step.engine.mode = "Main" /\ step.engine.spelling = <<>>
     \/ step.engine.mode = "Menu"

LEMMA SameBinds ==
  ASSUME NEW e, Sound(e), NEW f, SameBase(e, f)
  PROVE  Binds(e, f)
<1>1. e.query[2] >= e.query[2]
  BY DEF Sound, Shaped
<1> QED BY <1>1 DEF Binds, SameBase

LEMMA FollowsPerformed ==
  ASSUME NEW e, EngineOk(e), NEW a, NEW step, SoundStep(e, step), Follows(e, step),
         ~ReturnsEarly(e, a, step) \/ step.engine.mode = e.mode \/ e.profile # "Touch",
         Agrees(a, Disposition(step), WouldHandle(e, a)),
         e.spelling # <<>> /\ ~Drops(a) => KeepsText(e, a, step)
  PROVE  Performed(e, a, step)
<1>1. Binds(e, step.engine)
  BY SameBinds DEF EngineOk, SoundStep
<1>2. step.engine.mode = e.mode => (ModeIsOverlay(e) <=> ModeIsOverlay(step.engine))
  BY DEF Follows, SameBase, ModeIsOverlay
<1>3. step.engine.mode = "Menu" => ModeIsOverlay(step.engine)
  BY DEF ModeIsOverlay
<1>4. e.profile = "Legacy" => step.engine.base = "Main" /\ step.engine.temporary = "None"
  BY DEF EngineOk, Follows, SameBase
<1>5. e.profile = "Touch" =>
       \/ ModeIsOverlay(step.engine)
       \/ /\ step.engine.mode = "Main" /\ step.engine.spelling = <<>>
          /\ ~ReturnsEarly(e, a, step)
  BY <1>2, <1>3 DEF Follows, EngineOk
<1> QED BY <1>1, <1>4, <1>5 DEF SoundStep, Performed

\* Nothing is done to the engine: the action is refused, or has no effect.
LEMMA StaysPerformed ==
  ASSUME ResourceAssumption, NEW e, EngineOk(e), NEW a,
         NEW step, step \in {None(e), Rejected(e), Passthrough(e)},
         Agrees(a, Disposition(step), WouldHandle(e, a))
  PROVE  Performed(e, a, step)
<1>1. SoundStep(e, step) /\ KeepsTyped(e, step) /\ step.engine = e
  BY StaysSteps, StepFields DEF EngineOk
<1>2. Follows(e, step)
  BY <1>1 DEF SoundStep, Follows
<1> QED BY <1>1, <1>2, FollowsPerformed DEF KeepsText

\* The round is committed or cleared and the engine falls back afterwards.
LEMMA ResetPerformed ==
  ASSUME ResourceAssumption, NEW e, EngineOk(e), NEW a, NEW text,
         NEW step, step = Commit(Reset(e), text),
         ~ReturnsEarly(e, a, step) \/ e.profile # "Touch",
         WouldHandle(e, a), a.op # "SelectCandidate",
         e.spelling # <<>> /\ ~Drops(a) => KeepsTyped(e, step)
  PROVE  Performed(e, a, step)
<1>1. SoundStep(e, step) /\ step.kind = "Commit" /\ step.engine.mode = "Main"
      /\ step.engine.spelling = <<>>
  BY ResetSteps, StepFields DEF EngineOk
<1>2. Follows(e, step)
  BY <1>1 DEF SoundStep, Follows
<1>3. Disposition(step) = "Handled"
  BY <1>1 DEF Disposition
<1>4. Agrees(a, Disposition(step), WouldHandle(e, a))
  BY <1>3 DEF Agrees
<1> QED BY <1>1, <1>2, <1>4, FollowsPerformed DEF KeepsText

\* The round is over: what was selected is committed and the base mode is back.
LEMMA EndSound ==
  ASSUME ResourceAssumption, NEW e, Sound(e)
  PROVE  LET f == EndTemporary(e)
         IN /\ Sound(f) /\ Binds(e, f) /\ ModeIsOverlay(f) /\ f.query[2] = e.query[2] + 1
            /\ f.base = e.base /\ f.temporary = "None" /\ f.spelling = <<>>
<1> DEFINE m == IF e.base = "English" THEN "English" ELSE "Main"
           r == Reset(e)
           f == EndTemporary(e)
<1>1. Shaped(e) /\ {"cands", "total", "state"} \subseteq DOMAIN e
      /\ e.query[1] \in Nat /\ e.query[2] \in Nat
  BY DEF Sound, Shaped, EngineFields
<1>2. f = [r EXCEPT !.temporary = "None", !.mode = m, !.query = <<r.query[1], r.query[2] + 1>>]
  BY <1>1 DEF EndTemporary, InvalidateQuery, Reset, Shaped, EngineFields
<1>3. Sound(r) /\ SameBase(e, r) /\ r.spelling = <<>> /\ r.mode = "Main"
      /\ r.cands = <<>> /\ r.total = 0 /\ r.page = 0 /\ r.state = "Idle"
  <2>1. r.cands = <<>> /\ r.total = 0 /\ r.page = 0 /\ r.state = "Idle"
    BY <1>1 DEF Reset, Shaped, EngineFields
  <2> QED BY <1>1, <2>1, ResetSound
<1> HIDE DEF r, f
<1>4. /\ DOMAIN f = EngineFields /\ f.spelling = <<>> /\ f.cands = <<>> /\ f.total = 0
      /\ f.page = 0 /\ f.state = "Idle" /\ f.temporary = "None" /\ f.mode = m
      /\ f.tables = e.tables /\ f.profile = e.profile /\ f.base = e.base
      /\ f.query = <<e.query[1], e.query[2] + 1>>
  BY <1>2, <1>3 DEF Sound, Shaped, SameBase, EngineFields
<1>5. f.spelling \in Seq(Chars \cup {Apostrophe}) /\ f.query \in Nat \X Nat
  BY <1>1, <1>4
<1>6. Shaped(f)
  BY <1>1, <1>4, <1>5 DEF Shaped, Modes
<1>7. f.mode # "Menu"
  BY <1>4
<1>8. Found(f) = <<>>
  BY <1>4, <1>6, <1>7, FoundIsList
<1>9. Sound(f)
  BY <1>4, <1>6, <1>7, <1>8, BareSound
<1>10. Binds(e, f) /\ f.query[2] = e.query[2] + 1
  BY <1>1, <1>4 DEF Binds
<1>11. ModeIsOverlay(f)
  BY <1>1, <1>4 DEF ModeIsOverlay, Shaped
<1> USE DEF f
<1> QED BY <1>4, <1>9, <1>10, <1>11

\* The list from which a click takes its candidate is the one the total counts.
LEMMA AllFound ==
  ASSUME ResourceAssumption, NEW e, Sound(e)
  PROVE  AllCandidates(e) = IF e.mode = "Menu" THEN <<>> ELSE Found(e)
<1>1. CASE e.mode = "Menu"
  BY <1>1 DEF AllCandidates
<1>2. CASE e.mode # "Menu" /\ (e.spelling = <<>> \/ e.cands = <<>>)
  <2>1. Found(e) = <<>>
    BY <1>2, SoundPage, FoundIsList DEF Sound
  <2> QED BY <1>2, <2>1 DEF AllCandidates
<1>3. CASE e.mode # "Menu" /\ e.spelling # <<>> /\ e.cands # <<>>
  <2>1. Found(e) # <<>>
    BY <1>3, SoundPage
  <2>2. CASE e.mode = "Main"
    <3>1. ~HasBufferedPunctuation(e)
      BY <2>1, <2>2, Zenon DEF Found
    <3>2. LookupKey(e) = e.spelling
      BY <3>1, SpellingIsList, BufferedIff DEF Sound
    <3> QED BY <1>3, <2>2, <3>1, <3>2 DEF AllCandidates, Found
  <2>3. CASE e.mode # "Main"
    BY <1>3, <2>3 DEF AllCandidates, Found
  <2> QED BY <2>2, <2>3
<1> QED BY <1>1, <1>2, <1>3

LEMMA ClickPerformed ==
  ASSUME ResourceAssumption, NEW e, EngineOk(e), NEW a, a.op = "SelectCandidate", a.id \in Nat,
         NEW step, step = SelectById(e, a.query, a.id)
  PROVE  Performed(e, a, step)
<1> DEFINE all == AllCandidates(e)
           f == EndTemporary(e)
<1>1. IsSeq(all) /\ (a.id + 1 \in DOMAIN all <=> e.mode # "Menu" /\ a.id < e.total)
  <2>1. CASE e.mode = "Menu"
    <3>1. all = <<>>
      BY <2>1, AllFound DEF EngineOk
    <3> QED BY <2>1, <3>1, EmptySequence
  <2>2. CASE e.mode # "Menu"
    <3>1. all = Found(e) /\ e.total = Len(all)
      BY <2>2, AllFound DEF EngineOk, Sound, PageIsFresh
    <3>2. IsSeq(all)
      BY <3>1, FoundIsList DEF EngineOk, Sound
    <3> HIDE DEF all
    <3> QED BY <2>2, <3>1, <3>2, DomainOf
  <2> QED BY <2>1, <2>2
<1>2. WouldHandle(e, a) <=> a.query = e.query /\ a.id + 1 \in DOMAIN all
  BY <1>1 DEF WouldHandle
<1>3. CASE a.query = e.query /\ a.id + 1 \in DOMAIN all
  <2>1. step = Commit(f, <<all[a.id + 1]>>)
    BY <1>3 DEF SelectById
  <2>2. Sound(f) /\ Binds(e, f) /\ ModeIsOverlay(f) /\ f.base = e.base /\ f.temporary = "None"
    BY EndSound DEF EngineOk
  <2>3. all[a.id + 1] \in {Found(e)[i] : i \in DOMAIN Found(e)}
    <3>1. all = Found(e)
      BY <1>1, <1>3, AllFound DEF EngineOk
    <3> QED BY <1>3, <3>1
  <2> DEFINE word == all[a.id + 1]
  <2> HIDE DEF f, word
  <2>4. step.kind = "Commit" /\ step.text = <<word>> /\ step.engine = f
        /\ step = Step(step.engine, step.kind, step.text, step.replace)
    BY <2>1, StepFields DEF word
  <2>5. Disposition(step) = "Handled"
    BY <2>4 DEF Disposition
  <2>6. Agrees(a, Disposition(step), WouldHandle(e, a))
    BY <1>2, <1>3, <2>5 DEF Agrees
  <2>7. KeepsTyped(e, step)
    BY <2>3, <2>4, OneInstruction DEF KeepsTyped, word
  <2>8. step.kind \in Kinds
    BY <2>4 DEF Kinds
  <2> QED BY <2>2, <2>4, <2>6, <2>7, <2>8 DEF Performed, KeepsText, EngineOk
<1>4. CASE ~(a.query = e.query /\ a.id + 1 \in DOMAIN all)
  <2>1. step = Rejected(e)
    BY <1>4 DEF SelectById
  <2>2. Disposition(step) = "Rejected"
    BY <2>1, StepFields DEF Disposition
  <2>3. Agrees(a, Disposition(step), WouldHandle(e, a))
    BY <1>2, <1>4, <2>2 DEF Agrees
  <2> QED BY <2>1, <2>3, StaysPerformed
<1> QED BY <1>3, <1>4

\* An operation the key test always promises to take.
LEMMA PromisedAgrees ==
  ASSUME NEW a, NEW step, NEW promised, promised, a.op # "SelectCandidate",
         step.kind # "Passthrough"
  PROVE  Agrees(a, Disposition(step), promised)
  BY DEF Agrees, Disposition

LEMMA RefusedAgrees ==
  ASSUME NEW a, NEW e, NEW promised, a.op # "SelectCandidate"
  PROVE  Agrees(a, Disposition(Rejected(e)), promised)
  BY StepFields DEF Agrees, Disposition

\* A cleared engine in any mode.
ResetIn(e, b, t, m) == [Reset(e) EXCEPT !.base = b, !.temporary = t, !.mode = m]

LEMMA ResetTo ==
  ASSUME ResourceAssumption, NEW e, Sound(e), NEW b, b \in {"Main", "English"},
         NEW t, t \in TemporaryModes \cup {"None"}, NEW m, m \in {"Main", "Pinyin", "English"},
         NEW f, f = ResetIn(e, b, t, m)
  PROVE  /\ Sound(f) /\ Binds(e, f) /\ f.profile = e.profile
         /\ f.base = b /\ f.temporary = t /\ f.mode = m /\ f.spelling = <<>>
<1>1. /\ DOMAIN f = EngineFields /\ f.spelling = <<>> /\ f.cands = <<>> /\ f.total = 0
      /\ f.page = 0 /\ f.state = "Idle" /\ f.temporary = t /\ f.mode = m
      /\ f.tables = e.tables /\ f.profile = e.profile /\ f.base = b /\ f.query = e.query
  BY DEF ResetIn, Reset, Sound, Shaped, EngineFields
<1>2. f.spelling \in Seq(Chars \cup {Apostrophe})
  BY <1>1
<1>3. Shaped(f)
  BY <1>1, <1>2 DEF Sound, Shaped, Modes
<1>4. Found(f) = <<>>
  BY <1>1, <1>3, FoundIsList
<1>5. Sound(f)
  BY <1>1, <1>3, <1>4, BareSound
<1>6. e.query[2] >= e.query[2]
  BY DEF Sound, Shaped
<1>7. Binds(e, f)
  BY <1>1, <1>6 DEF Binds
<1> QED BY <1>1, <1>5, <1>7

\* A base mode to change to, or a temporary one that leaves the base mode alone.
IsTarget(base, temporary) ==
  \/ base \in {"Main", "English"} /\ temporary = "None"
  \/ base = "" /\ temporary \in TemporaryModes

\* The base mode or a temporary mode is entered; what was typed in the base mode is committed.
LEMMA ChangePerformed ==
  ASSUME ResourceAssumption, NEW e, EngineOk(e), e.profile = "Touch", NEW a,
         a.op # "SelectCandidate", WouldHandle(e, a),
         NEW base, NEW temporary, IsTarget(base, temporary),
         NEW step, step = ChangeMode(e, base, temporary)
  PROVE  Performed(e, a, step)
<1> DEFINE newBase == IF base = "" THEN e.base ELSE base
           raw == IF TemporaryMode(e) = "None" /\ e.mode # "Menu" THEN e.spelling ELSE <<>>
           m == IF temporary # "None" THEN temporary
                ELSE IF newBase = "English" THEN "English" ELSE "Main"
           f == ResetIn(e, newBase, temporary, m)
<1>0. newBase \in {"Main", "English"} /\ temporary \in TemporaryModes \cup {"None"}
  <2>1. e.base \in {"Main", "English"}
    BY DEF EngineOk, Sound, Shaped
  <2> QED BY <2>1, Zenon DEF IsTarget
<1> HIDE DEF newBase
<1>1. m \in {"Main", "Pinyin", "English"} /\ m = IF temporary # "None" THEN temporary ELSE newBase
  BY <1>0 DEF TemporaryModes
<1> HIDE DEF m
<1> HIDE DEF f
<1> DEFINE unchanged == \/ base = e.base /\ e.temporary = "None"
                        \/ temporary # "None" /\ TemporaryMode(e) = temporary
           needs == IF temporary # "None" THEN {temporary}
                    ELSE IF base = "English" THEN {"English"} ELSE {}
           refused == \E mode \in needs : ~Available(e, mode)
<1>3. CASE unchanged
  <2>1. step = None(e)
    BY <1>3, Zenon DEF ChangeMode
  <2> HIDE DEF unchanged, refused, needs
  <2>2. step.kind # "Passthrough"
    BY <2>1, StepFields
  <2>3. Agrees(a, Disposition(step), WouldHandle(e, a))
    BY <2>2, PromisedAgrees
  <2> QED BY <2>1, <2>3, StaysPerformed
<1>4. CASE ~unchanged /\ refused
  <2>1. step = Rejected(e)
    BY <1>4, Zenon DEF ChangeMode
  <2>2. Agrees(a, Disposition(step), WouldHandle(e, a))
    BY <2>1, RefusedAgrees
  <2> QED BY <2>1, <2>2, StaysPerformed
<1>5. CASE ~unchanged /\ ~refused
  <2>1. step = IF raw = <<>> THEN Cleared(f) ELSE Commit(f, raw)
    BY <1>5, Zenon DEF ChangeMode, f, ResetIn, m, newBase
  <2> HIDE DEF raw, unchanged, refused
  <2>2. /\ Sound(f) /\ Binds(e, f) /\ f.base = newBase /\ f.temporary = temporary /\ f.mode = m
        /\ f.profile = e.profile
    BY <1>0, <1>1, ResetTo DEF EngineOk, f
  <2>3. ModeIsOverlay(f)
    BY <1>1, <2>2 DEF ModeIsOverlay
  <2>4. /\ step.kind \in {"Cleared", "Commit"} /\ step.engine = f
        /\ step = Step(step.engine, step.kind, step.text, step.replace)
        /\ raw # <<>> => step.kind = "Commit" /\ step.text = raw
    BY <2>1, StepFields
  <2>5. Agrees(a, Disposition(step), WouldHandle(e, a))
    BY <2>4, PromisedAgrees
  <2>6. ASSUME e.temporary = "None", e.mode \in {"Main", "English"}, e.spelling # <<>>
         PROVE  KeepsTyped(e, step)
    <3>1. raw = e.spelling
      BY <2>6 DEF raw, TemporaryMode
    <3> QED BY <2>4, <2>6, <3>1, RawKept DEF EngineOk
  <2>7. step.kind \in Kinds
    BY <2>4 DEF Kinds
  <2> QED BY <2>2, <2>3, <2>4, <2>5, <2>6, <2>7 DEF Performed, KeepsText
<1> QED BY <1>3, <1>4, <1>5

\* What may be sent to an engine: a click, a literal text (the session sends one for a chosen
\* prediction), or an action of the shell's own protocol.
Sends(e, a) ==
  /\ IsAction(a)
  /\ a.op \in {"SelectCandidate", "InsertLiteral"} \/ (a.op = "Legacy" <=> e.profile = "Legacy")

\* The operations that return before the engine falls back.
EarlyOps ==
  {"SetBaseMode", "BeginTemporary", "ChooseMode", "Legacy", "EndTemporary", "CloseModeChooser"}

LEMMA NotEarly ==
  ASSUME NEW e, NEW a, a.op \notin EarlyOps, NEW step, step.kind # "Rejected"
  PROVE  ~ReturnsEarly(e, a, step)
  BY DEF EarlyOps, ReturnsEarly

\* A round ends on request.
LEMMA EndPerformed ==
  ASSUME ResourceAssumption, NEW e, EngineOk(e), NEW a,
         a.op \in {"EndTemporary", "CloseModeChooser"}, e.profile = "Touch",
         NEW step, step \in {None(e), Cleared(EndTemporary(e))}
  PROVE  Performed(e, a, step)
<1> DEFINE f == EndTemporary(e)
<1>1. WouldHandle(e, a)
  BY DEF WouldHandle
<1>2. step.kind \in {"None", "Cleared"}
  BY StepFields
<1>3. Agrees(a, Disposition(step), WouldHandle(e, a))
  BY <1>1, <1>2, PromisedAgrees
<1>4. CASE step = None(e)
  BY <1>3, <1>4, StaysPerformed
<1>5. CASE step = Cleared(f)
  <2>1. Sound(f) /\ Binds(e, f) /\ ModeIsOverlay(f)
    BY EndSound DEF EngineOk
  <2> HIDE DEF f
  <2>2. step.engine = f /\ step = Step(step.engine, step.kind, step.text, step.replace)
    BY <1>5, StepFields
  <2>3. Drops(a) /\ step.kind \in Kinds
    BY <1>2 DEF Drops, Kinds
  <2> QED BY <1>3, <2>1, <2>2, <2>3 DEF Performed
<1> QED BY <1>4, <1>5

\* The chooser opens where nothing is typed.
LEMMA ChooserPerformed ==
  ASSUME ResourceAssumption, NEW e, EngineOk(e), NEW a, a.op = "OpenModeChooser",
         NEW step,
         step = IF e.spelling = <<>> THEN RefreshTemporary([e EXCEPT !.mode = "Menu"])
                ELSE Rejected(e)
  PROVE  Performed(e, a, step)
<1>1. CASE e.spelling = <<>>
  <2>1. SoundStep(e, step) /\ step.kind = "Update" /\ step.engine.mode = "Menu"
    BY <1>1, MenuSound DEF EngineOk
  <2>2. Follows(e, step)
    BY <2>1 DEF Follows, SoundStep
  <2>3. WouldHandle(e, a)
    BY DEF WouldHandle
  <2>4. Agrees(a, Disposition(step), WouldHandle(e, a))
    BY <2>1, <2>3, PromisedAgrees
  <2>5. ~ReturnsEarly(e, a, step)
    BY <2>1, NotEarly DEF EarlyOps
  <2> QED BY <1>1, <2>1, <2>2, <2>4, <2>5, FollowsPerformed
<1>2. CASE e.spelling # <<>>
  <2>1. Agrees(a, Disposition(Rejected(e)), WouldHandle(e, a))
    BY RefusedAgrees
  <2> QED BY <1>2, <2>1, StaysPerformed
<1> QED BY <1>1, <1>2

\* A literal follows what was typed.
LEMMA LiteralPerformed ==
  ASSUME ResourceAssumption, NEW e, EngineOk(e), NEW a,
         a.op \notin EarlyOps \cup {"SelectCandidate"}, NEW text, IsSeq(text),
         text # <<>> => WouldHandle(e, a),
         text = <<>> => a.op = "InsertLiteral" /\ a.text = <<>>,
         NEW step, step = InsertLiteral(e, text)
  PROVE  Performed(e, a, step)
<1>1. CASE text = <<>>
  <2>1. step = None(e)
    BY <1>1 DEF InsertLiteral
  <2>2. ~WouldHandle(e, a)
    BY <1>1 DEF WouldHandle
  <2>3. Disposition(step) = "Handled"
    BY <2>1, StepFields DEF Disposition
  <2>4. Agrees(a, Disposition(step), WouldHandle(e, a))
    BY <1>1, <2>2, <2>3 DEF Agrees
  <2> QED BY <2>1, <2>4, StaysPerformed
<1>2. CASE text # <<>>
  <2> DEFINE first == IF e.spelling = <<>> THEN <<>>
                      ELSE IF e.mode = "Main" THEN PreferredText(e) ELSE e.spelling
           whole == first \o text
  <2>1. step = Commit(Reset(e), whole)
    BY <1>2 DEF InsertLiteral
  <2>2. e.spelling # <<>> => first \in {e.spelling, PreferredText(e)}
    OBVIOUS
  <2> HIDE DEF first, whole
  <2>3. step.kind = "Commit" /\ step.text = whole
    BY <2>1, StepFields
  <2>4. e.spelling # <<>> => KeepsTyped(e, step)
    BY <2>2, <2>3, PreferredKept DEF EngineOk, whole
  <2>5. ~ReturnsEarly(e, a, step)
    BY <2>3, NotEarly
  <2> QED BY <1>2, <2>1, <2>4, <2>5, ResetPerformed
<1> QED BY <1>1, <1>2

\* What was typed is committed as it stands, or as its first candidate.
LEMMA CommitPerformed ==
  ASSUME ResourceAssumption, NEW e, EngineOk(e), NEW a,
         a.op \in {"CommitPreferred", "CommitRaw"},
         NEW text, text \in {e.spelling, PreferredText(e)},
         NEW step, e.spelling = <<>> => step = None(e),
         e.spelling # <<>> => step = Commit(Reset(e), text)
  PROVE  Performed(e, a, step)
<1>1. WouldHandle(e, a) /\ a.op \notin EarlyOps \cup {"SelectCandidate"}
  BY DEF WouldHandle, EarlyOps
<1>2. CASE e.spelling = <<>>
  <2>1. step = None(e)
    BY <1>2
  <2>2. Agrees(a, Disposition(step), WouldHandle(e, a))
    BY <1>1, <2>1, StepFields, PromisedAgrees
  <2> QED BY <2>1, <2>2, StaysPerformed
<1>3. CASE e.spelling # <<>>
  <2>1. step = Commit(Reset(e), text)
    BY <1>3
  <2>2. step.kind = "Commit" /\ step.text = text
    BY <2>1, StepFields
  <2>3. KeepsTyped(e, step)
    BY <1>3, <2>2, PreferredKept DEF EngineOk
  <2>4. ~ReturnsEarly(e, a, step)
    BY <1>1, <2>2, NotEarly
  <2> QED BY <1>1, <2>1, <2>3, <2>4, ResetPerformed
<1> QED BY <1>2, <1>3

\* A character typed in temporary input.
LEMMA TypedPerformed ==
  ASSUME ResourceAssumption, NEW e, EngineOk(e), e.mode # "Main",
         NEW a, a.op \in {"InputCode", "InputText"}, WouldHandle(e, a),
         NEW ev, ev.key = "Char", e.mode # "Menu" \/ ev.c \notin Digits,
         NEW step, TemporaryStep(e, ev, step)
  PROVE  Performed(e, a, step)
<1>1. /\ SoundStep(e, step) /\ step.kind \in {"None", "Update", "Cleared", "Commit"}
      /\ e.spelling # <<>> => KeepsTyped(e, step)
      /\ step.engine.mode = "Main" => step.engine.spelling = <<>>
      /\ step.engine.mode \in {"Main", e.mode}
  BY DEF TemporaryStep
<1>2. Follows(e, step)
  BY <1>1 DEF Follows, SoundStep
<1>3. Agrees(a, Disposition(step), WouldHandle(e, a))
  BY <1>1, PromisedAgrees
<1>4. ~ReturnsEarly(e, a, step)
  BY <1>1, NotEarly DEF EarlyOps
<1> QED BY <1>1, <1>2, <1>3, <1>4, FollowsPerformed DEF KeepsText

\* A character of the code: looked up, or refused where it is none.
LEMMA CodePerformed ==
  ASSUME ResourceAssumption, CharAssumption, NEW e, EngineOk(e), e.profile = "Touch",
         NEW a, a.op = "InputCode", a.c \in Chars, NEW step, step = InputCode(e, a.c)
  PROVE  Performed(e, a, step)
<1>0. /\ Sound(e) /\ e.mode \in Modes /\ a.op \notin EarlyOps
      /\ WouldHandle(e, a) <=>
           \/ e.mode = "Main" /\ AcceptsCodeChar(e, a.c)
           \/ e.mode = "Pinyin" /\ (a.c \in Lower \/ a.c = Apostrophe)
           \/ e.mode = "English"
  <2>1. Sound(e) /\ e.mode \in Modes /\ a.op \notin EarlyOps
    BY DEF EngineOk, Sound, Shaped, EarlyOps
  <2> QED BY <2>1, Zenon DEF WouldHandle
<1>1. CASE step = Rejected(e)
  <2>1. Agrees(a, Disposition(step), WouldHandle(e, a))
    BY <1>1, RefusedAgrees
  <2> QED BY <1>1, <2>1, StaysPerformed
<1>2. CASE e.mode = "Main" /\ step = OnCodeChar(e, a.c) /\ AcceptsCodeChar(e, a.c)
  <2>1. /\ SoundStep(e, step) /\ step.kind \in {"Commit", "Update", "CommitThenUpdate"}
        /\ KeepsTyped(e, step) \/ CompletesCode(e, a.c, step)
        /\ step.engine.mode = "Main"
    BY <1>0, <1>2, CodeCharSound
  <2>2. Agrees(a, Disposition(step), WouldHandle(e, a))
    BY <1>0, <1>2, <2>1, PromisedAgrees
  <2>3. Follows(e, step)
    BY <1>2, <2>1 DEF Follows, SoundStep
  <2>4. KeepsText(e, a, step)
    BY <2>1 DEF KeepsText
  <2> QED BY <1>2, <2>1, <2>2, <2>3, <2>4, FollowsPerformed
<1>3. CASE /\ e.mode = "Pinyin" /\ (a.c \in Lower \/ a.c = Apostrophe)
           /\ step = HandleTemporary(e, CharEvent("Char", a.c))
  <2> DEFINE ev == CharEvent("Char", a.c)
  <2>1. IsEvent(ev) /\ ev.key = "Char" /\ ev.c = a.c
    BY DEF IsEvent, CharEvent, Keystrokes
  <2> HIDE DEF ev
  <2>2. TemporaryStep(e, ev, step)
    BY <1>0, <1>3, <2>1, TemporarySound DEF ev
  <2> QED BY <1>0, <1>3, <2>1, <2>2, TypedPerformed
<1>4. CASE e.mode = "English"
           /\ step = RefreshTemporary([e EXCEPT !.spelling = Append(@, a.c), !.page = 0])
  <2> DEFINE ev == CharEvent("Char", a.c)
             longer == Append(e.spelling, a.c)
  <2>1. ev.key = "Char" /\ ev.c = a.c
    BY DEF CharEvent
  <2>2. longer \in Seq(Chars \cup {Apostrophe}) /\ IsStart(e.spelling, longer)
    BY <1>0, SpellingIsList, StartOf DEF Sound, Shaped
  <2> HIDE DEF ev, longer
  <2>3. step = RefreshTemporary([e EXCEPT !.spelling = longer, !.page = 0])
    BY <1>4 DEF longer
  <2>4. TemporaryStep(e, ev, RefreshTemporary([e EXCEPT !.spelling = longer, !.page = 0]))
    BY <1>0, <1>4, <2>2, RespelledSound DEF TemporaryModes
  <2> QED BY <1>0, <1>4, <2>1, <2>3, <2>4, TypedPerformed
<1>5. \/ step = Rejected(e)
      \/ e.mode = "Main" /\ step = OnCodeChar(e, a.c) /\ AcceptsCodeChar(e, a.c)
      \/ /\ e.mode = "Pinyin" /\ (a.c \in Lower \/ a.c = Apostrophe)
         /\ step = HandleTemporary(e, CharEvent("Char", a.c))
      \/ e.mode = "English"
         /\ step = RefreshTemporary([e EXCEPT !.spelling = Append(@, a.c), !.page = 0])
  BY <1>0, Zenon DEF InputCode, Modes
<1> QED BY <1>1, <1>2, <1>3, <1>4, <1>5

\* A character of the text: code where it is code, a literal elsewhere.
LEMMA TextPerformed ==
  ASSUME ResourceAssumption, CharAssumption, NEW e, EngineOk(e), e.profile = "Touch",
         NEW a, a.op = "InputText", a.c \in Chars, NEW step, step = InputText(e, a.c)
  PROVE  Performed(e, a, step)
<1>0. /\ Sound(e) /\ e.mode \in Modes /\ a.op \notin EarlyOps \cup {"SelectCandidate"}
      /\ WouldHandle(e, a)
  BY DEF EngineOk, Sound, Shaped, EarlyOps, WouldHandle
<1> DEFINE literal == \/ e.mode = "Main" /\ a.c \notin Alphabetic \cup T(e).charset
                      \/ /\ e.mode # "Main" /\ PersistentEnglish(e)
                         /\ a.c \notin Alphabetic \cup NonAscii
                      \/ e.mode # "Main" /\ a.c \in Digits
                      \/ e.mode = "Pinyin" /\ a.c \notin Lower \cup {Apostrophe}
<1>1. CASE literal
  <2>1. step = InsertLiteral(e, <<a.c>>)
    BY <1>1, Zenon DEF InputText
  <2>2. IsSeq(<<a.c>>) /\ <<a.c>> # <<>>
    BY OneInstruction
  <2> QED BY <1>0, <2>1, <2>2, LiteralPerformed
<1>2. CASE ~literal /\ e.mode = "Main"
  <2>1. step = OnCodeChar(e, a.c)
    BY <1>2, Zenon DEF InputText
  <2>2. AcceptsCodeChar(e, a.c)
    BY <1>2 DEF CharAssumption, Alphabetic, AcceptsCodeChar
  <2> HIDE DEF literal
  <2>3. /\ SoundStep(e, step) /\ step.kind \in {"Commit", "Update", "CommitThenUpdate"}
        /\ KeepsTyped(e, step) \/ CompletesCode(e, a.c, step)
        /\ step.engine.mode = "Main"
    BY <1>0, <1>2, <2>1, <2>2, CodeCharSound
  <2>4. Agrees(a, Disposition(step), WouldHandle(e, a))
    BY <1>0, <2>3, PromisedAgrees
  <2>5. Follows(e, step)
    BY <1>2, <2>3 DEF Follows, SoundStep
  <2>6. KeepsText(e, a, step)
    BY <2>3 DEF KeepsText
  <2> QED BY <1>2, <2>3, <2>4, <2>5, <2>6, FollowsPerformed
<1>3. CASE ~literal /\ e.mode # "Main"
  <2> DEFINE ev == CharEvent("Char", a.c)
  <2>1. step = HandleTemporary(e, ev)
    BY <1>3, Zenon DEF InputText
  <2>2. a.c \notin Digits
    BY <1>3
  <2>3. IsEvent(ev) /\ ev.key = "Char" /\ ev.c = a.c
    BY DEF IsEvent, CharEvent, Keystrokes
  <2> HIDE DEF ev, literal
  <2>4. TemporaryStep(e, ev, step)
    BY <1>0, <1>3, <2>1, <2>3, TemporarySound
  <2> QED BY <1>0, <1>3, <2>2, <2>3, <2>4, TypedPerformed
<1> QED BY <1>1, <1>2, <1>3

\* The keys a semantic action stands for.
LEMMA KeyPerformed ==
  ASSUME ResourceAssumption, CharAssumption, NEW e, EngineOk(e),
         NEW a, NEW ev, IsEvent(ev), NEW step, step = Handle(e, ev),
         \/ a.op = "Legacy" /\ e.profile = "Legacy" /\ a.ev = ev
         \/ /\ a.op \notin EarlyOps \cup {"SelectCandidate"}
            /\ ev.key \notin {"Char", "Symbol", "Select"}
            /\ ev.key \in {"Esc", "Backspace"} => Drops(a),
         WouldHandle(e, a) <=> WouldConsume(e, ev)
  PROVE  Performed(e, a, step)
<1>1. HandledKey(e, ev, step)
  BY HandleSound DEF EngineOk
<1>2. Agrees(a, Disposition(step), WouldHandle(e, a))
  BY <1>1 DEF HandledKey, Agrees, Disposition, EarlyOps
<1>3. SoundStep(e, step) /\ step.kind # "Rejected"
      /\ (ev.key \notin {"Char", "Symbol", "Select"} => step.engine.mode \in {"Main", e.mode})
      /\ (e.mode # "Main" /\ step.engine.mode = "Main" => step.engine.spelling = <<>>)
  BY <1>1 DEF HandledKey
<1>4. CASE a.op = "Legacy" /\ e.profile = "Legacy" /\ a.ev = ev
  <2>1. step.engine.base = "Main" /\ step.engine.temporary = "None"
    BY <1>3, <1>4 DEF EngineOk, SoundStep, SameBase
  <2>2. Binds(e, step.engine)
    BY <1>3, SameBinds DEF SoundStep, EngineOk
  <2>3. e.spelling # <<>> => (~Drops(a) => KeepsText(e, a, step))
    BY <1>1, <1>4 DEF HandledKey, Drops, KeepsText
  <2> QED BY <1>2, <1>3, <1>4, <2>1, <2>2, <2>3 DEF Performed, SoundStep
<1>5. CASE /\ a.op \notin EarlyOps \cup {"SelectCandidate"}
           /\ ev.key \notin {"Char", "Symbol", "Select"}
           /\ ev.key \in {"Esc", "Backspace"} => Drops(a)
  <2>1. ~ReturnsEarly(e, a, step)
    BY <1>3, <1>5, NotEarly
  <2>2. Follows(e, step)
    BY <1>3, <1>5 DEF Follows, SoundStep
  <2>3. e.spelling # <<>> /\ ~Drops(a) => KeepsText(e, a, step)
    BY <1>1, <1>5 DEF HandledKey, KeepsText
  <2> QED BY <1>2, <1>3, <2>1, <2>2, <2>3, FollowsPerformed
<1> QED BY <1>4, <1>5

LEMMA EventSound ==
  ASSUME NEW key, key \in Keystrokes \ {"Char", "Symbol"}
  PROVE  IsEvent(Event(key)) /\ Event(key).key = key
  BY DEF IsEvent, Event

\* Keys of the touch protocol that the machine handles, in the persistent English mode apart.
LEMMA RestPerformed ==
  ASSUME ResourceAssumption, CharAssumption, NEW e, EngineOk(e), e.profile = "Touch",
         NEW a, a.op \in {"Space", "Enter", "Backspace", "Cancel", "MovePage"},
         PersistentEnglish(e) =>
           a.op # "Space" /\ (a.op \in {"Enter", "Backspace"} => e.spelling # <<>>),
         NEW step, step = Handle(e, AsEvent(a))
  PROVE  Performed(e, a, step)
<1> DEFINE ev == AsEvent(a)
<1>1. \E key \in {"Space", "Enter", "Backspace", "Esc", "PageNext", "PagePrev"} :
        /\ ev = Event(key)
        /\ key \in {"Esc", "Backspace"} => a.op \in {"Cancel", "Backspace"}
        /\ a.op = "Cancel" => key = "Esc"
        /\ a.op = "MovePage" => key \in {"PageNext", "PagePrev"}
        /\ a.op \in {"Space", "Enter", "Backspace"} => key = a.op
  <2>1. CASE a.op \in {"Space", "Enter", "Backspace"}
    <3>1. ev = Event(a.op)
      BY <2>1 DEF AsEvent
    <3> QED BY <2>1, <3>1
  <2>2. CASE a.op = "Cancel"
    <3>1. ev = Event("Esc")
      BY <2>2 DEF AsEvent
    <3> QED BY <2>2, <3>1
  <2>3. CASE a.op = "MovePage"
    <3>1. ev = Event("PageNext") \/ ev = Event("PagePrev")
      BY <2>3 DEF AsEvent
    <3> QED BY <2>3, <3>1
  <2> QED BY <2>1, <2>2, <2>3
<1> HIDE DEF ev
<1>2. PICK key \in {"Space", "Enter", "Backspace", "Esc", "PageNext", "PagePrev"} :
        /\ ev = Event(key)
        /\ key \in {"Esc", "Backspace"} => a.op \in {"Cancel", "Backspace"}
        /\ a.op = "Cancel" => key = "Esc"
        /\ a.op = "MovePage" => key \in {"PageNext", "PagePrev"}
        /\ a.op \in {"Space", "Enter", "Backspace"} => key = a.op
  BY <1>1
<1>3. IsEvent(ev) /\ ev.key = key /\ ev.key \notin {"Char", "Symbol", "Select"}
  BY <1>2, EventSound DEF Keystrokes
<1>4. a.op \notin EarlyOps \cup {"SelectCandidate"}
  BY DEF EarlyOps
<1>5. ev.key \in {"Esc", "Backspace"} => Drops(a)
  BY <1>2, <1>3 DEF Drops
<1>6. WouldHandle(e, a) <=> WouldConsume(e, ev)
  <2>1. CASE a.op = "Space"
    BY <1>2, <2>1 DEF WouldHandle
  <2>2. CASE a.op = "Cancel"
    BY <1>2, <2>2 DEF WouldHandle
  <2>3. CASE a.op = "MovePage"
    <3>1. WouldHandle(e, a)
      BY <2>3 DEF WouldHandle
    <3>2. ev.key \in {"PageNext", "PagePrev"}
      BY <1>2, <1>3, <2>3
    <3>3. WouldConsume(e, ev)
      BY <3>2 DEF WouldConsume
    <3> QED BY <3>1, <3>3
  <2>4. CASE a.op \in {"Enter", "Backspace"} /\ ~PersistentEnglish(e)
    BY <1>2, <2>4 DEF WouldHandle
  <2>5. CASE a.op \in {"Enter", "Backspace"} /\ PersistentEnglish(e)
    <3>1. WouldHandle(e, a)
      BY <2>5 DEF WouldHandle
    <3>2. e.mode # "Main"
      BY <2>5 DEF EngineOk, ModeIsOverlay, PersistentEnglish
    <3>3. WouldConsume(e, ev)
      BY <3>2, Zenon DEF WouldConsume
    <3> QED BY <3>1, <3>3
  <2> QED BY <2>1, <2>2, <2>3, <2>4, <2>5
<1>7. step = Handle(e, ev)
  BY DEF ev
<1> QED BY <1>3, <1>4, <1>5, <1>6, <1>7, KeyPerformed

\* Space after a word of the persistent English mode.
LEMMA BlankPerformed ==
  ASSUME ResourceAssumption, NEW e, EngineOk(e), e.profile = "Touch", PersistentEnglish(e),
         NEW a, a.op = "Space", NEW blank,
         NEW first, e.spelling # <<>> => first = PreferredText(e),
         NEW step, step = Commit(Reset(e), first \o <<blank>>)
  PROVE  Performed(e, a, step)
<1>1. e.mode # "Main"
  BY DEF EngineOk, ModeIsOverlay, PersistentEnglish
<1>2. step.kind = "Commit" /\ step.text = first \o <<blank>>
  BY Zenon DEF Commit, Step
<1>3. ASSUME e.spelling # <<>> PROVE KeepsTyped(e, step)
  <2>1. first = PreferredText(e)
    BY <1>3
  <2>2. IsSeq(<<blank>>) /\ step.text = first \o <<blank>>
    BY <1>2, OneInstruction
  <2> QED BY <1>2, <1>3, <2>1, <2>2, PreferredKept DEF EngineOk
<1>4. WouldHandle(e, a)
  <2>1. WouldConsume(e, Event("Space"))
    BY <1>1, Zenon DEF WouldConsume
  <2> QED BY <2>1 DEF WouldHandle
<1>5. ~ReturnsEarly(e, a, step)
  BY <1>2, NotEarly DEF EarlyOps
<1> QED BY <1>3, <1>4, <1>5, ResetPerformed

\* The keys that find nothing typed in the persistent English mode.
LEMMA IdlePerformed ==
  ASSUME ResourceAssumption, NEW e, EngineOk(e), PersistentEnglish(e), NEW a,
         a.op \in {"Enter", "Backspace"}, e.spelling = <<>>, NEW step, step = Passthrough(e)
  PROVE  Performed(e, a, step)
<1>1. ~WouldHandle(e, a)
  BY DEF WouldHandle
<1>2. Agrees(a, Disposition(step), WouldHandle(e, a))
  BY <1>1, StepFields DEF Agrees, Disposition
<1> QED BY <1>2, StaysPerformed

\* Every operation, whatever the engine it meets.
LEMMA PerformSound ==
  ASSUME ResourceAssumption, CharAssumption, NEW e, EngineOk(e), NEW a, Sends(e, a),
         NEW step, step = Perform(e, a)
  PROVE  Performed(e, a, step)
<1>0. IsAction(a) /\ a.op \in Operations /\ e.profile \in {"Touch", "Legacy"}
  BY DEF Sends, IsAction, EngineOk, Sound, Shaped
<1>1. CASE a.op = "SelectCandidate"
  <2>1. step = SelectById(e, a.query, a.id)
    BY <1>1, Zenon DEF Perform
  <2> QED BY <1>0, <1>1, <2>1, ClickPerformed DEF IsAction
<1>2. CASE a.op = "Legacy"
  <2>1. e.profile = "Legacy" /\ IsEvent(a.ev)
    BY <1>0, <1>2 DEF Sends, IsAction, IsEvent
  <2>2. step = Handle(e, a.ev)
    BY <1>2, Zenon DEF Perform, AsEvent
  <2>3. WouldHandle(e, a) <=> WouldConsume(e, a.ev)
    BY <1>2 DEF WouldHandle
  <2> QED BY <1>2, <2>1, <2>2, <2>3, KeyPerformed
<1>3. CASE a.op = "InsertLiteral"
  <2>1. step = InsertLiteral(e, a.text)
    BY <1>3, Zenon DEF Perform
  <2>2. IsSeq(a.text)
    BY <1>0, <1>3 DEF IsAction, IsSeq
  <2>3. a.text # <<>> => WouldHandle(e, a)
    BY <1>3 DEF WouldHandle
  <2>4. a.op \notin EarlyOps \cup {"SelectCandidate"}
    BY <1>3 DEF EarlyOps
  <2> QED BY <1>3, <2>1, <2>2, <2>3, <2>4, LiteralPerformed
<1>4. CASE a.op \notin {"SelectCandidate", "Legacy", "InsertLiteral"}
  <2>0. e.profile = "Touch"
    BY <1>0, <1>4 DEF Sends
  <2>1. CASE a.op = "SetBaseMode"
    <3>1. step = ChangeMode(e, a.mode, "None")
      BY <2>1, Zenon DEF Perform
    <3>2. a.mode \in {"Main", "English"} /\ WouldHandle(e, a)
      BY <1>0, <2>1 DEF IsAction, WouldHandle
    <3> QED BY <1>4, <2>0, <3>1, <3>2, ChangePerformed, Zenon DEF IsTarget
  <2>2. CASE a.op \in {"BeginTemporary", "ChooseMode"}
    <3>1. step = ChangeMode(e, "", a.mode)
      BY <2>2, Zenon DEF Perform
    <3>2. a.mode \in TemporaryModes /\ WouldHandle(e, a)
      BY <1>0, <2>2 DEF IsAction, WouldHandle
    <3> QED BY <1>4, <2>0, <3>1, <3>2, ChangePerformed, Zenon DEF IsTarget
  <2>3. CASE a.op \in {"EndTemporary", "CloseModeChooser"}
    <3>1. step \in {None(e), Cleared(EndTemporary(e))}
      BY <2>3, Zenon DEF Perform
    <3> QED BY <2>0, <2>3, <3>1, EndPerformed
  <2>4. CASE a.op = "OpenModeChooser"
    <3>1. step = IF e.spelling = <<>> THEN RefreshTemporary([e EXCEPT !.mode = "Menu"])
                 ELSE Rejected(e)
      BY <2>4, Zenon DEF Perform
    <3> QED BY <2>4, <3>1, ChooserPerformed
  <2>5. CASE a.op = "InputCode"
    <3>1. step = InputCode(e, a.c) /\ a.c \in Chars
      BY <1>0, <2>5, Zenon DEF Perform, IsAction
    <3> QED BY <2>0, <2>5, <3>1, CodePerformed
  <2>6. CASE a.op = "InputText"
    <3>1. step = InputText(e, a.c) /\ a.c \in Chars
      BY <1>0, <2>6, Zenon DEF Perform, IsAction
    <3> QED BY <2>0, <2>6, <3>1, TextPerformed
  <2>7. CASE a.op = "InputSymbol"
    <3>1. step = InsertLiteral(e, <<a.c>>)
      BY <2>7, Zenon DEF Perform
    <3>2. IsSeq(<<a.c>>) /\ <<a.c>> # <<>>
      BY OneInstruction
    <3>3. WouldHandle(e, a) /\ a.op \notin EarlyOps \cup {"SelectCandidate"}
      BY <2>7 DEF WouldHandle, EarlyOps
    <3> QED BY <3>1, <3>2, <3>3, LiteralPerformed
  <2>8. CASE a.op = "CommitPreferred"
    <3>1. step = IF e.spelling = <<>> THEN None(e) ELSE Commit(Reset(e), PreferredText(e))
      BY <2>8, Zenon DEF Perform
    <3> DEFINE text == PreferredText(e)
    <3>2. text \in {e.spelling, PreferredText(e)}
      OBVIOUS
    <3>3. a.op \in {"CommitPreferred", "CommitRaw"}
      BY <2>8
    <3>4. e.spelling = <<>> => step = None(e)
      BY <3>1
    <3>5. e.spelling # <<>> => step = Commit(Reset(e), text)
      BY <3>1
    <3> HIDE DEF text
    <3> QED BY <3>2, <3>3, <3>4, <3>5, CommitPerformed
  <2>9. CASE a.op = "CommitRaw"
    <3>1. step = IF e.spelling = <<>> THEN None(e) ELSE Commit(Reset(e), e.spelling)
      BY <2>9, Zenon DEF Perform
    <3> DEFINE text == e.spelling
    <3>2. text \in {e.spelling, PreferredText(e)}
      OBVIOUS
    <3>3. a.op \in {"CommitPreferred", "CommitRaw"}
      BY <2>9
    <3>4. e.spelling = <<>> => step = None(e)
      BY <3>1
    <3>5. e.spelling # <<>> => step = Commit(Reset(e), text)
      BY <3>1
    <3> HIDE DEF text
    <3> QED BY <3>2, <3>3, <3>4, <3>5, CommitPerformed
  <2>10. CASE PersistentEnglish(e) /\ a.op = "Space"
    <3> DEFINE first == IF e.spelling = <<>> THEN <<>> ELSE PreferredText(e)
    <3>1. step = Commit(Reset(e), first \o <<" ">>)
      BY <2>10, Zenon DEF Perform
    <3>2. PICK blank : step = Commit(Reset(e), first \o <<blank>>)
      BY <3>1, Zenon
    <3>3. e.spelling # <<>> => first = PreferredText(e)
      OBVIOUS
    <3> HIDE DEF first
    <3>4. PersistentEnglish(e) /\ a.op = "Space"
      BY <2>10
    <3> QED BY <2>0, <3>2, <3>3, <3>4, BlankPerformed, Zenon
  <2>11. CASE PersistentEnglish(e) /\ a.op \in {"Enter", "Backspace"} /\ e.spelling = <<>>
    <3>1. step = Passthrough(e)
      BY <2>11, Zenon DEF Perform
    <3> QED BY <2>11, <3>1, IdlePerformed
  <2>12. CASE /\ a.op \in {"Space", "Enter", "Backspace", "Cancel", "MovePage"}
              /\ PersistentEnglish(e) => a.op # "Space"
                   /\ (a.op \in {"Enter", "Backspace"} => e.spelling # <<>>)
    <3>1. step = Handle(e, AsEvent(a))
      BY <2>12, Zenon DEF Perform
    <3> QED BY <2>0, <2>12, <3>1, RestPerformed
  <2> QED BY <1>0, <1>4, <2>1, <2>2, <2>3, <2>4, <2>5, <2>6, <2>7, <2>8, <2>9, <2>10,
             <2>11, <2>12 DEF Operations
<1> QED BY <1>1, <1>2, <1>3, <1>4

-----------------------------------------------------------------------------
(* A whole dispatch: the operation, the fall back to the base mode, the new revision. *)

\* Two engines that differ in the query at most.
LEMMA RequeriedSound ==
  ASSUME NEW f, Sound(f), NEW g, DOMAIN g = EngineFields, g.query \in Nat \X Nat,
         \A field \in EngineFields \ {"query"} : g[field] = f[field]
  PROVE  /\ Sound(g) /\ (ModeIsOverlay(f) => ModeIsOverlay(g))
         /\ g.tables = f.tables /\ g.profile = f.profile /\ g.base = f.base
         /\ g.temporary = f.temporary /\ g.mode = f.mode /\ g.spelling = f.spelling
<1>1. /\ g.tables = f.tables /\ g.profile = f.profile /\ g.base = f.base
      /\ g.temporary = f.temporary /\ g.mode = f.mode /\ g.spelling = f.spelling
      /\ g.page = f.page /\ g.cands = f.cands /\ g.total = f.total /\ g.state = f.state
  BY DEF EngineFields
<1>2. Shaped(g)
  BY <1>1 DEF Sound, Shaped
<1>3. Found(g) = Found(f) /\ T(g) = T(f)
  BY <1>1, FoundDepends
<1>4. Page(g, Found(g)) = Page(f, Found(f)) /\ TotalPages(g) = TotalPages(f)
  BY <1>1, <1>3 DEF Page, TotalPages
<1>5. PageIsFresh(g)
  BY <1>1, <1>3, <1>4 DEF Sound, PageIsFresh
<1>6. ModeIsOverlay(f) => ModeIsOverlay(g)
  BY <1>1 DEF ModeIsOverlay
<1>7. Sound(g)
  BY <1>1, <1>2, <1>5 DEF Sound
<1> QED BY <1>1, <1>6, <1>7

LEMMA InvalidateSound ==
  ASSUME NEW f, Sound(f), NEW g, g = InvalidateQuery(f)
  PROVE  /\ Sound(g) /\ (ModeIsOverlay(f) => ModeIsOverlay(g))
         /\ Binds(f, g) /\ g.query[2] = f.query[2] + 1 /\ g.base = f.base
         /\ g.temporary = f.temporary /\ g.mode = f.mode /\ g.spelling = f.spelling
<1>1. DOMAIN f = EngineFields /\ f.query[1] \in Nat /\ f.query[2] \in Nat
  BY DEF Sound, Shaped
<1>2. /\ DOMAIN g = EngineFields /\ g.query = <<f.query[1], f.query[2] + 1>>
      /\ \A field \in EngineFields \ {"query"} : g[field] = f[field]
  BY <1>1 DEF InvalidateQuery, EngineFields
<1>3. /\ g.query \in Nat \X Nat /\ g.query[1] = f.query[1] /\ g.query[2] = f.query[2] + 1
      /\ g.query[2] >= f.query[2]
  BY <1>1, <1>2
<1>4. /\ Sound(g) /\ (ModeIsOverlay(f) => ModeIsOverlay(g))
      /\ g.tables = f.tables /\ g.profile = f.profile /\ g.base = f.base
      /\ g.temporary = f.temporary /\ g.mode = f.mode /\ g.spelling = f.spelling
  BY <1>2, <1>3, RequeriedSound
<1> QED BY <1>3, <1>4 DEF Binds

LEMMA FallBackSound ==
  ASSUME ResourceAssumption, NEW f, Sound(f), f.profile = "Touch",
         ModeIsOverlay(f) \/ (f.mode = "Main" /\ f.spelling = <<>>),
         NEW g, g = FallBack(f)
  PROVE  /\ Sound(g) /\ ModeIsOverlay(g) /\ g.tables = f.tables /\ g.profile = f.profile
         /\ g.query = f.query /\ g.spelling = f.spelling
<1>1. CASE f.mode # "Main"
  <2>1. g = f
    BY <1>1 DEF FallBack
  <2> QED BY <1>1, <2>1
<1>2. CASE f.mode = "Main"
  <2> DEFINE m == IF f.base = "English" THEN "English" ELSE "Main"
  <2>0. DOMAIN f = EngineFields /\ f.base \in {"Main", "English"}
    BY DEF Sound, Shaped
  <2>1. /\ DOMAIN g = EngineFields /\ g.temporary = "None" /\ g.mode = m
        /\ \A field \in EngineFields \ {"temporary", "mode"} : g[field] = f[field]
    BY <1>2, <2>0 DEF FallBack, EngineFields
  <2>2. CASE f.spelling = <<>>
    <3>1. Found(f) = <<>> /\ f.cands = <<>> /\ f.total = 0
      BY <1>2, <2>2, FoundIsList, SoundPage DEF Sound
    <3>2. f.page = 0
      <4>1. TotalPages(f) = 1
        <5>1. T(f).pageSize \in Nat \ {0}
          BY DEF ResourceAssumption, T, Sound, Shaped
        <5> DEFINE size == T(f).pageSize
        <5>2. (0 + size - 1) \div size = 0
          BY <5>1, PagesDivide, Z3
        <5> QED BY <3>1, <5>2 DEF TotalPages
      <4>2. f.page < TotalPages(f) /\ f.page \in Nat
        BY <1>2 DEF Sound, PageIsFresh, Shaped
      <4> QED BY <4>1, <4>2
    <3>3. /\ g.spelling = <<>> /\ g.cands = <<>> /\ g.total = 0 /\ g.page = 0
          /\ g.state = f.state /\ g.tables = f.tables /\ g.profile = f.profile
          /\ g.base = f.base /\ g.query = f.query
      BY <2>1, <2>2, <3>1, <3>2 DEF EngineFields
    <3>4. Shaped(g)
      BY <2>0, <2>1, <2>2, <3>3 DEF Sound, Shaped, Modes
    <3>5. g.mode # "Menu"
      BY <2>1
    <3>6. Found(g) = <<>>
      BY <3>3, <3>4, <3>5, FoundIsList
    <3>7. f.state \in {"Idle", "Composing"}
      BY <3>1 DEF Sound, PageIsFresh
    <3>8. Sound(g)
      BY <3>3, <3>4, <3>5, <3>6, <3>7, BareSound
    <3>9. ModeIsOverlay(g)
      BY <2>0, <2>1, <3>3 DEF ModeIsOverlay
    <3> QED BY <2>2, <3>3, <3>8, <3>9
  <2>3. CASE ModeIsOverlay(f)
    <3>1. f.temporary = "None" /\ f.base = "Main"
      BY <1>2, <2>3 DEF ModeIsOverlay, Sound, Shaped, TemporaryModes
    <3>2. \A field \in EngineFields : g[field] = f[field]
      BY <1>2, <2>1, <3>1 DEF EngineFields
    <3>3. g.query \in Nat \X Nat /\ g.query = f.query
      BY <3>2 DEF Sound, Shaped, EngineFields
    <3> QED BY <2>1, <2>3, <3>2, <3>3, RequeriedSound
  <2> QED BY <1>2, <2>2, <2>3
<1> QED BY <1>1, <1>2

\* What one dispatch does to an engine.
Dispatched(e, a, done) ==
  /\ EngineOk(done.engine) /\ Binds(e, done.engine)
  /\ Agrees(a, Disposition(done), WouldHandle(e, a))
  /\ e.temporary = "None" /\ e.mode \in {"Main", "English"} /\ e.spelling # <<>> =>
       (~Drops(a) => KeepsText(e, a, done))
  /\ done.engine.query = e.query => AllCandidates(done.engine) = AllCandidates(e)

\* Two steps with one outcome, and with one spelling after them.
LEMMA SameOutcome ==
  ASSUME NEW e, NEW a, NEW promised, NEW step, NEW done, done.kind = step.kind,
         done.text = step.text, done.engine.spelling = step.engine.spelling
  PROVE  /\ Disposition(done) = Disposition(step)
         /\ KeepsText(e, a, step) => KeepsText(e, a, done)
  BY DEF Disposition, KeepsText, KeepsTyped, CompletesCode

\* The engine in which an operation leaves the dispatch, but for its revision.
LEMMA AfterSound ==
  ASSUME ResourceAssumption, NEW e, EngineOk(e), NEW a, NEW step, Performed(e, a, step),
         NEW after, after = IF ReturnsEarly(e, a, step) THEN step.engine
                            ELSE FallBack(step.engine)
  PROVE  EngineOk(after) /\ Binds(e, after) /\ after.spelling = step.engine.spelling
<1> DEFINE f == step.engine
<1>1. Sound(f) /\ Binds(e, f) /\ f.profile = e.profile /\ e.profile \in {"Touch", "Legacy"}
  BY DEF Performed, Binds, EngineOk, Sound, Shaped
<1>2. CASE e.profile = "Touch"
  <2>1. ModeIsOverlay(f) \/ (f.mode = "Main" /\ f.spelling = <<>> /\ ~ReturnsEarly(e, a, step))
    BY <1>2 DEF Performed
  <2>2. CASE ReturnsEarly(e, a, step)
    <3>1. after = f /\ ModeIsOverlay(f)
      BY <2>1, <2>2
    <3> QED BY <1>1, <1>2, <3>1 DEF EngineOk
  <2>3. CASE ~ReturnsEarly(e, a, step)
    <3>1. after = FallBack(f)
      BY <2>3
    <3> HIDE DEF f
    <3>2. /\ Sound(after) /\ ModeIsOverlay(after) /\ after.tables = f.tables
          /\ after.profile = f.profile /\ after.query = f.query /\ after.spelling = f.spelling
      BY <1>1, <1>2, <2>1, <3>1, FallBackSound
    <3>3. EngineOk(after) /\ Binds(e, after)
      BY <1>1, <1>2, <3>2 DEF EngineOk, Binds
    <3> QED BY <3>2, <3>3 DEF f
  <2> QED BY <2>2, <2>3
<1>3. CASE e.profile = "Legacy"
  <2>1. after = f
    BY <1>1, <1>3 DEF FallBack
  <2>2. ModeIsOverlay(f)
    BY <1>1, <1>3 DEF ModeIsOverlay
  <2>3. f.base = "Main" /\ f.temporary = "None"
    BY <1>3 DEF Performed
  <2> QED BY <1>1, <2>1, <2>2, <2>3 DEF EngineOk
<1> QED BY <1>1, <1>2, <1>3

\* A click that names the round of the engine names its list.
LEMMA OneRound ==
  ASSUME ResourceAssumption, NEW e, Sound(e), NEW f, Sound(f), f.tables = e.tables,
         f.spelling = e.spelling, f.mode = e.mode
  PROVE  AllCandidates(f) = AllCandidates(e)
  BY AllFound, FoundDepends

LEMMA ConcludedSound ==
  ASSUME ResourceAssumption, NEW e, EngineOk(e), NEW a, NEW step, Performed(e, a, step),
         NEW done, done = Concluded(e, a, step)
  PROVE  Dispatched(e, a, done)
<1> DEFINE after == IF ReturnsEarly(e, a, step) THEN step.engine ELSE FallBack(step.engine)
           round(x) == <<x.spelling, x.mode, x.base, x.temporary>>
           stale == \/ round(e) # round(after)
                    \/ step.kind \in {"Commit", "Cleared", "CommitThenUpdate"}
           next == IF stale THEN InvalidateQuery(after) ELSE after
<1>1. done = [step EXCEPT !.engine = next]
  BY Zenon DEF Concluded
<1>2. EngineOk(after) /\ Binds(e, after) /\ after.spelling = step.engine.spelling
  BY AfterSound
<1>3. ~stale => e.spelling = after.spelling /\ e.mode = after.mode
  OBVIOUS
<1> HIDE DEF after, stale
<1>4. /\ stale => next = InvalidateQuery(after)
      /\ ~stale => next = after
  OBVIOUS
<1> HIDE DEF next
<1>5. PICK f, kind, text, replace : step = Step(f, kind, text, replace)
  BY DEF Performed
<1>6. done.engine = next /\ done.kind = step.kind /\ done.text = step.text
  BY <1>1, <1>5 DEF Step
<1>7. e.query[2] \in Nat /\ after.query[2] \in Nat
  BY <1>2 DEF EngineOk, Sound, Shaped
<1>8. EngineOk(next) /\ Binds(e, next) /\ next.spelling = step.engine.spelling
  <2>1. CASE ~stale
    BY <1>2, <1>4, <2>1
  <2>2. CASE stale
    <3>1. next = InvalidateQuery(after)
      BY <1>4, <2>2
    <3>2. /\ Sound(next) /\ (ModeIsOverlay(after) => ModeIsOverlay(next))
          /\ Binds(after, next) /\ next.base = after.base
          /\ next.temporary = after.temporary /\ next.spelling = after.spelling
      BY <1>2, <3>1, InvalidateSound DEF EngineOk
    <3>3. EngineOk(next)
      BY <1>2, <3>2 DEF EngineOk, Binds
    <3>4. next.query[2] \in Nat
      BY <3>2 DEF Sound, Shaped
    <3>5. Binds(e, next)
      BY <1>2, <1>7, <3>2, <3>4 DEF Binds
    <3> QED BY <1>2, <3>2, <3>3, <3>5
  <2> QED BY <2>1, <2>2
<1>9. ASSUME next.query = e.query PROVE AllCandidates(next) = AllCandidates(e)
  <2>1. ~stale
    <3> SUFFICES ASSUME stale PROVE FALSE
      OBVIOUS
    <3>1. next.query[2] = after.query[2] + 1
      BY <1>2, <1>4, InvalidateSound DEF EngineOk
    <3>2. after.query[2] >= e.query[2]
      BY <1>2 DEF Binds
    <3> QED BY <1>7, <1>9, <3>1, <3>2
  <2>2. next.spelling = e.spelling /\ next.mode = e.mode
    BY <1>3, <1>4, <2>1
  <2>3. Sound(e) /\ Sound(next) /\ next.tables = e.tables
    BY <1>8 DEF EngineOk, Binds
  <2> QED BY <2>2, <2>3, OneRound
<1>10. Agrees(a, Disposition(done), WouldHandle(e, a))
  <2>1. Agrees(a, Disposition(step), WouldHandle(e, a))
    BY DEF Performed
  <2>2. Disposition(done) = Disposition(step)
    BY <1>6, <1>8, SameOutcome
  <2> QED BY <2>1, <2>2
<1>11. ASSUME e.temporary = "None" /\ e.mode \in {"Main", "English"} /\ e.spelling # <<>>,
              ~Drops(a)
       PROVE  KeepsText(e, a, done)
  <2>1. KeepsText(e, a, step)
    BY <1>11 DEF Performed
  <2> QED BY <1>6, <1>8, <2>1, SameOutcome
<1> QED BY <1>6, <1>8, <1>9, <1>10, <1>11 DEF Dispatched

LEMMA DispatchSound ==
  ASSUME ResourceAssumption, CharAssumption, NEW e, EngineOk(e), NEW a, Sends(e, a)
  PROVE  Dispatched(e, a, Dispatch(e, a))
  BY PerformSound, ConcludedSound, Zenon DEF Dispatch

LEMMA NewEngineOk ==
  ASSUME ResourceAssumption, NEW t \in DOMAIN Tables, NEW profile \in {"Touch", "Legacy"},
         NEW id \in Nat
  PROVE  EngineOk(NewEngine(t, profile, id))
<1> DEFINE f == NewEngine(t, profile, id)
<1>1. /\ DOMAIN f = EngineFields /\ f.tables = t /\ f.profile = profile /\ f.mode = "Main"
      /\ f.spelling = <<>> /\ f.page = 0 /\ f.cands = <<>> /\ f.total = 0
      /\ f.state = "Idle" /\ f.base = "Main" /\ f.temporary = "None" /\ f.query = <<id, 0>>
  BY DEF NewEngine, EngineFields
<1> HIDE DEF f
<1>2. f.spelling \in Seq(Chars \cup {Apostrophe})
  BY <1>1
<1>3. Shaped(f)
  BY <1>1, <1>2 DEF Shaped, Modes
<1>4. Found(f) = <<>>
  BY <1>1, <1>3, FoundIsList
<1>5. Sound(f)
  BY <1>1, <1>3, <1>4, BareSound
<1>6. ModeIsOverlay(f)
  BY <1>1 DEF ModeIsOverlay
<1> USE DEF f
<1> QED BY <1>1, <1>5, <1>6 DEF EngineOk

LEMMA ClickFields ==
  ASSUME NEW q, NEW id
  PROVE  SelectCandidate(q, id).op = "SelectCandidate" /\ SelectCandidate(q, id).id = id
<1> DEFINE act == Act("SelectCandidate")
<1>1. act.op = "SelectCandidate"
  BY Zenon DEF Act
<1>2. DOMAIN act = {"op", "ev", "c", "mode", "text", "query", "id"}
  BY Zenon DEF Act
<1>3. SelectCandidate(q, id) = [act EXCEPT !.query = q, !.id = id]
  BY Zenon DEF SelectCandidate
<1> HIDE DEF act
<1> QED BY <1>1, <1>2, <1>3

-----------------------------------------------------------------------------
(***************************************************************************)
(* The engines of a session: its own, the published one, the one a plan    *)
(* would publish and the one a refused plan goes back to.  Each keeps the  *)
(* invariant of the engine, and a revision the session's engine shares     *)
(* with the published one names one list.                                  *)
(***************************************************************************)
Mine(e) == EngineOk(e) /\ e.profile = Profile

\* The rounds of e come after those of f, or belong to another engine.
Continues(f, e) ==
  e.query[1] = f.query[1] =>
    /\ e.query[2] >= f.query[2]
    /\ e.query = f.query => AllCandidates(e) = AllCandidates(f)

LEMMA MineFields ==
  ASSUME NEW e, Mine(e)
  PROVE  /\ Sound(e) /\ Shaped(e) /\ EngineOk(e) /\ e.profile = Profile
         /\ e.query \in Nat \X Nat /\ e.query[1] \in Nat /\ e.query[2] \in Nat
         /\ e.tables \in DOMAIN Tables /\ DOMAIN e = EngineFields
  BY DEF Mine, EngineOk, Sound, Shaped

LEMMA ContinuesOn ==
  ASSUME NEW f, Mine(f), NEW e, Mine(e), NEW g, Mine(g), Continues(f, e), Binds(e, g),
         g.query = e.query => AllCandidates(g) = AllCandidates(e)
  PROVE  Continues(f, g)
<1>1. /\ f.query \in Nat \X Nat /\ e.query \in Nat \X Nat /\ g.query \in Nat \X Nat
      /\ f.query[2] \in Nat /\ e.query[2] \in Nat /\ g.query[2] \in Nat
  BY MineFields
<1>2. g.query[1] = e.query[1] /\ g.query[2] >= e.query[2]
  BY DEF Binds
<1>3. ASSUME g.query[1] = f.query[1] PROVE g.query[2] >= f.query[2]
  BY <1>1, <1>2, <1>3 DEF Continues
<1>4. ASSUME g.query = f.query PROVE AllCandidates(g) = AllCandidates(f)
  <2>1. e.query[1] = f.query[1] /\ e.query[2] >= f.query[2] /\ g.query[2] = f.query[2]
    BY <1>2, <1>4 DEF Continues
  <2>2. e.query[2] = f.query[2]
    BY <1>1, <1>2, <2>1
  <2>3. e.query = f.query
    BY <1>1, <2>1, <2>2
  <2> QED BY <1>4, <2>1, <2>3 DEF Continues
<1> QED BY <1>3, <1>4 DEF Continues

LEMMA ContinuesItself ==
  ASSUME NEW e, Mine(e)
  PROVE  Continues(e, e)
<1>1. e.query[2] \in Nat
  BY MineFields
<1> QED BY <1>1 DEF Continues

\* A new revision continues whatever came before it.
LEMMA RevisedMine ==
  ASSUME NEW e, Mine(e)
  PROVE  LET g == InvalidateQuery(e)
         IN /\ Mine(g) /\ Binds(e, g) /\ g.query # e.query /\ g.spelling = e.spelling
            /\ g.base = e.base
<1> DEFINE g == InvalidateQuery(e)
<1>1. Sound(e) /\ EngineOk(e) /\ e.query[2] \in Nat
  BY MineFields
<1>2. /\ Sound(g) /\ (ModeIsOverlay(e) => ModeIsOverlay(g))
      /\ Binds(e, g) /\ g.query[2] = e.query[2] + 1 /\ g.base = e.base
      /\ g.temporary = e.temporary /\ g.mode = e.mode /\ g.spelling = e.spelling
  BY <1>1, InvalidateSound
<1> HIDE DEF g
<1>3. Mine(g) /\ g.query # e.query
  BY <1>1, <1>2 DEF Mine, EngineOk, Binds
<1> USE DEF g
<1> QED BY <1>2, <1>3

LEMMA EmptiedMine ==
  ASSUME NEW e, Mine(e)
  PROVE  LET g == Emptied(e)
         IN Mine(g) /\ Binds(e, g) /\ g.query # e.query /\ g.spelling = <<>>
<1> DEFINE h == ResetContext(e)
           g == Emptied(e)
<1>1. Sound(e) /\ EngineOk(e) /\ e.query[2] \in Nat
  BY MineFields
<1>2. /\ Sound(h) /\ Binds(e, h) /\ ModeIsOverlay(h) /\ h.query[2] = e.query[2] + 1
      /\ h.base = e.base /\ h.temporary = "None" /\ h.spelling = <<>>
  BY <1>1, EndSound, ResourceAssumption DEF ResetContext
<1> HIDE DEF h
<1>3. Mine(h)
  BY <1>1, <1>2 DEF Mine, EngineOk, Binds
<1>4. Mine(g) /\ Binds(h, g) /\ g.spelling = h.spelling
  BY <1>3, RevisedMine DEF Emptied, h
<1>5. h.query[2] \in Nat /\ g.query[2] \in Nat
  BY <1>3, <1>4, MineFields
<1> HIDE DEF g
<1>6. Binds(e, g) /\ g.query # e.query
  BY <1>1, <1>2, <1>4, <1>5 DEF Binds
<1> USE DEF g
<1> QED BY <1>2, <1>4, <1>6

LEMMA NewMine ==
  ASSUME NEW t \in DOMAIN Tables, NEW id \in Nat
  PROVE  LET g == NewEngine(t, Profile, id)
         IN Mine(g) /\ g.query = <<id, 0>> /\ g.spelling = <<>>
<1> DEFINE g == NewEngine(t, Profile, id)
<1>1. EngineOk(g)
  BY NewEngineOk, ResourceAssumption, SessionAssumption
<1>2. g.profile = Profile /\ g.query = <<id, 0>> /\ g.spelling = <<>>
  BY DEF NewEngine
<1> QED BY <1>1, <1>2 DEF Mine

\* The engine of a new runtime, in the base mode of the old one.
LEMMA FreshMine ==
  ASSUME NEW x, x.generation \in Nat, NEW r \in DOMAIN Runtimes, NEW base,
         Touch \/ base # "English"
  PROVE  LET g == FreshEngine(x, r, base)
         IN Mine(g) /\ g.query[1] = x.generation + 2
<1> DEFINE e == NewEngine(Runtimes[r].tables, Profile, x.generation + 2)
           a == ModeAct("SetBaseMode", "English")
           step == ChangeMode(e, "English", "None")
           g == FreshEngine(x, r, base)
<1>1. Mine(e) /\ e.query[1] = x.generation + 2
  <2>1. Runtimes[r].tables \in DOMAIN Tables /\ x.generation + 2 \in Nat
    BY SessionAssumption
  <2> QED BY <2>1, NewMine
<1>2. CASE base # "English"
  <2>1. g = e
    BY <1>2 DEF FreshEngine
  <2> QED BY <1>1, <2>1
<1>3. CASE Touch /\ base = "English"
  <2>1. g = InvalidateQuery(step.engine)
    BY <1>3 DEF FreshEngine
  <2> HIDE DEF e
  <2>2. a.op = "SetBaseMode" /\ a.mode = "English"
    BY DEF ModeAct, Act
  <2>3. step = Perform(e, a)
    BY <2>2, Zenon DEF Perform
  <2>4. EngineOk(e) /\ e.profile = "Touch"
    BY <1>1, <1>3 DEF Mine, Touch
  <2>5. Sends(e, a)
    BY <2>2, <2>4 DEF Sends, IsAction, Operations
  <2>6. Performed(e, a, step)
    BY <2>3, <2>4, <2>5, PerformSound, ResourceAssumption, CharAssumption
  <2> DEFINE f == step.engine
  <2>7. ReturnsEarly(e, a, step)
    BY <2>2 DEF ReturnsEarly
  <2>8. Sound(f) /\ Binds(e, f) /\ ModeIsOverlay(f)
    BY <2>4, <2>6, <2>7 DEF Performed
  <2>9. Mine(f) /\ f.query[1] = x.generation + 2
    BY <1>1, <1>3, <2>4, <2>8 DEF Mine, EngineOk, Binds
  <2> HIDE DEF f
  <2>10. Mine(InvalidateQuery(f)) /\ Binds(f, InvalidateQuery(f))
    BY <2>9, RevisedMine
  <2> QED BY <2>1, <2>9, <2>10 DEF Binds, f
<1> QED BY <1>2, <1>3

-----------------------------------------------------------------------------
(* The text of a step is a sequence: nothing, a candidate, what was typed, or one of these   *)
(* with a character after it.                                                                *)

LEMMA QuietText ==
  ASSUME NEW f, NEW text
  PROVE  /\ None(f).text = <<>> /\ Update(f).text = <<>> /\ Cleared(f).text = <<>>
         /\ Passthrough(f).text = <<>> /\ Rejected(f).text = <<>> /\ Commit(f, text).text = text
  BY DEF None, Update, Cleared, Passthrough, Rejected, Commit, Step

LEMMA ShortText ==
  /\ IsSeq(<<>>) /\ (\A u : IsSeq(<<u>>)) /\ (\A u, v : IsSeq(<<u, v>>))
  BY EmptySequence, OneInstruction, TwoInstructions

LEMMA CodeText ==
  ASSUME NEW e, NEW c
  PROVE  IsSeq(PushCode(e, c).text) /\ IsSeq(CommitAndStartNext(e, c).text)
<1>1. \A f : IsSeq(Pushed(f).text)
  BY QuietText, ShortText DEF Pushed
<1>2. CommitAndStartNext(e, c).text = <<e.cands[1]>>
  BY DEF CommitAndStartNext, Step
<1> QED BY <1>1, <1>2, ShortText DEF PushCode

LEMMA CharText ==
  ASSUME NEW e, NEW c
  PROVE  IsSeq(OnSymbol(e, c).text) /\ IsSeq(OnCodeChar(e, c).text) /\ IsSeq(OnChar(e, c).text)
<1>1. IsSeq(BufferSymbol(e, c).text)
  BY QuietText, ShortText DEF BufferSymbol
<1>2. IsSeq(OnSymbol(e, c).text)
  BY <1>1, QuietText, ShortText DEF OnSymbol
<1>3. IsSeq(OnCodeChar(e, c).text)
  BY <1>2, CodeText, QuietText, ShortText DEF OnCodeChar
<1>4. IsSeq(OnSelect(e, DigitValue[c]).text)
  BY QuietText, ShortText DEF OnSelect
<1> QED BY <1>2, <1>3, <1>4 DEF OnChar

LEMMA MainText ==
  ASSUME NEW e, IsSeq(e.spelling), NEW ev, IsEvent(ev)
  PROVE  IsSeq(HandleMain(e, ev).text)
<1>1. /\ IsSeq(OnSpace(e).text) /\ IsSeq(OnEnter(e).text) /\ IsSeq(OnBackspace(e).text)
      /\ IsSeq(OnEsc(e).text) /\ IsSeq(OnSelect(e, ev.n).text)
  BY QuietText, ShortText DEF OnSpace, OnEnter, OnBackspace, OnEsc, OnSelect
<1>2. \A to : IsSeq(TurnPage(e, to).text)
  BY QuietText, ShortText DEF TurnPage
<1>3. \A f : IsSeq(RefreshTemporary(f).text)
  BY QuietText, ShortText DEF RefreshTemporary
<1>4. IsSeq(OnSymbol(e, ev.c).text) /\ IsSeq(OnChar(e, ev.c).text)
  BY CharText
<1> QED BY <1>1, <1>2, <1>3, <1>4, Zenon DEF HandleMain, IsEvent, Keystrokes

LEMMA TemporaryText ==
  ASSUME NEW e, IsSeq(e.spelling), NEW ev
  PROVE  IsSeq(HandleTemporary(e, ev).text)
<1>1. \A f : IsSeq(RefreshTemporary(f).text) /\ IsSeq(None(f).text) /\ IsSeq(Cleared(f).text)
  BY QuietText, ShortText DEF RefreshTemporary
<1>2. \A n : IsSeq(SelectTemporary(e, n).text) /\ IsSeq(ChooseFromMenu(e, n).text)
  BY <1>1, QuietText, ShortText DEF SelectTemporary, ChooseFromMenu
<1>3. IsSeq(Commit(Reset(e), IF ev.key = "Space" /\ e.cands # <<>> THEN <<e.cands[1]>>
                             ELSE e.spelling).text)
  BY QuietText, ShortText
<1> QED BY <1>1, <1>2, <1>3, Zenon DEF HandleTemporary

LEMMA HandleText ==
  ASSUME NEW e, IsSeq(e.spelling), NEW ev, IsEvent(ev)
  PROVE  IsSeq(Handle(e, ev).text)
  BY MainText, TemporaryText DEF Handle

LEMMA LiteralText ==
  ASSUME NEW e, IsSeq(e.spelling), NEW text, IsSeq(text)
  PROVE  IsSeq(PreferredText(e)) /\ IsSeq(InsertLiteral(e, text).text)
<1> DEFINE first == IF e.spelling = <<>> THEN <<>>
                    ELSE IF e.mode = "Main" THEN PreferredText(e) ELSE e.spelling
<1>1. IsSeq(PreferredText(e))
  BY ShortText DEF PreferredText
<1>2. IsSeq(first)
  BY <1>1, ShortText
<1> HIDE DEF first
<1>3. IsSeq(first \o text)
  BY <1>2, CatOf
<1> USE DEF first
<1>4. InsertLiteral(e, text) = None(e) \/ InsertLiteral(e, text) = Commit(Reset(e), first \o text)
  BY DEF InsertLiteral
<1> HIDE DEF first
<1> QED BY <1>1, <1>3, <1>4, QuietText, ShortText

LEMMA SemanticText ==
  ASSUME NEW e, IsSeq(e.spelling), e.mode \in Modes, NEW c
  PROVE  /\ IsSeq(InputCode(e, c).text) /\ IsSeq(InputText(e, c).text)
         /\ \A base, temporary : IsSeq(ChangeMode(e, base, temporary).text)
         /\ \A query, id : IsSeq(SelectById(e, query, id).text)
<1>1. IsSeq(HandleTemporary(e, CharEvent("Char", c)).text) /\ IsSeq(OnCodeChar(e, c).text)
  BY TemporaryText, CharText
<1>2. \A f : IsSeq(RefreshTemporary(f).text)
  BY QuietText, ShortText DEF RefreshTemporary
<1>3. IsSeq(InputCode(e, c).text)
  BY <1>1, <1>2, QuietText, ShortText, Zenon DEF InputCode, Modes
<1>4. IsSeq(InsertLiteral(e, <<c>>).text)
  BY LiteralText, ShortText
<1>5. IsSeq(InputText(e, c).text)
  BY <1>1, <1>4, Zenon DEF InputText
<1>6. ASSUME NEW base, NEW temporary PROVE IsSeq(ChangeMode(e, base, temporary).text)
  BY QuietText, ShortText, Zenon DEF ChangeMode
<1>7. ASSUME NEW query, NEW id PROVE IsSeq(SelectById(e, query, id).text)
  BY QuietText, ShortText DEF SelectById
<1> QED BY <1>3, <1>5, <1>6, <1>7

LEMMA PerformText ==
  ASSUME NEW e, Sound(e), NEW a, IsAction(a)
  PROVE  IsSeq(Perform(e, a).text)
<1> DEFINE step == Perform(e, a)
           first == IF e.spelling = <<>> THEN <<>> ELSE PreferredText(e)
<1>1. IsSeq(e.spelling) /\ e.mode \in Modes
  BY SpellingIsList DEF Sound, Shaped
<1>2. /\ IsSeq(InputCode(e, a.c).text) /\ IsSeq(InputText(e, a.c).text)
      /\ IsSeq(ChangeMode(e, a.mode, "None").text) /\ IsSeq(ChangeMode(e, "", a.mode).text)
      /\ IsSeq(SelectById(e, a.query, a.id).text)
  BY <1>1, SemanticText
<1>3. a.op = "InsertLiteral" => IsSeq(a.text)
  BY DEF IsAction, IsSeq
<1>4. IsSeq(InsertLiteral(e, <<a.c>>).text)
      /\ (a.op = "InsertLiteral" => IsSeq(InsertLiteral(e, a.text).text))
  BY <1>1, <1>3, LiteralText, ShortText
<1>5. /\ IsSeq(None(e).text) /\ IsSeq(Passthrough(e).text) /\ IsSeq(Rejected(e).text)
      /\ IsSeq(Cleared(EndTemporary(e)).text)
      /\ IsSeq(RefreshTemporary([e EXCEPT !.mode = "Menu"]).text)
  BY QuietText, ShortText DEF RefreshTemporary
<1>6. /\ IsSeq(Commit(Reset(e), PreferredText(e)).text)
      /\ IsSeq(Commit(Reset(e), e.spelling).text)
  BY <1>1, LiteralText, ShortText, QuietText
<1>7. ASSUME NEW u PROVE IsSeq(Commit(Reset(e), first \o <<u>>).text)
  <2>1. IsSeq(first)
    BY <1>1, LiteralText, ShortText
  <2> HIDE DEF first
  <2>2. IsSeq(first \o <<u>>)
    BY <2>1, CatOf, ShortText
  <2> QED BY <2>2, QuietText
<1>8. a.op \in {"Legacy", "Space", "Enter", "Backspace", "Cancel", "MovePage"} =>
        IsSeq(Handle(e, AsEvent(a)).text)
  <2>1. CASE a.op = "Legacy"
    <3>1. AsEvent(a) = a.ev /\ IsEvent(a.ev)
      BY <2>1, Zenon DEF AsEvent, IsAction, IsEvent
    <3> QED BY <1>1, <3>1, HandleText
  <2>2. CASE a.op \in {"Space", "Enter", "Backspace", "Cancel", "MovePage"}
    <3>1. \E key \in Keystrokes \ {"Char", "Symbol"} : AsEvent(a) = Event(key)
      <4>1. CASE a.op = "Cancel"
        BY <4>1 DEF AsEvent, Keystrokes
      <4>2. CASE a.op = "MovePage"
        BY <4>2 DEF AsEvent, Keystrokes
      <4>3. CASE a.op \in {"Space", "Enter", "Backspace"}
        BY <4>3 DEF AsEvent, Keystrokes
      <4> QED BY <2>2, <4>1, <4>2, <4>3
    <3> QED BY <1>1, <3>1, EventSound, HandleText
  <2> QED BY <2>1, <2>2
<1> HIDE DEF first, step
<1>9. CASE a.op \in {"SelectCandidate", "SetBaseMode", "BeginTemporary", "ChooseMode",
                     "InputCode", "InputText", "InputSymbol", "InsertLiteral"}
  BY <1>2, <1>4, <1>9, Zenon DEF Perform, step
<1>10. CASE a.op \in {"EndTemporary", "CloseModeChooser", "OpenModeChooser",
                      "CommitPreferred", "CommitRaw"}
  BY <1>5, <1>6, <1>10, Zenon DEF Perform, step
<1>11. CASE a.op \in {"Legacy", "Space", "Enter", "Backspace", "Cancel", "MovePage"}
  <2>1. CASE PersistentEnglish(e) /\ a.op = "Space"
    <3>1. \E u : step = Commit(Reset(e), first \o <<u>>)
      BY <2>1, Zenon DEF Perform, step, first
    <3> QED BY <1>7, <3>1 DEF step
  <2>2. CASE PersistentEnglish(e) /\ e.spelling = <<>> /\ a.op \in {"Enter", "Backspace"}
    <3>1. step = Passthrough(e)
      BY <2>2, Zenon DEF Perform, step
    <3> QED BY <1>5, <3>1 DEF step
  <2>3. CASE /\ ~(PersistentEnglish(e) /\ a.op = "Space")
             /\ ~(PersistentEnglish(e) /\ e.spelling = <<>> /\ a.op \in {"Enter", "Backspace"})
    <3>1. step = Handle(e, AsEvent(a))
      BY <1>11, <2>3, Zenon DEF Perform, step
    <3> QED BY <1>8, <1>11, <3>1 DEF step
  <2> QED BY <2>1, <2>2, <2>3
<1> QED BY <1>9, <1>10, <1>11 DEF IsAction, Operations, step

LEMMA DispatchText ==
  ASSUME NEW e, EngineOk(e), NEW a, Sends(e, a), ResourceAssumption, CharAssumption
  PROVE  IsSeq(Dispatch(e, a).text)
<1> DEFINE step == Perform(e, a)
<1>1. IsSeq(step.text)
  BY PerformText DEF EngineOk, Sends
<1>2. Performed(e, a, step)
  BY PerformSound
<1> HIDE DEF step
<1>3. PICK f, kind, text, replace : step = Step(f, kind, text, replace)
  BY <1>2 DEF Performed
<1>4. PICK next : Dispatch(e, a) = [step EXCEPT !.engine = next]
  BY Zenon DEF Dispatch, Concluded, step
<1>5. Dispatch(e, a).text = step.text
  BY <1>3, <1>4 DEF Step
<1> QED BY <1>1, <1>5

-----------------------------------------------------------------------------
(***************************************************************************)
(* What a session offers, what its engines are, and what its fields hold:  *)
(* Steady(x) is what every method keeps, whatever comes between a plan and *)
(* its answer.  Seen(x) is about the screen, and is kept by the calls that *)
(* a host which leaves the prefix and the assistance alone may make then.  *)
(***************************************************************************)

\* Predictions are offered, or kept by a plan for the case that the host refuses it, only where
\* a choice is taken: a touch session has no spelling then, so no plan is refused for a
\* commit that its editor cannot take.
Open(x) == x.gate /\ ~x.closed /\ x.cleanup = {} /\ (Touch => x.engine.spelling = <<>>)
Offers(x) == x.prediction # {} \/ \E p \in x.pending : p.previous # {}
OffersOk(x) == Offers(x) => Open(x)

\* A list that may be chosen from is on the screen, and so is one that may come back.
Seen(x) ==
  /\ x.prediction # {} => Allowed(x) /\ (x.wait = {} => x.view = PredictionView(Items(x)))
  /\ \A p \in x.pending :
       p.previous # {} => Allowed(x) /\ x.view = PredictionView(The(p.previous).items)

\* The engines of a session: its own and the published one.
EnginesBase(x) ==
  /\ Mine(x.engine) /\ Mine(x.published)
  /\ x.published.query[1] <= x.generation + 1
  /\ x.engine.query[1] <= x.generation + 2
  /\ Continues(x.published, x.engine)

\* ... the one a plan publishes, and the one a refused plan goes back to.
EnginesOk(x) ==
  /\ EnginesBase(x)
  /\ x.pending # {} => x.engine.query[1] <= x.generation + 1
  /\ \A p \in x.pending :
       /\ Mine(p.next) /\ p.next.query[1] <= x.generation + 1
       /\ Touch => p.rollback = {}
       /\ \A e \in p.rollback :
            Mine(e) /\ e.query[1] <= x.generation + 1 /\ Continues(x.published, e)

OpOk(op) ==
  /\ DOMAIN op = {"kind", "text", "replace", "spelling", "delete"}
  /\ op.delete \in BOOLEAN /\ IsSeq(op.text)

\* The texts and flags of a session, and its runtimes.
PrefixOk(text) == IsSeq(text) /\ Len(text) <= PrefixLimit
FieldsOk(x) ==
  /\ x.gate \in BOOLEAN /\ x.closed \in BOOLEAN /\ x.cleanup \subseteq BOOLEAN
  /\ x.revision \in DOMAIN Runtimes /\ x.deferred \subseteq DOMAIN Runtimes
  /\ PrefixOk(x.prefix.text)
  /\ \A p \in x.pending : OpOk(p.op)

Steady(x) == EnginesOk(x) /\ OffersOk(x) /\ FieldsOk(x)

LEMMA NothingSeen ==
  ASSUME NEW x, ~Offers(x)
  PROVE  OffersOk(x) /\ Seen(x)
  BY DEF OffersOk, Seen, Offers

LEMMA NoPrefix == PrefixOk(<<>>)
  BY EmptySequence, SessionAssumption DEF PrefixOk

\* The end of a text, as much as is kept.
LEMMA LastOk ==
  ASSUME NEW text, IsSeq(text)
  PROVE  PrefixOk(LastOf(text))
<1>1. Len(text) \in Nat /\ PrefixLimit \in Nat \ {0}
  BY DomainOf, SessionAssumption
<1>2. CASE Len(text) <= PrefixLimit
  BY <1>2 DEF LastOf, PrefixOk
<1>3. CASE ~(Len(text) <= PrefixLimit)
  <2> DEFINE first == Len(text) - PrefixLimit + 1
             last == SubSeq(text, first, Len(text))
  <2>1. LastOf(text) = last
    BY <1>3 DEF LastOf
  <2>2. first \in 1..Len(text)
    BY <1>1, <1>3
  <2>3. PICK S : text \in Seq(S)
    BY DEF IsSeq
  <2>4. last \in Seq(S) /\ Len(last) = Len(text) - first + 1
    BY <1>1, <2>2, <2>3
  <2>5. Len(last) = PrefixLimit
    BY <1>1, <2>4
  <2> HIDE DEF last
  <2> QED BY <1>1, <2>1, <2>4, <2>5 DEF PrefixOk, IsSeq
<1> QED BY <1>2, <1>3

\* A call that leaves the plan, the engines and the runtimes alone.
LEMMA FrameSteady ==
  ASSUME NEW x, Steady(x), NEW y, y.prediction # {} => x.prediction # {},
         PrefixOk(y.prefix.text),
         \A f \in {"engine", "published", "generation", "pending", "gate", "closed", "cleanup",
                   "revision", "deferred"} : y[f] = x[f]
  PROVE  Steady(y)
<1>1. /\ y.engine = x.engine /\ y.published = x.published /\ y.generation = x.generation
      /\ y.pending = x.pending /\ y.gate = x.gate /\ y.closed = x.closed
      /\ y.cleanup = x.cleanup /\ y.revision = x.revision /\ y.deferred = x.deferred
  OBVIOUS
<1>2. EnginesOk(y)
  BY <1>1 DEF Steady, EnginesOk, EnginesBase
<1>3. OffersOk(y)
  BY <1>1 DEF Steady, OffersOk, Offers, Open
<1>4. FieldsOk(y)
  BY <1>1 DEF Steady, FieldsOk
<1> QED BY <1>2, <1>3, <1>4 DEF Steady

-----------------------------------------------------------------------------
(* Staging a plan. *)

\* What a plan takes over from the session it is staged in.
StagedFrom(x, next, parts, p) ==
  /\ p.previous = x.prediction /\ p.predict = parts.predict /\ p.op = HostOp(x, parts.op)
  /\ p.next = next /\ p.rollback = parts.rollback /\ p.consumed = parts.consumed

LEMMA StagePlan ==
  ASSUME NEW x, Shape(x), NEW next, NEW parts
  PROVE  LET y == Stage(x, next, parts)
         IN \/ y = x /\ (x.closed \/ Unavailable(x, parts.op))
            \/ /\ Shape(y) /\ ~x.closed /\ ~Unavailable(x, parts.op)
               /\ y.generation = x.generation + 1 /\ y.prediction = {}
               /\ (Touch => y.engine = x.engine) /\ (~Touch => y.engine = next)
               /\ \E p : y.pending = {p} /\ StagedFrom(x, next, parts, p)
               /\ \A f \in SessionFields \ {"generation", "engine", "prediction", "pending"} :
                    y[f] = x[f]
<1> DEFINE y == Stage(x, next, parts)
           z == StartPlan(x, next)
<1>1. CASE x.closed \/ Unavailable(x, parts.op)
  <2>1. y = x
    BY <1>1 DEF Stage
  <2> QED BY <1>1, <2>1
<1>2. CASE ~(x.closed \/ Unavailable(x, parts.op))
  <2>1. PICK p : y = [z EXCEPT !.pending = {p}] /\ StagedFrom(x, next, parts, p)
    <3> DEFINE hidden == Touch /\ x.context.purpose = "Password"
               p == [token |-> Token(z), owned |-> x.context.owns, previous |-> x.prediction,
                     predict |-> parts.predict, op |-> HostOp(x, parts.op),
                     unchanged |-> parts.unchanged,
                     view |-> IF hidden THEN DefaultView ELSE parts.view,
                     consumed |-> parts.consumed, next |-> next,
                     rollback |-> parts.rollback, cleanup |-> parts.cleanup]
    <3>1. y = [z EXCEPT !.pending = {p}]
      BY <1>2 DEF Stage
    <3>2. StagedFrom(x, next, parts, p)
      BY DEF StagedFrom
    <3> HIDE DEF p, y, z
    <3> QED BY <3>1, <3>2
  <2>2. /\ DOMAIN z = SessionFields /\ z.generation = x.generation + 1 /\ z.prediction = {}
        /\ z.engine = IF Touch THEN x.engine ELSE next
        /\ \A f \in SessionFields \ {"generation", "engine", "prediction"} : z[f] = x[f]
    <3> DEFINE e == IF Touch THEN x.engine ELSE next
    <3>1. z = [x EXCEPT !.generation = @ + 1, !.engine = e, !.prediction = {}]
      BY DEF StartPlan
    <3> HIDE DEF z, e
    <3>2. /\ DOMAIN z = SessionFields /\ z.generation = x.generation + 1 /\ z.prediction = {}
          /\ z.engine = e
          /\ \A f \in SessionFields \ {"generation", "engine", "prediction"} : z[f] = x[f]
      BY <3>1 DEF Shape
    <3> QED BY <3>2 DEF e
  <2> HIDE DEF y, z
  <2>3. /\ DOMAIN y = SessionFields /\ y.pending = {p}
        /\ \A f \in SessionFields \ {"pending"} : y[f] = z[f]
    BY <2>1, <2>2
  <2>4. Shape(y)
    BY <2>2, <2>3 DEF Shape
  <2>5. /\ y.generation = x.generation + 1 /\ y.prediction = {}
        /\ (Touch => y.engine = x.engine) /\ (~Touch => y.engine = next)
        /\ \A f \in SessionFields \ {"generation", "engine", "prediction", "pending"} :
             y[f] = x[f]
    BY <2>2, <2>3
  <2> USE DEF y
  <2> QED BY <1>2, <2>1, <2>3, <2>4, <2>5
<1> QED BY <1>1, <1>2

\* A plan keeps the engines in order when its own continues the session's.
LEMMA StageEngines ==
  ASSUME NEW x, Shape(x), EnginesBase(x),
         NEW next, Mine(next), next.query[1] <= x.generation + 2,
         ~Touch => Continues(x.published, next),
         NEW parts, Touch => parts.rollback = {},
         \A e \in parts.rollback :
           Mine(e) /\ e.query[1] <= x.generation + 2 /\ Continues(x.published, e),
         NEW y, y = Stage(x, next, parts), y # x
  PROVE  EnginesOk(y)
<1>1. /\ y.generation = x.generation + 1
      /\ (Touch => y.engine = x.engine) /\ (~Touch => y.engine = next)
      /\ \E p : y.pending = {p} /\ StagedFrom(x, next, parts, p)
      /\ y.published = x.published /\ x.generation \in Nat
  BY StagePlan DEF Shape
<1>2. PICK p : y.pending = {p} /\ StagedFrom(x, next, parts, p)
  BY <1>1
<1>3. /\ x.engine.query[1] \in Nat /\ x.published.query[1] \in Nat /\ next.query[1] \in Nat
      /\ \A e \in parts.rollback : e.query[1] \in Nat
  BY MineFields DEF EnginesBase
<1>4. EnginesBase(y)
  BY <1>1, <1>3 DEF EnginesBase
<1>5. y.engine.query[1] <= y.generation + 1
  BY <1>1, <1>3 DEF EnginesBase
<1>6. /\ Mine(p.next) /\ p.next.query[1] <= y.generation + 1
      /\ Touch => p.rollback = {}
      /\ \A e \in p.rollback :
           Mine(e) /\ e.query[1] <= y.generation + 1 /\ Continues(y.published, e)
  BY <1>1, <1>2, <1>3 DEF StagedFrom
<1> QED BY <1>2, <1>4, <1>5, <1>6 DEF EnginesOk

\* What is sent to the host keeps its type.
LEMMA OpsOk ==
  /\ \A kind, text, replace, spelling : \A delete \in BOOLEAN :
       IsSeq(text) => OpOk(Op(kind, text, replace, spelling, delete))
  /\ OpOk(NoOp)
  /\ \A text, replace : IsSeq(text) => OpOk(CommitAndReplace(text, replace))
  /\ \A spelling : OpOk(CompositionUpdate(spelling))
  /\ \A delete \in BOOLEAN : OpOk(EndComposition(delete))
<1>1. ASSUME NEW kind, NEW text, NEW replace, NEW spelling, NEW delete \in BOOLEAN, IsSeq(text)
      PROVE  OpOk(Op(kind, text, replace, spelling, delete))
  BY <1>1 DEF OpOk, Op
<1>2. IsSeq(<<>>)
  BY EmptySequence
<1>3. OpOk(NoOp)
  BY <1>1, <1>2 DEF NoOp
<1>4. ASSUME NEW text, NEW replace, IsSeq(text) PROVE OpOk(CommitAndReplace(text, replace))
  BY <1>1, <1>4 DEF CommitAndReplace
<1>5. ASSUME NEW spelling PROVE OpOk(CompositionUpdate(spelling))
  BY <1>1, <1>2 DEF CompositionUpdate
<1>6. ASSUME NEW delete \in BOOLEAN PROVE OpOk(EndComposition(delete))
  BY <1>1, <1>2 DEF EndComposition
<1> QED BY <1>1, <1>3, <1>4, <1>5, <1>6

LEMMA HostOpOk ==
  ASSUME NEW x, NEW op, OpOk(op)
  PROVE  OpOk(HostOp(x, op))
<1> DEFINE free == [op EXCEPT !.replace = 0]
<1>1. OpOk(free)
  BY DEF OpOk
<1>2. HostOp(x, op) \in {op, free, NoOp, CommitAndReplace(op.text, 0)}
  <2> HIDE DEF free
  <2> QED BY Zenon DEF HostOp, free
<1>3. OpOk(NoOp) /\ OpOk(CommitAndReplace(op.text, 0))
  BY OpsOk DEF OpOk
<1> HIDE DEF free
<1> QED BY <1>1, <1>2, <1>3

LEMMA StageFields ==
  ASSUME NEW x, Shape(x), FieldsOk(x), NEW next, NEW parts, OpOk(parts.op),
         NEW y, y = Stage(x, next, parts)
  PROVE  FieldsOk(y)
<1>1. CASE y = x
  BY <1>1
<1>2. CASE y # x
  <2>1. /\ \E p : y.pending = {p} /\ StagedFrom(x, next, parts, p)
        /\ y.gate = x.gate /\ y.closed = x.closed /\ y.cleanup = x.cleanup
        /\ y.prefix = x.prefix /\ y.revision = x.revision /\ y.deferred = x.deferred
    BY <1>2, StagePlan
  <2>2. PICK p : y.pending = {p} /\ p.op = HostOp(x, parts.op)
    BY <2>1 DEF StagedFrom
  <2>3. OpOk(p.op)
    BY <2>2, HostOpOk
  <2> QED BY <2>1, <2>2, <2>3 DEF FieldsOk
<1> QED BY <1>1, <1>2

\* A plan keeps what was offered, and what was on the screen.
LEMMA StageOffers ==
  ASSUME NEW x, Shape(x), NEW next, NEW parts, NEW y, y = Stage(x, next, parts), y # x,
         x.prediction # {} => Open(x)
  PROVE  OffersOk(y)
<1>1. /\ y.prediction = {} /\ (Touch => y.engine = x.engine)
      /\ \E p : y.pending = {p} /\ StagedFrom(x, next, parts, p)
      /\ y.gate = x.gate /\ y.closed = x.closed /\ y.cleanup = x.cleanup
  BY StagePlan
<1> QED BY <1>1 DEF OffersOk, Offers, Open, StagedFrom

LEMMA StageSeen ==
  ASSUME NEW x, Shape(x), NEW next, NEW parts, NEW y, y = Stage(x, next, parts), y # x,
         x.prediction # {} => Allowed(x) /\ x.view = PredictionView(Items(x))
  PROVE  Seen(y)
<1>1. /\ y.prediction = {}
      /\ \E p : y.pending = {p} /\ StagedFrom(x, next, parts, p)
      /\ y.view = x.view /\ y.context = x.context /\ y.revision = x.revision
  BY StagePlan
<1>2. Allowed(y) = Allowed(x)
  BY <1>1 DEF Allowed, Prediction, R
<1> QED BY <1>1, <1>2 DEF Seen, StagedFrom, Items

\* A plan of a session that offers nothing leaves nothing to offer.
LEMMA StageQuiet ==
  ASSUME NEW x, Shape(x), x.prediction = {}, NEW next, NEW parts,
         NEW y, y = Stage(x, next, parts), y # x
  PROVE  ~Offers(y)
<1>1. y.prediction = {} /\ \E p : y.pending = {p} /\ StagedFrom(x, next, parts, p)
  BY StagePlan
<1> QED BY <1>1 DEF Offers, StagedFrom

LEMMA StageSteady ==
  ASSUME NEW x, Shape(x), EnginesBase(x), FieldsOk(x), x.prediction # {} => Open(x),
         NEW next, Mine(next), next.query[1] <= x.generation + 2,
         ~Touch => Continues(x.published, next),
         NEW parts, OpOk(parts.op), Touch => parts.rollback = {},
         \A e \in parts.rollback :
           Mine(e) /\ e.query[1] <= x.generation + 2 /\ Continues(x.published, e),
         NEW y, y = Stage(x, next, parts), y # x
  PROVE  Steady(y)
<1>1. EnginesOk(y)
  BY StageEngines
<1>2. OffersOk(y)
  BY StageOffers
<1>3. FieldsOk(y)
  BY StageFields
<1> QED BY <1>1, <1>2, <1>3 DEF Steady

\* The plan of a control event is refused only where the host cannot take its commit.
LEMMA ClearedStageSteady ==
  ASSUME NEW x, Shape(x), EnginesBase(x), FieldsOk(x), x.prediction = {},
         NEW next, Mine(next), next.query[1] <= x.generation + 2,
         ~Touch => Continues(x.published, next),
         NEW op, OpOk(op), NEW cleanup, NEW y, y = StageCleared(x, next, op, cleanup)
  PROVE  \/ y = x /\ (x.closed \/ Unavailable(x, op))
         \/ y # x /\ Steady(y) /\ ~Offers(y)
<1> DEFINE parts == [op |-> op, view |-> DefaultView, consumed |-> TRUE, unchanged |-> FALSE,
                     predict |-> FALSE, cleanup |-> cleanup, rollback |-> {}]
<1>1. parts.op = op /\ parts.rollback = {} /\ y = Stage(x, next, parts)
  BY DEF StageCleared
<1> HIDE DEF parts
<1>2. CASE y = x
  <2>1. x.generation \in Nat /\ x = Stage(x, next, parts)
    BY <1>1, <1>2 DEF Shape
  <2>2. x.closed \/ Unavailable(x, parts.op)
    BY <2>1, StagePlan
  <2> QED BY <1>1, <1>2, <2>2
<1>3. CASE y # x
  <2>1. Steady(y)
    BY <1>1, <1>3, StageSteady
  <2>2. ~Offers(y)
    BY <1>1, <1>3, StageQuiet
  <2> QED BY <1>3, <2>1, <2>2
<1> QED BY <1>2, <1>3

-----------------------------------------------------------------------------
(* What is sent to the engine of a session. *)

Sent(a) ==
  /\ IsAction(a)
  /\ a.op \in {"SelectCandidate", "InsertLiteral"} \/ (a.op = "Legacy" <=> Profile = "Legacy")

LEMMA LiteralSent ==
  ASSUME NEW u
  PROVE  /\ Sent(Literal(<<u>>)) /\ Literal(<<u>>).op = "InsertLiteral"
         /\ Literal(<<u>>).text = <<u>>
<1> DEFINE act == Act("InsertLiteral")
           a == Literal(<<u>>)
           text == <<u>>
<1>1. act.op = "InsertLiteral" /\ DOMAIN act = {"op", "ev", "c", "mode", "text", "query", "id"}
  BY Zenon DEF Act
<1>2. a = [act EXCEPT !.text = text]
  BY Zenon DEF Literal
<1> HIDE DEF act, a
<1>3. a.op = "InsertLiteral" /\ a.text = text
  BY <1>1, <1>2
<1>4. text \in Seq({text[i] : i \in DOMAIN text})
  OBVIOUS
<1> HIDE DEF text
<1>5. a.op \in Operations
  BY <1>3 DEF Operations
<1>6. IsAction(a)
  BY <1>3, <1>4, <1>5 DEF IsAction
<1> USE DEF a, text
<1> QED BY <1>3, <1>6 DEF Sent

LEMMA ChoiceSent ==
  ASSUME NEW x, NEW a, Sent(a)
  PROVE  Sent(Resolved(x, a)) /\ Sent(AsLiteral(a))
<1>1. Resolved(x, a) = a \/ \E u : Resolved(x, a) = Literal(<<u>>)
  BY DEF Resolved
<1>2. AsLiteral(a) = a \/ \E u : AsLiteral(a) = Literal(<<u>>)
  BY DEF AsLiteral
<1> QED BY <1>1, <1>2, LiteralSent

\* What one step of the engine is, for the plan that carries it out.
LEMMA StepReady ==
  ASSUME NEW e, Mine(e), NEW a, Sent(a), NEW step, step \in {Dispatch(e, a), None(e)}
  PROVE  /\ Mine(step.engine) /\ Binds(e, step.engine)
         /\ step.engine.query = e.query => AllCandidates(step.engine) = AllCandidates(e)
         /\ OpOk(PlanOp(step))
<1>1. EngineOk(e) /\ e.profile = Profile /\ e.query[2] \in Nat
  BY MineFields
<1>2. IsSeq(step.text)
  <2>1. Sends(e, a)
    BY <1>1 DEF Sends, Sent
  <2>2. IsSeq(Dispatch(e, a).text)
    BY <1>1, <2>1, DispatchText, ResourceAssumption, CharAssumption
  <2>3. IsSeq(None(e).text)
    BY QuietText, ShortText
  <2> QED BY <2>2, <2>3
<1>3. OpOk(PlanOp(step))
  <2> DEFINE spelling == step.engine.spelling
  <2>1. PlanOp(step) \in {NoOp, CommitAndReplace(step.text, 0),
                          Op("CommitThenUpdate", step.text, step.replace, spelling, FALSE),
                          CompositionUpdate(spelling), EndComposition(TRUE)}
    <3> HIDE DEF spelling
    <3> QED BY Zenon DEF PlanOp, spelling
  <2>2. /\ OpOk(NoOp) /\ OpOk(CommitAndReplace(step.text, 0))
        /\ OpOk(Op("CommitThenUpdate", step.text, step.replace, spelling, FALSE))
        /\ OpOk(CompositionUpdate(spelling)) /\ OpOk(EndComposition(TRUE))
    BY <1>2, OpsOk
  <2> HIDE DEF spelling
  <2> QED BY <2>1, <2>2
<1>4. CASE step = None(e)
  <2>1. step.engine = e
    BY <1>4, StepFields
  <2>2. Binds(e, e)
    BY <1>1 DEF Binds
  <2> QED BY <1>3, <2>1, <2>2
<1>5. CASE step = Dispatch(e, a)
  <2>1. Sends(e, a)
    BY <1>1 DEF Sends, Sent
  <2>2. Dispatched(e, a, step)
    BY <1>1, <1>5, <2>1, DispatchSound, ResourceAssumption, CharAssumption
  <2>3. Mine(step.engine)
    BY <1>1, <2>2 DEF Dispatched, Binds, Mine
  <2> QED BY <1>3, <2>2, <2>3 DEF Dispatched
<1> QED BY <1>4, <1>5

-----------------------------------------------------------------------------
(* The calls that are not about runtimes, once more. *)

LEMMA SeenFrame ==
  ASSUME NEW x, Seen(x), NEW y,
         \A f \in {"prediction", "wait", "view", "pending", "context", "revision"} :
           y[f] = x[f]
  PROVE  Seen(y)
<1>1. /\ y.prediction = x.prediction /\ y.wait = x.wait /\ y.view = x.view
      /\ y.pending = x.pending /\ y.context = x.context /\ y.revision = x.revision
  OBVIOUS
<1> QED BY <1>1 DEF Seen, Allowed, Prediction, R, Items

LEMMA DispatchedSteady ==
  ASSUME NEW x, Shape(x), Steady(x), x.wait = {}, NEW a, Sent(a), NEW wasLegacy,
         NEW y, y = PrepareDispatched(x, a, wasLegacy)
  PROVE  Steady(y) /\ (Seen(x) => Seen(y))
<1> DEFINE step == IF x.gate THEN Dispatch(x.engine, a) ELSE None(x.engine)
           shown == x.prediction # {}
           current == IF shown THEN DefaultView ELSE x.view
           dismiss == shown /\ (a.op = "Cancel" \/ IsLegacy(a, {"Esc"}))
           rollback == IF wasLegacy /\ ~Touch /\ x.engine.mode # "Main"
                       THEN {x.engine} ELSE {}
           parts == [op |-> PlanOp(step), view |-> PlanView(step, current),
             consumed |-> dismiss \/ (x.gate /\ Disposition(step) = "Handled"),
             unchanged |-> step.kind \in {"None", "Passthrough"} /\ ~shown,
             predict |-> PlainRound(x.engine), cleanup |-> FALSE,
             rollback |-> rollback]
<1>1. y = x \/ y = Stage(x, step.engine, parts)
  BY Zenon DEF PrepareDispatched, PlanStep
<1>2. parts.op = PlanOp(step) /\ parts.rollback = rollback
  BY Zenon
<1>3. (Touch => rollback = {}) /\ \A e \in rollback : e = x.engine
  OBVIOUS
<1>4. step \in {Dispatch(x.engine, a), None(x.engine)}
  BY Zenon
<1> HIDE DEF step, parts, rollback
<1>5. /\ EnginesBase(x) /\ FieldsOk(x) /\ (x.prediction # {} => Open(x)) /\ Mine(x.engine)
      /\ Mine(x.published) /\ Continues(x.published, x.engine)
      /\ x.engine.query[1] <= x.generation + 2
  BY DEF Steady, EnginesOk, EnginesBase, OffersOk, Offers
<1>6. /\ Mine(step.engine) /\ Binds(x.engine, step.engine)
      /\ step.engine.query = x.engine.query =>
           AllCandidates(step.engine) = AllCandidates(x.engine)
      /\ OpOk(PlanOp(step))
  BY <1>4, <1>5, StepReady
<1>7. Continues(x.published, step.engine) /\ step.engine.query[1] <= x.generation + 2
  BY <1>5, <1>6, ContinuesOn DEF Binds
<1>8. CASE y = x
  BY <1>8
<1>9. CASE y # x
  <2>1. y = Stage(x, step.engine, parts)
    BY <1>1, <1>9
  <2>2. Steady(y)
    BY <1>2, <1>3, <1>5, <1>6, <1>7, <1>9, <2>1, StageSteady
  <2>3. ASSUME Seen(x) PROVE Seen(y)
    BY <1>9, <2>1, <2>3, StageSeen DEF Seen
  <2> QED BY <2>2, <2>3
<1> QED BY <1>8, <1>9

LEMMA PrepareSteady ==
  ASSUME NEW x, Good(x), Steady(x), NEW a, Sent(a), NEW y, y = Prepare(x, a)
  PROVE  Steady(y) /\ (Seen(x) => Seen(y))
<1> DEFINE settled == IF x.wait = {} THEN x ELSE [x EXCEPT !.wait = {}, !.prediction = {}]
           act == Resolved(settled, a)
           ready == IF LeavesPrefix(x, act) THEN InvalidatePrefix(settled) ELSE settled
           passed == [op |-> NoOp, view |-> x.view, consumed |-> FALSE, unchanged |-> TRUE,
                      predict |-> FALSE, cleanup |-> FALSE, rollback |-> {}]
           sent == IF Restricted(x) THEN AsLiteral(act) ELSE act
<1>1. y \in {settled, ready, Stage(ready, x.engine, passed),
             PrepareDispatched(ready, sent, ~Restricted(x) /\ act.op = "Legacy")}
  BY Zenon DEF Prepare
<1>2. Sent(sent)
  BY ChoiceSent
<1>3. passed.op = NoOp /\ passed.rollback = {}
  BY Zenon
<1> HIDE DEF act, passed, sent
<1>4. Shape(x) /\ PrefixOk(x.prefix.text)
  BY DEF Good, Steady, FieldsOk
<1>5. /\ Shape(settled) /\ Steady(settled) /\ settled.wait = {} /\ (Seen(x) => Seen(settled))
      /\ PrefixOk(settled.prefix.text) /\ settled.engine = x.engine
  <2>1. CASE x.wait = {}
    BY <1>4, <2>1
  <2>2. CASE x.wait # {}
    <3> DEFINE w == [x EXCEPT !.wait = {}, !.prediction = {}]
    <3>1. /\ Shape(w) /\ w.wait = {} /\ w.prediction = {}
          /\ \A f \in SessionFields \ {"wait", "prediction"} : w[f] = x[f]
      BY <1>4 DEF Shape
    <3> HIDE DEF w
    <3>2. Steady(w) /\ w.engine = x.engine /\ w.prefix = x.prefix
      BY <1>4, <3>1, FrameSteady
    <3>3. w.pending = {}
      BY <2>2, <3>1 DEF Good, NothingPredicted
    <3>4. Seen(w)
      BY <3>1, <3>3, NothingSeen DEF Offers
    <3> USE DEF w
    <3> QED BY <1>4, <2>2, <3>1, <3>2, <3>4
  <2> QED BY <2>1, <2>2
<1> HIDE DEF settled
<1>6. /\ Shape(ready) /\ Steady(ready) /\ ready.wait = {} /\ (Seen(settled) => Seen(ready))
      /\ ready.engine = x.engine
  <2> DEFINE i == InvalidatePrefix(settled)
  <2>1. /\ Shape(i) /\ i.prefix.text = <<>>
        /\ \A f \in SessionFields \ {"prefix"} : i[f] = settled[f]
    BY <1>5, InvalidateEffect
  <2> HIDE DEF i
  <2>2. Steady(i)
    BY <1>5, <2>1, NoPrefix, FrameSteady
  <2>3. Seen(settled) => Seen(i)
    BY <2>1, SeenFrame
  <2>4. ready \in {i, settled}
    BY Zenon DEF i
  <2> HIDE DEF ready
  <2> QED BY <1>5, <2>1, <2>2, <2>3, <2>4
<1> HIDE DEF ready
<1>7. ASSUME y = Stage(ready, x.engine, passed), y # ready
      PROVE  Steady(y) /\ (Seen(ready) => Seen(y))
  <2>1. /\ EnginesBase(ready) /\ FieldsOk(ready) /\ (ready.prediction # {} => Open(ready))
        /\ Mine(x.engine) /\ Continues(ready.published, x.engine)
        /\ x.engine.query[1] <= ready.generation + 2
    BY <1>6 DEF Steady, EnginesOk, EnginesBase, OffersOk, Offers
  <2>2. OpOk(passed.op) /\ passed.rollback = {}
    BY <1>3, OpsOk
  <2>3. Steady(y)
    BY <1>6, <1>7, <2>1, <2>2, StageSteady
  <2>4. ASSUME Seen(ready) PROVE Seen(y)
    BY <1>6, <1>7, <2>4, StageSeen DEF Seen
  <2> QED BY <2>3, <2>4
<1>8. ASSUME NEW wasLegacy, y = PrepareDispatched(ready, sent, wasLegacy)
      PROVE  Steady(y) /\ (Seen(ready) => Seen(y))
  BY <1>2, <1>6, <1>8, DispatchedSteady
<1> QED BY <1>1, <1>5, <1>6, <1>7, <1>8

LEMMA ClearSteady ==
  ASSUME NEW x, Shape(x), Steady(x), NEW y, y = ClearPrediction(x)
  PROVE  /\ Shape(y) /\ Steady(y) /\ y.prediction = {}
         /\ y.pending = x.pending /\ (x.pending = {} => Seen(y))
<1>1. /\ Shape(y) /\ NothingPredicted(y) /\ y.prefix.text = <<>>
      /\ \A f \in SessionFields \ {"prefix", "prediction", "wait", "view"} : y[f] = x[f]
  BY ClearEffect
<1>2. Steady(y)
  BY <1>1, NoPrefix, FrameSteady DEF NothingPredicted
<1>3. ASSUME x.pending = {} PROVE Seen(y)
  BY <1>1, <1>3, NothingSeen DEF Offers, NothingPredicted
<1> QED BY <1>1, <1>2, <1>3 DEF NothingPredicted

\* Where something is offered a control event is never refused.
LEMMA OpenIsTaken ==
  ASSUME NEW x, ~x.closed, Touch => x.engine.spelling = <<>>, NEW y, NEW op,
         x.engine.spelling = <<>> => op.kind = "End"
  PROVE  ~Unavailable(y, op)
  BY DEF Unavailable

LEMMA FinishOk ==
  ASSUME NEW x, Mine(x.engine)
  PROVE  OpOk(FinishOp(x)) /\ (x.engine.spelling = <<>> => FinishOp(x).kind = "End")
<1>1. IsSeq(x.engine.spelling)
  BY MineFields, SpellingIsList
<1>2. \A d \in BOOLEAN : EndComposition(d).kind = "End"
  BY DEF EndComposition, Op
<1>3. FinishOp(x) \in {CommitAndReplace(x.engine.spelling, 0), EndComposition(InRound(x.engine))}
  BY Zenon DEF FinishOp
<1>4. InRound(x.engine) \in BOOLEAN
  BY DEF InRound
<1>5. OpOk(FinishOp(x))
  BY <1>1, <1>3, <1>4, OpsOk
<1>6. x.engine.spelling = <<>> => FinishOp(x) = EndComposition(InRound(x.engine))
  BY Zenon DEF FinishOp
<1> QED BY <1>2, <1>4, <1>5, <1>6

\* An emptied engine continues the published one.
LEMMA EmptiedReady ==
  ASSUME NEW x, EnginesBase(x)
  PROVE  LET g == Emptied(x.engine)
         IN /\ Mine(g) /\ g.query[1] = x.engine.query[1] /\ Continues(x.published, g)
            /\ g.spelling = <<>>
<1> DEFINE g == Emptied(x.engine)
<1>1. Mine(g) /\ Binds(x.engine, g) /\ g.query # x.engine.query /\ g.spelling = <<>>
  BY EmptiedMine DEF EnginesBase
<1> HIDE DEF g
<1>2. Continues(x.published, g)
  BY <1>1, ContinuesOn DEF EnginesBase
<1> USE DEF g
<1> QED BY <1>1, <1>2 DEF Binds

LEMMA LoseFocusSteady ==
  ASSUME NEW x, Shape(x), Steady(x), NEW y, y = LoseFocus(x)
  PROVE  Steady(y) /\ Seen(y)
<1> DEFINE c == ClearPrediction(x)
           next == Emptied(x.engine)
           op == FinishOp(x)
<1>1. y = StageCleared(c, next, op, FALSE)
  BY DEF LoseFocus
<1>2. /\ Shape(c) /\ Steady(c) /\ c.prediction = {}
      /\ c.pending = x.pending /\ c.engine = x.engine /\ c.published = x.published
      /\ c.generation = x.generation /\ c.closed = x.closed
  BY ClearSteady, ClearEffect
<1>3. EnginesBase(x) /\ Mine(x.engine) /\ x.engine.query[1] <= x.generation + 2
  BY DEF Steady, EnginesOk, EnginesBase
<1>4. Mine(next) /\ next.query[1] = x.engine.query[1] /\ Continues(x.published, next)
  BY <1>3, EmptiedReady
<1>5. OpOk(op) /\ (x.engine.spelling = <<>> => op.kind = "End")
  BY <1>3, FinishOk
<1> HIDE DEF c, next, op
<1>6. EnginesBase(c) /\ FieldsOk(c) /\ next.query[1] <= c.generation + 2
      /\ Continues(c.published, next)
  BY <1>2, <1>3, <1>4 DEF Steady, EnginesOk
<1>7. \/ y = c /\ (c.closed \/ Unavailable(c, op))
      \/ y # c /\ Steady(y) /\ ~Offers(y)
  BY <1>1, <1>2, <1>4, <1>5, <1>6, ClearedStageSteady
<1>8. CASE y = c /\ (c.closed \/ Unavailable(c, op))
  <2>1. ~Offers(c)
    <3> SUFFICES ASSUME Offers(c) PROVE FALSE
      OBVIOUS
    <3>1. Open(x)
      BY <1>2 DEF Offers, Steady, OffersOk
    <3> QED BY <1>2, <1>5, <1>8, <3>1, OpenIsTaken DEF Open
  <2> QED BY <1>2, <1>8, <2>1, NothingSeen
<1> QED BY <1>7, <1>8, NothingSeen

LEMMA RecoverSteady ==
  ASSUME NEW x, Shape(x), Steady(x), NEW y, y = Recover(x)
  PROVE  Steady(y) /\ (Seen(x) => Seen(y))
<1>1. CASE x.closed \/ x.cleanup = {}
  BY <1>1 DEF Recover
<1>2. CASE ~(x.closed \/ x.cleanup = {})
  <2> DEFINE op == EndComposition(The(x.cleanup))
  <2>1. y = StageCleared(x, x.engine, op, TRUE)
    BY <1>2 DEF Recover
  <2>2. The(x.cleanup) \in BOOLEAN
    BY <1>2 DEF The, Steady, FieldsOk
  <2>3. OpOk(op)
    BY <2>2, OpsOk
  <2> HIDE DEF op
  <2>4. ~Offers(x) /\ x.prediction = {}
    BY <1>2 DEF Steady, OffersOk, Open, Offers
  <2>5. /\ EnginesBase(x) /\ FieldsOk(x) /\ Mine(x.engine)
        /\ x.engine.query[1] <= x.generation + 2 /\ Continues(x.published, x.engine)
    BY DEF Steady, EnginesOk, EnginesBase
  <2>6. y = x \/ (Steady(y) /\ ~Offers(y))
    BY <2>1, <2>3, <2>4, <2>5, ClearedStageSteady
  <2> QED BY <2>6, NothingSeen
<1> QED BY <1>1, <1>2

LEMMA GateSteady ==
  ASSUME NEW x, Shape(x), Steady(x), NEW enabled \in BOOLEAN,
         NEW y, y = SetInputGate(x, enabled)
  PROVE  Steady(y) /\ (Seen(x) => Seen(y))
<1> DEFINE e == x.engine
           g == [x EXCEPT !.gate = enabled]
           c == ClearPrediction(g)
           next == Emptied(e)
           op == CASE InRound(e) -> EndComposition(TRUE)
                   [] ~InRound(e) /\ e.spelling # <<>> ->
                        CommitAndReplace(e.spelling, Len(e.spelling))
                   [] OTHER -> EndComposition(FALSE)
<1>1. CASE x.closed \/ x.gate = enabled
  BY <1>1 DEF SetInputGate
<1>2. CASE ~x.closed /\ x.gate # enabled
  <2>1. \/ y = c /\ enabled
        \/ y = StageCleared(c, next, op, FALSE) /\ ~enabled
    BY <1>2, Zenon DEF SetInputGate
  <2>2. /\ Shape(g) /\ g.gate = enabled /\ \A f \in SessionFields \ {"gate"} : g[f] = x[f]
    BY DEF Shape
  <2>3. EnginesBase(x) /\ Mine(e) /\ e.query[1] <= x.generation + 2 /\ EnginesOk(x)
        /\ FieldsOk(x)
    BY DEF Steady, EnginesOk, EnginesBase
  <2>4. Mine(next) /\ next.query[1] = e.query[1] /\ Continues(x.published, next)
    BY <2>3, EmptiedReady
  <2>5. OpOk(op) /\ (e.spelling = <<>> => op.kind = "End")
    <3>1. IsSeq(e.spelling)
      BY <2>3, MineFields, SpellingIsList
    <3>2. \A d \in BOOLEAN : EndComposition(d).kind = "End"
      BY DEF EndComposition, Op
    <3>3. /\ op \in {EndComposition(TRUE), EndComposition(FALSE),
                     CommitAndReplace(e.spelling, Len(e.spelling))}
          /\ e.spelling = <<>> => op \in {EndComposition(TRUE), EndComposition(FALSE)}
      BY Zenon
    <3> HIDE DEF op, e
    <3> QED BY <3>1, <3>2, <3>3, OpsOk
  <2> HIDE DEF g, next, op
  <2>6. /\ Shape(c) /\ NothingPredicted(c) /\ c.prefix.text = <<>>
        /\ \A f \in SessionFields \ {"prefix", "prediction", "wait", "view"} : c[f] = g[f]
    BY <2>2, ClearEffect
  <2> HIDE DEF c
  <2>7. /\ c.engine = e /\ c.published = x.published /\ c.generation = x.generation
        /\ c.pending = x.pending /\ c.gate = enabled /\ c.closed = x.closed
        /\ c.cleanup = x.cleanup /\ c.revision = x.revision /\ c.deferred = x.deferred
        /\ c.prediction = {}
    BY <2>2, <2>6 DEF NothingPredicted
  <2>8. EnginesOk(c) /\ EnginesBase(c) /\ FieldsOk(c)
    BY <2>3, <2>6, <2>7, NoPrefix DEF EnginesOk, EnginesBase, FieldsOk
  <2>9. next.query[1] <= c.generation + 2 /\ Continues(c.published, next)
    BY <2>3, <2>4, <2>7
  <2>10. CASE y = c /\ enabled
    <3>1. ~Offers(c)
      BY <1>2, <2>7, <2>10 DEF Steady, OffersOk, Open, Offers
    <3> QED BY <2>8, <2>10, <3>1, NothingSeen DEF Steady
  <2>11. CASE y = StageCleared(c, next, op, FALSE) /\ ~enabled
    <3>0. Shape(c) /\ c.prediction = {} /\ Mine(next) /\ OpOk(op)
      BY <2>4, <2>5, <2>6, <2>7
    <3>1. \/ y = c /\ (c.closed \/ Unavailable(c, op))
          \/ y # c /\ Steady(y) /\ ~Offers(y)
      BY <2>8, <2>9, <2>11, <3>0, ClearedStageSteady
    <3>2. CASE y = c /\ (c.closed \/ Unavailable(c, op))
      <4>1. ~Offers(c)
        <5> SUFFICES ASSUME Offers(c) PROVE FALSE
          OBVIOUS
        <5>1. Open(x)
          BY <2>7 DEF Offers, Steady, OffersOk
        <5> QED BY <2>5, <2>7, <3>2, <5>1, OpenIsTaken DEF Open
      <4> QED BY <2>8, <3>2, <4>1, NothingSeen DEF Steady
    <3> QED BY <3>1, <3>2, NothingSeen
  <2> QED BY <2>1, <2>10, <2>11
<1> QED BY <1>1, <1>2

\* The answer of the model puts its list on the screen.
LEMMA CompleteSteady ==
  ASSUME NEW x, Good(x), Steady(x), NEW key, NEW items,
         NEW y, y = CompletePrediction(x, key, items)
  PROVE  Steady(y) /\ (Seen(x) => Seen(y))
<1> DEFINE w == [x EXCEPT !.wait = {}]
           list == [query |-> key.query, items |-> items]
           one == {list}
           view == PredictionView(items)
<1>1. CASE x.wait = {} \/ key \notin x.wait
  BY <1>1 DEF CompletePrediction
<1>2. CASE key \in x.wait
  <2>1. /\ x.pending = {} /\ x.prediction # {} /\ Shape(x)
        /\ key.token = Token(x) /\ key.context = x.prefix.generation
        /\ \E p \in x.prediction : p.query = key.query
    BY <1>2 DEF Good, NothingPredicted, RequestIsCurrent
  <2>2. IF items = <<>> THEN y = [w EXCEPT !.prediction = {}, !.view = DefaultView]
        ELSE y = [w EXCEPT !.prediction = one, !.view = view]
    <3> HIDE DEF w, list, one, view
    <3>1. x.wait # {} /\ ~(key.token # Token(x) \/ key.context # x.prefix.generation)
          /\ ~(\A p \in x.prediction : p.query # key.query)
      BY <1>2, <2>1
    <3> QED BY <1>2, <3>1, Zenon DEF CompletePrediction, w, list, one, view
  <2>3. The(one).items = items
    <3>1. list.items = items
      OBVIOUS
    <3> HIDE DEF list
    <3>2. The(one) = list
      BY DEF The
    <3> QED BY <3>1, <3>2
  <2> HIDE DEF list, one, view
  <2>4. \/ items = <<>> /\ y.prediction = {}
        \/ y.prediction = one /\ y.view = view
    BY <2>1, <2>2 DEF Shape
  <2>5. \A f \in SessionFields \ {"wait", "prediction", "view"} : y[f] = x[f]
    BY <2>1, <2>2 DEF Shape
  <2>6. PrefixOk(x.prefix.text)
    BY DEF Steady, FieldsOk
  <2> HIDE DEF w
  <2>7. y.pending = {} /\ y.context = x.context /\ y.revision = x.revision
        /\ y.prefix = x.prefix
    BY <2>1, <2>5
  <2>8. Steady(y)
    BY <2>1, <2>5, <2>6, <2>7, FrameSteady
  <2>9. Seen(x) => Allowed(y)
    BY <2>1, <2>7 DEF Seen, Allowed, Prediction, R
  <2>10. Seen(x) => Seen(y)
    BY <2>3, <2>4, <2>7, <2>9 DEF Seen, Items, view
  <2> QED BY <2>8, <2>10
<1> QED BY <1>1, <1>2

LEMMA ObserveSteady ==
  ASSUME NEW x, Good(x), Steady(x), NEW text, IsSeq(text), NEW y, y = ObservePrefix(x, text)
  PROVE  Steady(y) /\ (x.pending = {} /\ Seen(x) => Seen(y))
<1> DEFINE n == x.prefix.generation + 1
           seen == [x EXCEPT !.prefix.text = LastOf(text), !.prefix.generation = n]
           gone == [seen EXCEPT !.wait = {}, !.prediction = {}, !.view = DefaultView]
<1>1. CASE y = x
  BY <1>1
<1>2. CASE y # x
  <2>1. Observe(x, text) \in {x, seen}
    BY DEF Observe
  <2>2. Shape(x)
    BY DEF Good
  <2>3. /\ DOMAIN seen = SessionFields /\ seen.prefix.text = LastOf(text)
        /\ \A f \in SessionFields \ {"prefix"} : seen[f] = x[f]
    <3> HIDE DEF n
    <3>1. /\ DOMAIN seen = SessionFields
          /\ seen.prefix = [[x.prefix EXCEPT !.text = LastOf(text)] EXCEPT !.generation = n]
          /\ \A f \in SessionFields \ {"prefix"} : seen[f] = x[f]
      BY <2>2 DEF Shape
    <3> HIDE DEF seen
    <3>2. seen.prefix.text = LastOf(text)
      BY <2>2, <3>1 DEF Shape
    <3> QED BY <3>1, <3>2
  <2> HIDE DEF seen
  <2>4. Observe(x, text) = seen
    <3>1. Observe(x, text) = x => y = x
      BY DEF ObservePrefix
    <3> QED BY <1>2, <2>1, <3>1
  <2>5. \/ y = gone
        \/ y = seen /\ (x.prediction = {} \/ seen.prefix.text = x.prefix.text)
    BY <1>2, <2>4 DEF ObservePrefix
  <2>6. y = seen => x.prediction = {}
    <3>1. x.prefix.text = LastOf(text) => Observe(x, text) = x
      BY DEF Observe
    <3>2. x.prefix.text = LastOf(text) => y = x
      BY <3>1 DEF ObservePrefix
    <3>3. y = gone => gone # seen \/ x.prediction = {}
      <4>1. gone.prediction = {} /\ seen.prediction = x.prediction
        BY <2>3
      <4> QED BY <4>1
    <3> QED BY <1>2, <2>3, <2>5, <3>2, <3>3
  <2>7. /\ y.prediction = {} /\ y.prefix.text = LastOf(text)
        /\ \A f \in SessionFields \ {"prefix", "wait", "prediction", "view"} : y[f] = x[f]
    BY <2>3, <2>5, <2>6
  <2> HIDE DEF gone
  <2>8. Steady(y)
    BY <2>7, LastOk, FrameSteady
  <2>9. x.pending = {} => Seen(y)
    BY <2>7, NothingSeen DEF Offers
  <2> QED BY <2>8, <2>9
<1> QED BY <1>1, <1>2

LEMMA BindText ==
  ASSUME NEW x, Shape(x)
  PROVE  Bind(x).prefix.text \in {x.prefix.text, <<>>}
<1> DEFINE editor == <<x.context.editor, x.context.epoch>>
           same == x.prefix.editor = editor /\ x.prefix.enabled = Allowed(x)
           kept == IF same THEN x ELSE InvalidatePrefix(x)
           y == [kept EXCEPT !.prefix.editor = editor, !.prefix.enabled = Allowed(x)]
<1>1. Bind(x) = y
  BY DEF Bind
<1>2. Shape(InvalidatePrefix(x)) /\ InvalidatePrefix(x).prefix.text = <<>>
  BY InvalidateEffect
<1>3. kept \in {x, InvalidatePrefix(x)}
  OBVIOUS
<1> HIDE DEF kept, editor
<1>4. Shape(kept) /\ kept.prefix.text \in {x.prefix.text, <<>>}
  BY <1>2, <1>3
<1>5. y.prefix = [[kept.prefix EXCEPT !.editor = editor] EXCEPT !.enabled = Allowed(x)]
  BY <1>4 DEF Shape
<1> HIDE DEF y
<1>6. y.prefix.text = kept.prefix.text
  BY <1>4, <1>5 DEF Shape
<1> QED BY <1>1, <1>4, <1>6

LEMMA AssistanceSteady ==
  ASSUME NEW x, Shape(x), Steady(x), NEW allowed, NEW y, y = SetAssistance(x, allowed)
  PROVE  Steady(y) /\ (x.pending = {} /\ Seen(x) => Seen(y))
<1> DEFINE c == ClearPrediction(x)
           z == [c EXCEPT !.context.assist = allowed]
<1>1. CASE x.context.assist = allowed
  BY <1>1 DEF SetAssistance
<1>2. CASE x.context.assist # allowed
  <2>1. /\ Shape(c) /\ NothingPredicted(c) /\ c.prefix.text = <<>>
        /\ \A f \in SessionFields \ {"prefix", "prediction", "wait", "view"} : c[f] = x[f]
    BY ClearEffect
  <2>2. y = Bind(z)
    BY <1>2 DEF SetAssistance
  <2> HIDE DEF c
  <2>3. /\ Shape(z) /\ NothingPredicted(z) /\ z.prefix.text = <<>>
        /\ \A f \in SessionFields \ {"prefix", "prediction", "wait", "view", "context"} :
             z[f] = x[f]
    <3>1. /\ DOMAIN z = SessionFields
          /\ z.context = [c.context EXCEPT !.assist = allowed]
          /\ \A f \in SessionFields \ {"context"} : z[f] = c[f]
      BY <2>1 DEF Shape
    <3>2. DOMAIN z.context = ContextFields
      BY <2>1, <3>1 DEF Shape
    <3> HIDE DEF z
    <3> QED BY <2>1, <3>1, <3>2 DEF Shape, NothingPredicted
  <2> HIDE DEF z
  <2>4. /\ \A f \in SessionFields \ {"prefix"} : y[f] = z[f]
        /\ y.prefix.text = <<>>
    BY <2>2, <2>3, BindEffect, BindText DEF DisabledIsEmpty
  <2>5. /\ y.prediction = {} /\ y.pending = x.pending
        /\ \A f \in {"engine", "published", "generation", "pending", "gate", "closed",
                     "cleanup", "revision", "deferred"} : y[f] = x[f]
    BY <2>3, <2>4 DEF NothingPredicted
  <2>6. Steady(y)
    BY <2>4, <2>5, NoPrefix, FrameSteady
  <2>7. x.pending = {} => Seen(y)
    BY <2>5, NothingSeen DEF Offers
  <2> QED BY <2>6, <2>7
<1> QED BY <1>1, <1>2

-----------------------------------------------------------------------------
(* A lost context leaves a new engine or an emptied one, published. *)

LEMMA LostSteady ==
  ASSUME NEW x, Shape(x), Steady(x), x.deferred # {} => Touch,
         NEW c, DOMAIN c = ContextFields, NEW preserve,
         NEW y, y = InvalidateContext(x, c, preserve)
  PROVE  Steady(y) /\ ~Offers(y)
<1> DEFINE base == IF preserve THEN x.engine.base ELSE "Main"
           fresh == NewEngine(x.engine.tables, Profile, x.generation + 2)
           engine == InvalidateQuery(IF preserve THEN ResetContext(x.engine) ELSE fresh)
           cleared == ClearPrediction(x)
           moved == [cleared EXCEPT !.context = c]
           left == Bind(moved)
           dropped == [left EXCEPT !.pending = {}, !.cleanup = {}, !.engine = engine]
           adopted == AdoptDeferred(dropped, base)
           published == [adopted EXCEPT !.generation = @ + 1, !.published = adopted.engine,
                                        !.view = DefaultView]
<1>0. y = Bind(published)
  BY DEF InvalidateContext
<1>a. /\ Mine(x.engine) /\ x.engine.query[1] <= x.generation + 2 /\ x.generation \in Nat
      /\ x.engine.tables \in DOMAIN Tables
  BY MineFields DEF Steady, EnginesOk, EnginesBase, Shape
<1>b. Mine(engine) /\ engine.query[1] <= x.generation + 2
  <2>1. CASE preserve
    <3>1. engine = Emptied(x.engine)
      BY <2>1 DEF Emptied
    <3> QED BY <1>a, <3>1, EmptiedMine DEF Binds
  <2>2. CASE ~preserve
    <3>1. engine = InvalidateQuery(fresh)
      BY <2>2
    <3>2. Mine(fresh) /\ fresh.query = <<x.generation + 2, 0>>
      BY <1>a, NewMine
    <3> HIDE DEF fresh, engine
    <3>3. Mine(engine) /\ engine.query[1] = fresh.query[1]
      BY <3>1, <3>2, RevisedMine DEF Binds
    <3> QED BY <1>a, <3>2, <3>3
  <2> QED BY <2>1, <2>2
<1> HIDE DEF base, engine
<1>1. /\ Shape(cleared) /\ NothingPredicted(cleared) /\ cleared.prefix.text = <<>>
      /\ \A f \in SessionFields \ {"prefix", "prediction", "wait", "view"} :
           cleared[f] = x[f]
  BY ClearEffect
<1> HIDE DEF cleared
<1>2. /\ Shape(moved) /\ NothingPredicted(moved) /\ moved.prefix.text = <<>>
      /\ \A f \in SessionFields \ {"prefix", "prediction", "wait", "view", "context"} :
           moved[f] = x[f]
  BY <1>1 DEF Shape, NothingPredicted
<1> HIDE DEF moved
<1>3. /\ Shape(left) /\ left.prefix.text = <<>>
      /\ \A f \in SessionFields \ {"prefix"} : left[f] = moved[f]
  BY <1>2, BindEffect, BindText DEF DisabledIsEmpty
<1> HIDE DEF left
<1>4. /\ Shape(dropped) /\ dropped.pending = {} /\ dropped.cleanup = {}
      /\ dropped.engine = engine
      /\ \A f \in SessionFields \ {"pending", "cleanup", "engine"} : dropped[f] = left[f]
  BY <1>3 DEF Shape
<1> HIDE DEF dropped
<1>5. /\ Shape(adopted) /\ adopted.deferred = {} /\ adopted.revision = Adopted(dropped)
      /\ \A f \in SessionFields \ {"revision", "deferred", "engine"} : adopted[f] = dropped[f]
  BY <1>4, AdoptEffect
<1>c. /\ dropped.deferred = x.deferred /\ dropped.generation = x.generation
      /\ dropped.revision = x.revision
  BY <1>2, <1>3, <1>4
<1>d. /\ Mine(adopted.engine) /\ adopted.engine.query[1] <= x.generation + 2
      /\ adopted.revision \in DOMAIN Runtimes
  <2>1. CASE dropped.deferred = {}
    <3>1. adopted = dropped
      BY <2>1 DEF AdoptDeferred
    <3> QED BY <1>b, <1>4, <1>c, <3>1 DEF Steady, FieldsOk
  <2>2. CASE dropped.deferred # {}
    <3> DEFINE r == The(dropped.deferred)
               e == FreshEngine(dropped, r, base)
    <3>1. r \in DOMAIN Runtimes
      BY <1>c, <2>2 DEF The, Steady, FieldsOk
    <3>2. Touch
      BY <1>c, <2>2
    <3>3. Mine(e) /\ e.query[1] = x.generation + 2
      BY <1>a, <1>c, <3>1, <3>2, FreshMine
    <3>4. adopted = [dropped EXCEPT !.revision = r, !.deferred = {}, !.engine = e]
      BY <2>2 DEF AdoptDeferred
    <3> HIDE DEF r, e, adopted
    <3>5. adopted.engine = e /\ adopted.revision = r
      BY <1>4, <3>4 DEF Shape
    <3> QED BY <1>a, <3>1, <3>3, <3>5
  <2> QED BY <2>1, <2>2
<1> HIDE DEF adopted
<1>6. /\ Shape(published) /\ published.generation = adopted.generation + 1
      /\ published.published = adopted.engine
      /\ \A f \in SessionFields \ {"generation", "published", "view"} :
           published[f] = adopted[f]
  <2>1. DOMAIN adopted = SessionFields /\ adopted.generation \in Nat
    BY <1>5 DEF Shape
  <2>2. /\ DOMAIN published = SessionFields
        /\ published.generation = adopted.generation + 1
        /\ published.published = adopted.engine
        /\ \A f \in SessionFields \ {"generation", "published", "view"} :
             published[f] = adopted[f]
    BY <2>1
  <2> HIDE DEF published
  <2> QED BY <1>5, <2>1, <2>2 DEF Shape
<1> HIDE DEF published
<1>7. published.prefix.text = <<>>
  BY <1>3, <1>4, <1>5, <1>6
<1>8. /\ y.prefix.text = <<>>
      /\ \A f \in SessionFields \ {"prefix"} : y[f] = published[f]
  BY <1>0, <1>6, <1>7, BindEffect, BindText DEF DisabledIsEmpty
<1>9. /\ y.engine = adopted.engine /\ y.published = adopted.engine
      /\ y.generation = x.generation + 1 /\ y.pending = {} /\ y.prediction = {}
      /\ y.cleanup = {} /\ y.deferred = {} /\ y.revision = adopted.revision
      /\ y.gate = x.gate /\ y.closed = x.closed
  BY <1>2, <1>3, <1>4, <1>5, <1>6, <1>8 DEF NothingPredicted
<1>10. EnginesOk(y)
  <2>1. Continues(adopted.engine, adopted.engine)
    BY <1>d, ContinuesItself
  <2>2. adopted.engine.query[1] \in Nat
    BY <1>d, MineFields
  <2> QED BY <1>a, <1>d, <1>9, <2>1, <2>2 DEF EnginesOk, EnginesBase
<1>11. ~Offers(y)
  BY <1>9 DEF Offers
<1>12. FieldsOk(y)
  BY <1>d, <1>8, <1>9, NoPrefix DEF Steady, FieldsOk
<1> QED BY <1>10, <1>11, <1>12, NothingSeen DEF Steady

LEMMA TerminatedSteady ==
  ASSUME NEW x, Shape(x), Steady(x), x.deferred # {} => Touch, NEW y, y = HostTerminated(x)
  PROVE  Steady(y) /\ ~Offers(y)
<1> DEFINE c == [x.context EXCEPT !.owns = FALSE, !.epoch = @ + 1]
<1>1. DOMAIN c = ContextFields
  BY DEF Shape
<1>2. y = InvalidateContext(x, c, Touch)
  BY DEF HostTerminated
<1> HIDE DEF c
<1> QED BY <1>1, <1>2, LostSteady

LEMMA CloseSteady ==
  ASSUME NEW x, Shape(x), Steady(x), x.deferred # {} => Touch, NEW y, y = Close(x)
  PROVE  Steady(y) /\ ~Offers(y)
<1> DEFINE h == HostTerminated(x)
<1>1. y = [h EXCEPT !.closed = TRUE, !.deferred = {}]
  BY DEF Close
<1>2. Lost(x, h) /\ Steady(h) /\ ~Offers(h)
  BY TerminatedLost, TerminatedSteady
<1> HIDE DEF h
<1>3. /\ y.closed = TRUE /\ y.deferred = {}
      /\ \A f \in SessionFields \ {"closed", "deferred"} : y[f] = h[f]
  BY <1>1, <1>2 DEF Lost, Good, Shape
<1>4. EnginesOk(y) /\ FieldsOk(y)
  BY <1>2, <1>3 DEF Steady, EnginesOk, EnginesBase, FieldsOk
<1>5. ~Offers(y)
  BY <1>2, <1>3 DEF Offers
<1> QED BY <1>4, <1>5, NothingSeen DEF Steady

LEMMA NewSteady ==
  ASSUME NEW r \in DOMAIN Runtimes, NEW c, NEW y, y = NewSession(r, c)
  PROVE  Steady(y) /\ ~Offers(y)
<1> DEFINE engine == NewEngine(Runtimes[r].tables, Profile, 1)
           allowed == /\ Runtimes[r].prediction.enabled
                      /\ c.purpose = "Text" /\ c.assist
           prefix == [editor |-> <<c.editor, c.epoch>>, enabled |-> allowed,
                      generation |-> 1, text |-> <<>>]
<1>1. y = [engine |-> engine, published |-> engine, revision |-> r, generation |-> 0,
      gate |-> TRUE, context |-> c, view |-> DefaultView, pending |-> {},
      cleanup |-> {}, closed |-> FALSE, deferred |-> {}, prediction |-> {}, wait |-> {},
      prefix |-> prefix]
  BY DEF NewSession
<1>2. Mine(engine) /\ engine.query = <<1, 0>>
  BY NewMine, SessionAssumption
<1>3. prefix.text = <<>>
  OBVIOUS
<1> HIDE DEF engine, prefix
<1>4. /\ y.engine = engine /\ y.published = engine /\ y.revision = r /\ y.generation = 0
      /\ y.gate = TRUE /\ y.pending = {} /\ y.cleanup = {} /\ y.closed = FALSE
      /\ y.deferred = {} /\ y.prediction = {} /\ y.prefix = prefix
  BY <1>1
<1>5. EnginesOk(y)
  <2>1. Continues(engine, engine) /\ engine.query[1] = 1
    BY <1>2, ContinuesItself
  <2> QED BY <1>2, <1>4, <2>1 DEF EnginesOk, EnginesBase
<1>6. FieldsOk(y)
  BY <1>3, <1>4, NoPrefix DEF FieldsOk
<1>7. ~Offers(y)
  BY <1>4 DEF Offers
<1> QED BY <1>5, <1>6, <1>7, NothingSeen DEF Steady

LEMMA ApplySteady ==
  ASSUME NEW x, Shape(x), Steady(x), NEW r \in DOMAIN Runtimes,
         NEW y, y = ApplyRuntime(x, r)
  PROVE  Steady(y) /\ (Seen(x) => Seen(y))
<1> DEFINE bound == [x EXCEPT !.revision = r]
           cleared == ClearPrediction(bound)
           adopted == Bind(cleared)
           base == IF Touch THEN x.engine.base ELSE "Main"
           next == FreshEngine(x, r, base)
           same == InvalidateQuery(x.engine)
           swapped == [adopted EXCEPT !.generation = @ + 1, !.engine = same, !.published = same]
           z == [adopted EXCEPT !.engine = next]
           op == FinishOp(x)
<1>1. CASE Ignores(x, r)
  <2>1. y = x
    BY <1>1 DEF ApplyRuntime
  <2> QED BY <2>1
<1>2. CASE ~Ignores(x, r) /\ Touch /\ x.pending # {}
  <2>1. y = [x EXCEPT !.deferred = {r}]
    BY <1>2 DEF ApplyRuntime
  <2>2. y.deferred = {r} /\ \A f \in SessionFields \ {"deferred"} : y[f] = x[f]
    BY <2>1 DEF Shape
  <2>3. EnginesOk(y) /\ OffersOk(y)
    BY <2>2 DEF Steady, EnginesOk, EnginesBase, OffersOk, Offers, Open
  <2>4. FieldsOk(y)
    BY <2>2 DEF Steady, FieldsOk
  <2>5. Seen(x) => Seen(y)
    BY <2>2, SeenFrame
  <2> QED BY <2>3, <2>4, <2>5 DEF Steady
<1>3. CASE ~Ignores(x, r) /\ ~(Touch /\ x.pending # {})
  <2>1. (y = swapped /\ x.pending = {}) \/ y = StageCleared(z, next, op, FALSE)
    BY <1>3 DEF ApplyRuntime, InPlace
  <2>2. /\ Mine(x.engine) /\ x.engine.query[1] <= x.generation + 2 /\ x.generation \in Nat
        /\ Mine(x.published) /\ x.published.query[1] <= x.generation + 1
        /\ x.published.query[1] \in Nat
    BY MineFields DEF Steady, EnginesOk, EnginesBase, Shape
  <2>3. Mine(next) /\ next.query[1] = x.generation + 2
    <3>1. Touch \/ base # "English"
      OBVIOUS
    <3> HIDE DEF base
    <3> QED BY <2>2, <3>1, FreshMine
  <2>4. Mine(same) /\ same.query[1] <= x.generation + 2
    BY <2>2, RevisedMine DEF Binds
  <2>5. OpOk(op)
    BY <2>2, FinishOk
  <2> HIDE DEF same, next, op
  <2>6. Shape(bound) /\ bound.revision = r
        /\ \A f \in SessionFields \ {"revision"} : bound[f] = x[f]
    BY DEF Shape
  <2> HIDE DEF bound
  <2>7. /\ Shape(cleared) /\ NothingPredicted(cleared) /\ cleared.prefix.text = <<>>
        /\ \A f \in SessionFields \ {"prefix", "prediction", "wait", "view"} :
             cleared[f] = bound[f]
    BY <2>6, ClearEffect
  <2> HIDE DEF cleared
  <2>8. /\ Shape(adopted) /\ adopted.prefix.text = <<>>
        /\ \A f \in SessionFields \ {"prefix"} : adopted[f] = cleared[f]
    BY <2>7, BindEffect, BindText DEF DisabledIsEmpty
  <2>9. /\ adopted.revision = r /\ adopted.deferred = x.deferred /\ adopted.closed = x.closed
        /\ adopted.pending = x.pending /\ adopted.generation = x.generation
        /\ adopted.cleanup = x.cleanup /\ adopted.gate = x.gate /\ adopted.prediction = {}
        /\ adopted.published = x.published
    BY <2>6, <2>7, <2>8 DEF NothingPredicted
  <2> HIDE DEF adopted
  <2>10. ~x.closed
    BY <1>3 DEF Ignores
  <2>11. CASE y = swapped /\ x.pending = {}
    <3>1. /\ swapped.generation = x.generation + 1
          /\ swapped.engine = same /\ swapped.published = same
          /\ \A f \in SessionFields \ {"generation", "engine", "published"} :
               swapped[f] = adopted[f]
      BY <2>8, <2>9 DEF Shape
    <3> HIDE DEF swapped
    <3>2. /\ y.generation = x.generation + 1 /\ y.engine = same /\ y.published = same
          /\ y.pending = {} /\ y.prediction = {} /\ y.gate = x.gate /\ y.closed = x.closed
          /\ y.cleanup = x.cleanup /\ y.revision = r /\ y.deferred = x.deferred
          /\ y.prefix.text = <<>>
      BY <2>8, <2>9, <2>11, <3>1
    <3>3. EnginesOk(y)
      <4>1. Continues(same, same) /\ same.query[1] \in Nat
        BY <2>4, ContinuesItself, MineFields
      <4> QED BY <2>2, <2>4, <3>2, <4>1 DEF EnginesOk, EnginesBase
    <3>4. FieldsOk(y)
      BY <3>2, NoPrefix DEF Steady, FieldsOk
    <3>5. ~Offers(y)
      BY <3>2 DEF Offers
    <3> QED BY <3>3, <3>4, <3>5, NothingSeen DEF Steady
  <2>12. CASE y = StageCleared(z, next, op, FALSE)
    <3>1. /\ Shape(z) /\ z.engine = next /\ \A f \in SessionFields \ {"engine"} : z[f] = adopted[f]
      BY <2>8 DEF Shape
    <3> HIDE DEF z
    <3>2. /\ z.published = x.published /\ z.generation = x.generation
          /\ z.pending = x.pending /\ z.prediction = {} /\ z.gate = x.gate
          /\ z.closed = x.closed /\ z.cleanup = x.cleanup /\ z.revision = r
          /\ z.deferred = x.deferred /\ z.prefix.text = <<>>
      BY <2>8, <2>9, <3>1
    <3>3. EnginesBase(z) /\ next.query[1] <= z.generation + 2 /\ Continues(z.published, next)
      <4>1. next.query[1] # x.published.query[1]
        BY <2>2, <2>3
      <4> QED BY <2>2, <2>3, <3>1, <3>2, <4>1 DEF EnginesBase, Continues
    <3>4. FieldsOk(z)
      BY <3>2, NoPrefix DEF Steady, FieldsOk
    <3>5. \/ y = z /\ (z.closed \/ Unavailable(z, op))
          \/ y # z /\ Steady(y) /\ ~Offers(y)
      BY <2>3, <2>5, <2>12, <3>1, <3>2, <3>3, <3>4, ClearedStageSteady
    <3>6. CASE y = z /\ (z.closed \/ Unavailable(z, op))
      <4>1. y.pending = {} /\ y.prediction = {}
        BY <1>3, <2>10, <3>2, <3>6 DEF Unavailable
      <4>2. EnginesOk(y) /\ FieldsOk(y)
        BY <3>3, <3>4, <3>6, <4>1 DEF EnginesOk
      <4>3. ~Offers(y)
        BY <4>1 DEF Offers
      <4> QED BY <4>2, <4>3, NothingSeen DEF Steady
    <3> QED BY <3>5, <3>6, NothingSeen
  <2> QED BY <2>1, <2>11, <2>12
<1> QED BY <1>1, <1>2, <1>3

-----------------------------------------------------------------------------
(* The answer of the host, once more. *)

LEMMA PrefixAckOk ==
  ASSUME NEW x, Shape(x), PrefixOk(x.prefix.text), NEW p, OpOk(p.op), NEW outcome
  PROVE  PrefixOk(PrefixAcknowledged(x, p, outcome).prefix.text)
<1> DEFINE y == PrefixAcknowledged(x, p, outcome)
           replaced == Commits(p.op) /\ p.op.replace # 0 /\ ~p.owned
           known == IF replaced THEN <<>> ELSE x.prefix.text
           text == LastOf(known \o p.op.text)
           n == x.prefix.generation + (IF replaced THEN 2 ELSE 1)
           z == [x EXCEPT !.prefix.text = text, !.prefix.generation = n]
<1>1. y = x \/ y = InvalidatePrefix(x) \/ y = z
  BY Zenon DEF PrefixAcknowledged
<1>2. InvalidatePrefix(x).prefix.text = <<>>
  BY InvalidateEffect
<1>3. IsSeq(known) /\ IsSeq(p.op.text)
  BY EmptySequence DEF PrefixOk, OpOk
<1> HIDE DEF known
<1>4. PrefixOk(text)
  BY <1>3, CatOf, LastOk
<1> HIDE DEF text, n
<1>5. z.prefix.text = text
  <2>1. z.prefix = [[x.prefix EXCEPT !.text = text] EXCEPT !.generation = n]
    BY DEF Shape
  <2> HIDE DEF z
  <2> QED BY <2>1 DEF Shape
<1> HIDE DEF y, z
<1>6. PrefixOk(y.prefix.text)
  BY <1>1, <1>2, <1>4, <1>5, NoPrefix
<1> USE DEF y
<1> QED BY <1>6

\* The predictions that follow a commit are published where they may be, and shown or hidden
\* behind the question to the model.
LEMMA PublishSteady ==
  ASSUME NEW x, Shape(x), Steady(x), x.pending = {}, x.prediction = {}, x.wait = {},
         ~x.closed, x.cleanup = {}, NEW y, y = PublishPredictions(x)
  PROVE  Steady(y) /\ Seen(y)
<1> DEFINE items == Recalled(x)
           query == <<0, x.generation>>
           model == Prediction(x).model
           request == [token |-> Token(x), query |-> query, context |-> x.prefix.generation]
           list == [query |-> query, items |-> items]
           one == {list}
           wait == IF model THEN {request} ELSE x.wait
           view == IF model THEN DefaultView ELSE PredictionView(items)
<1>1. \/ y = x
      \/ /\ x.gate /\ Allowed(x) /\ x.engine.spelling = <<>>
         /\ y = [x EXCEPT !.prediction = one, !.wait = wait, !.view = view]
  BY DEF PublishPredictions
<1>2. wait # {} \/ view = PredictionView(items)
  OBVIOUS
<1>3. The(one).items = items
  <2>1. list.items = items
    OBVIOUS
  <2> HIDE DEF list
  <2>2. The(one) = list
    BY DEF The
  <2> QED BY <2>1, <2>2
<1> HIDE DEF items, query, model, request, list, one, wait, view
<1>4. CASE y = x
  <2>1. ~Offers(x)
    BY DEF Offers
  <2> QED BY <1>4, <2>1, NothingSeen
<1>5. CASE /\ x.gate /\ Allowed(x) /\ x.engine.spelling = <<>>
           /\ y = [x EXCEPT !.prediction = one, !.wait = wait, !.view = view]
  <2>1. /\ y.prediction = one /\ y.wait = wait /\ y.view = view
        /\ \A f \in SessionFields \ {"prediction", "wait", "view"} : y[f] = x[f]
    BY <1>5 DEF Shape
  <2>2. EnginesOk(y) /\ FieldsOk(y)
    BY <2>1 DEF Steady, EnginesOk, EnginesBase, FieldsOk
  <2>3. Open(y)
    BY <1>5, <2>1 DEF Open
  <2>4. Allowed(y)
    BY <1>5, <2>1 DEF Allowed, Prediction, R
  <2>5. Seen(y)
    BY <1>2, <1>3, <2>1, <2>4 DEF Seen, Items
  <2> QED BY <2>2, <2>3, <2>5 DEF Steady, OffersOk
<1> QED BY <1>1, <1>4, <1>5

\* A plan whose engines are in order, and whose list may come back.
PlanReady(x, p) ==
  /\ OpOk(p.op) /\ Mine(p.next) /\ p.next.query[1] <= x.generation + 1
  /\ Touch => p.rollback = {}
  /\ \A e \in p.rollback :
       Mine(e) /\ e.query[1] <= x.generation + 1 /\ Continues(x.published, e)
  /\ p.previous # {} => Open(x)

ListReady(x, p) ==
  p.previous # {} => Allowed(x) /\ x.view = PredictionView(The(p.previous).items)

LEMMA AppliedSteady ==
  ASSUME NEW x, Shape(x), Steady(x), x.pending = {}, x.prediction = {}, x.wait = {},
         ~x.closed, NEW p, PlanReady(x, p), NEW y, y = AckApplied(x, p)
  PROVE  Steady(y) /\ Seen(y) /\ y.deferred = x.deferred
<1> DEFINE view == IF p.unchanged THEN x.view ELSE p.view
           owns == OwnsAfter(x, p.op)
           q == [x EXCEPT !.engine = p.next, !.published = p.next, !.cleanup = {},
                          !.view = view, !.context.owns = owns]
<1>1. y = q \/ y = PublishPredictions(q)
  BY DEF AckApplied
<1> HIDE DEF view, owns
<1>2. /\ DOMAIN q = SessionFields /\ q.engine = p.next /\ q.published = p.next
      /\ q.cleanup = {} /\ q.context = [x.context EXCEPT !.owns = owns]
      /\ \A f \in SessionFields \ {"engine", "published", "cleanup", "view", "context"} :
           q[f] = x[f]
  BY DEF Shape
<1> HIDE DEF q
<1>3. Shape(q)
  BY <1>2 DEF Shape
<1>4. Steady(q)
  <2>1. Continues(p.next, p.next) /\ p.next.query[1] \in Nat
    BY ContinuesItself, MineFields DEF PlanReady
  <2>2. EnginesOk(q)
    BY <1>2, <2>1 DEF PlanReady, EnginesOk, EnginesBase, Shape
  <2>3. OffersOk(q)
    BY <1>2 DEF OffersOk, Offers
  <2>4. FieldsOk(q)
    BY <1>2 DEF Steady, FieldsOk
  <2> QED BY <2>2, <2>3, <2>4 DEF Steady
<1>5. q.pending = {} /\ q.prediction = {} /\ q.wait = {} /\ ~q.closed
      /\ q.deferred = x.deferred
  BY <1>2
<1>6. CASE y = q
  <2>1. ~Offers(q)
    BY <1>5 DEF Offers
  <2> QED BY <1>4, <1>5, <1>6, <2>1, NothingSeen
<1>7. CASE y = PublishPredictions(q)
  <2>1. Steady(y) /\ Seen(y)
    BY <1>2, <1>3, <1>4, <1>5, <1>7, PublishSteady
  <2>2. y.deferred = q.deferred
    BY <1>3, <1>7 DEF PublishPredictions, Shape
  <2> QED BY <1>5, <2>1, <2>2
<1> QED BY <1>1, <1>6, <1>7

LEMMA RetainedSteady ==
  ASSUME NEW x, Shape(x), Steady(x), x.pending = {}, x.prediction = {}, x.wait = {},
         NEW p, PlanReady(x, p), x.engine.query[1] <= x.generation + 1,
         NEW y, y = AckRetained(x, p)
  PROVE  Steady(y) /\ (ListReady(x, p) => Seen(y)) /\ y.deferred = x.deferred
<1> DEFINE e == IF p.rollback = {} THEN x.engine ELSE The(p.rollback)
<1>1. y = [x EXCEPT !.engine = e, !.prediction = p.previous]
  BY DEF AckRetained
<1>2. /\ Mine(e) /\ e.query[1] <= x.generation + 1 /\ Continues(x.published, e)
      /\ Touch => e = x.engine
  <2>1. p.rollback # {} => The(p.rollback) \in p.rollback
    BY DEF The
  <2> QED BY <2>1 DEF PlanReady, Steady, EnginesOk, EnginesBase
<1> HIDE DEF e
<1>3. /\ y.engine = e /\ y.prediction = p.previous
      /\ \A f \in SessionFields \ {"engine", "prediction"} : y[f] = x[f]
  BY <1>1 DEF Shape
<1>4. EnginesOk(y)
  <2>1. e.query[1] \in Nat /\ x.generation \in Nat
    BY <1>2, MineFields DEF Shape
  <2> QED BY <1>2, <1>3, <2>1 DEF Steady, EnginesOk, EnginesBase
<1>5. OffersOk(y)
  BY <1>2, <1>3 DEF PlanReady, OffersOk, Offers, Open
<1>6. FieldsOk(y)
  BY <1>3 DEF Steady, FieldsOk
<1>7. ASSUME ListReady(x, p) PROVE Seen(y)
  <2>1. Allowed(y) = Allowed(x)
    BY <1>3 DEF Allowed, Prediction, R
  <2> QED BY <1>3, <1>7, <2>1 DEF ListReady, Seen, Items
<1> QED BY <1>3, <1>4, <1>5, <1>6, <1>7 DEF Steady

LEMMA UncertainSteady ==
  ASSUME NEW x, Shape(x), Steady(x), x.pending = {}, x.prediction = {}, x.wait = {},
         NEW p, PlanReady(x, p), x.engine.query[1] <= x.generation + 1,
         NEW y, y = AckUncertain(x, p)
  PROVE  Steady(y) /\ Seen(y) /\ y.deferred = x.deferred
<1> DEFINE e == Emptied(x.engine)
           c == Leftover(x, p)
<1>1. y = [x EXCEPT !.engine = e, !.published = e, !.view = DefaultView, !.cleanup = c]
  BY DEF AckUncertain
<1>2. Mine(e) /\ e.query[1] = x.engine.query[1]
  BY EmptiedReady DEF Steady, EnginesOk
<1>3. c \subseteq BOOLEAN
  <2>1. Intent(x, p) \in BOOLEAN
    <3>1. x.cleanup # {} => The(x.cleanup) \in BOOLEAN
      BY DEF The, Steady, FieldsOk
    <3> QED BY <3>1 DEF Intent
  <2> QED BY <2>1 DEF Leftover
<1> HIDE DEF e, c
<1>4. /\ y.engine = e /\ y.published = e /\ y.cleanup = c
      /\ \A f \in SessionFields \ {"engine", "published", "view", "cleanup"} : y[f] = x[f]
  BY <1>1 DEF Shape
<1>5. EnginesOk(y)
  <2>1. Continues(e, e) /\ e.query[1] \in Nat /\ x.generation \in Nat
    BY <1>2, ContinuesItself, MineFields DEF Shape
  <2> QED BY <1>2, <1>4, <2>1 DEF EnginesOk, EnginesBase
<1>6. FieldsOk(y)
  BY <1>3, <1>4 DEF Steady, FieldsOk
<1>7. ~Offers(y)
  BY <1>4 DEF Offers
<1> QED BY <1>4, <1>5, <1>6, <1>7, NothingSeen DEF Steady

LEMMA SettleSteady ==
  ASSUME NEW x, Shape(x), Steady(x), x.pending = {}, x.prediction = {}, x.wait = {},
         ~x.closed, x.deferred # {} => Touch,
         NEW p, PlanReady(x, p), x.engine.query[1] <= x.generation + 1,
         NEW outcome, NEW y, y = Settle(x, p, outcome)
  PROVE  Steady(y) /\ (ListReady(x, p) => Seen(y))
<1>1. \/ y = AckApplied(x, p) \/ y = AckUncertain(x, p) \/ y = AckRetained(x, p)
      \/ y = InvalidateContext(x, x.context, FALSE)
  BY DEF Settle
<1>2. CASE y = InvalidateContext(x, x.context, FALSE)
  <2>1. DOMAIN x.context = ContextFields
    BY DEF Shape
  <2>2. Steady(y) /\ ~Offers(y)
    BY <1>2, <2>1, LostSteady
  <2> QED BY <2>2, NothingSeen
<1> QED BY <1>1, <1>2, AppliedSteady, UncertainSteady, RetainedSteady

LEMMA AcknowledgeSteady ==
  ASSUME NEW x, Good(x), Steady(x), x.deferred # {} => Touch,
         NEW token, NEW outcome, NEW owns, NEW y, y = Acknowledge(x, token, outcome, owns)
  PROVE  Steady(y) /\ (Seen(x) => Seen(y))
<1> DEFINE p == The(x.pending)
           owned == IF Touch THEN owns ELSE x.context.owns
           taken == [x EXCEPT !.pending = {}, !.context.owns = owned]
           known == PrefixAcknowledged(taken, p, outcome)
           settled == Settle(known, p, outcome)
           idle == [settled EXCEPT !.deferred = {}]
<1>1. CASE ~IsCurrent(x, token)
  BY <1>1 DEF Acknowledge
<1>2. CASE IsCurrent(x, token)
  <2>1. IF settled.deferred = {} THEN y = settled
        ELSE y = ApplyRuntime(idle, The(settled.deferred))
    BY <1>2 DEF Acknowledge, Resumed
  <2> HIDE DEF p, owned
  <2>2. /\ p \in x.pending /\ x.pending # {} /\ x.wait = {} /\ ~x.closed /\ Shape(x)
        /\ Few(p.previous) /\ x.prediction = {} /\ PrefixIsAllowed(x) /\ Few(x.cleanup)
    <3>1. p \in x.pending
      BY <1>2 DEF IsCurrent, The, p
    <3> QED BY <1>2, <3>1 DEF IsCurrent, Good, NothingPredicted, FewPlans, FewRequests
  <2>3. /\ PlanReady(x, p) /\ x.engine.query[1] <= x.generation + 1
        /\ PrefixOk(x.prefix.text) /\ OpOk(p.op)
    BY <2>2 DEF PlanReady, Steady, EnginesOk, OffersOk, Offers, FieldsOk
  <2>4. /\ DOMAIN taken = SessionFields /\ taken.pending = {}
        /\ taken.context = [x.context EXCEPT !.owns = owned]
        /\ \A f \in SessionFields \ {"pending", "context"} : taken[f] = x[f]
    BY <2>2 DEF Shape
  <2> HIDE DEF taken
  <2>5. /\ Shape(taken) /\ \A f \in ContextFields \ {"owns"} : taken.context[f] = x.context[f]
    BY <2>2, <2>4 DEF Shape
  <2>6. /\ Shape(known) /\ PrefixOk(known.prefix.text)
        /\ \A f \in SessionFields \ {"prefix"} : known[f] = taken[f]
    BY <2>3, <2>4, <2>5, PrefixAckEffect, PrefixAckOk
  <2>e. /\ known.prefix.editor = taken.prefix.editor
        /\ known.prefix.enabled = taken.prefix.enabled
        /\ ~taken.prefix.enabled => known.prefix.text = taken.prefix.text
    BY <2>5, PrefixAckEffect
  <2> HIDE DEF known
  <2>7. /\ known.engine = x.engine /\ known.published = x.published /\ known.view = x.view
        /\ known.generation = x.generation /\ known.pending = {} /\ known.prediction = {}
        /\ known.wait = {} /\ known.gate = x.gate /\ known.closed = x.closed
        /\ known.cleanup = x.cleanup /\ known.revision = x.revision
        /\ known.deferred = x.deferred
    BY <2>2, <2>4, <2>6
  <2>8. Allowed(known) = Allowed(x)
    <3>1. known.context.assist = x.context.assist /\ known.context.purpose = x.context.purpose
      BY <2>5, <2>6
    <3> QED BY <2>7, <3>1 DEF Allowed, Prediction, R
  <2>9. Steady(known)
    <3>1. EnginesOk(known)
      BY <2>7 DEF Steady, EnginesOk, EnginesBase
    <3>2. OffersOk(known)
      BY <2>7 DEF OffersOk, Offers
    <3>3. FieldsOk(known)
      BY <2>6, <2>7 DEF Steady, FieldsOk
    <3> QED BY <3>1, <3>2, <3>3 DEF Steady
  <2>10. PlanReady(known, p) /\ known.engine.query[1] <= known.generation + 1
    <3>1. Open(x) => Open(known)
      BY <2>7 DEF Open
    <3> QED BY <2>3, <2>7, <3>1 DEF PlanReady
  <2>11. Seen(x) => ListReady(known, p)
    BY <2>2, <2>7, <2>8 DEF Seen, ListReady
  <2>a. Good(known)
    <3>1. PrefixIsAllowed(known)
      BY <2>2, <2>4, <2>5, <2>6, <2>e, <2>7, <2>8 DEF PrefixIsAllowed
    <3> QED BY <2>2, <2>6, <2>7, <3>1, IdleGood DEF Few
  <2>12. Steady(settled) /\ (Seen(x) => Seen(settled))
    BY <2>2, <2>6, <2>7, <2>9, <2>10, <2>11, SettleSteady
  <2>13. Shape(settled)
    BY <2>2, <2>7, <2>a, SettleGood DEF Settled, Good
  <2> HIDE DEF settled
  <2>14. CASE settled.deferred = {}
    BY <2>1, <2>12, <2>14
  <2>15. CASE settled.deferred # {}
    <3> DEFINE r == The(settled.deferred)
    <3>1. r \in DOMAIN Runtimes
      BY <2>12, <2>15 DEF The, Steady, FieldsOk
    <3>2. y = ApplyRuntime(idle, r)
      BY <2>1, <2>15
    <3> HIDE DEF r
    <3>3. /\ DOMAIN idle = SessionFields /\ idle.deferred = {}
          /\ \A f \in SessionFields \ {"deferred"} : idle[f] = settled[f]
      BY <2>13 DEF Shape
    <3> HIDE DEF idle
    <3>4. Shape(idle)
      BY <2>13, <3>3 DEF Shape
    <3>5. Steady(idle)
      <4>1. EnginesOk(idle) /\ OffersOk(idle)
        BY <2>12, <3>3 DEF Steady, EnginesOk, EnginesBase, OffersOk, Offers, Open
      <4>2. FieldsOk(idle)
        BY <2>12, <3>3 DEF Steady, FieldsOk
      <4> QED BY <4>1, <4>2 DEF Steady
    <3>6. Seen(settled) => Seen(idle)
      BY <3>3, SeenFrame
    <3> QED BY <2>12, <3>1, <3>2, <3>4, <3>5, <3>6, ApplySteady
  <2> QED BY <2>14, <2>15
<1> QED BY <1>1, <1>2

-----------------------------------------------------------------------------
(* What the key test and the screen promise. *)

LEMMA LegacyFields ==
  ASSUME NEW ev
  PROVE  Legacy(ev).op = "Legacy" /\ Legacy(ev).ev = ev
<1> DEFINE act == Act("Legacy")
<1>1. act.op = "Legacy" /\ DOMAIN act = {"op", "ev", "c", "mode", "text", "query", "id"}
  BY Zenon DEF Act
<1>2. Legacy(ev) = [act EXCEPT !.ev = ev]
  BY Zenon DEF Legacy
<1> HIDE DEF act
<1> QED BY <1>1, <1>2

\* A dispatch has the outcome of the operation it performs.
LEMMA DispatchKind ==
  ASSUME NEW e, EngineOk(e), NEW a, Sends(e, a), ResourceAssumption, CharAssumption
  PROVE  /\ Dispatch(e, a).kind = Perform(e, a).kind
         /\ Dispatch(e, a).text = Perform(e, a).text
<1> DEFINE step == Perform(e, a)
<1>1. Performed(e, a, step)
  BY PerformSound
<1> HIDE DEF step
<1>2. PICK f, kind, text, replace : step = Step(f, kind, text, replace)
  BY <1>1 DEF Performed
<1>3. PICK next : Dispatch(e, a) = [step EXCEPT !.engine = next]
  BY Zenon DEF Dispatch, Concluded, step
<1>4. Dispatch(e, a).kind = step.kind /\ Dispatch(e, a).text = step.text
  BY <1>2, <1>3 DEF Step
<1> QED BY <1>4 DEF step

\* A key or a text that the test promises to take is taken.
LEMMA PromiseIsKept ==
  ASSUME NEW e, EngineOk(e), NEW a, Sends(e, a), ResourceAssumption, CharAssumption,
         a.op \in {"Legacy", "InsertLiteral"}
  PROVE  /\ Dispatch(e, a).kind # "Rejected"
         /\ WouldHandle(e, a) => Disposition(Dispatch(e, a)) = "Handled"
<1> DEFINE step == Perform(e, a)
<1>1. step.kind # "Rejected"
  <2>1. CASE a.op = "Legacy"
    <3>1. step = Handle(e, a.ev)
      BY <2>1, Zenon DEF Perform, AsEvent
    <3>2. IsEvent(a.ev)
      BY <2>1 DEF Sends, IsAction, IsEvent
    <3> HIDE DEF step
    <3> QED BY <3>1, <3>2, HandleSound DEF HandledKey, EngineOk
  <2>2. CASE a.op = "InsertLiteral"
    <3>1. step = InsertLiteral(e, a.text)
      BY <2>2, Zenon DEF Perform
    <3> HIDE DEF step
    <3>2. step = None(e) \/ \E whole : step = Commit(Reset(e), whole)
      BY <3>1 DEF InsertLiteral
    <3> QED BY <3>2, StepFields
  <2> QED BY <2>1, <2>2
<1> HIDE DEF step
<1>2. Dispatch(e, a).kind # "Rejected"
  BY <1>1, DispatchKind DEF step
<1>3. Agrees(a, Disposition(Dispatch(e, a)), WouldHandle(e, a))
  BY DispatchSound DEF Dispatched
<1> QED BY <1>2, <1>3 DEF Agrees, Disposition

\* A click on the published list commits the word it shows, or is refused.
ClickShows(x, id) ==
  LET step == Dispatch(x.engine, SelectCandidate(x.published.query, id))
  IN step.kind = "Commit" =>
       /\ id + 1 \in DOMAIN AllCandidates(x.published)
       /\ step.text = <<AllCandidates(x.published)[id + 1]>>

LEMMA ClicksShow ==
  ASSUME NEW x, Steady(x), NEW id \in Nat
  PROVE  ClickShows(x, id)
<1> DEFINE q == x.published.query
           a == SelectCandidate(q, id)
           e == x.engine
           step == Dispatch(e, a)
           all == AllCandidates(e)
<1>1. /\ EngineOk(e) /\ Continues(x.published, e)
  BY MineFields DEF Steady, EnginesOk, EnginesBase
<1>2. a.op = "SelectCandidate" /\ a.id = id /\ a.query = q
  <2> DEFINE act == Act("SelectCandidate")
  <2>1. /\ act.op = "SelectCandidate"
        /\ DOMAIN act = {"op", "ev", "c", "mode", "text", "query", "id"}
    BY Zenon DEF Act
  <2>2. a = [act EXCEPT !.query = q, !.id = id]
    BY Zenon DEF SelectCandidate
  <2> HIDE DEF act
  <2> QED BY <2>1, <2>2
<1> HIDE DEF a, q
<1>3. Sends(e, a)
  BY <1>2 DEF Sends, IsAction, Operations
<1>4. step.kind = Perform(e, a).kind /\ step.text = Perform(e, a).text
  BY <1>1, <1>3, DispatchKind, ResourceAssumption, CharAssumption
<1>5. Perform(e, a) = SelectById(e, q, id)
  BY <1>2, Zenon DEF Perform
<1>6. ASSUME step.kind = "Commit"
      PROVE  id + 1 \in DOMAIN AllCandidates(x.published)
             /\ step.text = <<AllCandidates(x.published)[id + 1]>>
  <2>1. q = e.query /\ id + 1 \in DOMAIN all
        /\ SelectById(e, q, id) = Commit(EndTemporary(e), <<all[id + 1]>>)
    <3>1. Rejected(e).kind = "Rejected"
      BY StepFields
    <3>2. SelectById(e, q, id) # Rejected(e)
      BY <1>4, <1>5, <1>6, <3>1
    <3> HIDE DEF all
    <3> QED BY <3>2, Zenon DEF SelectById, all
  <2>2. all = AllCandidates(x.published)
    BY <1>1, <2>1 DEF Continues, q
  <2> HIDE DEF all
  <2>3. SelectById(e, q, id).text = <<all[id + 1]>>
    BY <2>1, StepFields
  <2> HIDE DEF step
  <2> QED BY <1>4, <1>5, <2>1, <2>2, <2>3 DEF step
<1> HIDE DEF step, e
<1> QED BY <1>6 DEF ClickShows, step, a, q, e

\* Where the engine is on, what the plan of a handled step says of the key.
LEMMA HandledIsConsumed ==
  ASSUME NEW x, Shape(x), ~x.closed, x.gate, ~Touch, NEW a, NEW wasLegacy,
         Dispatch(x.engine, a).kind # "Rejected",
         \/ Disposition(Dispatch(x.engine, a)) = "Handled"
         \/ x.prediction # {} /\ IsLegacy(a, {"Esc"}),
         NEW y, y = PrepareDispatched(x, a, wasLegacy)
  PROVE  y.generation = x.generation + 1 /\ \A p \in y.pending : p.consumed
<1> DEFINE step == Dispatch(x.engine, a)
           shown == x.prediction # {}
           current == IF shown THEN DefaultView ELSE x.view
           dismiss == shown /\ (a.op = "Cancel" \/ IsLegacy(a, {"Esc"}))
           consumed == dismiss \/ (x.gate /\ Disposition(step) = "Handled")
           rollback == IF wasLegacy /\ ~Touch /\ x.engine.mode # "Main"
                       THEN {x.engine} ELSE {}
           parts == [op |-> PlanOp(step), view |-> PlanView(step, current),
             consumed |-> consumed,
             unchanged |-> step.kind \in {"None", "Passthrough"} /\ ~shown,
             predict |-> PlainRound(x.engine), cleanup |-> FALSE,
             rollback |-> rollback]
<1>1. y = Stage(x, step.engine, parts)
  BY Zenon DEF PrepareDispatched, PlanStep
<1>2. consumed /\ parts.consumed = consumed
  BY Zenon
<1> HIDE DEF step, parts, consumed
<1>3. ~Unavailable(x, parts.op)
  BY DEF Unavailable
<1>4. /\ y.generation = x.generation + 1
      /\ \E p : y.pending = {p} /\ StagedFrom(x, step.engine, parts, p)
  BY <1>1, <1>3, StagePlan
<1> QED BY <1>2, <1>4 DEF StagedFrom

(***************************************************************************)
(* A key the test of the Windows shell takes is handled: either it chooses *)
(* or dismisses a prediction, which is offered only where a choice is      *)
(* taken, or the engine keeps the promise it made.                         *)
(***************************************************************************)
LEMMA TakenIsHandled ==
  ASSUME NEW x, Shape(x), Steady(x), ~Touch, NEW a, Sent(a), a.op = "Legacy",
         WouldHandleLegacy(x, a.ev), ~StaleChoice(x, a), NEW y, y = Prepare(x, a)
  PROVE  y.generation = x.generation + 1 /\ \A p \in y.pending : p.consumed
<1> DEFINE settled == IF x.wait = {} THEN x ELSE [x EXCEPT !.wait = {}, !.prediction = {}]
           act == Resolved(settled, a)
           ready == IF LeavesPrefix(x, act) THEN InvalidatePrefix(settled) ELSE settled
           e == x.engine
           b == Legacy(a.ev)
<1>1. b.op = "Legacy" /\ b.ev = a.ev
  BY LegacyFields
<1> HIDE DEF b
<1>2. PredictionKeys(x, b) = PredictionKeys(x, a) /\ WouldHandle(e, b) = WouldHandle(e, a)
  <2>1. KeyPosition(b) = KeyPosition(a)
    BY <1>1 DEF KeyPosition, IsLegacy
  <2>2. WouldHandle(e, b) = WouldHandle(e, a)
    BY <1>1 DEF WouldHandle
  <2> QED BY <2>1, <2>2 DEF PredictionKeys
<1>3. \/ HasPrediction(x) /\ (PredictionKeys(x, a) # {} \/ a.ev.key \in {"Select", "Esc"})
      \/ ~x.closed /\ x.cleanup = {} /\ x.gate /\ WouldHandle(e, a)
  BY <1>2 DEF WouldHandleLegacy, b
<1>4. Chosen(x, a) = PredictionKeys(x, a) /\ Chosen(settled, a) = PredictionKeys(settled, a)
  BY DEF Chosen
<1>5. ~x.closed /\ x.cleanup = {} /\ x.gate
  BY <1>3 DEF HasPrediction, Steady, OffersOk, Offers, Open
<1>6. /\ Shape(settled) /\ settled.wait = {} /\ settled.prediction \in {x.prediction, {}}
      /\ (x.wait = {} => settled = x) /\ (x.wait # {} => settled.prediction = {})
      /\ settled.engine = e /\ settled.closed = x.closed /\ settled.gate = x.gate
      /\ settled.generation = x.generation
  <2> DEFINE w == [x EXCEPT !.wait = {}, !.prediction = {}]
  <2>1. /\ Shape(w) /\ w.wait = {} /\ w.prediction = {}
        /\ \A f \in SessionFields \ {"wait", "prediction"} : w[f] = x[f]
    BY DEF Shape
  <2> HIDE DEF w
  <2>2. /\ x.wait = {} => settled = x
        /\ x.wait # {} => settled = w
    BY DEF w
  <2> HIDE DEF settled
  <2> QED BY <2>1, <2>2
<1>7. ~Refused(x) /\ ~StaleChoice(settled, a) /\ ~Restricted(x)
  BY <1>5, <1>6 DEF Refused, StaleChoice, Restricted
<1>8. y = PrepareDispatched(ready, act, act.op = "Legacy")
  <2> HIDE DEF settled
  <2> QED BY <1>7, Zenon DEF Prepare, settled
<1> HIDE DEF settled
<1>9. \/ act = a /\ (settled.prediction = {} \/ PredictionKeys(settled, a) = {})
      \/ HasPrediction(settled) /\ \E u : act = Literal(<<u>>)
  BY <1>4, <1>6 DEF Resolved, HasPrediction
<1> HIDE DEF act
<1>10. /\ Shape(ready) /\ ready.prediction = settled.prediction
       /\ ready.engine = e /\ ready.closed = x.closed /\ ready.gate = x.gate
       /\ ready.generation = x.generation
  <2> DEFINE i == InvalidatePrefix(settled)
  <2>1. /\ Shape(i) /\ \A f \in SessionFields \ {"prefix"} : i[f] = settled[f]
    BY <1>6, InvalidateEffect
  <2>2. ready = i \/ ready = settled
    OBVIOUS
  <2> HIDE DEF i, ready
  <2> QED BY <1>6, <2>1, <2>2
<1> HIDE DEF ready
<1>11. EngineOk(e) /\ e.profile = Profile
  BY MineFields DEF Steady, EnginesOk, EnginesBase
<1>12. /\ Sends(e, act) /\ act.op \in {"Legacy", "InsertLiteral"}
       /\ WouldHandle(e, act) \/ (ready.prediction # {} /\ IsLegacy(act, {"Esc"}))
  <2>1. CASE act = a /\ (settled.prediction = {} \/ PredictionKeys(settled, a) = {})
    <3>1. Sends(e, act)
      BY <1>11, <2>1 DEF Sends, Sent
    <3>2. WouldHandle(e, act) \/ (ready.prediction # {} /\ IsLegacy(act, {"Esc"}))
      <4>1. CASE WouldHandle(e, a)
        BY <2>1, <4>1
      <4>2. CASE ~WouldHandle(e, a)
        <5>1. HasPrediction(x) /\ (PredictionKeys(x, a) # {} \/ a.ev.key \in {"Select", "Esc"})
          BY <1>3, <4>2
        <5>2. settled = x /\ x.prediction # {}
          BY <1>6, <5>1 DEF HasPrediction
        <5>3. PredictionKeys(x, a) = {}
          BY <2>1, <5>2
        <5>4. a.ev.key # "Select"
          BY <1>4, <5>2, <5>3 DEF StaleChoice, IsLegacy
        <5> QED BY <1>10, <2>1, <5>1, <5>2, <5>3, <5>4 DEF IsLegacy
      <4> QED BY <4>1, <4>2
    <3> QED BY <2>1, <3>1, <3>2
  <2>2. CASE HasPrediction(settled) /\ \E u : act = Literal(<<u>>)
    <3>1. PICK u : act = Literal(<<u>>)
      BY <2>2
    <3>2. Sent(act) /\ act.op = "InsertLiteral" /\ act.text = <<u>>
      BY <3>1, LiteralSent
    <3>3. act.text # <<>>
      <4>1. Len(<<u>>) = 1 /\ Len(<<>>) = 0
        OBVIOUS
      <4> QED BY <3>2, <4>1
    <3>4. WouldHandle(e, act)
      BY <3>2, <3>3 DEF WouldHandle
    <3> QED BY <1>11, <3>2, <3>4 DEF Sends, Sent
  <2> QED BY <1>9, <2>1, <2>2
<1>13. /\ Dispatch(e, act).kind # "Rejected"
       /\ WouldHandle(e, act) => Disposition(Dispatch(e, act)) = "Handled"
  BY <1>11, <1>12, PromiseIsKept, ResourceAssumption, CharAssumption
<1>14. \/ Disposition(Dispatch(ready.engine, act)) = "Handled"
       \/ ready.prediction # {} /\ IsLegacy(act, {"Esc"})
  BY <1>10, <1>12, <1>13
<1>15. Dispatch(ready.engine, act).kind # "Rejected" /\ ~ready.closed /\ ready.gate
  BY <1>5, <1>10, <1>13
<1>16. Shape(ready) /\ ready.generation = x.generation
  BY <1>10
<1> QED BY <1>8, <1>14, <1>15, <1>16, HandledIsConsumed
=============================================================================
