--------------------------- MODULE TouchHostProofs ---------------------------
(***************************************************************************)
(* Theorems about TouchHost, for every keyboard, set of requests, editors, *)
(* runtimes, queue, number of calls and number of reports on their way.    *)
(*                                                                         *)
(* A plan that is out is carried by a frame of the editor in focus: as an  *)
(* edit, or as its acknowledgement.  Frames below the running one are the  *)
(* queue's loop and the edit of a new runtime, which composes nothing, so  *)
(* a preedit is only ever begun by the running frame.  The service owns it *)
(* from then on, and its session from the acknowledgement on.  Of the      *)
(* runtimes the one asked for last is the last to arrive, and no older one *)
(* arrives after a newer.                                                  *)
(***************************************************************************)
EXTENDS TouchHost, SessionLemmas, FiniteSetTheorems

Latches == {"Off", "Once", "Locked"}
ServiceFields ==
  {"active", "visible", "epoch", "conn", "owns", "selected", "policy", "queue", "generation",
   "draining", "runtime", "pinyin"}
HostFields == {"focus", "composing", "selected", "text", "reports", "missed", "calls", "starts"}
LoaderFields == {"ticket", "jobs", "built", "saved", "failed"}
FrameFields == {"todo", "epoch", "conn", "done", "ok"}
EditFields == {"do", "at", "steps", "token", "res"}
DirectFields == {"do", "at", "action"}

USE DEF ServiceFields, HostFields, LoaderFields, FrameFields, EditFields, DirectFields

-----------------------------------------------------------------------------
(* The inductive invariant.  v is the service's fields, S its session, h the host and st   *)
(* the stack.                                                                              *)

\* What the session is: bound to the runtime in use or deferring it, with nothing to clean up,
\* and with the preedit that the service owns.
InUse(x, n, v) ==
  /\ Good(x) /\ Deferral(x, n) /\ ~x.closed /\ x.cleanup = {}
  /\ v.owns => x.context.owns \/ x.pending # {}
SessionOk(S, v) ==
  S # {} => \E x \in S : \E n \in v.runtime : S = {x} /\ v.runtime = {n} /\ InUse(x, n, v)

QueueOk(v) ==
  /\ IsSeq(v.queue)
  /\ \A i \in DOMAIN v.queue :
       /\ v.queue[i].generation \in 0..v.generation
       /\ v.queue[i].generation = v.generation => v.queue[i].epoch = v.epoch
ServiceOk(v, S) ==
  /\ DOMAIN v = ServiceFields
  /\ v.epoch \in Nat /\ v.generation \in Nat /\ v.owns \in BOOLEAN /\ v.pinyin \in Latches
  /\ v.conn # {} => \E e \in v.conn : v.conn = {e}
  /\ v.owns => v.active /\ v.conn # {} /\ S # {}
  /\ QueueOk(v)

\* An owned preedit is the editor's composition, or the last report says that it is not.
LastReport(h) == h.reports[Len(h.reports)]
HostOk(h, v) ==
  /\ DOMAIN h = HostFields /\ IsSeq(h.reports)
  /\ v.owns /\ ~h.composing => h.reports # <<>> /\ ~LastReport(h).composing

\* The runtimes on their way: none is older than one before it, and the last is the newest.
BuiltOk(v) ==
  \A i \in DOMAIN loader.built :
    LET made == loader.built[i].made
    IN made # {} =>
         \E m \in 1..disk :
           /\ made = {m} /\ \A n \in v.runtime : n <= m
           /\ \A j \in DOMAIN loader.built : j > i => \A k \in loader.built[j].made : m <= k
LastJob == loader.jobs[Len(loader.jobs)]
LastBuilt == loader.built[Len(loader.built)]
NewestArrives(v) ==
  /\ loader.jobs # <<>> => LastJob = loader.ticket
  /\ loader.jobs = <<>> /\ loader.built # <<>> => LastBuilt.ticket = loader.ticket
  /\ loader.jobs = <<>> /\ ~loader.saved /\ ~loader.failed =>
       IF loader.built # <<>> THEN LastBuilt.made = {disk} ELSE v.runtime = {disk}
LoaderOk(v) ==
  /\ DOMAIN loader = LoaderFields /\ loader.ticket \in Nat
  /\ IsSeq(loader.jobs) /\ IsSeq(loader.built)
  /\ disk \in Nat \ {0} /\ 1..disk \subseteq DOMAIN Runtimes
  /\ v.runtime # {} => \E n \in 1..disk : v.runtime = {n}
  /\ BuiltOk(v) /\ NewestArrives(v)

\* Frames.
SameAs(q, v) == v.active /\ q.epoch = v.epoch /\ q.conn = v.conn
Bears(q, t) ==
  LET i == Head(q.todo)
  IN \/ i.do = "Edit" /\ i.token = {t}
     \/ i.do = "Settle" /\ i.token = t
IsDrain(q) == Head(q.todo).do = "Drain"

\* The session has made the token, and it makes no other with its generation.
Issued(t, S) == \E x \in S : t[1] \in Nat /\ t[1] <= x.generation

\* A plan that leaves no preedit: its edit begins none, and the service owns none after it.
Finishing(op) == op.kind \in {"End", "Commit"}
HasCompose(steps) == \E k \in DOMAIN steps : steps[k].kind = "compose"
EditOk(i, v, S) ==
  /\ DOMAIN i = EditFields /\ IsSeq(i.steps)
  /\ i.token # {} => \E t \in i.token : i.token = {t} /\ Issued(t, S)
  /\ i.at = "ret" => i.steps # <<>>
  /\ i.at = "end" /\ i.res => i.steps = <<>>
  /\ \A x \in S : \A p \in x.pending :
       i.token = {p.token} /\ Finishing(p.op) =>
         /\ \A k \in DOMAIN i.steps : i.steps[k].kind \in {"commit", "release", "finish"}
         /\ i.steps = <<>> => ~v.owns

\* What follows an instruction of a frame: a request that is still to be begun is the next.
HasGo(q) == \E i \in DOMAIN q : q[i].do = "Go"
Later(q) ==
  /\ IsSeq(q)
  /\ \A i \in DOMAIN q :
       /\ q[i].do \in {"Go", "Direct", "Latch", "Resumed"}
       /\ q[i].do = "Go" => i = 1
       /\ q[i].do = "Direct" => DOMAIN q[i] = DirectFields
       /\ q[i].do = "Latch" => q[i].mode \in Latches
FrameOk(q, v, S) ==
  /\ DOMAIN q = FrameFields /\ IsSeq(q.todo) /\ q.todo # <<>> /\ Later(Tail(q.todo))
  /\ q.epoch \in Nat /\ q.epoch <= v.epoch
  /\ IsDrain(q) => v.draining
  /\ LET i == Head(q.todo)
     IN /\ i.do = "Edit" => EditOk(i, v, S)
        /\ i.do = "Settle" => Issued(i.token, S)
        /\ i.do = "Direct" => DOMAIN i = DirectFields /\ ~HasGo(Tail(q.todo))
        /\ i.do = "Latch" => i.mode \in Latches
        /\ i.do \notin {"Drain", "Serial"} => S # {} /\ q.conn # {}

\* What may be left of the edit of a new runtime.  Every other frame belongs to the queue.
OfRuntime(q) ==
  /\ Tail(q.todo) = <<>>
  /\ LET i == Head(q.todo)
     IN \/ i.do = "Settle"
        \/ i.do = "Edit" /\ i.token # {} /\ ~HasCompose(i.steps)
WaitsBelow(q) == IsDrain(q) \/ (OfRuntime(q) /\ Head(q.todo).do = "Edit")

\* The running frame.
SettleOk(i, v, S) ==
  /\ i.outcome \notin {"Applied", "StaleContext"} => ~v.owns
  /\ i.outcome = "Applied" /\ v.owns =>
       \A x \in S : \A p \in x.pending : p.token = i.token => ~Finishing(p.op)
Composed(i) ==
  i.do = "Edit" /\ i.at = "ret" /\ i.res /\ i.token # {} /\ Head(i.steps).kind = "compose"
TopOk(q, v, S, h) ==
  LET i == Head(q.todo)
  IN /\ i.do = "Settle" => SameAs(q, v) /\ SettleOk(i, v, S)
     /\ i.do = "Serial" => q.epoch = v.epoch /\ q.conn = v.conn
     /\ i.do = "Go" /\ q.ok => SameAs(q, v)
     /\ ~OfRuntime(q) => v.draining
     /\ Composed(i) /\ SameAs(q, v) => h.composing

OneDrain(st) == \A f, g \in DOMAIN st : IsDrain(st[f]) /\ IsDrain(st[g]) => f = g
StackOk(st, v, S, h) ==
  /\ IsSeq(st)
  /\ \A q \in FramesOf(st) : FrameOk(q, v, S)
  /\ \A q \in Below(st) : WaitsBelow(q)
  /\ OneDrain(st)
  /\ st # <<>> => TopOk(Head(st), v, S, h)

\* A plan that is out is carried to its end, unless there is no connection to write it to.
Mute(v) == v.active /\ v.conn = {}
Carried(st, v, S) ==
  ~Mute(v) =>
    \A x \in S : \A p \in x.pending : \E q \in FramesOf(st) : Bears(q, p.token) /\ SameAs(q, v)

IInv ==
  /\ ServiceOk(svc, session) /\ SessionOk(session, svc)
  /\ HostOk(host, svc) /\ LoaderOk(svc)
  /\ StackOk(stack, svc, session, host) /\ Carried(stack, svc, session)
-----------------------------------------------------------------------------
(* What a frame knows stays true. *)

LEMMA TouchProfile == Touch
  BY TouchHostAssumption DEF Touch

\* From the session S and the service's fields v to U and w: a plan of U is one of S or newer
\* than all of S, and where the service comes to own a preedit the plan that is out leaves one.
Stays(S, v, U, w) ==
  /\ v.epoch \in Nat /\ w.epoch \in Nat /\ v.epoch <= w.epoch
  /\ \A x \in S : \E y \in U :
       x.generation \in Nat /\ y.generation \in Nat /\ x.generation <= y.generation
  /\ \A y \in U : \A p \in y.pending :
       \/ \E x \in S : p \in x.pending
       \/ p.token[1] \in Nat /\ \A x \in S : x.generation < p.token[1]
  /\ w.owns => \/ v.owns
              \/ \A y \in U : \A p \in y.pending : ~Finishing(p.op)

LEMMA IssuedStays ==
  ASSUME NEW S, NEW v, NEW U, NEW w, Stays(S, v, U, w), NEW t, Issued(t, S)
  PROVE  Issued(t, U)
  BY DEF Issued, Stays

LEMMA EditStays ==
  ASSUME NEW S, NEW v, NEW U, NEW w, Stays(S, v, U, w), NEW i, EditOk(i, v, S)
  PROVE  EditOk(i, w, U)
<1>1. ASSUME NEW y \in U, NEW p \in y.pending, i.token = {p.token}, Finishing(p.op)
      PROVE  /\ \A k \in DOMAIN i.steps : i.steps[k].kind \in {"commit", "release", "finish"}
             /\ i.steps = <<>> => ~w.owns
  <2>1. PICK t : i.token = {t} /\ Issued(t, S)
    BY <1>1 DEF EditOk
  <2>2. p.token = t
    BY <1>1, <2>1
  <2>3. PICK x \in S : p \in x.pending
    <3>1. PICK x \in S : t[1] \in Nat /\ t[1] <= x.generation
      BY <2>1 DEF Issued
    <3>2. x.generation \in Nat
      BY DEF Stays
    <3>3. ~(x.generation < p.token[1])
      BY <2>2, <3>1, <3>2
    <3> QED BY <3>3 DEF Stays
  <2>4. /\ \A k \in DOMAIN i.steps : i.steps[k].kind \in {"commit", "release", "finish"}
        /\ i.steps = <<>> => ~v.owns
    BY <1>1, <2>3 DEF EditOk
  <2>5. w.owns => v.owns
    BY <1>1 DEF Stays
  <2> QED BY <2>4, <2>5
<1>2. ASSUME NEW t, Issued(t, S)
      PROVE  Issued(t, U)
  BY <1>2, IssuedStays
<1> QED BY <1>1, <1>2 DEF EditOk

LEMMA FrameStays ==
  ASSUME NEW S, NEW v, NEW U, NEW w, Stays(S, v, U, w), NEW q, FrameOk(q, v, S),
         IsDrain(q) => w.draining
  PROVE  FrameOk(q, w, U)
<1>1. q.epoch \in Nat /\ q.epoch <= w.epoch
  BY DEF FrameOk, Stays
<1>2. S # {} => U # {}
  BY DEF Stays
<1>3. Head(q.todo).do = "Edit" => EditOk(Head(q.todo), w, U)
  BY EditStays DEF FrameOk
<1>4. Head(q.todo).do = "Settle" => Issued(Head(q.todo).token, U)
  BY IssuedStays DEF FrameOk
<1> QED BY <1>1, <1>2, <1>3, <1>4 DEF FrameOk

\* The calls of a session leave what frames know of it.
LEMMA AdvanceStays ==
  ASSUME NEW x, NEW y, Good(x), Good(y), Advances(x, y), NEW v, NEW w,
         v.epoch \in Nat, w.epoch \in Nat, v.epoch <= w.epoch, w.owns => v.owns
  PROVE  Stays({x}, v, {y}, w)
<1>1. x.generation \in Nat /\ y.generation \in Nat /\ x.generation <= y.generation
  BY DEF Good, Shape, Advances
<1>2. ASSUME NEW p \in y.pending, p \notin x.pending
      PROVE  p.token[1] \in Nat /\ x.generation < p.token[1]
  <2>1. p.token[1] = y.generation
    BY DEF Good, PlanIsCurrent, Token
  <2>2. y.generation # x.generation
    BY <1>2 DEF Advances
  <2> QED BY <1>1, <2>1, <2>2
<1> QED BY <1>1, <1>2 DEF Stays

\* Nothing of the session changes, or there is none.
LEMMA NothingStays ==
  ASSUME NEW S, \A x \in S : x.generation \in Nat, NEW v, NEW w,
         v.epoch \in Nat, w.epoch \in Nat, v.epoch <= w.epoch, w.owns => v.owns
  PROVE  Stays(S, v, S, w)
  BY DEF Stays

-----------------------------------------------------------------------------
(* The stack. *)

\* The running frame, its instruction and what follows it.
LEMMA TopFrame ==
  ASSUME NEW v, NEW S, NEW h, StackOk(stack, v, S, h), stack # <<>>
  PROVE  /\ FrameOk(Top, v, S) /\ TopOk(Top, v, S, h)
         /\ IsSeq(Top.todo) /\ Top.todo # <<>> /\ Later(Rest) /\ IsSeq(Rest)
<1>1. FrameOk(Top, v, S) /\ TopOk(Top, v, S, h)
  BY StackOf DEF StackOk, Top
<1> QED BY <1>1 DEF FrameOk, Rest, Later

LEMMA LaterParts ==
  ASSUME NEW q, Later(q), q # <<>>
  PROVE  /\ Later(Tail(q)) /\ ~HasGo(Tail(q))
         /\ Head(q).do \in {"Go", "Direct", "Latch", "Resumed"}
         /\ Head(q).do = "Direct" => DOMAIN Head(q) = DirectFields
         /\ Head(q).do = "Latch" => Head(q).mode \in Latches
<1> DEFINE t == Tail(q)
<1>1. /\ IsSeq(q) /\ Len(q) \in Nat /\ DOMAIN q = 1..Len(q)
      /\ IsSeq(t) /\ Len(t) = Len(q) - 1 /\ Len(q) > 0 /\ Head(q) = q[1]
      /\ \A i \in 1..(Len(q) - 1) : t[i] = q[i + 1]
  BY DomainOf, TailOf DEF Later
<1>2. DOMAIN t = 1..Len(t)
  BY <1>1, DomainOf
<1> HIDE DEF t
<1>3. \A i \in DOMAIN t : i + 1 \in DOMAIN q /\ t[i] = q[i + 1]
  BY <1>1, <1>2
<1>4. Later(t) /\ ~HasGo(t)
  <2>1. \A i \in DOMAIN t : t[i].do # "Go"
    <3>1. \A i \in DOMAIN t : i + 1 # 1
      BY <1>1, <1>2
    <3> QED BY <1>3, <3>1 DEF Later
  <2>2. \A i \in DOMAIN t :
          /\ t[i].do \in {"Go", "Direct", "Latch", "Resumed"}
          /\ t[i].do = "Direct" => DOMAIN t[i] = DirectFields
          /\ t[i].do = "Latch" => t[i].mode \in Latches
    <3>1. \A i \in DOMAIN q :
            /\ q[i].do \in {"Go", "Direct", "Latch", "Resumed"}
            /\ q[i].do = "Direct" => DOMAIN q[i] = DirectFields
            /\ q[i].do = "Latch" => q[i].mode \in Latches
      BY DEF Later
    <3> QED BY <1>3, <3>1
  <2>3. Later(t)
    BY <1>1, <2>1, <2>2 DEF Later
  <2> QED BY <2>1, <2>3 DEF HasGo
<1>5. 1 \in DOMAIN q
  BY <1>1
<1> USE DEF t
<1> QED BY <1>1, <1>4, <1>5 DEF Later

\* What follows an instruction makes a frame of its own.
LEMMA LaterFrame ==
  ASSUME NEW q, Later(q), q # <<>>, NEW g, DOMAIN g = FrameFields, g.todo = q,
         NEW v, v.epoch \in Nat, g.epoch \in Nat, g.epoch <= v.epoch, NEW S, S # {},
         v.draining, Head(q).do = "Go" /\ g.ok => SameAs(g, v), g.conn # {}, NEW h
  PROVE  FrameOk(g, v, S) /\ TopOk(g, v, S, h) /\ ~IsDrain(g) /\ \A t : ~Bears(g, t)
<1>1. /\ IsSeq(q) /\ Later(Tail(q)) /\ ~HasGo(Tail(q))
      /\ Head(q).do \in {"Go", "Direct", "Latch", "Resumed"}
      /\ Head(q).do = "Direct" => DOMAIN Head(q) = DirectFields
      /\ Head(q).do = "Latch" => Head(q).mode \in Latches
  BY LaterParts DEF Later
<1>2. FrameOk(g, v, S) /\ ~IsDrain(g)
  BY <1>1 DEF FrameOk, IsDrain
<1>3. TopOk(g, v, S, h) /\ \A t : ~Bears(g, t)
  BY <1>1 DEF TopOk, Composed, Bears
<1> QED BY <1>2, <1>3

LEMMA GoesOnEffect ==
  ASSUME IsSeq(stack), stack # <<>>, NEW g, GoesOn(g)
  PROVE  /\ IsSeq(stack')
         /\ FramesOf(stack') = (IF g.todo = <<>> THEN {} ELSE {g}) \cup Below(stack)
         /\ Below(stack') \subseteq Below(stack)
         /\ stack' # <<>> =>
              IF g.todo = <<>> THEN Head(stack') \in Below(stack) ELSE Head(stack') = g
<1> DEFINE old == Tail(stack)
<1>1. IsSeq(old) /\ FramesOf(old) = Below(stack)
  BY PopEffect
<1> HIDE DEF old
<1>2. CASE g.todo = <<>>
  <2>1. stack' = old
    BY <1>2 DEF GoesOn, old
  <2>2. old # <<>> => FramesOf(old) = {Head(old)} \cup Below(old)
    BY <1>1, StackOf
  <2>3. old = <<>> => Below(old) = {}
    BY EmptySequence DEF Below
  <2> QED BY <1>1, <1>2, <2>1, <2>2, <2>3
<1>3. CASE g.todo # <<>>
  <2>1. stack' = <<g>> \o old
    BY <1>3 DEF GoesOn, old
  <2> QED BY <1>1, <1>3, <2>1, PushEffect
<1> QED BY <1>2, <1>3

\* There is one loop of the queue at most.
LEMMA PopsDrains ==
  ASSUME NEW st, IsSeq(st), st # <<>>, OneDrain(st)
  PROVE  /\ OneDrain(Tail(st))
         /\ IsDrain(Head(st)) => \A q \in Below(st) : ~IsDrain(q)
<1> DEFINE old == Tail(st)
<1>1. /\ IsSeq(old) /\ Len(old) = Len(st) - 1 /\ Len(st) > 0 /\ Head(st) = st[1]
      /\ \A i \in 1..(Len(st) - 1) : old[i] = st[i + 1]
  BY TailOf
<1>2. Len(st) \in Nat /\ DOMAIN st = 1..Len(st) /\ DOMAIN old = 1..Len(old)
  BY <1>1, DomainOf
<1> HIDE DEF old
<1>3. \A f \in DOMAIN old : f + 1 \in DOMAIN st /\ old[f] = st[f + 1]
  BY <1>1, <1>2
<1>4. OneDrain(old)
  <2> SUFFICES ASSUME NEW f \in DOMAIN old, NEW g \in DOMAIN old,
                      IsDrain(old[f]), IsDrain(old[g])
               PROVE  f = g
    BY DEF OneDrain
  <2>1. f + 1 = g + 1
    BY <1>3 DEF OneDrain
  <2> QED BY <1>1, <1>2, <2>1
<1>5. ASSUME IsDrain(Head(st)), NEW q \in Below(st)
      PROVE  ~IsDrain(q)
  <2>1. PICK f \in 2..Len(st) : q = st[f]
    BY DEF Below
  <2>2. 1 \in DOMAIN st /\ f \in DOMAIN st /\ f # 1
    BY <1>1, <1>2
  <2> QED BY <1>1, <1>5, <2>1, <2>2 DEF OneDrain
<1> USE DEF old
<1> QED BY <1>4, <1>5

LEMMA PushesDrains ==
  ASSUME NEW st, IsSeq(st), OneDrain(st), NEW g,
         ~IsDrain(g) \/ \A q \in FramesOf(st) : ~IsDrain(q)
  PROVE  OneDrain(<<g>> \o st)
<1> DEFINE new == <<g>> \o st
<1>1. /\ IsSeq(new) /\ Len(new) = 1 + Len(st) /\ new[1] = g
      /\ \A i \in 1..Len(st) : new[1 + i] = st[i]
  BY OneInstruction, CatOf
<1>2. Len(st) \in Nat /\ DOMAIN st = 1..Len(st) /\ DOMAIN new = 1..Len(new)
  BY <1>1, DomainOf
<1> HIDE DEF new
<1>3. ASSUME NEW f \in DOMAIN new, f # 1
      PROVE  f - 1 \in DOMAIN st /\ new[f] = st[f - 1] /\ new[f] \in FramesOf(st)
  <2>1. f - 1 \in 1..Len(st) /\ f = 1 + (f - 1)
    BY <1>1, <1>2, <1>3
  <2>2. new[f] = st[f - 1]
    BY <1>1, <2>1
  <2> QED BY <1>2, <2>1, <2>2 DEF FramesOf
<1>4. OneDrain(new)
  <2> SUFFICES ASSUME NEW f \in DOMAIN new, NEW k \in DOMAIN new,
                      IsDrain(new[f]), IsDrain(new[k])
               PROVE  f = k
    BY DEF OneDrain
  <2>1. CASE f = 1 \/ k = 1
    BY <1>1, <1>3, <2>1
  <2>2. CASE f # 1 /\ k # 1
    <3>1. f - 1 = k - 1
      BY <1>3, <2>2 DEF OneDrain
    <3> QED BY <1>2, <3>1
  <2> QED BY <2>1, <2>2
<1> USE DEF new
<1> QED BY <1>4

LEMMA GoesOnDrains ==
  ASSUME IsSeq(stack), stack # <<>>, OneDrain(stack), NEW g, GoesOn(g),
         g.todo # <<>> => ~IsDrain(g)
  PROVE  OneDrain(stack')
<1>1. OneDrain(Tail(stack)) /\ IsSeq(Tail(stack))
  BY PopsDrains, TailOf
<1>2. g.todo # <<>> => OneDrain(<<g>> \o Tail(stack))
  BY <1>1, PushesDrains
<1> QED BY <1>1, <1>2 DEF GoesOn

\* A frame that waited runs on.
LEMMA WaitingRuns ==
  ASSUME NEW q, WaitsBelow(q), NEW v, NEW S, FrameOk(q, v, S), NEW h
  PROVE  TopOk(q, v, S, h)
<1>1. CASE IsDrain(q)
  BY <1>1 DEF IsDrain, TopOk, Composed, FrameOk
<1>2. CASE OfRuntime(q) /\ Head(q.todo).do = "Edit"
  <2> DEFINE i == Head(q.todo)
  <2>1. EditOk(i, v, S) /\ ~HasCompose(i.steps)
    BY <1>2 DEF FrameOk, OfRuntime
  <2>2. i.at = "ret" => Head(i.steps).kind # "compose"
    <3>1. IsSeq(i.steps) /\ (i.at = "ret" => i.steps # <<>>)
      BY <2>1 DEF EditOk
    <3>2. i.steps # <<>> => Head(i.steps) = i.steps[1] /\ 1 \in DOMAIN i.steps
      BY <3>1, DomainOf, TailOf
    <3> QED BY <2>1, <3>1, <3>2 DEF HasCompose
  <2> QED BY <1>2, <2>2 DEF TopOk, Composed
<1> QED BY <1>1, <1>2 DEF WaitsBelow

\* The running frame goes on as g, or is gone.
LEMMA Turns ==
  ASSUME NEW v, NEW S, NEW h, StackOk(stack, v, S, h), stack # <<>>, NEW g, GoesOn(g),
         NEW w, NEW U, NEW k, Stays(S, v, U, w), w.draining = v.draining,
         g.todo # <<>> => FrameOk(g, w, U) /\ TopOk(g, w, U, k) /\ ~IsDrain(g)
  PROVE  StackOk(stack', w, U, k)
<1>1. IsSeq(stack) /\ OneDrain(stack)
  BY DEF StackOk
<1>2. /\ IsSeq(stack')
      /\ FramesOf(stack') = (IF g.todo = <<>> THEN {} ELSE {g}) \cup Below(stack)
      /\ Below(stack') \subseteq Below(stack)
      /\ stack' # <<>> =>
           IF g.todo = <<>> THEN Head(stack') \in Below(stack) ELSE Head(stack') = g
  BY <1>1, GoesOnEffect
<1>3. Below(stack) \subseteq FramesOf(stack)
  BY <1>1, StackOf
<1>4. ASSUME NEW q \in Below(stack)
      PROVE  FrameOk(q, w, U) /\ WaitsBelow(q)
  <2>1. FrameOk(q, v, S) /\ WaitsBelow(q)
    BY <1>3 DEF StackOk
  <2>2. IsDrain(q) => w.draining
    BY <2>1 DEF FrameOk
  <2> QED BY <2>1, <2>2, FrameStays
<1>5. OneDrain(stack')
  BY <1>1, GoesOnDrains
<1>6. stack' # <<>> => TopOk(Head(stack'), w, U, k)
  BY <1>2, <1>4, WaitingRuns
<1>7. \A q \in FramesOf(stack') : FrameOk(q, w, U)
  BY <1>2, <1>4
<1>8. \A q \in Below(stack') : WaitsBelow(q)
  BY <1>2, <1>4
<1> QED BY <1>2, <1>5, <1>6, <1>7, <1>8 DEF StackOk

\* The plan that is out is carried by the frame that goes on, or by another one.
LEMMA CarriesOn ==
  ASSUME IsSeq(stack), stack # <<>>, NEW g, GoesOn(g),
         NEW v, NEW S, Carried(stack, v, S), NEW w, NEW U,
         w.active = v.active, w.epoch = v.epoch, w.conn = v.conn,
         \A y \in U : \A p \in y.pending :
           \/ g.todo # <<>> /\ Bears(g, p.token) /\ SameAs(g, w)
           \/ (\E x \in S : p \in x.pending) /\ ~(Bears(Top, p.token) /\ SameAs(Top, v))
  PROVE  Carried(stack', w, U)
<1>1. FramesOf(stack') = (IF g.todo = <<>> THEN {} ELSE {g}) \cup Below(stack)
  BY GoesOnEffect
<1>2. FramesOf(stack) = {Top} \cup Below(stack)
  BY StackOf DEF Top
<1> SUFFICES ASSUME ~Mute(w), NEW y \in U, NEW p \in y.pending
             PROVE  \E q \in FramesOf(stack') : Bears(q, p.token) /\ SameAs(q, w)
  BY DEF Carried
<1>3. CASE g.todo # <<>> /\ Bears(g, p.token) /\ SameAs(g, w)
  BY <1>1, <1>3
<1>4. CASE (\E x \in S : p \in x.pending) /\ ~(Bears(Top, p.token) /\ SameAs(Top, v))
  <2>1. PICK q \in FramesOf(stack) : Bears(q, p.token) /\ SameAs(q, v)
    BY <1>4 DEF Carried, Mute
  <2>2. q \in Below(stack)
    BY <1>2, <1>4, <2>1
  <2>3. SameAs(q, w)
    BY <2>1 DEF SameAs
  <2> QED BY <1>1, <2>1, <2>2, <2>3
<1> QED BY <1>3, <1>4
-----------------------------------------------------------------------------
(* Plans and their frames. *)

\* What an operation takes of the editor.
LEMMA StepsEffect ==
  ASSUME NEW op
  PROVE  /\ IsSeq(Steps(op)) /\ Steps(op) # <<>>
         /\ Finishing(op) =>
              \A k \in DOMAIN Steps(op) : Steps(op)[k].kind \in {"commit", "release", "finish"}
         /\ ~Composing(op) => ~HasCompose(Steps(op))
<1>1. ASSUME NEW a
      PROVE  IsSeq(<<a>>) /\ <<a>> # <<>> /\ \A k \in DOMAIN <<a>> : <<a>>[k] = a
  <2>1. IsSeq(<<a>>) /\ Len(<<a>>) = 1 /\ <<a>>[1] = a /\ <<a>> # <<>>
    BY OneInstruction
  <2>2. DOMAIN <<a>> = 1..1
    BY <2>1, DomainOf
  <2>3. \A k \in 1..1 : k = 1
    OBVIOUS
  <2> QED BY <2>1, <2>2, <2>3
<1>2. ASSUME NEW a, NEW b
      PROVE  /\ IsSeq(<<a, b>>) /\ <<a, b>> # <<>>
             /\ \A k \in DOMAIN <<a, b>> : <<a, b>>[k] \in {a, b}
  <2>1. IsSeq(<<a, b>>) /\ Len(<<a, b>>) = 2 /\ <<a, b>>[1] = a /\ <<a, b>>[2] = b
    BY TwoInstructions
  <2>2. DOMAIN <<a, b>> = 1..2 /\ <<a, b>> # <<>>
    BY <2>1, DomainOf
  <2>3. \A k \in 1..2 : k = 1 \/ k = 2
    OBVIOUS
  <2> QED BY <2>1, <2>2, <2>3
<1>3. CASE op.kind = "Update"
  <2>1. Steps(op) = <<[kind |-> "compose", text |-> <<>>]>>
    BY <1>3 DEF Steps
  <2> QED BY <1>1, <1>3, <2>1 DEF Finishing, Composing
<1>4. CASE op.kind = "Commit"
  <2>1. Steps(op) = <<[kind |-> "commit", text |-> op.text]>>
    BY <1>4 DEF Steps
  <2> QED BY <1>1, <1>4, <2>1 DEF Finishing, Composing, HasCompose
<1>5. CASE op.kind = "CommitThenUpdate"
  <2>1. Steps(op) = <<[kind |-> "commit", text |-> op.text], [kind |-> "compose", text |-> <<>>]>>
    BY <1>5 DEF Steps
  <2> QED BY <1>2, <1>5, <2>1 DEF Finishing, Composing
<1>6. CASE op.kind = "End" /\ op.delete
  <2>1. Steps(op) = <<[kind |-> "release", text |-> <<>>], [kind |-> "finish", text |-> <<>>]>>
    BY <1>6 DEF Steps
  <2> QED BY <1>2, <1>6, <2>1 DEF Finishing, Composing, HasCompose
<1>7. CASE op.kind \notin {"Update", "Commit", "CommitThenUpdate"} /\ ~(op.kind = "End" /\ op.delete)
  <2>1. Steps(op) = <<[kind |-> "finish", text |-> <<>>]>>
    BY <1>7 DEF Steps
  <2> QED BY <1>1, <2>1 DEF HasCompose
<1> QED BY <1>3, <1>4, <1>5, <1>6, <1>7

\* The plan of a session, as the first instruction of a frame of the editor in focus.
LEMMA ExecutesFrame ==
  ASSUME NEW y, Good(y), y.pending # {}, NEW g, DOMAIN g = FrameFields,
         IsSeq(g.todo), g.todo # <<>>, Head(g.todo) = Executes(y), Later(Tail(g.todo)),
         NEW w, w.epoch \in Nat, SameAs(g, w), g.conn # {}, NEW h,
         w.draining \/ (Tail(g.todo) = <<>> /\ \A p \in y.pending : ~Composing(p.op))
  PROVE  /\ FrameOk(g, w, {y}) /\ TopOk(g, w, {y}, h) /\ ~IsDrain(g)
         /\ \A p \in y.pending : Bears(g, p.token)
<1> DEFINE p == The(y.pending)  i == Executes(y)
<1>1. p \in y.pending
  BY DEF The
<1>2. \A r \in y.pending : r = p
  BY <1>1 DEF Good, FewPlans, Few
<1>3. p.token[1] = y.generation /\ y.generation \in Nat
  BY <1>1 DEF Good, Shape, PlanIsCurrent, Token
<1>4. Issued(p.token, {y})
  BY <1>3 DEF Issued
<1> HIDE DEF p
<1>5. CASE p.op.kind = "NoOp"
  <2>1. i = Settles(p.token, "Applied")
    BY <1>5 DEF Executes, p
  <2>2. ~Finishing(p.op)
    BY <1>5 DEF Finishing
  <2>3. FrameOk(g, w, {y}) /\ ~IsDrain(g)
    BY <1>4, <2>1 DEF FrameOk, SameAs, IsDrain, Settles
  <2>4. TopOk(g, w, {y}, h)
    <3>1. SettleOk(i, w, {y})
      BY <1>2, <2>1, <2>2 DEF SettleOk, Settles
    <3>2. OfRuntime(g) \/ w.draining
      BY <2>1 DEF OfRuntime, Settles
    <3> QED BY <2>1, <3>1, <3>2 DEF TopOk, Settles, Composed
  <2> QED BY <1>2, <2>1, <2>3, <2>4 DEF Bears, Settles
<1>6. CASE p.op.kind # "NoOp" /\ p.owned /\ ~svc.owns
  <2>1. i = Settles(p.token, "StaleContext")
    BY <1>6 DEF Executes, p
  <2>3. FrameOk(g, w, {y}) /\ ~IsDrain(g)
    BY <1>4, <2>1 DEF FrameOk, SameAs, IsDrain, Settles
  <2>4. TopOk(g, w, {y}, h)
    <3>1. SettleOk(i, w, {y})
      BY <2>1 DEF SettleOk, Settles
    <3>2. OfRuntime(g) \/ w.draining
      BY <2>1 DEF OfRuntime, Settles
    <3> QED BY <2>1, <3>1, <3>2 DEF TopOk, Settles, Composed
  <2> QED BY <1>2, <2>1, <2>3, <2>4 DEF Bears, Settles
<1>7. CASE p.op.kind # "NoOp" /\ ~(p.owned /\ ~svc.owns)
  <2>1. i = Edit(Steps(p.op), {p.token})
    BY <1>7 DEF Executes, p
  <2>2. /\ i.do = "Edit" /\ i.at = "begin" /\ i.steps = Steps(p.op) /\ i.token = {p.token}
        /\ DOMAIN i = EditFields
    BY <2>1 DEF Edit
  <2>3. EditOk(i, w, {y})
    <3>1. /\ IsSeq(i.steps) /\ i.steps # <<>>
          /\ Finishing(p.op) =>
               \A k \in DOMAIN i.steps : i.steps[k].kind \in {"commit", "release", "finish"}
      BY <2>2, StepsEffect
    <3> QED BY <1>2, <1>4, <2>2, <3>1 DEF EditOk
  <2>4. FrameOk(g, w, {y}) /\ ~IsDrain(g)
    BY <2>2, <2>3 DEF FrameOk, SameAs, IsDrain
  <2>5. TopOk(g, w, {y}, h)
    <3>1. OfRuntime(g) \/ w.draining
      <4>1. ~Composing(p.op) => ~HasCompose(i.steps)
        BY <2>2, StepsEffect
      <4>2. i.token # {}
        BY <2>2
      <4>3. w.draining \/ (Tail(g.todo) = <<>> /\ ~HasCompose(i.steps))
        BY <1>1, <4>1
      <4> HIDE DEF i
      <4> QED BY <2>2, <4>2, <4>3 DEF OfRuntime, i
    <3> QED BY <2>2, <3>1 DEF TopOk, Composed
  <2> QED BY <1>2, <2>2, <2>4, <2>5 DEF Bears
<1> QED BY <1>5, <1>6, <1>7

\* A call that is not about runtimes keeps the session as the service uses it.
LEMMA KeptInUse ==
  ASSUME NEW x, NEW y, NEW n, NEW v, NEW w, InUse(x, n, v), Kept(x, y), w.owns => v.owns
  PROVE  InUse(y, n, w)
<1>1. Deferral(y, n)
  BY KeptMoves DEF InUse, Moves
<1>2. Good(y) /\ ~y.closed /\ y.cleanup = {}
  BY DEF InUse, Kept, KeepsRuntime, KeepsCleanup
<1>3. w.owns => y.context.owns \/ y.pending # {}
  BY DEF InUse, Kept, KeepsRuntime, KeepsCleanup
<1> QED BY <1>1, <1>2, <1>3 DEF InUse
-----------------------------------------------------------------------------
(* A step of the running frame. *)

\* What a step of a frame leaves of the service's fields.
Quiet(v, w) ==
  /\ DOMAIN w = ServiceFields /\ w.active = v.active /\ w.epoch = v.epoch /\ w.conn = v.conn
  /\ w.queue = v.queue /\ w.generation = v.generation /\ w.draining = v.draining
  /\ w.runtime = v.runtime

LEMMA LoaderStays ==
  ASSUME LoaderOk(svc), UNCHANGED <<loader, disk>>, svc'.runtime = svc.runtime
  PROVE  LoaderOk(svc)'
  BY DEF LoaderOk, BuiltOk, NewestArrives, LastJob, LastBuilt

LEMMA HostStays ==
  ASSUME NEW h, NEW v, NEW w, HostOk(h, v), w.owns => v.owns
  PROVE  HostOk(h, w)
  BY DEF HostOk

LEMMA RunsOn ==
  ASSUME IInv, stack # <<>>, UNCHANGED <<loader, disk>>, NEW g, GoesOn(g),
         Quiet(svc, svc'), svc'.pinyin \in Latches, svc'.owns \in BOOLEAN,
         svc'.owns => svc'.active /\ svc'.conn # {} /\ session' # {},
         SessionOk(session', svc'), HostOk(host', svc'), Stays(session, svc, session', svc'),
         g.todo # <<>> =>
           FrameOk(g, svc', session') /\ TopOk(g, svc', session', host') /\ ~IsDrain(g),
         \A y \in session' : \A p \in y.pending :
           \/ g.todo # <<>> /\ Bears(g, p.token) /\ SameAs(g, svc')
           \/ /\ \E x \in session : p \in x.pending
              /\ ~(Bears(Top, p.token) /\ SameAs(Top, svc))
  PROVE  IInv'
<1>1. LoaderOk(svc)'
  BY LoaderStays DEF IInv, Quiet
<1>2. StackOk(stack', svc', session', host')
  BY Turns DEF IInv, Quiet
<1>3. Carried(stack', svc', session')
  BY CarriesOn DEF IInv, Quiet, StackOk
<1>4. ServiceOk(svc', session')
  BY DEF IInv, Quiet, ServiceOk, QueueOk
<1> QED BY <1>1, <1>2, <1>3, <1>4 DEF IInv

\* The frame goes on with something of its own, and nothing else changes.
LEMMA TodoEffect ==
  ASSUME NEW q, DOMAIN q = FrameFields, NEW todo
  PROVE  LET g == [q EXCEPT !.todo = todo]
         IN /\ DOMAIN g = FrameFields /\ g.todo = todo /\ g.epoch = q.epoch /\ g.conn = q.conn
            /\ g.done = q.done /\ g.ok = q.ok
  OBVIOUS
-----------------------------------------------------------------------------
(* The edits of the frames. *)

\* The last report says what the editor is left with.
LEMMA ReportedEffect ==
  ASSUME NEW h, DOMAIN h = HostFields, IsSeq(h.reports), NEW own, NEW v
  PROVE  LET k == Reported(h, own)
         IN HostOk(k, v) /\ k.composing = h.composing
<1> DEFINE report == [own |-> own, selected |-> h.selected, composing |-> h.composing]
           n == Len(h.reports)
           last == [report EXCEPT !.own = own /\ h.reports[n].own]
           all == IF n < MaxReports THEN Append(h.reports, report) ELSE [h.reports EXCEPT ![n] = last]
           k == Reported(h, own)
<1>1. k.reports = all /\ k.composing = h.composing /\ DOMAIN k = HostFields
  BY DEF Reported
<1>2. n \in Nat /\ DOMAIN h.reports = 1..n
  BY DomainOf
<1>3. IsSeq(all) /\ all # <<>> /\ all[Len(all)].composing = h.composing
  <2>1. PICK Q : h.reports \in Seq(Q)
    BY DEF IsSeq
  <2> HIDE DEF report
  <2>2. h.reports \in Seq(Q \cup {report, last}) /\ report.composing = h.composing
    BY <2>1 DEF report
  <2>3. CASE n < MaxReports
    <3>1. all = Append(h.reports, report)
      BY <2>3
    <3> HIDE DEF all
    <3>2. all \in Seq(Q \cup {report, last}) /\ Len(all) = n + 1 /\ all[n + 1] = report
      BY <2>2, <3>1
    <3> QED BY <1>2, <2>2, <3>2 DEF IsSeq
  <2>4. CASE ~(n < MaxReports)
    <3>1. all = [h.reports EXCEPT ![n] = last] /\ n \in 1..n
      BY <1>2, <2>4, TouchHostAssumption
    <3>2. last.composing = h.composing
      BY DEF report
    <3> HIDE DEF all, last
    <3>3. all \in Seq(Q \cup {report, last}) /\ Len(all) = n /\ all[n] = last
      BY <1>2, <2>2, <3>1
    <3>4. all # <<>>
      BY <3>1, <3>3, EmptySequence
    <3> QED BY <3>2, <3>3, <3>4 DEF IsSeq
  <2> QED BY <2>3, <2>4
<1> HIDE DEF all
<1> QED BY <1>1, <1>3 DEF HostOk, LastReport

LEMMA WrittenEffect ==
  ASSUME NEW h, DOMAIN h = HostFields, IsSeq(h.reports), NEW step
  PROVE  LET k == Written(h, step)
         IN /\ DOMAIN k = HostFields /\ IsSeq(k.reports)
            /\ step.kind = "compose" => k.composing
  BY DEF Written

\* An edit goes on with what is left of it.
LEMMA EditGoesOn ==
  ASSUME StackOk(stack, svc, session, host), stack # <<>>, Now.do = "Edit",
         NEW j, j.do = "Edit", j.token = Now.token,
         HasCompose(j.steps) => HasCompose(Now.steps),
         NEW w, w.epoch = svc.epoch, w.conn = svc.conn, w.active = svc.active,
         w.draining = svc.draining, NEW k, EditOk(j, w, session),
         Composed(j) /\ SameAs(Top, svc) => k.composing,
         NEW g, DOMAIN g = FrameFields, g.todo = <<j>> \o Rest,
         g.epoch = Top.epoch, g.conn = Top.conn
  PROVE  /\ g.todo # <<>> /\ FrameOk(g, w, session) /\ TopOk(g, w, session, k) /\ ~IsDrain(g)
         /\ \A t : Bears(Top, t) => Bears(g, t)
         /\ SameAs(g, w) <=> SameAs(Top, svc)
<1>1. FrameOk(Top, svc, session) /\ TopOk(Top, svc, session, host) /\ Later(Rest) /\ IsSeq(Rest)
  BY TopFrame
<1>2. IsSeq(g.todo) /\ g.todo # <<>> /\ Head(g.todo) = j /\ Tail(g.todo) = Rest
  BY <1>1, HeadAndTail
<1>3. SameAs(g, w) <=> SameAs(Top, svc)
  BY DEF SameAs
<1>4. OfRuntime(Top) => OfRuntime(g)
  BY <1>2 DEF OfRuntime, Rest, Now
<1>5. FrameOk(g, w, session) /\ ~IsDrain(g)
  BY <1>1, <1>2 DEF FrameOk, IsDrain, Now
<1>6. TopOk(g, w, session, k)
  BY <1>1, <1>2, <1>3, <1>4 DEF TopOk
<1>7. \A t : Bears(Top, t) => Bears(g, t)
  BY <1>2 DEF Bears, Now
<1> QED BY <1>2, <1>3, <1>5, <1>6, <1>7

LEMMA EditsOn ==
  ASSUME IInv, stack # <<>>, Now.do = "Edit", UNCHANGED <<session, loader, disk>>,
         NEW j, j.do = "Edit", j.token = Now.token,
         HasCompose(j.steps) => HasCompose(Now.steps),
         Quiet(svc, svc'), svc'.pinyin = svc.pinyin, svc'.owns \in BOOLEAN,
         svc'.owns => \/ svc.owns
                     \/ /\ svc.active /\ svc.conn # {}
                        /\ \A x \in session : x.pending # {}
                        /\ \A x \in session : \A p \in x.pending : ~Finishing(p.op),
         EditOk(j, svc', session), HostOk(host', svc'),
         Composed(j) /\ SameAs(Top, svc) => host'.composing,
         NEW g, DOMAIN g = FrameFields, g.todo = <<j>> \o Rest,
         g.epoch = Top.epoch, g.conn = Top.conn, GoesOn(g)
  PROVE  IInv'
<1>1. /\ g.todo # <<>> /\ FrameOk(g, svc', session) /\ TopOk(g, svc', session, host') /\ ~IsDrain(g)
      /\ \A t : Bears(Top, t) => Bears(g, t)
      /\ SameAs(g, svc') <=> SameAs(Top, svc)
  <2>1. StackOk(stack, svc, session, host)
    BY DEF IInv
  <2>2. /\ svc'.epoch = svc.epoch /\ svc'.conn = svc.conn /\ svc'.active = svc.active
        /\ svc'.draining = svc.draining
    BY DEF Quiet
  <2> HIDE DEF IInv, Quiet
  <2> QED BY <2>1, <2>2, EditGoesOn
<1>2. session # {}
  BY TopFrame DEF IInv, FrameOk, Now
<1>3. SessionOk(session, svc')
  BY <1>2 DEF IInv, SessionOk, InUse, Quiet
<1>4. Stays(session, svc, session, svc')
  BY DEF Stays, IInv, ServiceOk, Quiet, SessionOk, InUse, Good, Shape
<1>5. svc'.owns => svc'.active /\ svc'.conn # {}
  BY DEF IInv, ServiceOk, Quiet
<1>6. svc'.pinyin \in Latches
  BY DEF IInv, ServiceOk
<1> QED BY <1>1, <1>2, <1>3, <1>4, <1>5, <1>6, RunsOn

\* What the invariant says of the running edit.
LEMMA RunningEdit ==
  ASSUME IInv, stack # <<>>, Now.do = "Edit"
  PROVE  /\ DOMAIN Top = FrameFields /\ DOMAIN svc = ServiceFields /\ svc.owns \in BOOLEAN
         /\ EditOk(Now, svc, session) /\ DOMAIN Now = EditFields /\ IsSeq(Rest)
         /\ HostOk(host, svc)
         /\ Composed(Now) /\ SameAs(Top, svc) => host.composing
<1>1. FrameOk(Top, svc, session) /\ TopOk(Top, svc, session, host) /\ IsSeq(Rest)
  BY TopFrame DEF IInv
<1>2. EditOk(Now, svc, session) /\ (Composed(Now) /\ SameAs(Top, svc) => host.composing)
  BY <1>1 DEF FrameOk, TopOk, Now
<1> QED BY <1>1, <1>2 DEF FrameOk, EditOk, IInv, ServiceOk

\* The first of the steps that are left, and the others.
LEMMA StepsLeft ==
  ASSUME NEW steps, IsSeq(steps), steps # <<>>
  PROVE  /\ IsSeq(Tail(steps)) /\ 1 \in DOMAIN steps /\ Head(steps) = steps[1]
         /\ \A k \in DOMAIN Tail(steps) : \E m \in DOMAIN steps : Tail(steps)[k] = steps[m]
         /\ HasCompose(Tail(steps)) => HasCompose(steps)
<1> DEFINE t == Tail(steps)
<1>1. /\ IsSeq(t) /\ Len(steps) \in Nat /\ DOMAIN steps = 1..Len(steps) /\ Len(steps) > 0
      /\ Len(t) = Len(steps) - 1 /\ Head(steps) = steps[1]
      /\ \A k \in 1..(Len(steps) - 1) : t[k] = steps[k + 1]
  BY DomainOf, TailOf
<1>2. DOMAIN t = 1..Len(t)
  BY <1>1, DomainOf
<1> HIDE DEF t
<1>3. \A k \in DOMAIN t : k + 1 \in DOMAIN steps /\ t[k] = steps[k + 1]
  BY <1>1, <1>2
<1>4. 1 \in DOMAIN steps
  BY <1>1
<1>5. HasCompose(t) => HasCompose(steps)
  BY <1>3 DEF HasCompose
<1> USE DEF t
<1> QED BY <1>1, <1>3, <1>4, <1>5

LEMMA QuietIsQuiet ==
  ASSUME DOMAIN svc = ServiceFields, UNCHANGED svc
  PROVE  Quiet(svc, svc')
  BY DEF Quiet

LEMMA BeginKeeps ==
  ASSUME IInv, Begin
  PROVE  IInv'
<1> DEFINE j == Phase("step")  g == [Top EXCEPT !.todo = <<j>> \o Rest]
<1>1. stack # <<>> /\ Now.do = "Edit" /\ Now.at = "begin" /\ GoesOn(g)
  BY DEF Begin, RunningAt, Running, Continue
<1>2. UNCHANGED <<session, svc, host, loader, disk>>
  BY DEF Begin
<1>3. /\ DOMAIN Top = FrameFields /\ DOMAIN svc = ServiceFields /\ svc.owns \in BOOLEAN
      /\ EditOk(Now, svc, session) /\ DOMAIN Now = EditFields /\ HostOk(host, svc)
  BY <1>1, RunningEdit
<1>4. /\ DOMAIN g = FrameFields /\ g.todo = <<j>> \o Rest
      /\ g.epoch = Top.epoch /\ g.conn = Top.conn
  BY <1>3, TodoEffect
<1>5. /\ DOMAIN j = EditFields /\ j.do = "Edit" /\ j.at = "step" /\ j.token = Now.token
      /\ j.steps = Now.steps
  BY <1>1, <1>3 DEF Phase
<1> HIDE DEF j, g
<1>6. EditOk(j, svc', session) /\ ~Composed(j)
  BY <1>2, <1>3, <1>5 DEF EditOk, Composed
<1>7. Quiet(svc, svc')
  BY <1>2, <1>3, QuietIsQuiet
<1> QED BY <1>1, <1>2, <1>3, <1>4, <1>5, <1>6, <1>7, EditsOn

LEMMA DoStepKeeps ==
  ASSUME IInv, DoStep
  PROVE  IInv'
<1>1. stack # <<>> /\ Now.do = "Edit" /\ Now.at = "step" /\ UNCHANGED <<session, svc, loader, disk>>
  BY DEF DoStep, RunningAt, Running
<1>2. /\ DOMAIN Top = FrameFields /\ DOMAIN svc = ServiceFields /\ svc.owns \in BOOLEAN
      /\ EditOk(Now, svc, session) /\ DOMAIN Now = EditFields /\ HostOk(host, svc)
  BY <1>1, RunningEdit
<1>3. Quiet(svc, svc')
  BY <1>1, <1>2, QuietIsQuiet
<1>4. CASE Now.steps = <<>> \/ ~MayWrite(Now)
  <2> DEFINE j == [Phase("end") EXCEPT !.res = (Now.steps = <<>>)]
             g == [Top EXCEPT !.todo = <<j>> \o Rest]
  <2>1. GoesOn(g) /\ UNCHANGED host
    BY <1>4 DEF DoStep, Continue
  <2>2. /\ DOMAIN g = FrameFields /\ g.todo = <<j>> \o Rest
        /\ g.epoch = Top.epoch /\ g.conn = Top.conn
    BY <1>2, TodoEffect
  <2>3. /\ DOMAIN j = EditFields /\ j.do = "Edit" /\ j.at = "end" /\ j.token = Now.token
        /\ j.steps = Now.steps /\ j.res = (Now.steps = <<>>)
    BY <1>1, <1>2 DEF Phase
  <2> HIDE DEF j, g
  <2>4. EditOk(j, svc', session) /\ ~Composed(j)
    BY <1>1, <1>2, <2>3 DEF EditOk, Composed
  <2> QED BY <1>1, <1>2, <1>3, <2>1, <2>2, <2>3, <2>4, EditsOn
<1>5. CASE ~(Now.steps = <<>> \/ ~MayWrite(Now))
  <2>1. PICK res \in BOOLEAN :
          /\ host' \in Effects(Head(Now.steps), Now.token # {}, res)
          /\ Continue(<<[Phase("ret") EXCEPT !.res = res]>> \o Rest)
    BY <1>5 DEF DoStep
  <2> DEFINE j == [Phase("ret") EXCEPT !.res = res]
             g == [Top EXCEPT !.todo = <<j>> \o Rest]
  <2>2. GoesOn(g)
    BY <2>1 DEF Continue
  <2>3. /\ DOMAIN g = FrameFields /\ g.todo = <<j>> \o Rest
        /\ g.epoch = Top.epoch /\ g.conn = Top.conn
    BY <1>2, TodoEffect
  <2>4. /\ DOMAIN j = EditFields /\ j.do = "Edit" /\ j.at = "ret" /\ j.token = Now.token
        /\ j.steps = Now.steps /\ j.res = res
    BY <1>1, <1>2 DEF Phase
  <2> HIDE DEF j, g
  <2>5. EditOk(j, svc', session)
    BY <1>1, <1>2, <1>5, <2>4 DEF EditOk
  <2>6. HostOk(host', svc') /\ (res /\ Head(Now.steps).kind = "compose" => host'.composing)
    <3> DEFINE k == Written(host, Head(Now.steps))
    <3>1. DOMAIN k = HostFields /\ IsSeq(k.reports) /\ (Head(Now.steps).kind = "compose" => k.composing)
      BY <1>2, WrittenEffect DEF HostOk
    <3>2. HostOk(Reported(k, Now.token # {}), svc') /\ Reported(k, Now.token # {}).composing = k.composing
      BY <3>1, ReportedEffect
    <3>3. host' = Reported(k, Now.token # {}) \/ (~res /\ host' = host)
      BY <2>1 DEF Effects
    <3> HIDE DEF k
    <3>4. HostOk(host, svc')
      BY <1>1, <1>2
    <3> QED BY <3>1, <3>2, <3>3, <3>4
  <2>7. Composed(j) => host'.composing
    BY <2>4, <2>6 DEF Composed
  <2> QED BY <1>1, <1>2, <1>3, <2>2, <2>3, <2>4, <2>5, <2>6, <2>7, EditsOn
<1> QED BY <1>4, <1>5

\* The plan of a current instruction is the one that is out.
LEMMA CurrentPlan ==
  ASSUME IInv, NEW i, NEW tok, i.token = {tok}, Current(i), session # {}
  PROVE  \E x \in session :
           /\ session = {x} /\ Same /\ IsCurrent(x, tok)
           /\ \E p \in x.pending : x.pending = {p} /\ p.token = tok
<1>1. PICK x \in session : session = {x} /\ Good(x)
  BY DEF IInv, SessionOk, InUse
<1>2. The(i.token) = tok /\ i.token # {}
  BY DEF The
<1>3. Same /\ IsCurrent(x, tok)
  BY <1>2 DEF Current
<1>4. PICK p \in x.pending : p.token = tok
  BY <1>3 DEF IsCurrent
<1>5. x.pending = {p}
  BY <1>1 DEF Good, FewPlans, Few
<1> QED BY <1>1, <1>3, <1>4, <1>5

LEMMA StepReturnsKeeps ==
  ASSUME IInv, StepReturns
  PROVE  IInv'
<1> DEFINE good == Now.res /\ Current(Now)
           j == IF good THEN [Phase("step") EXCEPT !.steps = Tail(@)]
                ELSE [Phase("end") EXCEPT !.res = FALSE]
           g == [Top EXCEPT !.done = @ \/ Now.res, !.todo = <<j>> \o Rest]
           owns == OwnsAfterStep(Head(Now.steps).kind, svc.owns)
           own == good /\ Now.token # {}
<1>1. stack # <<>> /\ Now.do = "Edit" /\ Now.at = "ret" /\ UNCHANGED <<session, host, loader, disk>>
  BY DEF StepReturns, RunningAt, Running
<1>2. GoesOn(g) /\ svc' = IF own THEN [svc EXCEPT !.owns = owns] ELSE svc
  BY DEF StepReturns
<1>3. /\ DOMAIN Top = FrameFields /\ DOMAIN svc = ServiceFields /\ svc.owns \in BOOLEAN
      /\ EditOk(Now, svc, session) /\ DOMAIN Now = EditFields /\ HostOk(host, svc)
      /\ Composed(Now) /\ SameAs(Top, svc) => host.composing
  BY <1>1, RunningEdit
<1>4. /\ DOMAIN g = FrameFields /\ g.todo = <<j>> \o Rest
      /\ g.epoch = Top.epoch /\ g.conn = Top.conn
  BY <1>3
<1>5. /\ IsSeq(Now.steps) /\ Now.steps # <<>>
      /\ IsSeq(Tail(Now.steps)) /\ 1 \in DOMAIN Now.steps /\ Head(Now.steps) = Now.steps[1]
      /\ \A k \in DOMAIN Tail(Now.steps) :
           \E m \in DOMAIN Now.steps : Tail(Now.steps)[k] = Now.steps[m]
      /\ HasCompose(Tail(Now.steps)) => HasCompose(Now.steps)
  BY <1>1, <1>3, StepsLeft DEF EditOk
<1>6. /\ DOMAIN j = EditFields /\ j.do = "Edit" /\ j.token = Now.token /\ ~Composed(j)
      /\ good => j.at = "step" /\ j.steps = Tail(Now.steps)
      /\ ~good => j.at = "end" /\ j.steps = Now.steps /\ ~j.res
  <2>1. CASE good
    BY <1>1, <1>3, <2>1 DEF Phase, Composed
  <2>2. CASE ~good
    BY <1>1, <1>3, <2>2 DEF Phase, Composed
  <2> QED BY <2>1, <2>2
<1> HIDE DEF j, g
<1>7. HasCompose(j.steps) => HasCompose(Now.steps)
  BY <1>5, <1>6
<1>8. owns \in BOOLEAN
  BY <1>3 DEF OwnsAfterStep
<1>9. Quiet(svc, svc') /\ svc'.pinyin = svc.pinyin /\ svc'.owns = (IF own THEN owns ELSE svc.owns)
  BY <1>2, <1>3 DEF Quiet
<1>10. own => \E x \in session :
                /\ session = {x} /\ Same
                /\ \E p \in x.pending : x.pending = {p} /\ Now.token = {p.token}
  <2> SUFFICES ASSUME own
               PROVE  \E x \in session :
                        /\ session = {x} /\ Same
                        /\ \E p \in x.pending : x.pending = {p} /\ Now.token = {p.token}
    OBVIOUS
  <2>1. PICK tok : Now.token = {tok}
    BY <1>3 DEF EditOk
  <2>2. session # {}
    BY <1>1, TopFrame DEF IInv, FrameOk, Now
  <2>3. Current(Now)
    OBVIOUS
  <2>4. PICK x \in session :
           /\ session = {x} /\ Same
           /\ \E p \in x.pending : x.pending = {p} /\ p.token = tok
    BY <2>1, <2>2, <2>3, CurrentPlan
  <2> HIDE DEF good, own, owns
  <2> QED BY <2>1, <2>4
<1>11. own /\ Head(Now.steps).kind = "compose" =>
         \A x \in session : \A p \in x.pending : ~Finishing(p.op)
  <2> SUFFICES ASSUME own, Head(Now.steps).kind = "compose", NEW x \in session, NEW p \in x.pending,
                      Finishing(p.op)
               PROVE  FALSE
    OBVIOUS
  <2>1. Now.token = {p.token}
    BY <1>10
  <2>2. Now.steps[1].kind \in {"commit", "release", "finish"}
    BY <1>3, <1>5, <2>1 DEF EditOk
  <2> QED BY <1>5, <2>2
<1>12. own /\ owns => svc.owns \/ Head(Now.steps).kind = "compose"
  BY DEF OwnsAfterStep
<1>13. svc'.owns => \/ svc.owns
                    \/ /\ own /\ Head(Now.steps).kind = "compose" /\ svc.active /\ svc.conn # {}
                       /\ \A x \in session : x.pending # {}
                       /\ \A x \in session : \A p \in x.pending : ~Finishing(p.op)
  <2>1. Top.conn # {}
    BY <1>1, TopFrame DEF IInv, FrameOk, Now
  <2>2. own => svc.active /\ svc.conn # {} /\ \A x \in session : x.pending # {}
    BY <1>10, <2>1 DEF Same
  <2> QED BY <1>9, <1>11, <1>12, <2>2
<1>14. EditOk(j, svc', session)
  <2> SUFFICES ASSUME NEW x \in session, NEW p \in x.pending, j.token = {p.token}, Finishing(p.op)
               PROVE  /\ \A k \in DOMAIN j.steps : j.steps[k].kind \in {"commit", "release", "finish"}
                      /\ j.steps = <<>> => ~svc'.owns
    BY <1>3, <1>5, <1>6 DEF EditOk
  <2>1. \A k \in DOMAIN Now.steps : Now.steps[k].kind \in {"commit", "release", "finish"}
    BY <1>3, <1>6 DEF EditOk
  <2>2. \A k \in DOMAIN j.steps : j.steps[k].kind \in {"commit", "release", "finish"}
    BY <1>5, <1>6, <2>1
  <2>3. Head(Now.steps).kind \in {"commit", "release", "finish"}
    BY <1>5, <2>1
  <2>4. ~owns
    BY <2>3 DEF OwnsAfterStep
  <2>5. j.steps = <<>> => own
    BY <1>5, <1>6
  <2> QED BY <1>9, <2>2, <2>4, <2>5
<1>15. HostOk(host', svc')
  <2>1. ASSUME own, Head(Now.steps).kind = "compose"
        PROVE  host.composing
    <3>1. Composed(Now)
      BY <1>1, <2>1 DEF Composed
    <3>2. SameAs(Top, svc)
      BY <1>10, <2>1 DEF Same, SameAs
    <3> QED BY <1>3, <3>1, <3>2
  <2> QED BY <1>1, <1>3, <1>13, <2>1 DEF HostOk
<1>16. svc'.owns \in BOOLEAN
  BY <1>3, <1>8, <1>9
<1> HIDE DEF good, owns, own
<1> QED BY <1>1, <1>2, <1>4, <1>6, <1>7, <1>9, <1>13, <1>14, <1>15, <1>16, EditsOn

\* What is left of a frame goes on without the instruction that ran.
LEMMA RestGoesOn ==
  ASSUME NEW v, NEW S, NEW h, StackOk(stack, v, S, h), stack # <<>>, Rest # <<>>,
         v.epoch \in Nat, NEW U, U # {}, NEW w, w.epoch = v.epoch, w.conn = v.conn,
         w.active = v.active, w.draining = v.draining,
         NEW g, DOMAIN g = FrameFields, g.todo = Rest, g.epoch = Top.epoch, g.conn = Top.conn,
         g.ok => SameAs(Top, v), Now.do \notin {"Drain", "Serial"}, NEW k
  PROVE  FrameOk(g, w, U) /\ TopOk(g, w, U, k) /\ ~IsDrain(g) /\ \A t : ~Bears(g, t)
<1>1. FrameOk(Top, v, S) /\ TopOk(Top, v, S, h) /\ Later(Rest)
  BY TopFrame
<1>2. g.epoch \in Nat /\ g.epoch <= w.epoch /\ g.conn # {}
  BY <1>1 DEF FrameOk, Now
<1>3. w.draining
  BY <1>1 DEF TopOk, OfRuntime, Rest
<1>4. g.ok => SameAs(g, w)
  BY DEF SameAs
<1> QED BY <1>1, <1>2, <1>3, <1>4, LaterFrame

LEMMA EndPlanKeeps ==
  ASSUME IInv, EndPlan
  PROVE  IInv'
<1>1. /\ stack # <<>> /\ Now.do = "Edit" /\ Now.at = "end" /\ Now.token # {}
      /\ UNCHANGED <<session, host, loader, disk>>
  BY DEF EndPlan, RunningAt, Running
<1>2. /\ DOMAIN Top = FrameFields /\ DOMAIN svc = ServiceFields /\ svc.owns \in BOOLEAN
      /\ EditOk(Now, svc, session) /\ HostOk(host, svc) /\ IsSeq(Rest)
  BY <1>1, RunningEdit
<1>3. PICK tok : Now.token = {tok} /\ Issued(tok, session)
  BY <1>1, <1>2 DEF EditOk
<1>4. The(Now.token) = tok
  BY <1>3 DEF The
<1>5. PICK outcome \in OutcomesOf(Now) :
        IF Current(Now)
        THEN /\ svc' = Released(svc, outcome)
             /\ GoesOn([Top EXCEPT !.todo = <<Settles(tok, outcome)>> \o Rest])
        ELSE /\ svc' = Abandoned(svc)
             /\ GoesOn([Top EXCEPT !.todo = Rest, !.ok = FALSE])
  BY <1>4 DEF EndPlan
<1>6. FrameOk(Top, svc, session) /\ TopOk(Top, svc, session, host) /\ Later(Rest)
  BY <1>1, TopFrame DEF IInv
<1>7. PICK x \in session : session = {x} /\ Good(x)
  BY <1>1, <1>6 DEF IInv, SessionOk, InUse, FrameOk, Now
<1>8. /\ Quiet(svc, svc') /\ svc'.pinyin = svc.pinyin /\ svc'.owns \in BOOLEAN
      /\ svc'.owns => svc.owns
      /\ Current(Now) /\ svc'.owns => outcome = "Applied"
  BY <1>2, <1>5 DEF Released, Abandoned, Quiet
<1>9. /\ svc'.pinyin \in Latches /\ (svc'.owns => svc'.active /\ svc'.conn # {} /\ session' # {})
      /\ SessionOk(session', svc') /\ HostOk(host', svc') /\ svc.epoch \in Nat
  <2>1. svc'.pinyin \in Latches /\ (svc'.owns => svc'.active /\ svc'.conn # {} /\ session' # {}) /\ svc.epoch \in Nat
    BY <1>1, <1>8 DEF IInv, ServiceOk, Quiet
  <2>2. SessionOk(session', svc')
    BY <1>1, <1>8 DEF IInv, SessionOk, InUse, Quiet
  <2> QED BY <1>1, <1>2, <1>8, <2>1, <2>2, HostStays
<1>10. Stays(session, svc, session', svc')
  BY <1>1, <1>7, <1>8, <1>9 DEF Stays, Quiet, Good, Shape
<1>11. CASE Current(Now)
  <2> DEFINE i == Settles(tok, outcome)  g == [Top EXCEPT !.todo = <<i>> \o Rest]
  <2>1. GoesOn(g)
    BY <1>5, <1>11
  <2>2. /\ DOMAIN g = FrameFields /\ g.todo = <<i>> \o Rest
        /\ g.epoch = Top.epoch /\ g.conn = Top.conn
    BY <1>2, TodoEffect
  <2>3. i.do = "Settle" /\ i.token = tok /\ i.outcome = outcome
    BY DEF Settles
  <2> HIDE DEF i, g
  <2>4. g.todo # <<>> /\ IsSeq(g.todo) /\ Head(g.todo) = i /\ Tail(g.todo) = Rest
    BY <1>2, <2>2, HeadAndTail
  <2>5. SameAs(g, svc')
    BY <1>8, <1>11, <2>2 DEF Current, Same, SameAs, Quiet
  <2>6. FrameOk(g, svc', session') /\ ~IsDrain(g)
    BY <1>1, <1>3, <1>6, <1>7, <1>8, <2>2, <2>3, <2>4 DEF FrameOk, IsDrain, Quiet, Now
  <2>7. SettleOk(i, svc', session')
    <3>1. outcome = "Applied" => Now.steps = <<>>
      BY <1>1, <1>2 DEF OutcomesOf, EditOk
    <3>2. ASSUME outcome = "Applied", svc'.owns, NEW p \in x.pending, p.token = tok
          PROVE  ~Finishing(p.op)
      BY <1>2, <1>3, <1>8, <3>1, <3>2 DEF EditOk
    <3> QED BY <1>1, <1>7, <1>8, <1>11, <2>3, <3>2 DEF SettleOk
  <2>8. OfRuntime(Top) => OfRuntime(g)
    BY <2>3, <2>4 DEF OfRuntime, Rest
  <2>9. TopOk(g, svc', session', host')
    BY <1>6, <1>8, <2>3, <2>4, <2>5, <2>7, <2>8 DEF TopOk, Composed, Quiet
  <2>10. \A y \in session' : \A p \in y.pending :
           \/ g.todo # <<>> /\ Bears(g, p.token) /\ SameAs(g, svc')
           \/ /\ \E z \in session : p \in z.pending
              /\ ~(Bears(Top, p.token) /\ SameAs(Top, svc))
    <3> SUFFICES ASSUME NEW y \in session', NEW p \in y.pending
                 PROVE  \/ g.todo # <<>> /\ Bears(g, p.token) /\ SameAs(g, svc')
                        \/ /\ \E z \in session : p \in z.pending
                           /\ ~(Bears(Top, p.token) /\ SameAs(Top, svc))
      OBVIOUS
    <3>1. Bears(Top, p.token) => p.token = tok
      BY <1>1, <1>3 DEF Bears, Now
    <3>2. p.token = tok => Bears(g, p.token)
      BY <2>3, <2>4 DEF Bears
    <3>3. y \in session
      BY <1>1
    <3> QED BY <2>4, <2>5, <3>1, <3>2, <3>3
  <2> QED BY <1>1, <1>8, <1>9, <1>10, <2>1, <2>6, <2>9, <2>10, RunsOn
<1>12. CASE ~Current(Now)
  <2> DEFINE g == [Top EXCEPT !.todo = Rest, !.ok = FALSE]
  <2>1. GoesOn(g)
    BY <1>5, <1>12
  <2>2. /\ DOMAIN g = FrameFields /\ g.todo = Rest /\ ~g.ok
        /\ g.epoch = Top.epoch /\ g.conn = Top.conn
    BY <1>2
  <2> HIDE DEF g
  <2>3. g.todo # <<>> => FrameOk(g, svc', session') /\ TopOk(g, svc', session', host') /\ ~IsDrain(g)
    <3>1. StackOk(stack, svc, session, host)
      BY DEF IInv
    <3>2. /\ svc'.epoch = svc.epoch /\ svc'.conn = svc.conn /\ svc'.active = svc.active
          /\ svc'.draining = svc.draining /\ session' # {}
      BY <1>1, <1>7, <1>8 DEF Quiet
    <3> QED BY <1>1, <1>9, <2>2, <3>1, <3>2, RestGoesOn
  <2>4. ASSUME NEW y \in session', NEW p \in y.pending
        PROVE  /\ \E z \in session : p \in z.pending
               /\ ~(Bears(Top, p.token) /\ SameAs(Top, svc))
    <3>1. y = x
      BY <1>1, <1>7
    <3>2. Bears(Top, p.token) => p.token = tok
      BY <1>1, <1>3 DEF Bears, Now
    <3>3. IsCurrent(x, p.token)
      BY <1>7, <2>4, <3>1 DEF Good, PlanIsCurrent, IsCurrent
    <3>4. p.token = tok => ~Same
      BY <1>3, <1>4, <1>7, <1>12, <3>3 DEF Current
    <3> QED BY <2>4, <3>1, <3>2, <3>4 DEF SameAs, Same
  <2> QED BY <1>1, <1>8, <1>9, <1>10, <2>1, <2>3, <2>4, RunsOn
<1> QED BY <1>11, <1>12

-----------------------------------------------------------------------------
(* Acknowledgements, and the plans that follow. *)

\* A plan is new, or it was out before.
LEMMA StagedOrOut ==
  ASSUME NEW x, NEW y, session = {x}, Good(x), Good(y), Advances(x, y)
  PROVE  /\ Staged(y) \/ y.pending \subseteq x.pending
         /\ Staged(y) => y.pending # {} /\ \A p \in y.pending : p \notin x.pending
<1>1. s = x
  BY DEF s, The
<1>2. x.generation \in Nat /\ y.generation \in Nat
  BY DEF Good, Shape
<1>3. y.pending # {} /\ ~(y.generation > x.generation) => y.pending \subseteq x.pending
  BY <1>2 DEF Advances
<1>4. \A p \in y.pending : p.token[1] = y.generation
  BY DEF Good, PlanIsCurrent, Token
<1>5. \A p \in x.pending : p.token[1] = x.generation
  BY DEF Good, PlanIsCurrent, Token
<1> QED BY <1>1, <1>2, <1>3, <1>4, <1>5 DEF Staged

\* The session as the answer leaves it, for the service that has heard of it too.
LEMMA AnsweredInUse ==
  ASSUME NEW x, NEW n, NEW v, InUse(x, n, v), NEW i, NEW S, S = {x}, SettleOk(i, v, S),
         v.owns \in BOOLEAN, NEW w, w.owns => v.owns /\ i.outcome = "Applied",
         NEW y, y = Acknowledge(x, i.token, i.outcome, v.owns)
  PROVE  /\ InUse(y, n, w) /\ Advances(x, y) /\ Silent(x, y)
         /\ IsCurrent(x, i.token) => (y.pending # {} => y.generation > x.generation)
         /\ ~IsCurrent(x, i.token) => y = x
<1>1. Good(x) /\ Deferral(x, n) /\ ~x.closed /\ x.cleanup = {}
  BY DEF InUse
<1>2. /\ Good(y) /\ Advances(x, y) /\ Deferral(y, n) /\ Silent(x, y) /\ y.closed = x.closed
      /\ PlanSettled(x, y, i.token, i.outcome, v.owns)
  BY <1>1, AcknowledgeGood DEF Moves, AnswerTaken
<1>3. CASE ~IsCurrent(x, i.token)
  <2>1. y = x
    BY <1>2, <1>3 DEF PlanSettled
  <2> QED BY <1>1, <1>2, <1>3, <2>1 DEF InUse
<1>4. CASE IsCurrent(x, i.token)
  <2>1. y.cleanup = {}
    BY <1>1, <1>2, <1>4, TouchProfile DEF PlanSettled, SettleOk
  <2>2. PICK p \in x.pending : p.token = i.token
    BY <1>4 DEF IsCurrent
  <2>3. The(x.pending) = p
    <3>1. x.pending = {p}
      BY <1>1, <2>2 DEF Good, FewPlans, Few
    <3> QED BY <3>1 DEF The
  <2>4. y.context.owns = OwnsThen(x, p.op, i.outcome, v.owns)
    BY <1>2, <1>4, <2>3, TouchProfile DEF PlanSettled
  <2>5. w.owns => y.context.owns
    <3> SUFFICES ASSUME w.owns
                 PROVE  y.context.owns
      OBVIOUS
    <3>1. v.owns /\ i.outcome = "Applied"
      OBVIOUS
    <3>2. ~Finishing(p.op)
      BY <2>2, <3>1 DEF SettleOk
    <3>3. Composing(p.op) => x.context.preedit
      BY <1>1, <2>2, TouchProfile DEF Good, ComposesWhereItMay
    <3> QED BY <2>4, <3>1, <3>2, <3>3 DEF OwnsThen, Finishing
  <2> QED BY <1>1, <1>2, <1>4, <2>1, <2>5 DEF InUse, PlanSettled
<1> QED BY <1>3, <1>4

LEMMA AcknowledgesPlanKeeps ==
  ASSUME IInv, AcknowledgesPlan
  PROVE  IInv'
<1> DEFINE y == Acknowledge(s, Now.token, Now.outcome, svc.owns)
           more == IF Staged(y) THEN <<Executes(y)>> ELSE <<>>
           g == [Top EXCEPT !.done = FALSE, !.ok = Staged(y) \/ Now.outcome = "Applied",
                            !.todo = more \o Rest]
<1>1. stack # <<>> /\ Now.do = "Settle" /\ UNCHANGED <<host, loader, disk>>
  BY DEF AcknowledgesPlan, Running
<1>2. session' = {y} /\ svc' = Released(svc, Now.outcome) /\ GoesOn(g)
  BY DEF AcknowledgesPlan
<1>3. StackOk(stack, svc, session, host) /\ ServiceOk(svc, session) /\ HostOk(host, svc)
  BY DEF IInv
<1>4. FrameOk(Top, svc, session) /\ TopOk(Top, svc, session, host) /\ Later(Rest) /\ IsSeq(Rest)
  BY <1>1, <1>3, TopFrame
<1>5. SameAs(Top, svc) /\ SettleOk(Now, svc, session) /\ session # {} /\ DOMAIN Top = FrameFields
  BY <1>1, <1>4 DEF TopOk, FrameOk, Now
<1>6. PICK x \in session, n \in svc.runtime : session = {x} /\ svc.runtime = {n} /\ InUse(x, n, svc)
  BY <1>5 DEF IInv, SessionOk
<1>7. s = x
  BY <1>6 DEF s, The
<1>8. /\ Quiet(svc, svc') /\ svc'.pinyin = svc.pinyin /\ svc'.owns \in BOOLEAN
      /\ svc'.owns => svc.owns /\ Now.outcome = "Applied"
  BY <1>2, <1>3 DEF Released, Abandoned, Quiet, ServiceOk
<1>9. /\ InUse(y, n, svc') /\ Advances(x, y) /\ Silent(x, y)
      /\ IsCurrent(x, Now.token) => (y.pending # {} => y.generation > x.generation)
      /\ ~IsCurrent(x, Now.token) => y = x
  <2>1. y = Acknowledge(x, Now.token, Now.outcome, svc.owns)
    BY <1>7
  <2>2. svc.owns \in BOOLEAN
    BY <1>3 DEF ServiceOk
  <2> HIDE DEF y
  <2> QED BY <1>5, <1>6, <1>8, <2>1, <2>2, AnsweredInUse
<1> HIDE DEF y
<1>10. Good(x) /\ Good(y) /\ ~x.closed
  BY <1>6, <1>9 DEF InUse
<1>11. /\ Staged(y) \/ y.pending \subseteq x.pending
       /\ Staged(y) => y.pending # {} /\ \A p \in y.pending : p \notin x.pending
  BY <1>6, <1>9, <1>10, StagedOrOut
<1>12. /\ svc'.pinyin \in Latches /\ (svc'.owns => svc'.active /\ svc'.conn # {} /\ session' # {})
       /\ SessionOk(session', svc') /\ HostOk(host', svc') /\ svc.epoch \in Nat
  <2>1. svc'.pinyin \in Latches /\ (svc'.owns => svc'.active /\ svc'.conn # {} /\ session' # {}) /\ svc.epoch \in Nat
    BY <1>2, <1>3, <1>8 DEF ServiceOk, Quiet
  <2>2. SessionOk(session', svc')
    BY <1>2, <1>6, <1>8, <1>9 DEF SessionOk, Quiet
  <2> QED BY <1>1, <1>3, <1>8, <2>1, <2>2, HostStays
<1>13. Stays(session, svc, session', svc')
  <2>1. Stays({x}, svc, {y}, svc')
    BY <1>8, <1>9, <1>10, <1>12, AdvanceStays DEF Quiet
  <2> QED BY <1>2, <1>6, <2>1
<1>14. /\ DOMAIN g = FrameFields /\ g.todo = more \o Rest
       /\ g.epoch = Top.epoch /\ g.conn = Top.conn
  BY <1>5
<1> HIDE DEF g
<1>15. SameAs(g, svc') /\ g.conn # {}
  BY <1>1, <1>4, <1>5, <1>8, <1>14 DEF SameAs, Quiet, FrameOk, Now
<1>16. CASE Staged(y)
  <2>1. g.todo = <<Executes(y)>> \o Rest
    BY <1>14, <1>16
  <2>2. g.todo # <<>> /\ IsSeq(g.todo) /\ Head(g.todo) = Executes(y) /\ Tail(g.todo) = Rest
    BY <1>4, <2>1, HeadAndTail
  <2>3. svc'.draining \/ (Rest = <<>> /\ \A p \in y.pending : ~Composing(p.op))
    <3>1. OfRuntime(Top) => Rest = <<>>
      BY DEF OfRuntime, Rest
    <3>2. \A p \in y.pending : ~Composing(p.op) \/ ~OfRuntime(Top)
      BY <1>9, <1>11, <1>16 DEF Silent
    <3>3. ~OfRuntime(Top) => svc'.draining
      BY <1>4, <1>8 DEF TopOk, Quiet
    <3>4. CASE OfRuntime(Top)
      BY <3>1, <3>2, <3>4
    <3> QED BY <3>3, <3>4
  <2>4. svc'.epoch \in Nat /\ y.pending # {}
    BY <1>8, <1>11, <1>12, <1>16 DEF Quiet
  <2>5. /\ FrameOk(g, svc', {y}) /\ TopOk(g, svc', {y}, host') /\ ~IsDrain(g)
        /\ \A p \in y.pending : Bears(g, p.token)
    BY <1>4, <1>10, <1>14, <1>15, <2>2, <2>3, <2>4, ExecutesFrame
  <2> QED BY <1>1, <1>2, <1>8, <1>12, <1>13, <1>15, <2>2, <2>5, RunsOn
<1>17. CASE ~Staged(y)
  <2>1. g.todo = Rest
    BY <1>4, <1>14, <1>17, EmptySequence
  <2>2. g.todo # <<>> => FrameOk(g, svc', session') /\ TopOk(g, svc', session', host') /\ ~IsDrain(g)
    <3>1. /\ svc'.epoch = svc.epoch /\ svc'.conn = svc.conn /\ svc'.active = svc.active
          /\ svc'.draining = svc.draining /\ session' # {}
      BY <1>2, <1>8 DEF Quiet
    <3> QED BY <1>1, <1>3, <1>5, <1>12, <1>14, <2>1, <3>1, RestGoesOn
  <2>3. ASSUME NEW z \in session', NEW p \in z.pending
        PROVE  /\ \E u \in session : p \in u.pending
               /\ ~(Bears(Top, p.token) /\ SameAs(Top, svc))
    <3>1. z = y /\ p \in y.pending /\ p \in x.pending
      BY <1>2, <1>11, <1>17, <2>3
    <3>2. IsCurrent(x, p.token)
      BY <1>10, <3>1 DEF Good, PlanIsCurrent, IsCurrent
    <3>3. Bears(Top, p.token) => p.token = Now.token
      BY <1>1 DEF Bears, Now
    <3>4. ~IsCurrent(x, Now.token)
      <4>1. s.generation = x.generation /\ y.pending # {}
        BY <1>7, <3>1
      <4> QED BY <1>9, <1>17, <4>1 DEF Staged
    <3> QED BY <1>6, <3>1, <3>2, <3>3, <3>4
  <2> QED BY <1>1, <1>2, <1>8, <1>12, <1>13, <2>2, <2>3, RunsOn
<1> QED BY <1>16, <1>17

-----------------------------------------------------------------------------
(* The editor is attached again. *)

LEMMA HostContextShape ==
  ASSUME NEW v
  PROVE  DOMAIN HostContext(v) = ContextFields
  BY DEF HostContext, ContextFields

\* The session of a new context, whether it is made anew or loses an older one: no plan is
\* left, and the service owns nothing.
LEMMA LostInUse ==
  ASSUME NEW x, NEW n, NEW v, InUse(x, n, v), NEW c, DOMAIN c = ContextFields, NEW w, ~w.owns
  PROVE  LET y == InvalidateContext(x, c, TRUE)
         IN InUse(y, n, w) /\ y.pending = {} /\ y.generation = x.generation + 1
<1> DEFINE y == InvalidateContext(x, c, TRUE)
<1>1. Good(x) /\ Deferral(x, n) /\ ~x.closed
  BY DEF InUse
<1>2. Lost(x, y)
  BY <1>1, ContextLost DEF Good
<1> HIDE DEF y
<1>3. Deferral(y, n)
  BY <1>1, <1>2, AdoptedMoves DEF Lost, Moves
<1>4. InUse(y, n, w) /\ y.pending = {} /\ y.generation = x.generation + 1
  BY <1>1, <1>2, <1>3 DEF InUse, Lost
<1> USE DEF y
<1> QED BY <1>4

LEMMA NewInUse ==
  ASSUME NEW n \in DOMAIN Runtimes, NEW c, DOMAIN c = ContextFields, NEW w, ~w.owns
  PROVE  LET y == NewSession(n, c)
         IN InUse(y, n, w) /\ y.pending = {}
<1> DEFINE y == NewSession(n, c)
<1>1. Good(y) /\ Deferral(y, n) /\ y.pending = {} /\ y.cleanup = {} /\ ~y.closed
  BY NewGood
<1> HIDE DEF y
<1>2. InUse(y, n, w) /\ y.pending = {}
  BY <1>1 DEF InUse
<1> USE DEF y
<1> QED BY <1>2

\* The fields of the service before they are attached: of the next epoch, with an empty
\* queue.
LEMMA ReattachEffect ==
  ASSUME IInv, UNCHANGED <<loader, disk>>, NEW v, DOMAIN v = ServiceFields,
         v.epoch = svc.epoch + 1, v.generation = svc.generation + 1, v.queue = <<>>,
         v.draining = svc.draining, v.runtime = svc.runtime, v.owns => svc.owns,
         v.owns \in BOOLEAN, v.owns => v.active,
         v.conn # {} => \E e \in v.conn : v.conn = {e},
         svc.active => v.active, Reattach(v)
  PROVE  /\ ServiceOk(svc', session') /\ SessionOk(session', svc') /\ LoaderOk(svc)'
         /\ Stays(session, svc, session', svc')
         /\ ~svc'.owns /\ svc'.draining = svc.draining
         /\ \A y \in session' : y.pending = {}
<1>1. svc' = Attached(v) /\ session' = AttachedSession(v)
  BY DEF Reattach
<1>2. /\ DOMAIN svc' = ServiceFields /\ svc'.epoch = svc.epoch + 1
      /\ svc'.generation = svc.generation + 1 /\ svc'.queue = <<>>
      /\ svc'.draining = svc.draining /\ svc'.runtime = svc.runtime /\ svc'.conn = v.conn
      /\ svc'.active = v.active /\ svc'.pinyin = "Off"
      /\ svc'.owns = (~Attaches(v) /\ v.owns)
  BY <1>1 DEF Attached, Abandoned
<1>3. svc.epoch \in Nat /\ svc.generation \in Nat /\ (svc.owns => session # {})
  BY DEF IInv, ServiceOk
<1>4. session # {} =>
        \E x \in session : \E n \in svc.runtime :
          session = {x} /\ svc.runtime = {n} /\ InUse(x, n, svc)
  BY DEF IInv, SessionOk
<1>5. ~svc'.owns
  BY <1>2, <1>3, <1>4 DEF Attaches
<1>6. LoaderOk(svc)'
  BY <1>2, LoaderStays DEF IInv
<1>7. ServiceOk(svc', session')
  <2>1. IsSeq(<<>>) /\ DOMAIN <<>> = {}
    BY EmptySequence, DomainOf
  <2>2. QueueOk(svc')
    BY <1>2, <2>1 DEF QueueOk
  <2> QED BY <1>2, <1>3, <1>5, <2>2 DEF ServiceOk, Latches
<1>8. /\ SessionOk(session', svc') /\ \A y \in session' : y.pending = {}
      /\ \A x \in session : \E y \in session' :
           x.generation \in Nat /\ y.generation \in Nat /\ x.generation <= y.generation
  <2>1. CASE ~Attaches(v)
    <3>1. session' = session
      BY <1>1, <2>1 DEF AttachedSession
    <3>2. SessionOk(session', svc')
      BY <1>2, <1>4, <1>5, <3>1 DEF SessionOk, InUse
    <3>3. session # {} => ~svc.active
      BY <1>4, <2>1 DEF Attaches
    <3>4. \A y \in session : y.pending = {}
      BY <3>3 DEF IInv, Carried, SameAs, Mute
    <3>5. \A x \in session : x.generation \in Nat
      BY <1>4 DEF InUse, Good, Shape
    <3> QED BY <3>1, <3>2, <3>4, <3>5
  <2>2. CASE Attaches(v) /\ session = {}
    <3>1. PICK n \in 1..disk : svc.runtime = {n} /\ n \in DOMAIN Runtimes
      BY <2>2 DEF Attaches, IInv, LoaderOk
    <3>2. The(v.runtime) = n
      BY <3>1 DEF The
    <3>3. session' = {NewSession(n, HostContext(v))}
      BY <1>1, <2>2, <3>2 DEF AttachedSession, CreateSession
    <3> DEFINE y == NewSession(n, HostContext(v))
    <3>4. InUse(y, n, svc') /\ y.pending = {}
      BY <1>5, <3>1, HostContextShape, NewInUse
    <3>5. session' = {y}
      BY <3>3
    <3> HIDE DEF y
    <3>6. SessionOk(session', svc')
      BY <1>2, <3>1, <3>4, <3>5 DEF SessionOk
    <3> QED BY <2>2, <3>4, <3>5, <3>6
  <2>3. CASE Attaches(v) /\ session # {}
    <3>1. PICK x \in session, n \in svc.runtime :
            session = {x} /\ svc.runtime = {n} /\ InUse(x, n, svc)
      BY <1>4, <2>3
    <3> DEFINE y == InvalidateContext(x, HostContext(v), TRUE)
    <3>2. session' = {y}
      BY <1>1, <2>3, <3>1 DEF AttachedSession, Context
    <3>3. InUse(y, n, svc') /\ y.pending = {} /\ y.generation = x.generation + 1
      BY <1>5, <3>1, HostContextShape, LostInUse
    <3> HIDE DEF y
    <3>4. x.generation \in Nat
      BY <3>1 DEF InUse, Good, Shape
    <3> QED BY <1>2, <3>1, <3>2, <3>3, <3>4 DEF SessionOk
  <2> QED BY <2>1, <2>2, <2>3
<1>9. Stays(session, svc, session', svc')
  BY <1>2, <1>3, <1>5, <1>8 DEF Stays
<1> QED BY <1>2, <1>5, <1>6, <1>7, <1>8, <1>9

\* The operations of the editor are not trusted any more.
LEMMA BrokenEffect ==
  ASSUME IInv, UNCHANGED <<loader, disk>>, Broken
  PROVE  /\ ServiceOk(svc', session') /\ SessionOk(session', svc') /\ LoaderOk(svc)'
         /\ Stays(session, svc, session', svc')
         /\ ~svc'.owns /\ svc'.draining = svc.draining
         /\ \A y \in session' : y.pending = {}
<1> DEFINE v == NextEpoch(Invalidated(Abandoned(svc)))
<1>1. DOMAIN svc = ServiceFields
  BY DEF IInv, ServiceOk
<1>2. /\ DOMAIN v = ServiceFields /\ v.epoch = svc.epoch + 1 /\ v.queue = <<>>
      /\ v.generation = svc.generation + 1 /\ v.draining = svc.draining
      /\ v.runtime = svc.runtime /\ v.owns = FALSE /\ v.conn = svc.conn /\ v.active = svc.active
  BY <1>1 DEF NextEpoch, Invalidated, Abandoned
<1>3. Reattach(v)
  BY DEF Broken
<1> HIDE DEF v
<1>4. v.conn # {} => \E e \in v.conn : v.conn = {e}
  BY <1>2 DEF IInv, ServiceOk
<1> QED BY <1>2, <1>3, <1>4, ReattachEffect

\* A frame is given up with the editor attached again.
LEMMA BrokenReturns ==
  ASSUME IInv, stack # <<>>, Return, Broken, UNCHANGED <<host, loader, disk>>
  PROVE  IInv'
<1>1. /\ ServiceOk(svc', session') /\ SessionOk(session', svc') /\ LoaderOk(svc)'
      /\ Stays(session, svc, session', svc')
      /\ ~svc'.owns /\ svc'.draining = svc.draining
      /\ \A y \in session' : y.pending = {}
  BY BrokenEffect
<1> DEFINE g == [todo |-> <<>>]
<1>2. GoesOn(g) /\ g.todo = <<>>
  BY DEF GoesOn, Return
<1> HIDE DEF g
<1>3. StackOk(stack', svc', session', host')
  BY <1>1, <1>2, Turns DEF IInv
<1>4. Carried(stack', svc', session')
  BY <1>1 DEF Carried
<1>5. HostOk(host', svc')
  BY <1>1 DEF IInv, HostOk
<1> QED BY <1>1, <1>3, <1>4, <1>5 DEF IInv

-----------------------------------------------------------------------------
(* The other instructions. *)

\* A frame that bears no plan goes on, and the session does not change.
LEMMA PlainTurn ==
  ASSUME IInv, stack # <<>>, UNCHANGED <<session, loader, disk>>, HostOk(host', svc'),
         \A t : ~Bears(Top, t), ~OfRuntime(Top),
         Quiet(svc, svc'), svc'.pinyin \in Latches, svc'.owns = svc.owns,
         NEW g, GoesOn(g),
         g.todo # <<>> =>
           /\ DOMAIN g = FrameFields /\ Later(g.todo) /\ session # {}
           /\ g.epoch = Top.epoch /\ g.conn = Top.conn /\ Top.conn # {}
           /\ Head(g.todo).do = "Go" /\ g.ok => SameAs(Top, svc)
  PROVE  IInv'
<1>1. FrameOk(Top, svc, session) /\ TopOk(Top, svc, session, host)
  BY TopFrame DEF IInv
<1>2. svc.owns \in BOOLEAN /\ svc.epoch \in Nat /\ (svc.owns => svc.active /\ svc.conn # {} /\ session # {})
  BY DEF IInv, ServiceOk
<1>3. svc'.owns \in BOOLEAN /\ svc'.epoch \in Nat /\ (svc'.owns => svc'.active /\ svc'.conn # {} /\ session' # {})
  BY <1>2 DEF Quiet
<1>4. SessionOk(session', svc')
  BY DEF IInv, SessionOk, InUse, Quiet
<1>5. Stays(session, svc, session', svc')
  BY <1>2, <1>3 DEF Stays, IInv, Quiet, SessionOk, InUse, Good, Shape
<1>6. g.todo # <<>> =>
        FrameOk(g, svc', session') /\ TopOk(g, svc', session', host') /\ ~IsDrain(g)
  <2> SUFFICES ASSUME g.todo # <<>>
               PROVE  FrameOk(g, svc', session') /\ TopOk(g, svc', session', host') /\ ~IsDrain(g)
    OBVIOUS
  <2>1. g.epoch \in Nat /\ g.epoch <= svc'.epoch /\ g.conn # {}
    BY <1>1 DEF FrameOk, Quiet
  <2>2. svc'.draining
    BY <1>1 DEF TopOk, Quiet
  <2>3. Head(g.todo).do = "Go" /\ g.ok => SameAs(g, svc')
    BY DEF SameAs, Quiet
  <2>4. session' # {}
    OBVIOUS
  <2> QED BY <1>3, <2>1, <2>2, <2>3, <2>4, LaterFrame
<1>7. \A y \in session' : \A p \in y.pending :
        (\E x \in session : p \in x.pending) /\ ~(Bears(Top, p.token) /\ SameAs(Top, svc))
  OBVIOUS
<1> QED BY <1>3, <1>4, <1>5, <1>6, <1>7, RunsOn

\* A frame that bears no plan calls the session, and a plan that it makes is carried on.
LEMMA KeptTurn ==
  ASSUME IInv, stack # <<>>, UNCHANGED <<host, loader, disk>>,
         \A t : ~Bears(Top, t), ~OfRuntime(Top), session # {},
         NEW y, session' = {y}, Kept(s, y),
         Quiet(svc, svc'), svc'.pinyin \in Latches, svc'.owns = svc.owns,
         NEW g, GoesOn(g),
         g.todo # <<>> =>
           /\ DOMAIN g = FrameFields /\ g.epoch = Top.epoch /\ g.conn = Top.conn
           /\ Top.conn # {}
           /\ \/ /\ ~Staged(y) /\ Later(g.todo)
                 /\ Head(g.todo).do = "Go" /\ g.ok => SameAs(Top, svc)
              \/ /\ Staged(y) /\ SameAs(Top, svc) /\ IsSeq(g.todo)
                 /\ Head(g.todo) = Executes(y) /\ Later(Tail(g.todo))
              \/ /\ ~Staged(y)
                 /\ FrameOk(g, svc', {y}) /\ TopOk(g, svc', {y}, host) /\ ~IsDrain(g),
         g.todo = <<>> => ~Staged(y)
  PROVE  IInv'
<1>1. FrameOk(Top, svc, session) /\ TopOk(Top, svc, session, host)
  BY TopFrame DEF IInv
<1>2. svc.owns \in BOOLEAN /\ svc.epoch \in Nat /\ (svc.owns => svc.active /\ svc.conn # {} /\ session # {})
  BY DEF IInv, ServiceOk
<1>3. svc'.owns \in BOOLEAN /\ svc'.epoch \in Nat /\ (svc'.owns => svc'.active /\ svc'.conn # {} /\ session' # {})
  BY <1>2 DEF Quiet
<1>4. PICK x \in session, n \in svc.runtime : session = {x} /\ svc.runtime = {n} /\ InUse(x, n, svc)
  BY DEF IInv, SessionOk
<1>5. s = x
  BY <1>4 DEF s, The
<1>6. InUse(y, n, svc') /\ Good(x) /\ Good(y) /\ Advances(x, y)
  BY <1>4, <1>5, KeptInUse DEF InUse, Kept
<1>7. SessionOk(session', svc')
  BY <1>4, <1>6 DEF SessionOk, Quiet
<1>8. Stays(session, svc, session', svc')
  <2>1. Stays({x}, svc, {y}, svc')
    BY <1>2, <1>3, <1>6, AdvanceStays DEF Quiet
  <2> QED BY <1>4, <2>1
<1>9. HostOk(host', svc')
  BY HostStays DEF IInv
<1>10. /\ Staged(y) \/ y.pending \subseteq x.pending
       /\ Staged(y) => y.pending # {} /\ \A p \in y.pending : p \notin x.pending
  BY <1>4, <1>6, StagedOrOut
<1>11. svc'.draining
  BY <1>1 DEF TopOk, Quiet
<1>12. CASE Staged(y)
  <2>1. SameAs(g, svc') /\ g.todo # <<>> /\ g.conn # {}
    BY <1>12 DEF SameAs, Quiet
  <2>2. /\ FrameOk(g, svc', {y}) /\ TopOk(g, svc', {y}, host') /\ ~IsDrain(g)
        /\ \A p \in y.pending : Bears(g, p.token)
    BY <1>3, <1>6, <1>10, <1>11, <1>12, <2>1, ExecutesFrame
  <2> QED BY <1>3, <1>7, <1>8, <1>9, <2>1, <2>2, RunsOn
<1>13. CASE ~Staged(y)
  <2>1. g.todo # <<>> =>
          FrameOk(g, svc', session') /\ TopOk(g, svc', session', host') /\ ~IsDrain(g)
    <3> SUFFICES ASSUME g.todo # <<>>
                 PROVE  FrameOk(g, svc', session') /\ TopOk(g, svc', session', host') /\ ~IsDrain(g)
      OBVIOUS
    <3>1. g.epoch \in Nat /\ g.epoch <= svc'.epoch /\ g.conn # {}
      BY <1>1 DEF FrameOk, Quiet
    <3>2. session' # {}
      OBVIOUS
    <3>3. CASE Later(g.todo) /\ (Head(g.todo).do = "Go" /\ g.ok => SameAs(Top, svc))
      <4>1. Head(g.todo).do = "Go" /\ g.ok => SameAs(g, svc')
        BY <3>3 DEF SameAs, Quiet
      <4> QED BY <1>3, <1>11, <3>1, <3>2, <3>3, <4>1, LaterFrame
    <3> QED BY <1>13, <3>3
  <2>2. \A z \in session' : \A p \in z.pending :
          (\E u \in session : p \in u.pending) /\ ~(Bears(Top, p.token) /\ SameAs(Top, svc))
    BY <1>10, <1>13
  <2> QED BY <1>3, <1>7, <1>8, <1>9, <2>1, <2>2, RunsOn
<1> QED BY <1>12, <1>13

\* Nothing is borne by an instruction that is neither an edit nor an acknowledgement.
LEMMA BearsNothing ==
  ASSUME Now.do \notin {"Edit", "Settle"}
  PROVE  (\A t : ~Bears(Top, t)) /\ ~OfRuntime(Top)
  BY DEF Bears, OfRuntime, Now

\* The running frame goes on with other instructions, or is gone.
LEMMA ContinueEffect ==
  ASSUME IInv, stack # <<>>, NEW todo, Continue(todo)
  PROVE  \E g : /\ GoesOn(g) /\ DOMAIN g = FrameFields /\ g.todo = todo
                /\ g.epoch = Top.epoch /\ g.conn = Top.conn /\ g.ok = Top.ok
<1>1. DOMAIN Top = FrameFields
  BY TopFrame DEF IInv, FrameOk
<1> DEFINE g == [Top EXCEPT !.todo = todo]
<1>2. GoesOn(g)
  BY DEF Continue
<1>3. /\ DOMAIN g = FrameFields /\ g.todo = todo
      /\ g.epoch = Top.epoch /\ g.conn = Top.conn /\ g.ok = Top.ok
  BY <1>1, TodoEffect
<1> HIDE DEF g
<1> QED BY <1>2, <1>3

LEMMA ReturnEffect ==
  ASSUME Return
  PROVE  \E g : GoesOn(g) /\ g.todo = <<>>
<1> DEFINE g == [todo |-> <<>>]
<1>1. GoesOn(g) /\ g.todo = <<>>
  BY DEF GoesOn, Return
<1> HIDE DEF g
<1> QED BY <1>1

\* A frame that bears no plan returns; the latch may change.
LEMMA PlainReturn ==
  ASSUME IInv, stack # <<>>, Return, UNCHANGED <<session, host, loader, disk>>,
         (\A t : ~Bears(Top, t)) /\ ~OfRuntime(Top),
         Quiet(svc, svc'), svc'.pinyin \in Latches, svc'.owns = svc.owns
  PROVE  IInv'
<1>1. PICK g : GoesOn(g) /\ g.todo = <<>>
  BY ReturnEffect
<1>2. HostOk(host', svc')
  BY DEF IInv, HostOk
<1> QED BY <1>1, <1>2, PlainTurn

\* Nothing of the service changes, or its latch.
LEMMA LatchEffect ==
  ASSUME IInv, NEW m \in Latches, svc' = [svc EXCEPT !.pinyin = m]
  PROVE  Quiet(svc, svc') /\ svc'.pinyin \in Latches /\ svc'.owns = svc.owns
  BY DEF IInv, ServiceOk, Quiet

LEMMA SameService ==
  ASSUME IInv, UNCHANGED svc
  PROVE  /\ Quiet(svc, svc') /\ svc'.pinyin \in Latches /\ svc'.owns = svc.owns
         /\ (UNCHANGED host => HostOk(host', svc'))
  BY DEF IInv, ServiceOk, Quiet

\* What follows an instruction.
LEMMA LaterOf ==
  /\ Later(<<>>)
  /\ \A i : i.do = "Go" \/ i.do = "Resumed" \/ (i.do = "Direct" /\ DOMAIN i = DirectFields)
              \/ (i.do = "Latch" /\ i.mode \in Latches)
            => Later(<<i>>)
  /\ \A p, q : Later(p) /\ Later(q) /\ ~HasGo(q) => Later(p \o q)
<1>1. Later(<<>>)
  BY EmptySequence, DomainOf DEF Later
<1>2. ASSUME NEW i, \/ i.do = "Go" \/ i.do = "Resumed" \/ (i.do = "Direct" /\ DOMAIN i = DirectFields)
                    \/ (i.do = "Latch" /\ i.mode \in Latches)
      PROVE  Later(<<i>>)
  <2>1. IsSeq(<<i>>) /\ DOMAIN <<i>> = 1..1 /\ <<i>>[1] = i
    BY OneInstruction, DomainOf
  <2>2. \A k \in 1..1 : k = 1
    OBVIOUS
  <2> QED BY <1>2, <2>1, <2>2 DEF Later
<1>3. ASSUME NEW p, NEW q, Later(p), Later(q), ~HasGo(q)
      PROVE  Later(p \o q)
  <2> DEFINE r == p \o q
  <2>1. /\ IsSeq(r) /\ Len(r) = Len(p) + Len(q)
        /\ \A k \in 1..Len(p) : r[k] = p[k]
        /\ \A k \in 1..Len(q) : r[Len(p) + k] = q[k]
    BY <1>3, CatOf DEF Later
  <2>2. /\ Len(p) \in Nat /\ DOMAIN p = 1..Len(p) /\ Len(q) \in Nat /\ DOMAIN q = 1..Len(q)
        /\ DOMAIN r = 1..Len(r)
    BY <1>3, <2>1, DomainOf DEF Later
  <2> HIDE DEF r
  <2>3. ASSUME NEW k \in DOMAIN r
        PROVE  (k \in DOMAIN p /\ r[k] = p[k]) \/ (\E m \in DOMAIN q : r[k] = q[m])
    <3>1. CASE k <= Len(p)
      BY <2>1, <2>2, <3>1
    <3>2. CASE ~(k <= Len(p))
      <4>1. k - Len(p) \in 1..Len(q) /\ Len(p) + (k - Len(p)) = k
        BY <2>1, <2>2, <3>2
      <4> QED BY <2>1, <2>2, <4>1
    <3> QED BY <3>1, <3>2
  <2>4. Later(r)
    BY <1>3, <2>1, <2>3 DEF Later, HasGo
  <2> QED BY <2>4 DEF r
<1> QED BY <1>1, <1>2, <1>3

\* A plan that leads what follows.
LEMMA LedBy ==
  ASSUME NEW a, NEW p, NEW q, IsSeq(p), IsSeq(q)
  PROVE  LET r == <<a>> \o p \o q
         IN IsSeq(r) /\ r # <<>> /\ Head(r) = a /\ Tail(r) = p \o q
<1>1. PICK P : p \in Seq(P)
  BY DEF IsSeq
<1>2. PICK Q : q \in Seq(Q)
  BY DEF IsSeq
<1> DEFINE U == P \cup Q \cup {a}
<1>3. p \in Seq(U) /\ q \in Seq(U) /\ <<a>> \in Seq(U)
  BY <1>1, <1>2
<1> HIDE DEF U
<1>4. <<a>> \o p \o q = <<a>> \o (p \o q)
  BY <1>3
<1>5. IsSeq(p \o q)
  BY CatOf
<1> QED BY <1>4, <1>5, HeadAndTail

\* An instruction that nothing follows.
LEMMA OneLeft ==
  ASSUME NEW a
  PROVE  IsSeq(<<a>>) /\ <<a>> # <<>> /\ Head(<<a>>) = a /\ Tail(<<a>>) = <<>>
<1> DEFINE q == <<a>>
<1>1. IsSeq(q) /\ Len(q) = 1 /\ q[1] = a /\ q # <<>>
  BY OneInstruction
<1> HIDE DEF q
<1>2. Head(q) = a /\ IsSeq(Tail(q)) /\ Len(Tail(q)) = 0
  BY <1>1, TailOf
<1>3. Tail(q) = <<>>
  BY <1>2, DomainOf
<1> QED BY <1>1, <1>2, <1>3 DEF q

LEMMA EndShortcutKeeps ==
  ASSUME IInv, EndShortcut
  PROVE  IInv'
<1>1. /\ stack # <<>> /\ Now.do = "Edit" /\ Now.token = {} /\ Return
      /\ UNCHANGED <<host, loader, disk>>
      /\ Broken \/ UNCHANGED <<session, svc>>
  BY DEF EndShortcut, RunningAt, Running
<1>2. (\A t : ~Bears(Top, t)) /\ ~OfRuntime(Top)
  BY <1>1 DEF Bears, OfRuntime, Now
<1>3. CASE Broken
  BY <1>1, <1>3, BrokenReturns
<1>4. CASE UNCHANGED <<session, svc>>
  BY <1>1, <1>2, <1>4, SameService, PlainReturn
<1> QED BY <1>1, <1>3, <1>4

LEMMA PlanlessContext ==
  ASSUME NEW x, Good(x), NEW epoch, NEW text, NEW invalidate
  PROVE  LET y == PredictionContext(x, epoch, text, invalidate)
         IN Kept(x, y) /\ y.pending = x.pending
<1> DEFINE cleared == IF invalidate THEN ClearPrediction(x) ELSE x
           y == PredictionContext(x, epoch, text, invalidate)
<1>1. Kept(x, cleared) /\ cleared.pending = x.pending
  BY ClearGood, KeptReflexive
<1> HIDE DEF cleared
<1>2. Good(cleared)
  BY <1>1 DEF Kept
<1>3. \A word : Kept(x, ObservePrefix(cleared, word))
  BY <1>1, <1>2, ObserveGood, KeptTransitive
<1>4. \A word : ObservePrefix(cleared, word).pending = cleared.pending
  BY <1>2 DEF ObservePrefix, Observe, Good, Shape
<1>5. Kept(x, x)
  BY KeptReflexive
<1>6. y \in {x, cleared, ObservePrefix(cleared, The(text))}
  BY DEF PredictionContext, cleared
<1> HIDE DEF y
<1>7. Kept(x, y) /\ y.pending = x.pending
  BY <1>1, <1>3, <1>4, <1>5, <1>6
<1> QED BY <1>7 DEF y

\* The only session.
LEMMA OneSession ==
  ASSUME IInv, session # {}
  PROVE  session = {s} /\ Good(s) /\ Kept(s, s)
<1>1. PICK x \in session : session = {x} /\ Good(x)
  BY DEF IInv, SessionOk, InUse
<1>2. s = x
  BY <1>1 DEF s, The
<1> QED BY <1>1, <1>2, KeptReflexive

\* The predictions are withdrawn, and no plan is made.
LEMMA PredictionsWithdrawn ==
  ASSUME IInv, session # {}
  PROVE  \E y : InvalidatePrediction = {y} /\ Kept(s, y) /\ y.pending = s.pending
<1>1. session = {s} /\ Good(s)
  BY OneSession
<1>2. InvalidatePrediction = {PredictionContext(s, svc.epoch, {}, TRUE)}
  BY <1>1 DEF InvalidatePrediction
<1>3. PICK epoch, text, invalidate :
        InvalidatePrediction = {PredictionContext(s, epoch, text, invalidate)}
  BY <1>2
<1>4. Kept(s, PredictionContext(s, epoch, text, invalidate))
  BY <1>1, PlanlessContext
<1>5. PredictionContext(s, epoch, text, invalidate).pending = s.pending
  BY <1>1, PlanlessContext
<1> QED BY <1>3, <1>4, <1>5

LEMMA BeginsKeeps ==
  ASSUME IInv, Begins
  PROVE  IInv'
<1>1. stack # <<>> /\ Now.do = "Serial" /\ UNCHANGED <<svc, host, loader, disk>>
  BY DEF Begins, Running
<1>2. (\A t : ~Bears(Top, t)) /\ ~OfRuntime(Top)
  BY <1>1, BearsNothing
<1>3. Quiet(svc, svc') /\ svc'.pinyin \in Latches /\ svc'.owns = svc.owns
  BY <1>1, SameService
<1> DEFINE returns == session = {} \/ svc.conn = {} \/ ~svc.active \/ ~svc.visible
           go == [do |-> "Go", request |-> Now.request]
<1>4. CASE returns
  BY <1>1, <1>2, <1>3, <1>4, PlainReturn DEF Begins
<1>5. CASE ~returns
  <2>1. PICK x \in Synced(s) :
          /\ session' = {Recover(x)}
          /\ Continue(IF Staged(Recover(x)) THEN <<Executes(Recover(x)), go>> ELSE <<go>>)
    BY <1>5 DEF Begins
  <2> DEFINE y == Recover(x)
  <2>2. session # {} /\ svc.active /\ Good(s)
    BY <1>5, OneSession
  <2>3. Kept(s, x)
    <3>1. \A epoch, text, invalidate : Kept(s, PredictionContext(s, epoch, text, invalidate))
      BY <2>2, PlanlessContext
    <3>2. \/ x = s
          \/ \E epoch, text, invalidate : x = PredictionContext(s, epoch, text, invalidate)
      BY <2>1 DEF Synced
    <3> QED BY <2>2, <3>1, <3>2, KeptReflexive
  <2>4. Kept(s, y)
    BY <2>2, <2>3, RecoverGood, KeptTransitive DEF Kept
  <2>5. SameAs(Top, svc) /\ Top.conn # {}
    BY <1>1, <1>5, <2>2, TopFrame DEF IInv, TopOk, SameAs, Now
  <2> HIDE DEF y
  <2> DEFINE todo == IF Staged(y) THEN <<Executes(y), go>> ELSE <<go>>
  <2>6. session' = {y} /\ Continue(todo)
    BY <2>1 DEF y
  <2>7. Later(<<go>>) /\ IsSeq(<<go>>)
    BY LaterOf, OneInstruction
  <2>8. Staged(y) => IsSeq(todo) /\ todo # <<>> /\ Head(todo) = Executes(y) /\ Tail(todo) = <<go>>
    <3>1. <<Executes(y), go>> = <<Executes(y)>> \o <<go>>
      OBVIOUS
    <3> QED BY <2>7, <3>1, HeadAndTail
  <2>9. ~Staged(y) => Later(todo) /\ todo # <<>>
    BY <2>7, OneInstruction
  <2> HIDE DEF todo, go
  <2>10. PICK g : /\ GoesOn(g) /\ DOMAIN g = FrameFields /\ g.todo = todo
                  /\ g.epoch = Top.epoch /\ g.conn = Top.conn
    BY <1>1, <2>6, ContinueEffect
  <2> QED BY <1>1, <1>2, <1>3, <2>2, <2>4, <2>5, <2>6, <2>7, <2>8, <2>9, <2>10, KeptTurn
<1> QED BY <1>4, <1>5

LEMMA GoesShortcutKeeps ==
  ASSUME IInv, GoesShortcut
  PROVE  IInv'
<1>1. stack # <<>> /\ Now.do = "Go" /\ UNCHANGED <<svc, host, loader, disk>>
  BY DEF GoesShortcut, Running
<1>2. (\A t : ~Bears(Top, t)) /\ ~OfRuntime(Top)
  BY <1>1, BearsNothing
<1>3. Quiet(svc, svc') /\ svc'.pinyin \in Latches /\ svc'.owns = svc.owns
  BY <1>1, SameService
<1>4. FrameOk(Top, svc, session) /\ TopOk(Top, svc, session, host)
  BY <1>1, TopFrame DEF IInv
<1>5. session # {} /\ Top.conn # {}
  BY <1>1, <1>4 DEF FrameOk, Now
<1> DEFINE returns == ~Top.ok \/ PasteWaits(Now.request)
           e == Edit(Shortcut(Now.request), {})
<1>6. CASE returns
  BY <1>1, <1>2, <1>3, <1>6, PlainReturn DEF GoesShortcut
<1>7. CASE ~returns
  <2>1. session' = InvalidatePrediction /\ Continue(<<e>>)
    BY <1>7 DEF GoesShortcut
  <2>2. PICK y : session' = {y} /\ Kept(s, y) /\ y.pending = s.pending
    BY <1>5, <2>1, PredictionsWithdrawn
  <2>3. ~Staged(y)
    <3>1. session = {s} /\ Good(s)
      BY <1>5, OneSession
    <3> QED BY <2>2, <3>1, StagedOrOut DEF Kept
  <2>4. /\ DOMAIN e = EditFields /\ e.do = "Edit" /\ e.at = "begin" /\ e.token = {}
        /\ e.steps = Shortcut(Now.request)
    BY DEF Edit
  <2>5. IsSeq(Shortcut(Now.request))
    BY OneInstruction, ThreeInstructions DEF Shortcut
  <2> HIDE DEF e
  <2>6. PICK g : /\ GoesOn(g) /\ DOMAIN g = FrameFields /\ g.todo = <<e>>
                 /\ g.epoch = Top.epoch /\ g.conn = Top.conn
    BY <1>1, <2>1, ContinueEffect
  <2>7. IsSeq(g.todo) /\ g.todo # <<>> /\ Head(g.todo) = e /\ Tail(g.todo) = <<>>
    BY <2>6, OneLeft
  <2>8. FrameOk(g, svc', {y}) /\ ~IsDrain(g)
    <3>1. EditOk(e, svc', {y})
      BY <2>4, <2>5 DEF EditOk
    <3>2. g.epoch \in Nat /\ g.epoch <= svc'.epoch
      BY <1>3, <1>4, <2>6 DEF FrameOk, Quiet
    <3> QED BY <1>5, <2>4, <2>6, <2>7, <3>1, <3>2, LaterOf DEF FrameOk, IsDrain
  <2>9. TopOk(g, svc', {y}, host)
    <3>1. svc'.draining
      BY <1>2, <1>3, <1>4 DEF TopOk, Quiet
    <3> QED BY <2>4, <2>7, <3>1 DEF TopOk, Composed
  <2> QED BY <1>1, <1>2, <1>3, <1>5, <2>2, <2>3, <2>6, <2>7, <2>8, <2>9, KeptTurn
<1> QED BY <1>6, <1>7

LEMMA GoesKeyKeeps ==
  ASSUME IInv, GoesKey
  PROVE  IInv'
<1>1. stack # <<>> /\ Now.do = "Go" /\ UNCHANGED <<host, loader, disk>>
  BY DEF GoesKey, Running
<1>2. (\A t : ~Bears(Top, t)) /\ ~OfRuntime(Top)
  BY <1>1, BearsNothing
<1>3. FrameOk(Top, svc, session) /\ TopOk(Top, svc, session, host)
  BY <1>1, TopFrame DEF IInv
<1>4. session # {} /\ Top.conn # {} /\ (Top.ok => SameAs(Top, svc))
  BY <1>1, <1>3 DEF FrameOk, TopOk, Now
<1>5. svc.pinyin \in Latches
  BY DEF IInv, ServiceOk
<1> DEFINE cycling == Now.request.op = "CyclePinyin"
           action == Action(Now.request)
           y == Prepare(s, action)
           latch == [do |-> "Latch", action |-> action,
                     mode |-> IF cycling THEN NextMode(svc.pinyin) ELSE svc.pinyin]
           passed == [do |-> "Direct", at |-> "call", action |-> action]
           locks == cycling /\ NextMode(svc.pinyin) = "Locked"
<1>6. CASE ~Top.ok
  <2>1. Return /\ UNCHANGED <<session, svc>>
    BY <1>6 DEF GoesKey
  <2> QED BY <1>1, <1>2, <2>1, SameService, PlainReturn
<1>7. CASE Top.ok /\ locks
  <2>1. svc' = [svc EXCEPT !.pinyin = "Locked"] /\ Return /\ UNCHANGED session
    BY <1>7 DEF GoesKey
  <2>2. Quiet(svc, svc') /\ svc'.pinyin \in Latches /\ svc'.owns = svc.owns
    <3>1. "Locked" \in Latches
      BY DEF Latches
    <3> QED BY <2>1, <3>1, LatchEffect
  <2> QED BY <1>1, <1>2, <2>1, <2>2, PlainReturn
<1>8. CASE Top.ok /\ ~locks
  <2> DEFINE others == IF The(y.pending).consumed THEN <<>> ELSE <<passed>>
  <2>1. /\ session' = {y} /\ UNCHANGED svc
        /\ IF ~Staged(y) THEN Return ELSE Continue(<<Executes(y)>> \o others \o <<latch>>)
    BY <1>8 DEF GoesKey
  <2>2. Kept(s, y)
    BY <1>4, OneSession, PrepareGood
  <2>3. Quiet(svc, svc') /\ svc'.pinyin \in Latches /\ svc'.owns = svc.owns
    BY <2>1, SameService
  <2>4. Later(others) /\ Later(<<latch>>) /\ ~HasGo(<<latch>>)
    <3>1. latch.do = "Latch" /\ latch.mode \in Latches
      BY <1>5 DEF NextMode, Latches
    <3>2. passed.do = "Direct" /\ DOMAIN passed = DirectFields
      OBVIOUS
    <3> HIDE DEF latch, passed
    <3>3. DOMAIN <<latch>> = 1..1 /\ <<latch>>[1] = latch
      BY OneInstruction, DomainOf
    <3>4. \A k \in 1..1 : k = 1
      OBVIOUS
    <3> QED BY <3>1, <3>2, <3>3, <3>4, LaterOf DEF HasGo
  <2> HIDE DEF y, others, latch, passed
  <2>5. CASE ~Staged(y)
    <3>1. PICK g : GoesOn(g) /\ g.todo = <<>>
      BY <2>1, <2>5, ReturnEffect
    <3>2. session' = {y} /\ UNCHANGED <<host, loader, disk>> /\ session # {}
      BY <1>1, <1>4, <2>1
    <3> QED BY <1>1, <1>2, <2>2, <2>3, <2>5, <3>1, <3>2, KeptTurn
  <2>6. CASE Staged(y)
    <3> DEFINE todo == <<Executes(y)>> \o others \o <<latch>>
    <3>1. Continue(todo)
      BY <2>1, <2>6
    <3>2. IsSeq(todo) /\ todo # <<>> /\ Head(todo) = Executes(y) /\ Tail(todo) = others \o <<latch>>
      <4>1. IsSeq(others) /\ IsSeq(<<latch>>)
        BY <2>4 DEF Later
      <4> QED BY <4>1, LedBy
    <3>3. Later(Tail(todo))
      BY <2>4, <3>2, LaterOf
    <3> HIDE DEF todo
    <3>4. PICK g : /\ GoesOn(g) /\ DOMAIN g = FrameFields /\ g.todo = todo
                   /\ g.epoch = Top.epoch /\ g.conn = Top.conn
      BY <1>1, <3>1, ContinueEffect
    <3> QED BY <1>1, <1>2, <1>4, <1>8, <2>1, <2>2, <2>3, <2>6, <3>2, <3>3, <3>4, KeptTurn
  <2> QED BY <2>5, <2>6
<1> QED BY <1>6, <1>7, <1>8

LEMMA DirectKeeps ==
  ASSUME IInv, Direct
  PROVE  IInv'
<1>1. stack # <<>> /\ Now.do = "Direct" /\ UNCHANGED <<session, svc, loader, disk>>
  BY DEF Direct, RunningAt, Running
<1>2. (\A t : ~Bears(Top, t)) /\ ~OfRuntime(Top)
  BY <1>1, BearsNothing
<1>3. FrameOk(Top, svc, session) /\ TopOk(Top, svc, session, host) /\ Later(Rest)
  BY <1>1, TopFrame DEF IInv
<1>4. /\ DOMAIN Now = DirectFields /\ session # {} /\ svc.pinyin \in Latches /\ ~HasGo(Rest)
      /\ Top.conn # {}
  BY <1>1, <1>3 DEF FrameOk, Now, Rest, IInv, ServiceOk
<1>5. Quiet(svc, svc') /\ svc'.pinyin \in Latches /\ svc'.owns = svc.owns
  BY <1>1, SameService
<1> DEFINE passes == ~Top.ok \/ ~Same \/ Now.action.op \notin {"Space", "Enter", "Backspace"}
<1>6. CASE passes
  <2>1. Continue(Rest) /\ UNCHANGED host
    BY <1>6 DEF Direct
  <2>2. PICK g : /\ GoesOn(g) /\ DOMAIN g = FrameFields /\ g.todo = Rest
                 /\ g.epoch = Top.epoch /\ g.conn = Top.conn /\ g.ok = Top.ok
    BY <1>1, <2>1, ContinueEffect
  <2>3. HostOk(host', svc')
    BY <1>1, <2>1, SameService
  <2>4. Rest # <<>> => Head(Rest).do # "Go"
    <3>1. Rest # <<>> => Head(Rest) = Rest[1] /\ 1 \in DOMAIN Rest
      BY <1>3, StepsLeft DEF Later
    <3> QED BY <1>4, <3>1 DEF HasGo
  <2> QED BY <1>1, <1>2, <1>3, <1>4, <1>5, <2>1, <2>2, <2>3, <2>4, PlainTurn
<1>7. CASE ~passes
  <2> DEFINE i == Phase("ret")
  <2>1. PICK w \in Words :
          host' = Reported([Written(host, [kind |-> "commit", text |-> <<>>]) EXCEPT !.text = w], FALSE)
    BY <1>7 DEF Direct
  <2>2. Continue(<<i>> \o Rest)
    BY <1>7 DEF Direct
  <2>3. i.do = "Direct" /\ DOMAIN i = DirectFields
    BY <1>1, <1>4 DEF Phase
  <2> HIDE DEF i
  <2>4. Later(<<i>> \o Rest) /\ <<i>> \o Rest # <<>> /\ Head(<<i>> \o Rest) = i
    <3>1. Later(<<i>>)
      BY <2>3, LaterOf
    <3> QED BY <1>3, <1>4, <3>1, LaterOf, HeadAndTail DEF Later
  <2>5. PICK g : /\ GoesOn(g) /\ DOMAIN g = FrameFields /\ g.todo = <<i>> \o Rest
                 /\ g.epoch = Top.epoch /\ g.conn = Top.conn /\ g.ok = Top.ok
    BY <1>1, <2>2, ContinueEffect
  <2>6. HostOk(host', svc')
    <3> DEFINE h == Written(host, [kind |-> "commit", text |-> <<>>])
    <3>1. DOMAIN h = HostFields /\ IsSeq(h.reports)
      BY WrittenEffect DEF IInv, HostOk
    <3> DEFINE k == [h EXCEPT !.text = w]
    <3>2. DOMAIN k = HostFields /\ IsSeq(k.reports) /\ host' = Reported(k, FALSE)
      BY <2>1, <3>1
    <3> HIDE DEF k
    <3>3. \A own : HostOk(Reported(k, own), svc')
      BY <3>2, ReportedEffect
    <3>4. PICK own : host' = Reported(k, own)
      BY <3>2
    <3> QED BY <3>3, <3>4
  <2> QED BY <1>1, <1>2, <1>4, <1>5, <2>3, <2>4, <2>5, <2>6, PlainTurn
<1> QED BY <1>6, <1>7

LEMMA DirectReturnsKeeps ==
  ASSUME IInv, DirectReturns
  PROVE  IInv'
<1>1. stack # <<>> /\ Now.do = "Direct" /\ UNCHANGED <<host, loader, disk>>
  BY DEF DirectReturns, RunningAt, Running
<1>2. (\A t : ~Bears(Top, t)) /\ ~OfRuntime(Top)
  BY <1>1, BearsNothing
<1>3. FrameOk(Top, svc, session) /\ Later(Rest)
  BY <1>1, TopFrame DEF IInv
<1>4. session # {} /\ ~HasGo(Rest) /\ Top.conn # {}
  BY <1>1, <1>3 DEF FrameOk, Now, Rest
<1>5. CASE Return /\ Broken
  BY <1>1, <1>5, BrokenReturns
<1>6. CASE Continue(Rest) /\ UNCHANGED <<session, svc>>
  <2>1. PICK g : /\ GoesOn(g) /\ DOMAIN g = FrameFields /\ g.todo = Rest
                 /\ g.epoch = Top.epoch /\ g.conn = Top.conn
    BY <1>1, <1>6, ContinueEffect
  <2>2. /\ Quiet(svc, svc') /\ svc'.pinyin \in Latches /\ svc'.owns = svc.owns
        /\ HostOk(host', svc')
    BY <1>1, <1>6, SameService
  <2>3. Rest # <<>> => Head(Rest).do # "Go"
    <3>1. Rest # <<>> => Head(Rest) = Rest[1] /\ 1 \in DOMAIN Rest
      BY <1>3, StepsLeft DEF Later
    <3> QED BY <1>4, <3>1 DEF HasGo
  <2> QED BY <1>1, <1>2, <1>3, <1>4, <1>6, <2>1, <2>2, <2>3, PlainTurn
<1> QED BY <1>1, <1>5, <1>6 DEF DirectReturns

LEMMA LatchKeeps ==
  ASSUME IInv, Latch
  PROVE  IInv'
<1>1. stack # <<>> /\ Now.do = "Latch" /\ UNCHANGED <<host, loader, disk>>
  BY DEF Latch, Running
<1>2. (\A t : ~Bears(Top, t)) /\ ~OfRuntime(Top)
  BY <1>1, BearsNothing
<1>3. FrameOk(Top, svc, session)
  BY <1>1, TopFrame DEF IInv
<1> DEFINE mode == IF Now.action.op = "SetBaseMode" THEN "Off" ELSE Now.mode
           action == ModeAct("BeginTemporary", "Pinyin")
           y == Prepare(s, action)
           resumed == [do |-> "Resumed"]
<1>4. session # {} /\ Top.conn # {} /\ mode \in Latches /\ "Off" \in Latches
  BY <1>1, <1>3 DEF FrameOk, Now, Latches
<1>5. PICK m \in Latches :
        /\ svc' = [svc EXCEPT !.pinyin = m]
        /\ \/ Return /\ UNCHANGED session
           \/ /\ Top.ok /\ Same /\ session' = {y}
              /\ IF Staged(y) THEN Continue(<<Executes(y), resumed>>) ELSE Return
  <2> HIDE DEF y, mode, resumed
  <2>1. \/ svc' = [svc EXCEPT !.pinyin = "Off"] /\ Return /\ UNCHANGED session
        \/ svc' = [svc EXCEPT !.pinyin = mode] /\ Return /\ UNCHANGED session
        \/ /\ svc' = [svc EXCEPT !.pinyin = mode] /\ Top.ok /\ Same /\ session' = {y}
           /\ IF Staged(y) THEN Continue(<<Executes(y), resumed>>) ELSE Return
    BY DEF Latch, y, mode, resumed
  <2> QED BY <1>4, <2>1
<1>6. Quiet(svc, svc') /\ svc'.pinyin \in Latches /\ svc'.owns = svc.owns
  BY <1>5, LatchEffect
<1>7. CASE Return /\ UNCHANGED session
  BY <1>1, <1>2, <1>6, <1>7, PlainReturn
<1>8. CASE ~(Return /\ UNCHANGED session)
  <2>1. /\ Same /\ session' = {y}
        /\ IF Staged(y) THEN Continue(<<Executes(y), resumed>>) ELSE Return
    BY <1>5, <1>8
  <2>2. Kept(s, y)
    BY <1>4, OneSession, PrepareGood
  <2>3. SameAs(Top, svc)
    BY <2>1 DEF Same, SameAs
  <2>4. Later(<<resumed>>) /\ IsSeq(<<resumed>>)
    BY LaterOf, OneInstruction
  <2> HIDE DEF y, resumed
  <2>5. CASE ~Staged(y)
    <3>1. PICK g : GoesOn(g) /\ g.todo = <<>>
      BY <2>1, <2>5, ReturnEffect
    <3> QED BY <1>1, <1>2, <1>4, <1>6, <2>1, <2>2, <2>5, <3>1, KeptTurn
  <2>6. CASE Staged(y)
    <3> DEFINE todo == <<Executes(y), resumed>>
    <3>1. Continue(todo)
      BY <2>1, <2>6
    <3>2. IsSeq(todo) /\ todo # <<>> /\ Head(todo) = Executes(y) /\ Tail(todo) = <<resumed>>
      <4>1. todo = <<Executes(y)>> \o <<resumed>>
        OBVIOUS
      <4> QED BY <2>4, <4>1, HeadAndTail
    <3> HIDE DEF todo
    <3>3. PICK g : /\ GoesOn(g) /\ DOMAIN g = FrameFields /\ g.todo = todo
                   /\ g.epoch = Top.epoch /\ g.conn = Top.conn
      BY <1>1, <3>1, ContinueEffect
    <3> QED BY <1>1, <1>2, <1>4, <1>6, <2>1, <2>2, <2>3, <2>4, <2>6, <3>2, <3>3, KeptTurn
  <2> QED BY <2>5, <2>6
<1> QED BY <1>7, <1>8

LEMMA LatchResumedKeeps ==
  ASSUME IInv, LatchResumed
  PROVE  IInv'
<1>1. stack # <<>> /\ Now.do = "Resumed" /\ Return /\ UNCHANGED <<session, host, loader, disk>>
  BY DEF LatchResumed, Running
<1>2. (\A t : ~Bears(Top, t)) /\ ~OfRuntime(Top)
  BY <1>1, BearsNothing
<1>3. Quiet(svc, svc') /\ svc'.pinyin \in Latches /\ svc'.owns = svc.owns
  <2>1. CASE UNCHANGED svc
    BY <2>1, SameService
  <2>2. CASE svc' = [svc EXCEPT !.pinyin = "Off"]
    <3>1. "Off" \in Latches
      BY DEF Latches
    <3> QED BY <2>2, <3>1, LatchEffect
  <2> QED BY <2>1, <2>2 DEF LatchResumed
<1> QED BY <1>1, <1>2, <1>3, PlainReturn

-----------------------------------------------------------------------------
(* The queue. *)

\* A new callback runs above those in progress.
LEMMA Pushes ==
  ASSUME IsSeq(stack), OneDrain(stack), NEW w, NEW U, NEW k,
         \A q \in FramesOf(stack) : FrameOk(q, w, U) /\ WaitsBelow(q),
         NEW g, FrameOk(g, w, U), TopOk(g, w, U, k),
         ~IsDrain(g) \/ \A q \in FramesOf(stack) : ~IsDrain(q),
         stack' = <<g>> \o stack
  PROVE  StackOk(stack', w, U, k) /\ FramesOf(stack') = {g} \cup FramesOf(stack)
<1>1. /\ IsSeq(stack') /\ stack' # <<>> /\ Head(stack') = g
      /\ Below(stack') = FramesOf(stack) /\ FramesOf(stack') = {g} \cup FramesOf(stack)
  BY PushEffect
<1>2. OneDrain(stack')
  BY PushesDrains
<1> QED BY <1>1, <1>2 DEF StackOk

\* The first of the queue is taken.
LEMMA QueueTail ==
  ASSUME NEW v, QueueOk(v), v.queue # <<>>, NEW w, w.queue = Tail(v.queue),
         w.generation = v.generation, w.epoch = v.epoch
  PROVE  QueueOk(w)
<1>1. IsSeq(Tail(v.queue)) /\ \A k \in DOMAIN Tail(v.queue) : \E m \in DOMAIN v.queue :
                                Tail(v.queue)[k] = v.queue[m]
  BY StepsLeft DEF QueueOk
<1> QED BY <1>1 DEF QueueOk

LEMMA DrainKeeps ==
  ASSUME IInv, Drain
  PROVE  IInv'
<1>1. stack # <<>> /\ Now.do = "Drain" /\ UNCHANGED <<session, host, loader, disk>>
  BY DEF Drain, Running
<1>2. /\ StackOk(stack, svc, session, host) /\ ServiceOk(svc, session) /\ SessionOk(session, svc)
      /\ HostOk(host, svc) /\ Carried(stack, svc, session)
  BY DEF IInv
<1>3. FrameOk(Top, svc, session) /\ IsDrain(Top)
  BY <1>1, <1>2, TopFrame DEF IsDrain, Now
<1>4. svc.draining /\ IsSeq(stack) /\ OneDrain(stack) /\ svc.epoch \in Nat /\ DOMAIN svc = ServiceFields
  BY <1>2, <1>3 DEF FrameOk, StackOk, ServiceOk
<1>5. FramesOf(stack) = {Top} \cup Below(stack)
  BY <1>1, <1>4, StackOf DEF Top
<1>6. ASSUME NEW w, w.epoch = svc.epoch, w.owns = svc.owns
      PROVE  Stays(session, svc, session, w)
  BY <1>2, <1>4, <1>6 DEF Stays, SessionOk, InUse, Good, Shape
<1>7. CASE svc.queue = <<>>
  <2>1. svc' = [svc EXCEPT !.draining = FALSE] /\ stack' = Tail(stack)
    BY <1>7 DEF Drain, Return
  <2>2. /\ DOMAIN svc' = ServiceFields /\ \A f \in ServiceFields \ {"draining"} : svc'[f] = svc[f]
    BY <1>4, <2>1
  <2>3. LoaderOk(svc)' /\ HostOk(host', svc') /\ SessionOk(session', svc') /\ ServiceOk(svc', session')
    <3>1. LoaderOk(svc)'
      BY <1>1, <2>2, LoaderStays DEF IInv
    <3> QED BY <1>1, <1>2, <2>2, <3>1 DEF HostOk, SessionOk, InUse, ServiceOk, QueueOk
  <2>4. /\ OneDrain(stack') /\ IsSeq(stack') /\ FramesOf(stack') = Below(stack)
        /\ \A q \in Below(stack) : ~IsDrain(q)
    BY <1>1, <1>3, <1>4, <2>1, PopsDrains, PopEffect DEF Top
  <2>5. ASSUME NEW q \in Below(stack)
        PROVE  FrameOk(q, svc', session') /\ WaitsBelow(q)
    <3>1. FrameOk(q, svc, session) /\ WaitsBelow(q) /\ ~IsDrain(q)
      BY <1>2, <1>5, <2>4, <2>5 DEF StackOk
    <3>2. Stays(session, svc, session', svc')
      BY <1>1, <1>6, <2>2
    <3> QED BY <3>1, <3>2, FrameStays
  <2>6. stack' # <<>> => Head(stack') \in Below(stack) /\ Below(stack') \subseteq Below(stack)
    BY <2>4, StackOf
  <2>7. stack' = <<>> => Below(stack') = {}
    BY EmptySequence DEF Below
  <2>8. StackOk(stack', svc', session', host')
    <3>1. stack' # <<>> => TopOk(Head(stack'), svc', session', host')
      BY <2>5, <2>6, WaitingRuns
    <3> QED BY <2>4, <2>5, <2>6, <2>7, <3>1 DEF StackOk
  <2>9. Carried(stack', svc', session')
    <3> SUFFICES ASSUME ~Mute(svc'), NEW x \in session, NEW p \in x.pending
                 PROVE  \E q \in FramesOf(stack') : Bears(q, p.token) /\ SameAs(q, svc')
      BY <1>1 DEF Carried
    <3>1. PICK q \in FramesOf(stack) : Bears(q, p.token) /\ SameAs(q, svc)
      BY <1>2, <2>2 DEF Carried, Mute
    <3>2. q # Top
      BY <1>1, <3>1, BearsNothing
    <3> QED BY <1>5, <2>2, <2>4, <3>1, <3>2 DEF SameAs
  <2> QED BY <2>3, <2>8, <2>9 DEF IInv
<1>8. CASE svc.queue # <<>>
  <2> DEFINE next == Head(svc.queue)  serial == Serial(next.request)  g == Frame(<<serial>>)
  <2>1. svc' = [svc EXCEPT !.queue = Tail(@)]
    BY <1>8 DEF Drain
  <2>2. stack' = <<g>> \o stack \/ stack' = stack
    BY <1>8 DEF Drain
  <2>3. DOMAIN svc' = ServiceFields /\ \A f \in ServiceFields \ {"queue"} : svc'[f] = svc[f]
    BY <1>4, <2>1
  <2>4. svc'.queue = Tail(svc.queue)
    BY <1>4, <2>1
  <2>5. LoaderOk(svc)' /\ HostOk(host', svc') /\ SessionOk(session', svc') /\ ServiceOk(svc', session')
    <3>1. LoaderOk(svc)'
      BY <1>1, <2>3, LoaderStays DEF IInv
    <3>2. QueueOk(svc')
      BY <1>2, <1>8, <2>3, <2>4, QueueTail DEF ServiceOk
    <3> QED BY <1>1, <1>2, <2>3, <3>1, <3>2 DEF HostOk, SessionOk, InUse, ServiceOk
  <2>6. ASSUME NEW q \in FramesOf(stack)
        PROVE  FrameOk(q, svc', session') /\ WaitsBelow(q)
    <3>1. FrameOk(q, svc, session) /\ WaitsBelow(q)
      BY <1>2, <1>3, <1>5, <2>6 DEF StackOk, WaitsBelow
    <3>2. Stays(session, svc, session', svc')
      BY <1>1, <1>6, <2>3
    <3>3. svc'.draining
      BY <1>4, <2>3
    <3> QED BY <3>1, <3>2, <3>3, FrameStays
  <2>7. Carried(stack, svc', session')
    BY <1>1, <1>2, <2>3 DEF Carried, SameAs, Mute
  <2>8. CASE stack' = <<g>> \o stack
    <3>1. /\ DOMAIN g = FrameFields /\ g.todo = <<serial>> /\ g.epoch = svc.epoch
          /\ g.conn = svc.conn
      BY DEF Frame
    <3>2. serial.do = "Serial"
      BY DEF Serial
    <3> HIDE DEF serial, g
    <3>3. IsSeq(g.todo) /\ g.todo # <<>> /\ Head(g.todo) = serial /\ Tail(g.todo) = <<>>
      BY <3>1, OneLeft
    <3>4. FrameOk(g, svc', session') /\ ~IsDrain(g)
      BY <1>4, <2>3, <3>1, <3>2, <3>3, LaterOf DEF FrameOk, IsDrain
    <3>5. TopOk(g, svc', session', host')
      BY <1>4, <2>3, <3>1, <3>2, <3>3 DEF TopOk, Composed
    <3>6. StackOk(stack', svc', session', host') /\ FramesOf(stack') = {g} \cup FramesOf(stack)
      BY <1>4, <2>6, <2>8, <3>4, <3>5, Pushes
    <3>7. Carried(stack', svc', session')
      BY <2>7, <3>6 DEF Carried
    <3> QED BY <2>5, <3>6, <3>7 DEF IInv
  <2>9. CASE stack' = stack
    <3>1. StackOk(stack', svc', session', host')
      <4>1. TopOk(Head(stack), svc', session', host')
        BY <1>5, <2>6, WaitingRuns DEF Top
      <4> QED BY <1>1, <1>2, <2>6, <2>9, <4>1 DEF StackOk
    <3> QED BY <2>5, <2>7, <2>9, <3>1 DEF IInv
  <2> QED BY <2>2, <2>8, <2>9
<1> QED BY <1>7, <1>8

-----------------------------------------------------------------------------
(* The callbacks. *)

\* A callback that begins no frame runs while the editor has the thread, if a frame does.
LEMMA StaysPut ==
  ASSUME MayEnter, NEW v, NEW S, NEW h, StackOk(stack, v, S, h),
         NEW w, NEW U, NEW k, Stays(S, v, U, w), w.draining = v.draining,
         stack # <<>> /\ Composed(Now) /\ SameAs(Top, w) => k.composing
  PROVE  StackOk(stack, w, U, k)
<1>1. IsSeq(stack) /\ OneDrain(stack)
  BY DEF StackOk
<1>2. ASSUME NEW q \in FramesOf(stack)
      PROVE  FrameOk(q, w, U)
  <2>1. FrameOk(q, v, S)
    BY <1>2 DEF StackOk
  <2>2. IsDrain(q) => w.draining
    BY <2>1 DEF FrameOk
  <2> QED BY <2>1, <2>2, FrameStays
<1>3. stack # <<>> => TopOk(Top, w, U, k)
  <2> SUFFICES ASSUME stack # <<>>
               PROVE  TopOk(Top, w, U, k)
    OBVIOUS
  <2>1. Now.do \in {"Edit", "Direct"}
    BY DEF MayEnter, HostHas
  <2>2. ~OfRuntime(Top) => w.draining
    BY TopFrame DEF TopOk
  <2> QED BY <2>1, <2>2 DEF TopOk, Now
<1> QED BY <1>1, <1>2, <1>3 DEF StackOk, Top

LEMMA CallKeeps ==
  ASSUME IInv, UNCHANGED <<loader, disk, stack>>, MayEnter,
         ServiceOk(svc', session'), SessionOk(session', svc'), HostOk(host', svc'),
         svc'.runtime = svc.runtime, svc'.draining = svc.draining,
         Stays(session, svc, session', svc'), Carried(stack, svc', session'),
         stack # <<>> /\ Composed(Now) /\ SameAs(Top, svc') => host'.composing
  PROVE  IInv'
<1>1. LoaderOk(svc)'
  BY LoaderStays DEF IInv
<1>2. StackOk(stack, svc, session, host)
  BY DEF IInv
<1>3. StackOk(stack, svc', session', host')
  BY <1>2, StaysPut
<1> QED BY <1>1, <1>3 DEF IInv

\* An edit that ran in an older epoch is not of the editor in focus.
LEMMA OlderEpoch ==
  ASSUME IInv, stack # <<>>, NEW w, w.epoch = svc.epoch + 1
  PROVE  ~SameAs(Top, w)
<1>1. Top.epoch \in Nat /\ Top.epoch <= svc.epoch
  BY TopFrame DEF IInv, FrameOk
<1>2. svc.epoch \in Nat
  BY DEF IInv, ServiceOk
<1> QED BY <1>1, <1>2 DEF SameAs

\* The editor is attached again by a callback.
LEMMA ReattachCall ==
  ASSUME IInv, UNCHANGED <<loader, disk, stack>>, MayEnter,
         DOMAIN host' = HostFields, IsSeq(host'.reports),
         NEW v, DOMAIN v = ServiceFields,
         v.epoch = svc.epoch + 1, v.generation = svc.generation + 1, v.queue = <<>>,
         v.draining = svc.draining, v.runtime = svc.runtime, v.owns => svc.owns,
         v.owns \in BOOLEAN, v.owns => v.active,
         v.conn # {} => \E e \in v.conn : v.conn = {e},
         svc.active => v.active, Reattach(v)
  PROVE  IInv'
<1>1. /\ ServiceOk(svc', session') /\ SessionOk(session', svc') /\ LoaderOk(svc)'
      /\ Stays(session, svc, session', svc')
      /\ ~svc'.owns /\ svc'.draining = svc.draining
      /\ \A y \in session' : y.pending = {}
  BY ReattachEffect
<1>2. svc'.runtime = svc.runtime /\ svc'.epoch = svc.epoch + 1
  BY DEF Reattach, Attached, Abandoned
<1>3. HostOk(host', svc')
  BY <1>1 DEF HostOk
<1>4. Carried(stack, svc', session')
  BY <1>1 DEF Carried
<1>5. stack # <<>> => ~SameAs(Top, svc')
  BY <1>2, OlderEpoch
<1> QED BY <1>1, <1>2, <1>3, <1>4, <1>5, CallKeeps

LEMMA StartInputKeeps ==
  ASSUME IInv, NEW e, StartInput(e)
  PROVE  IInv'
<1>0. PICK conn \in {{}, {e}} :
        Reattach(NextEpoch([Invalidated(svc) EXCEPT !.conn = conn, !.policy = Editors[e],
                              !.selected = FALSE, !.active = TRUE]))
  BY DEF StartInput
<1> DEFINE v == NextEpoch([Invalidated(svc) EXCEPT !.conn = conn, !.policy = Editors[e],
                             !.selected = FALSE, !.active = TRUE])
<1>1. DOMAIN svc = ServiceFields /\ svc.owns \in BOOLEAN /\ DOMAIN host = HostFields
  BY DEF IInv, ServiceOk, HostOk
<1>2. /\ DOMAIN v = ServiceFields /\ v.epoch = svc.epoch + 1 /\ v.queue = <<>>
      /\ v.generation = svc.generation + 1 /\ v.draining = svc.draining
      /\ v.runtime = svc.runtime /\ v.owns = svc.owns /\ v.conn = conn /\ v.active = TRUE
      /\ v.conn # {} => \E c \in v.conn : v.conn = {c}
  BY <1>1 DEF NextEpoch, Invalidated
<1>3. Reattach(v) /\ MayEnter /\ UNCHANGED <<loader, disk, stack>>
  BY <1>0 DEF StartInput
<1>4. DOMAIN host' = HostFields /\ IsSeq(host'.reports)
  <2>1. host' = [host EXCEPT !.focus = {e}, !.composing = FALSE, !.selected = FALSE,
                             !.reports = <<>>, !.missed = FALSE, !.starts = @ + 1]
    BY DEF StartInput
  <2> QED BY <1>1, <2>1, EmptySequence
<1> HIDE DEF v
<1> QED BY <1>1, <1>2, <1>3, <1>4, ReattachCall

LEMMA FinishInputKeeps ==
  ASSUME IInv, FinishInput
  PROVE  IInv'
<1> DEFINE v == NextEpoch([Abandoned(Invalidated(svc)) EXCEPT !.conn = {}, !.active = FALSE,
                             !.pinyin = "Off"])
<1>1. DOMAIN svc = ServiceFields /\ DOMAIN host = HostFields
  BY DEF IInv, ServiceOk, HostOk
<1>2. /\ DOMAIN v = ServiceFields /\ v.epoch = svc.epoch + 1 /\ v.queue = <<>>
      /\ v.generation = svc.generation + 1 /\ v.draining = svc.draining
      /\ v.runtime = svc.runtime /\ v.conn = {} /\ v.pinyin = "Off"
      /\ ~v.owns /\ v.owns \in BOOLEAN /\ ~v.active
  BY <1>1 DEF NextEpoch, Invalidated, Abandoned
<1>3. /\ svc' = v /\ session' = Context(HostContext(v)) /\ MayEnter
      /\ UNCHANGED <<loader, disk, stack>>
  BY DEF FinishInput
<1>4. DOMAIN host' = HostFields /\ IsSeq(host'.reports)
  <2>1. host' = [host EXCEPT !.focus = {}, !.composing = FALSE, !.reports = <<>>,
                             !.missed = FALSE, !.starts = @ + 1]
    BY DEF FinishInput
  <2> QED BY <1>1, <2>1, EmptySequence
<1> HIDE DEF v
<1>5. svc.epoch \in Nat /\ svc.generation \in Nat
  BY DEF IInv, ServiceOk
<1>6. /\ SessionOk(session', svc') /\ \A y \in session' : y.pending = {}
      /\ \A x \in session : \E y \in session' :
           x.generation \in Nat /\ y.generation \in Nat /\ x.generation <= y.generation
  <2>1. CASE session = {}
    BY <1>3, <2>1 DEF Context, SessionOk
  <2>2. CASE session # {}
    <3>1. PICK x \in session, n \in svc.runtime :
            session = {x} /\ svc.runtime = {n} /\ InUse(x, n, svc)
      BY <2>2 DEF IInv, SessionOk
    <3> DEFINE y == InvalidateContext(x, HostContext(v), TRUE)
    <3>2. session' = {y}
      BY <1>3, <3>1 DEF Context
    <3>3. InUse(y, n, svc') /\ y.pending = {} /\ y.generation = x.generation + 1
      <4>1. ~svc'.owns /\ DOMAIN HostContext(v) = ContextFields
        BY <1>2, <1>3, HostContextShape
      <4> QED BY <3>1, <4>1, LostInUse
    <3> HIDE DEF y
    <3>4. x.generation \in Nat
      BY <3>1 DEF InUse, Good, Shape
    <3> QED BY <1>2, <1>3, <3>1, <3>2, <3>3, <3>4 DEF SessionOk
  <2> QED BY <2>1, <2>2
<1>7. ServiceOk(svc', session')
  <2>1. IsSeq(<<>>) /\ DOMAIN <<>> = {}
    BY EmptySequence, DomainOf
  <2>2. QueueOk(svc')
    BY <1>2, <1>3, <2>1 DEF QueueOk
  <2> QED BY <1>2, <1>3, <1>5, <2>2 DEF ServiceOk, Latches
<1>8. Stays(session, svc, session', svc')
  BY <1>2, <1>3, <1>5, <1>6 DEF Stays
<1>9. HostOk(host', svc') /\ Carried(stack, svc', session')
  BY <1>2, <1>3, <1>4, <1>6 DEF HostOk, Carried
<1>10. stack # <<>> => ~SameAs(Top, svc')
  BY <1>2, <1>3, OlderEpoch
<1> QED BY <1>2, <1>3, <1>6, <1>7, <1>8, <1>9, <1>10, CallKeeps

\* A callback that leaves the plan and the preedit alone.
LEMMA QuietCall ==
  ASSUME IInv, UNCHANGED <<loader, disk, stack>>, MayEnter, Quiet(svc, svc'),
         svc'.pinyin = svc.pinyin, svc'.owns = svc.owns, HostOk(host', svc'),
         host.composing => host'.composing,
         session' = session \/ session' = InvalidatePrediction
  PROVE  IInv'
<1>1. ServiceOk(svc, session) /\ SessionOk(session, svc) /\ Carried(stack, svc, session)
  BY DEF IInv
<1>2. \/ session' = session
      \/ session # {} /\ \E y : session' = {y} /\ Kept(s, y) /\ y.pending = s.pending
  <2>1. CASE session = {}
    BY <2>1 DEF InvalidatePrediction
  <2>2. CASE session # {}
    BY <2>2, PredictionsWithdrawn
  <2> QED BY <2>1, <2>2
<1>3. svc.epoch \in Nat /\ (session # {} <=> session' # {})
  BY <1>1, <1>2 DEF ServiceOk
<1>4. ServiceOk(svc', session')
  BY <1>1, <1>3 DEF ServiceOk, QueueOk, Quiet
<1>5. SessionOk(session', svc') /\ Stays(session, svc, session', svc') /\ Carried(stack, svc', session')
  <2>1. CASE session' = session
    BY <1>1, <1>3, <2>1 DEF SessionOk, InUse, Good, Shape, Stays, Carried, Mute, SameAs, Quiet
  <2>2. CASE session # {} /\ \E y : session' = {y} /\ Kept(s, y) /\ y.pending = s.pending
    <3>1. PICK y : session' = {y} /\ Kept(s, y) /\ y.pending = s.pending
      BY <2>2
    <3>2. PICK x \in session, n \in svc.runtime :
            session = {x} /\ svc.runtime = {n} /\ InUse(x, n, svc)
      BY <1>1, <2>2 DEF SessionOk
    <3>3. s = x
      BY <3>2 DEF s, The
    <3>4. InUse(y, n, svc') /\ Good(x) /\ Good(y) /\ Advances(x, y)
      BY <3>1, <3>2, <3>3, KeptInUse DEF InUse, Kept
    <3>5. SessionOk(session', svc')
      BY <3>1, <3>2, <3>4 DEF SessionOk, Quiet
    <3>6. Stays({x}, svc, {y}, svc')
      BY <1>3, <3>4, AdvanceStays DEF Quiet
    <3>7. Carried(stack, svc', session')
      BY <1>1, <3>1, <3>2, <3>3 DEF Carried, Mute, SameAs, Quiet
    <3> QED BY <3>1, <3>2, <3>5, <3>6, <3>7
  <2> QED BY <1>2, <2>1, <2>2
<1>6. stack # <<>> /\ Composed(Now) /\ SameAs(Top, svc') => host'.composing
  <2> SUFFICES ASSUME stack # <<>>, Composed(Now), SameAs(Top, svc')
               PROVE  host'.composing
    OBVIOUS
  <2>1. SameAs(Top, svc)
    BY DEF SameAs, Quiet
  <2>2. Now.do = "Edit"
    BY DEF Composed
  <2> QED BY <2>1, <2>2, RunningEdit
<1> QED BY <1>4, <1>5, <1>6, CallKeeps DEF Quiet

LEMMA ShowViewKeeps ==
  ASSUME IInv, ShowView
  PROVE  IInv'
<1>1. /\ MayEnter /\ svc' = [svc EXCEPT !.visible = TRUE]
      /\ UNCHANGED <<session, host, loader, disk, stack>>
  BY DEF ShowView
<1>2. DOMAIN svc = ServiceFields /\ HostOk(host, svc)
  BY DEF IInv, ServiceOk
<1>3. Quiet(svc, svc') /\ svc'.pinyin = svc.pinyin /\ svc'.owns = svc.owns
  BY <1>1, <1>2 DEF Quiet
<1>4. HostOk(host', svc')
  BY <1>1, <1>2, <1>3 DEF HostOk
<1> QED BY <1>1, <1>3, <1>4, QuietCall

LEMMA HideViewKeeps ==
  ASSUME IInv, HideView
  PROVE  IInv'
<1>1. /\ MayEnter /\ svc' = [svc EXCEPT !.visible = FALSE]
      /\ host' = [host EXCEPT !.missed = FALSE, !.starts = @ + 1]
      /\ session' = InvalidatePrediction /\ UNCHANGED <<loader, disk, stack>>
  BY DEF HideView
<1>2. DOMAIN svc = ServiceFields /\ HostOk(host, svc) /\ DOMAIN host = HostFields
  BY DEF IInv, ServiceOk, HostOk
<1>3. Quiet(svc, svc') /\ svc'.pinyin = svc.pinyin /\ svc'.owns = svc.owns
  BY <1>1, <1>2 DEF Quiet
<1>4. DOMAIN host' = HostFields /\ host'.reports = host.reports /\ host'.composing = host.composing
  BY <1>1, <1>2
<1>5. HostOk(host', svc')
  BY <1>2, <1>3, <1>4 DEF HostOk, LastReport
<1> QED BY <1>1, <1>3, <1>4, <1>5, QuietCall

\* The last of what follows the first is the last.
LEMMA LastOfTail ==
  ASSUME NEW q, IsSeq(q), q # <<>>
  PROVE  /\ IsSeq(Tail(q)) /\ Len(q) \in Nat \ {0} /\ Head(q) = q[1]
         /\ Tail(q) # <<>> => Tail(q)[Len(Tail(q))] = q[Len(q)]
         /\ Tail(q) = <<>> => Len(q) = 1
<1> DEFINE t == Tail(q)
<1>1. /\ IsSeq(t) /\ Len(q) \in Nat /\ Len(q) > 0 /\ Len(t) = Len(q) - 1 /\ Head(q) = q[1]
      /\ \A k \in 1..(Len(q) - 1) : t[k] = q[k + 1]
  BY DomainOf, TailOf
<1>2. t = <<>> <=> Len(t) = 0
  BY <1>1, DomainOf
<1> HIDE DEF t
<1>3. t # <<>> => t[Len(t)] = q[Len(q)]
  BY <1>1, <1>2
<1>4. t = <<>> => Len(q) = 1
  BY <1>1, <1>2
<1> USE DEF t
<1> QED BY <1>1, <1>3, <1>4

LEMMA UpdateSelectionKeeps ==
  ASSUME IInv, UpdateSelection
  PROVE  IInv'
<1> DEFINE report == Head(host.reports)
           seen == [svc EXCEPT !.selected = report.selected]
           v == NextEpoch(Abandoned(Invalidated(seen)))
<1>1. MayEnter /\ host.reports # <<>> /\ UNCHANGED <<loader, disk, stack>>
  BY DEF UpdateSelection
<1>2. /\ DOMAIN svc = ServiceFields /\ svc.owns \in BOOLEAN /\ (svc.owns => svc.active)
      /\ DOMAIN host = HostFields /\ IsSeq(host.reports) /\ HostOk(host, svc)
      /\ svc.conn # {} => \E e \in svc.conn : svc.conn = {e}
  BY DEF IInv, ServiceOk, HostOk
<1>3. /\ DOMAIN host' = HostFields /\ host'.reports = Tail(host.reports)
      /\ \/ Reattach(v)
         \/ /\ ~(svc.active /\ Discards(report)) /\ svc' = seen
            /\ session' = session \/ session' = InvalidatePrediction
            /\ host'.composing = host.composing
  <2> DEFINE taken == [host EXCEPT !.reports = Tail(@)]
  <2>1. /\ DOMAIN taken = HostFields /\ taken.reports = Tail(host.reports)
        /\ taken.composing = host.composing
    BY <1>2
  <2>2. \/ ~svc.active /\ svc' = seen /\ host' = taken /\ UNCHANGED session
        \/ \E b \in BOOLEAN :
             /\ host' = [taken EXCEPT !.composing = FALSE, !.missed = b] /\ Reattach(v)
        \/ \E b :
             /\ ~Discards(report) /\ host' = [taken EXCEPT !.missed = b] /\ svc' = seen
             /\ session' = session \/ session' = InvalidatePrediction
    BY Zenon DEF UpdateSelection
  <2> HIDE DEF taken, v, seen, report
  <2> QED BY <2>1, <2>2
<1>4. IsSeq(host'.reports)
  BY <1>1, <1>2, <1>3, LastOfTail
<1>5. CASE Reattach(v)
  <2>1. /\ DOMAIN v = ServiceFields /\ v.epoch = svc.epoch + 1 /\ v.queue = <<>>
        /\ v.generation = svc.generation + 1 /\ v.draining = svc.draining
        /\ v.runtime = svc.runtime /\ ~v.owns /\ v.owns \in BOOLEAN
        /\ v.conn = svc.conn /\ v.active = svc.active
    BY <1>2 DEF NextEpoch, Invalidated, Abandoned
  <2> HIDE DEF v
  <2> QED BY <1>1, <1>2, <1>3, <1>4, <1>5, <2>1, ReattachCall
<1>6. CASE ~Reattach(v)
  <2>1. /\ svc' = seen /\ ~(svc.active /\ Discards(report))
        /\ session' = session \/ session' = InvalidatePrediction
        /\ host'.composing = host.composing
    BY <1>3, <1>6
  <2>2. Quiet(svc, svc') /\ svc'.pinyin = svc.pinyin /\ svc'.owns = svc.owns
    BY <1>2, <2>1 DEF Quiet
  <2>3. HostOk(host', svc')
    <3> SUFFICES ASSUME svc.owns, ~host.composing
                 PROVE  host'.reports # <<>> /\ ~LastReport(host').composing
      BY <1>3, <1>4, <2>1, <2>2 DEF HostOk
    <3>1. ~LastReport(host).composing
      BY <1>2 DEF HostOk
    <3>2. report.composing
      BY <1>2, <2>1 DEF Discards
    <3>3. /\ Tail(host.reports) # <<>> =>
               Tail(host.reports)[Len(Tail(host.reports))] = host.reports[Len(host.reports)]
          /\ Tail(host.reports) = <<>> => host.reports[Len(host.reports)] = report
      BY <1>1, <1>2, LastOfTail
    <3> HIDE DEF report
    <3> QED BY <1>3, <3>1, <3>2, <3>3 DEF LastReport
  <2> QED BY <1>1, <2>1, <2>2, <2>3, QuietCall
<1> QED BY <1>5, <1>6

LEMMA OthersEditKeeps ==
  ASSUME IInv, NEW text, NEW selected, NEW composing, OthersEdit(text, selected, composing)
  PROVE  IInv'
<1> DEFINE h == [host EXCEPT !.text = text, !.selected = selected, !.composing = composing,
                             !.calls = @ + 1]
<1>1. /\ stack = <<>> /\ host' = Reported(h, FALSE)
      /\ UNCHANGED <<session, svc, loader, disk, stack>>
  BY DEF OthersEdit
<1>2. DOMAIN h = HostFields /\ IsSeq(h.reports)
  BY DEF IInv, HostOk
<1> HIDE DEF h
<1>3. \A own : HostOk(Reported(h, own), svc')
  BY <1>2, ReportedEffect
<1>4. HostOk(host', svc')
  <2>1. PICK own : host' = Reported(h, own)
    BY <1>1
  <2> QED BY <1>3, <2>1
<1>5. ServiceOk(svc', session') /\ SessionOk(session', svc') /\ Carried(stack, svc', session')
  BY <1>1 DEF IInv
<1>6. Stays(session, svc, session', svc')
  BY <1>1, NothingStays DEF IInv, ServiceOk, SessionOk, InUse, Good, Shape
<1>7. MayEnter
  BY <1>1 DEF MayEnter
<1> QED BY <1>1, <1>4, <1>5, <1>6, <1>7, CallKeeps

LEMMA AppendOf ==
  ASSUME NEW q, IsSeq(q), NEW a
  PROVE  LET r == Append(q, a)
         IN /\ IsSeq(r) /\ Len(r) = Len(q) + 1 /\ Len(q) \in Nat /\ r # <<>> /\ r[Len(r)] = a
            /\ DOMAIN r = 1..(Len(q) + 1) /\ r[Len(q) + 1] = a
            /\ \A i \in 1..Len(q) : r[i] = q[i]
<1>1. PICK S : q \in Seq(S)
  BY DEF IsSeq
<1> DEFINE r == Append(q, a)
<1>2. r \in Seq(S \cup {a}) /\ Len(q) \in Nat /\ Len(r) = Len(q) + 1
  BY <1>1
<1>3. r[Len(q) + 1] = a /\ \A i \in 1..Len(q) : r[i] = q[i]
  BY <1>1
<1>4. IsSeq(r)
  BY <1>2 DEF IsSeq
<1> HIDE DEF r
<1>5. r # <<>> /\ DOMAIN r = 1..(Len(q) + 1)
  BY <1>2, <1>4, DomainOf
<1> QED BY <1>2, <1>3, <1>4, <1>5 DEF r

LEMMA DispatchRequestKeeps ==
  ASSUME IInv, NEW request, DispatchRequest(request)
  PROVE  IInv'
<1> DEFINE entry == [generation |-> svc.generation, request |-> request, epoch |-> svc.epoch]
           item == [do |-> "Drain"]
           g == Frame(<<item>>)
<1>1. /\ MayEnter /\ host' = [host EXCEPT !.calls = @ + 1]
      /\ UNCHANGED <<session, loader, disk>>
  BY DEF DispatchRequest
<1>2. /\ StackOk(stack, svc, session, host) /\ ServiceOk(svc, session) /\ SessionOk(session, svc)
      /\ HostOk(host, svc) /\ Carried(stack, svc, session)
  BY DEF IInv
<1>3. /\ DOMAIN host' = HostFields /\ host'.reports = host.reports
      /\ host'.composing = host.composing
  BY <1>1, <1>2 DEF HostOk
<1>4. /\ DOMAIN svc = ServiceFields /\ svc.epoch \in Nat /\ svc.generation \in Nat
      /\ QueueOk(svc) /\ IsSeq(stack) /\ OneDrain(stack)
  BY <1>2 DEF ServiceOk, StackOk
<1>5. CASE Len(svc.queue) >= Capacity
  <2>1. UNCHANGED <<svc, stack>>
    BY <1>5 DEF DispatchRequest
  <2>2. Quiet(svc, svc') /\ svc'.pinyin = svc.pinyin /\ svc'.owns = svc.owns
    BY <1>4, <2>1 DEF Quiet
  <2>3. HostOk(host', svc')
    BY <1>2, <1>3, <2>1 DEF HostOk, LastReport
  <2> QED BY <1>1, <1>3, <2>1, <2>2, <2>3, QuietCall
<1>6. CASE ~(Len(svc.queue) >= Capacity)
  <2>1. /\ svc' = [svc EXCEPT !.draining = TRUE, !.queue = Append(@, entry)]
        /\ stack' = IF svc.draining THEN stack ELSE <<g>> \o stack
    BY <1>6 DEF DispatchRequest
  <2>2. /\ DOMAIN svc' = ServiceFields /\ svc'.draining /\ svc'.queue = Append(svc.queue, entry)
        /\ \A f \in ServiceFields \ {"draining", "queue"} : svc'[f] = svc[f]
    BY <1>4, <2>1
  <2>3. QueueOk(svc')
    <3>1. entry.generation = svc.generation /\ entry.epoch = svc.epoch
      OBVIOUS
    <3> HIDE DEF entry
    <3> DEFINE q == svc.queue  r == Append(q, entry)
    <3>2. /\ IsSeq(r) /\ DOMAIN r = 1..(Len(q) + 1) /\ r[Len(q) + 1] = entry
          /\ \A i \in 1..Len(q) : r[i] = q[i]
      BY <1>4, AppendOf DEF QueueOk
    <3>3. Len(q) \in Nat /\ DOMAIN q = 1..Len(q)
      BY <1>4, DomainOf DEF QueueOk
    <3>4. svc'.queue = r
      BY <2>2
    <3> HIDE DEF r
    <3>5. \A i \in DOMAIN r : (i \in DOMAIN q /\ r[i] = q[i]) \/ r[i] = entry
      BY <3>2, <3>3
    <3> QED BY <1>4, <2>2, <3>1, <3>2, <3>4, <3>5 DEF QueueOk
  <2>4. LoaderOk(svc)' /\ HostOk(host', svc') /\ SessionOk(session', svc') /\ ServiceOk(svc', session')
    <3>1. LoaderOk(svc)'
      BY <1>1, <2>2, LoaderStays DEF IInv
    <3>2. HostOk(host', svc')
      BY <1>2, <1>3, <2>2 DEF HostOk, LastReport
    <3>3. SessionOk(session', svc')
      BY <1>1, <1>2, <2>2 DEF SessionOk, InUse
    <3>4. ServiceOk(svc', session')
      BY <1>1, <1>2, <2>2, <2>3 DEF ServiceOk
    <3> QED BY <3>1, <3>2, <3>3, <3>4
  <2>5. Stays(session, svc, session', svc')
    BY <1>1, <1>2, <1>4, <2>2 DEF Stays, SessionOk, InUse, Good, Shape
  <2>6. Carried(stack, svc', session')
    BY <1>1, <1>2, <2>2 DEF Carried, SameAs, Mute
  <2>7. CASE svc.draining
    <3>1. stack' = stack
      BY <2>1, <2>7
    <3>2. StackOk(stack, svc', session', host')
      <4>1. stack # <<>> /\ Composed(Now) /\ SameAs(Top, svc') => host'.composing
        <5> SUFFICES ASSUME stack # <<>>, Composed(Now), SameAs(Top, svc')
                     PROVE  host'.composing
          OBVIOUS
        <5>1. SameAs(Top, svc)
          BY <2>2 DEF SameAs
        <5>2. Now.do = "Edit"
          BY DEF Composed
        <5> QED BY <1>3, <5>1, <5>2, RunningEdit
      <4>2. svc'.draining = svc.draining
        BY <2>1, <2>7, <1>4
      <4> QED BY <1>1, <1>2, <2>5, <4>1, <4>2, StaysPut
    <3> QED BY <2>4, <2>6, <3>1, <3>2 DEF IInv
  <2>8. CASE ~svc.draining
    <3>1. stack' = <<g>> \o stack
      BY <2>1, <2>8
    <3>2. /\ DOMAIN g = FrameFields /\ g.todo = <<item>> /\ g.epoch = svc.epoch
          /\ g.conn = svc.conn /\ item.do = "Drain"
      BY DEF Frame
    <3> HIDE DEF item, g
    <3>3. IsSeq(g.todo) /\ g.todo # <<>> /\ Head(g.todo) = item /\ Tail(g.todo) = <<>>
      BY <3>2, OneLeft
    <3>4. FrameOk(g, svc', session')
      BY <1>4, <2>2, <3>2, <3>3, LaterOf DEF FrameOk, IsDrain
    <3>5. TopOk(g, svc', session', host')
      BY <1>4, <2>2, <3>2, <3>3 DEF TopOk, Composed
    <3>6. ASSUME NEW q \in FramesOf(stack)
          PROVE  FrameOk(q, svc', session') /\ WaitsBelow(q) /\ ~IsDrain(q)
      <4>1. FrameOk(q, svc, session) /\ ~IsDrain(q)
        BY <1>2, <2>8, <3>6 DEF StackOk, FrameOk
      <4>2. FrameOk(q, svc', session')
        BY <2>5, <4>1, FrameStays
      <4>3. stack # <<>>
        BY <3>6, EmptySequence, DomainOf DEF FramesOf
      <4>4. CASE q \in Below(stack)
        BY <1>2, <4>1, <4>2, <4>4 DEF StackOk
      <4>5. CASE q = Top
        <5>1. OfRuntime(Top)
          BY <1>2, <2>8, <4>3, TopFrame DEF TopOk
        <5>2. Now.do \in {"Edit", "Direct"}
          BY <1>1, <4>3 DEF MayEnter, HostHas
        <5> QED BY <4>1, <4>2, <4>5, <5>1, <5>2 DEF WaitsBelow, OfRuntime, Now
      <4> QED BY <1>4, <3>6, <4>3, <4>4, <4>5, StackOf DEF Top
    <3>7. StackOk(stack', svc', session', host') /\ FramesOf(stack') = {g} \cup FramesOf(stack)
      BY <1>4, <3>1, <3>4, <3>5, <3>6, Pushes
    <3>8. Carried(stack', svc', session')
      BY <2>6, <3>7 DEF Carried
    <3> QED BY <2>4, <3>7, <3>8 DEF IInv
  <2> QED BY <2>7, <2>8
<1> QED BY <1>5, <1>6

-----------------------------------------------------------------------------
(* Runtimes. *)

\* The loader works between two callbacks.
LEMMA LoaderKeeps ==
  ASSUME IInv, stack = <<>>, UNCHANGED <<session, svc, stack>>,
         DOMAIN host' = HostFields, host'.reports = host.reports,
         host'.composing = host.composing, LoaderOk(svc)'
  PROVE  IInv'
<1>1. HostOk(host', svc')
  BY DEF IInv, HostOk, LastReport
<1>2. IsSeq(stack') /\ FramesOf(stack') = {} /\ Below(stack') = {} /\ DOMAIN stack' = {}
  BY EmptySequence, DomainOf DEF FramesOf, Below
<1>3. StackOk(stack', svc', session', host')
  BY <1>2 DEF StackOk, OneDrain
<1> QED BY <1>1, <1>3 DEF IInv

LEMMA SavesConfigKeeps ==
  ASSUME IInv, SavesConfig
  PROVE  IInv'
<1>1. /\ stack = <<>> /\ disk + 1 \in DOMAIN Runtimes /\ disk' = disk + 1
      /\ host' = [host EXCEPT !.calls = @ + 1] /\ loader' = [loader EXCEPT !.saved = TRUE]
      /\ UNCHANGED <<session, svc, stack>>
  BY DEF SavesConfig
<1>2. LoaderOk(svc) /\ DOMAIN host = HostFields
  BY DEF IInv, HostOk
<1>3. /\ DOMAIN loader' = LoaderFields /\ loader'.saved
      /\ \A f \in LoaderFields \ {"saved"} : loader'[f] = loader[f]
  BY <1>1, <1>2 DEF LoaderOk
<1>4. disk \in Nat \ {0} /\ 1..disk \subseteq DOMAIN Runtimes
  BY <1>2 DEF LoaderOk
<1>5. disk' \in Nat \ {0} /\ 1..disk' \subseteq DOMAIN Runtimes /\ 1..disk \subseteq 1..disk'
  BY <1>1, <1>4
<1>6. BuiltOk(svc)'
  BY <1>1, <1>2, <1>3, <1>5 DEF LoaderOk, BuiltOk
<1>7. NewestArrives(svc)'
  BY <1>1, <1>2, <1>3 DEF LoaderOk, NewestArrives, LastJob, LastBuilt
<1>8. LoaderOk(svc)'
  BY <1>1, <1>2, <1>3, <1>5, <1>6, <1>7 DEF LoaderOk
<1>9. DOMAIN host' = HostFields /\ host'.reports = host.reports /\ host'.composing = host.composing
  BY <1>1, <1>2
<1> QED BY <1>1, <1>8, <1>9, LoaderKeeps

LEMMA LoadRuntimeKeeps ==
  ASSUME IInv, LoadRuntime
  PROVE  IInv'
<1> DEFINE jobs == Append(loader.jobs, loader.ticket + 1)
<1>1. /\ stack = <<>> /\ UNCHANGED <<session, svc, host, disk, stack>>
      /\ loader' = [loader EXCEPT !.ticket = @ + 1, !.jobs = jobs, !.saved = FALSE]
  BY DEF LoadRuntime
<1>2. LoaderOk(svc) /\ DOMAIN host = HostFields
  BY DEF IInv, HostOk
<1>3. IsSeq(jobs) /\ jobs # <<>> /\ jobs[Len(jobs)] = loader.ticket + 1
  BY <1>2, AppendOf DEF LoaderOk
<1> HIDE DEF jobs
<1>4. /\ DOMAIN loader' = LoaderFields /\ loader'.ticket = loader.ticket + 1
      /\ loader'.jobs = jobs /\ loader'.built = loader.built
  BY <1>1, <1>2 DEF LoaderOk
<1>5. BuiltOk(svc)'
  BY <1>1, <1>2, <1>4 DEF LoaderOk, BuiltOk
<1>6. NewestArrives(svc)'
  BY <1>3, <1>4 DEF NewestArrives, LastJob
<1>7. LoaderOk(svc)'
  BY <1>1, <1>2, <1>3, <1>4, <1>5, <1>6 DEF LoaderOk
<1> QED BY <1>1, <1>2, <1>7, LoaderKeeps

LEMMA BuildKeeps ==
  ASSUME IInv, Build
  PROVE  IInv'
<1>1. /\ stack = <<>> /\ loader.jobs # <<>> /\ UNCHANGED <<session, svc, host, disk, stack>>
  BY DEF Build
<1>2. PICK made \in {{disk}, {}} :
        loader' = [loader EXCEPT !.jobs = Tail(@), !.failed = (made = {}),
                     !.built = Append(@, [ticket |-> Head(loader.jobs), made |-> made])]
  BY DEF Build
<1>3. LoaderOk(svc) /\ DOMAIN host = HostFields
  BY DEF IInv, HostOk
<1> DEFINE result == [ticket |-> Head(loader.jobs), made |-> made]
           built == Append(loader.built, result)
           n == Len(loader.built)
<1>4. result.ticket = Head(loader.jobs) /\ result.made = made
  OBVIOUS
<1> HIDE DEF result
<1>5. /\ DOMAIN loader' = LoaderFields /\ loader'.ticket = loader.ticket
      /\ loader'.jobs = Tail(loader.jobs) /\ loader'.built = built
      /\ loader'.saved = loader.saved /\ loader'.failed = (made = {})
  BY <1>2, <1>3 DEF LoaderOk, result
<1>6. /\ IsSeq(built) /\ built # <<>> /\ built[Len(built)] = result
      /\ n \in Nat /\ DOMAIN built = 1..(n + 1) /\ built[n + 1] = result
      /\ \A i \in 1..n : built[i] = loader.built[i]
  BY <1>3, AppendOf DEF LoaderOk
<1>7. DOMAIN loader.built = 1..n
  BY <1>3, DomainOf DEF LoaderOk
<1> HIDE DEF built, n
<1>8. /\ IsSeq(Tail(loader.jobs)) /\ Head(loader.jobs) = loader.jobs[1]
      /\ Tail(loader.jobs) # <<>> => Tail(loader.jobs)[Len(Tail(loader.jobs))] = LastJob
      /\ Tail(loader.jobs) = <<>> => Head(loader.jobs) = LastJob
  BY <1>1, <1>3, LastOfTail DEF LoaderOk, LastJob
<1>9. LastJob = loader.ticket
  BY <1>1, <1>3 DEF LoaderOk, NewestArrives
<1>10. /\ disk \in Nat \ {0} /\ made \in {{disk}, {}}
       /\ \A k \in svc.runtime : k \in Nat /\ k <= disk
  BY <1>3 DEF LoaderOk
<1>11. ASSUME NEW i \in DOMAIN built, built[i].made # {}
       PROVE  \E m \in 1..disk :
                /\ built[i].made = {m} /\ \A k \in svc.runtime : k <= m
                /\ \A j \in DOMAIN built : j > i => \A k \in built[j].made : m <= k
  <2>1. CASE i = n + 1
    <3>1. built[i].made = {disk} /\ \A j \in DOMAIN built : ~(j > i)
      <4>1. built[i].made = made
        BY <1>4, <1>6, <2>1
      <4>2. \A j \in 1..(n + 1) : ~(j > n + 1)
        BY <1>6
      <4> QED BY <1>6, <1>10, <1>11, <2>1, <4>1, <4>2
    <3> QED BY <1>10, <3>1
  <2>2. CASE i # n + 1
    <3>1. i \in 1..n /\ built[i] = loader.built[i]
      BY <1>6, <2>2
    <3>2. PICK m \in 1..disk :
            /\ built[i].made = {m} /\ \A k \in svc.runtime : k <= m
            /\ \A j \in 1..n : j > i => \A k \in loader.built[j].made : m <= k
      BY <1>3, <1>7, <1>11, <3>1 DEF LoaderOk, BuiltOk
    <3>3. ASSUME NEW j \in DOMAIN built, j > i, NEW k \in built[j].made
          PROVE  m <= k
      <4>1. CASE j \in 1..n
        BY <1>6, <3>2, <3>3, <4>1
      <4>2. CASE j = n + 1
        <5>1. k = disk
          BY <1>4, <1>6, <1>10, <3>3, <4>2
        <5> QED BY <5>1
      <4> QED BY <1>6, <4>1, <4>2
    <3> QED BY <3>2, <3>3
  <2> QED BY <2>1, <2>2
<1>12. BuiltOk(svc)'
  BY <1>1, <1>5, <1>11 DEF BuiltOk
<1>13. NewestArrives(svc)'
  <2>1. loader'.jobs # <<>> => LastJob' = loader'.ticket
    BY <1>5, <1>8, <1>9 DEF LastJob
  <2>2. LastBuilt' = result
    BY <1>5, <1>6 DEF LastBuilt
  <2>3. loader'.jobs = <<>> => LastBuilt'.ticket = loader'.ticket
    BY <1>4, <1>5, <1>8, <1>9, <2>2
  <2>4. ~loader'.failed => LastBuilt'.made = {disk'}
    BY <1>1, <1>4, <1>5, <1>10, <2>2
  <2> QED BY <1>5, <1>6, <2>1, <2>3, <2>4 DEF NewestArrives
<1>14. LoaderOk(svc)'
  BY <1>1, <1>3, <1>5, <1>6, <1>8, <1>12, <1>13 DEF LoaderOk
<1> QED BY <1>1, <1>3, <1>14, LoaderKeeps

\* What is left on its way once the first has arrived, for the service's fields w.
LEMMA Arrives ==
  ASSUME LoaderOk(svc), loader.built # <<>>, disk' = disk,
         loader' = [loader EXCEPT !.built = Tail(@)],
         \/ svc'.runtime = Head(loader.built).made /\ svc'.runtime # {}
         \/ /\ svc'.runtime = svc.runtime
            /\ Head(loader.built).made = {} \/ Head(loader.built).ticket # loader.ticket
  PROVE  LoaderOk(svc)'
<1> DEFINE built == loader.built  left == Tail(built)  result == Head(built)
<1>1. /\ DOMAIN loader' = LoaderFields /\ loader'.built = left
      /\ \A f \in LoaderFields \ {"built"} : loader'[f] = loader[f]
  BY DEF LoaderOk
<1>2. /\ IsSeq(left) /\ Len(built) \in Nat \ {0} /\ result = built[1]
      /\ left # <<>> => left[Len(left)] = LastBuilt
      /\ left = <<>> => result = LastBuilt
  BY LastOfTail DEF LoaderOk, LastBuilt
<1>3. /\ DOMAIN built = 1..Len(built) /\ DOMAIN left = 1..(Len(built) - 1)
      /\ \A k \in 1..(Len(built) - 1) : left[k] = built[k + 1]
  BY <1>2, DomainOf, TailOf DEF LoaderOk
<1>4. disk \in Nat \ {0} /\ (svc.runtime # {} => \E n \in 1..disk : svc.runtime = {n})
  BY DEF LoaderOk
<1>5. result.made # {} =>
        \E m \in 1..disk :
          /\ result.made = {m} /\ \A n \in svc.runtime : n <= m
          /\ \A j \in DOMAIN left : \A k \in left[j].made : m <= k
  <2> SUFFICES ASSUME result.made # {}
               PROVE  \E m \in 1..disk :
                        /\ result.made = {m} /\ \A n \in svc.runtime : n <= m
                        /\ \A j \in DOMAIN left : \A k \in left[j].made : m <= k
    OBVIOUS
  <2>1. 1 \in DOMAIN built
    BY <1>2, <1>3
  <2>2. PICK m \in 1..disk :
          /\ result.made = {m} /\ \A n \in svc.runtime : n <= m
          /\ \A j \in DOMAIN built : j > 1 => \A k \in built[j].made : m <= k
    BY <1>2, <2>1 DEF LoaderOk, BuiltOk
  <2>3. \A j \in DOMAIN left : j + 1 \in DOMAIN built /\ j + 1 > 1 /\ left[j] = built[j + 1]
    BY <1>2, <1>3
  <2> HIDE DEF left, result, built
  <2> QED BY <2>2, <2>3
<1>6. svc'.runtime # {} => \E n \in 1..disk : svc'.runtime = {n}
  BY <1>4, <1>5
<1>7. ASSUME NEW i \in DOMAIN left, left[i].made # {}
      PROVE  \E m \in 1..disk :
               /\ left[i].made = {m} /\ \A n \in svc'.runtime : n <= m
               /\ \A j \in DOMAIN left : j > i => \A k \in left[j].made : m <= k
  <2>1. i + 1 \in DOMAIN built /\ left[i] = built[i + 1]
    BY <1>2, <1>3
  <2>2. PICK m \in 1..disk :
          /\ left[i].made = {m} /\ \A n \in svc.runtime : n <= m
          /\ \A j \in DOMAIN built : j > i + 1 => \A k \in built[j].made : m <= k
    BY <1>7, <2>1 DEF LoaderOk, BuiltOk
  <2>3. \A j \in DOMAIN left : j > i =>
          j + 1 \in DOMAIN built /\ j + 1 > i + 1 /\ left[j] = built[j + 1]
    <3>1. \A j \in DOMAIN left : j \in Nat /\ j + 1 \in DOMAIN built /\ left[j] = built[j + 1]
      BY <1>2, <1>3
    <3> HIDE DEF left, built
    <3>2. i \in Nat
      BY <3>1
    <3> QED BY <3>1, <3>2
  <2>4. \A n \in svc'.runtime : n <= m
    <3>1. CASE svc'.runtime = svc.runtime
      BY <2>2, <3>1
    <3>2. CASE svc'.runtime = result.made
      BY <1>5, <1>7, <2>2, <3>2
    <3> QED BY <3>1, <3>2
  <2> HIDE DEF left, built
  <2> QED BY <2>2, <2>3, <2>4
<1>8. BuiltOk(svc)'
  <2> HIDE DEF left, result
  <2>1. loader'.built = left /\ disk' = disk
    BY <1>1
  <2> SUFFICES ASSUME NEW i \in DOMAIN left, left[i].made # {}
               PROVE  \E m \in 1..disk :
                        /\ left[i].made = {m} /\ \A n \in svc'.runtime : n <= m
                        /\ \A j \in DOMAIN left : j > i => \A k \in left[j].made : m <= k
    BY <2>1 DEF BuiltOk
  <2> QED BY <1>7
<1>9. NewestArrives(svc)'
  <2>1. NewestArrives(svc)
    BY DEF LoaderOk
  <2>2. LastJob' = LastJob
    BY <1>1 DEF LastJob
  <2>3. left # <<>> => LastBuilt' = LastBuilt
    BY <1>1, <1>2 DEF LastBuilt
  <2>4. left = <<>> /\ loader.jobs = <<>> => result.ticket = loader.ticket
    BY <1>2, <2>1 DEF NewestArrives
  <2>5. left = <<>> /\ loader.jobs = <<>> /\ ~loader.saved /\ ~loader.failed =>
          result.made = {disk} /\ svc'.runtime = {disk}
    BY <1>2, <2>1, <2>4 DEF NewestArrives
  <2> QED BY <1>1, <2>1, <2>2, <2>3, <2>5 DEF NewestArrives
<1> QED BY <1>1, <1>2, <1>6, <1>8, <1>9 DEF LoaderOk

\* A stack without frames, and one with the edit of a new runtime.
LEMMA EmptyStack ==
  ASSUME NEW v, NEW S, NEW h
  PROVE  StackOk(<<>>, v, S, h) /\ FramesOf(<<>>) = {}
<1>1. IsSeq(<<>>) /\ FramesOf(<<>>) = {} /\ Below(<<>>) = {} /\ DOMAIN <<>> = {}
  BY EmptySequence, DomainOf DEF FramesOf, Below
<1> QED BY <1>1 DEF StackOk, OneDrain

\* The runtime is given to the session in use, which keeps its preedit until the plan that
\* ends it is applied.
LEMMA RuntimeInUse ==
  ASSUME NEW x, NEW n, NEW v, InUse(x, n, v), NEW m \in DOMAIN Runtimes,
         n \in Nat, m \in Nat, n <= m, NEW w, w.owns = v.owns
  PROVE  LET y == ApplyRuntime(x, m)
         IN /\ InUse(y, m, w) /\ Good(x) /\ Advances(x, y)
            /\ \A p \in y.pending : p \in x.pending \/ ~Composing(p.op)
<1> DEFINE y == ApplyRuntime(x, m)
<1>1. Good(x) /\ Deferral(x, n) /\ ~x.closed /\ x.cleanup = {}
  BY DEF InUse
<1>2. Good(y) /\ Advances(x, y) /\ Taken(x, y, m) /\ KeepsCleanup(x, y) /\ Silent(x, y)
  BY <1>1, ApplyGood
<1> HIDE DEF y
<1>3. Moves(x, y, IF m > n THEN m ELSE n)
  BY <1>1, <1>2, OfferMoves
<1>4. Deferral(y, m)
  <2>1. (IF m > n THEN m ELSE n) = m
    OBVIOUS
  <2> QED BY <1>3, <2>1 DEF Moves
<1>5. InUse(y, m, w)
  <2>1. x.pending # {} => x.context.owns \/ y.pending # {}
    BY <1>2, TouchProfile DEF Taken
  <2> QED BY <1>1, <1>2, <1>4, <2>1 DEF InUse, Taken, KeepsCleanup
<1>6. /\ InUse(y, m, w) /\ Good(x) /\ Advances(x, y)
      /\ \A p \in y.pending : p \in x.pending \/ ~Composing(p.op)
  BY <1>1, <1>2, <1>5 DEF Silent
<1> USE DEF y
<1> QED BY <1>6

LEMMA LoadKeeps ==
  ASSUME IInv, Load
  PROVE  IInv'
<1> DEFINE result == Head(loader.built)
           v == [svc EXCEPT !.runtime = result.made, !.pinyin = "Off"]
           y == ApplyRuntime(s, The(result.made))
           stale == result.made = {} \/ ~Accepts(result.ticket)
<1>1. /\ stack = <<>> /\ loader.built # <<>> /\ loader' = [loader EXCEPT !.built = Tail(@)]
      /\ UNCHANGED <<host, disk>>
  BY DEF Load
<1>2. LoaderOk(svc) /\ ServiceOk(svc, session) /\ SessionOk(session, svc) /\ HostOk(host, svc)
  BY DEF IInv
<1>3. DOMAIN svc = ServiceFields /\ svc.owns \in BOOLEAN /\ svc.epoch \in Nat /\ (svc.owns => svc.active)
  BY <1>2 DEF ServiceOk
<1>4. ~Mute(svc) => \A x \in session : x.pending = {}
  <2>1. FramesOf(stack) = {}
    BY <1>1, EmptyStack
  <2> QED BY <2>1 DEF IInv, Carried
<1>5. CASE stale
  <2>1. UNCHANGED <<session, svc, stack>>
    BY <1>5 DEF Load
  <2>2. LoaderOk(svc)'
    BY <1>1, <1>2, <1>5, <2>1, Arrives DEF Accepts
  <2> QED BY <1>1, <1>2, <2>1, <2>2, LoaderKeeps DEF HostOk
<1>6. CASE ~stale
  <2>1. /\ DOMAIN v = ServiceFields /\ v.runtime = result.made /\ v.pinyin = "Off"
        /\ \A f \in ServiceFields \ {"runtime", "pinyin"} : v[f] = svc[f]
    BY <1>3
  <2>2. PICK m \in 1..disk : result.made = {m} /\ \A n \in svc.runtime : n <= m
    <3>1. 1 \in DOMAIN loader.built /\ result = loader.built[1]
      BY <1>1, <1>2, StepsLeft DEF LoaderOk
    <3> QED BY <1>2, <1>6, <3>1 DEF LoaderOk, BuiltOk
  <2>3. m \in DOMAIN Runtimes /\ m \in Nat /\ The(result.made) = m /\ The(v.runtime) = m
    BY <1>2, <2>1, <2>2 DEF LoaderOk, The
  <2> HIDE DEF v
  <2>4. CASE session = {} \/ ~svc.active
    <3>1. /\ svc' = Attached(v) /\ UNCHANGED stack
          /\ session' = IF Attaches(v) THEN CreateSession(m, HostContext(v)) ELSE {}
      BY <1>6, <2>3, <2>4 DEF Load, v
    <3>2. /\ DOMAIN svc' = ServiceFields /\ svc'.runtime = {m} /\ svc'.pinyin = "Off"
          /\ \A f \in ServiceFields \ {"runtime", "pinyin", "owns"} : svc'[f] = svc[f]
          /\ ~svc'.owns /\ svc'.owns \in BOOLEAN
      <4>1. CASE Attaches(v)
        <5>1. svc' = [v EXCEPT !.pinyin = "Off", !.owns = FALSE]
          BY <2>1, <3>1, <4>1 DEF Attached, Abandoned
        <5> QED BY <2>1, <2>2, <5>1
      <4>2. CASE ~Attaches(v)
        <5>1. svc' = [v EXCEPT !.pinyin = "Off"]
          BY <2>1, <3>1, <4>2 DEF Attached
        <5>2. ~v.owns /\ v.owns \in BOOLEAN
          BY <1>3, <2>1, <2>2, <4>2 DEF Attaches
        <5> QED BY <2>1, <2>2, <5>1, <5>2
      <4> QED BY <4>1, <4>2
    <3>3. ~svc'.owns
      BY <3>2
    <3>4. LoaderOk(svc)'
      BY <1>1, <1>2, <2>2, <3>2, Arrives
    <3>5. SessionOk(session', svc') /\ \A z \in session' : z.pending = {}
      <4>1. CASE ~Attaches(v)
        BY <3>1, <4>1 DEF SessionOk
      <4>2. CASE Attaches(v)
        <5> DEFINE z == NewSession(m, HostContext(v))
        <5>1. InUse(z, m, svc') /\ z.pending = {}
          BY <2>3, <3>3, HostContextShape, NewInUse
        <5>2. session' = {z}
          BY <3>1, <4>2 DEF CreateSession
        <5> HIDE DEF z
        <5>3. m \in svc'.runtime /\ svc'.runtime = {m}
          BY <3>2
        <5> QED BY <5>1, <5>2, <5>3 DEF SessionOk
      <4> QED BY <4>1, <4>2
    <3>6. ServiceOk(svc', session')
      <4>1. /\ svc'.epoch = svc.epoch /\ svc'.generation = svc.generation /\ svc'.conn = svc.conn
            /\ svc'.active = svc.active /\ svc'.queue = svc.queue /\ svc'.owns \in BOOLEAN
        BY <3>2
      <4>2. QueueOk(svc')
        BY <1>2, <4>1 DEF ServiceOk, QueueOk
      <4> QED BY <1>2, <3>2, <4>1, <4>2 DEF ServiceOk, Latches
    <3>7. HostOk(host', svc')
      BY <1>1, <1>2, <3>3 DEF HostOk
    <3>8. StackOk(stack', svc', session', host') /\ Carried(stack', svc', session')
      BY <1>1, <3>1, <3>5, EmptyStack DEF Carried
    <3> QED BY <3>4, <3>5, <3>6, <3>7, <3>8 DEF IInv
  <2>5. CASE ~(session = {} \/ ~svc.active)
    <3>1. /\ svc' = v /\ session' = {y}
          /\ stack' = IF Staged(y) /\ svc.conn # {} THEN <<Frame(<<Executes(y)>>)>> ELSE stack
      BY <1>6, <2>5 DEF Load, v
    <3>2. PICK x \in session, n \in svc.runtime :
            session = {x} /\ svc.runtime = {n} /\ InUse(x, n, svc)
      BY <1>2, <2>5 DEF SessionOk
    <3>3. s = x /\ n \in Nat /\ n <= m /\ (svc.conn # {} => x.pending = {})
      BY <1>2, <1>4, <2>2, <3>2 DEF s, The, LoaderOk, Mute
    <3>4. /\ InUse(y, m, svc') /\ Good(x) /\ Advances(x, y)
          /\ \A p \in y.pending : p \in x.pending \/ ~Composing(p.op)
      <4>1. y = ApplyRuntime(x, m)
        BY <2>3, <3>3
      <4>2. svc'.owns = svc.owns
        BY <2>1, <3>1
      <4> HIDE DEF y
      <4> QED BY <2>3, <3>2, <3>3, <4>1, <4>2, RuntimeInUse
    <3> HIDE DEF y
    <3>5. SessionOk(session', svc')
      BY <2>1, <2>2, <3>1, <3>4 DEF SessionOk
    <3>6. LoaderOk(svc)'
      BY <1>1, <1>2, <2>1, <2>2, <3>1, Arrives
    <3>7. ServiceOk(svc', session')
      BY <1>2, <2>1, <3>1 DEF ServiceOk, QueueOk, Latches
    <3>8. HostOk(host', svc')
      BY <1>1, <1>2, <2>1, <3>1 DEF HostOk
    <3>9. Good(y)
      BY <3>4 DEF InUse
    <3>10. CASE Staged(y) /\ svc.conn # {}
      <4> DEFINE i == Executes(y)  g == Frame(<<i>>)
      <4>1. stack' = <<g>>
        BY <3>1, <3>9, <3>10
      <4>2. DOMAIN g = FrameFields /\ g.todo = <<i>> /\ g.epoch = svc.epoch /\ g.conn = svc.conn
        BY DEF Frame
      <4> HIDE DEF i, g
      <4>3. IsSeq(g.todo) /\ g.todo # <<>> /\ Head(g.todo) = i /\ Tail(g.todo) = <<>>
        BY <4>2, OneLeft
      <4>4. SameAs(g, svc') /\ svc'.epoch \in Nat
        BY <1>3, <2>1, <2>5, <3>1, <4>2 DEF SameAs
      <4>5. /\ y.pending # {} /\ Later(Tail(g.todo)) /\ Head(g.todo) = Executes(y)
            /\ \A p \in y.pending : ~Composing(p.op)
        BY <3>3, <3>4, <3>10, <4>3, LaterOf DEF Staged, i
      <4>6. /\ FrameOk(g, svc', {y}) /\ TopOk(g, svc', {y}, host') /\ ~IsDrain(g)
            /\ \A p \in y.pending : Bears(g, p.token)
        BY <3>9, <3>10, <4>2, <4>3, <4>4, <4>5, ExecutesFrame
      <4>7. /\ IsSeq(stack') /\ Head(stack') = g /\ FramesOf(stack') = {g} /\ Below(stack') = {}
            /\ OneDrain(stack')
        <5>1. <<g>> = <<g>> \o <<>> /\ IsSeq(<<>>) /\ FramesOf(<<>>) = {} /\ DOMAIN <<>> = {}
          BY EmptySequence, DomainOf, EmptyStack
        <5>2. OneDrain(<<>>)
          BY <5>1 DEF OneDrain
        <5>3. \E old : old = <<>>
          OBVIOUS
        <5>4. PICK old : old = <<>>
          BY <5>3
        <5>5. /\ IsSeq(stack') /\ Head(stack') = g /\ FramesOf(stack') = {g} \cup FramesOf(old)
              /\ Below(stack') = FramesOf(old)
          BY <4>1, <5>1, <5>4, PushEffect
        <5>6. OneDrain(stack')
          BY <4>1, <4>6, <5>1, <5>2, <5>4, PushesDrains
        <5> QED BY <5>1, <5>4, <5>5, <5>6
      <4>8. StackOk(stack', svc', session', host')
        BY <3>1, <4>6, <4>7 DEF StackOk
      <4>9. Carried(stack', svc', session')
        BY <3>1, <4>4, <4>6, <4>7 DEF Carried
      <4> QED BY <3>5, <3>6, <3>7, <3>8, <4>8, <4>9 DEF IInv
    <3>11. CASE ~(Staged(y) /\ svc.conn # {})
      <4>1. stack' = <<>>
        BY <1>1, <3>1, <3>11
      <4>2. ~Mute(svc') => y.pending = {}
        <5>1. svc'.active /\ svc'.conn = svc.conn
          BY <2>1, <2>5, <3>1
        <5>2. svc.conn # {} => y.pending = {}
          BY <3>2, <3>3, <3>4, <3>9, <3>11, StagedOrOut
        <5> QED BY <5>1, <5>2 DEF Mute
      <4>3. StackOk(stack', svc', session', host') /\ Carried(stack', svc', session')
        BY <3>1, <4>1, <4>2, EmptyStack DEF Carried
      <4> QED BY <3>5, <3>6, <3>7, <3>8, <4>3 DEF IInv
    <3> QED BY <3>10, <3>11
  <2> QED BY <2>4, <2>5
<1> QED BY <1>5, <1>6

LEMMA InitIInv == Init => IInv
<1> SUFFICES ASSUME Init
             PROVE  IInv
  OBVIOUS
<1>1. IsSeq(<<>>) /\ DOMAIN <<>> = {} /\ FramesOf(<<>>) = {}
  BY EmptySequence, DomainOf, EmptyStack
<1>2. IsSeq(<<1>>) /\ DOMAIN <<1>> = {1} /\ <<1>> # <<>> /\ Len(<<1>>) = 1 /\ <<1>>[1] = 1
  BY OneInstruction
<1>3. ServiceOk(svc, session)
  <2>1. DOMAIN svc = ServiceFields
    BY DEF Init
  <2>2. /\ svc.epoch = 0 /\ svc.generation = 0 /\ ~svc.owns /\ svc.owns \in BOOLEAN
        /\ svc.pinyin = "Off" /\ svc.conn = {} /\ ~svc.active /\ svc.queue = <<>>
    BY DEF Init
  <2> QED BY <1>1, <2>1, <2>2 DEF ServiceOk, QueueOk, Latches
<1>4. HostOk(host, svc)
  BY <1>1 DEF Init, HostOk
<1>5. LoaderOk(svc)
  <2>1. /\ DOMAIN loader = LoaderFields /\ loader.ticket = 1 /\ loader.jobs = <<1>>
        /\ loader.built = <<>> /\ disk = 1 /\ svc.runtime = {}
    BY DEF Init
  <2>2. 1..disk \subseteq DOMAIN Runtimes
    BY <2>1, SessionAssumption
  <2> QED BY <1>1, <1>2, <2>1, <2>2 DEF LoaderOk, BuiltOk, NewestArrives, LastJob
<1>6. session = {} /\ stack = <<>>
  BY DEF Init
<1> QED BY <1>3, <1>4, <1>5, <1>6, EmptyStack DEF IInv, SessionOk, Carried

LEMMA NextIInv == IInv /\ [Next]_vars => IInv'
<1> SUFFICES ASSUME IInv, [Next]_vars
             PROVE  IInv'
  OBVIOUS
<1>1. CASE Runs
  BY <1>1, BeginKeeps, DoStepKeeps, StepReturnsKeeps, EndPlanKeeps, EndShortcutKeeps,
     AcknowledgesPlanKeeps, DrainKeeps, BeginsKeeps, GoesShortcutKeeps, GoesKeyKeeps,
     DirectKeeps, DirectReturnsKeeps, LatchKeeps, LatchResumedKeeps DEF Runs
<1>2. CASE FinishInput \/ ShowView \/ HideView \/ UpdateSelection
  BY <1>2, FinishInputKeeps, ShowViewKeeps, HideViewKeeps, UpdateSelectionKeeps
<1>3. ASSUME NEW e \in DOMAIN Editors, StartInput(e)
      PROVE  IInv'
  BY <1>3, StartInputKeeps
<1>4. ASSUME NEW text \in Words, NEW selected \in BOOLEAN, NEW composing \in BOOLEAN,
             OthersEdit(text, selected, composing)
      PROVE  IInv'
  BY <1>4, OthersEditKeeps
<1>5. ASSUME NEW request \in Requests, DispatchRequest(request)
      PROVE  IInv'
  BY <1>5, DispatchRequestKeeps
<1>6. CASE SavesConfig \/ LoadRuntime \/ Build \/ Load
  BY <1>6, SavesConfigKeeps, LoadRuntimeKeeps, BuildKeeps, LoadKeeps
<1>7. CASE UNCHANGED vars
  BY <1>7 DEF vars, IInv, LoaderOk, BuiltOk, NewestArrives, LastJob, LastBuilt
<1> QED BY <1>1, <1>2, <1>3, <1>4, <1>5, <1>6, <1>7 DEF Next

LEMMA SpecIInv == Spec => []IInv
  BY InitIInv, NextIInv, PTL DEF Spec

-----------------------------------------------------------------------------
(* The properties. *)

LEMMA OneIsCounted ==
  ASSUME NEW S, S # {} => \E x \in S : S = {x}
  PROVE  Cardinality(S) <= 1
<1>1. CASE S = {}
  BY <1>1, FS_EmptySet
<1>2. CASE S # {}
  BY <1>2, FS_Singleton
<1> QED BY <1>1, <1>2

LEMMA IInvTyped == IInv => TypeOK
<1> SUFFICES ASSUME IInv
             PROVE  TypeOK
  OBVIOUS
<1>1. Cardinality(session) <= 1 /\ Cardinality(svc.conn) <= 1
  <2>1. session # {} => \E x \in session : session = {x}
    BY DEF IInv, SessionOk
  <2>2. svc.conn # {} => \E e \in svc.conn : svc.conn = {e}
    BY DEF IInv, ServiceOk
  <2> QED BY <2>1, <2>2, OneIsCounted
<1>2. svc.runtime \subseteq 1..disk
  BY DEF IInv, LoaderOk
<1>3. \A f \in DOMAIN stack : stack[f] # <<>>
  <2> SUFFICES ASSUME NEW f \in DOMAIN stack
               PROVE  stack[f] # <<>>
    OBVIOUS
  <2>1. DOMAIN stack[f] = FrameFields
    BY DEF IInv, StackOk, FramesOf, FrameOk
  <2>2. DOMAIN <<>> = {}
    BY EmptySequence, DomainOf
  <2> QED BY <2>1, <2>2
<1> QED BY <1>1, <1>2, <1>3 DEF IInv, ServiceOk, QueueOk, Latches, TypeOK

\* Between two callbacks no plan is out, if there is a connection: whatever became of an edit,
\* it was acknowledged or its session was given a new context.
LEMMA IdleCarries == IInv => NoPlanIsLeft
  BY EmptyStack DEF IInv, Carried, NoPlanIsLeft, Idle, Unconnected, Mute

\* No session is left waiting for an acknowledgement that never comes, whatever becomes of its
\* edits and whichever callbacks came between their steps: applyPlan acknowledges what it
\* executes or the editor is attached again.  Excepted is an editor without a connection:
\* there applyPlan does not begin (PlansAreAnswered).
THEOREM NoPlanIsEverLeft == Spec => []NoPlanIsLeft
  BY SpecIInv, IdleCarries, PTL

\* What the service owns, may still delete or has queued is of the editor it will write to:
\* the preedit is owned by the session too and is the editor's composition, and the queue's
\* requests of the current generation were made in the current epoch.
THEOREM EditorsAreAlwaysKeptApart == Spec => []EditorsAreKeptApart
<1>1. IInv => EditorsAreKeptApart
  <2> SUFFICES ASSUME IInv
               PROVE  EditorsAreKeptApart
    OBVIOUS
  <2>1. \A x \in session : x.cleanup = {} /\ (svc.owns => x.context.owns \/ x.pending # {})
    BY DEF IInv, SessionOk, InUse
  <2>2. OwnershipIsShared
    <3>1. svc.owns => ~Unconnected
      BY DEF IInv, ServiceOk, Unconnected
    <3> QED BY <2>1, <3>1, IdleCarries DEF OwnershipIsShared, NoPlanIsLeft
  <2>3. OwnedIsComposed
    BY <2>1 DEF IInv, HostOk, OwnedIsComposed
  <2>4. QueuedIsForEditor
    BY DEF IInv, ServiceOk, QueueOk, QueuedIsForEditor
  <2> QED BY <2>2, <2>3, <2>4, IInvTyped DEF EditorsAreKeptApart
<1> QED BY SpecIInv, <1>1, PTL

\* When nothing is left to load the newest configuration is in use, if it could be built, by
\* the service and by its session, whatever became of the edit that ended the old one's
\* round: a runtime that came late is refused by its ticket, and where none is refused one
\* is deferred only behind a plan that no connection takes.
THEOREM NewestIsAlwaysUsed == Spec => []NewestIsUsed
<1>1. IInv => NewestIsUsed
  <2> SUFFICES ASSUME IInv, Idle, ~loader.saved, loader.jobs = <<>>, loader.built = <<>>,
                      ~loader.failed
               PROVE  /\ svc.runtime = {disk}
                      /\ \A x \in session :
                           x.revision = disk \/ (Unconnected /\ x.pending # {} /\ x.deferred = {disk})
    BY DEF NewestIsUsed
  <2>1. svc.runtime = {disk}
    BY DEF IInv, LoaderOk, NewestArrives
  <2>2. ASSUME NEW x \in session
        PROVE  x.revision = disk \/ (Unconnected /\ x.pending # {} /\ x.deferred = {disk})
    <3>1. InUse(x, disk, svc)
      BY <2>1 DEF IInv, SessionOk
    <3>2. x.revision = disk \/ (x.pending # {} /\ x.deferred = {disk})
      BY <3>1, TouchProfile DEF InUse, Deferral, Good
    <3>3. Unconnected \/ x.pending = {}
      BY IdleCarries DEF NoPlanIsLeft
    <3> QED BY <3>2, <3>3
  <2> QED BY <2>1, <2>2
<1> QED BY SpecIInv, <1>1, PTL
=============================================================================
