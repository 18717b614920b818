-------------------------- MODULE TextServiceProofs --------------------------
(***************************************************************************)
(* Theorems about TextService, for every keyboard, host, set of runtimes,  *)
(* number of callbacks and depth of their nesting.                         *)
(*                                                                         *)
(* A frame of the stack is an instruction and what follows it.  A frame    *)
(* below the first has an edit or its acknowledgement at its head, a frame *)
(* whose plan may be followed by a question to the model ends in Pump, and *)
(* nothing comes between Forget and Drop: whoever waits for the model      *)
(* therefore has a timer, or a frame that goes on to ask.                  *)
(*                                                                         *)
(* The lists (from LInv on): what is drawn, published, carried by an edit  *)
(* or under a click is of the past, or is the session's own, and the       *)
(* generation in its query tells which; a choice comes right after a read  *)
(* that proved the text.                                                   *)
(***************************************************************************)
EXTENDS TextService, SessionLemmas, FiniteSetTheorems

-----------------------------------------------------------------------------
(* Programs. *)

Pumps(q) == \E i \in DOMAIN q : q[i].do \in {"Pump", "Abandon"}

\* What may be left of a callback: no edit is under way in it, Drop comes right after Forget,
\* and a key or a click is followed by Pump.
Loose(q) ==
  /\ IsSeq(q)
  /\ \A i \in 1..Len(q) :
       /\ q[i].do \notin {"Edit", "Ack"}
       /\ i > 1 /\ q[i].do = "Drop" => q[i - 1].do = "Forget"
       /\ q[i].do \in {"Handle", "Choose"} => \E j \in (i + 1)..Len(q) : q[j].do = "Pump"

Program(q) == Loose(q) /\ (q # <<>> => q[1].do # "Drop")

\* A frame: an instruction and what follows it.
Frame(q) ==
  /\ IsSeq(q) /\ q # <<>>
  /\ Loose(Tail(q)) /\ (Head(q).do # "Forget" => Program(Tail(q)))
  /\ Head(q).do \in {"Handle", "Choose"} => Pumps(Tail(q))

LEMMA LooseFrame ==
  ASSUME NEW q, Loose(q), q # <<>>
  PROVE  Frame(q) /\ Head(q).do \notin {"Edit", "Ack"}
<1> DEFINE t == Tail(q)
<1>1. /\ IsSeq(q) /\ IsSeq(t) /\ Len(q) \in Nat /\ Len(t) = Len(q) - 1 /\ Len(q) > 0
      /\ Head(q) = q[1] /\ \A i \in 1..(Len(q) - 1) : t[i] = q[i + 1]
      /\ DOMAIN t = 1..Len(t) /\ (t = <<>> <=> Len(t) = 0)
  BY TailOf, DomainOf DEF Loose
<1> HIDE DEF t
<1>2. Loose(t)
  <2> SUFFICES ASSUME NEW i \in 1..Len(t)
               PROVE  /\ t[i].do \notin {"Edit", "Ack"}
                      /\ i > 1 /\ t[i].do = "Drop" => t[i - 1].do = "Forget"
                      /\ t[i].do \in {"Handle", "Choose"} =>
                           \E j \in (i + 1)..Len(t) : t[j].do = "Pump"
    BY <1>1 DEF Loose
  <2>1. i + 1 \in 1..Len(q) /\ t[i] = q[i + 1]
    BY <1>1
  <2>2. i > 1 => t[i - 1] = q[i]
    BY <1>1
  <2>3. /\ q[i + 1].do \notin {"Edit", "Ack"}
        /\ q[i + 1].do = "Drop" => q[i].do = "Forget"
        /\ q[i + 1].do \in {"Handle", "Choose"} =>
             \E j \in (i + 2)..Len(q) : q[j].do = "Pump"
    BY <1>1, <2>1 DEF Loose
  <2>4. ASSUME NEW j \in (i + 2)..Len(q), q[j].do = "Pump"
        PROVE  \E k \in (i + 1)..Len(t) : t[k].do = "Pump"
    <3>1. j - 1 \in (i + 1)..Len(t) /\ t[j - 1] = q[j]
      BY <1>1
    <3> QED BY <2>4, <3>1
  <2> QED BY <2>1, <2>2, <2>3, <2>4
<1>3. Head(q).do # "Forget" => Program(t)
  <2> SUFFICES ASSUME Head(q).do # "Forget", t # <<>>
               PROVE  t[1].do # "Drop"
    BY <1>2 DEF Program
  <2>1. 2 \in 1..Len(q) /\ t[1] = q[2]
    BY <1>1
  <2>2. q[2].do = "Drop" => q[1].do = "Forget"
    BY <2>1 DEF Loose
  <2> QED BY <1>1, <2>1, <2>2
<1>4. Head(q).do \in {"Handle", "Choose"} => Pumps(t)
  <2> SUFFICES ASSUME Head(q).do \in {"Handle", "Choose"}
               PROVE  Pumps(t)
    OBVIOUS
  <2>1. PICK j \in 2..Len(q) : q[j].do = "Pump"
    BY <1>1 DEF Loose
  <2>2. j - 1 \in DOMAIN t /\ t[j - 1] = q[j]
    BY <1>1
  <2> QED BY <2>1, <2>2 DEF Pumps
<1>5. Head(q).do \notin {"Edit", "Ack"}
  BY <1>1 DEF Loose
<1> USE DEF t
<1> QED BY <1>1, <1>2, <1>3, <1>4, <1>5 DEF Frame

LEMMA CatProgram ==
  ASSUME NEW p, NEW q, Program(p), Program(q)
  PROVE  Program(p \o q)
<1> DEFINE c == p \o q
<1>1. /\ IsSeq(p) /\ Len(p) \in Nat /\ DOMAIN p = 1..Len(p) /\ (p = <<>> <=> Len(p) = 0)
      /\ IsSeq(q) /\ Len(q) \in Nat /\ DOMAIN q = 1..Len(q) /\ (q = <<>> <=> Len(q) = 0)
  BY DomainOf DEF Program, Loose
<1>2. /\ IsSeq(c) /\ Len(c) = Len(p) + Len(q)
      /\ \A i \in 1..Len(p) : c[i] = p[i]
      /\ \A i \in 1..Len(q) : c[Len(p) + i] = q[i]
  BY <1>1, CatOf
<1>3. c = <<>> <=> Len(c) = 0
  BY <1>2, DomainOf
<1> HIDE DEF c
<1>4. ASSUME NEW i \in 1..Len(c), i <= Len(p)
      PROVE  /\ c[i].do \notin {"Edit", "Ack"}
             /\ i > 1 /\ c[i].do = "Drop" => c[i - 1].do = "Forget"
             /\ c[i].do \in {"Handle", "Choose"} =>
                  \E j \in (i + 1)..Len(c) : c[j].do = "Pump"
  <2>1. i \in 1..Len(p) /\ c[i] = p[i] /\ (i > 1 => c[i - 1] = p[i - 1])
    BY <1>1, <1>2, <1>4
  <2>2. \A j \in (i + 1)..Len(p) : j \in (i + 1)..Len(c) /\ c[j] = p[j]
    BY <1>1, <1>2
  <2> QED BY <2>1, <2>2 DEF Program, Loose
<1>5. ASSUME NEW i \in 1..Len(c), i > Len(p)
      PROVE  /\ c[i].do \notin {"Edit", "Ack"}
             /\ i > 1 /\ c[i].do = "Drop" => c[i - 1].do = "Forget"
             /\ c[i].do \in {"Handle", "Choose"} =>
                  \E j \in (i + 1)..Len(c) : c[j].do = "Pump"
  <2> DEFINE k == i - Len(p)
  <2>1. k \in 1..Len(q) /\ i = Len(p) + k
    BY <1>1, <1>2, <1>5
  <2> HIDE DEF k
  <2>2. c[i] = q[k] /\ (k > 1 => k - 1 \in 1..Len(q) /\ i - 1 = Len(p) + (k - 1))
    BY <1>1, <1>2, <2>1
  <2>3. k > 1 => c[i - 1] = q[k - 1]
    BY <1>2, <2>2
  <2>4. k = 1 => q[k].do # "Drop"
    BY <1>1, <2>1 DEF Program
  <2>5. \A j \in (k + 1)..Len(q) : /\ Len(p) + j \in (i + 1)..Len(c)
                                   /\ c[Len(p) + j] = q[j]
    BY <1>1, <1>2, <2>1
  <2>6. /\ q[k].do \notin {"Edit", "Ack"}
        /\ k > 1 /\ q[k].do = "Drop" => q[k - 1].do = "Forget"
        /\ q[k].do \in {"Handle", "Choose"} =>
             \E j \in (k + 1)..Len(q) : q[j].do = "Pump"
    BY <2>1 DEF Program, Loose
  <2>7. i > 1 /\ c[i].do = "Drop" => c[i - 1].do = "Forget"
    <3>1. CASE k = 1  BY <2>2, <2>4, <3>1
    <3>2. CASE k # 1  BY <2>1, <2>2, <2>3, <2>6, <3>2
    <3> QED BY <3>1, <3>2
  <2>8. c[i].do \in {"Handle", "Choose"} => \E j \in (i + 1)..Len(c) : c[j].do = "Pump"
    BY <2>2, <2>5, <2>6
  <2> QED BY <2>2, <2>6, <2>7, <2>8
<1>6. Loose(c)
  <2>1. ASSUME NEW i \in 1..Len(c)
        PROVE  i <= Len(p) \/ i > Len(p)
    BY <1>1
  <2>2. \A i \in 1..Len(c) :
          /\ c[i].do \notin {"Edit", "Ack"}
          /\ i > 1 /\ c[i].do = "Drop" => c[i - 1].do = "Forget"
          /\ c[i].do \in {"Handle", "Choose"} => \E j \in (i + 1)..Len(c) : c[j].do = "Pump"
    BY <2>1, <1>4, <1>5
  <2> QED BY <1>2, <2>2 DEF Loose
<1>7. c # <<>> => c[1].do # "Drop"
  <2>1. CASE p = <<>>
    BY <1>1, <1>2, <1>3, <2>1 DEF Program
  <2>2. CASE p # <<>>
    BY <1>1, <1>2, <1>3, <2>2 DEF Program
  <2> QED BY <2>1, <2>2
<1> USE DEF c
<1> QED BY <1>6, <1>7 DEF Program

\* Instructions that need nothing of what comes before or after them.
Plain ==
  {"Clear", "LeaveEditor", "Forget", "DropComposition", "Recover", "Ready", "Reload", "Gate",
   "Translate", "TestKey", "Read", "Bind", "Assist", "Observe", "Pump", "Abandon"}

LEMMA PlainProgram ==
  ASSUME NEW q, IsSeq(q), \A i \in 1..Len(q) : q[i].do \in Plain
  PROVE  Program(q)
<1>1. Loose(q)
  BY DEF Loose, Plain
<1>2. q # <<>> => q[1].do \in Plain
  BY DomainOf
<1> QED BY <1>1, <1>2 DEF Program, Plain

LEMMA PlainInstruction ==
  ASSUME NEW a, a.do \in Plain
  PROVE  Program(<<a>>)
<1>1. IsSeq(<<a>>) /\ \A i \in 1..Len(<<a>>) : <<a>>[i] = a
  BY OneInstruction
<1> QED BY <1>1, PlainProgram

LEMMA PlainPair ==
  ASSUME NEW a, NEW b, a.do \in Plain, b.do \in Plain
  PROVE  Program(<<a, b>>)
<1>1. IsSeq(<<a, b>>) /\ \A i \in 1..Len(<<a, b>>) : <<a, b>>[i] \in {a, b}
  BY TwoInstructions
<1> QED BY <1>1, PlainProgram

LEMMA PlainTriple ==
  ASSUME NEW a, NEW b, NEW c, a.do \in Plain, b.do \in Plain, c.do \in Plain
  PROVE  Program(<<a, b, c>>)
<1>1. IsSeq(<<a, b, c>>) /\ \A i \in 1..Len(<<a, b, c>>) : <<a, b, c>>[i] \in {a, b, c}
  BY ThreeInstructions
<1> QED BY <1>1, PlainProgram

\* The programs of the callbacks.
LEMMA NoProgram == Program(<<>>)
  BY EmptySequence DEF Program, Loose

LEMMA LoseProgram == Program(Lose) /\ Lose # <<>>
<1>1. Do("Clear").do \in Plain /\ Do("LeaveEditor").do \in Plain
  BY DEF Do, Plain
<1>2. Program(Lose)
  BY <1>1, PlainPair DEF Lose
<1> QED BY <1>2, TwoInstructions, DomainOf DEF Lose

LEMMA PreparedProgram == Program(PrepareContext)
<1>1. PICK a : a = IF svc.composition \subseteq {host.focus} THEN <<>> ELSE Lose
  OBVIOUS
<1>2. Program(a)
  BY <1>1, NoProgram, LoseProgram
<1>3. Program(<<Do("Recover"), Do("Ready")>>)
  BY PlainPair DEF Do, Plain
<1>4. PrepareContext = a \o <<Do("Recover"), Do("Ready")>>
  BY <1>1 DEF PrepareContext
<1> QED BY <1>2, <1>3, <1>4, CatProgram

LEMMA TranslatedProgram == Program(Translated)
<1>1. Program(<<Do("Reload"), Do("Recover"), Do("Translate")>>)
  BY PlainTriple DEF Do, Plain
<1> QED BY <1>1, PreparedProgram, CatProgram DEF Translated

LEMMA KeyProgram ==
  ASSUME NEW key
  PROVE  Program(<<[do |-> "Handle", key |-> key], Do("Pump")>>)
<1> DEFINE a == [do |-> "Handle", key |-> key]
           q == <<a, Do("Pump")>>
<1>1. a.do = "Handle" /\ Do("Pump").do = "Pump"
  BY DEF Do
<1> HIDE DEF a
<1>2. IsSeq(q) /\ Len(q) = 2 /\ q[1] = a /\ q[2] = Do("Pump")
  BY TwoInstructions
<1> HIDE DEF q
<1>3. \A i \in 1..Len(q) : i = 1 \/ i = 2
  BY <1>2
<1>4. Loose(q)
  BY <1>1, <1>2, <1>3 DEF Loose
<1>5. Program(q)
  BY <1>1, <1>2, <1>4 DEF Program
<1> USE DEF q, a
<1> QED BY <1>5

LEMMA ClickProgram ==
  ASSUME NEW click
  PROVE  Program(<<[do |-> "Read", strict |-> TRUE], [do |-> "Choose", click |-> click],
                   Do("Pump")>>)
<1> DEFINE a == [do |-> "Read", strict |-> TRUE]
           b == [do |-> "Choose", click |-> click]
           q == <<a, b, Do("Pump")>>
<1>1. a.do = "Read" /\ b.do = "Choose" /\ Do("Pump").do = "Pump"
  BY DEF Do
<1> HIDE DEF a, b
<1>2. IsSeq(q) /\ Len(q) = 3 /\ q[1] = a /\ q[2] = b /\ q[3] = Do("Pump")
  BY ThreeInstructions
<1> HIDE DEF q
<1>3. \A i \in 1..Len(q) : i = 1 \/ i = 2 \/ i = 3
  BY <1>2
<1>4. Loose(q)
  BY <1>1, <1>2, <1>3 DEF Loose
<1>5. Program(q)
  BY <1>1, <1>2, <1>4 DEF Program
<1> USE DEF q, a, b
<1> QED BY <1>5

LEMMA DeactivateProgram ==
  Program(Lose \o <<Do("DropComposition"), Do("Clear"), Do("Forget"), Do("Drop")>>)
<1> DEFINE q == <<Do("DropComposition"), Do("Clear"), Do("Forget"), Do("Drop")>>
<1>1. q \in Seq({Do("DropComposition"), Do("Clear"), Do("Forget"), Do("Drop")})
  OBVIOUS
<1>2. /\ IsSeq(q) /\ Len(q) = 4
      /\ q[1].do = "DropComposition" /\ q[2].do = "Clear"
      /\ q[3].do = "Forget" /\ q[4].do = "Drop"
  BY <1>1 DEF IsSeq, Do
<1> HIDE DEF q
<1>3. \A i \in 1..Len(q) : i = 1 \/ i = 2 \/ i = 3 \/ i = 4
  BY <1>2
<1>4. Loose(q)
  BY <1>2, <1>3 DEF Loose
<1>5. Program(q)
  BY <1>2, <1>4 DEF Program
<1>6. Program(Lose \o q)
  BY <1>5, LoseProgram, CatProgram
<1> USE DEF q
<1> QED BY <1>6

-----------------------------------------------------------------------------
(* The stack. *)

\* The running frame goes on as q, or is gone.
LEMMA ContinueEffect ==
  ASSUME IsSeq(stack), stack # <<>>, NEW q, Continue(q)
  PROVE  /\ IsSeq(stack')
         /\ FramesOf(stack') = (IF q = <<>> THEN {} ELSE {q}) \cup Below(stack)
         /\ Below(stack') \subseteq Below(stack)
         /\ stack' # <<>> =>
              IF q = <<>> THEN Head(stack') \in Below(stack) ELSE Head(stack') = q
<1> DEFINE old == Tail(stack)
<1>1. IsSeq(old) /\ FramesOf(old) = Below(stack)
  BY PopEffect
<1> HIDE DEF old
<1>2. CASE q = <<>>
  <2>1. stack' = old
    BY <1>2 DEF Continue, old
  <2>2. old # <<>> => FramesOf(old) = {Head(old)} \cup Below(old)
    BY <1>1, StackOf
  <2>3. old = <<>> => Below(old) = {}
    BY EmptySequence DEF Below
  <2> QED BY <1>1, <1>2, <2>1, <2>2, <2>3
<1>3. CASE q # <<>>
  <2>1. stack' = <<q>> \o old
    BY <1>3 DEF Continue, old
  <2> QED BY <1>1, <1>3, <2>1, PushEffect
<1> QED BY <1>2, <1>3

-----------------------------------------------------------------------------
(* The invariant. *)

USE DEF s

Bindings == {{}} \cup {{e} : e \in Editors}
Services ==
  [active : BOOLEAN, bound : Bindings, composition : Bindings, queued : BOOLEAN,
   dispatch : BOOLEAN, watched : Bindings]
HostFields == {"focus", "text", "timers", "taken", "click", "unseen", "calls"}
GoodHost(h) ==
  /\ DOMAIN h = HostFields
  /\ h.focus \in Editors /\ h.timers \subseteq {"Model", "Verify"} /\ h.calls \in 0..MaxCalls

\* An edit that is out carries a token of the session's, and if it is current and the model
\* may be asked after it, the frame goes on to ask.
Edits(i) == i.do \in {"Edit", "Ack"}
Carries(i, x) ==
  /\ i.token[1] \in Nat /\ i.token[1] <= x.generation
  /\ Few(i.data.list)
  /\ i.do = "Edit" => i.context \in Bindings \ {{}}
FrameOk(q, x) ==
  /\ Frame(q)
  /\ Edits(Head(q)) =>
       /\ Carries(Head(q), x)
       /\ \A p \in x.pending : p.token = Head(q).token /\ p.predict => Pumps(Tail(q))

StackOk(st, x) ==
  /\ IsSeq(st)
  /\ \A q \in FramesOf(st) : FrameOk(q, x)
  /\ \A q \in Below(st) : IsOut(Head(q))
  /\ st # <<>> /\ Head(Head(st)).do = "Drop" => x.wait = {}

Asks(st) == \E q \in FramesOf(st) : Pumps(q)
Waits(x, timers, st) == x.wait # {} => "Model" \in timers \/ Asks(st)

IInv ==
  /\ Good(session) /\ Deferral(session, session.revision)
  /\ svc \in Services /\ GoodHost(host)
  /\ Few(data.list) /\ Few(drawn)
  /\ StackOk(stack, session)
  /\ Waits(session, host.timers, stack)
  /\ QueuedIsChecked

-----------------------------------------------------------------------------
(* Frames and the session. *)

\* The generation of a token is its first part.
LEMMA TokenGeneration ==
  ASSUME NEW x, Good(x), NEW p \in x.pending
  PROVE  p.token[1] = x.generation /\ x.generation \in Nat
  BY DEF Good, PlanIsCurrent, Token, Shape

\* What a frame carries stays true whatever is called on the session.
LEMMA FrameStays ==
  ASSUME NEW x, NEW y, Good(x), Good(y), Advances(x, y), NEW q, FrameOk(q, x)
  PROVE  FrameOk(q, y)
<1> SUFFICES ASSUME Edits(Head(q))
             PROVE  /\ Carries(Head(q), y)
                    /\ \A p \in y.pending :
                         p.token = Head(q).token /\ p.predict => Pumps(Tail(q))
  BY DEF FrameOk
<1>1. x.generation \in Nat /\ y.generation \in Nat /\ y.generation >= x.generation
  BY DEF Good, Shape, Advances
<1>2. Carries(Head(q), x)
  BY DEF FrameOk
<1>3. Carries(Head(q), y)
  BY <1>1, <1>2 DEF Carries
<1>4. ASSUME NEW p \in y.pending, p.token = Head(q).token, p.predict
      PROVE  Pumps(Tail(q))
  <2>1. p.token[1] = y.generation
    BY TokenGeneration
  <2>2. y.generation = x.generation
    BY <1>1, <1>2, <1>4, <2>1 DEF Carries
  <2>3. p \in x.pending
    BY <2>2 DEF Advances
  <2> QED BY <1>4, <2>3 DEF FrameOk
<1> QED BY <1>3, <1>4

\* What is left of a callback carries nothing.
LEMMA LooseOk ==
  ASSUME NEW q, Loose(q), q # <<>>, NEW x
  PROVE  FrameOk(q, x)
  BY LooseFrame DEF FrameOk, Edits

LEMMA TopOk ==
  ASSUME NEW x, StackOk(stack, x), stack # <<>>
  PROVE  /\ FrameOk(Top, x) /\ Top # <<>> /\ IsSeq(Top) /\ IsSeq(Rest) /\ Loose(Rest)
         /\ Now.do # "Forget" => Program(Rest)
         /\ Now.do \in {"Handle", "Choose"} => Pumps(Rest)
<1>1. Top \in FramesOf(stack)
  BY StackOf DEF StackOk, Top
<1>2. FrameOk(Top, x) /\ Frame(Top)
  BY <1>1 DEF StackOk, FrameOk
<1> QED BY <1>2 DEF Frame, Loose, Rest, Now

\* An instruction that does not ask leaves what does.
LEMMA PumpsOn ==
  ASSUME NEW q, IsSeq(q), q # <<>>, Head(q).do \notin {"Pump", "Abandon"}, Pumps(q)
  PROVE  Pumps(Tail(q))
<1>1. PICK i \in DOMAIN q : q[i].do \in {"Pump", "Abandon"}
  BY DEF Pumps
<1>2. /\ IsSeq(Tail(q)) /\ Len(Tail(q)) = Len(q) - 1 /\ Len(q) > 0 /\ Head(q) = q[1]
      /\ \A k \in 1..(Len(q) - 1) : Tail(q)[k] = q[k + 1]
  BY TailOf
<1>3. Len(q) \in Nat /\ DOMAIN q = 1..Len(q) /\ DOMAIN Tail(q) = 1..Len(Tail(q))
  BY <1>2, DomainOf
<1>4. i # 1
  BY <1>1, <1>2
<1>5. i - 1 \in 1..(Len(q) - 1) /\ (i - 1) + 1 = i
  BY <1>3, <1>4
<1>6. i - 1 \in DOMAIN Tail(q) /\ Tail(q)[i - 1] = q[i]
  BY <1>2, <1>3, <1>5
<1> QED BY <1>1, <1>6 DEF Pumps

LEMMA PumpsAfter ==
  ASSUME NEW p, NEW q, IsSeq(p), IsSeq(q), Pumps(q)
  PROVE  Pumps(p \o q)
<1>1. PICK i \in DOMAIN q : q[i].do \in {"Pump", "Abandon"}
  BY DEF Pumps
<1>2. Len(p) \in Nat /\ Len(q) \in Nat /\ DOMAIN q = 1..Len(q)
  BY DomainOf
<1>3. /\ IsSeq(p \o q) /\ Len(p \o q) = Len(p) + Len(q)
      /\ (p \o q)[Len(p) + i] = q[i]
  BY <1>1, <1>2, CatOf
<1>4. Len(p) + i \in DOMAIN (p \o q)
  BY <1>1, <1>2, <1>3, DomainOf
<1> QED BY <1>1, <1>3, <1>4 DEF Pumps

\* The running frame goes on as q while the session becomes y.
LEMMA GoesOn ==
  ASSUME NEW x, StackOk(stack, x), stack # <<>>, Good(x),
         NEW y, Good(y), Advances(x, y),
         NEW q, Continue(q), q # <<>> => FrameOk(q, y),
         q # <<>> /\ Head(q).do = "Drop" => y.wait = {}
  PROVE  /\ StackOk(stack', y)
         /\ q # <<>> /\ Pumps(q) => Asks(stack')
         /\ \A r \in Below(stack) : Pumps(r) => Asks(stack')
<1>1. IsSeq(stack)
  BY DEF StackOk
<1>2. /\ IsSeq(stack')
      /\ FramesOf(stack') = (IF q = <<>> THEN {} ELSE {q}) \cup Below(stack)
      /\ Below(stack') \subseteq Below(stack)
      /\ stack' # <<>> =>
           IF q = <<>> THEN Head(stack') \in Below(stack) ELSE Head(stack') = q
  BY <1>1, ContinueEffect
<1>3. Below(stack) \subseteq FramesOf(stack)
  BY <1>1, StackOf
<1>4. \A r \in Below(stack) : FrameOk(r, y)
  BY <1>3, FrameStays DEF StackOk
<1>5. \A r \in Below(stack) : IsOut(Head(r)) /\ Head(r).do # "Drop"
  BY DEF StackOk, IsOut
<1>6. stack' # <<>> /\ Head(Head(stack')).do = "Drop" => y.wait = {}
  BY <1>2, <1>5
<1>7. StackOk(stack', y)
  BY <1>2, <1>4, <1>5, <1>6 DEF StackOk
<1> QED BY <1>2, <1>7 DEF Asks

\* ... and whoever waits is still asked, if the frame still asks and nobody began to wait.
LEMMA WaitsOn ==
  ASSUME NEW x, StackOk(stack, x), stack # <<>>, Good(x),
         NEW y, Good(y), Advances(x, y), y.wait # {} => x.wait # {},
         NEW q, Continue(q), q # <<>> => FrameOk(q, y),
         q # <<>> /\ Head(q).do = "Drop" => y.wait = {},
         Pumps(Top) => q # <<>> /\ Pumps(q),
         NEW t, NEW u, t \subseteq u, Waits(x, t, stack)
  PROVE  StackOk(stack', y) /\ Waits(y, u, stack')
<1>1. /\ StackOk(stack', y)
      /\ q # <<>> /\ Pumps(q) => Asks(stack')
      /\ \A r \in Below(stack) : Pumps(r) => Asks(stack')
  BY GoesOn
<1>2. FramesOf(stack) = {Top} \cup Below(stack)
  BY StackOf DEF StackOk, Top
<1>3. Asks(stack) => Asks(stack')
  BY <1>1, <1>2 DEF Asks
<1> QED BY <1>1, <1>3 DEF Waits

\* An instruction is done, and the callback goes on with what follows it.
LEMMA Done ==
  ASSUME NEW x, StackOk(stack, x), stack # <<>>, Good(x),
         NEW y, Good(y), Advances(x, y), y.wait # {} => x.wait # {},
         Continue(Rest), Now.do \notin {"Pump", "Abandon"}, Now.do = "Forget" => y.wait = {},
         NEW t, NEW u, t \subseteq u, Waits(x, t, stack)
  PROVE  StackOk(stack', y) /\ Waits(y, u, stack')
<1>1. /\ Top # <<>> /\ IsSeq(Top) /\ IsSeq(Rest) /\ Loose(Rest)
      /\ Now.do # "Forget" => Program(Rest)
  BY TopOk
<1>2. Rest # <<>> => FrameOk(Rest, y)
  BY <1>1, LooseOk
<1>3. Rest # <<>> => Head(Rest) = Rest[1]
  BY <1>1, TailOf
<1>4. Rest # <<>> /\ Head(Rest).do = "Drop" => y.wait = {}
  BY <1>1, <1>3 DEF Program
<1>5. Pumps(Top) => Pumps(Rest)
  BY <1>1, PumpsOn DEF Now, Rest
<1>6. Pumps(Rest) => Rest # <<>>
  BY EmptySequence, DomainOf DEF Pumps
<1> QED BY <1>2, <1>4, <1>5, <1>6, WaitsOn

-----------------------------------------------------------------------------
(* The session goes on.  A Windows session defers no runtime. *)

LEMMA NotTouch == ~Touch
  BY TextServiceAssumption DEF Touch

LEMMA NothingDeferred ==
  ASSUME NEW x, NEW n, Deferral(x, n)
  PROVE  Deferral(x, x.revision)
  BY NotTouch DEF Deferral

\* What the calls of an instruction do to the session.
GoesTo(x, y) ==
  /\ Good(y) /\ Deferral(y, y.revision) /\ Advances(x, y)
  /\ y.wait # {} => x.wait # {}

LEMMA KeptGoes ==
  ASSUME NEW x, Good(x), Deferral(x, x.revision), NEW y, Kept(x, y)
  PROVE  GoesTo(x, y)
<1>1. Deferral(y, x.revision)
  BY KeptMoves DEF Moves
<1> QED BY <1>1, NothingDeferred DEF GoesTo, Kept, KeepsCleanup

LEMMA LostGoes ==
  ASSUME NEW x, Good(x), Deferral(x, x.revision), NEW y, Lost(x, y)
  PROVE  GoesTo(x, y) /\ y.wait = {}
<1>1. Deferral(y, x.revision)
  BY AdoptedMoves DEF Moves, Lost
<1>2. Advances(x, y)
  BY DEF Lost, Advances, Good, Shape
<1> QED BY <1>1, <1>2, NothingDeferred DEF GoesTo, Lost, NothingPredicted

LEMMA StaysPut ==
  ASSUME NEW x, Good(x), Deferral(x, x.revision)
  PROVE  GoesTo(x, x)
  BY KeptReflexive, KeptGoes

LEMMA RuntimeGoes ==
  ASSUME NEW x, Good(x), Deferral(x, x.revision), NEW r \in DOMAIN Runtimes
  PROVE  GoesTo(x, ApplyRuntime(x, r)) /\ Silent(x, ApplyRuntime(x, r))
<1>1. PICK y : y = ApplyRuntime(x, r)
  OBVIOUS
<1>2. Good(y) /\ Advances(x, y) /\ Taken(x, y, r) /\ KeepsCleanup(x, y) /\ Silent(x, y)
  BY <1>1, ApplyGood
<1>3. PICK m : Deferral(y, m)
  BY <1>2, OfferMoves DEF Moves
<1> QED BY <1>1, <1>2, <1>3, NothingDeferred DEF GoesTo, KeepsCleanup

-----------------------------------------------------------------------------
(* The callback goes on. *)

\* With these instructions before what follows.
LEMMA GoesOnWith ==
  ASSUME NEW x, StackOk(stack, x), stack # <<>>, Good(x), NEW y, GoesTo(x, y),
         NEW p, Program(p), Continue(p \o Rest), Now.do \notin {"Pump", "Abandon", "Forget"},
         NEW t, NEW u, t \subseteq u, Waits(x, t, stack)
  PROVE  StackOk(stack', y) /\ Waits(y, u, stack')
<1> DEFINE q == p \o Rest
<1>1. /\ Top # <<>> /\ IsSeq(Top) /\ IsSeq(Rest) /\ Program(Rest)
  BY TopOk
<1>2. Program(q)
  BY <1>1, CatProgram
<1>3. Pumps(Top) => Pumps(q)
  BY <1>1, PumpsOn, PumpsAfter DEF Now, Rest, Program, Loose
<1> HIDE DEF q
<1>4. IsSeq(q) /\ Loose(q)
  BY <1>2 DEF Program, Loose
<1>5. q # <<>> => FrameOk(q, y) /\ Head(q).do # "Drop"
  BY <1>2, <1>4, LooseOk, TailOf DEF Program
<1>6. Pumps(q) => q # <<>>
  BY EmptySequence, DomainOf DEF Pumps
<1>7. Continue(q)
  BY DEF q
<1> QED BY <1>3, <1>5, <1>6, <1>7, WaitsOn DEF GoesTo

\* Nobody waits, and the callback may end.
LEMMA Ends ==
  ASSUME NEW x, StackOk(stack, x), stack # <<>>, Good(x), NEW y, GoesTo(x, y), y.wait = {},
         NEW q, Loose(q), Continue(q), NEW u
  PROVE  StackOk(stack', y) /\ Waits(y, u, stack')
<1>1. q # <<>> => FrameOk(q, y)
  BY LooseOk
<1> QED BY <1>1, GoesOn DEF GoesTo, Waits

\* The plan of a call is carried by the edit that is put before what follows.
LEMMA ExecuteEffect ==
  ASSUME IInv, NEW y, Good(y), y.generation > session.generation, y.pending # {}
  PROVE  \E e : /\ Execute(y) = <<e>> /\ Edits(e) /\ Carries(e, y)
                /\ e.token = The(y.pending).token
<1>1. PICK p : p = The(y.pending)
  OBVIOUS
<1>2. p \in y.pending
  BY <1>1 DEF The
<1>3. p.token[1] \in Nat /\ p.token[1] <= y.generation
  BY <1>2, TokenGeneration
<1>4. PICK d : d = Preview(p)
  OBVIOUS
<1>5. Few(d.list)
  BY <1>4 DEF Preview, Drawing, IInv, Few
<1>6. PICK c : c = IF svc.composition = {} THEN {host.focus} ELSE svc.composition
  OBVIOUS
<1>7. c \in Bindings \ {{}}
  BY <1>6 DEF IInv, Services, GoodHost, Bindings
<1>8. \/ Execute(y) = <<[do |-> "Ack", token |-> p.token, outcome |-> "Applied", data |-> d,
                         out |-> FALSE]>>
      \/ Execute(y) = <<[do |-> "Edit", token |-> p.token, op |-> p.op, data |-> d,
                         context |-> c]>>
  BY <1>1, <1>4, <1>6 DEF Execute
<1>9. CASE Execute(y) = <<[do |-> "Ack", token |-> p.token, outcome |-> "Applied", data |-> d,
                           out |-> FALSE]>>
  <2>1. PICK e : e = [do |-> "Ack", token |-> p.token, outcome |-> "Applied", data |-> d,
                      out |-> FALSE]
    OBVIOUS
  <2> QED BY <1>1, <1>3, <1>5, <1>9, <2>1 DEF Edits, Carries
<1>10. CASE Execute(y) = <<[do |-> "Edit", token |-> p.token, op |-> p.op, data |-> d,
                            context |-> c]>>
  <2>1. PICK e : e = [do |-> "Edit", token |-> p.token, op |-> p.op, data |-> d,
                      context |-> c]
    OBVIOUS
  <2> QED BY <1>1, <1>3, <1>5, <1>7, <1>10, <2>1 DEF Edits, Carries
<1> QED BY <1>8, <1>9, <1>10

\* The session moves on, and its plan, if it made one, is executed.
LEMMA RunsOn ==
  ASSUME IInv, stack # <<>>, NEW y, Runs(y), GoesTo(session, y),
         Silent(session, y) \/ Now.do \in {"Handle", "Choose"},
         Now.do \notin {"Pump", "Abandon", "Forget"}
  PROVE  StackOk(stack', y) /\ Waits(y, host.timers, stack')
<1>0. StackOk(stack, session) /\ Good(session) /\ Waits(session, host.timers, stack)
  BY DEF IInv
<1>1. CASE ~Staged(y)
  <2>1. Continue(<<>> \o Rest)
    BY <1>1 DEF Runs
  <2> QED BY <1>0, <2>1, NoProgram, GoesOnWith
<1>2. CASE Staged(y)
  <2>1. PICK e : /\ Execute(y) = <<e>> /\ Edits(e) /\ Carries(e, y)
                 /\ e.token = The(y.pending).token
    BY <1>2, ExecuteEffect DEF Staged, GoesTo
  <2>2. PICK q : q = <<e>> \o Rest
    OBVIOUS
  <2>3. Continue(q)
    BY <1>2, <2>1, <2>2 DEF Runs
  <2>4. /\ Top # <<>> /\ IsSeq(Top) /\ IsSeq(Rest) /\ Program(Rest) /\ Loose(Rest)
        /\ Now.do \in {"Handle", "Choose"} => Pumps(Rest)
    BY <1>0, TopOk DEF Program
  <2>5. IsSeq(q) /\ q # <<>> /\ Head(q) = e /\ Tail(q) = Rest
    BY <2>2, <2>4, HeadAndTail
  <2>6. ASSUME NEW p \in y.pending, p.predict
        PROVE  Pumps(Rest)
    <3>1. p.token[1] = y.generation
      BY <2>6, TokenGeneration DEF GoesTo
    <3>2. y.generation > session.generation
      BY <1>2 DEF Staged
    <3>3. p \notin session.pending
      BY <1>0, <3>1, <3>2, TokenGeneration DEF Good, Shape
    <3> QED BY <2>4, <2>6, <3>3 DEF Silent
  <2>7. FrameOk(q, y)
    BY <2>1, <2>4, <2>5, <2>6 DEF FrameOk, Frame, Edits
  <2>8. Pumps(Top) => Pumps(q)
    BY <2>1, <2>2, <2>4, PumpsOn, PumpsAfter, OneInstruction DEF Now, Rest
  <2>9. Head(q).do # "Drop"
    BY <2>1, <2>5 DEF Edits
  <2> QED BY <1>0, <2>3, <2>5, <2>7, <2>8, <2>9, WaitsOn DEF GoesTo
<1> QED BY <1>1, <1>2

-----------------------------------------------------------------------------
(* The instructions. *)

LEMMA ListsAreFew ==
  ASSUME NEW x, Good(x)
  PROVE  Few(ShownOf(x).list) /\ Few(Hidden.list)
  BY DEF Good, FewRequests, Few, ShownOf, Hidden, Drawing

\* Most instructions leave the service and the host as they are.
LEMMA OnlySession ==
  ASSUME IInv, UNCHANGED <<svc, host, drawn>>, GoesTo(session, session'), Few(data'.list),
         StackOk(stack', session'), Waits(session', host.timers, stack')
  PROVE  IInv'
  BY DEF IInv, GoesTo, QueuedIsChecked

LEMMA RunsStep ==
  ASSUME IInv, stack # <<>>, NEW y, Runs(y), GoesTo(session, y),
         Silent(session, y) \/ Now.do \in {"Handle", "Choose"},
         Now.do \notin {"Pump", "Abandon", "Forget"},
         UNCHANGED <<svc, host, drawn>>, Few(data'.list)
  PROVE  IInv'
<1>1. StackOk(stack', y) /\ Waits(y, host.timers, stack') /\ session' = y
  BY RunsOn DEF Runs
<1> QED BY <1>1, OnlySession

\* The callback goes on, and nothing else happens.
LEMMA PassesOn ==
  ASSUME IInv, stack # <<>>, Continue(Rest), Now.do \notin {"Pump", "Abandon", "Forget"}
  PROVE  /\ GoesTo(session, session)
         /\ StackOk(stack', session) /\ Waits(session, host.timers, stack')
<1>1. /\ StackOk(stack, session) /\ Good(session) /\ Waits(session, host.timers, stack)
      /\ GoesTo(session, session)
  BY StaysPut DEF IInv
<1>2. IsSeq(Rest)
  BY <1>1, TopOk
<1>3. Continue(<<>> \o Rest)
  BY <1>2, EmptySequence
<1> QED BY <1>1, <1>3, NoProgram, GoesOnWith

LEMMA PassesStep ==
  ASSUME IInv, stack # <<>>, Continue(Rest), Now.do \notin {"Pump", "Abandon", "Forget"},
         UNCHANGED <<session, svc, host, data, drawn>>
  PROVE  IInv'
<1>1. session' = session /\ data' = data /\ Few(data.list)
  BY DEF IInv
<1> QED BY <1>1, PassesOn, OnlySession

\* Withdrawing the prediction ends the wait, so the callback may end too.
LEMMA ClearsStep ==
  ASSUME IInv, stack # <<>>, NEW q, ClearsPrediction(q), Loose(q), UNCHANGED <<svc, host, drawn>>
  PROVE  IInv'
<1>1. StackOk(stack, session) /\ Good(session) /\ Deferral(session, session.revision)
  BY DEF IInv
<1>2. PICK y : y = ClearPrediction(session)
  OBVIOUS
<1>3. Kept(session, y) /\ y.wait = {}
  BY <1>1, <1>2, ClearGood DEF NothingPredicted
<1>4. GoesTo(session, y) /\ session' = y /\ Continue(q)
  BY <1>1, <1>2, <1>3, KeptGoes DEF ClearsPrediction
<1>5. StackOk(stack', y) /\ Waits(y, host.timers, stack')
  BY <1>1, <1>3, <1>4, Ends
<1>6. Few(data'.list)
  BY <1>1, ListsAreFew DEF ClearsPrediction, IInv
<1> QED BY <1>4, <1>5, <1>6, OnlySession

LEMMA RunningHead ==
  ASSUME NEW name, Running(name), IInv
  PROVE  /\ stack # <<>> /\ Now.do = name /\ IsSeq(Rest) /\ Loose(Rest)
         /\ StackOk(stack, session) /\ Good(session) /\ Deferral(session, session.revision)
         /\ Waits(session, host.timers, stack)
<1>1. stack # <<>> /\ Now.do = name
  BY DEF Running, Now, Top
<1>2. /\ StackOk(stack, session) /\ Good(session) /\ Deferral(session, session.revision)
      /\ Waits(session, host.timers, stack)
  BY DEF IInv
<1> QED BY <1>1, <1>2, TopOk

LEMMA ClearStep == ASSUME IInv, Clear PROVE IInv'
<1>1. Running("Clear") /\ ClearsPrediction(Rest) /\ UNCHANGED <<svc, host, drawn>>
  BY DEF Clear
<1> QED BY <1>1, RunningHead, ClearsStep

LEMMA LeaveEditorStep == ASSUME IInv, LeaveEditor PROVE IInv'
<1>1. /\ Running("LeaveEditor") /\ Runs(LoseFocus(session))
      /\ UNCHANGED <<svc, host, data, drawn>>
  BY DEF LeaveEditor
<1>2. /\ stack # <<>> /\ Now.do = "LeaveEditor"
      /\ Good(session) /\ Deferral(session, session.revision) /\ Few(data'.list)
  BY <1>1, RunningHead DEF IInv
<1>3. GoesTo(session, LoseFocus(session)) /\ Silent(session, LoseFocus(session))
  BY <1>2, LoseFocusGood, KeptGoes
<1> QED BY <1>1, <1>2, <1>3, RunsStep

LEMMA ForgetStep == ASSUME IInv, Forget PROVE IInv'
<1>1. /\ Running("Forget") /\ session' = HostTerminated(session) /\ data' = Hidden
      /\ Continue(Rest) /\ UNCHANGED <<svc, host, drawn>>
  BY DEF Forget
<1>2. /\ stack # <<>> /\ Loose(Rest) /\ StackOk(stack, session)
      /\ Good(session) /\ Deferral(session, session.revision)
  BY <1>1, RunningHead
<1>3. Lost(session, session')
  BY <1>1, <1>2, TerminatedLost DEF Good
<1>4. GoesTo(session, session') /\ session'.wait = {} /\ Few(data'.list)
  BY <1>1, <1>2, <1>3, LostGoes, ListsAreFew
<1>5. StackOk(stack', session') /\ Waits(session', host.timers, stack')
  BY <1>1, <1>2, <1>4, Ends
<1> QED BY <1>1, <1>4, <1>5, OnlySession

\* The timers are gone, and nobody waits: the context was lost just before.
LEMMA DropStep == ASSUME IInv, Drop PROVE IInv'
<1>1. /\ Running("Drop") /\ svc' = Dropped(svc)
      /\ host' = [host EXCEPT !.timers = {}, !.click = {}, !.taken = {}]
      /\ drawn' = {} /\ Continue(Rest) /\ session' = session /\ data' = data
  BY DEF Drop
<1>2. /\ stack # <<>> /\ Now.do = "Drop" /\ Loose(Rest) /\ StackOk(stack, session)
      /\ Good(session) /\ Deferral(session, session.revision)
  BY <1>1, RunningHead
<1>3. session.wait = {} /\ GoesTo(session, session)
  BY <1>2, StaysPut DEF StackOk, Now, Top
<1>4. StackOk(stack', session) /\ Waits(session, {}, stack')
  BY <1>1, <1>2, <1>3, Ends
<1>5. svc' \in Services /\ svc'.queued = FALSE
  BY <1>1 DEF IInv, Services, Dropped
<1>6. GoodHost(host') /\ host'.timers = {}
  BY <1>1 DEF IInv, GoodHost
<1> QED BY <1>1, <1>2, <1>4, <1>5, <1>6 DEF IInv, QueuedIsChecked, Few

LEMMA DropCompositionStep == ASSUME IInv, DropComposition PROVE IInv'
<1>1. /\ Running("DropComposition") /\ svc' = [svc EXCEPT !.composition = {}]
      /\ Continue(Rest) /\ session' = session /\ host' = host /\ data' = data /\ drawn' = drawn
  BY DEF DropComposition
<1>2. stack # <<>> /\ Now.do = "DropComposition"
  BY <1>1, RunningHead
<1>3. StackOk(stack', session) /\ Waits(session, host.timers, stack')
  BY <1>1, <1>2, PassesOn
<1>4. svc' \in Services /\ svc'.queued = svc.queued
  BY <1>1 DEF IInv, Services, Bindings
<1> QED BY <1>1, <1>3, <1>4 DEF IInv, QueuedIsChecked

LEMMA RecoverStep == ASSUME IInv, RecoverNow PROVE IInv'
<1>1. /\ Running("Recover") /\ UNCHANGED <<svc, host, data, drawn>>
      /\ IF session.cleanup = {} THEN Continue(Rest) /\ UNCHANGED session
                                 ELSE Runs(Recover(session))
  BY DEF RecoverNow
<1>2. /\ stack # <<>> /\ Now.do = "Recover"
      /\ Good(session) /\ Deferral(session, session.revision) /\ Few(data'.list)
  BY <1>1, RunningHead DEF IInv
<1>3. GoesTo(session, Recover(session)) /\ Silent(session, Recover(session))
  BY <1>2, RecoverGood, KeptGoes
<1>4. CASE session.cleanup = {}
  BY <1>1, <1>2, <1>4, PassesStep
<1>5. CASE session.cleanup # {}
  BY <1>1, <1>2, <1>3, <1>5, RunsStep
<1> QED BY <1>4, <1>5

\* A session that must clean up waits for no model, so the callback may end.
LEMMA ReadyStep == ASSUME IInv, Ready PROVE IInv'
<1>1. /\ Running("Ready") /\ UNCHANGED <<session, svc, host, data, drawn>>
      /\ Continue(IF session.cleanup = {} THEN Rest ELSE <<>>)
  BY DEF Ready
<1>2. /\ stack # <<>> /\ Now.do = "Ready" /\ StackOk(stack, session)
      /\ Good(session) /\ Deferral(session, session.revision) /\ Few(data'.list)
  BY <1>1, RunningHead DEF IInv
<1>3. CASE session.cleanup = {}
  BY <1>1, <1>2, <1>3, PassesStep
<1>4. CASE session.cleanup # {}
  <2>1. session.wait = {} /\ GoesTo(session, session) /\ Continue(<<>>) /\ Loose(<<>>)
    BY <1>1, <1>2, <1>4, StaysPut, NoProgram DEF Good, WaitsWhereItMay, Program
  <2>2. StackOk(stack', session) /\ Waits(session, host.timers, stack')
    BY <1>2, <2>1, Ends
  <2> QED BY <1>1, <1>2, <2>1, <2>2, OnlySession
<1> QED BY <1>3, <1>4

LEMMA ReloadStep == ASSUME IInv, Reload PROVE IInv'
<1>1. PICK r \in DOMAIN Runtimes :
        /\ Running("Reload") /\ Runs(ApplyRuntime(session, r)) /\ UNCHANGED <<svc, host, drawn>>
        /\ data' = IF HasPrediction(session) /\ ~HasPrediction(ApplyRuntime(session, r))
                   THEN ShownOf(ApplyRuntime(session, r)) ELSE data
  BY DEF Reload
<1>2. PICK y : y = ApplyRuntime(session, r)
  OBVIOUS
<1>3. /\ stack # <<>> /\ Now.do = "Reload"
      /\ Good(session) /\ Deferral(session, session.revision) /\ Few(data.list)
  BY <1>1, RunningHead DEF IInv
<1>4. GoesTo(session, y) /\ Silent(session, y)
  BY <1>2, <1>3, RuntimeGoes
<1>5. Few(data'.list)
  BY <1>1, <1>2, <1>3, <1>4, ListsAreFew DEF GoesTo
<1> QED BY <1>1, <1>2, <1>3, <1>4, <1>5, RunsStep

LEMMA GateStep == ASSUME IInv, Gate PROVE IInv'
<1>1. /\ Running("Gate") /\ Runs(SetInputGate(session, Now.on))
      /\ UNCHANGED <<svc, host, data, drawn>>
  BY DEF Gate
<1>2. /\ stack # <<>> /\ Now.do = "Gate"
      /\ Good(session) /\ Deferral(session, session.revision) /\ Few(data'.list)
  BY <1>1, RunningHead DEF IInv
<1>3. PICK y : y = SetInputGate(session, Now.on)
  OBVIOUS
<1>4. GoesTo(session, y) /\ Silent(session, y)
  BY <1>2, <1>3, GateGood, KeptGoes
<1> QED BY <1>1, <1>2, <1>3, <1>4, RunsStep

\* A session that is switched off or must clean up waits for no model.
LEMMA TranslateStep == ASSUME IInv, Translate PROVE IInv'
<1>1. /\ Running("Translate") /\ UNCHANGED <<session, svc, host, data, drawn>>
      /\ Continue(IF session.cleanup # {} \/ ~session.gate THEN <<Do("Clear")>> ELSE Rest)
  BY DEF Translate
<1>2. /\ stack # <<>> /\ Now.do = "Translate" /\ StackOk(stack, session)
      /\ Good(session) /\ Deferral(session, session.revision) /\ Few(data'.list)
  BY <1>1, RunningHead DEF IInv
<1>3. CASE ~(session.cleanup # {} \/ ~session.gate)
  BY <1>1, <1>2, <1>3, PassesStep
<1>4. CASE session.cleanup # {} \/ ~session.gate
  <2>1. session.wait = {} /\ GoesTo(session, session) /\ Continue(<<Do("Clear")>>)
    BY <1>1, <1>2, <1>4, StaysPut DEF Good, WaitsWhereItMay
  <2>2. Loose(<<Do("Clear")>>)
    BY PlainInstruction DEF Do, Plain, Program
  <2>3. StackOk(stack', session) /\ Waits(session, host.timers, stack')
    BY <1>2, <2>1, <2>2, Ends
  <2> QED BY <1>1, <1>2, <2>1, <2>3, OnlySession
<1> QED BY <1>3, <1>4

\* A change of the host that is not about its timers.
SameTimers == host'.timers = host.timers /\ GoodHost(host')

LEMMA TestKeyStep == ASSUME IInv, TestKey PROVE IInv'
<1>1. /\ Running("TestKey") /\ UNCHANGED <<svc, drawn>>
      /\ \/ /\ host' = [host EXCEPT !.taken = {Now.key}] /\ Continue(Rest)
            /\ UNCHANGED <<session, data>>
         \/ ClearsPrediction(Rest) /\ UNCHANGED host
  BY DEF TestKey
<1>2. stack # <<>> /\ Now.do = "TestKey" /\ Loose(Rest)
  BY <1>1, RunningHead
<1>3. CASE /\ host' = [host EXCEPT !.taken = {Now.key}] /\ Continue(Rest)
           /\ UNCHANGED <<session, data>>
  <2>1. StackOk(stack', session) /\ Waits(session, host.timers, stack')
    BY <1>2, <1>3, PassesOn
  <2>2. SameTimers
    BY <1>3 DEF IInv, GoodHost, SameTimers
  <2> QED BY <1>1, <1>3, <2>1, <2>2 DEF IInv, SameTimers, QueuedIsChecked
<1>4. CASE ClearsPrediction(Rest) /\ UNCHANGED host
  BY <1>1, <1>2, <1>4, ClearsStep
<1> QED BY <1>1, <1>3, <1>4

\* An action of the user is followed by a question to the model, if it needs one.
LEMMA PreparesStep ==
  ASSUME IInv, stack # <<>>, Now.do \in {"Handle", "Choose"}, NEW a, Runs(Prepare(session, a)),
         UNCHANGED <<svc, host, data, drawn>>
  PROVE  IInv'
<1>1. PICK y : y = Prepare(session, a)
  OBVIOUS
<1>2. GoesTo(session, y) /\ Few(data'.list)
  BY <1>1, PrepareGood, KeptGoes DEF IInv
<1>3. Now.do \notin {"Pump", "Abandon", "Forget"}
  OBVIOUS
<1> QED BY <1>1, <1>2, <1>3, RunsStep

LEMMA HandleKeyStep == ASSUME IInv, HandleKey PROVE IInv'
<1>1. /\ Running("Handle") /\ UNCHANGED <<svc, host, data, drawn>>
      /\ Runs(Prepare(session, Now.key)) \/ (Continue(Rest) /\ UNCHANGED session)
  BY DEF HandleKey
<1>2. stack # <<>> /\ Now.do = "Handle"
  BY <1>1, RunningHead
<1> QED BY <1>1, <1>2, PreparesStep, PassesStep

LEMMA ChooseStep == ASSUME IInv, Choose PROVE IInv'
<1>1. /\ Running("Choose") /\ UNCHANGED <<svc, host, data, drawn>>
      /\ Runs(Prepare(session, Identity(Now.click))) \/ (Continue(Rest) /\ UNCHANGED session)
  BY DEF Choose
<1>2. stack # <<>> /\ Now.do = "Choose"
  BY <1>1, RunningHead
<1> QED BY <1>1, <1>2, PreparesStep, PassesStep

LEMMA ReadPrefixStep == ASSUME IInv, ReadPrefix PROVE IInv'
<1>1. PICK r : /\ Running("Read") /\ UNCHANGED <<svc, host, drawn>>
               /\ \/ /\ Continue(<<Do("Bind"), [do |-> "Assist", allowed |-> r.allowed],
                                   [do |-> "Observe", text |-> r.text,
                                    shown |-> HasPrediction(session)]>> \o Rest)
                     /\ UNCHANGED <<session, data>>
                  \/ ClearsPrediction(<<>>)
  BY DEF ReadPrefix
<1>2. /\ stack # <<>> /\ Now.do = "Read" /\ StackOk(stack, session)
      /\ Good(session) /\ Deferral(session, session.revision)
      /\ Waits(session, host.timers, stack)
  BY <1>1, RunningHead
<1>3. PICK p : p = <<Do("Bind"), [do |-> "Assist", allowed |-> r.allowed],
                     [do |-> "Observe", text |-> r.text, shown |-> HasPrediction(session)]>>
  OBVIOUS
<1>4. Program(p)
  BY <1>3, PlainTriple DEF Do, Plain
<1>5. CASE Continue(p \o Rest) /\ UNCHANGED <<session, data>>
  <2>1. GoesTo(session, session) /\ Few(data'.list)
    BY <1>2, <1>5, StaysPut DEF IInv
  <2>2. StackOk(stack', session) /\ Waits(session, host.timers, stack')
    BY <1>2, <1>4, <1>5, <2>1, GoesOnWith
  <2> QED BY <1>1, <1>5, <2>1, <2>2, OnlySession
<1>6. CASE ClearsPrediction(<<>>)
  BY <1>1, <1>2, <1>6, ClearsStep, NoProgram DEF Program
<1> QED BY <1>1, <1>3, <1>5, <1>6

\* The instruction is done on the session, and the callback goes on.
LEMMA GoesStep ==
  ASSUME IInv, stack # <<>>, Continue(Rest), Now.do \notin {"Pump", "Abandon", "Forget"},
         GoesTo(session, session')
  PROVE  StackOk(stack', session') /\ Waits(session', host.timers, stack')
<1>1. StackOk(stack, session) /\ Good(session) /\ Waits(session, host.timers, stack)
  BY DEF IInv
<1>2. Continue(<<>> \o Rest)
  BY <1>1, TopOk, EmptySequence
<1> QED BY <1>1, <1>2, NoProgram, GoesOnWith

LEMMA BindEditorStep == ASSUME IInv, BindEditor PROVE IInv'
<1>1. /\ Running("Bind") /\ Continue(Rest) /\ host' = host /\ data' = data /\ drawn' = drawn
      /\ \/ UNCHANGED <<session, svc>>
         \/ /\ svc' = [svc EXCEPT !.bound = {host.focus}]
            /\ session' = InvalidateContext(session,
                 [session.context EXCEPT !.editor = @ + 1, !.epoch = @ + 1], TRUE)
  BY DEF BindEditor
<1>2. /\ stack # <<>> /\ Now.do = "Bind" /\ Good(session)
      /\ Deferral(session, session.revision)
  BY <1>1, RunningHead
<1>3. CASE UNCHANGED <<session, svc>>
  BY <1>1, <1>2, <1>3, PassesStep
<1>4. CASE /\ svc' = [svc EXCEPT !.bound = {host.focus}]
           /\ session' = InvalidateContext(session,
                [session.context EXCEPT !.editor = @ + 1, !.epoch = @ + 1], TRUE)
  <2>1. PICK c : c = [session.context EXCEPT !.editor = @ + 1, !.epoch = @ + 1]
    OBVIOUS
  <2>2. DOMAIN c = ContextFields
    BY <1>2, <2>1 DEF Good, Shape
  <2>3. Lost(session, session')
    BY <1>2, <1>4, <2>1, <2>2, ContextLost DEF Good
  <2>4. GoesTo(session, session')
    BY <1>2, <2>3, LostGoes
  <2>5. StackOk(stack', session') /\ Waits(session', host.timers, stack')
    BY <1>1, <1>2, <2>4, GoesStep
  <2>6. svc' \in Services /\ svc'.queued = svc.queued
    BY <1>4 DEF IInv, Services, GoodHost, Bindings
  <2> QED BY <1>1, <2>4, <2>5, <2>6 DEF IInv, GoesTo, QueuedIsChecked
<1> QED BY <1>1, <1>3, <1>4

LEMMA AssistStep == ASSUME IInv, Assist PROVE IInv'
<1>1. /\ Running("Assist") /\ session' = SetAssistance(session, Now.allowed) /\ Continue(Rest)
      /\ UNCHANGED <<svc, host, data, drawn>>
  BY DEF Assist
<1>2. /\ stack # <<>> /\ Now.do = "Assist" /\ Good(session)
      /\ Deferral(session, session.revision) /\ Few(data'.list)
  BY <1>1, RunningHead DEF IInv
<1>3. GoesTo(session, session')
  BY <1>1, <1>2, AssistanceGood, KeptGoes
<1> QED BY <1>1, <1>2, <1>3, GoesStep, OnlySession

LEMMA ObserveTextStep == ASSUME IInv, ObserveText PROVE IInv'
<1>1. /\ Running("Observe") /\ Continue(Rest) /\ svc' = svc /\ drawn' = drawn
      /\ session' = session \/ session' = ObservePrefix(session, The(Now.text))
      /\ data' = Hidden \/ data' = data
      /\ host' = host \/ host' = [host EXCEPT !.unseen = WritingHost]
  BY DEF ObserveText
<1>2. /\ stack # <<>> /\ Now.do = "Observe" /\ Good(session)
      /\ Deferral(session, session.revision)
  BY <1>1, RunningHead
<1>3. GoesTo(session, session')
  BY <1>1, <1>2, StaysPut, ObserveGood, KeptGoes
<1>4. StackOk(stack', session') /\ Waits(session', host.timers, stack')
  BY <1>1, <1>2, <1>3, GoesStep
<1>5. SameTimers
  <2>1. CASE host' = host
    BY <2>1 DEF IInv, SameTimers
  <2>2. CASE host' = [host EXCEPT !.unseen = WritingHost]
    BY <2>2 DEF IInv, GoodHost, SameTimers
  <2> QED BY <1>1, <2>1, <2>2
<1>6. Few(data'.list)
  BY <1>1, <1>2, ListsAreFew DEF IInv
<1> QED BY <1>1, <1>3, <1>4, <1>5, <1>6 DEF IInv, GoesTo, SameTimers, QueuedIsChecked

\* Whoever still waits has its timer set again, or gives the request up.
LEMMA PumpStep == ASSUME IInv, Pump PROVE IInv'
<1>1. PICK y : /\ Running("Pump") /\ y \in Completions /\ session' = y
               /\ data' = (IF y = session THEN data ELSE ShownOf(y))
               /\ host' = IF y.wait # {} /\ svc.dispatch
                          THEN [host EXCEPT !.timers = Armed(@)] ELSE host
               /\ Continue((IF y.wait # {} /\ ~svc.dispatch THEN <<Do("Abandon")>> ELSE <<>>)
                           \o Rest)
               /\ svc' = svc /\ drawn' = drawn
  BY DEF Pump
<1>2. /\ stack # <<>> /\ Now.do = "Pump" /\ IsSeq(Rest) /\ Loose(Rest)
      /\ StackOk(stack, session) /\ Good(session) /\ Deferral(session, session.revision)
      /\ Waits(session, host.timers, stack)
  BY <1>1, RunningHead
<1>3. y = session \/ \E w, items : y = CompletePrediction(session, w, items)
  BY <1>1 DEF Completions
<1>4. GoesTo(session, y)
  BY <1>2, <1>3, CompleteGood, KeptGoes, StaysPut
<1>5. Few(data'.list)
  BY <1>1, <1>4, ListsAreFew DEF GoesTo, IInv
<1>6. Program(Rest)
  BY <1>2, TopOk
<1>7. GoodHost(host') /\ host.timers \subseteq host'.timers
  BY <1>1 DEF IInv, GoodHost, Armed
<1>8. CASE y.wait # {} /\ ~svc.dispatch
  <2>1. PICK q : q = <<Do("Abandon")>> \o Rest
    OBVIOUS
  <2>2. Program(<<Do("Abandon")>>)
    BY PlainInstruction DEF Do, Plain
  <2>3. Program(q)
    BY <1>6, <2>1, <2>2, CatProgram
  <2>4. IsSeq(q) /\ q # <<>> /\ Head(q) = Do("Abandon")
    BY <1>2, <2>1, HeadAndTail
  <2>5. Pumps(q)
    <3>1. 1 \in DOMAIN q /\ q[1].do = "Abandon"
      BY <2>4, DomainOf, TailOf DEF Do
    <3> QED BY <3>1 DEF Pumps
  <2>6. Continue(q)
    BY <1>1, <1>8, <2>1
  <2>7. Loose(q) /\ Head(q).do # "Drop"
    BY <2>3, <2>4 DEF Program, Do
  <2>8. FrameOk(q, y)
    BY <2>4, <2>7, LooseOk
  <2>9. StackOk(stack', y) /\ Waits(y, host'.timers, stack')
    BY <1>2, <1>4, <1>7, <2>4, <2>5, <2>6, <2>7, <2>8, WaitsOn DEF GoesTo
  <2> QED BY <1>1, <1>4, <1>5, <1>7, <2>9 DEF IInv, GoesTo, QueuedIsChecked
<1>9. CASE ~(y.wait # {} /\ ~svc.dispatch)
  <2>1. Continue(Rest)
    BY <1>1, <1>2, <1>9, EmptySequence
  <2>2. Rest # <<>> => FrameOk(Rest, y) /\ Head(Rest).do # "Drop"
    BY <1>2, <1>6, LooseOk, TailOf DEF Program
  <2>3. StackOk(stack', y)
    BY <1>2, <1>4, <2>1, <2>2, GoesOn DEF GoesTo
  <2>4. Waits(y, host'.timers, stack')
    BY <1>1, <1>9 DEF Waits, Armed, IInv, GoodHost
  <2> QED BY <1>1, <1>4, <1>5, <1>7, <2>3, <2>4 DEF IInv, GoesTo, QueuedIsChecked
<1> QED BY <1>8, <1>9

\* The request of a session is withdrawn when it is given up.
LEMMA AbandonedWaits ==
  ASSUME NEW x, Good(x), NEW items
  PROVE  CompletePrediction(x, The(x.wait), items).wait = {}
<1>1. x.wait # {} => The(x.wait) \in x.wait
  BY DEF The
<1> QED BY <1>1 DEF CompletePrediction, Good, Shape

LEMMA AbandonStep == ASSUME IInv, Abandon PROVE IInv'
<1>1. /\ Running("Abandon") /\ session' = CompletePrediction(session, The(session.wait), <<>>)
      /\ Continue(Rest) /\ UNCHANGED <<svc, host, data, drawn>>
  BY DEF Abandon
<1>2. /\ stack # <<>> /\ Loose(Rest) /\ StackOk(stack, session) /\ Good(session)
      /\ Deferral(session, session.revision) /\ Few(data'.list)
  BY <1>1, RunningHead DEF IInv
<1>3. GoesTo(session, session') /\ session'.wait = {}
  BY <1>1, <1>2, CompleteGood, KeptGoes, AbandonedWaits
<1>4. StackOk(stack', session') /\ Waits(session', host.timers, stack')
  BY <1>1, <1>2, <1>3, Ends
<1> QED BY <1>1, <1>2, <1>3, <1>4, OnlySession

\* The composition an edit leaves is in the context it was asked for or in the one it had.
LEMMA ResultsBound ==
  ASSUME NEW context \in Bindings, NEW c \in Bindings, NEW op, NEW r \in Results(op, context, c)
  PROVE  r.composition \in Bindings
<1> DEFINE target == IF c = {} THEN context ELSE c
<1>0. target \in Bindings /\ {} \in Bindings
  BY DEF Bindings
<1>1. \A b, outcome, wrote : Result(b, outcome, wrote).composition = b
  BY DEF Result
<1>2. \E b \in {c, {}, context, target} : \E outcome, wrote : r = Result(b, outcome, wrote)
  <2>1. CASE op.kind = "Update"
    BY <2>1 DEF Results
  <2>2. CASE op.kind = "Commit"
    BY <2>2 DEF Results
  <2>3. CASE op.kind = "CommitThenUpdate"
    BY <2>3 DEF Results
  <2>4. CASE op.kind \notin {"Update", "Commit", "CommitThenUpdate"}
    BY <2>4 DEF Results
  <2> QED BY <2>1, <2>2, <2>3, <2>4
<1>3. PICK b \in {c, {}, context, target} : \E outcome, wrote : r = Result(b, outcome, wrote)
  BY <1>2
<1>4. b \in Bindings
  BY <1>0
<1>5. r.composition = b
  BY <1>1, <1>3
<1> QED BY <1>4, <1>5

\* The edit becomes its acknowledgement, with what it carried.
LEMMA EditStep == ASSUME IInv, Edit PROVE IInv'
<1>1. PICK r \in Results(Now.op, Now.context, svc.composition) :
        /\ Running("Edit") /\ session' = session /\ data' = data /\ drawn' = drawn
        /\ svc' = [svc EXCEPT !.composition = r.composition]
        /\ host' = IF r.wrote THEN [host EXCEPT !.text = Written(@, Now.op)] ELSE host
        /\ Continue(<<[do |-> "Ack", token |-> Now.token, outcome |-> r.outcome,
                       data |-> Now.data, out |-> TRUE]>> \o Rest)
  BY DEF Edit
<1>2. /\ stack # <<>> /\ Now.do = "Edit" /\ IsSeq(Rest) /\ Loose(Rest)
      /\ StackOk(stack, session) /\ Good(session) /\ Deferral(session, session.revision)
      /\ Waits(session, host.timers, stack)
  BY <1>1, RunningHead
<1>3. FrameOk(Top, session) /\ Top # <<>> /\ IsSeq(Top) /\ Program(Rest)
  BY <1>2, TopOk
<1>4. /\ Carries(Now, session)
      /\ \A p \in session.pending : p.token = Now.token /\ p.predict => Pumps(Rest)
  BY <1>2, <1>3 DEF FrameOk, Edits, Now, Rest
<1>5. PICK a : a = [do |-> "Ack", token |-> Now.token, outcome |-> r.outcome,
                    data |-> Now.data, out |-> TRUE]
  OBVIOUS
<1>6. PICK q : q = <<a>> \o Rest
  OBVIOUS
<1>7. IsSeq(q) /\ q # <<>> /\ Head(q) = a /\ Tail(q) = Rest /\ Continue(q)
  BY <1>1, <1>2, <1>5, <1>6, HeadAndTail
<1>8. a.do = "Ack" /\ a.token = Now.token /\ a.data = Now.data
  BY <1>5
<1>9. Frame(q)
  BY <1>2, <1>3, <1>7, <1>8 DEF Frame
<1>10. Carries(a, session)
  BY <1>4, <1>8 DEF Carries
<1>11. FrameOk(q, session)
  BY <1>4, <1>7, <1>8, <1>9, <1>10 DEF FrameOk
<1>12. Pumps(Top) => Pumps(q)
  BY <1>2, <1>3, <1>6, PumpsOn, PumpsAfter, OneInstruction DEF Now, Rest
<1>13. GoesTo(session, session)
  BY <1>2, StaysPut
<1>14. StackOk(stack', session) /\ Waits(session, host.timers, stack')
  BY <1>2, <1>7, <1>8, <1>11, <1>12, <1>13, WaitsOn DEF GoesTo
<1>15. r.composition \in Bindings
  BY <1>2, <1>4, ResultsBound DEF Carries, IInv, Services
<1>16. svc' \in Services /\ svc'.queued = svc.queued
  BY <1>1, <1>15 DEF IInv, Services
<1>17. SameTimers
  <2>1. CASE host' = host
    BY <2>1 DEF IInv, SameTimers
  <2>2. CASE host' = [host EXCEPT !.text = Written(@, Now.op)]
    BY <2>2 DEF IInv, GoodHost, SameTimers
  <2> QED BY <1>1, <2>1, <2>2
<1> QED BY <1>1, <1>14, <1>16, <1>17 DEF IInv, SameTimers, QueuedIsChecked

\* The model may be asked now, and the frame goes on to ask.
LEMMA AckStep == ASSUME IInv, Ack PROVE IInv'
<1> DEFINE y == Acknowledge(session, Now.token, Now.outcome, session.context.owns)
<1>1. /\ Running("Ack") /\ session' = y /\ Continue(Rest) /\ UNCHANGED <<svc, drawn>>
      /\ data' \in {Published(y, Now.data), Hidden, data}
      /\ \E unseen : host' = [host EXCEPT !.unseen = unseen]
  BY DEF Ack
<1>2. /\ stack # <<>> /\ Now.do = "Ack" /\ IsSeq(Rest) /\ Loose(Rest)
      /\ StackOk(stack, session) /\ Good(session) /\ Deferral(session, session.revision)
      /\ Waits(session, host.timers, stack)
  BY <1>1, RunningHead
<1>3. FrameOk(Top, session) /\ Top # <<>> /\ IsSeq(Top) /\ Program(Rest)
  BY <1>2, TopOk
<1>4. /\ Carries(Now, session)
      /\ \A p \in session.pending : p.token = Now.token /\ p.predict => Pumps(Rest)
  BY <1>2, <1>3 DEF FrameOk, Edits, Now, Rest
<1>5. /\ Good(y) /\ Advances(session, y) /\ Deferral(y, session.revision)
      /\ y.wait # {} => \/ session.wait # {}
                        \/ IsCurrent(session, Now.token) /\ The(session.pending).predict
  BY <1>2, AcknowledgeGood DEF AnswerTaken, Moves
<1> HIDE DEF y
<1>6. Deferral(y, y.revision)
  BY <1>5, NothingDeferred
<1>7. Rest # <<>> => FrameOk(Rest, y) /\ Head(Rest).do # "Drop"
  BY <1>2, <1>3, LooseOk, TailOf DEF Program
<1>8. /\ StackOk(stack', y)
      /\ Rest # <<>> /\ Pumps(Rest) => Asks(stack')
      /\ \A q \in Below(stack) : Pumps(q) => Asks(stack')
  BY <1>1, <1>2, <1>5, <1>7, GoesOn
<1>9. Pumps(Rest) => Asks(stack')
  BY <1>8, EmptySequence, DomainOf DEF Pumps
<1>10. Asks(stack) => Asks(stack')
  <2>1. FramesOf(stack) = {Top} \cup Below(stack)
    BY <1>2, StackOf DEF StackOk, Top
  <2>2. Pumps(Top) => Pumps(Rest)
    BY <1>2, <1>3, PumpsOn DEF Now, Rest
  <2> QED BY <1>8, <1>9, <2>1, <2>2 DEF Asks
<1>11. IsCurrent(session, Now.token) /\ The(session.pending).predict => Pumps(Rest)
  <2> SUFFICES ASSUME IsCurrent(session, Now.token), The(session.pending).predict
               PROVE  Pumps(Rest)
    OBVIOUS
  <2>1. PICK p \in session.pending : p.token = Now.token
    BY DEF IsCurrent
  <2>2. The(session.pending) \in session.pending
    BY <2>1 DEF The
  <2>3. The(session.pending) = p
    BY <1>2, <2>2 DEF Good, FewPlans, Few
  <2> QED BY <1>4, <2>1, <2>3
<1>12. Waits(y, host.timers, stack')
  BY <1>2, <1>5, <1>9, <1>10, <1>11 DEF Waits
<1>13. Few(data'.list)
  BY <1>1, <1>4, <1>5, <1>2, ListsAreFew DEF Published, Carries, IInv
<1>14. SameTimers
  BY <1>1 DEF IInv, GoodHost, SameTimers
<1> QED BY <1>1, <1>5, <1>6, <1>8, <1>12, <1>13, <1>14 DEF IInv, SameTimers, QueuedIsChecked

-----------------------------------------------------------------------------
(* The callbacks. *)

\* A callback begins where an edit is out, and asks if it took the timer.
LEMMA Enters ==
  ASSUME IInv, MayEnter, NEW q, Program(q), q # <<>>, Starts(q),
         NEW u, "Model" \in host.timers => "Model" \in u \/ Pumps(q)
  PROVE  StackOk(stack', session) /\ Waits(session, u, stack')
<1>1. StackOk(stack, session) /\ Good(session) /\ Waits(session, host.timers, stack)
  BY DEF IInv
<1>2. /\ IsSeq(stack') /\ stack' # <<>> /\ Head(stack') = q
      /\ Below(stack') = FramesOf(stack) /\ FramesOf(stack') = {q} \cup FramesOf(stack)
  BY <1>1, PushEffect DEF StackOk, Starts
<1>3. Loose(q) /\ Head(q).do # "Drop" /\ FrameOk(q, session)
  <2>1. Loose(q) /\ IsSeq(q)
    BY DEF Program, Loose
  <2>2. FrameOk(q, session)
    BY <2>1, LooseOk
  <2>3. Head(q) = q[1]
    BY <2>1, TailOf
  <2> QED BY <2>1, <2>2, <2>3 DEF Program
<1>4. \A r \in FramesOf(stack) : IsOut(Head(r))
  <2>1. CASE stack = <<>>
    BY <2>1, EmptySequence, DomainOf DEF FramesOf
  <2>2. CASE stack # <<>>
    BY <1>1, <2>2, StackOf DEF StackOk, MayEnter, Now, Top
  <2> QED BY <2>1, <2>2
<1>5. StackOk(stack', session)
  BY <1>1, <1>2, <1>3, <1>4 DEF StackOk
<1> QED BY <1>1, <1>2, <1>5 DEF Waits, Asks

LEMMA CallbackStep ==
  ASSUME IInv, UNCHANGED <<session, data, drawn>>, svc' \in Services, GoodHost(host'),
         QueuedIsChecked', StackOk(stack', session), Waits(session, host'.timers, stack')
  PROVE  IInv'
  BY DEF IInv

\* A callback that leaves the service and the timers alone.
LEMMA PlainCallback ==
  ASSUME IInv, MayEnter, NEW q, Program(q), q # <<>>, Starts(q), SameTimers,
         UNCHANGED <<session, svc, data, drawn>>
  PROVE  IInv'
<1>1. StackOk(stack', session) /\ Waits(session, host'.timers, stack')
  BY Enters DEF SameTimers
<1> QED BY <1>1, CallbackStep DEF SameTimers, QueuedIsChecked, IInv

\* One more callback.
LEMMA EnteredHost ==
  ASSUME IInv, MayEnter
  PROVE  GoodHost(Entered) /\ Entered.timers = host.timers /\ Entered.focus = host.focus
  BY TextServiceAssumption DEF IInv, GoodHost, MayEnter, Entered

LEMMA EndsIn ==
  ASSUME NEW p, NEW q, Program(p), Program(q), q # <<>>
  PROVE  Program(p \o q) /\ p \o q # <<>>
<1>1. IsSeq(p) /\ IsSeq(q)
  BY DEF Program, Loose
<1> QED BY <1>1, CatProgram, NotEmpty

LEMMA OneProgram ==
  ASSUME NEW a, a.do \in Plain
  PROVE  Program(<<a>>) /\ <<a>> # <<>>
  BY PlainInstruction, OneInstruction

LEMMA ClearProgram == Program(<<Do("Clear")>>) /\ <<Do("Clear")>> # <<>>
  BY OneProgram DEF Do, Plain

LEMMA TestKeyDownStep ==
  ASSUME IInv, NEW key, OnTestKeyDown(key)
  PROVE  IInv'
<1> DEFINE a == [do |-> "TestKey", key |-> key]
<1>1. Program(<<a>>) /\ <<a>> # <<>>
  BY OneProgram DEF Plain
<1>2. Program(Translated \o <<a>>) /\ Translated \o <<a>> # <<>>
  BY <1>1, TranslatedProgram, EndsIn
<1>3. MayEnter /\ Starts(Translated \o <<a>>) /\ UNCHANGED <<session, svc, data, drawn>>
  BY DEF OnTestKeyDown
<1> HIDE DEF a
<1>4. SameTimers
  BY EnteredHost DEF OnTestKeyDown, SameTimers, GoodHost
<1> QED BY <1>2, <1>3, <1>4, PlainCallback

LEMMA OtherKeyStep == ASSUME IInv, OnOtherKey PROVE IInv'
<1>1. Program(Translated \o <<Do("Clear")>>) /\ Translated \o <<Do("Clear")>> # <<>>
  BY ClearProgram, TranslatedProgram, EndsIn
<1>2. /\ MayEnter /\ Starts(Translated \o <<Do("Clear")>>)
      /\ UNCHANGED <<session, svc, data, drawn>>
  BY DEF OnOtherKey
<1>3. SameTimers
  BY EnteredHost DEF OnOtherKey, SameTimers, GoodHost
<1> QED BY <1>1, <1>2, <1>3, PlainCallback

LEMMA KeyDownStep == ASSUME IInv, OnKeyDown PROVE IInv'
<1> DEFINE read == IF Prediction(session).enabled
                   THEN <<[do |-> "Read", strict |-> FALSE]>> ELSE <<>>
           handle == <<[do |-> "Handle", key |-> The(host.taken)], Do("Pump")>>
<1>1. Program(read)
  <2>1. Program(<<[do |-> "Read", strict |-> FALSE]>>)
    BY OneProgram DEF Plain
  <2> QED BY <2>1, NoProgram
<1>2. Program(handle) /\ handle # <<>>
  BY KeyProgram, TwoInstructions, DomainOf
<1>3. MayEnter /\ Starts(Translated \o read \o handle) /\ UNCHANGED <<session, svc, data, drawn>>
  BY DEF OnKeyDown
<1> HIDE DEF read, handle
<1>4. Program(Translated \o read)
  BY <1>1, TranslatedProgram, CatProgram
<1>5. Program((Translated \o read) \o handle) /\ (Translated \o read) \o handle # <<>>
  BY <1>2, <1>4, EndsIn
<1>6. SameTimers
  BY EnteredHost DEF OnKeyDown, SameTimers, GoodHost
<1> QED BY <1>3, <1>5, <1>6, PlainCallback

LEMMA FocusLostStep ==
  ASSUME IInv, NEW e \in Editors, OnFocusLost(e)
  PROVE  IInv'
<1>1. MayEnter /\ Starts(Lose) /\ UNCHANGED <<session, svc, data, drawn>>
  BY DEF OnFocusLost
<1>2. SameTimers
  BY EnteredHost DEF OnFocusLost, SameTimers, GoodHost
<1> QED BY <1>1, <1>2, LoseProgram, PlainCallback

LEMMA CompositionTerminatedStep == ASSUME IInv, OnCompositionTerminated PROVE IInv'
<1> DEFINE q == <<Do("Clear"), Do("Forget")>>
<1>1. Program(q) /\ q # <<>>
  BY PlainPair, TwoInstructions, DomainOf DEF Do, Plain
<1>2. /\ MayEnter /\ Starts(q) /\ UNCHANGED <<session, data, drawn>> /\ host' = Entered
      /\ svc' = [svc EXCEPT !.composition = {}]
  BY DEF OnCompositionTerminated
<1> HIDE DEF q
<1>3. GoodHost(host') /\ host'.timers = host.timers
  BY <1>2, EnteredHost
<1>4. svc' \in Services /\ svc'.queued = svc.queued
  BY <1>2 DEF IInv, Services, Bindings
<1>5. StackOk(stack', session) /\ Waits(session, host'.timers, stack')
  BY <1>1, <1>2, <1>3, Enters
<1> QED BY <1>2, <1>3, <1>4, <1>5, CallbackStep DEF IInv, QueuedIsChecked

LEMMA EndEditStep ==
  ASSUME IInv, NEW text, OnEndEdit(text)
  PROVE  IInv'
<1>1. PICK queues \in BOOLEAN :
        /\ MayEnter /\ session' = session /\ data' = data /\ drawn' = drawn
        /\ host' = [Entered EXCEPT !.text = text, !.unseen = @ \/ WritingHost,
                                   !.timers = IF queues THEN @ \cup {"Verify"} ELSE @]
        /\ svc' = [svc EXCEPT !.queued = @ \/ queues]
        /\ Starts(<<Do("Clear")>>) \/ stack' = stack
  BY DEF OnEndEdit
<1>2. /\ GoodHost(host') /\ host.timers \subseteq host'.timers
      /\ queues => "Verify" \in host'.timers
  BY <1>1, EnteredHost DEF GoodHost
<1>3. svc' \in Services /\ svc'.queued = (svc.queued \/ queues)
  BY <1>1 DEF IInv, Services
<1>4. StackOk(stack', session) /\ Waits(session, host'.timers, stack')
  <2>1. CASE Starts(<<Do("Clear")>>)
    BY <1>1, <1>2, <2>1, ClearProgram, Enters
  <2>2. CASE stack' = stack
    BY <1>2, <2>2 DEF IInv, Waits
  <2> QED BY <1>1, <2>1, <2>2
<1>5. QueuedIsChecked'
  BY <1>2, <1>3 DEF IInv, QueuedIsChecked
<1> QED BY <1>1, <1>2, <1>3, <1>4, <1>5, CallbackStep

\* The mode of the compartment is applied, and what it ends withdrawn first.
LEMMA ModeProgram ==
  ASSUME NEW on
  PROVE  LET q == (IF on THEN <<>> ELSE <<Do("Clear")>>) \o <<[do |-> "Gate", on |-> on]>>
         IN Program(q) /\ q # <<>>
<1>1. Program(<<[do |-> "Gate", on |-> on]>>) /\ <<[do |-> "Gate", on |-> on]>> # <<>>
  BY OneProgram DEF Plain
<1>2. PICK a : a = IF on THEN <<>> ELSE <<Do("Clear")>>
  OBVIOUS
<1>3. Program(a)
  BY <1>2, NoProgram, ClearProgram
<1> QED BY <1>1, <1>2, <1>3, EndsIn

LEMMA ModeChangeStep ==
  ASSUME IInv, NEW on, OnModeChange(on)
  PROVE  IInv'
<1>1. PICK q : q = (IF on THEN <<>> ELSE <<Do("Clear")>>) \o <<[do |-> "Gate", on |-> on]>>
  OBVIOUS
<1>2. MayEnter /\ Starts(q) /\ UNCHANGED <<session, svc, data, drawn>>
  BY <1>1 DEF OnModeChange
<1>3. SameTimers
  BY <1>2, EnteredHost DEF OnModeChange, SameTimers
<1> QED BY <1>1, <1>2, <1>3, ModeProgram, PlainCallback

LEMMA ActivateStep ==
  ASSUME IInv, NEW on, Activate(on)
  PROVE  IInv'
<1>1. PICK q : q = (IF on THEN <<>> ELSE <<Do("Clear")>>) \o <<[do |-> "Gate", on |-> on]>>
  OBVIOUS
<1>2. PICK dispatch \in BOOLEAN :
        /\ MayEnter /\ Starts(q) /\ UNCHANGED <<session, data, drawn>> /\ host' = Entered
        /\ svc' = [svc EXCEPT !.active = TRUE, !.dispatch = dispatch, !.watched = {host.focus}]
  BY <1>1 DEF Activate
<1>3. GoodHost(host') /\ host'.timers = host.timers
  BY <1>2, EnteredHost
<1>4. svc' \in Services /\ svc'.queued = svc.queued
  BY <1>2 DEF IInv, Services, Bindings, GoodHost
<1>5. StackOk(stack', session) /\ Waits(session, host'.timers, stack')
  BY <1>1, <1>2, <1>3, ModeProgram, Enters
<1> QED BY <1>2, <1>3, <1>4, <1>5, CallbackStep DEF IInv, QueuedIsChecked

\* The timer that was taken is replaced by the question itself.
LEMMA ModelTimerStep == ASSUME IInv, OnModelTimer PROVE IInv'
<1>1. /\ MayEnter /\ Starts(<<Do("Pump")>>) /\ UNCHANGED <<session, svc, data, drawn>>
      /\ host' = [Entered EXCEPT !.timers = @ \ {"Model"}]
  BY DEF OnModelTimer
<1>2. Program(<<Do("Pump")>>) /\ <<Do("Pump")>> # <<>>
  BY OneProgram DEF Do, Plain
<1>3. Pumps(<<Do("Pump")>>)
  BY OneInstruction, DomainOf DEF Pumps, Do
<1>4. StackOk(stack', session) /\ Waits(session, host'.timers, stack')
  BY <1>1, <1>2, <1>3, Enters
<1>5. GoodHost(host') /\ host'.timers = host.timers \ {"Model"}
  BY <1>1, EnteredHost DEF GoodHost
<1> QED BY <1>1, <1>4, <1>5, CallbackStep DEF IInv, QueuedIsChecked

LEMMA VerifyTimerStep == ASSUME IInv, OnVerifyTimer PROVE IInv'
<1> DEFINE q == <<Do("Reload")>> \o PrepareContext \o <<[do |-> "Read", strict |-> TRUE]>>
<1>1. /\ MayEnter /\ UNCHANGED <<session, data, drawn>>
      /\ host' = [Entered EXCEPT !.timers = @ \ {"Verify"}]
      /\ svc' = [svc EXCEPT !.queued = FALSE]
      /\ Starts(q) \/ stack' = stack
  BY DEF OnVerifyTimer
<1>2. Program(q) /\ q # <<>>
  <2>1. Program(<<Do("Reload")>>) /\ Program(<<[do |-> "Read", strict |-> TRUE]>>)
        /\ <<[do |-> "Read", strict |-> TRUE]>> # <<>>
    BY OneProgram DEF Do, Plain
  <2>2. Program(<<Do("Reload")>> \o PrepareContext)
    BY <2>1, PreparedProgram, CatProgram
  <2> QED BY <2>1, <2>2, EndsIn
<1> HIDE DEF q
<1>3. GoodHost(host') /\ host'.timers = host.timers \ {"Verify"}
  BY <1>1, EnteredHost DEF GoodHost
<1>4. svc' \in Services /\ svc'.queued = FALSE
  BY <1>1 DEF IInv, Services
<1>5. StackOk(stack', session) /\ Waits(session, host'.timers, stack')
  <2>1. CASE Starts(q)
    BY <1>1, <1>2, <1>3, <2>1, Enters
  <2>2. CASE stack' = stack
    BY <1>3, <2>2 DEF IInv, Waits
  <2> QED BY <1>1, <2>1, <2>2
<1> QED BY <1>1, <1>3, <1>4, <1>5, CallbackStep DEF QueuedIsChecked

LEMMA CandidateClickStep == ASSUME IInv, OnCandidateClick PROVE IInv'
<1> DEFINE choose == <<[do |-> "Read", strict |-> TRUE],
                       [do |-> "Choose", click |-> The(host.click)], Do("Pump")>>
<1>1. /\ MayEnter /\ Starts(<<Do("Reload")>> \o PrepareContext \o choose)
      /\ UNCHANGED <<session, svc, data, drawn>>
  BY DEF OnCandidateClick
<1>2. Program(choose) /\ choose # <<>>
  BY ClickProgram, ThreeInstructions, DomainOf
<1> HIDE DEF choose
<1>3. Program(<<Do("Reload")>> \o PrepareContext)
  BY OneProgram, PreparedProgram, CatProgram DEF Do, Plain
<1>4. SameTimers
  BY EnteredHost DEF OnCandidateClick, SameTimers, GoodHost
<1> QED BY <1>1, <1>2, <1>3, <1>4, EndsIn, PlainCallback

LEMMA DeactivateStep == ASSUME IInv, Deactivate PROVE IInv'
<1> DEFINE q == <<Do("DropComposition"), Do("Clear"), Do("Forget"), Do("Drop")>>
<1>1. MayEnter /\ Starts(Lose \o q) /\ UNCHANGED <<session, svc, data, drawn>> /\ host' = Entered
  BY DEF Deactivate
<1>2. q \in Seq({Do("DropComposition"), Do("Clear"), Do("Forget"), Do("Drop")}) /\ q # <<>>
  OBVIOUS
<1>3. Lose \o q # <<>>
  BY <1>2, LoseProgram, NotEmpty DEF IsSeq, Program, Loose
<1>4. SameTimers
  BY <1>1, EnteredHost DEF SameTimers
<1> QED BY <1>1, <1>3, <1>4, DeactivateProgram, PlainCallback

-----------------------------------------------------------------------------
(* The window, and the specification. *)

LEMMA DrawStep == ASSUME IInv, Draw PROVE IInv'
  BY DEF IInv, Draw, QueuedIsChecked, Few

LEMMA ClickStep ==
  ASSUME IInv, NEW i, Click(i)
  PROVE  IInv'
<1>1. GoodHost(host') /\ host'.timers = host.timers
  BY DEF IInv, Click, GoodHost
<1>2. /\ session' = session /\ svc' = svc /\ data' = data /\ drawn' = drawn /\ stack' = stack
  BY DEF Click
<1> QED BY <1>1, <1>2 DEF IInv, QueuedIsChecked

LEMMA InitIInv == Init => IInv
<1> SUFFICES ASSUME Init
             PROVE  IInv
  OBVIOUS
<1>1. PICK c : /\ session = NewSession(1, c) /\ DOMAIN c = ContextFields
  BY DEF Init, ContextFields
<1>2. Good(session) /\ Deferral(session, session.revision) /\ session.wait = {}
  BY <1>1, NewGood, SessionAssumption
<1>3. svc \in Services /\ GoodHost(host) /\ svc.queued = FALSE
  <2>1. PICK e \in Editors :
          host = [focus |-> e, text |-> <<>>, timers |-> {}, taken |-> {},
                  click |-> {}, unseen |-> FALSE, calls |-> 0]
    BY DEF Init
  <2>2. GoodHost(host)
    BY <2>1, TextServiceAssumption DEF GoodHost, HostFields
  <2> QED BY <2>2 DEF Init, Services, Bindings
<1>4. IsSeq(stack) /\ stack = <<>> /\ FramesOf(stack) = {} /\ Below(stack) = {}
  BY EmptySequence, DomainOf DEF Init, FramesOf, Below
<1>5. Few(data.list) /\ Few(drawn)
  BY DEF Init, Few, Hidden, Drawing
<1> QED BY <1>2, <1>3, <1>4, <1>5 DEF IInv, StackOk, Waits, QueuedIsChecked

LEMMA NextIInv == IInv /\ [Next]_vars => IInv'
<1> SUFFICES ASSUME IInv, [Next]_vars
             PROVE  IInv'
  OBVIOUS
<1>1. CASE Instruction
  BY <1>1, ClearStep, LeaveEditorStep, ForgetStep, DropStep, DropCompositionStep, RecoverStep,
     ReadyStep, ReloadStep, GateStep, TranslateStep, TestKeyStep, HandleKeyStep, ChooseStep,
     ReadPrefixStep, BindEditorStep, AssistStep, ObserveTextStep, PumpStep, AbandonStep,
     EditStep, AckStep DEF Instruction
<1>2. CASE Callback
  BY <1>2, TestKeyDownStep, OtherKeyStep, KeyDownStep, CompositionTerminatedStep,
     FocusLostStep, EndEditStep, ModeChangeStep, ActivateStep, ModelTimerStep,
     VerifyTimerStep, CandidateClickStep, DeactivateStep DEF Callback
<1>3. CASE Draw
  BY <1>3, DrawStep
<1>4. ASSUME NEW i, Click(i)
      PROVE  IInv'
  BY <1>4, ClickStep
<1>5. CASE UNCHANGED vars
  BY <1>5 DEF vars, IInv, QueuedIsChecked
<1> QED BY <1>1, <1>2, <1>3, <1>4, <1>5 DEF Next

LEMMA SpecIInv == Spec => []IInv
  BY InitIInv, NextIInv, PTL DEF Spec

LEMMA FewAreCounted ==
  ASSUME NEW S, Few(S)
  PROVE  Cardinality(S) \in {0, 1}
<1>1. CASE S = {}
  BY <1>1, FS_EmptySet
<1>2. CASE S # {}
  <2>1. PICK x : x \in S
    BY <1>2
  <2>2. S = {x}
    BY <2>1 DEF Few
  <2> QED BY <2>2, FS_Singleton
<1> QED BY <1>1, <1>2

LEMMA IInvTyped == IInv => TypeOK
<1> SUFFICES ASSUME IInv
             PROVE  TypeOK
  OBVIOUS
<1>1. session.revision \in DOMAIN Runtimes /\ host.focus \in Editors
      /\ host.timers \subseteq {"Model", "Verify"} /\ host.calls \in 0..MaxCalls
  BY DEF IInv, Deferral, GoodHost
<1>2. \A b \in Bindings : b \subseteq Editors /\ Few(b)
  BY DEF Bindings, Few
<1>3. {svc.bound, svc.composition, svc.watched} \subseteq Bindings
  BY DEF IInv, Services
<1>4. {Cardinality(svc.bound), Cardinality(svc.composition), Cardinality(drawn)} \subseteq {0, 1}
  BY <1>2, <1>3, FewAreCounted DEF IInv
<1>5. \A f \in DOMAIN stack : stack[f] # <<>>
  BY DEF IInv, StackOk, FramesOf, FrameOk, Frame
<1> QED BY <1>1, <1>2, <1>3, <1>4, <1>5 DEF TypeOK

\* Whoever waits has something that ends the wait.  A session that waits for the model has a
\* timer set, or a callback in progress that will ask again or give up, however the callbacks
\* are nested in the edits and whatever the host refuses; and a queued check of the text has
\* its timer.
THEOREM TimersAreAlwaysSet == Spec => []TimersAreSet
<1>1. IInv => TimersAreSet
  <2>1. IInv => AwaitedIsPumped
    BY DEF IInv, Waits, Asks, FramesOf, Pumps, AwaitedIsPumped, IsComing
  <2> QED BY <2>1, IInvTyped DEF IInv, TimersAreSet
<1> QED BY SpecIInv, <1>1, PTL

\* What the session keeps when its calls come in the order of the service: the plan that is
\* out is the one its token names and hides every list, a request is about the present token,
\* prefix and list, and no text is kept for an editor that does not allow it.
SessionIsSound ==
  /\ PlanIsCurrent(session) /\ (session.pending # {} => NothingPredicted(session))
  /\ RequestIsCurrent(session) /\ PrefixIsAllowed(session)

\* The invariants of the session hold inside the service too, whatever its callbacks do.
THEOREM SessionStaysSound == Spec => []SessionIsSound
<1>1. IInv => SessionIsSound
  BY DEF IInv, Good, SessionIsSound
<1> QED BY SpecIInv, <1>1, PTL

\* An edit that is out never carries a token the session has not issued yet, and only the
\* callbacks whose edit is out have others inside them.
EditsAreIssued ==
  /\ \A f \in DOMAIN stack :
       Edits(Head(stack[f])) => Head(stack[f]).token[1] <= session.generation
  /\ \A f \in 2..Len(stack) : IsOut(Head(stack[f]))

\* The edits of the stack are the session's, and nested as the host nests them.
THEOREM EditsAreAlwaysIssued == Spec => []EditsAreIssued
<1>1. IInv => EditsAreIssued
  BY DEF IInv, StackOk, FramesOf, Below, FrameOk, Carries, EditsAreIssued
<1> QED BY SpecIInv, <1>1, PTL

-----------------------------------------------------------------------------
(***************************************************************************)
(* The lists.  A list of predictions is in the session, in the plan that   *)
(* would bring it back, in what was published for the window, in what an   *)
(* edit is to publish, on the screen and under a click.  The query of a    *)
(* list tells which of them are the same, and the generation tells a list  *)
(* of the present from those of the past.                                  *)
(***************************************************************************)

USE DEF SessionFields, ContextFields, PrefixFields

\* What is drawn of the list l, as the session shows it.
DrawnAs(x, l, d) == d.list \subseteq l /\ (x.view.prediction => d = Drawing(x.view, l))

\* ... of the list that may be chosen from, and of the one that a refusal would bring back.
ListKept(x, d) ==
  /\ HasPrediction(x) => DrawnAs(x, x.prediction, d)
  /\ \A p \in x.pending : p.previous # {} => DrawnAs(x, p.previous, d)

\* The lists a session may publish or bring back.
Held(x) == x.prediction \cup UNION {p.previous : p \in x.pending}

\* Nothing is shown, and nothing comes back, where a preedit is to be cleaned up.
CleanupIsBare(x) == x.cleanup # {} => Held(x) = {} /\ ~x.view.prediction

\* What most calls do to the lists: none comes that was not there, and what is drawn stays
\* as true as it was.
Sheds(x, y) ==
  /\ Held(y) \subseteq Held(x)
  /\ y.wait # {} => x.wait # {}
  /\ \A d : ListKept(x, d) => ListKept(y, d)
  /\ CleanupIsBare(x) => CleanupIsBare(y)

LEMMA ShedsTransitive ==
  ASSUME NEW x, NEW y, NEW z, Sheds(x, y), Sheds(y, z)
  PROVE  Sheds(x, z)
  BY DEF Sheds

LEMMA ShedsNothing ==
  ASSUME NEW x
  PROVE  Sheds(x, x)
  BY DEF Sheds

\* The list is withdrawn, or stays with the view.
LEMMA Withdraws ==
  ASSUME NEW x, NEW y, y.prediction = {} \/ (y.prediction = x.prediction /\ y.wait = x.wait),
         y.wait \subseteq x.wait, y.pending \subseteq x.pending,
         y.view = x.view \/ ~y.view.prediction, y.cleanup \subseteq x.cleanup
  PROVE  Sheds(x, y)
<1>1. Held(y) \subseteq Held(x)
  BY DEF Held
<1>2. \A l, d : DrawnAs(x, l, d) => DrawnAs(y, l, d)
  BY DEF DrawnAs
<1>3. HasPrediction(y) => HasPrediction(x) /\ y.prediction = x.prediction
  BY DEF HasPrediction
<1>4. \A d : ListKept(x, d) => ListKept(y, d)
  BY <1>2, <1>3 DEF ListKept
<1>5. CleanupIsBare(x) => CleanupIsBare(y)
  BY <1>1 DEF CleanupIsBare
<1> QED BY <1>1, <1>4, <1>5 DEF Sheds

\* No list is left.
LEMMA NoneKept ==
  ASSUME NEW y, Held(y) = {}
  PROVE  \A d : ListKept(y, d)
  BY DEF Held, ListKept, HasPrediction

LEMMA NoneHeld ==
  ASSUME NEW x, NEW y, Held(y) = {}, y.wait = {}, y.cleanup # {} => ~y.view.prediction
  PROVE  Sheds(x, y)
  BY NoneKept DEF Sheds, CleanupIsBare

LEMMA LostSheds ==
  ASSUME NEW x, NEW y, Lost(x, y)
  PROVE  Sheds(x, y) /\ Held(y) = {} /\ y.pending = {}
<1>1. Held(y) = {} /\ y.wait = {} /\ y.cleanup = {} /\ y.pending = {}
  BY DEF Lost, NothingPredicted, Held
<1> QED BY <1>1, NoneHeld

\* The plan takes the list with it.
LEMMA StageSheds ==
  ASSUME NEW x, Shape(x), x.prediction # {} => x.wait = {}, NEW next, NEW parts
  PROVE  LET y == Stage(x, next, parts)
         IN Sheds(x, y) /\ (x.prediction = {} /\ x.pending = {} => Held(y) = {})
<1> DEFINE y == Stage(x, next, parts)
<1>1. \/ y = x
      \/ /\ y.prediction = {}
         /\ \E p : y.pending = {p} /\ StagedFrom(x, next, parts, p)
         /\ \A f \in SessionFields \ {"generation", "engine", "prediction", "pending"} :
              y[f] = x[f]
  BY StagePlan
<1> HIDE DEF y
<1>2. ASSUME y = x
      PROVE  Sheds(x, y) /\ (x.prediction = {} /\ x.pending = {} => Held(y) = {})
  BY <1>2, ShedsNothing DEF Held
<1>3. ASSUME y # x
      PROVE  Sheds(x, y) /\ (x.prediction = {} /\ x.pending = {} => Held(y) = {})
  <2>1. PICK p : y.pending = {p} /\ p.previous = x.prediction
    BY <1>1, <1>3 DEF StagedFrom
  <2>2. y.prediction = {} /\ y.view = x.view /\ y.wait = x.wait /\ y.cleanup = x.cleanup
    BY <1>1, <1>3
  <2>3. Held(y) = x.prediction
    BY <2>1, <2>2 DEF Held
  <2>4. Held(y) \subseteq Held(x)
    BY <2>3 DEF Held
  <2>5. \A l, d : DrawnAs(x, l, d) => DrawnAs(y, l, d)
    BY <2>2 DEF DrawnAs
  <2>6. \A d : ListKept(x, d) => ListKept(y, d)
    BY <2>1, <2>2, <2>5 DEF ListKept, HasPrediction
  <2>7. CleanupIsBare(x) => CleanupIsBare(y)
    BY <2>2, <2>4 DEF CleanupIsBare
  <2> QED BY <2>2, <2>3, <2>4, <2>6, <2>7 DEF Sheds
<1> USE DEF y
<1> QED BY <1>2, <1>3

LEMMA ClearedStageSheds ==
  ASSUME NEW x, Shape(x), x.prediction # {} => x.wait = {}, NEW next, NEW op, NEW cleanup
  PROVE  LET y == StageCleared(x, next, op, cleanup)
         IN Sheds(x, y) /\ (x.prediction = {} /\ x.pending = {} => Held(y) = {})
  BY StageSheds DEF StageCleared

LEMMA ClearSheds ==
  ASSUME NEW x, Shape(x)
  PROVE  LET y == ClearPrediction(x)
         IN /\ Sheds(x, y) /\ Shape(y) /\ y.prediction = {} /\ y.wait = {}
            /\ y.pending = x.pending /\ y.cleanup = x.cleanup
            /\ y.view = x.view \/ ~y.view.prediction
<1> DEFINE y == ClearPrediction(x)
<1>1. /\ Shape(y) /\ y.prediction = {} /\ y.wait = {}
      /\ y.pending = x.pending /\ y.cleanup = x.cleanup
  BY ClearEffect DEF NothingPredicted
<1>2. y.view = (IF x.view.prediction THEN DefaultView ELSE x.view)
  <2> DEFINE z == InvalidatePrefix(x)
             v == IF x.view.prediction THEN DefaultView ELSE z.view
  <2>1. z.view = x.view /\ DOMAIN z = SessionFields
    BY InvalidateEffect DEF Shape
  <2>2. y = [z EXCEPT !.wait = {}, !.prediction = {},
                      !.view = IF x.view.prediction THEN DefaultView ELSE @]
    BY DEF ClearPrediction
  <2> HIDE DEF y, z
  <2> QED BY <2>1, <2>2
<1> HIDE DEF y
<1>3. y.view = x.view \/ ~y.view.prediction
  BY <1>2 DEF DefaultView
<1>4. Sheds(x, y)
  BY <1>1, <1>3, Withdraws
<1> USE DEF y
<1> QED BY <1>1, <1>3, <1>4

LEMMA LoseFocusSheds ==
  ASSUME NEW x, Shape(x)
  PROVE  Sheds(x, LoseFocus(x))
<1> DEFINE c == ClearPrediction(x)
           y == StageCleared(c, Emptied(x.engine), FinishOp(x), FALSE)
<1>1. Sheds(x, c) /\ Shape(c) /\ c.prediction = {}
  BY ClearSheds
<1> HIDE DEF c
<1>2. Sheds(c, y)
  BY <1>1, ClearedStageSheds
<1>3. Sheds(x, y)
  BY <1>1, <1>2, ShedsTransitive
<1> QED BY <1>3 DEF LoseFocus, c

LEMMA RecoverSheds ==
  ASSUME NEW x, Good(x)
  PROVE  Sheds(x, Recover(x))
<1>1. CASE x.closed \/ x.cleanup = {}
  BY <1>1, ShedsNothing DEF Recover
<1>2. CASE ~(x.closed \/ x.cleanup = {})
  <2>1. x.wait = {} /\ Shape(x)
    BY <1>2 DEF Good, WaitsWhereItMay
  <2> DEFINE y == StageCleared(x, x.engine, EndComposition(The(x.cleanup)), TRUE)
  <2>2. Sheds(x, y)
    BY <2>1, ClearedStageSheds
  <2> QED BY <1>2, <2>2 DEF Recover
<1> QED BY <1>1, <1>2

LEMMA GateSheds ==
  ASSUME NEW x, Shape(x), NEW enabled
  PROVE  Sheds(x, SetInputGate(x, enabled))
<1> DEFINE g == [x EXCEPT !.gate = enabled]
           c == ClearPrediction(g)
           e == x.engine
           op == CASE InRound(e) -> EndComposition(TRUE)
                   [] ~InRound(e) /\ e.spelling # <<>> ->
                        CommitAndReplace(e.spelling, Len(e.spelling))
                   [] OTHER -> EndComposition(FALSE)
           y == SetInputGate(x, enabled)
<1>1. y = x \/ y = c \/ y = StageCleared(c, Emptied(e), op, FALSE)
  BY Zenon DEF SetInputGate
<1>2. /\ Shape(g) /\ \A f \in SessionFields \ {"gate"} : g[f] = x[f]
  BY DEF Shape
<1> HIDE DEF g, op, e, y
<1>3. Sheds(x, g)
  BY <1>2, Withdraws
<1>4. Sheds(g, c) /\ Shape(c) /\ c.prediction = {}
  BY <1>2, ClearSheds
<1> HIDE DEF c
<1>5. Sheds(x, c)
  BY <1>3, <1>4, ShedsTransitive
<1>6. Sheds(c, StageCleared(c, Emptied(e), op, FALSE))
  BY <1>4, ClearedStageSheds
<1>7. Sheds(x, StageCleared(c, Emptied(e), op, FALSE))
  BY <1>5, <1>6, ShedsTransitive
<1>8. Sheds(x, y)
  BY <1>1, <1>5, <1>7, ShedsNothing
<1> QED BY <1>8 DEF y

\* A runtime that is adopted takes every list with it.
LEMMA ApplySheds ==
  ASSUME NEW x, Shape(x), DisabledIsEmpty(x), NEW r
  PROVE  LET y == ApplyRuntime(x, r)
         IN Sheds(x, y) /\ (y = x \/ (x.pending = {} => Held(y) = {}))
<1> DEFINE g == [x EXCEPT !.revision = r]
           c == ClearPrediction(g)
           a == Bind(c)
           same == InvalidateQuery(x.engine)
           next == FreshEngine(x, r, IF Touch THEN x.engine.base ELSE "Main")
           b == [a EXCEPT !.engine = next]
           y == ApplyRuntime(x, r)
<1>1. \/ y = x
      \/ x.pending = {}
         /\ y = [a EXCEPT !.generation = @ + 1, !.engine = same, !.published = same]
      \/ y = StageCleared(b, next, FinishOp(x), FALSE)
  BY NotTouch, Zenon DEF ApplyRuntime, InPlace
<1>2. /\ Shape(g) /\ \A f \in SessionFields \ {"revision"} : g[f] = x[f]
  BY DEF Shape
<1> HIDE DEF g, same, next, y
<1>3. Sheds(x, g)
  BY <1>2, Withdraws
<1>4. Sheds(g, c) /\ Shape(c) /\ c.prediction = {} /\ c.wait = {} /\ c.pending = g.pending
  BY <1>2, ClearSheds
<1>5. DisabledIsEmpty(c)
  BY <1>2, ClearEffect DEF DisabledIsEmpty
<1> HIDE DEF c
<1>6. Shape(a) /\ \A f \in SessionFields \ {"prefix"} : a[f] = c[f]
  BY <1>4, <1>5, BindEffect
<1> HIDE DEF a
<1>7. Sheds(c, a)
  BY <1>6, Withdraws
<1>8. Sheds(x, a) /\ a.pending = x.pending /\ a.prediction = {} /\ a.wait = {}
  BY <1>2, <1>3, <1>4, <1>6, <1>7, ShedsTransitive
<1>9. ASSUME y = [a EXCEPT !.generation = @ + 1, !.engine = same, !.published = same],
             x.pending = {}
      PROVE  Sheds(x, y) /\ Held(y) = {}
  <2>1. \A f \in SessionFields \ {"generation", "engine", "published"} : y[f] = a[f]
    BY <1>6, <1>9 DEF Shape
  <2>2. Sheds(a, y)
    BY <2>1, Withdraws
  <2>3. Held(y) = {}
    BY <1>8, <1>9, <2>1 DEF Held
  <2> QED BY <1>8, <2>2, <2>3, ShedsTransitive
<1>10. ASSUME y = StageCleared(b, next, FinishOp(x), FALSE)
       PROVE  Sheds(x, y) /\ (x.pending = {} => Held(y) = {})
  <2>1. Shape(b) /\ \A f \in SessionFields \ {"engine"} : b[f] = a[f]
    BY <1>6 DEF Shape
  <2> HIDE DEF b
  <2>2. Sheds(a, b) /\ b.pending = x.pending /\ b.prediction = {}
    BY <1>8, <2>1, Withdraws
  <2>3. Sheds(b, y) /\ (b.pending = {} => Held(y) = {})
    BY <1>10, <2>1, <2>2, ClearedStageSheds
  <2> QED BY <1>8, <2>2, <2>3, ShedsTransitive
<1>11. Sheds(x, y) /\ (y = x \/ (x.pending = {} => Held(y) = {}))
  BY <1>1, <1>9, <1>10, ShedsNothing
<1> USE DEF y
<1> QED BY <1>11

LEMMA AssistanceSheds ==
  ASSUME NEW x, Shape(x), NEW allowed
  PROVE  LET y == SetAssistance(x, allowed)
         IN Sheds(x, y) /\ y.pending = x.pending /\ y.context.assist = allowed
<1> DEFINE c == ClearPrediction(x)
           z == [c EXCEPT !.context.assist = allowed]
           b == Bind(z)
           y == SetAssistance(x, allowed)
<1>1. y = IF x.context.assist = allowed THEN x ELSE b
  BY DEF SetAssistance
<1>2. /\ Sheds(x, c) /\ Shape(c) /\ c.pending = x.pending
      /\ c.prediction = {} /\ c.prefix.text = <<>>
  BY ClearSheds, ClearEffect
<1> HIDE DEF c, y
<1>3. /\ DOMAIN z = SessionFields /\ z.context = [c.context EXCEPT !.assist = allowed]
      /\ \A f \in SessionFields \ {"context"} : z[f] = c[f]
  BY <1>2 DEF Shape
<1> HIDE DEF z
<1>4. Shape(z) /\ z.context.assist = allowed /\ z.prefix.text = <<>>
  BY <1>2, <1>3 DEF Shape
<1>5. Sheds(c, z)
  BY <1>3, Withdraws
<1>6. \A f \in SessionFields \ {"prefix"} : b[f] = z[f]
  BY <1>4, BindEffect DEF DisabledIsEmpty
<1> HIDE DEF b
<1>7. Sheds(z, b)
  BY <1>6, Withdraws
<1>8. Sheds(x, b) /\ b.pending = x.pending /\ b.context.assist = allowed
  BY <1>2, <1>3, <1>4, <1>5, <1>6, <1>7, ShedsTransitive
<1>9. Sheds(x, y) /\ y.pending = x.pending /\ y.context.assist = allowed
  BY <1>1, <1>8, ShedsNothing
<1> USE DEF y
<1> QED BY <1>9

\* The text that is read is the prefix, where assistance is allowed.
LEMMA ObserveSheds ==
  ASSUME NEW x, Good(x), NEW text
  PROVE  LET y == ObservePrefix(x, text)
         IN /\ Sheds(x, y) /\ y.pending = x.pending
            /\ Allowed(y) = Allowed(x) /\ (Allowed(y) => y.prefix.text = LastOf(text))
<1> DEFINE seen == Observe(x, text)
           y == ObservePrefix(x, text)
           cleared == [seen EXCEPT !.wait = {}, !.prediction = {}, !.view = DefaultView]
<1>1. IF Allowed(x) THEN y = seen \/ y = cleared ELSE y = x
  BY DEF ObservePrefix, Good, PrefixIsAllowed
<1>2. /\ DOMAIN seen = SessionFields /\ seen.prefix.text = LastOf(text)
      /\ \A f \in SessionFields \ {"prefix"} : seen[f] = x[f]
  BY DEF Observe, Good, Shape
<1> HIDE DEF seen, y
<1>3. Sheds(x, seen)
  BY <1>2, Withdraws
<1>4. /\ cleared.wait = {} /\ cleared.prediction = {} /\ cleared.view = DefaultView
      /\ \A f \in SessionFields \ {"wait", "prediction", "view"} : cleared[f] = seen[f]
  BY <1>2
<1> HIDE DEF cleared
<1>5. Sheds(seen, cleared)
  BY <1>4, Withdraws DEF DefaultView
<1>6. Sheds(x, y)
  BY <1>1, <1>3, <1>5, ShedsTransitive, ShedsNothing
<1>7. y.pending = x.pending /\ y.context = x.context /\ y.revision = x.revision
  BY <1>1, <1>2, <1>4
<1>8. Allowed(x) => y.prefix.text = LastOf(text)
  BY <1>1, <1>2, <1>4
<1>9. Allowed(y) = Allowed(x)
  BY <1>7 DEF Allowed, Prediction, R
<1> USE DEF y
<1> QED BY <1>6, <1>7, <1>8, <1>9

LEMMA PrepareSheds ==
  ASSUME NEW x, Good(x), NEW a
  PROVE  Sheds(x, Prepare(x, a))
<1> DEFINE settled == IF x.wait = {} THEN x ELSE [x EXCEPT !.wait = {}, !.prediction = {}]
           act == Resolved(settled, a)
           ready == IF LeavesPrefix(x, act) THEN InvalidatePrefix(settled) ELSE settled
           passed == [op |-> NoOp, view |-> x.view, consumed |-> FALSE, unchanged |-> TRUE,
                      predict |-> FALSE, cleanup |-> FALSE, rollback |-> {}]
           sent == IF Restricted(x) THEN AsLiteral(act) ELSE act
           legacy == ~Restricted(x) /\ act.op = "Legacy"
           y == Prepare(x, a)
<1>1. y \in {settled, ready, Stage(ready, x.engine, passed), PrepareDispatched(ready, sent, legacy)}
  BY Zenon DEF Prepare
<1>2. /\ Shape(settled) /\ settled.wait = {}
      /\ settled.prediction = {} \/ (settled.prediction = x.prediction /\ x.wait = {})
      /\ \A f \in SessionFields \ {"wait", "prediction"} : settled[f] = x[f]
  BY DEF Good, Shape
<1> HIDE DEF settled, act, passed, sent, legacy, y
<1>3. Sheds(x, settled)
  BY <1>2, Withdraws
<1>4. /\ Shape(ready) /\ \A f \in SessionFields \ {"prefix"} : ready[f] = settled[f]
  BY <1>2, InvalidateEffect DEF ready
<1> HIDE DEF ready
<1>5. Sheds(settled, ready) /\ ready.wait = {}
  BY <1>2, <1>4, Withdraws
<1>6. Sheds(x, ready)
  BY <1>3, <1>5, ShedsTransitive
<1>7. \A next, parts : Sheds(ready, Stage(ready, next, parts))
  BY <1>4, <1>5, StageSheds
<1>8. \/ PrepareDispatched(ready, sent, legacy) = ready
      \/ \E next, parts : PrepareDispatched(ready, sent, legacy) = Stage(ready, next, parts)
  BY Zenon DEF PrepareDispatched, PlanStep
<1>9. \A z : Sheds(ready, z) => Sheds(x, z)
  BY <1>6, ShedsTransitive
<1>10. Sheds(x, y)
  BY <1>1, <1>3, <1>6, <1>7, <1>8, <1>9
<1> QED BY <1>10 DEF y

\* The answer of the model for the list that is awaited, which nobody has seen.
LEMMA CompleteSheds ==
  ASSUME NEW x, Good(x), NEW key, NEW items
  PROVE  LET y == CompletePrediction(x, key, items)
         IN \/ y = x
            \/ Sheds(x, y) /\ Held(y) = {} /\ x.wait # {}
            \/ /\ x.wait # {} /\ y.wait = {} /\ y.pending = {} /\ y.cleanup = {}
               /\ y.generation = x.generation /\ items # <<>>
               /\ \E l \in x.prediction : y.prediction = {[query |-> l.query, items |-> items]}
<1> DEFINE taken == [x EXCEPT !.wait = {}]
           one == {[query |-> key.query, items |-> items]}
           y == CompletePrediction(x, key, items)
<1>1. CASE key \notin x.wait
  BY <1>1 DEF CompletePrediction
<1>2. CASE key \in x.wait
  <2>1. \E l \in x.prediction : l.query = key.query
    BY <1>2 DEF Good, RequestIsCurrent
  <2>2. x.pending = {} /\ x.cleanup = {}
    BY <1>2 DEF Good, NothingPredicted, WaitsWhereItMay
  <2>3. \/ y = [taken EXCEPT !.prediction = {}]
        \/ y = [taken EXCEPT !.prediction = {}, !.view = DefaultView]
        \/ items # <<>> /\ y = [taken EXCEPT !.prediction = one, !.view = PredictionView(items)]
    BY <1>2, <2>1, Zenon DEF CompletePrediction
  <2>4. /\ DOMAIN taken = SessionFields /\ taken.wait = {}
        /\ \A f \in SessionFields \ {"wait"} : taken[f] = x[f]
    BY DEF Good, Shape
  <2> HIDE DEF taken, one, y
  <2>5. /\ y.prediction = {} \/ (y.prediction = one /\ items # <<>>)
        /\ \A f \in SessionFields \ {"wait", "prediction", "view"} : y[f] = x[f]
        /\ y.wait = {}
    BY <2>3, <2>4
  <2>6. y.pending = {} /\ y.cleanup = {} /\ y.generation = x.generation
    BY <2>2, <2>5
  <2>7. CASE y.prediction = {}
    <3>1. Held(y) = {}
      BY <2>6, <2>7 DEF Held
    <3>2. Sheds(x, y) /\ Held(y) = {}
      BY <2>5, <2>6, <3>1, NoneHeld
    <3> USE DEF y
    <3> QED BY <1>2, <3>2
  <2>8. CASE y.prediction = one /\ items # <<>>
    <3>1. \E l \in x.prediction : y.prediction = {[query |-> l.query, items |-> items]}
      BY <2>1, <2>8 DEF one
    <3> USE DEF y
    <3> QED BY <1>2, <2>5, <2>6, <2>8, <3>1
  <2> QED BY <2>5, <2>7, <2>8
<1> QED BY <1>1, <1>2

-----------------------------------------------------------------------------
(* An acknowledgement brings a list back, or publishes one of its own. *)

\* A new list, named after the plan.
Publishes(x, y) ==
  /\ y.generation = x.generation /\ y.pending = {} /\ y.cleanup = {}
  /\ \E m : y.prediction = {m} /\ m.query = <<0, x.generation>> /\ IdsName(m.items)

LEMMA RecalledNames ==
  ASSUME NEW x
  PROVE  IdsName(Recalled(x))
<1> DEFINE text == x.prefix.text
           found == IF text = <<>> \/ text[Len(text)] \notin DOMAIN Recall THEN <<>>
                    ELSE Recall[text[Len(text)]]
<1>1. Recalled(x) = [i \in 1..Len(found) |-> [id |-> i - 1, text |-> found[i]]]
  BY DEF Recalled
<1> HIDE DEF found
<1>2. ASSUME NEW i \in 1..Len(found), NEW j \in 1..Len(found), i - 1 = j - 1
      PROVE  i = j
  BY <1>2
<1> QED BY <1>1, <1>2 DEF IdsName

LEMMA PublishSheds ==
  ASSUME NEW x, Shape(x), x.prediction = {}, x.wait = {}, x.pending = {}, x.cleanup = {}
  PROVE  LET y == PublishPredictions(x)
         IN y = x \/ Publishes(x, y)
<1> DEFINE items == Recalled(x)
           query == <<0, x.generation>>
           model == Prediction(x).model
           request == [token |-> Token(x), query |-> query, context |-> x.prefix.generation]
           m == [query |-> query, items |-> items]
           wait == IF model THEN {request} ELSE x.wait
           view == IF model THEN DefaultView ELSE PredictionView(items)
           y == PublishPredictions(x)
<1>1. \/ y = x
      \/ y = [x EXCEPT !.prediction = {m}, !.wait = wait, !.view = view]
  BY DEF PublishPredictions
<1>2. m.query = <<0, x.generation>> /\ IdsName(m.items)
  BY RecalledNames
<1> HIDE DEF m, wait, view, y
<1>3. y = x \/ (y.prediction = {m} /\ y.generation = x.generation /\ y.pending = {}
                /\ y.cleanup = {})
  BY <1>1 DEF Shape
<1>4. y = x \/ Publishes(x, y)
  BY <1>2, <1>3 DEF Publishes
<1> USE DEF y
<1> QED BY <1>4

\* What becomes of a plan p of x, in a session k that has nothing but the prefix of its own.
Answers(x, y, outcome) ==
  \/ Sheds(x, y) /\ (outcome = "Applied" => Held(y) = {} /\ y.wait = {})
  \/ outcome = "Applied" /\ Publishes(x, y)

LEMMA AppliedSheds ==
  ASSUME NEW x, NEW k, Shape(k), k.generation = x.generation, k.pending = {},
         k.prediction = {}, k.wait = {}, NEW p, NEW outcome, outcome = "Applied"
  PROVE  Answers(x, AckApplied(k, p), outcome)
<1> DEFINE view == IF p.unchanged THEN k.view ELSE p.view
           q == [k EXCEPT !.engine = p.next, !.published = p.next, !.cleanup = {},
                          !.view = view, !.context.owns = OwnsAfter(k, p.op)]
           y == AckApplied(k, p)
<1>1. y = q \/ y = PublishPredictions(q)
  BY DEF AckApplied
<1> HIDE DEF view, y
<1>2. /\ DOMAIN q = SessionFields /\ q.cleanup = {}
      /\ q.context = [k.context EXCEPT !.owns = OwnsAfter(k, p.op)]
      /\ \A f \in SessionFields \ {"engine", "published", "cleanup", "view", "context"} :
           q[f] = k[f]
  BY DEF Shape
<1> HIDE DEF q
<1>3. Shape(q) /\ q.pending = {} /\ q.prediction = {} /\ q.wait = {} /\ q.generation = x.generation
  BY <1>2 DEF Shape
<1>4. Held(q) = {}
  BY <1>3 DEF Held
<1>5. Sheds(x, q)
  BY <1>2, <1>3, <1>4, NoneHeld
<1>6. PublishPredictions(q) = q \/ Publishes(q, PublishPredictions(q))
  BY <1>2, <1>3, PublishSheds
<1>7. Publishes(q, PublishPredictions(q)) => Publishes(x, PublishPredictions(q))
  BY <1>3 DEF Publishes
<1>8. Answers(x, y, outcome)
  BY <1>1, <1>3, <1>4, <1>5, <1>6, <1>7 DEF Answers
<1> QED BY <1>8 DEF y

\* A refused plan brings back what it held, below the same view.
LEMMA RetainedSheds ==
  ASSUME NEW x, NEW p \in x.pending, NEW k, Shape(k), k.pending = {}, k.wait = {},
         k.view = x.view, k.cleanup = x.cleanup
  PROVE  Sheds(x, AckRetained(k, p))
<1> DEFINE e == IF p.rollback = {} THEN k.engine ELSE The(p.rollback)
           y == AckRetained(k, p)
<1>1. y = [k EXCEPT !.engine = e, !.prediction = p.previous]
  BY DEF AckRetained
<1> HIDE DEF e, y
<1>2. /\ y.prediction = p.previous /\ y.pending = {} /\ y.wait = {}
      /\ y.view = x.view /\ y.cleanup = x.cleanup
  BY <1>1 DEF Shape
<1>3. Held(y) = p.previous
  BY <1>2 DEF Held
<1>4. Held(y) \subseteq Held(x)
  BY <1>3 DEF Held
<1>5. \A l, d : DrawnAs(x, l, d) => DrawnAs(y, l, d)
  BY <1>2 DEF DrawnAs
<1>6. \A d : ListKept(x, d) => ListKept(y, d)
  BY <1>2, <1>5 DEF ListKept, HasPrediction
<1>7. CleanupIsBare(x) => CleanupIsBare(y)
  BY <1>2, <1>4 DEF CleanupIsBare
<1>8. Sheds(x, y)
  BY <1>2, <1>4, <1>6, <1>7 DEF Sheds
<1> QED BY <1>8 DEF y

LEMMA UncertainSheds ==
  ASSUME NEW x, NEW k, Shape(k), k.pending = {}, k.wait = {}, k.prediction = {}, NEW p
  PROVE  Sheds(x, AckUncertain(k, p))
<1> DEFINE e == Emptied(k.engine)
           c == Leftover(k, p)
           y == AckUncertain(k, p)
<1>1. y = [k EXCEPT !.engine = e, !.published = e, !.view = DefaultView, !.cleanup = c]
  BY DEF AckUncertain
<1> HIDE DEF e, c, y
<1>2. y.prediction = {} /\ y.pending = {} /\ y.wait = {} /\ y.view = DefaultView
  BY <1>1 DEF Shape
<1>3. Held(y) = {} /\ ~y.view.prediction
  BY <1>2 DEF Held, DefaultView
<1>4. Sheds(x, y)
  BY <1>2, <1>3, NoneHeld
<1> QED BY <1>4 DEF y

LEMMA AcknowledgeSheds ==
  ASSUME NEW x, Good(x), Deferral(x, x.revision), NEW token, NEW outcome, NEW owns
  PROVE  LET y == Acknowledge(x, token, outcome, owns)
         IN IF IsCurrent(x, token) THEN x.pending # {} /\ Answers(x, y, outcome) ELSE y = x
<1> DEFINE p == The(x.pending)
           taken == [x EXCEPT !.pending = {},
                              !.context.owns = IF Touch THEN owns ELSE @]
           k == PrefixAcknowledged(taken, p, outcome)
           y == Acknowledge(x, token, outcome, owns)
<1>1. CASE ~IsCurrent(x, token)
  BY <1>1 DEF Acknowledge
<1>2. CASE IsCurrent(x, token)
  <2>1. p \in x.pending
    BY <1>2 DEF IsCurrent, The
  <2>2. x.prediction = {} /\ x.wait = {} /\ x.deferred = {} /\ Shape(x)
    BY <2>1, NotTouch DEF Good, NothingPredicted, Deferral
  <2>3. y = Resumed(Settle(k, p, outcome))
    BY <1>2 DEF Acknowledge
  <2>4. /\ DOMAIN taken = SessionFields /\ taken.pending = {}
        /\ taken.context = [x.context EXCEPT !.owns = @]
        /\ \A f \in SessionFields \ {"pending", "context"} : taken[f] = x[f]
    BY <2>2, NotTouch DEF Shape
  <2> HIDE DEF p, taken, y
  <2>5. Shape(taken)
    BY <2>2, <2>4 DEF Shape
  <2>6. Shape(k) /\ \A f \in SessionFields \ {"prefix"} : k[f] = taken[f]
    BY <2>5, PrefixAckEffect
  <2> HIDE DEF k
  <2>7. /\ k.pending = {} /\ k.prediction = {} /\ k.wait = {} /\ k.view = x.view
        /\ k.cleanup = x.cleanup /\ k.generation = x.generation /\ k.deferred = {}
    BY <2>2, <2>4, <2>6
  <2> DEFINE z == Settle(k, p, outcome)
  <2>8. Answers(x, z, outcome) /\ z.deferred = {}
    <3>1. z.deferred = {}
      <4>1. CASE z = AckApplied(k, p)
        <5> DEFINE view == IF p.unchanged THEN k.view ELSE p.view
                   q == [k EXCEPT !.engine = p.next, !.published = p.next, !.cleanup = {},
                                  !.view = view, !.context.owns = OwnsAfter(k, p.op)]
        <5>1. z = q \/ z = PublishPredictions(q)
          BY <4>1 DEF AckApplied
        <5>2. q.deferred = {} /\ DOMAIN q = SessionFields
          BY <2>6, <2>7 DEF Shape
        <5> HIDE DEF q, z
        <5>3. PublishPredictions(q).deferred = {}
          BY <5>2 DEF PublishPredictions
        <5> QED BY <5>1, <5>2, <5>3
      <4>2. CASE z = AckRetained(k, p)
        BY <2>6, <2>7, <4>2 DEF AckRetained, Shape
      <4>3. CASE z = AckUncertain(k, p)
        BY <2>6, <2>7, <4>3 DEF AckUncertain, Shape
      <4>4. CASE z = InvalidateContext(k, k.context, FALSE)
        <5>1. Lost(k, InvalidateContext(k, k.context, FALSE))
          BY <2>6, ContextLost DEF Shape
        <5> HIDE DEF z
        <5> QED BY <4>4, <5>1 DEF Lost
      <4> QED BY <4>1, <4>2, <4>3, <4>4 DEF Settle
    <3>2. CASE outcome = "Applied"
      <4>1. z = AckApplied(k, p)
        BY <3>2 DEF Settle
      <4> QED BY <2>6, <2>7, <3>1, <3>2, <4>1, AppliedSheds
    <3>3. CASE outcome # "Applied"
      <4>1. \/ z = AckRetained(k, p) \/ z = AckUncertain(k, p)
            \/ z = InvalidateContext(k, k.context, FALSE)
        BY <3>3 DEF Settle
      <4>2. Sheds(x, AckRetained(k, p)) /\ Sheds(x, AckUncertain(k, p))
        BY <2>1, <2>6, <2>7, RetainedSheds, UncertainSheds
      <4>3. Sheds(x, InvalidateContext(k, k.context, FALSE))
        <5>1. Lost(k, InvalidateContext(k, k.context, FALSE))
          BY <2>6, ContextLost DEF Shape
        <5>2. PICK l : l = InvalidateContext(k, k.context, FALSE)
          OBVIOUS
        <5>3. Held(l) = {} /\ l.wait = {} /\ l.cleanup = {}
          BY <5>1, <5>2, LostSheds DEF Lost, NothingPredicted
        <5> QED BY <5>2, <5>3, NoneHeld
      <4> QED BY <3>1, <3>3, <4>1, <4>2, <4>3 DEF Answers
    <3> QED BY <3>2, <3>3
  <2> HIDE DEF z
  <2>9. y = z
    BY <2>3, <2>8 DEF Resumed, z
  <2>10. x.pending # {} /\ Answers(x, y, outcome)
    BY <2>1, <2>8, <2>9
  <2> USE DEF y
  <2> QED BY <1>2, <2>10
<1> QED BY <1>1, <1>2

-----------------------------------------------------------------------------
(* Queries tell the lists apart. *)

\* The generation in a query is that of a plan; that of a plan that is out is not used yet.
Stamped(query, x) ==
  /\ query[2] \in Nat /\ query[2] <= x.generation
  /\ x.pending # {} => query[2] < x.generation

\* The click names the text it was made on.
Fits(c, m) == \A i \in DOMAIN m.items : m.items[i].id = c.id => m.items[i].text = c.text

\* The lists that were shown, and the clicks, are those of the session where the queries agree.
Names(x, lists, clicks) ==
  /\ \A m \in Held(x) \cup lists : Stamped(m.query, x) /\ IdsName(m.items)
  /\ \A c \in clicks : Stamped(c.query, x)
  /\ \A m \in Held(x) :
       /\ \A l \in lists : l.query = m.query => x.wait = {} /\ l = m
       /\ \A c \in clicks : c.query = m.query => x.wait = {} /\ Fits(c, m)

LEMMA StampsStay ==
  ASSUME NEW x, NEW y, Shape(x), Shape(y), Advances(x, y), NEW query, Stamped(query, x)
  PROVE  Stamped(query, y)
<1>1. x.generation \in Nat /\ y.generation \in Nat
  BY DEF Shape
<1>2. CASE y.generation = x.generation
  BY <1>1, <1>2 DEF Stamped, Advances
<1>3. CASE y.generation # x.generation
  BY <1>1, <1>3 DEF Stamped, Advances
<1> QED BY <1>2, <1>3

LEMMA NamesStay ==
  ASSUME NEW x, NEW y, Shape(x), Shape(y), Advances(x, y), Sheds(x, y),
         NEW L, NEW K, Names(x, L, K), NEW L2, NEW K2, L2 \subseteq L, K2 \subseteq K
  PROVE  Names(y, L2, K2)
<1>1. Held(y) \subseteq Held(x) /\ (x.wait = {} => y.wait = {})
  BY DEF Sheds
<1>2. \A m \in Held(y) \cup L2 : Stamped(m.query, y) /\ IdsName(m.items)
  BY <1>1, StampsStay DEF Names
<1>3. \A c \in K2 : Stamped(c.query, y)
  BY StampsStay DEF Names
<1>4. ASSUME NEW m \in Held(y)
      PROVE  /\ \A l \in L2 : l.query = m.query => y.wait = {} /\ l = m
             /\ \A c \in K2 : c.query = m.query => y.wait = {} /\ Fits(c, m)
  BY <1>1 DEF Names
<1> QED BY <1>2, <1>3, <1>4 DEF Names

\* A list that is published is like no other, and may be drawn when it is shown.
LEMMA NamesPublished ==
  ASSUME NEW x, NEW y, Shape(x), x.pending # {}, Publishes(x, y),
         NEW L, NEW K, Names(x, L, K), NEW L2, NEW K2, K2 \subseteq K,
         L2 \subseteq L \cup (IF y.wait = {} THEN y.prediction ELSE {})
  PROVE  Names(y, L2, K2)
<1>1. PICK m : y.prediction = {m} /\ m.query = <<0, x.generation>> /\ IdsName(m.items)
  BY DEF Publishes
<1>2. y.generation = x.generation /\ y.pending = {} /\ x.generation \in Nat
  BY DEF Publishes, Shape
<1>3. Held(y) = {m}
  BY <1>1, <1>2 DEF Held
<1>4. m.query[2] = x.generation
  BY <1>1
<1>5. Stamped(m.query, y)
  BY <1>2, <1>4 DEF Stamped
<1>6. \A query : Stamped(query, x) => Stamped(query, y) /\ query # m.query
  BY <1>2, <1>4 DEF Stamped
<1>7. \A l \in L2 : l \in L \/ (l = m /\ y.wait = {})
  BY <1>1
<1>8. \A l \in Held(y) \cup L2 : Stamped(l.query, y) /\ IdsName(l.items)
  BY <1>1, <1>3, <1>5, <1>6, <1>7 DEF Names
<1>9. \A c \in K2 : Stamped(c.query, y) /\ c.query # m.query
  BY <1>6 DEF Names
<1>10. \A l \in L2 : l.query = m.query => y.wait = {} /\ l = m
  BY <1>6, <1>7 DEF Names
<1> QED BY <1>3, <1>8, <1>9, <1>10 DEF Names

\* The answer to what nobody has seen takes the query of the question.
LEMMA NamesCompleted ==
  ASSUME NEW x, NEW y, Shape(x), x.wait # {}, y.wait = {}, y.pending = {},
         y.generation = x.generation, NEW items, IdsName(items), NEW l \in x.prediction,
         y.prediction = {[query |-> l.query, items |-> items]},
         NEW L, NEW K, Names(x, L, K), NEW L2, NEW K2, K2 \subseteq K,
         L2 \subseteq L \cup y.prediction
  PROVE  Names(y, L2, K2)
<1>1. PICK m : m = [query |-> l.query, items |-> items]
  OBVIOUS
<1>2. m.query = l.query /\ m.items = items /\ y.prediction = {m}
  BY <1>1
<1>3. Held(y) = {m} /\ l \in Held(x)
  BY <1>2 DEF Held
<1>4. \A query : Stamped(query, x) => Stamped(query, y)
  BY DEF Stamped, Shape
<1>5. Stamped(m.query, y) /\ IdsName(m.items)
  BY <1>2, <1>3, <1>4 DEF Names
<1>6. \A k \in L : k.query # m.query
  BY <1>2, <1>3 DEF Names
<1>7. \A c \in K : c.query # m.query
  BY <1>2, <1>3 DEF Names
<1>8. \A k \in L2 : k \in L \/ k = m
  BY <1>2
<1>9. \A k \in Held(y) \cup L2 : Stamped(k.query, y) /\ IdsName(k.items)
  BY <1>3, <1>4, <1>5, <1>8 DEF Names
<1>10. \A c \in K2 : Stamped(c.query, y)
  BY <1>4 DEF Names
<1> QED BY <1>3, <1>6, <1>7, <1>8, <1>9, <1>10 DEF Names

\* A click on what is drawn names the text of the position.
LEMMA NamesClicked ==
  ASSUME NEW x, NEW L, NEW K, Names(x, L, K), NEW p \in L, NEW i \in DOMAIN p.items, NEW c,
         c.query = p.query, c.id = p.items[i].id, c.text = p.items[i].text,
         NEW K2, K2 \subseteq K \cup {c}
  PROVE  Names(x, L, K2)
<1>1. Stamped(c.query, x) /\ IdsName(p.items)
  BY DEF Names
<1>2. ASSUME NEW m \in Held(x), c.query = m.query
      PROVE  x.wait = {} /\ Fits(c, m)
  <2>1. x.wait = {} /\ p = m
    BY <1>2 DEF Names
  <2> QED BY <1>1, <2>1 DEF Fits, IdsName
<1>3. \A m \in Held(x) : \A d \in K2 : d.query = m.query => x.wait = {} /\ Fits(d, m)
  BY <1>2 DEF Names
<1>4. \A d \in K2 : Stamped(d.query, x)
  BY <1>1 DEF Names
<1> QED BY <1>3, <1>4 DEF Names

-----------------------------------------------------------------------------
(* What the callbacks carry. *)

Elements(q) == {q[i] : i \in DOMAIN q}
Instructions(st) == UNION {Elements(q) : q \in FramesOf(st)}
Carried(st) == UNION {i.data.list : i \in {j \in Instructions(st) : Edits(j)}}
ListsShown(d, w, st) == d.list \cup w \cup Carried(st)
Clicks(h, st) == h.click \cup {i.click : i \in {j \in Instructions(st) : j.do = "Choose"}}

\* Nothing of a read is left to do, and a choice comes right after one that proves the text.
Chooses(q) == q # <<>> /\ Head(q).do = "Choose"
Simple(i) == i.do \notin {"Bind", "Assist", "Observe", "Choose"}
Free(q) ==
  /\ IsSeq(q)
  /\ \A i \in 1..Len(q) :
       /\ q[i].do \notin {"Bind", "Assist", "Observe"}
       /\ i > 1 /\ q[i].do = "Choose" => q[i - 1].do = "Read" /\ q[i - 1].strict

LEMMA ElementsOfBoth ==
  ASSUME NEW p, NEW q, IsSeq(p), IsSeq(q)
  PROVE  Elements(p \o q) = Elements(p) \cup Elements(q)
<1> DEFINE c == p \o q
<1>1. /\ IsSeq(c) /\ Len(c) = Len(p) + Len(q)
      /\ \A i \in 1..Len(p) : c[i] = p[i]
      /\ \A i \in 1..Len(q) : c[Len(p) + i] = q[i]
  BY CatOf
<1> HIDE DEF c
<1>2. /\ Len(p) \in Nat /\ DOMAIN p = 1..Len(p) /\ Len(q) \in Nat /\ DOMAIN q = 1..Len(q)
      /\ DOMAIN c = 1..Len(c)
  BY <1>1, DomainOf
<1>3. \A i \in DOMAIN p : i \in DOMAIN c /\ c[i] = p[i]
  BY <1>1, <1>2
<1>4. \A i \in DOMAIN q : Len(p) + i \in DOMAIN c /\ c[Len(p) + i] = q[i]
  BY <1>1, <1>2
<1>5. ASSUME NEW i \in DOMAIN c
      PROVE  c[i] \in Elements(p) \cup Elements(q)
  <2>1. CASE i <= Len(p)
    <3>1. i \in DOMAIN p /\ c[i] = p[i]
      BY <1>1, <1>2, <1>5, <2>1
    <3> QED BY <3>1 DEF Elements
  <2>2. CASE ~(i <= Len(p))
    <3>1. i - Len(p) \in DOMAIN q /\ Len(p) + (i - Len(p)) = i
      BY <1>1, <1>2, <1>5, <2>2
    <3>2. c[i] = q[i - Len(p)]
      BY <1>1, <1>2, <3>1
    <3> QED BY <3>1, <3>2 DEF Elements
  <2> QED BY <2>1, <2>2
<1>6. Elements(p) \subseteq Elements(c) /\ Elements(q) \subseteq Elements(c)
  BY <1>3, <1>4 DEF Elements
<1>7. Elements(c) \subseteq Elements(p) \cup Elements(q)
  BY <1>5 DEF Elements
<1>8. Elements(c) = Elements(p) \cup Elements(q)
  BY <1>6, <1>7
<1> QED BY <1>8 DEF c

LEMMA ElementsOfTail ==
  ASSUME NEW q, IsSeq(q), q # <<>>
  PROVE  Head(q) \in Elements(q) /\ Elements(Tail(q)) \subseteq Elements(q)
<1> DEFINE t == Tail(q)
<1>1. /\ IsSeq(t) /\ Len(t) = Len(q) - 1 /\ Len(q) > 0 /\ Head(q) = q[1]
      /\ \A i \in 1..(Len(q) - 1) : t[i] = q[i + 1]
  BY TailOf
<1> HIDE DEF t
<1>2. Len(q) \in Nat /\ DOMAIN q = 1..Len(q) /\ DOMAIN t = 1..Len(t)
  BY <1>1, DomainOf
<1>3. \A i \in DOMAIN t : i + 1 \in DOMAIN q /\ t[i] = q[i + 1]
  BY <1>1, <1>2
<1>4. Elements(t) \subseteq Elements(q)
  BY <1>3 DEF Elements
<1>5. Head(q) \in Elements(q)
  <2>1. 1 \in DOMAIN q
    BY <1>1, <1>2
  <2>2. q[1] \in Elements(q)
    BY <2>1 DEF Elements
  <2> QED BY <1>1, <2>2
<1> QED BY <1>4, <1>5 DEF t

\* What follows an instruction may begin with a choice only after a read that proves the text.
LEMMA FreeTail ==
  ASSUME NEW q, Free(q), q # <<>>
  PROVE  /\ Free(Tail(q)) /\ Head(q).do \notin {"Bind", "Assist", "Observe"}
         /\ Chooses(Tail(q)) => Head(q).do = "Read" /\ Head(q).strict
<1> DEFINE t == Tail(q)
<1>1. /\ IsSeq(t) /\ Len(t) = Len(q) - 1 /\ Len(q) > 0 /\ Head(q) = q[1] /\ Len(q) \in Nat
      /\ \A i \in 1..(Len(q) - 1) : t[i] = q[i + 1]
      /\ t # <<>> => Len(t) > 0 /\ Head(t) = t[1]
  BY TailOf, DomainOf DEF Free
<1> HIDE DEF t
<1>2. ASSUME NEW i \in 1..Len(t)
      PROVE  /\ t[i].do \notin {"Bind", "Assist", "Observe"}
             /\ t[i].do = "Choose" => q[i].do = "Read" /\ q[i].strict
             /\ i > 1 /\ t[i].do = "Choose" => t[i - 1].do = "Read" /\ t[i - 1].strict
  <2>1. i + 1 \in 1..Len(q) /\ t[i] = q[i + 1] /\ i + 1 > 1 /\ (i + 1) - 1 = i
    BY <1>1
  <2>2. i > 1 => t[i - 1] = q[i]
    BY <1>1
  <2> QED BY <2>1, <2>2 DEF Free
<1>3. Free(t)
  BY <1>1, <1>2 DEF Free
<1>4. Head(q).do \notin {"Bind", "Assist", "Observe"}
  BY <1>1 DEF Free
<1>5. Chooses(t) => Head(q).do = "Read" /\ Head(q).strict
  BY <1>1, <1>2 DEF Chooses
<1> QED BY <1>3, <1>4, <1>5 DEF t

LEMMA FreeBoth ==
  ASSUME NEW p, IsSeq(p), \A a \in Elements(p) : Simple(a), NEW q, Free(q), ~Chooses(q)
  PROVE  Free(p \o q) /\ ~Chooses(p \o q)
<1> DEFINE c == p \o q
<1>1. /\ IsSeq(c) /\ Len(c) = Len(p) + Len(q)
      /\ \A i \in 1..Len(p) : c[i] = p[i]
      /\ \A i \in 1..Len(q) : c[Len(p) + i] = q[i]
      /\ c # <<>> => Head(c) = c[1] /\ Len(c) > 0
  BY CatOf, TailOf DEF Free
<1> HIDE DEF c
<1>2. /\ Len(p) \in Nat /\ DOMAIN p = 1..Len(p) /\ Len(q) \in Nat
      /\ q # <<>> => Head(q) = q[1]
      /\ q = <<>> <=> Len(q) = 0
  BY DomainOf, TailOf DEF Free
<1>3. \A i \in 1..Len(p) : Simple(p[i])
  BY <1>2 DEF Elements
<1>4. ASSUME NEW i \in 1..Len(c), i <= Len(p)
      PROVE  Simple(c[i])
  BY <1>1, <1>2, <1>3, <1>4
<1>5. ASSUME NEW i \in 1..Len(c), i > Len(p)
      PROVE  /\ c[i].do \notin {"Bind", "Assist", "Observe"}
             /\ c[i].do = "Choose" => i > Len(p) + 1 /\ c[i - 1].do = "Read" /\ c[i - 1].strict
  <2> DEFINE k == i - Len(p)
  <2>1. k \in 1..Len(q) /\ i = Len(p) + k
    BY <1>1, <1>2, <1>5
  <2> HIDE DEF k
  <2>2. c[i] = q[k] /\ (k > 1 => k - 1 \in 1..Len(q) /\ i - 1 = Len(p) + (k - 1))
    BY <1>1, <1>2, <2>1
  <2>3. k > 1 => c[i - 1] = q[k - 1]
    BY <1>1, <2>2
  <2>4. k = 1 => q[k].do # "Choose"
    BY <1>2, <2>1 DEF Chooses
  <2>5. /\ q[k].do \notin {"Bind", "Assist", "Observe"}
        /\ k > 1 /\ q[k].do = "Choose" => q[k - 1].do = "Read" /\ q[k - 1].strict
    BY <2>1 DEF Free
  <2>6. c[i].do = "Choose" => k > 1
    BY <2>1, <2>2, <2>4
  <2> QED BY <1>2, <2>1, <2>2, <2>3, <2>5, <2>6
<1>6. \A i \in 1..Len(c) : i <= Len(p) \/ i > Len(p)
  BY <1>1, <1>2
<1>7. Free(c)
  BY <1>1, <1>4, <1>5, <1>6 DEF Free, Simple
<1>8. ~Chooses(c)
  <2>1. SUFFICES ASSUME c # <<>>, Head(c).do = "Choose" PROVE FALSE
    BY DEF Chooses
  <2>2. 1 \in 1..Len(c) /\ c[1].do = "Choose"
    BY <1>1, <1>2, <2>1
  <2>3. CASE 1 <= Len(p)
    BY <1>4, <2>2, <2>3 DEF Simple
  <2>4. CASE 1 > Len(p)
    BY <1>2, <1>5, <2>2, <2>4
  <2> QED BY <1>6, <2>2, <2>3, <2>4
<1> QED BY <1>7, <1>8 DEF c

\* The callback goes on as q, with nothing that is not in it already but what q publishes.
LEMMA Proceeds ==
  ASSUME IsSeq(stack), stack # <<>>, NEW q, Continue(q), Free(q), ~Chooses(q),
         \A r \in Below(stack) : IsOut(Head(r)) /\ Free(r),
         NEW L, \A a \in Elements(q) : \/ a \in Instructions(stack)
                                       \/ a.do # "Choose" /\ (Edits(a) => a.data.list \subseteq L)
  PROVE  /\ \A r \in FramesOf(stack') : Free(r)
         /\ stack' # <<>> => Head(Head(stack')).do # "Choose"
         /\ Carried(stack') \subseteq Carried(stack) \cup L
         /\ \A h : Clicks(h, stack') \subseteq Clicks(h, stack)
<1>1. /\ IsSeq(stack')
      /\ FramesOf(stack') = (IF q = <<>> THEN {} ELSE {q}) \cup Below(stack)
      /\ stack' # <<>> =>
           IF q = <<>> THEN Head(stack') \in Below(stack) ELSE Head(stack') = q
  BY ContinueEffect
<1>2. Below(stack) \subseteq FramesOf(stack)
  BY StackOf
<1>3. \A r \in FramesOf(stack') : Free(r)
  BY <1>1
<1>4. stack' # <<>> => Head(Head(stack')).do # "Choose"
  BY <1>1 DEF IsOut, Chooses
<1>5. \A a \in Instructions(stack') :
        \/ a \in Instructions(stack)
        \/ a.do # "Choose" /\ (Edits(a) => a.data.list \subseteq L)
  BY <1>1, <1>2 DEF Instructions
<1>6. Carried(stack') \subseteq Carried(stack) \cup L
  BY <1>5 DEF Carried
<1>7. \A h : Clicks(h, stack') \subseteq Clicks(h, stack)
  BY <1>5 DEF Clicks
<1> QED BY <1>3, <1>4, <1>6, <1>7

\* What is left of a read: the text is the host's, and it was read where it is allowed.
Observes(q, x, h) ==
  /\ IsSeq(q) /\ q # <<>> /\ Head(q).do = "Observe" /\ Free(Tail(q))
  /\ Head(q).text \subseteq {h.text} /\ (Head(q).shown => x.pending = {})
Assists(q, x, h) ==
  /\ IsSeq(q) /\ q # <<>> /\ Head(q).do = "Assist" /\ Observes(Tail(q), x, h)
  /\ Chooses(Tail(Tail(q))) /\ Head(Tail(q)).text = {} => ~Head(q).allowed
Reading(q, x, h) ==
  \/ Observes(q, x, h) /\ (Chooses(Tail(q)) /\ Head(q).text = {} => ~x.context.assist)
  \/ Assists(q, x, h)
  \/ IsSeq(q) /\ q # <<>> /\ Head(q).do = "Bind" /\ Assists(Tail(q), x, h)

LInv ==
  /\ ListKept(session, data) /\ CleanupIsBare(session)
  /\ Names(session, ListsShown(data, drawn, stack), Clicks(host, stack))
  /\ \A q \in FramesOf(stack) : Free(q) \/ Reading(q, session, host)
  /\ ClicksFitText

\* A frame that does not run is out with an edit, so nothing is read in it.
LEMMA FramesAre ==
  ASSUME IInv, LInv, stack # <<>>
  PROVE  /\ IsSeq(stack) /\ IsSeq(Top) /\ Top # <<>> /\ IsSeq(Rest)
         /\ Free(Top) \/ Reading(Top, session, host)
         /\ \A r \in Below(stack) : IsOut(Head(r)) /\ Free(r)
         /\ Now \in Instructions(stack) /\ Elements(Rest) \subseteq Instructions(stack)
<1>1. StackOk(stack, session) /\ IsSeq(stack)
  BY DEF IInv, StackOk
<1>2. IsSeq(Top) /\ Top # <<>> /\ IsSeq(Rest)
  BY <1>1, TopOk
<1>3. FramesOf(stack) = {Top} \cup Below(stack)
  BY <1>1, StackOf DEF Top
<1>4. \A q \in FramesOf(stack) : Free(q) \/ Reading(q, session, host)
  BY DEF LInv
<1>5. \A r \in Below(stack) : IsOut(Head(r))
  BY <1>1 DEF StackOk
<1>6. \A q : Reading(q, session, host) => Head(q).do \in {"Bind", "Assist", "Observe"}
  BY DEF Reading, Assists, Observes
<1>7. \A r \in Below(stack) : IsOut(Head(r)) /\ Free(r)
  BY <1>3, <1>4, <1>5, <1>6 DEF IsOut
<1>8. Head(Top) \in Elements(Top) /\ Elements(Tail(Top)) \subseteq Elements(Top)
  BY <1>2, ElementsOfTail
<1>9. Now \in Instructions(stack) /\ Elements(Rest) \subseteq Instructions(stack)
  BY <1>3, <1>8 DEF Instructions, Now, Rest
<1> QED BY <1>1, <1>2, <1>3, <1>4, <1>7, <1>9

LEMMA RestIsFree ==
  ASSUME IInv, LInv, stack # <<>>, Now.do \notin {"Bind", "Assist", "Observe"}
  PROVE  /\ Free(Rest) /\ (Chooses(Rest) => Now.do = "Read" /\ Now.strict)
<1>1. Free(Top) \/ Reading(Top, session, host)
  BY FramesAre
<1>2. ~Reading(Top, session, host)
  BY DEF Reading, Assists, Observes, Now
<1>3. Free(Top) /\ Top # <<>>
  BY <1>1, <1>2, FramesAre
<1> QED BY <1>3, FreeTail DEF Now, Rest

\* The callback goes on, or another takes over, with nothing to choose at once.
Onward ==
  /\ \A r \in FramesOf(stack') : Free(r)
  /\ stack' # <<>> => Head(Head(stack')).do # "Choose"
  /\ Carried(stack') \subseteq ListsShown(data, drawn, stack)
  /\ \A h : Clicks(h, stack') \subseteq Clicks(h, stack)

LEMMA EndsOnward ==
  ASSUME IInv, LInv, stack # <<>>, NEW q, Continue(q), Free(q), ~Chooses(q),
         \A a \in Elements(q) :
           \/ a \in Instructions(stack)
           \/ a.do # "Choose" /\ (Edits(a) => a.data.list \subseteq ListsShown(data, drawn, stack))
  PROVE  Onward
<1> DEFINE L == ListsShown(data, drawn, stack)
<1>1. IsSeq(stack) /\ \A r \in Below(stack) : IsOut(Head(r)) /\ Free(r)
  BY FramesAre
<1>2. Carried(stack) \subseteq L
  BY DEF ListsShown
<1> HIDE DEF L
<1>3. \A a \in Elements(q) : \/ a \in Instructions(stack)
                             \/ a.do # "Choose" /\ (Edits(a) => a.data.list \subseteq L)
  BY DEF L
<1>4. /\ \A r \in FramesOf(stack') : Free(r)
      /\ stack' # <<>> => Head(Head(stack')).do # "Choose"
      /\ Carried(stack') \subseteq Carried(stack) \cup L
      /\ \A h : Clicks(h, stack') \subseteq Clicks(h, stack)
  BY <1>1, <1>3, Proceeds
<1>5. Carried(stack') \subseteq L
  BY <1>2, <1>4
<1> QED BY <1>4, <1>5 DEF Onward, L

LEMMA GoesOnward ==
  ASSUME IInv, LInv, stack # <<>>, Now.do \notin {"Bind", "Assist", "Observe", "Read"},
         NEW p, IsSeq(p), Continue(p \o Rest),
         \A a \in Elements(p) :
           Simple(a) /\ (Edits(a) => a.data.list \subseteq ListsShown(data, drawn, stack))
  PROVE  Onward
<1>1. Free(Rest) /\ ~Chooses(Rest)
  BY RestIsFree
<1>2. IsSeq(Rest) /\ Elements(Rest) \subseteq Instructions(stack)
  BY FramesAre
<1>3. Free(p \o Rest) /\ ~Chooses(p \o Rest)
  BY <1>1, FreeBoth
<1>4. Elements(p \o Rest) = Elements(p) \cup Elements(Rest)
  BY <1>2, ElementsOfBoth
<1> QED BY <1>2, <1>3, <1>4, EndsOnward DEF Simple

LEMMA PassesOnward ==
  ASSUME IInv, LInv, stack # <<>>, Now.do \notin {"Bind", "Assist", "Observe", "Read"},
         Continue(Rest)
  PROVE  Onward
<1>1. Free(Rest) /\ ~Chooses(Rest) /\ Elements(Rest) \subseteq Instructions(stack)
  BY RestIsFree, FramesAre
<1> QED BY <1>1, EndsOnward

LEMMA NothingToDo == Free(<<>>) /\ ~Chooses(<<>>) /\ Elements(<<>>) = {}
  BY EmptySequence, DomainOf DEF Free, Chooses, Elements

\* The plan carries what is drawn now, or no list.
LEMMA RunsOnward ==
  ASSUME IInv, LInv, stack # <<>>, Now.do \notin {"Bind", "Assist", "Observe", "Read"},
         NEW y, Runs(y)
  PROVE  Onward
<1>1. PICK p : p = The(y.pending)
  OBVIOUS
<1>2. Preview(p).list \subseteq data.list
  BY DEF Preview, Drawing
<1>3. PICK d : d = Preview(p)
  OBVIOUS
<1>4. PICK c : c = IF svc.composition = {} THEN {host.focus} ELSE svc.composition
  OBVIOUS
<1>5. \/ Execute(y) = <<[do |-> "Ack", token |-> p.token, outcome |-> "Applied", data |-> d,
                         out |-> FALSE]>>
      \/ Execute(y) = <<[do |-> "Edit", token |-> p.token, op |-> p.op, data |-> d,
                         context |-> c]>>
  BY <1>1, <1>3, <1>4 DEF Execute
<1>6. \E e : Execute(y) = <<e>> /\ e.do \in {"Ack", "Edit"} /\ e.data = d
  <2>1. CASE Execute(y) = <<[do |-> "Ack", token |-> p.token, outcome |-> "Applied",
                             data |-> d, out |-> FALSE]>>
    <3>1. PICK e : e = [do |-> "Ack", token |-> p.token, outcome |-> "Applied", data |-> d,
                        out |-> FALSE]
      OBVIOUS
    <3> QED BY <2>1, <3>1
  <2>2. CASE Execute(y) = <<[do |-> "Edit", token |-> p.token, op |-> p.op, data |-> d,
                             context |-> c]>>
    <3>1. PICK e : e = [do |-> "Edit", token |-> p.token, op |-> p.op, data |-> d,
                        context |-> c]
      OBVIOUS
    <3> QED BY <2>2, <3>1
  <2> QED BY <1>5, <2>1, <2>2
<1>7. PICK e : Execute(y) = <<e>> /\ e.do \in {"Ack", "Edit"} /\ e.data = d
  BY <1>6
<1>8. /\ IsSeq(<<e>>) /\ \A a \in Elements(<<e>>) : a = e
  BY OneInstruction, DomainOf DEF Elements
<1>9. Simple(e) /\ e.data.list \subseteq ListsShown(data, drawn, stack)
  BY <1>2, <1>3, <1>7 DEF Simple, ListsShown
<1>10. CASE Staged(y)
  <2>1. Continue(<<e>> \o Rest)
    BY <1>7, <1>10 DEF Runs
  <2> QED BY <1>8, <1>9, <2>1, GoesOnward
<1>11. CASE ~Staged(y)
  <2>1. Continue(<<>> \o Rest) /\ IsSeq(<<>>)
    BY <1>11, EmptySequence DEF Runs
  <2> QED BY <2>1, NothingToDo, GoesOnward
<1> QED BY <1>10, <1>11

\* The lists are fewer, and what is drawn stays as true as it was.
LEMMA ListsGoOn ==
  ASSUME IInv, LInv, Onward, GoesTo(session, session'), Sheds(session, session'),
         ListKept(session', data'), data'.list \subseteq ListsShown(data, drawn, stack),
         drawn' \subseteq drawn, host'.click \subseteq host.click
  PROVE  LInv'
<1>1. CleanupIsBare(session')
  BY DEF LInv, Sheds
<1>2. ListsShown(data', drawn', stack') \subseteq ListsShown(data, drawn, stack)
  BY DEF Onward, ListsShown
<1>3. Clicks(host', stack') \subseteq Clicks(host, stack)
  BY DEF Onward, Clicks
<1>4. Shape(session) /\ Shape(session') /\ Advances(session, session')
  BY DEF IInv, Good, GoesTo
<1>5. Names(session', ListsShown(data', drawn', stack'), Clicks(host', stack'))
  BY <1>2, <1>3, <1>4, NamesStay DEF LInv
<1>6. ClicksFitText'
  BY DEF Onward, ClicksFitText, Running, Top
<1>7. \A r \in FramesOf(stack') : Free(r) \/ Reading(r, session', host')
  BY DEF Onward
<1> QED BY <1>1, <1>5, <1>6, <1>7 DEF LInv

LEMMA SameLists ==
  ASSUME IInv, LInv, Onward, GoesTo(session, session'), Sheds(session, session'),
         data' = data, drawn' = drawn, host'.click \subseteq host.click
  PROVE  LInv'
<1>1. ListKept(session', data') /\ data'.list \subseteq ListsShown(data, drawn, stack)
  BY DEF LInv, Sheds, ListsShown
<1> QED BY <1>1, ListsGoOn

LEMMA RunsLists ==
  ASSUME IInv, LInv, stack # <<>>, Now.do \notin {"Bind", "Assist", "Observe", "Read"},
         NEW y, Runs(y), GoesTo(session, y), Sheds(session, y), UNCHANGED <<host, data, drawn>>
  PROVE  LInv'
<1>1. session' = y /\ Onward
  BY RunsOnward DEF Runs
<1> QED BY <1>1, SameLists

LEMMA StaysSame ==
  ASSUME IInv, session' = session
  PROVE  GoesTo(session, session') /\ Sheds(session, session')
  BY StaysPut, ShedsNothing DEF IInv

LEMMA PassesLists ==
  ASSUME IInv, LInv, stack # <<>>, Now.do \notin {"Bind", "Assist", "Observe", "Read"},
         Continue(Rest), UNCHANGED <<session, data, drawn>>, host'.click \subseteq host.click
  PROVE  LInv'
<1>1. Onward
  BY PassesOnward
<1> QED BY <1>1, StaysSame, SameLists

\* A list that is withdrawn is not shown any more.
LEMMA ClearsLists ==
  ASSUME IInv, LInv, NEW q, ClearsPrediction(q), Onward, UNCHANGED <<host, drawn>>
  PROVE  LInv'
<1>1. PICK y : y = ClearPrediction(session)
  OBVIOUS
<1>2. Good(session) /\ Deferral(session, session.revision) /\ Shape(session)
  BY DEF IInv, Good
<1>3. GoesTo(session, y)
  BY <1>1, <1>2, ClearGood, KeptGoes
<1>4. Sheds(session, y) /\ y.prediction = {} /\ y.pending = session.pending
  BY <1>1, <1>2, ClearSheds
<1>5. session' = y /\ data' = IF HasPrediction(session) THEN Hidden ELSE data
  BY <1>1 DEF ClearsPrediction
<1>6. HasPrediction(session) => Held(y) = {}
  BY <1>2, <1>4 DEF Good, NothingPredicted, HasPrediction, Held
<1>7. ListKept(y, data')
  <2>1. CASE HasPrediction(session)
    BY <1>6, <2>1, NoneKept
  <2>2. CASE ~HasPrediction(session)
    BY <1>4, <1>5, <2>2 DEF LInv, Sheds
  <2> QED BY <2>1, <2>2
<1>8. data'.list \subseteq ListsShown(data, drawn, stack)
  BY <1>5 DEF Hidden, Drawing, ListsShown
<1> QED BY <1>3, <1>4, <1>5, <1>7, <1>8, ListsGoOn

-----------------------------------------------------------------------------
(* The instructions, on the lists. *)

LEMMA ClearLists == ASSUME IInv, LInv, Clear PROVE LInv'
<1>1. /\ Running("Clear") /\ ClearsPrediction(Rest) /\ UNCHANGED <<host, drawn>>
      /\ Continue(Rest)
  BY DEF Clear, ClearsPrediction
<1>2. stack # <<>> /\ Now.do = "Clear"
  BY <1>1, RunningHead
<1> QED BY <1>1, <1>2, PassesOnward, ClearsLists

LEMMA LeaveEditorLists == ASSUME IInv, LInv, LeaveEditor PROVE LInv'
<1>1. /\ Running("LeaveEditor") /\ Runs(LoseFocus(session)) /\ UNCHANGED <<host, data, drawn>>
  BY DEF LeaveEditor
<1>2. /\ stack # <<>> /\ Now.do = "LeaveEditor" /\ Good(session)
      /\ Deferral(session, session.revision)
  BY <1>1, RunningHead
<1>3. GoesTo(session, LoseFocus(session)) /\ Sheds(session, LoseFocus(session))
  BY <1>2, LoseFocusGood, KeptGoes, LoseFocusSheds DEF Good
<1> QED BY <1>1, <1>2, <1>3, RunsLists

LEMMA ForgetLists == ASSUME IInv, LInv, Forget PROVE LInv'
<1>1. /\ Running("Forget") /\ session' = HostTerminated(session) /\ data' = Hidden
      /\ Continue(Rest) /\ UNCHANGED <<host, drawn>>
  BY DEF Forget
<1>2. /\ stack # <<>> /\ Now.do = "Forget"
      /\ Good(session) /\ Deferral(session, session.revision)
  BY <1>1, RunningHead
<1>3. Lost(session, session')
  BY <1>1, <1>2, TerminatedLost DEF Good
<1>4. GoesTo(session, session') /\ Sheds(session, session') /\ ListKept(session', data')
  BY <1>2, <1>3, LostGoes, LostSheds, NoneKept
<1>5. data'.list \subseteq ListsShown(data, drawn, stack)
  BY <1>1 DEF Hidden, Drawing
<1> QED BY <1>1, <1>2, <1>4, <1>5, PassesOnward, ListsGoOn

LEMMA DropLists == ASSUME IInv, LInv, Drop PROVE LInv'
<1>1. /\ Running("Drop") /\ host' = [host EXCEPT !.timers = {}, !.click = {}, !.taken = {}]
      /\ drawn' = {} /\ Continue(Rest) /\ session' = session /\ data' = data
  BY DEF Drop
<1>2. stack # <<>> /\ Now.do = "Drop"
  BY <1>1, RunningHead
<1>3. host'.click \subseteq host.click
  BY <1>1 DEF IInv, GoodHost
<1>4. Onward
  BY <1>1, <1>2, PassesOnward
<1>5. GoesTo(session, session') /\ Sheds(session, session')
  BY <1>1, StaysSame
<1>6. ListKept(session', data') /\ data'.list \subseteq ListsShown(data, drawn, stack)
  BY <1>1 DEF LInv, ListsShown
<1> QED BY <1>1, <1>3, <1>4, <1>5, <1>6, ListsGoOn

LEMMA DropCompositionLists == ASSUME IInv, LInv, DropComposition PROVE LInv'
<1>1. /\ Running("DropComposition") /\ Continue(Rest) /\ UNCHANGED <<session, data, drawn>>
      /\ host' = host
  BY DEF DropComposition
<1>2. stack # <<>> /\ Now.do = "DropComposition"
  BY <1>1, RunningHead
<1> QED BY <1>1, <1>2, PassesLists

LEMMA RecoverLists == ASSUME IInv, LInv, RecoverNow PROVE LInv'
<1>1. /\ Running("Recover") /\ UNCHANGED <<host, data, drawn>>
      /\ \/ Continue(Rest) /\ UNCHANGED session
         \/ Runs(Recover(session))
  BY DEF RecoverNow
<1>2. /\ stack # <<>> /\ Now.do = "Recover" /\ Good(session)
      /\ Deferral(session, session.revision)
  BY <1>1, RunningHead
<1>3. GoesTo(session, Recover(session)) /\ Sheds(session, Recover(session))
  BY <1>2, RecoverGood, KeptGoes, RecoverSheds
<1> QED BY <1>1, <1>2, <1>3, RunsLists, PassesLists

LEMMA ReadyLists == ASSUME IInv, LInv, Ready PROVE LInv'
<1>1. /\ Running("Ready") /\ UNCHANGED <<session, host, data, drawn>>
      /\ Continue(Rest) \/ Continue(<<>>)
  BY DEF Ready
<1>2. stack # <<>> /\ Now.do = "Ready"
  BY <1>1, RunningHead
<1>3. Continue(<<>>) => Onward
  BY <1>2, NothingToDo, EndsOnward
<1>4. Onward
  BY <1>1, <1>2, <1>3, PassesOnward
<1> QED BY <1>1, <1>4, StaysSame, SameLists

LEMMA ReloadLists == ASSUME IInv, LInv, Reload PROVE LInv'
<1>1. PICK r \in DOMAIN Runtimes :
        /\ Running("Reload") /\ Runs(ApplyRuntime(session, r)) /\ UNCHANGED <<host, drawn>>
        /\ data' = IF HasPrediction(session) /\ ~HasPrediction(ApplyRuntime(session, r))
                   THEN ShownOf(ApplyRuntime(session, r)) ELSE data
  BY DEF Reload
<1>2. PICK y : y = ApplyRuntime(session, r)
  OBVIOUS
<1>3. /\ stack # <<>> /\ Now.do = "Reload" /\ Good(session)
      /\ Deferral(session, session.revision)
  BY <1>1, RunningHead
<1>4. GoesTo(session, y)
  BY <1>2, <1>3, RuntimeGoes
<1>5. DisabledIsEmpty(session) /\ Shape(session)
  BY <1>3 DEF Good, PrefixIsAllowed, DisabledIsEmpty
<1>6. Sheds(session, y) /\ (y = session \/ (session.pending = {} => Held(y) = {}))
  BY <1>2, <1>5, ApplySheds
<1>7. session' = y /\ Onward
  BY <1>1, <1>2, <1>3, RunsOnward DEF Runs
<1>8. CASE HasPrediction(session) /\ ~HasPrediction(y)
  <2>1. session.pending = {} /\ y # session
    BY <1>3, <1>8 DEF Good, NothingPredicted, HasPrediction
  <2>2. ListKept(y, data')
    BY <1>6, <2>1, NoneKept
  <2>3. data'.list = {}
    BY <1>1, <1>2, <1>8 DEF ShownOf, Drawing
  <2> QED BY <1>1, <1>4, <1>6, <1>7, <2>2, <2>3, ListsGoOn
<1>9. CASE ~(HasPrediction(session) /\ ~HasPrediction(y))
  BY <1>1, <1>2, <1>4, <1>6, <1>7, <1>9, SameLists
<1> QED BY <1>8, <1>9

LEMMA GateLists == ASSUME IInv, LInv, Gate PROVE LInv'
<1>1. /\ Running("Gate") /\ Runs(SetInputGate(session, Now.on)) /\ UNCHANGED <<host, data, drawn>>
  BY DEF Gate
<1>2. /\ stack # <<>> /\ Now.do = "Gate" /\ Good(session)
      /\ Deferral(session, session.revision)
  BY <1>1, RunningHead
<1>3. PICK y : y = SetInputGate(session, Now.on)
  OBVIOUS
<1>4. GoesTo(session, y) /\ Sheds(session, y)
  BY <1>2, <1>3, GateGood, KeptGoes, GateSheds DEF Good
<1> QED BY <1>1, <1>2, <1>3, <1>4, RunsLists

LEMMA TranslateLists == ASSUME IInv, LInv, Translate PROVE LInv'
<1>1. /\ Running("Translate") /\ UNCHANGED <<session, host, data, drawn>>
      /\ Continue(Rest) \/ Continue(<<Do("Clear")>>)
  BY DEF Translate
<1>2. stack # <<>> /\ Now.do = "Translate"
  BY <1>1, RunningHead
<1>3. PICK q : q = <<Do("Clear")>>
  OBVIOUS
<1>4. /\ IsSeq(q) /\ \A a \in Elements(q) : a = Do("Clear")
  BY <1>3, OneInstruction, DomainOf DEF Elements
<1>5. \A a \in Elements(q) : Simple(a) /\ ~Edits(a)
  BY <1>4 DEF Do, Simple, Edits
<1>6. q \o <<>> = q
  BY <1>3, SMT
<1>7. Free(q) /\ ~Chooses(q)
  BY <1>4, <1>5, <1>6, NothingToDo, FreeBoth
<1>8. Continue(q) => Onward
  BY <1>2, <1>5, <1>7, EndsOnward DEF Simple
<1>9. Onward
  BY <1>1, <1>2, <1>3, <1>8, PassesOnward
<1> QED BY <1>1, <1>9, StaysSame, SameLists

LEMMA TestKeyLists == ASSUME IInv, LInv, TestKey PROVE LInv'
<1>1. /\ Running("TestKey") /\ drawn' = drawn
      /\ \/ /\ host' = [host EXCEPT !.taken = {Now.key}] /\ Continue(Rest)
            /\ UNCHANGED <<session, data>>
         \/ ClearsPrediction(Rest) /\ host' = host
  BY DEF TestKey
<1>2. stack # <<>> /\ Now.do = "TestKey"
  BY <1>1, RunningHead
<1>3. CASE /\ host' = [host EXCEPT !.taken = {Now.key}] /\ Continue(Rest)
           /\ UNCHANGED <<session, data>>
  <2>1. host'.click \subseteq host.click
    BY <1>3 DEF IInv, GoodHost
  <2> QED BY <1>1, <1>2, <1>3, <2>1, PassesLists
<1>4. CASE ClearsPrediction(Rest) /\ host' = host
  <2>1. Onward
    BY <1>2, <1>4, PassesOnward DEF ClearsPrediction
  <2> QED BY <1>1, <1>4, <2>1, ClearsLists
<1> QED BY <1>1, <1>3, <1>4

LEMMA PreparesLists ==
  ASSUME IInv, LInv, stack # <<>>, Now.do \in {"Handle", "Choose"}, NEW a,
         Runs(Prepare(session, a)), UNCHANGED <<host, data, drawn>>
  PROVE  LInv'
<1>1. PICK y : y = Prepare(session, a)
  OBVIOUS
<1>2. GoesTo(session, y) /\ Sheds(session, y)
  BY <1>1, PrepareGood, KeptGoes, PrepareSheds DEF IInv
<1>3. Now.do \notin {"Bind", "Assist", "Observe", "Read"}
  OBVIOUS
<1> QED BY <1>1, <1>2, <1>3, RunsLists

LEMMA HandleKeyLists == ASSUME IInv, LInv, HandleKey PROVE LInv'
<1>1. /\ Running("Handle") /\ UNCHANGED <<host, data, drawn>>
      /\ Runs(Prepare(session, Now.key)) \/ (Continue(Rest) /\ UNCHANGED session)
  BY DEF HandleKey
<1>2. stack # <<>> /\ Now.do = "Handle"
  BY <1>1, RunningHead
<1> QED BY <1>1, <1>2, PreparesLists, PassesLists

LEMMA ChooseLists == ASSUME IInv, LInv, Choose PROVE LInv'
<1>1. /\ Running("Choose") /\ UNCHANGED <<host, data, drawn>>
      /\ Runs(Prepare(session, Identity(Now.click))) \/ (Continue(Rest) /\ UNCHANGED session)
  BY DEF Choose
<1>2. stack # <<>> /\ Now.do = "Choose"
  BY <1>1, RunningHead
<1> QED BY <1>1, <1>2, PreparesLists, PassesLists

-----------------------------------------------------------------------------
(* A read, in its three parts. *)

LEMMA SameSequence ==
  ASSUME NEW S, NEW p \in Seq(S), NEW q \in Seq(S), Len(p) = Len(q),
         \A i \in 1..Len(p) : p[i] = q[i]
  PROVE  p = q
  OBVIOUS

LEMMA ThreeBefore ==
  ASSUME NEW a, NEW b, NEW c, NEW q, IsSeq(q)
  PROVE  <<a, b, c>> \o q = <<a>> \o (<<b>> \o (<<c>> \o q))
<1>1. PICK S : q \in Seq(S)
  BY DEF IsSeq
<1>2. PICK all : all = S \cup {a, b, c}
  OBVIOUS
<1>3. q \in Seq(all) /\ a \in all /\ b \in all /\ c \in all
  BY <1>1, <1>2
<1>4. PICK t : t = <<a, b, c>>
  OBVIOUS
<1>5. PICK q1, q2 : q1 = <<c>> \o q /\ q2 = <<b>> \o q1
  OBVIOUS
<1>6. PICK l, r : l = t \o q /\ r = <<a>> \o q2
  OBVIOUS
<1>7. Len(q) \in Nat
  BY <1>3
<1>8. t \in Seq(all) /\ Len(t) = 3 /\ t[1] = a /\ t[2] = b /\ t[3] = c
  BY <1>3, <1>4
<1>9. /\ q1 \in Seq(all) /\ Len(q1) = Len(q) + 1 /\ q1[1] = c
      /\ \A i \in 1..Len(q) : q1[i + 1] = q[i]
  BY <1>3, <1>5
<1>10. /\ q2 \in Seq(all) /\ Len(q2) = Len(q) + 2 /\ q2[1] = b
       /\ \A i \in 1..Len(q1) : q2[i + 1] = q1[i]
  BY <1>3, <1>5, <1>7, <1>9
<1>11. /\ r \in Seq(all) /\ Len(r) = Len(q) + 3 /\ r[1] = a
       /\ \A i \in 1..Len(q2) : r[i + 1] = q2[i]
  BY <1>3, <1>6, <1>7, <1>10
<1>12. /\ l \in Seq(all) /\ Len(l) = Len(q) + 3
       /\ l[1] = a /\ l[2] = b /\ l[3] = c /\ \A i \in 1..Len(q) : l[i + 3] = q[i]
  <2>1. l \in Seq(all)
    BY <1>3, <1>6, <1>8
  <2>2. IsSeq(t) /\ IsSeq(q)
    BY <1>3, <1>8 DEF IsSeq
  <2>3. /\ Len(l) = Len(t) + Len(q) /\ \A i \in 1..Len(t) : l[i] = t[i]
        /\ \A i \in 1..Len(q) : l[Len(t) + i] = q[i]
    <3>1. l = t \o q
      BY <1>6
    <3>2. /\ Len(t \o q) = Len(t) + Len(q) /\ \A i \in 1..Len(t) : (t \o q)[i] = t[i]
          /\ \A i \in 1..Len(q) : (t \o q)[Len(t) + i] = q[i]
      BY <2>2, CatOf
    <3> QED BY <3>1, <3>2, Zenon
  <2>4. \A i \in 1..Len(q) : i + 3 = Len(t) + i
    BY <1>7, <1>8
  <2> QED BY <1>7, <1>8, <2>1, <2>3, <2>4
<1>13. ASSUME NEW i \in 1..Len(l)
       PROVE  l[i] = r[i]
  <2>1. i = 1 \/ i = 2 \/ i = 3 \/ i > 3
    BY <1>7, <1>12
  <2>2. r[2] = b /\ r[3] = c
    <3>1. 1 \in 1..Len(q2) /\ 2 \in 1..Len(q2) /\ 1 \in 1..Len(q1)
      BY <1>7, <1>9, <1>10
    <3>2. r[1 + 1] = q2[1] /\ r[2 + 1] = q2[2] /\ q2[1 + 1] = q1[1]
      BY <1>10, <1>11, <3>1
    <3> QED BY <1>9, <1>10, <3>2
  <2>3. ASSUME i > 3
        PROVE  l[i] = r[i]
    <3>1. PICK k : k = i - 3
      OBVIOUS
    <3>2. /\ k \in 1..Len(q) /\ k + 1 \in 1..Len(q1) /\ (k + 1) + 1 \in 1..Len(q2)
          /\ ((k + 1) + 1) + 1 = i /\ k + 3 = i
      BY <1>7, <1>9, <1>10, <1>12, <2>3, <3>1
    <3>3. l[k + 3] = q[k] /\ r[((k + 1) + 1) + 1] = q2[(k + 1) + 1]
      BY <1>11, <1>12, <3>2
    <3>4. q2[(k + 1) + 1] = q1[k + 1] /\ q1[k + 1] = q[k]
      BY <1>9, <1>10, <3>2
    <3> QED BY <3>2, <3>3, <3>4
  <2> QED BY <1>11, <1>12, <2>1, <2>2, <2>3
<1>14. l = r
  BY <1>11, <1>12, <1>13, SameSequence
<1> QED BY <1>4, <1>5, <1>6, <1>14

LEMMA ElementsOfOne ==
  ASSUME NEW a
  PROVE  Elements(<<a>>) = {a}
<1>1. IsSeq(<<a>>) /\ Len(<<a>>) = 1 /\ <<a>>[1] = a
  BY OneInstruction
<1>2. DOMAIN <<a>> = {1}
  BY <1>1, DomainOf
<1> QED BY <1>1, <1>2 DEF Elements

\* The text that is read before a choice is there, or assistance is not allowed.
LEMMA ReadPrefixLists == ASSUME IInv, LInv, ReadPrefix PROVE LInv'
<1>1. PICK r \in Reads(Now.strict \/ svc.composition = {}) :
        /\ Running("Read") /\ UNCHANGED <<host, drawn>>
        /\ \/ /\ Proves(Now.strict, r)
              /\ Continue(<<Do("Bind"), [do |-> "Assist", allowed |-> r.allowed],
                            [do |-> "Observe", text |-> r.text,
                             shown |-> HasPrediction(session)]>> \o Rest)
              /\ UNCHANGED <<session, data>>
           \/ ClearsPrediction(<<>>)
  BY DEF ReadPrefix
<1>2. /\ stack # <<>> /\ Now.do = "Read" /\ Good(session)
  BY <1>1, RunningHead
<1>3. CASE ClearsPrediction(<<>>)
  <2>1. Onward
    BY <1>2, <1>3, NothingToDo, EndsOnward DEF ClearsPrediction
  <2> QED BY <1>1, <1>3, <2>1, ClearsLists
<1>4. ASSUME Proves(Now.strict, r),
             Continue(<<Do("Bind"), [do |-> "Assist", allowed |-> r.allowed],
                        [do |-> "Observe", text |-> r.text,
                         shown |-> HasPrediction(session)]>> \o Rest),
             UNCHANGED <<session, data>>
      PROVE  LInv'
  <2>1. PICK a, b, c : /\ a = Do("Bind") /\ b = [do |-> "Assist", allowed |-> r.allowed]
                       /\ c = [do |-> "Observe", text |-> r.text,
                               shown |-> HasPrediction(session)]
    OBVIOUS
  <2>2. /\ a.do = "Bind" /\ b.do = "Assist" /\ b.allowed = r.allowed
        /\ c.do = "Observe" /\ c.text = r.text /\ c.shown = HasPrediction(session)
    BY <2>1 DEF Do
  <2>3. /\ IsSeq(stack) /\ IsSeq(Rest) /\ Elements(Rest) \subseteq Instructions(stack)
        /\ \A f \in Below(stack) : IsOut(Head(f)) /\ Free(f)
        /\ Free(Rest) /\ (Chooses(Rest) => Now.strict)
    BY <1>2, FramesAre, RestIsFree
  <2>4. PICK q3 : q3 = <<c>> \o Rest
    OBVIOUS
  <2>5. IsSeq(q3) /\ q3 # <<>> /\ Head(q3) = c /\ Tail(q3) = Rest
    BY <2>3, <2>4, HeadAndTail
  <2>6. PICK q2 : q2 = <<b>> \o q3
    OBVIOUS
  <2>7. IsSeq(q2) /\ q2 # <<>> /\ Head(q2) = b /\ Tail(q2) = q3
    BY <2>5, <2>6, HeadAndTail
  <2>8. PICK q : q = <<a>> \o q2
    OBVIOUS
  <2>9. IsSeq(q) /\ q # <<>> /\ Head(q) = a /\ Tail(q) = q2
    BY <2>7, <2>8, HeadAndTail
  <2>10. <<a, b, c>> \o Rest = q
    <3>1. <<a, b, c>> \o Rest = <<a>> \o (<<b>> \o (<<c>> \o Rest))
      BY <2>3, ThreeBefore
    <3> QED BY <2>4, <2>6, <2>8, <3>1, Zenon
  <2>11. Continue(q)
    BY <1>4, <2>1, <2>10
  <2>12. r.text \subseteq {host.text}
    BY DEF Reads
  <2>13. HasPrediction(session) => session.pending = {}
    BY <1>2 DEF Good, NothingPredicted, HasPrediction
  <2>14. Observes(q3, session, host)
    BY <2>2, <2>3, <2>5, <2>12, <2>13 DEF Observes
  <2>15. Chooses(Rest) /\ r.text = {} => ~r.allowed
    BY <1>4, <2>3 DEF Proves
  <2>16. Assists(q2, session, host)
    BY <2>2, <2>5, <2>7, <2>14, <2>15 DEF Assists
  <2>17. Reading(q, session, host)
    BY <2>2, <2>9, <2>16 DEF Reading
  <2>18. /\ FramesOf(stack') = {q} \cup Below(stack)
         /\ stack' # <<>> => Head(stack') = q
    BY <1>2, <2>3, <2>9, <2>11, ContinueEffect
  <2>19. /\ Elements(q) = {a} \cup Elements(q2) /\ Elements(q2) = {b} \cup Elements(q3)
         /\ Elements(q3) = {c} \cup Elements(Rest)
    <3>1. Elements(q) = {a} \cup Elements(q2)
      BY <2>7, <2>8, ElementsOfOne, OneInstruction, ElementsOfBoth
    <3>2. Elements(q2) = {b} \cup Elements(q3)
      BY <2>5, <2>6, ElementsOfOne, OneInstruction, ElementsOfBoth
    <3>3. Elements(q3) = {c} \cup Elements(Rest)
      BY <2>3, <2>4, ElementsOfOne, OneInstruction, ElementsOfBoth
    <3> QED BY <3>1, <3>2, <3>3
  <2>20. Below(stack) \subseteq FramesOf(stack)
    BY <1>2, <2>3, StackOf
  <2>21. \A i \in Instructions(stack') : \/ i \in Instructions(stack)
                                         \/ i.do \notin {"Choose", "Edit", "Ack"}
    BY <2>2, <2>3, <2>18, <2>19, <2>20 DEF Instructions
  <2>22. Carried(stack') \subseteq Carried(stack)
    BY <2>21 DEF Carried, Edits
  <2>23. Clicks(host', stack') \subseteq Clicks(host, stack)
    BY <1>1, <2>21 DEF Clicks
  <2>24. ListsShown(data', drawn', stack') \subseteq ListsShown(data, drawn, stack)
    BY <1>1, <1>4, <2>22 DEF ListsShown
  <2>25. Names(session', ListsShown(data', drawn', stack'), Clicks(host', stack'))
    BY <1>4, <2>23, <2>24 DEF LInv, Names
  <2>26. \A f \in FramesOf(stack') : Free(f) \/ Reading(f, session', host')
    BY <1>1, <1>4, <2>3, <2>17, <2>18
  <2>27. ClicksFitText'
    BY <2>2, <2>9, <2>18 DEF ClicksFitText, Running, Top
  <2> QED BY <1>4, <2>25, <2>26, <2>27 DEF LInv
<1> QED BY <1>1, <1>3, <1>4

\* The parts of a read come in their order.
LEMMA ReadIs ==
  ASSUME IInv, LInv, stack # <<>>
  PROVE  /\ Now.do = "Bind" => Assists(Rest, session, host)
         /\ Now.do = "Assist" => Assists(Top, session, host)
         /\ Now.do = "Observe" => /\ Observes(Top, session, host)
                                  /\ Chooses(Rest) /\ Now.text = {} => ~session.context.assist
<1>1. Free(Top) \/ Reading(Top, session, host)
  BY FramesAre
<1>2. Free(Top) => Now.do \notin {"Bind", "Assist", "Observe"}
  BY FramesAre, FreeTail DEF Now
<1>3. Reading(Top, session, host) =>
        \/ Now.do = "Observe" /\ Observes(Top, session, host)
           /\ (Chooses(Rest) /\ Now.text = {} => ~session.context.assist)
        \/ Now.do = "Assist" /\ Assists(Top, session, host)
        \/ Now.do = "Bind" /\ Assists(Rest, session, host)
  BY DEF Reading, Assists, Observes, Now, Rest
<1> QED BY <1>1, <1>2, <1>3

\* A part of a read is done.
LEMMA ReadGoesOn ==
  ASSUME IInv, LInv, stack # <<>>, Continue(Rest),
         Free(Rest) \/ Reading(Rest, session', host'),
         GoesTo(session, session'), Sheds(session, session'), ListKept(session', data'),
         data'.list \subseteq ListsShown(data, drawn, stack), drawn' = drawn,
         host'.click = host.click,
         Chooses(Rest) /\ Allowed(session') => session'.prefix.text = LastOf(host'.text)
  PROVE  LInv'
<1>1. /\ IsSeq(stack) /\ Elements(Rest) \subseteq Instructions(stack)
      /\ \A r \in Below(stack) : IsOut(Head(r)) /\ Free(r)
  BY FramesAre
<1>2. /\ FramesOf(stack') \subseteq {Rest} \cup Below(stack)
      /\ stack' # <<>> => Head(stack') \in Below(stack) \/ (Rest # <<>> /\ Head(stack') = Rest)
  BY <1>1, ContinueEffect
<1>3. Below(stack) \subseteq FramesOf(stack)
  BY <1>1, StackOf
<1>4. Instructions(stack') \subseteq Instructions(stack)
  BY <1>1, <1>2, <1>3 DEF Instructions
<1>5. Clicks(host', stack') \subseteq Clicks(host, stack)
  BY <1>4 DEF Clicks
<1>6. ListsShown(data', drawn', stack') \subseteq ListsShown(data, drawn, stack)
  BY <1>4 DEF ListsShown, Carried
<1>7. Shape(session) /\ Shape(session') /\ Advances(session, session')
  BY DEF IInv, Good, GoesTo
<1>8. Names(session', ListsShown(data', drawn', stack'), Clicks(host', stack'))
  BY <1>5, <1>6, <1>7, NamesStay DEF LInv
<1>9. ClicksFitText'
  <2>1. Running("Choose")' => Chooses(Rest)
    BY <1>1, <1>2 DEF Running, Top, Chooses, IsOut
  <2> QED BY <2>1 DEF ClicksFitText
<1>10. \A r \in FramesOf(stack') : Free(r) \/ Reading(r, session', host')
  BY <1>1, <1>2
<1>11. CleanupIsBare(session')
  BY DEF LInv, Sheds
<1> QED BY <1>8, <1>9, <1>10, <1>11 DEF LInv

LEMMA BindEditorLists == ASSUME IInv, LInv, BindEditor PROVE LInv'
<1>1. /\ Running("Bind") /\ Continue(Rest) /\ host' = host /\ data' = data /\ drawn' = drawn
      /\ \/ UNCHANGED <<session, svc>>
         \/ session' = InvalidateContext(session,
              [session.context EXCEPT !.editor = @ + 1, !.epoch = @ + 1], TRUE)
  BY DEF BindEditor
<1>2. /\ stack # <<>> /\ Now.do = "Bind" /\ Good(session)
      /\ Deferral(session, session.revision)
  BY <1>1, RunningHead
<1>3. /\ GoesTo(session, session') /\ Sheds(session, session')
      /\ session'.pending \subseteq session.pending
  <2>1. CASE session' = session
    BY <1>2, <2>1, StaysSame
  <2>2. CASE session' = InvalidateContext(session,
               [session.context EXCEPT !.editor = @ + 1, !.epoch = @ + 1], TRUE)
    <3>1. PICK c : c = [session.context EXCEPT !.editor = @ + 1, !.epoch = @ + 1]
      OBVIOUS
    <3>2. DOMAIN c = ContextFields
      BY <1>2, <3>1 DEF Good, Shape
    <3>3. Lost(session, session')
      BY <1>2, <2>2, <3>1, <3>2, ContextLost DEF Good
    <3> QED BY <1>2, <3>3, LostGoes, LostSheds
  <2> QED BY <1>1, <2>1, <2>2
<1>4. Assists(Rest, session, host)
  BY <1>2, ReadIs
<1>5. Assists(Rest, session', host')
  BY <1>1, <1>3, <1>4 DEF Assists, Observes
<1>6. Reading(Rest, session', host') /\ ~Chooses(Rest)
  BY <1>5 DEF Reading, Assists, Chooses
<1>7. ListKept(session', data') /\ data'.list \subseteq ListsShown(data, drawn, stack)
  BY <1>1, <1>3 DEF LInv, Sheds, ListsShown
<1> QED BY <1>1, <1>2, <1>3, <1>6, <1>7, ReadGoesOn

LEMMA AssistLists == ASSUME IInv, LInv, Assist PROVE LInv'
<1>1. /\ Running("Assist") /\ session' = SetAssistance(session, Now.allowed) /\ Continue(Rest)
      /\ UNCHANGED <<host, data, drawn>>
  BY DEF Assist
<1>2. /\ stack # <<>> /\ Now.do = "Assist" /\ Good(session)
      /\ Deferral(session, session.revision)
  BY <1>1, RunningHead
<1>3. PICK y : y = SetAssistance(session, Now.allowed)
  OBVIOUS
<1>4. GoesTo(session, y)
  BY <1>2, <1>3, AssistanceGood, KeptGoes
<1>5. Sheds(session, y) /\ y.pending = session.pending /\ y.context.assist = Now.allowed
  BY <1>2, <1>3, AssistanceSheds DEF Good
<1>6. Assists(Top, session, host)
  BY <1>2, ReadIs
<1>7. /\ Observes(Rest, y, host) /\ Head(Rest).do = "Observe"
      /\ Chooses(Tail(Rest)) /\ Head(Rest).text = {} => ~y.context.assist
  BY <1>5, <1>6 DEF Assists, Observes, Now, Rest
<1>8. Reading(Rest, y, host) /\ ~Chooses(Rest)
  BY <1>7 DEF Reading, Chooses
<1>9. ListKept(y, data) /\ data.list \subseteq ListsShown(data, drawn, stack)
  BY <1>5 DEF LInv, Sheds, ListsShown
<1> QED BY <1>1, <1>2, <1>3, <1>4, <1>5, <1>8, <1>9, ReadGoesOn

LEMMA ObserveTextLists == ASSUME IInv, LInv, ObserveText PROVE LInv'
<1>1. /\ Running("Observe") /\ Continue(Rest) /\ drawn' = drawn
      /\ session' = IF Now.text = {} THEN session ELSE ObservePrefix(session, The(Now.text))
      /\ data' = IF Now.shown /\ ~HasPrediction(session') THEN Hidden ELSE data
      /\ host' = host \/ host' = [host EXCEPT !.unseen = WritingHost]
  BY DEF ObserveText
<1>2. /\ stack # <<>> /\ Now.do = "Observe" /\ Good(session)
      /\ Deferral(session, session.revision)
  BY <1>1, RunningHead
<1>3. /\ Observes(Top, session, host)
      /\ Chooses(Rest) /\ Now.text = {} => ~session.context.assist
  BY <1>2, ReadIs
<1>4. /\ Free(Rest) /\ Now.text \subseteq {host.text} /\ (Now.shown => session.pending = {})
  BY <1>3 DEF Observes, Now, Rest
<1>5. host'.text = host.text /\ host'.click = host.click
  BY <1>1 DEF IInv, GoodHost, HostFields
<1>6. PICK y : y = session'
  OBVIOUS
<1>7. /\ GoesTo(session, y) /\ Sheds(session, y) /\ y.pending = session.pending
      /\ Chooses(Rest) /\ Allowed(y) => y.prefix.text = LastOf(host.text)
  <2>1. CASE Now.text = {}
    <3>1. y = session
      BY <1>1, <1>6, <2>1
    <3> QED BY <1>2, <1>3, <2>1, <3>1, StaysPut, ShedsNothing DEF Allowed
  <2>2. CASE Now.text # {}
    <3>1. The(Now.text) = host.text
      BY <1>4, <2>2 DEF The
    <3>2. y = ObservePrefix(session, host.text)
      BY <1>1, <1>6, <2>2, <3>1
    <3>3. GoesTo(session, y)
      BY <1>2, <3>2, ObserveGood, KeptGoes
    <3>4. /\ Sheds(session, y) /\ y.pending = session.pending
          /\ Allowed(y) => y.prefix.text = LastOf(host.text)
      BY <1>2, <3>2, ObserveSheds
    <3> QED BY <3>3, <3>4
  <2> QED BY <2>1, <2>2
<1>8. ListKept(y, data')
  <2>1. CASE Now.shown /\ ~HasPrediction(y)
    BY <1>4, <1>7, <2>1 DEF ListKept
  <2>2. CASE ~(Now.shown /\ ~HasPrediction(y))
    BY <1>1, <1>6, <1>7, <2>2 DEF LInv, Sheds
  <2> QED BY <2>1, <2>2
<1>9. data'.list \subseteq ListsShown(data, drawn, stack)
  BY <1>1 DEF Hidden, Drawing, ListsShown
<1> QED BY <1>1, <1>2, <1>4, <1>5, <1>6, <1>7, <1>8, <1>9, ReadGoesOn

-----------------------------------------------------------------------------
(* The model's answer, and the edit. *)

LEMMA HoldsOnward ==
  ASSUME Onward, ListKept(session', data'), CleanupIsBare(session'),
         Names(session', ListsShown(data', drawn', stack'), Clicks(host', stack'))
  PROVE  LInv'
<1>1. ClicksFitText'
  BY DEF Onward, ClicksFitText, Running, Top
<1> QED BY <1>1 DEF LInv, Onward

\* A session without a plan, or its list, as its window shows it.
LEMMA ShownIsKept ==
  ASSUME NEW y, y.pending = {}
  PROVE  /\ ListKept(y, ShownOf(y))
         /\ ShownOf(y).list = IF HasPrediction(y) THEN y.prediction ELSE {}
  BY DEF ListKept, DrawnAs, ShownOf, Drawing

LEMMA CompletedNames ==
  ASSUME NEW y \in Completions
  PROVE  \/ y = session
         \/ \E w \in session.wait : \E items :
              IdsName(items) /\ y = CompletePrediction(session, w, items)
<1>1. SUFFICES ASSUME y # session
               PROVE  \E w \in session.wait : \E items :
                        IdsName(items) /\ y = CompletePrediction(session, w, items)
  OBVIOUS
<1>2. PICK w \in session.wait :
        \E items \in Proposals \cup UNION {Scored(p.items) : p \in session.prediction} :
          y = CompletePrediction(session, w, items)
  BY <1>1 DEF Completions
<1>3. PICK items \in Proposals \cup UNION {Scored(p.items) : p \in session.prediction} :
        y = CompletePrediction(session, w, items)
  BY <1>2
<1>4. CASE items \in Proposals
  BY <1>3, <1>4, TextServiceAssumption
<1>5. CASE items \notin Proposals
  <2>1. PICK p \in session.prediction : items \in Scored(p.items)
    BY <1>3, <1>5
  <2>2. items = <<>> \/ \E a : items = <<a>>
    BY <2>1 DEF Scored
  <2>3. \A i, j \in DOMAIN items : i = j
    <3>1. CASE items = <<>>
      BY <3>1, EmptySequence, DomainOf
    <3>2. CASE \E a : items = <<a>>
      <4>1. PICK a : items = <<a>>
        BY <3>2
      <4>2. IsSeq(items) /\ Len(items) = 1
        BY <4>1, OneInstruction
      <4>3. DOMAIN items = {1}
        BY <4>2, DomainOf
      <4> QED BY <4>3
    <3> QED BY <2>2, <3>1, <3>2
  <2>4. IdsName(items)
    BY <2>3 DEF IdsName
  <2> QED BY <1>3, <2>4
<1> QED BY <1>4, <1>5

LEMMA PumpLists == ASSUME IInv, LInv, Pump PROVE LInv'
<1>1. PICK y : /\ Running("Pump") /\ y \in Completions /\ session' = y
               /\ data' = (IF y = session THEN data ELSE ShownOf(y))
               /\ host' = IF y.wait # {} /\ svc.dispatch
                          THEN [host EXCEPT !.timers = Armed(@)] ELSE host
               /\ Continue((IF y.wait # {} /\ ~svc.dispatch THEN <<Do("Abandon")>> ELSE <<>>)
                           \o Rest)
               /\ drawn' = drawn
  BY DEF Pump
<1>2. /\ stack # <<>> /\ Now.do = "Pump" /\ Good(session) /\ Shape(session)
      /\ Deferral(session, session.revision)
  BY <1>1, RunningHead DEF Good
<1>3. host'.click = host.click
  BY <1>1 DEF IInv, GoodHost, HostFields
<1>4. Onward
  <2>1. PICK p : p = IF y.wait # {} /\ ~svc.dispatch THEN <<Do("Abandon")>> ELSE <<>>
    OBVIOUS
  <2>2. IsSeq(p) /\ \A a \in Elements(p) : a = Do("Abandon")
    BY <2>1, NothingToDo, EmptySequence, OneInstruction, ElementsOfOne
  <2>3. \A a \in Elements(p) : Simple(a) /\ ~Edits(a)
    BY <2>2 DEF Do, Simple, Edits
  <2>4. Continue(p \o Rest)
    BY <1>1, <2>1
  <2> QED BY <1>2, <2>2, <2>3, <2>4, GoesOnward
<1>5. ASSUME y = session
      PROVE  LInv'
  BY <1>1, <1>3, <1>4, <1>5, StaysSame, SameLists
<1>6. ASSUME y # session
      PROVE  LInv'
  <2>1. PICK w \in session.wait : \E items :
          IdsName(items) /\ y = CompletePrediction(session, w, items)
    BY <1>1, <1>6, CompletedNames
  <2>2. PICK items : IdsName(items) /\ y = CompletePrediction(session, w, items)
    BY <2>1
  <2>3. GoesTo(session, y)
    BY <1>2, <2>2, CompleteGood, KeptGoes
  <2>4. \/ Sheds(session, y) /\ Held(y) = {}
        \/ /\ session.wait # {} /\ y.wait = {} /\ y.pending = {} /\ y.cleanup = {}
           /\ y.generation = session.generation
           /\ \E l \in session.prediction :
                y.prediction = {[query |-> l.query, items |-> items]}
    BY <1>2, <1>6, <2>2, CompleteSheds
  <2>5. data' = ShownOf(y)
    BY <1>1, <1>6
  <2>6. ASSUME Sheds(session, y), Held(y) = {}
        PROVE  LInv'
    <3>1. ListKept(y, data')
      BY <2>6, NoneKept
    <3>2. data'.list = {}
      BY <2>5, <2>6 DEF ShownOf, Drawing, Held
    <3> QED BY <1>1, <1>3, <1>4, <2>3, <2>6, <3>1, <3>2, ListsGoOn
  <2>7. ASSUME session.wait # {}, y.wait = {}, y.pending = {}, y.cleanup = {},
               y.generation = session.generation,
               NEW l \in session.prediction,
               y.prediction = {[query |-> l.query, items |-> items]}
        PROVE  LInv'
    <3>1. ListKept(y, data') /\ data'.list \subseteq y.prediction
      BY <2>5, <2>7, ShownIsKept
    <3>2. CleanupIsBare(y)
      BY <2>7 DEF CleanupIsBare
    <3>3. /\ ListsShown(data', drawn', stack') \subseteq
               ListsShown(data, drawn, stack) \cup y.prediction
          /\ Clicks(host', stack') \subseteq Clicks(host, stack)
      BY <1>1, <1>3, <1>4, <3>1 DEF Onward, ListsShown, Clicks
    <3>4. Names(session, ListsShown(data, drawn, stack), Clicks(host, stack))
      BY DEF LInv
    <3>5. Names(y, ListsShown(data', drawn', stack'), Clicks(host', stack'))
      BY <1>2, <2>2, <2>7, <3>3, <3>4, NamesCompleted
    <3> QED BY <1>1, <1>4, <3>1, <3>2, <3>5, HoldsOnward
  <2> QED BY <2>4, <2>6, <2>7
<1> QED BY <1>5, <1>6

LEMMA AbandonLists == ASSUME IInv, LInv, Abandon PROVE LInv'
<1>1. /\ Running("Abandon") /\ session' = CompletePrediction(session, The(session.wait), <<>>)
      /\ Continue(Rest) /\ UNCHANGED <<host, data, drawn>>
  BY DEF Abandon
<1>2. /\ stack # <<>> /\ Now.do = "Abandon" /\ Good(session)
      /\ Deferral(session, session.revision)
  BY <1>1, RunningHead
<1>3. GoesTo(session, session')
  BY <1>1, <1>2, CompleteGood, KeptGoes
<1>4. Sheds(session, session')
  BY <1>1, <1>2, CompleteSheds, ShedsNothing
<1> QED BY <1>1, <1>2, <1>3, <1>4, PassesOnward, SameLists

LEMMA EditLists == ASSUME IInv, LInv, Edit PROVE LInv'
<1>1. PICK r \in Results(Now.op, Now.context, svc.composition) :
        /\ Running("Edit") /\ session' = session /\ data' = data /\ drawn' = drawn
        /\ host' = IF r.wrote THEN [host EXCEPT !.text = Written(@, Now.op)] ELSE host
        /\ Continue(<<[do |-> "Ack", token |-> Now.token, outcome |-> r.outcome,
                       data |-> Now.data, out |-> TRUE]>> \o Rest)
  BY DEF Edit
<1>2. stack # <<>> /\ Now.do = "Edit" /\ Now \in Instructions(stack)
  BY <1>1, RunningHead, FramesAre
<1>3. PICK a : a = [do |-> "Ack", token |-> Now.token, outcome |-> r.outcome,
                    data |-> Now.data, out |-> TRUE]
  OBVIOUS
<1>4. a.do = "Ack" /\ a.data = Now.data
  BY <1>3
<1>5. Now.data.list \subseteq ListsShown(data, drawn, stack)
  BY <1>2 DEF ListsShown, Carried, Edits
<1>6. IsSeq(<<a>>) /\ Continue(<<a>> \o Rest)
  BY <1>1, <1>3, OneInstruction
<1>7. \A i \in Elements(<<a>>) :
        Simple(i) /\ (Edits(i) => i.data.list \subseteq ListsShown(data, drawn, stack))
  BY <1>4, <1>5, ElementsOfOne DEF Simple
<1>8. Onward
  BY <1>2, <1>6, <1>7, GoesOnward
<1>9. host'.click = host.click
  BY <1>1 DEF IInv, GoodHost, HostFields
<1> QED BY <1>1, <1>8, <1>9, StaysSame, SameLists

\* What is published when the edit is answered is the session's list, or what it had prepared.
LEMMA AckLists == ASSUME IInv, LInv, Ack PROVE LInv'
<1> DEFINE y == Acknowledge(session, Now.token, Now.outcome, session.context.owns)
           current == IsCurrent(session, Now.token)
<1>1. /\ Running("Ack") /\ session' = y /\ Continue(Rest) /\ drawn' = drawn
      /\ data' = CASE current /\ Now.outcome = "Applied" -> Published(y, Now.data)
                   [] current /\ Now.outcome # "Applied" /\ y.cleanup # {} -> Hidden
                   [] OTHER -> data
      /\ \E unseen : host' = [host EXCEPT !.unseen = unseen]
  BY DEF Ack
<1>2. /\ stack # <<>> /\ Now.do = "Ack" /\ Now \in Instructions(stack) /\ Good(session)
      /\ Deferral(session, session.revision) /\ Shape(session)
  BY <1>1, RunningHead, FramesAre DEF Good
<1>3. IF current THEN session.pending # {} /\ Answers(session, y, Now.outcome) ELSE y = session
  BY <1>2, AcknowledgeSheds
<1>4. Good(y) /\ Advances(session, y) /\ Deferral(y, session.revision)
  BY <1>2, AcknowledgeGood DEF AnswerTaken, Moves
<1> HIDE DEF y, current
<1>5. Deferral(y, y.revision)
  BY <1>4, NothingDeferred
<1>6. Onward
  BY <1>1, <1>2, PassesOnward
<1>7. host'.click = host.click
  BY <1>1 DEF IInv, GoodHost, HostFields
<1>8. Now.data.list \subseteq ListsShown(data, drawn, stack)
  BY <1>2 DEF ListsShown, Carried, Edits
<1>9. CleanupIsBare(session)
  BY DEF LInv
<1>10. ASSUME Sheds(session, y), ListKept(y, data'),
              data'.list \subseteq ListsShown(data, drawn, stack)
       PROVE  LInv'
  <2>1. GoesTo(session, y)
    BY <1>4, <1>5, <1>10 DEF GoesTo, Sheds
  <2> QED BY <1>1, <1>6, <1>7, <1>10, <2>1, ListsGoOn
<1>11. ASSUME data' = data, Sheds(session, y)
       PROVE  LInv'
  <2>1. ListKept(y, data') /\ data'.list \subseteq ListsShown(data, drawn, stack)
    BY <1>11 DEF LInv, Sheds, ListsShown
  <2> QED BY <1>10, <1>11, <2>1
<1>12. ASSUME ~current
       PROVE  LInv'
  <2>1. y = session /\ data' = data
    BY <1>1, <1>3, <1>12
  <2> QED BY <1>11, <2>1, ShedsNothing
<1>13. ASSUME current, Now.outcome = "Applied", Sheds(session, y), Held(y) = {}, y.wait = {}
       PROVE  LInv'
  <2>1. data' = Now.data
    BY <1>1, <1>13 DEF Published, HasPrediction, Held
  <2> QED BY <1>8, <1>10, <1>13, <2>1, NoneKept
<1>14. ASSUME current, Now.outcome = "Applied", Publishes(session, y)
       PROVE  LInv'
  <2>1. y.prediction # {} /\ y.pending = {} /\ y.cleanup = {}
    BY <1>14 DEF Publishes
  <2>2. data' = ShownOf(y)
    BY <1>1, <1>14, <2>1 DEF Published, HasPrediction
  <2>3. ListKept(y, data') /\ data'.list \subseteq (IF y.wait = {} THEN y.prediction ELSE {})
    BY <2>1, <2>2, ShownIsKept DEF HasPrediction
  <2>4. CleanupIsBare(y)
    BY <2>1 DEF CleanupIsBare
  <2>5. /\ ListsShown(data', drawn', stack') \subseteq
             ListsShown(data, drawn, stack) \cup (IF y.wait = {} THEN y.prediction ELSE {})
        /\ Clicks(host', stack') \subseteq Clicks(host, stack)
    BY <1>1, <1>6, <1>7, <2>3 DEF Onward, ListsShown, Clicks
  <2>6. Names(session, ListsShown(data, drawn, stack), Clicks(host, stack))
    BY DEF LInv
  <2>7. session.pending # {}
    BY <1>3, <1>14
  <2>8. Names(y, ListsShown(data', drawn', stack'), Clicks(host', stack'))
    BY <1>2, <1>14, <2>5, <2>6, <2>7, NamesPublished
  <2> QED BY <1>1, <1>6, <2>3, <2>4, <2>8, HoldsOnward
<1>15. ASSUME current, Now.outcome # "Applied"
       PROVE  LInv'
  <2>1. Sheds(session, y)
    BY <1>3, <1>15 DEF Answers
  <2>2. ASSUME y.cleanup # {}
        PROVE  LInv'
    <3>1. data' = Hidden
      BY <1>1, <1>15, <2>2
    <3>2. Held(y) = {}
      BY <1>9, <2>1, <2>2 DEF Sheds, CleanupIsBare
    <3>3. data'.list \subseteq ListsShown(data, drawn, stack)
      BY <3>1 DEF Hidden, Drawing
    <3> QED BY <1>10, <2>1, <3>2, <3>3, NoneKept
  <2>3. ASSUME y.cleanup = {}
        PROVE  LInv'
    <3>1. data' = data
      BY <1>1, <1>15, <2>3
    <3> QED BY <1>11, <2>1, <3>1
  <2> QED BY <2>2, <2>3
<1> QED BY <1>3, <1>12, <1>13, <1>14, <1>15 DEF Answers

-----------------------------------------------------------------------------
(* The callbacks, on the lists. *)

\* A callback begins where no read and no choice is under way.
LEMMA OutsideFree ==
  ASSUME IInv, LInv, MayEnter
  PROVE  /\ IsSeq(stack) /\ \A r \in FramesOf(stack) : Free(r)
         /\ stack # <<>> => Head(Head(stack)).do # "Choose"
<1>1. IsSeq(stack)
  BY DEF IInv, StackOk
<1>2. CASE stack = <<>>
  BY <1>1, <1>2, EmptySequence, DomainOf DEF FramesOf
<1>3. CASE stack # <<>>
  <2>1. IsOut(Head(Head(stack)))
    BY <1>3 DEF MayEnter, Now, Top
  <2>2. Head(Head(stack)).do \in {"Edit", "Ack"}
    BY <2>1 DEF IsOut
  <2>3. /\ Free(Top) \/ Reading(Top, session, host)
        /\ \A r \in Below(stack) : Free(r)
    BY <1>3, FramesAre
  <2>4. ~Reading(Top, session, host)
    BY <2>2 DEF Reading, Assists, Observes, Top
  <2>5. FramesOf(stack) = {Top} \cup Below(stack)
    BY <1>1, <1>3, StackOf DEF Top
  <2> QED BY <1>1, <2>2, <2>3, <2>4, <2>5
<1> QED BY <1>2, <1>3

\* What a callback does before it reads or writes.
Simples(q) == IsSeq(q) /\ \A a \in Elements(q) : Simple(a) /\ ~Edits(a)

LEMMA SimpleNames ==
  ASSUME NEW name, name \notin {"Bind", "Assist", "Observe", "Choose", "Edit", "Ack"},
         NEW a, a.do = name
  PROVE  Simples(<<a>>) /\ <<a>> # <<>>
<1>1. IsSeq(<<a>>) /\ Elements(<<a>>) = {a} /\ <<a>> # <<>>
  BY OneInstruction, ElementsOfOne
<1> QED BY <1>1 DEF Simples, Simple, Edits

LEMMA SimplesBoth ==
  ASSUME NEW p, NEW q, Simples(p), Simples(q)
  PROVE  Simples(p \o q) /\ (q # <<>> => p \o q # <<>>)
<1>1. IsSeq(p) /\ IsSeq(q)
  BY DEF Simples
<1>2. IsSeq(p \o q) /\ Elements(p \o q) = Elements(p) \cup Elements(q)
  BY <1>1, CatOf, ElementsOfBoth
<1> QED BY <1>1, <1>2, NotEmpty DEF Simples

LEMMA TwoAfter ==
  ASSUME NEW a, NEW b
  PROVE  <<a, b>> = <<a>> \o <<b>>
<1>1. PICK S : S = {a, b}
  OBVIOUS
<1>2. PICK p, u, v : p = <<a, b>> /\ u = <<a>> /\ v = <<b>>
  OBVIOUS
<1>3. /\ p \in Seq(S) /\ Len(p) = 2 /\ p[1] = a /\ p[2] = b
      /\ u \in Seq(S) /\ Len(u) = 1 /\ u[1] = a
      /\ v \in Seq(S) /\ Len(v) = 1 /\ v[1] = b
  BY <1>1, <1>2
<1>4. PICK q : q = u \o v
  OBVIOUS
<1>5. q \in Seq(S) /\ Len(q) = 2 /\ q[1] = a /\ q[2] = b
  <2>1. q \in Seq(S)
    BY <1>3, <1>4
  <2>2. IsSeq(u) /\ IsSeq(v)
    BY <1>3 DEF IsSeq
  <2>3. /\ Len(u \o v) = Len(u) + Len(v)
        /\ \A i \in 1..Len(u) : (u \o v)[i] = u[i]
        /\ \A i \in 1..Len(v) : (u \o v)[Len(u) + i] = v[i]
    BY <2>2, CatOf
  <2>4. /\ Len(q) = Len(u) + Len(v)
        /\ \A i \in 1..Len(u) : q[i] = u[i]
        /\ \A i \in 1..Len(v) : q[Len(u) + i] = v[i]
    BY <1>4, <2>3, Zenon
  <2>5. 1 \in 1..Len(u) /\ 1 \in 1..Len(v) /\ Len(u) + 1 = 2
    BY <1>3
  <2> QED BY <1>3, <2>1, <2>4, <2>5
<1>6. Len(p) = Len(q) /\ \A i \in 1..Len(p) : p[i] = q[i]
  BY <1>3, <1>5
<1>7. p = q
  BY <1>3, <1>5, <1>6, SameSequence
<1> QED BY <1>2, <1>4, <1>7, Zenon

LEMMA SimplePair ==
  ASSUME NEW a, NEW b, Simples(<<a>>), Simples(<<b>>)
  PROVE  Simples(<<a, b>>) /\ <<a, b>> # <<>>
<1>1. <<b>> # <<>>
  BY OneInstruction
<1>2. Simples(<<a>> \o <<b>>) /\ <<a>> \o <<b>> # <<>>
  BY <1>1, SimplesBoth
<1> QED BY <1>2, TwoAfter

LEMMA SimpleTriple ==
  ASSUME NEW a, NEW b, NEW c, Simples(<<a>>), Simples(<<b>>), Simples(<<c>>)
  PROVE  Simples(<<a, b, c>>)
<1>1. IsSeq(<<>>) /\ Simples(<<>>)
  BY NothingToDo, EmptySequence DEF Simples
<1>2. <<a, b, c>> \o <<>> = <<a>> \o (<<b>> \o (<<c>> \o <<>>))
  BY <1>1, ThreeBefore
<1>3. <<a, b, c>> \in Seq({a, b, c})
  OBVIOUS
<1>4. <<a, b, c>> \o <<>> = <<a, b, c>>
  BY <1>3
<1>5. Simples(<<a>> \o (<<b>> \o (<<c>> \o <<>>)))
  BY <1>1, SimplesBoth
<1> QED BY <1>2, <1>4, <1>5

LEMMA SimpleDo ==
  ASSUME NEW name, name \notin {"Bind", "Assist", "Observe", "Choose", "Edit", "Ack"}
  PROVE  Simples(<<Do(name)>>) /\ <<Do(name)>> # <<>>
<1>1. Do(name).do = name
  BY DEF Do
<1> QED BY <1>1, SimpleNames

LEMMA SimpleLose == Simples(Lose) /\ Lose # <<>>
  BY SimpleDo, SimplePair DEF Lose

LEMMA SimplePrepared == Simples(PrepareContext)
<1>1. PICK a : a = IF svc.composition \subseteq {host.focus} THEN <<>> ELSE Lose
  OBVIOUS
<1>2. Simples(a)
  BY <1>1, SimpleLose, NothingToDo, EmptySequence DEF Simples
<1>3. Simples(<<Do("Recover"), Do("Ready")>>)
  BY SimpleDo, SimplePair
<1>4. PrepareContext = a \o <<Do("Recover"), Do("Ready")>>
  BY <1>1 DEF PrepareContext
<1> QED BY <1>2, <1>3, <1>4, SimplesBoth

LEMMA SimpleTranslated == Simples(Translated)
<1>1. Simples(<<Do("Reload"), Do("Recover"), Do("Translate")>>)
  BY SimpleDo, SimpleTriple
<1> QED BY <1>1, SimplePrepared, SimplesBoth DEF Translated

\* A callback begins with what is simple.
LEMMA EntersLists ==
  ASSUME IInv, LInv, MayEnter, NEW q, Simples(q), q # <<>>, Starts(q),
         UNCHANGED <<session, data, drawn>>, host'.click \subseteq host.click
  PROVE  LInv'
<1>1. /\ IsSeq(stack) /\ \A r \in FramesOf(stack) : Free(r)
  BY OutsideFree
<1>2. /\ IsSeq(stack') /\ stack' # <<>> /\ Head(stack') = q
      /\ FramesOf(stack') = {q} \cup FramesOf(stack)
  BY <1>1, PushEffect DEF Starts
<1>3. Free(q) /\ ~Chooses(q)
  <2>1. IsSeq(q) /\ \A a \in Elements(q) : Simple(a)
    BY DEF Simples
  <2>2. DOMAIN q = 1..Len(q) /\ \A i \in 1..Len(q) : q[i] \in Elements(q)
    BY <2>1, DomainOf DEF Elements
  <2>3. Free(q)
    BY <2>1, <2>2 DEF Free, Simple
  <2>4. Head(q) \in Elements(q)
    BY <2>1, ElementsOfTail
  <2> QED BY <2>1, <2>3, <2>4 DEF Chooses, Simple
<1>4. \A a \in Instructions(stack') : a \in Instructions(stack) \/ (Simple(a) /\ ~Edits(a))
  BY <1>2 DEF Instructions, Simples
<1>5. Carried(stack') \subseteq ListsShown(data, drawn, stack)
  BY <1>4 DEF Carried, ListsShown
<1>6. \A h : Clicks(h, stack') \subseteq Clicks(h, stack)
  BY <1>4 DEF Clicks, Simple
<1>7. Onward
  BY <1>1, <1>2, <1>3, <1>5, <1>6 DEF Onward, Chooses
<1> QED BY <1>7, StaysSame, SameLists

\* Nothing begins.
LEMMA NothingBegins ==
  ASSUME IInv, LInv, MayEnter, stack' = stack,
         UNCHANGED <<session, data, drawn>>, host'.click \subseteq host.click
  PROVE  LInv'
<1>1. Onward
  BY OutsideFree DEF Onward, ListsShown
<1> QED BY <1>1, StaysSame, SameLists

\* One more callback, and nothing new is clicked.
LEMMA EnteredClick ==
  ASSUME IInv
  PROVE  /\ Entered.click = host.click /\ DOMAIN Entered = HostFields
  BY DEF IInv, GoodHost, HostFields, Entered

LEMMA TestKeyDownLists ==
  ASSUME IInv, LInv, NEW key, OnTestKeyDown(key)
  PROVE  LInv'
<1> DEFINE a == [do |-> "TestKey", key |-> key]
<1>1. MayEnter /\ Starts(Translated \o <<a>>) /\ UNCHANGED <<session, data, drawn>>
  BY DEF OnTestKeyDown
<1>2. a.do = "TestKey"
  OBVIOUS
<1> HIDE DEF a
<1>3. Simples(Translated \o <<a>>) /\ Translated \o <<a>> # <<>>
  BY <1>2, SimpleNames, SimpleTranslated, SimplesBoth
<1>4. host'.click = host.click
  BY EnteredClick DEF OnTestKeyDown, HostFields
<1> QED BY <1>1, <1>3, <1>4, EntersLists

LEMMA OtherKeyLists == ASSUME IInv, LInv, OnOtherKey PROVE LInv'
<1>1. MayEnter /\ Starts(Translated \o <<Do("Clear")>>) /\ UNCHANGED <<session, data, drawn>>
  BY DEF OnOtherKey
<1>2. Simples(Translated \o <<Do("Clear")>>) /\ Translated \o <<Do("Clear")>> # <<>>
  BY SimpleDo, SimpleTranslated, SimplesBoth
<1>3. host'.click = host.click
  BY EnteredClick DEF OnOtherKey, HostFields
<1> QED BY <1>1, <1>2, <1>3, EntersLists

LEMMA KeyDownLists == ASSUME IInv, LInv, OnKeyDown PROVE LInv'
<1> DEFINE r == [do |-> "Read", strict |-> FALSE]
           k == [do |-> "Handle", key |-> The(host.taken)]
           read == IF Prediction(session).enabled THEN <<r>> ELSE <<>>
           handle == <<k, Do("Pump")>>
<1>1. MayEnter /\ Starts(Translated \o read \o handle) /\ UNCHANGED <<session, data, drawn>>
  BY DEF OnKeyDown
<1>2. r.do = "Read" /\ k.do = "Handle"
  OBVIOUS
<1> HIDE DEF r, k
<1>3. Simples(read)
  BY <1>2, SimpleNames, NothingToDo, EmptySequence DEF Simples
<1>4. Simples(handle) /\ handle # <<>>
  BY <1>2, SimpleNames, SimpleDo, SimplePair
<1> HIDE DEF read, handle
<1>5. Simples((Translated \o read) \o handle) /\ (Translated \o read) \o handle # <<>>
  BY <1>3, <1>4, SimpleTranslated, SimplesBoth
<1>6. host'.click = host.click
  BY EnteredClick DEF OnKeyDown, HostFields
<1> QED BY <1>1, <1>5, <1>6, EntersLists

LEMMA FocusLostLists ==
  ASSUME IInv, LInv, NEW e, OnFocusLost(e)
  PROVE  LInv'
<1>1. MayEnter /\ Starts(Lose) /\ UNCHANGED <<session, data, drawn>>
  BY DEF OnFocusLost
<1>2. host'.click = host.click
  BY EnteredClick DEF OnFocusLost, HostFields
<1> QED BY <1>1, <1>2, SimpleLose, EntersLists

LEMMA CompositionTerminatedLists ==
  ASSUME IInv, LInv, OnCompositionTerminated PROVE LInv'
<1>1. /\ MayEnter /\ Starts(<<Do("Clear"), Do("Forget")>>) /\ UNCHANGED <<session, data, drawn>>
      /\ host' = Entered
  BY DEF OnCompositionTerminated
<1>2. Simples(<<Do("Clear"), Do("Forget")>>) /\ <<Do("Clear"), Do("Forget")>> # <<>>
  BY SimpleDo, SimplePair
<1> QED BY <1>1, <1>2, EnteredClick, EntersLists

LEMMA EndEditLists ==
  ASSUME IInv, LInv, NEW text, OnEndEdit(text)
  PROVE  LInv'
<1>1. /\ MayEnter /\ UNCHANGED <<session, data, drawn>>
      /\ Starts(<<Do("Clear")>>) \/ stack' = stack
  BY DEF OnEndEdit
<1>2. host'.click = host.click
  BY EnteredClick DEF OnEndEdit, HostFields
<1> QED BY <1>1, <1>2, SimpleDo, EntersLists, NothingBegins

LEMMA SimpleMode ==
  ASSUME NEW on
  PROVE  LET q == (IF on THEN <<>> ELSE <<Do("Clear")>>) \o <<[do |-> "Gate", on |-> on]>>
         IN Simples(q) /\ q # <<>>
<1>1. PICK a : a = IF on THEN <<>> ELSE <<Do("Clear")>>
  OBVIOUS
<1>2. Simples(a)
  BY <1>1, SimpleDo, NothingToDo, EmptySequence DEF Simples
<1>3. PICK g : g = [do |-> "Gate", on |-> on]
  OBVIOUS
<1>4. Simples(<<g>>) /\ <<g>> # <<>>
  BY <1>3, SimpleNames
<1>5. Simples(a \o <<g>>) /\ a \o <<g>> # <<>>
  BY <1>2, <1>4, SimplesBoth
<1> QED BY <1>1, <1>3, <1>5

LEMMA ModeChangeLists ==
  ASSUME IInv, LInv, NEW on, OnModeChange(on)
  PROVE  LInv'
<1>1. PICK q : q = (IF on THEN <<>> ELSE <<Do("Clear")>>) \o <<[do |-> "Gate", on |-> on]>>
  OBVIOUS
<1>2. MayEnter /\ Starts(q) /\ UNCHANGED <<session, data, drawn>> /\ host' = Entered
  BY <1>1 DEF OnModeChange
<1> QED BY <1>1, <1>2, SimpleMode, EnteredClick, EntersLists

LEMMA ActivateLists ==
  ASSUME IInv, LInv, NEW on, Activate(on)
  PROVE  LInv'
<1>1. PICK q : q = (IF on THEN <<>> ELSE <<Do("Clear")>>) \o <<[do |-> "Gate", on |-> on]>>
  OBVIOUS
<1>2. MayEnter /\ Starts(q) /\ UNCHANGED <<session, data, drawn>> /\ host' = Entered
  BY <1>1 DEF Activate
<1> QED BY <1>1, <1>2, SimpleMode, EnteredClick, EntersLists

LEMMA ModelTimerLists == ASSUME IInv, LInv, OnModelTimer PROVE LInv'
<1>1. MayEnter /\ Starts(<<Do("Pump")>>) /\ UNCHANGED <<session, data, drawn>>
  BY DEF OnModelTimer
<1>2. host'.click = host.click
  BY EnteredClick DEF OnModelTimer, HostFields
<1> QED BY <1>1, <1>2, SimpleDo, EntersLists

LEMMA VerifyTimerLists == ASSUME IInv, LInv, OnVerifyTimer PROVE LInv'
<1> DEFINE r == [do |-> "Read", strict |-> TRUE]
<1>1. /\ MayEnter /\ UNCHANGED <<session, data, drawn>>
      /\ Starts(<<Do("Reload")>> \o PrepareContext \o <<r>>) \/ stack' = stack
  BY DEF OnVerifyTimer
<1>2. r.do = "Read"
  OBVIOUS
<1> HIDE DEF r
<1>3. /\ Simples((<<Do("Reload")>> \o PrepareContext) \o <<r>>)
      /\ (<<Do("Reload")>> \o PrepareContext) \o <<r>> # <<>>
  BY <1>2, SimpleNames, SimpleDo, SimplePrepared, SimplesBoth
<1>4. host'.click = host.click
  BY EnteredClick DEF OnVerifyTimer, HostFields
<1> QED BY <1>1, <1>3, <1>4, EntersLists, NothingBegins

LEMMA DeactivateLists == ASSUME IInv, LInv, Deactivate PROVE LInv'
<1> DEFINE q == <<Do("DropComposition"), Do("Clear"), Do("Forget"), Do("Drop")>>
<1>1. MayEnter /\ Starts(Lose \o q) /\ UNCHANGED <<session, data, drawn>> /\ host' = Entered
  BY DEF Deactivate
<1>2. q = <<Do("DropComposition"), Do("Clear"), Do("Forget")>> \o <<Do("Drop")>>
  <2>1. PICK a, b, c, d : /\ a = Do("DropComposition") /\ b = Do("Clear")
                          /\ c = Do("Forget") /\ d = Do("Drop")
    OBVIOUS
  <2>2. a \in {a, b, c, d} /\ b \in {a, b, c, d} /\ c \in {a, b, c, d} /\ d \in {a, b, c, d}
    OBVIOUS
  <2>3. <<a, b, c, d>> = <<a, b, c>> \o <<d>>
    BY <2>2
  <2> QED BY <2>1, <2>3
<1>3. Simples(q) /\ q # <<>>
  BY <1>2, SimpleDo, SimpleTriple, SimplesBoth
<1> HIDE DEF q
<1>4. Simples(Lose \o q) /\ Lose \o q # <<>>
  BY <1>3, SimpleLose, SimplesBoth
<1> QED BY <1>1, <1>4, EnteredClick, EntersLists

\* The choice that a click asks for comes right after a read that proves the text.
LEMMA CandidateClickLists == ASSUME IInv, LInv, OnCandidateClick PROVE LInv'
<1>1. PICK a, b, c : /\ a = [do |-> "Read", strict |-> TRUE]
                     /\ b = [do |-> "Choose", click |-> The(host.click)] /\ c = Do("Pump")
  OBVIOUS
<1>2. /\ a.do = "Read" /\ a.strict /\ c.do = "Pump"
      /\ b.do = "Choose" /\ b.click = The(host.click)
  BY <1>1 DEF Do
<1>3. PICK p, t, q : p = <<Do("Reload")>> \o PrepareContext /\ t = <<a, b, c>> /\ q = p \o t
  OBVIOUS
<1>4. /\ MayEnter /\ host.click # {} /\ Starts(q) /\ host' = [Entered EXCEPT !.click = {}]
      /\ UNCHANGED <<session, data, drawn>>
  BY <1>1, <1>3 DEF OnCandidateClick
<1>5. Simples(p)
  BY <1>3, SimpleDo, SimplePrepared, SimplesBoth
<1>6. IsSeq(t) /\ Len(t) = 3 /\ t[1] = a /\ t[2] = b /\ t[3] = c
  BY <1>3, ThreeInstructions
<1>7. DOMAIN t = 1..Len(t) /\ t # <<>> /\ Head(t) = t[1]
  BY <1>6, DomainOf, TailOf
<1>8. \A i \in 1..Len(t) : i = 1 \/ i = 2 \/ i = 3
  BY <1>6
<1>9. Free(t) /\ ~Chooses(t) /\ Elements(t) \subseteq {a, b, c}
  <2>1. \A i \in 1..Len(t) :
          /\ t[i].do \notin {"Bind", "Assist", "Observe"}
          /\ i > 1 /\ t[i].do = "Choose" => t[i - 1].do = "Read" /\ t[i - 1].strict
    BY <1>2, <1>6, <1>8
  <2>2. Elements(t) \subseteq {a, b, c}
    BY <1>6, <1>7, <1>8 DEF Elements
  <2> QED BY <1>2, <1>6, <1>7, <2>1, <2>2 DEF Free, Chooses
<1>10. IsSeq(p) /\ \A i \in Elements(p) : Simple(i) /\ ~Edits(i)
  BY <1>5 DEF Simples
<1>11. Free(q) /\ ~Chooses(q)
  BY <1>3, <1>9, <1>10, FreeBoth
<1>12. Elements(q) = Elements(p) \cup Elements(t)
  BY <1>3, <1>6, <1>10, ElementsOfBoth
<1>13. IsSeq(stack) /\ \A r \in FramesOf(stack) : Free(r)
  BY <1>4, OutsideFree
<1>14. /\ IsSeq(stack') /\ Head(stack') = q /\ FramesOf(stack') = {q} \cup FramesOf(stack)
  BY <1>4, <1>13, PushEffect DEF Starts
<1>15. The(host.click) \in host.click
  BY <1>4 DEF The
<1>16. \A i \in Instructions(stack') :
         \/ i \in Instructions(stack)
         \/ ~Edits(i) /\ (i.do = "Choose" => i.click \in host.click)
  <2>1. \A i \in Elements(q) : ~Edits(i) /\ (i.do = "Choose" => i.click \in host.click)
    BY <1>2, <1>9, <1>10, <1>12, <1>15 DEF Edits, Simple
  <2> QED BY <1>14, <2>1 DEF Instructions
<1>17. host'.click = {} /\ host'.text = host.text
  BY <1>4 DEF IInv, GoodHost, HostFields, Entered
<1>18. Carried(stack') \subseteq Carried(stack)
  BY <1>16 DEF Carried
<1>19. Clicks(host', stack') \subseteq Clicks(host, stack)
  BY <1>16, <1>17 DEF Clicks
<1>20. ListsShown(data', drawn', stack') \subseteq ListsShown(data, drawn, stack)
  BY <1>4, <1>18 DEF ListsShown
<1>21. Names(session', ListsShown(data', drawn', stack'), Clicks(host', stack'))
  BY <1>4, <1>19, <1>20 DEF LInv, Names
<1>22. ClicksFitText'
  <2>1. q # <<>>
    BY <1>3, <1>6, <1>7, <1>10, NotEmpty
  <2> QED BY <1>11, <1>14, <2>1 DEF ClicksFitText, Running, Top, Chooses
<1> QED BY <1>4, <1>11, <1>13, <1>14, <1>21, <1>22 DEF LInv

-----------------------------------------------------------------------------
(* The window, and the specification. *)

LEMMA DrawLists == ASSUME IInv, LInv, Draw PROVE LInv'
<1>1. /\ drawn' \subseteq data.list /\ session' = session /\ host' = host /\ data' = data
      /\ stack' = stack
  BY DEF Draw
<1>2. ListsShown(data', drawn', stack') \subseteq ListsShown(data, drawn, stack)
  BY <1>1 DEF ListsShown
<1>3. Names(session', ListsShown(data', drawn', stack'), Clicks(host', stack'))
  BY <1>1, <1>2 DEF LInv, Names
<1> QED BY <1>1, <1>3 DEF LInv, ClicksFitText, Running, Top

\* The click carries the query and the identity of what it hit.
LEMMA ClickLists ==
  ASSUME IInv, LInv, NEW i, Click(i)
  PROVE  LInv'
<1>1. PICK p \in drawn :
        /\ i \in DOMAIN p.items
        /\ host' = [host EXCEPT !.click = {[query |-> p.query, id |-> p.items[i].id,
                                            text |-> p.items[i].text]}]
  BY DEF Click
<1>2. session' = session /\ data' = data /\ drawn' = drawn /\ stack' = stack
  BY DEF Click
<1>3. PICK c : c = [query |-> p.query, id |-> p.items[i].id, text |-> p.items[i].text]
  OBVIOUS
<1>4. c.query = p.query /\ c.id = p.items[i].id /\ c.text = p.items[i].text
  BY <1>3
<1>5. host'.click = {c} /\ host'.text = host.text
  BY <1>1, <1>3 DEF IInv, GoodHost, HostFields
<1>6. Clicks(host', stack') \subseteq Clicks(host, stack) \cup {c}
  BY <1>2, <1>5 DEF Clicks
<1>7. p \in ListsShown(data, drawn, stack)
  BY DEF ListsShown
<1>8. Names(session, ListsShown(data, drawn, stack), Clicks(host, stack))
  BY DEF LInv
<1>9. Names(session, ListsShown(data, drawn, stack), Clicks(host', stack'))
  BY <1>1, <1>4, <1>6, <1>7, <1>8, NamesClicked
<1>10. \A q \in FramesOf(stack') : Free(q) \/ Reading(q, session', host')
  <2>1. \A q : Observes(q, session, host) => Observes(q, session', host')
    BY <1>2, <1>5 DEF Observes
  <2>2. \A q : Assists(q, session, host) => Assists(q, session', host')
    BY <2>1 DEF Assists
  <2>3. \A q : Reading(q, session, host) => Reading(q, session', host')
    BY <1>2, <2>1, <2>2 DEF Reading
  <2> QED BY <1>2, <2>3 DEF LInv
<1>11. ClicksFitText'
  BY <1>2, <1>5 DEF LInv, ClicksFitText, Running, Top
<1> QED BY <1>2, <1>9, <1>10, <1>11 DEF LInv

LEMMA InitLInv == Init => LInv
<1> SUFFICES ASSUME Init
             PROVE  LInv
  OBVIOUS
<1>1. PICK c : /\ session = NewSession(1, c) /\ DOMAIN c = ContextFields
  BY DEF Init, ContextFields
<1>2. session.prediction = {} /\ session.pending = {} /\ session.cleanup = {}
  BY <1>1 DEF NewSession
<1>3. Held(session) = {}
  BY <1>2 DEF Held
<1>4. ListKept(session, data)
  BY <1>3, NoneKept
<1>5. CleanupIsBare(session)
  BY <1>2 DEF CleanupIsBare
<1>6. stack = <<>> /\ FramesOf(stack) = {} /\ Instructions(stack) = {}
  BY EmptySequence, DomainOf DEF Init, FramesOf, Instructions
<1>7. ListsShown(data, drawn, stack) = {}
  BY <1>6 DEF Init, ListsShown, Carried, Hidden, Drawing
<1>8. Clicks(host, stack) = {}
  BY <1>6 DEF Init, Clicks
<1>9. Names(session, ListsShown(data, drawn, stack), Clicks(host, stack))
  BY <1>3, <1>7, <1>8 DEF Names
<1>10. ClicksFitText
  BY <1>6 DEF ClicksFitText, Running
<1> QED BY <1>4, <1>5, <1>6, <1>9, <1>10 DEF LInv

LEMMA NextLInv == IInv /\ LInv /\ [Next]_vars => LInv'
<1> SUFFICES ASSUME IInv, LInv, [Next]_vars
             PROVE  LInv'
  OBVIOUS
<1>1. CASE Instruction
  BY <1>1, ClearLists, LeaveEditorLists, ForgetLists, DropLists, DropCompositionLists,
     RecoverLists, ReadyLists, ReloadLists, GateLists, TranslateLists, TestKeyLists,
     HandleKeyLists, ChooseLists, ReadPrefixLists, BindEditorLists, AssistLists,
     ObserveTextLists, PumpLists, AbandonLists, EditLists, AckLists DEF Instruction
<1>2. CASE Callback
  BY <1>2, TestKeyDownLists, OtherKeyLists, KeyDownLists, CompositionTerminatedLists,
     FocusLostLists, EndEditLists, ModeChangeLists, ActivateLists, ModelTimerLists,
     VerifyTimerLists, CandidateClickLists, DeactivateLists DEF Callback
<1>3. CASE Draw
  BY <1>3, DrawLists
<1>4. ASSUME NEW i, Click(i)
      PROVE  LInv'
  BY <1>4, ClickLists
<1>5. CASE UNCHANGED vars
  BY <1>5 DEF vars, LInv, ClicksFitText, Running, Top
<1> QED BY <1>1, <1>2, <1>3, <1>4, <1>5 DEF Next

LEMMA SpecLInv == Spec => []LInv
<1>1. Spec => [](IInv /\ LInv)
  BY InitIInv, InitLInv, NextIInv, NextLInv, PTL DEF Spec
<1> QED BY <1>1, PTL

\* While there is a list to choose from, the window draws that list and no other, as the view
\* shows it; a click takes a word only from a list made for the text that stands before the
\* caret; and it commits the word that was under the pointer when the list was drawn, or
\* nothing.  However the callbacks are nested in the edits, whatever the host refuses, and
\* however late the window draws and the click arrives.
THEOREM ListIsAlwaysTrue == Spec => []ListIsTrue
<1>1. ASSUME IInv, LInv
      PROVE  ListIsTrue
  <2>1. ListAgrees
    BY <1>1 DEF LInv, ListKept, DrawnAs, ListAgrees, ShownOf
  <2>2. ClicksFitText
    BY <1>1 DEF LInv
  <2>3. ASSUME Running("Choose"), HasPrediction(session)
        PROVE  \A i \in Chosen(session, Identity(Now.click)) :
                 Items(session)[i].text = Now.click.text
    <3>1. Now \in Instructions(stack) /\ Now.do = "Choose"
      BY <1>1, <2>3, FramesAre DEF Running, Now, Top
    <3>2. Now.click \in Clicks(host, stack)
      BY <3>1 DEF Clicks
    <3>3. PICK m : m = The(session.prediction)
      OBVIOUS
    <3>4. m \in session.prediction
      BY <2>3, <3>3 DEF The, HasPrediction
    <3>5. m \in Held(session)
      BY <3>4 DEF Held
    <3>6. Now.click.query = m.query => Fits(Now.click, m)
      BY <1>1, <3>2, <3>5 DEF LInv, Names
    <3>7. PICK a : a = Identity(Now.click)
      OBVIOUS
    <3>8. a.op = "SelectCandidate" /\ a.query = Now.click.query /\ a.id = Now.click.id
      BY <3>7 DEF Identity, SelectCandidate, Act
    <3>9. Chosen(session, a) =
            {i \in DOMAIN m.items : m.items[i].id = a.id /\ a.query = m.query}
      BY <3>3, <3>8 DEF Chosen, Items
    <3> QED BY <3>3, <3>6, <3>7, <3>8, <3>9 DEF Fits, Items
  <2> QED BY <2>1, <2>2, <2>3 DEF ListIsTrue, ClicksCommitTheDrawn
<1>2. IInv /\ LInv => ListIsTrue
  BY <1>1
<1> QED BY SpecIInv, SpecLInv, <1>2, PTL
=============================================================================
