--------------------------- MODULE LifecycleProofs ---------------------------
(***************************************************************************)
(* Theorems about Lifecycle, for every number of calls and every depth at  *)
(* which the host calls back.                                              *)
(*                                                                         *)
(* The inductive invariant follows what is registered through the stack.   *)
(* At most one call in progress works on the registrations, the phase of   *)
(* the lifecycle says which kind of call, and what the host holds is what  *)
(* is recorded, refused, or in the hands of that call.                     *)
(***************************************************************************)
EXTENDS Lifecycle, WellFoundedInduction, TLAPS

Registrations == [kind : Kinds, cookie : Nat]
Lives ==
  [phase : Phases, cancel : BOOLEAN, owner : BOOLEAN, tid : 0..MaxActivations,
   records : Seq(Registrations)]
Counts == [activate : 0..MaxActivations, deactivate : Nat]
Registering ==
  [call : {"ActivateEx"}, tid : Nat, at : Kinds \cup {"Finish", "Cancelled"},
   got : Seq(Registrations), kmgr : BOOLEAN]
Leaving == [call : {"Deactivate"}, at : {"Leave", "Left"}]
Clearing == [call : {"Clean"}, todo : Seq(Registrations), retained : Seq(Registrations)]
Frames == Registering \cup Leaving \cup Clearing

\* The calls that work on the registrations, and those that give the update sink up.
Registers(frame) == frame.call = "ActivateEx" /\ frame.at # "Cancelled"
Clears(frame) == frame.call = "Clean"
Works(frame) == Registers(frame) \/ Clears(frame)
Undoes(frame) == frame.call = "ActivateEx" /\ frame.at = "Cancelled"
GivesUp(frame) == frame.call = "Deactivate" \/ Undoes(frame)

Typed ==
  /\ life \in Lives
  /\ held \in SUBSET Registrations /\ refused \in SUBSET Registrations
  /\ dispatch \in BOOLEAN /\ sink \in BOOLEAN
  /\ calls \in Counts
  /\ stack \in Seq(Frames)

\* One call at a time works on the registrations, and the phase tells which.
OneWorks ==
  /\ \A i, j \in DOMAIN stack : Works(stack[i]) /\ Works(stack[j]) => i = j
  /\ \A i \in DOMAIN stack :
       /\ Registers(stack[i]) => life.phase = "Activating" /\ life.tid = stack[i].tid
       /\ Clears(stack[i]) => life.phase = "Cleaning"
       /\ Undoes(stack[i]) => stack[i].got = <<>>
  /\ life.phase \in {"Activating", "Cleaning"} => \E i \in DOMAIN stack : Works(stack[i])

\* Whoever has registered anything keeps the references until it is gone.
Owned ==
  /\ life.tid <= calls.activate
  /\ life.phase = "Idle" =>
       life.records = <<>> /\ (calls.activate > 0 => ~life.owner /\ life.tid = 0)
  /\ life.phase = "Activating" \/ life.records # <<>> => life.owner /\ life.tid # 0
  /\ \A i \in DOMAIN stack :
       Clears(stack[i]) /\ (stack[i].todo # <<>> \/ stack[i].retained # <<>>)
         => life.owner /\ life.tid # 0

Distinct(s) == \A i, j \in DOMAIN s : s[i] = s[j] => i = j
Apart(s, set) == \A i \in DOMAIN s : s[i] \notin set
Cookies(set) == \A r \in set : r.cookie <= calls.activate

\* The order of the registrations.
Rank == [at \in Kinds \cup {"Finish", "Cancelled"} |->
  CASE at = "KeyEvent" -> 1 [] at = "SourceKey" -> 2 [] at = "ThreadEvent" -> 3
    [] at = "LanguageBar" -> 4 [] at = "Compartment" -> 5 [] at = "PreservedKey" -> 6
    [] at = "ThreadFocus" -> 7 [] at = "TextEdit" -> 8 [] OTHER -> 9]

\* What an activation has registered so far: earlier kinds, each once, none of which was
\* refused by the host in an earlier life.
Registered(frame) ==
  /\ held = Recorded \cup refused \cup ToSet(frame.got)
  /\ frame.got \in {<<>>, <<Registration(frame.at, frame.tid)>>}
  /\ frame.at = "Finish" => frame.got = <<>>
  /\ \A i \in DOMAIN life.records : Rank[life.records[i].kind] < Rank[frame.at]
  /\ \A r \in refused : r.cookie < frame.tid
  /\ Distinct(life.records) /\ Apart(life.records, refused)

\* What a removal still has to ask for, and what it keeps.
Cleared(frame) ==
  /\ held = ToSet(frame.todo) \cup ToSet(frame.retained) \cup refused
  /\ Distinct(frame.todo) /\ Apart(frame.todo, refused)
  /\ Distinct(frame.retained) /\ Apart(frame.retained, refused)
  /\ Apart(frame.todo, ToSet(frame.retained))

Accounts ==
  /\ life.phase \in {"Idle", "Active", "Pending"} =>
       held = Recorded \cup refused /\ Distinct(life.records) /\ Apart(life.records, refused)
  /\ \A i \in DOMAIN stack :
       /\ Registers(stack[i]) => Registered(stack[i])
       /\ Clears(stack[i]) => Cleared(stack[i])
  /\ \A r \in refused : ~RetryOnFailure(r)
  /\ Cookies(held) /\ Cookies(refused)

\* The windows go with the call that ends the activation.
WindowsFollow ==
  /\ dispatch => life.phase \in {"Activating", "Active"}
  /\ dispatch /\ life.phase = "Activating" => ~life.cancel
  /\ \A i \in DOMAIN stack :
       Clears(stack[i]) => i + 1 \in DOMAIN stack /\ GivesUp(stack[i + 1])
  /\ sink /\ life.phase \in {"Idle", "Pending"} =>
       Has("LanguageBar") \/ \E i \in DOMAIN stack : GivesUp(stack[i])

IInv == Typed /\ OneWorks /\ Owned /\ Accounts /\ WindowsFollow

USE DEF Lives, Counts

-----------------------------------------------------------------------------
(* Sequences. *)

\* A set of numbers has a least one.
LEMMA LeastNumber ==
  ASSUME NEW T \in SUBSET Nat, T # {}
  PROVE  \E n \in T : \A m \in T : n <= m
<1> DEFINE R == {ss \in Nat \X Nat : ss[1] < ss[2]}
<1>1. IsWellFoundedOn(R, Nat)  BY NatLessThanWellFounded DEF OpToRel
<1>2. \E n \in T : \A m \in T : ~(<<m, n>> \in R)
  <2> HIDE DEF R
  <2> QED BY <1>1, WFMin
<1>3. PICK n \in T : \A m \in T : ~(<<m, n>> \in R)  BY <1>2
<1>4. \A m \in T : m \in Nat /\ n \in Nat /\ ~(m < n)  BY <1>3
<1> QED BY <1>3, <1>4

\* What is to be removed next is in the list.
LEMMA ForemostIsThere ==
  ASSUME NEW todo \in Seq(Registrations), todo # <<>>
  PROVE  Foremost(todo) \in DOMAIN todo
<1> DEFINE Of(p) == {i \in DOMAIN todo : Priority(todo[i]) = p}
<1>1. \A i \in DOMAIN todo : Priority(todo[i]) \in 0..2  BY DEF Priority
<1>2. \A p \in 0..2 : Of(p) # {} => \E i \in Of(p) : \A j \in Of(p) : i <= j
  <2> TAKE p \in 0..2
  <2> HAVE Of(p) # {}
  <2>1. Of(p) \in SUBSET Nat  OBVIOUS
  <2> HIDE DEF Of
  <2> QED BY <2>1, LeastNumber
<1>3. 1 \in DOMAIN todo  OBVIOUS
<1>4. PICK p \in 0..2 : Of(p) # {} /\ \A q \in 0..2 : q < p => Of(q) = {}
  <2>1. Of(0) # {} \/ Of(1) # {} \/ Of(2) # {}  BY <1>1, <1>3
  <2> HIDE DEF Of
  <2> QED BY <2>1
<1>5. PICK i \in Of(p) : \A j \in Of(p) : i <= j  BY <1>2, <1>4
<1>6. \A j \in DOMAIN todo : Before(todo, i, j)
  <2> TAKE j \in DOMAIN todo
  <2>1. Priority(todo[j]) \in 0..2 /\ j \in Of(Priority(todo[j]))  BY <1>1
  <2>2. ~(Priority(todo[j]) < p)  BY <1>4, <2>1
  <2>3. Priority(todo[i]) = p  BY <1>5
  <2>4. CASE Priority(todo[j]) = p  BY <2>3, <2>4, <1>5 DEF Before
  <2>5. CASE Priority(todo[j]) # p  BY <2>1, <2>2, <2>3, <2>5 DEF Before
  <2> QED BY <2>4, <2>5
<1> QED BY <1>5, <1>6 DEF Foremost

\* Taking one of several distinct elements out of a list leaves the others.
LEMMA RemovedFromList ==
  ASSUME NEW S, NEW s \in Seq(S), NEW k \in DOMAIN s
  PROVE  LET t == RemoveAt(s, k)
         IN /\ t \in Seq(S)
            /\ \A i \in DOMAIN t : \E j \in DOMAIN s : j # k /\ t[i] = s[j]
            /\ \A j \in DOMAIN s : j # k => \E i \in DOMAIN t : t[i] = s[j]
            /\ Distinct(s) => Distinct(t)
            /\ ToSet(t) \subseteq ToSet(s)
            /\ Distinct(s) => ToSet(t) = ToSet(s) \ {s[k]}
<1> DEFINE t == RemoveAt(s, k)
<1>1. /\ t \in Seq(S) /\ Len(t) = Len(s) - 1
      /\ \A i \in 1..Len(t) : t[i] = IF i < k THEN s[i] ELSE s[i + 1]
  <2> DEFINE a == SubSeq(s, 1, k - 1)
             b == SubSeq(s, k + 1, Len(s))
  <2>1. /\ a \in Seq(S) /\ Len(a) = k - 1 /\ \A i \in 1..(k - 1) : a[i] = s[i]
    OBVIOUS
  <2>2. /\ b \in Seq(S) /\ Len(b) = Len(s) - k /\ \A i \in 1..(Len(s) - k) : b[i] = s[k + i]
    OBVIOUS
  <2>3. t = a \o b  BY DEF RemoveAt
  <2> HIDE DEF a, b
  <2>4. t \in Seq(S) /\ Len(t) = Len(s) - 1  BY <2>1, <2>2, <2>3
  <2>5. \A i \in 1..Len(t) : t[i] = IF i < k THEN a[i] ELSE b[i - (k - 1)]
    BY <2>1, <2>2, <2>3
  <2>6. ASSUME NEW i \in 1..Len(t), ~(i < k) PROVE b[i - (k - 1)] = s[i + 1]
    <3>1. i - (k - 1) \in 1..(Len(s) - k) /\ k + (i - (k - 1)) = i + 1  BY <2>4, <2>6
    <3> QED BY <3>1, <2>2
  <2> QED BY <2>1, <2>4, <2>5, <2>6
<1> HIDE DEF t
<1>2. \A i \in DOMAIN t : \E j \in DOMAIN s : j # k /\ t[i] = s[j]
  <2> TAKE i \in DOMAIN t
  <2>1. CASE i < k  BY <2>1, <1>1
  <2>2. CASE ~(i < k)
    <3>1. i + 1 \in DOMAIN s /\ i + 1 # k /\ t[i] = s[i + 1]  BY <2>2, <1>1
    <3> QED BY <3>1
  <2> QED BY <2>1, <2>2
<1>3. \A j \in DOMAIN s : j # k => \E i \in DOMAIN t : t[i] = s[j]
  <2> TAKE j \in DOMAIN s
  <2> HAVE j # k
  <2>1. CASE j < k  BY <2>1, <1>1
  <2>2. CASE ~(j < k)
    <3>1. j - 1 \in DOMAIN t /\ t[j - 1] = s[j]  BY <2>2, <1>1
    <3> QED BY <3>1
  <2> QED BY <2>1, <2>2
<1>4. ASSUME Distinct(s) PROVE Distinct(t)
  <2> SUFFICES ASSUME NEW i \in DOMAIN t, NEW j \in DOMAIN t, t[i] = t[j] PROVE i = j
    BY DEF Distinct
  <2> DEFINE Old(n) == IF n < k THEN n ELSE n + 1
  <2>1. t[i] = s[Old(i)] /\ t[j] = s[Old(j)] /\ Old(i) \in DOMAIN s /\ Old(j) \in DOMAIN s
    BY <1>1
  <2>2. Old(i) = Old(j)  BY <1>4, <2>1 DEF Distinct
  <2> QED BY <2>2, <1>1
<1>5. ToSet(t) \subseteq ToSet(s)  BY <1>2 DEF ToSet
<1>6. ASSUME Distinct(s) PROVE ToSet(t) = ToSet(s) \ {s[k]}
  <2>1. \A j \in DOMAIN s : s[j] = s[k] => j = k  BY <1>6 DEF Distinct
  <2> QED BY <2>1, <1>2, <1>3 DEF ToSet
<1> QED BY <1>1, <1>2, <1>3, <1>4, <1>5, <1>6 DEF t

\* The elements of a list that gets longer by one.
LEMMA AddedToList ==
  ASSUME NEW S, NEW s \in Seq(S), NEW e \in S
  PROVE  LET t == s \o <<e>>
         IN /\ t \in Seq(S) /\ DOMAIN t = 1..(Len(s) + 1) /\ Len(t) = Len(s) + 1
            /\ \A i \in DOMAIN s : t[i] = s[i]
            /\ t[Len(s) + 1] = e
            /\ ToSet(t) = ToSet(s) \cup {e}
            /\ Distinct(s) /\ e \notin ToSet(s) => Distinct(t)
<1> DEFINE t == s \o <<e>>
<1>1. /\ t \in Seq(S) /\ DOMAIN t = 1..(Len(s) + 1) /\ Len(t) = Len(s) + 1
      /\ \A i \in DOMAIN s : t[i] = s[i]
      /\ t[Len(s) + 1] = e
  OBVIOUS
<1> HIDE DEF t
<1>2. DOMAIN t = DOMAIN s \cup {Len(s) + 1}  BY <1>1
<1>3. ToSet(t) = ToSet(s) \cup {e}  BY <1>1, <1>2 DEF ToSet
<1>4. ASSUME Distinct(s), e \notin ToSet(s) PROVE Distinct(t)
  <2> SUFFICES ASSUME NEW i \in DOMAIN t, NEW j \in DOMAIN t, t[i] = t[j] PROVE i = j
    BY DEF Distinct
  <2>1. \A n \in DOMAIN s : s[n] # e  BY <1>4 DEF ToSet
  <2>2. CASE i \in DOMAIN s /\ j \in DOMAIN s  BY <2>2, <1>1, <1>4 DEF Distinct
  <2>3. CASE i \in DOMAIN s /\ j \notin DOMAIN s  BY <2>3, <2>1, <1>1, <1>2
  <2>4. CASE i \notin DOMAIN s /\ j \in DOMAIN s  BY <2>4, <2>1, <1>1, <1>2
  <2>5. CASE i \notin DOMAIN s /\ j \notin DOMAIN s  BY <2>5, <1>2
  <2> QED BY <2>2, <2>3, <2>4, <2>5
<1> QED BY <1>1, <1>3, <1>4 DEF t

\* The stack when its head is replaced, when a call returns and when one is made.
LEMMA HeadReplaced ==
  ASSUME stack \in Seq(Frames), stack # <<>>, NEW f \in Frames, stack' = <<f>> \o Tail(stack)
  PROVE  /\ stack' \in Seq(Frames) /\ DOMAIN stack' = DOMAIN stack /\ stack'[1] = f
         /\ Len(stack') = Len(stack) /\ 1 \in DOMAIN stack
         /\ \A i \in DOMAIN stack : i # 1 => stack'[i] = stack[i]
  OBVIOUS

LEMMA HeadReturned ==
  ASSUME stack \in Seq(Frames), stack # <<>>, stack' = Tail(stack)
  PROVE  /\ stack' \in Seq(Frames) /\ Len(stack') = Len(stack) - 1 /\ Len(stack) >= 1
         /\ \A i \in DOMAIN stack' : i + 1 \in DOMAIN stack /\ stack'[i] = stack[i + 1]
         /\ \A i \in DOMAIN stack : i # 1 => i - 1 \in DOMAIN stack' /\ stack'[i - 1] = stack[i]
  OBVIOUS

LEMMA HeadCalled ==
  ASSUME NEW s \in Seq(Frames), NEW f \in Frames, stack' = <<f>> \o s
  PROVE  /\ stack' \in Seq(Frames) /\ Len(stack') = Len(s) + 1 /\ stack'[1] = f
         /\ 1 \in DOMAIN stack'
         /\ \A i \in DOMAIN stack' : i # 1 => i - 1 \in DOMAIN s /\ stack'[i] = s[i - 1]
         /\ \A i \in DOMAIN s : i + 1 \in DOMAIN stack' /\ stack'[i + 1] = s[i]
  OBVIOUS

\* The head runs.
LEMMA HeadRuns ==
  ASSUME stack \in Seq(Frames), stack # <<>>
  PROVE  1 \in DOMAIN stack /\ Top = stack[1] /\ Top \in Frames
  BY DEF Top

-----------------------------------------------------------------------------
(* The steps of the invariant. *)

\* What the kinds of frames have.
LEMMA FrameKinds ==
  ASSUME NEW f \in Frames
  PROVE  /\ f.call = "ActivateEx" => f \in Registering
         /\ f.call = "Deactivate" => f \in Leaving
         /\ f.call = "Clean" => f \in Clearing
         /\ f.call \in {"ActivateEx", "Deactivate", "Clean"}
  BY DEF Frames, Registering, Leaving, Clearing

\* While the head works on the registrations, no other call does.
LEMMA WorksAlone ==
  ASSUME IInv, stack # <<>>, Works(Top)
  PROVE  /\ \A i \in DOMAIN stack : i # 1 => ~Works(stack[i])
         /\ Registers(Top) => life.phase = "Activating" /\ life.tid = Top.tid /\ Registered(Top)
         /\ Clears(Top) => life.phase = "Cleaning" /\ Cleared(Top)
<1>1. 1 \in DOMAIN stack /\ Top = stack[1]  BY HeadRuns DEF IInv, Typed
<1> QED BY <1>1 DEF IInv, OneWorks, Accounts

LEMMA InitGood == Init => IInv
<1> SUFFICES ASSUME Init PROVE IInv  OBVIOUS
<1> USE LifecycleAssumption DEF Init
<1>1. Typed
  <2>1. life \in Lives
    <3>1. <<>> \in Seq(Registrations) /\ 0 \in 0..MaxActivations /\ "Idle" \in Phases
      BY DEF Phases
    <3> QED BY <3>1
  <2>2. calls \in Counts /\ stack \in Seq(Frames)
    OBVIOUS
  <2> QED BY <2>1, <2>2 DEF Typed
<1>2. OneWorks  BY DEF OneWorks
<1>3. Owned  BY DEF Owned
<1>4. Accounts
  BY DEF Accounts, Recorded, ToSet, Distinct, Apart, Cookies
<1>5. WindowsFollow  BY DEF WindowsFollow
<1> QED BY <1>1, <1>2, <1>3, <1>4, <1>5 DEF IInv

LEMMA ReleaseKeeps == IInv /\ ReleaseUnactivated => IInv'
<1> SUFFICES ASSUME IInv, ReleaseUnactivated PROVE IInv'  OBVIOUS
<1>1. life \in Lives
  BY DEF IInv, Typed
<1>2. /\ life'.phase = life.phase /\ life'.cancel = life.cancel /\ ~life'.owner
      /\ life'.tid = life.tid /\ life'.records = life.records /\ life.phase = "Idle"
      /\ life' \in Lives
  BY <1>1 DEF ReleaseUnactivated
<1>3. UNCHANGED <<held, refused, dispatch, sink, calls, stack>> /\ calls.activate = 0 /\ stack = <<>>
  BY DEF ReleaseUnactivated
<1> USE <1>2, <1>3 DEF IInv
<1>4. Typed'  BY DEF Typed
<1>5. OneWorks'  BY DEF OneWorks
<1>6. Owned'  BY DEF Owned
<1>7. Accounts'  BY DEF Accounts, Recorded, Cookies
<1>8. WindowsFollow'  BY DEF WindowsFollow, Has
<1> QED BY <1>4, <1>5, <1>6, <1>7, <1>8

\* A call that finds something left of an earlier activation only takes the reference.
LEMMA ActivateRefusedKeeps == IInv /\ ActivateEx /\ life.phase # "Idle" => IInv'
<1> SUFFICES ASSUME IInv, ActivateEx, life.phase # "Idle" PROVE IInv'  OBVIOUS
<1>1. /\ life \in Lives
      /\ calls \in Counts
      /\ held \in SUBSET Registrations /\ refused \in SUBSET Registrations
  BY DEF IInv, Typed
<1>2. /\ life'.phase = life.phase /\ life'.cancel = life.cancel /\ life'.owner
      /\ life'.tid = life.tid /\ life'.records = life.records
      /\ life' \in Lives
  BY <1>1 DEF ActivateEx
<1>3. /\ UNCHANGED <<held, refused, dispatch, sink, stack>>
      /\ calls'.activate = calls.activate + 1
      /\ calls' \in Counts
  BY <1>1, LifecycleAssumption DEF ActivateEx
<1> USE <1>2, <1>3 DEF IInv
<1>4. Typed'  BY DEF Typed
<1>5. OneWorks'  BY DEF OneWorks
<1>6. Owned'  BY <1>1 DEF Owned
<1>7. Accounts'
  <2>1. Cookies(held)' /\ Cookies(refused)'
    BY <1>1 DEF Accounts, Cookies, Registrations
  <2>2. \A i \in DOMAIN stack :
          /\ Registers(stack[i]) => Registered(stack[i])'
          /\ Clears(stack[i]) => Cleared(stack[i])'
    BY DEF Accounts, Registered, Cleared, Recorded
  <2> QED BY <2>1, <2>2 DEF Accounts, Recorded
<1>8. WindowsFollow'  BY DEF WindowsFollow, Has
<1> QED BY <1>4, <1>5, <1>6, <1>7, <1>8

\* An activation begins with nothing recorded, and a client id of its own.
LEMMA ActivateBegunKeeps == IInv /\ ActivateEx /\ life.phase = "Idle" => IInv'
<1> SUFFICES ASSUME IInv, ActivateEx, life.phase = "Idle" PROVE IInv'  OBVIOUS
<1>1. /\ life \in Lives
      /\ calls \in Counts
      /\ held \in SUBSET Registrations /\ refused \in SUBSET Registrations
      /\ stack \in Seq(Frames) /\ sink \in BOOLEAN
  BY DEF IInv, Typed
<1>0. PICK f : f = Activation(calls.activate + 1)  OBVIOUS
<1>2. /\ life'.phase = "Activating" /\ ~life'.cancel /\ life'.owner
      /\ life'.tid = calls.activate + 1 /\ life'.records = life.records
      /\ life' \in Lives
  <2>1. life' = [life EXCEPT !.owner = TRUE, !.tid = calls.activate + 1,
                             !.phase = "Activating", !.cancel = FALSE]
    BY DEF ActivateEx
  <2>2. calls.activate + 1 \in 0..MaxActivations /\ "Activating" \in Phases
    BY <1>1, LifecycleAssumption DEF ActivateEx, Phases
  <2> QED BY <1>1, <2>1, <2>2
<1>3. /\ UNCHANGED <<held, refused, sink>> /\ dispatch' \in BOOLEAN
      /\ calls'.activate = calls.activate + 1
      /\ calls' \in Counts
      /\ stack' = <<f>> \o stack
  <2>1. UNCHANGED <<held, refused, sink>> /\ \E created \in BOOLEAN : dispatch' = created
    BY DEF ActivateEx
  <2>2. stack' = <<f>> \o stack  BY <1>0 DEF ActivateEx
  <2>3. /\ calls' = [calls EXCEPT !.activate = @ + 1]
        /\ calls.activate + 1 \in 0..MaxActivations
    BY <1>1, LifecycleAssumption DEF ActivateEx
  <2> QED BY <1>1, <2>1, <2>2, <2>3
<1>4. /\ f \in Frames /\ f \in Registering /\ f.call = "ActivateEx" /\ f.at = "KeyEvent"
      /\ f.got = <<>> /\ f.tid = calls.activate + 1
  BY <1>0, <1>1 DEF Activation, Frames, Registering, Kinds
<1>5. /\ stack' \in Seq(Frames) /\ Len(stack') = Len(stack) + 1 /\ stack'[1] = f
      /\ 1 \in DOMAIN stack'
      /\ \A i \in DOMAIN stack' : i # 1 => i - 1 \in DOMAIN stack /\ stack'[i] = stack[i - 1]
      /\ \A i \in DOMAIN stack : i + 1 \in DOMAIN stack' /\ stack'[i + 1] = stack[i]
  BY <1>1, <1>3, <1>4, HeadCalled
<1>6. /\ \A i \in DOMAIN stack : ~Works(stack[i])
      /\ life.records = <<>>
  BY DEF IInv, OneWorks, Owned, Works
<1>7. Works(f) /\ Registers(f) /\ ~Clears(f) /\ ~GivesUp(f)
  BY <1>4 DEF Works, Registers, Clears, GivesUp, Undoes
<1>8. \A i \in DOMAIN stack' : i # 1 => ~Works(stack'[i])
  BY <1>5, <1>6
<1>9. Typed'  BY <1>2, <1>3, <1>5, <1>1 DEF Typed
<1>10. OneWorks'  BY <1>1, <1>2, <1>4, <1>5, <1>7, <1>8 DEF IInv, OneWorks, Works, GivesUp
<1>11. Owned'  BY <1>1, <1>2, <1>3, <1>5, <1>6, <1>7, <1>8 DEF Owned, Works
<1>12. Accounts'
  <2>1. Cookies(held)' /\ Cookies(refused)'
    BY <1>1, <1>3 DEF IInv, Accounts, Cookies, Registrations
  <2>2. Registered(f)'
    <3>1. held' = Recorded' \cup refused'
      BY <1>2, <1>3 DEF IInv, Accounts, Recorded
    <3>2. ToSet(f.got) = {}  BY <1>4 DEF ToSet
    <3>3. \A r \in refused' : r.cookie < f.tid
      BY <1>1, <1>3, <1>4 DEF IInv, Accounts, Cookies, Registrations
    <3>4. life'.records = <<>>  BY <1>2, <1>6
    <3>5. Distinct(life.records)' /\ Apart(life.records, refused)'
      BY <3>4 DEF Distinct, Apart
    <3> QED BY <3>1, <3>2, <3>3, <3>4, <3>5, <1>4 DEF Registered
  <2> QED BY <2>1, <2>2, <1>2, <1>3, <1>5, <1>7, <1>8 DEF IInv, Accounts, Works
<1>13. WindowsFollow'  BY <1>2, <1>5, <1>7, <1>8 DEF WindowsFollow, Works
<1> QED BY <1>9, <1>10, <1>11, <1>12, <1>13 DEF IInv

\* What is registered next comes later in the order.
LEMMA AfterIsLater ==
  ASSUME NEW f \in Registering, f.at \in Kinds, NEW got
  PROVE  After(f, got) \in Kinds \cup {"Finish"} /\ Rank[f.at] < Rank[After(f, got)]
<1>1. After(f, got) \in Kinds \cup {"Finish"}  BY DEF After, Kinds
<1>2. /\ Rank["KeyEvent"] = 1 /\ Rank["SourceKey"] = 2 /\ Rank["ThreadEvent"] = 3
      /\ Rank["LanguageBar"] = 4 /\ Rank["Compartment"] = 5 /\ Rank["PreservedKey"] = 6
      /\ Rank["ThreadFocus"] = 7 /\ Rank["TextEdit"] = 8 /\ Rank["Finish"] = 9
  BY DEF Rank, Kinds
<1> HIDE DEF Rank
<1>3. Rank[f.at] < Rank[After(f, got)]
  <2>1. CASE f.at = "KeyEvent"  BY <1>2, <2>1 DEF After
  <2>2. CASE f.at = "SourceKey"  BY <1>2, <2>2 DEF After
  <2>3. CASE f.at = "ThreadEvent"  BY <1>2, <2>3 DEF After
  <2>4. CASE f.at = "LanguageBar"  BY <1>2, <2>4 DEF After
  <2>5. CASE f.at = "Compartment"  BY <1>2, <2>5 DEF After
  <2>6. CASE f.at = "PreservedKey"  BY <1>2, <2>6 DEF After
  <2>7. CASE f.at = "ThreadFocus"  BY <1>2, <2>7 DEF After
  <2>8. CASE f.at = "TextEdit"  BY <1>2, <2>8 DEF After
  <2> QED BY <2>1, <2>2, <2>3, <2>4, <2>5, <2>6, <2>7, <2>8 DEF Kinds
<1> QED BY <1>1, <1>3

LEMMA RanksAreNumbers == \A at \in Kinds \cup {"Finish", "Cancelled"} : Rank[at] \in Nat
  BY DEF Rank

\* A working head that stays at work on its own account keeps what is said of the stack.
LEMMA HeadGoesOn ==
  ASSUME IInv, stack # <<>>, Registers(Top), NEW f \in Registering, f.at # "Cancelled",
         f.tid = Top.tid, Goes(f), life' \in Lives, life'.phase = life.phase,
         life'.tid = life.tid, life'.cancel = life.cancel, life'.owner = life.owner,
         UNCHANGED <<refused, dispatch, calls>>, held' \in SUBSET Registrations,
         sink' \in BOOLEAN, Cookies(held)', Registered(f)'
  PROVE  IInv'
<1>1. 1 \in DOMAIN stack /\ Top = stack[1] /\ stack \in Seq(Frames)  BY HeadRuns DEF IInv, Typed
<1>2. f \in Frames /\ f.call = "ActivateEx"  BY DEF Frames, Registering
<1>3. /\ stack' \in Seq(Frames) /\ DOMAIN stack' = DOMAIN stack /\ stack'[1] = f
      /\ Len(stack') = Len(stack)
      /\ \A i \in DOMAIN stack : i # 1 => stack'[i] = stack[i]
  BY <1>1, <1>2, HeadReplaced DEF Goes
<1>4. Registers(f) /\ Works(f) /\ ~Clears(f) /\ ~GivesUp(f) /\ Works(Top)
  BY <1>2 DEF Registers, Works, Clears, GivesUp, Undoes
<1>5. /\ \A i \in DOMAIN stack : i # 1 => ~Works(stack'[i])
      /\ life.phase = "Activating" /\ life.tid = Top.tid
  BY <1>3, <1>4, WorksAlone
<1>6. Typed'  BY <1>3 DEF IInv, Typed
<1>7. OneWorks'  BY <1>1, <1>3, <1>4, <1>5 DEF IInv, OneWorks, Works, GivesUp
<1>8. Owned'  BY <1>1, <1>3, <1>4, <1>5 DEF IInv, Owned, Works
<1>9. Accounts'
  BY <1>1, <1>3, <1>4, <1>5 DEF IInv, Accounts, Works, Cookies
<1>10. WindowsFollow'
  BY <1>1, <1>3, <1>4, <1>5 DEF IInv, WindowsFollow, Works
<1> QED BY <1>6, <1>7, <1>8, <1>9, <1>10 DEF IInv

LEMMA AdviseKeeps ==
  ASSUME IInv, NEW kind \in Kinds, Advise(kind)
  PROVE  IInv'
<1>1. /\ stack # <<>> /\ Top.call = "ActivateEx" /\ Top.at = kind /\ Top.got = <<>>
      /\ life \in Lives /\ calls \in Counts /\ Top \in Registering /\ held \in SUBSET Registrations
  BY HeadRuns, FrameKinds DEF Advise, Activating, IInv, Typed
<1>2. PICK r : r = Registration(kind, Top.tid)  OBVIOUS
<1>3. PICK f : f = [Top EXCEPT !.got = <<r>>]  OBVIOUS
<1>4. /\ r \in Registrations /\ r.kind = kind
      /\ r.cookie = IF kind = "LanguageBar" THEN 0 ELSE Top.tid
  BY <1>1, <1>2 DEF Registration, Registrations, Registering
<1>5. /\ f \in Registering /\ f.at = kind /\ f.tid = Top.tid /\ f.got = <<r>>
  <2>1. <<r>> \in Seq(Registrations)  BY <1>4
  <2> QED BY <1>1, <1>3, <2>1 DEF Registering
<1>6. /\ held' = held \cup {r} /\ Goes(f) /\ sink' = (sink \/ kind = "LanguageBar")
      /\ UNCHANGED <<life, refused, dispatch, calls>>
  BY <1>2, <1>3 DEF Advise
<1>7. /\ Registers(Top) /\ kind # "Cancelled" /\ kind # "Finish"
  BY <1>1 DEF Registers, Kinds
<1>8. Registered(Top) /\ life.tid = Top.tid /\ life.phase = "Activating"
  BY <1>1, <1>7, WorksAlone DEF Works
<1>9. Registered(f)'
  <2>1. held' = Recorded' \cup refused' \cup ToSet(f.got)
    <3>1. ToSet(f.got) = {r} /\ ToSet(Top.got) = {}  BY <1>1, <1>5 DEF ToSet
    <3> QED BY <3>1, <1>6, <1>8 DEF Registered, Recorded
  <2>2. f.got = <<Registration(f.at, f.tid)>>  BY <1>2, <1>5
  <2> QED BY <1>1, <1>5, <1>6, <1>7, <1>8, <2>1, <2>2 DEF Registered
<1>10. Cookies(held)'
  <2>1. r.cookie <= calls.activate
    BY <1>1, <1>4, <1>8 DEF IInv, Owned
  <2> QED BY <2>1, <1>6 DEF IInv, Accounts, Cookies
<1>11. held' \in SUBSET Registrations /\ sink' \in BOOLEAN  BY <1>1, <1>4, <1>6
<1> QED BY <1>1, <1>5, <1>6, <1>7, <1>9, <1>10, <1>11, HeadGoesOn

LEMMA AdviseFailsKeeps ==
  ASSUME IInv, NEW kind \in Kinds, AdviseFails(kind)
  PROVE  IInv'
<1>1. /\ stack # <<>> /\ Top.call = "ActivateEx" /\ Top.at = kind /\ Top.got = <<>>
      /\ life \in Lives /\ calls \in Counts /\ Top \in Registering /\ held \in SUBSET Registrations
  BY HeadRuns, FrameKinds DEF AdviseFails, Activating, IInv, Typed
<1>2. PICK at : at = After(Top, FALSE)  OBVIOUS
<1>3. PICK f : f = [Top EXCEPT !.at = at]  OBVIOUS
<1>4. at \in Kinds \cup {"Finish"} /\ Rank[kind] < Rank[at] /\ at # "Cancelled"
  BY <1>1, <1>2, AfterIsLater DEF Kinds
<1>5. /\ f \in Registering /\ f.at = at /\ f.tid = Top.tid /\ f.got = <<>>
  BY <1>1, <1>3, <1>4 DEF Registering
<1>6. /\ Goes(f) /\ sink' \in BOOLEAN
      /\ UNCHANGED <<life, held, refused, dispatch, calls>>
  BY <1>2, <1>3 DEF AdviseFails
<1>7. /\ Registers(Top) /\ kind # "Cancelled"
  BY <1>1 DEF Registers, Kinds
<1>8. Registered(Top)
  BY <1>1, <1>7, WorksAlone DEF Works
<1>9. Registered(f)'
  <2>1. \A i \in DOMAIN life.records : Rank[life.records[i].kind] < Rank[at]
    <3> TAKE i \in DOMAIN life.records
    <3>0. life.records \in Seq(Registrations)  BY <1>1
    <3>a. \A q \in Seq(Registrations) : \A j \in DOMAIN q : q[j] \in Registrations  OBVIOUS
    <3>b. life.records[i] \in Registrations  BY <3>0, <3>a
    <3>1. life.records[i].kind \in Kinds  BY <3>b DEF Registrations
    <3>2. Rank[life.records[i].kind] \in Nat /\ Rank[kind] \in Nat /\ Rank[at] \in Nat
      BY <3>1, <1>4, RanksAreNumbers
    <3>3. Rank[life.records[i].kind] < Rank[kind]  BY <1>1, <1>8 DEF Registered
    <3> QED BY <3>2, <3>3, <1>4
  <2> QED BY <1>1, <1>5, <1>6, <1>8, <2>1 DEF Registered, Recorded
<1>10. Cookies(held)'  BY <1>6 DEF IInv, Accounts, Cookies
<1> QED BY <1>1, <1>4, <1>5, <1>6, <1>7, <1>9, <1>10, HeadGoesOn

\* What the host has registered becomes a record: a kind of its own, and never refused.
LEMMA RecordKeeps == IInv /\ Record => IInv'
<1> SUFFICES ASSUME IInv, Record PROVE IInv'  OBVIOUS
<1>1. /\ stack # <<>> /\ Top.call = "ActivateEx" /\ Top.got # <<>>
      /\ life \in Lives /\ calls \in Counts /\ Top \in Registering /\ held \in SUBSET Registrations
      /\ life.records \in Seq(Registrations) /\ sink \in BOOLEAN
  BY HeadRuns, FrameKinds DEF Record, IInv, Typed
<1>2. Registers(Top) /\ Registered(Top) /\ life.tid = Top.tid
  <2>1. Top = stack[1] /\ 1 \in DOMAIN stack  BY <1>1, HeadRuns DEF IInv, Typed
  <2>2. Top.at # "Cancelled"  BY <1>1, <2>1 DEF IInv, OneWorks, Undoes
  <2> QED BY <1>1, <2>2, WorksAlone DEF Registers, Works
<1>3. /\ Top.at \in Kinds /\ Top.got = <<Registration(Top.at, Top.tid)>>
  BY <1>1, <1>2 DEF Registered, Registers, Registering
<1>4. PICK r : r = Registration(Top.at, Top.tid)  OBVIOUS
<1>5. /\ r \in Registrations /\ r.kind = Top.at /\ ToSet(Top.got) = {r} /\ Top.got = <<r>>
      /\ r.cookie = IF Top.at = "LanguageBar" THEN 0 ELSE Top.tid
  BY <1>1, <1>3, <1>4 DEF Registration, Registrations, Registering, ToSet
<1>6. PICK at : at = After(Top, TRUE)  OBVIOUS
<1>7. PICK f : f = [Top EXCEPT !.at = at, !.got = <<>>, !.kmgr = @ \/ Top.at = "KeyEvent"]
  OBVIOUS
<1>8. at \in Kinds \cup {"Finish"} /\ Rank[Top.at] < Rank[at] /\ at # "Cancelled"
  BY <1>1, <1>3, <1>6, AfterIsLater DEF Kinds
<1>9. /\ f \in Registering /\ f.at = at /\ f.tid = Top.tid /\ f.got = <<>>
  <2>1. <<>> \in Seq(Registrations) /\ (Top.kmgr \/ Top.at = "KeyEvent") \in BOOLEAN
    BY <1>1 DEF Registering
  <2> QED BY <1>1, <1>7, <1>8, <2>1 DEF Registering
<1>10. /\ Goes(f) /\ life' = [life EXCEPT !.records = @ \o <<r>>]
       /\ UNCHANGED <<held, refused, dispatch, sink, calls>>
  BY <1>5, <1>6, <1>7 DEF Record
<1> DEFINE s == life.records
           t == s \o <<r>>
<1>11. /\ \A i \in DOMAIN s : s[i] \in Registrations /\ Rank[s[i].kind] < Rank[Top.at]
       /\ Distinct(s) /\ Apart(s, refused) /\ \A q \in refused : q.cookie < Top.tid
       /\ held = ToSet(s) \cup refused \cup {r}
  BY <1>1, <1>2, <1>5 DEF Registered, Recorded
<1>12. r \notin refused
  <2>1. CASE Top.at = "LanguageBar"
    BY <2>1, <1>5 DEF IInv, Accounts, RetryOnFailure
  <2>2. CASE Top.at # "LanguageBar"
    BY <1>1, <2>2, <1>5, <1>11 DEF Registering
  <2> QED BY <2>1, <2>2
<1>13. r \notin ToSet(s)
  <2>1. Rank[r.kind] \in Nat  BY <1>3, <1>5, RanksAreNumbers
  <2> QED BY <2>1, <1>5, <1>11 DEF ToSet
<1>14. /\ t \in Seq(Registrations) /\ DOMAIN t = 1..(Len(s) + 1)
       /\ \A i \in DOMAIN s : t[i] = s[i]
       /\ t[Len(s) + 1] = r /\ ToSet(t) = ToSet(s) \cup {r} /\ Distinct(t)
  BY <1>1, <1>5, <1>11, <1>13, AddedToList
<1>15. \A i \in DOMAIN t : i \in DOMAIN s \/ i = Len(s) + 1
  BY <1>1, <1>14
<1>16. life' \in Lives /\ life'.records = t
  BY <1>1, <1>10, <1>14
<1>17. Registered(f)'
  <2>1. held' = Recorded' \cup refused' \cup ToSet(f.got)
    <3>1. ToSet(f.got) = {}  BY <1>9 DEF ToSet
    <3> HIDE DEF t
    <3> QED BY <3>1, <1>10, <1>11, <1>14, <1>16 DEF Recorded
  <2>2. \A i \in DOMAIN t : Rank[t[i].kind] < Rank[at]
    <3> TAKE i \in DOMAIN t
    <3>1. Rank[Top.at] \in Nat /\ Rank[at] \in Nat  BY <1>3, <1>8, RanksAreNumbers
    <3>2. CASE i = Len(s) + 1  BY <3>1, <3>2, <1>5, <1>8, <1>14
    <3>3. CASE i \in DOMAIN s
      <4>1. s[i].kind \in Kinds  BY <3>3, <1>11 DEF Registrations
      <4>2. Rank[s[i].kind] \in Nat  BY <4>1, RanksAreNumbers
      <4> QED BY <3>1, <3>3, <4>2, <1>8, <1>11, <1>14
    <3> QED BY <3>2, <3>3, <1>15
  <2>3. Apart(t, refused)
    BY <1>11, <1>12, <1>14, <1>15 DEF Apart
  <2>4. /\ f.got \in {<<>>, <<Registration(f.at, f.tid)>>}
        /\ f.at = "Finish" => f.got = <<>>
        /\ \A q \in refused' : q.cookie < f.tid
    BY <1>9, <1>10, <1>11
  <2> HIDE DEF t
  <2> QED BY <1>9, <1>10, <1>14, <1>16, <2>1, <2>2, <2>3, <2>4 DEF Registered
<1>18. Cookies(held)'  BY <1>10 DEF IInv, Accounts, Cookies
<1>19. /\ life'.phase = life.phase /\ life'.tid = life.tid
       /\ life'.cancel = life.cancel /\ life'.owner = life.owner
  BY <1>1, <1>10
<1>20. held' \in SUBSET Registrations /\ sink' \in BOOLEAN  BY <1>1, <1>10
<1> QED BY <1>1, <1>2, <1>8, <1>9, <1>10, <1>16, <1>17, <1>18, <1>19, <1>20, HeadGoesOn

\* An activation that was not cancelled ends with its records.
LEMMA FinishKeeps == IInv /\ Finish /\ ~life.cancel => IInv'
<1> SUFFICES ASSUME IInv, Finish, ~life.cancel PROVE IInv'  OBVIOUS
<1>1. /\ stack # <<>> /\ Top.call = "ActivateEx" /\ Top.at = "Finish"
      /\ life \in Lives /\ Top = stack[1] /\ 1 \in DOMAIN stack /\ stack \in Seq(Frames)
  BY HeadRuns DEF Finish, Activating, IInv, Typed
<1>2. /\ Registers(Top) /\ Works(Top) /\ Registered(Top) /\ life.tid = Top.tid
      /\ life.phase = "Activating" /\ \A i \in DOMAIN stack : i # 1 => ~Works(stack[i])
  BY <1>1, WorksAlone DEF Registers, Works
<1>3. /\ life' \in Lives /\ life'.phase = "Active" /\ life'.tid = life.tid
      /\ life'.cancel = life.cancel /\ life'.owner = life.owner /\ life'.records = life.records
  <2>1. life' = [life EXCEPT !.phase = "Active"] /\ "Active" \in Phases  BY DEF Finish, Phases
  <2> QED BY <1>1, <2>1
<1>4. stack' = Tail(stack) /\ UNCHANGED <<held, refused, dispatch, sink, calls>>
  BY DEF Finish, Returns
<1>5. /\ stack' \in Seq(Frames) /\ Len(stack') = Len(stack) - 1 /\ Len(stack) >= 1
      /\ \A i \in DOMAIN stack' : i + 1 \in DOMAIN stack /\ stack'[i] = stack[i + 1]
  BY <1>1, <1>4, HeadReturned
<1>6. \A i \in DOMAIN stack' : ~Works(stack'[i])
  BY <1>2, <1>5
<1>7. Typed'  BY <1>3, <1>4, <1>5 DEF IInv, Typed
<1>8. OneWorks'  BY <1>3, <1>5, <1>6 DEF IInv, OneWorks, Works, GivesUp
<1>9. Owned'  BY <1>2, <1>3, <1>4, <1>6 DEF IInv, Owned, Works
<1>10. Accounts'
  <2>1. ToSet(Top.got) = {}  BY <1>1, <1>2 DEF Registered, ToSet
  <2>2. /\ held' = Recorded' \cup refused'
        /\ Distinct(life.records)' /\ Apart(life.records, refused)'
    BY <1>2, <1>3, <1>4, <2>1 DEF Registered, Recorded
  <2> QED BY <1>3, <1>4, <1>6, <2>2 DEF IInv, Accounts, Works, Cookies
<1>11. WindowsFollow'  BY <1>2, <1>3, <1>4, <1>6 DEF IInv, WindowsFollow, Works
<1> QED BY <1>7, <1>8, <1>9, <1>10, <1>11 DEF IInv

\* A removal that begins has all that is recorded to ask for.
LEMMA ClearedAtFirst ==
  ASSUME life.records \in Seq(Registrations), held = Recorded \cup refused,
         Distinct(life.records), Apart(life.records, refused)
  PROVE  LET f == Cleaning(life.records)
         IN f \in Frames /\ f.call = "Clean" /\ f.todo = life.records /\ f.retained = <<>>
            /\ Cleared(f) /\ Clears(f) /\ Works(f) /\ ~Registers(f)
<1> DEFINE f == Cleaning(life.records)
<1>1. /\ f \in Clearing /\ f \in Frames /\ f.call = "Clean" /\ f.todo = life.records
      /\ f.retained = <<>>
  BY DEF Cleaning, Clearing, Frames
<1> HIDE DEF f
<1>2. ToSet(f.retained) = {}  BY <1>1 DEF ToSet
<1>3. Cleared(f)
  BY <1>1, <1>2 DEF Cleared, Recorded, Distinct, Apart
<1> QED BY <1>1, <1>3 DEF f, Clears, Works, Registers

\* A cancelled one hands them to the removal that undoes it.
LEMMA FinishCancelledKeeps == IInv /\ Finish /\ life.cancel => IInv'
<1> SUFFICES ASSUME IInv, Finish, life.cancel PROVE IInv'  OBVIOUS
<1>1. /\ stack # <<>> /\ Top.call = "ActivateEx" /\ Top.at = "Finish"
      /\ life \in Lives /\ Top = stack[1] /\ 1 \in DOMAIN stack /\ stack \in Seq(Frames)
      /\ Top \in Registering /\ life.records \in Seq(Registrations)
  BY HeadRuns, FrameKinds DEF Finish, Activating, IInv, Typed
<1>2. /\ Registers(Top) /\ Works(Top) /\ Registered(Top) /\ life.tid = Top.tid
      /\ life.phase = "Activating" /\ \A i \in DOMAIN stack : i # 1 => ~Works(stack[i])
  BY <1>1, WorksAlone DEF Registers, Works
<1>3. /\ life' \in Lives /\ life'.phase = "Cleaning" /\ life'.tid = life.tid
      /\ life'.cancel = life.cancel /\ life'.owner = life.owner /\ life'.records = life.records
  <2>1. life' = [life EXCEPT !.phase = "Cleaning"] /\ "Cleaning" \in Phases
    BY DEF Finish, Phases
  <2> QED BY <1>1, <2>1
<1>4. PICK f : f = Cleaning(life.records)  OBVIOUS
<1>5. PICK g : g = [Top EXCEPT !.at = "Cancelled"]  OBVIOUS
<1>6. /\ stack' = <<f, g>> \o Tail(stack)
      /\ UNCHANGED <<held, refused, dispatch, sink, calls>>
  BY <1>4, <1>5 DEF Finish
<1>7. /\ held = Recorded \cup refused /\ Distinct(life.records) /\ Apart(life.records, refused)
  <2>1. ToSet(Top.got) = {}  BY <1>1, <1>2 DEF Registered, ToSet
  <2> QED BY <1>2, <2>1 DEF Registered
<1>8. /\ f \in Frames /\ f.call = "Clean" /\ f.todo = life.records /\ f.retained = <<>>
      /\ Cleared(f) /\ Clears(f) /\ Works(f) /\ ~Registers(f)
  BY <1>1, <1>4, <1>7, ClearedAtFirst
<1>9. g \in Frames /\ GivesUp(g) /\ ~Works(g) /\ g.got = <<>>
  <2>1. /\ g \in Registering /\ g.call = "ActivateEx" /\ g.at = "Cancelled" /\ g.got = Top.got
    BY <1>1, <1>5 DEF Registering
  <2> QED BY <1>1, <1>2, <2>1 DEF Frames, GivesUp, Undoes, Works, Registers, Clears, Registered
<1>10. /\ stack' \in Seq(Frames) /\ stack'[1] = f /\ stack'[2] = g
       /\ {1, 2} \subseteq DOMAIN stack'
       /\ \A i \in DOMAIN stack' : i \notin {1, 2} => i - 1 \in DOMAIN stack /\ i - 1 # 1 /\ stack'[i] = stack[i - 1]
  BY <1>1, <1>6, <1>8, <1>9
<1>11. \A i \in DOMAIN stack' : i # 1 => ~Works(stack'[i])
  BY <1>2, <1>9, <1>10
<1>12. Cleared(f)'
  BY <1>6, <1>8 DEF Cleared
<1>13. Typed'  BY <1>3, <1>6, <1>10 DEF IInv, Typed
<1>14. OneWorks'
  <2>1. ~Undoes(f) /\ (Undoes(g) => g.got = <<>>)  BY <1>8, <1>9 DEF Undoes
  <2> QED BY <1>3, <1>8, <1>10, <1>11, <2>1 DEF IInv, OneWorks, Works
<1>15. Owned'  BY <1>2, <1>3, <1>6, <1>8, <1>10, <1>11 DEF IInv, Owned, Works
<1>16. Accounts'
  BY <1>3, <1>6, <1>8, <1>10, <1>11, <1>12 DEF IInv, Accounts, Works, Cookies
<1>17. WindowsFollow'
  <2>1. ~dispatch  BY <1>2 DEF IInv, WindowsFollow
  <2>2. \A i \in DOMAIN stack' :
          Clears(stack'[i]) => i + 1 \in DOMAIN stack' /\ GivesUp(stack'[i + 1])
    BY <1>9, <1>10, <1>11 DEF Works
  <2> QED BY <1>3, <1>6, <2>1, <2>2 DEF WindowsFollow
<1> QED BY <1>13, <1>14, <1>15, <1>16, <1>17 DEF IInv

-----------------------------------------------------------------------------
(* The calls that give the update sink up, and the removal. *)

\* A call that gives the sink up returns.
LEMMA GivingUpReturns ==
  ASSUME IInv, stack # <<>>, GivesUp(Top), SinkIsGivenUp, Returns,
         UNCHANGED <<life, held, refused, dispatch, calls>>
  PROVE  IInv'
<1>1. /\ 1 \in DOMAIN stack /\ Top = stack[1] /\ stack \in Seq(Frames) /\ Top \in Frames
      /\ sink \in BOOLEAN
  BY HeadRuns DEF IInv, Typed
<1>2. ~Works(Top)  BY <1>1, FrameKinds DEF GivesUp, Undoes, Works, Registers, Clears
<1>3. stack' = Tail(stack)  BY DEF Returns
<1>4. /\ stack' \in Seq(Frames) /\ Len(stack') = Len(stack) - 1 /\ Len(stack) >= 1
      /\ \A i \in DOMAIN stack' : i + 1 \in DOMAIN stack /\ stack'[i] = stack[i + 1]
      /\ \A i \in DOMAIN stack : i # 1 => i - 1 \in DOMAIN stack' /\ stack'[i - 1] = stack[i]
  BY <1>1, <1>3, HeadReturned
<1>5. sink' \in BOOLEAN /\ (sink' => Has("LanguageBar"))  BY <1>1 DEF SinkIsGivenUp
<1>6. Typed'  BY <1>4, <1>5 DEF IInv, Typed
<1>7. OneWorks'
  <2>1. \A i \in DOMAIN stack' : i \in Nat /\ i + 1 \in DOMAIN stack /\ stack'[i] = stack[i + 1]
    BY <1>4
  <2>2. \A i, j \in DOMAIN stack' : Works(stack'[i]) /\ Works(stack'[j]) => i = j
    <3> TAKE i, j \in DOMAIN stack'
    <3>1. Works(stack'[i]) /\ Works(stack'[j]) => i + 1 = j + 1
      BY <2>1 DEF IInv, OneWorks
    <3> QED BY <2>1, <3>1
  <2>3. life.phase \in {"Activating", "Cleaning"} => \E i \in DOMAIN stack' : Works(stack'[i])
    BY <1>1, <1>2, <1>4 DEF IInv, OneWorks
  <2> QED BY <2>1, <2>2, <2>3 DEF IInv, OneWorks
<1>8. Owned'  BY <1>4 DEF IInv, Owned
<1>9. Accounts'
  <2>1. \A f : /\ Registered(f) => Registered(f)'
               /\ Cleared(f) => Cleared(f)'
    BY DEF Registered, Cleared, Recorded
  <2> QED BY <1>4, <2>1 DEF IInv, Accounts, Cookies, Recorded
<1>10. WindowsFollow'
  <2>1. \A i \in DOMAIN stack' :
          Clears(stack'[i]) => i + 1 \in DOMAIN stack' /\ GivesUp(stack'[i + 1])
    <3> TAKE i \in DOMAIN stack'
    <3> HAVE Clears(stack'[i])
    <3>1. /\ i + 1 \in DOMAIN stack /\ Clears(stack[i + 1]) /\ i \in Nat  BY <1>4
    <3>2. (i + 1) + 1 \in DOMAIN stack /\ GivesUp(stack[(i + 1) + 1])
      BY <3>1 DEF IInv, WindowsFollow
    <3>3. (i + 1) + 1 # 1 /\ ((i + 1) + 1) - 1 = i + 1  BY <3>1
    <3> QED BY <3>2, <3>3, <1>4
  <2> QED BY <1>5, <2>1 DEF IInv, WindowsFollow, Has
<1> QED BY <1>6, <1>7, <1>8, <1>9, <1>10 DEF IInv

LEMMA CancelledKeeps == IInv /\ Cancelled => IInv'
<1> SUFFICES ASSUME IInv, Cancelled PROVE IInv'  OBVIOUS
<1>1. stack # <<>> /\ GivesUp(Top)  BY DEF Cancelled, Activating, GivesUp, Undoes
<1> QED BY <1>1, GivingUpReturns DEF Cancelled

LEMMA LeftKeeps == IInv /\ Left => IInv'
<1> SUFFICES ASSUME IInv, Left PROVE IInv'  OBVIOUS
<1>1. stack # <<>> /\ GivesUp(Top)  BY DEF Left, GivesUp
<1> QED BY <1>1, GivingUpReturns DEF Left

\* What a call that does not work on the registrations finds and leaves.
LEMMA DeactivateKeeps == IInv /\ Deactivate => IInv'
<1> SUFFICES ASSUME IInv, Deactivate PROVE IInv'  OBVIOUS
<1>1. /\ stack' = <<Deactivation>> \o stack /\ UNCHANGED <<life, held, refused, dispatch, sink>>
      /\ calls \in Counts /\ calls' = [calls EXCEPT !.deactivate = @ + 1]
      /\ stack \in Seq(Frames)
  BY DEF Deactivate, IInv, Typed
<1>2. calls' \in Counts /\ calls'.activate = calls.activate
  <2>1. calls.deactivate + 1 \in Nat  BY <1>1
  <2> QED BY <1>1, <2>1
<1>3. PICK f : f = Deactivation  OBVIOUS
<1>4. f \in Frames /\ ~Works(f) /\ ~Undoes(f) /\ GivesUp(f)
  BY <1>3 DEF Deactivation, Frames, Leaving, Works, Registers, Clears, Undoes, GivesUp
<1>5. /\ stack' \in Seq(Frames) /\ Len(stack') = Len(stack) + 1 /\ stack'[1] = f
      /\ 1 \in DOMAIN stack'
      /\ \A i \in DOMAIN stack' : i # 1 => i - 1 \in DOMAIN stack /\ stack'[i] = stack[i - 1]
      /\ \A i \in DOMAIN stack : i + 1 \in DOMAIN stack' /\ stack'[i + 1] = stack[i]
  BY <1>1, <1>3, <1>4, HeadCalled
<1>6. Typed'  BY <1>1, <1>2, <1>5 DEF IInv, Typed
<1>7. OneWorks'
  <2>1. \A i, j \in DOMAIN stack' : Works(stack'[i]) /\ Works(stack'[j]) => i = j
    <3> TAKE i, j \in DOMAIN stack'
    <3> HAVE Works(stack'[i]) /\ Works(stack'[j])
    <3>1. i # 1 /\ j # 1 /\ i \in Nat /\ j \in Nat  BY <1>4, <1>5
    <3>2. i - 1 = j - 1  BY <1>5, <3>1 DEF IInv, OneWorks
    <3> QED BY <3>1, <3>2
  <2>2. life.phase \in {"Activating", "Cleaning"} => \E i \in DOMAIN stack' : Works(stack'[i])
    BY <1>5 DEF IInv, OneWorks
  <2>3. \A i \in DOMAIN stack' :
          /\ Registers(stack'[i]) => life.phase = "Activating" /\ life.tid = stack'[i].tid
          /\ Clears(stack'[i]) => life.phase = "Cleaning"
          /\ Undoes(stack'[i]) => stack'[i].got = <<>>
    BY <1>4, <1>5 DEF IInv, OneWorks, Works
  <2> QED BY <1>1, <2>1, <2>2, <2>3 DEF OneWorks
<1>8. Owned'  BY <1>1, <1>2, <1>4, <1>5 DEF IInv, Owned, Works
<1>9. Accounts'
  <2>1. \A g : /\ Registered(g) => Registered(g)'
               /\ Cleared(g) => Cleared(g)'
    BY <1>1 DEF Registered, Cleared, Recorded
  <2> QED BY <1>1, <1>2, <1>4, <1>5, <2>1 DEF IInv, Accounts, Cookies, Recorded, Works
<1>10. WindowsFollow'
  <2>1. \A i \in DOMAIN stack' :
          Clears(stack'[i]) => i + 1 \in DOMAIN stack' /\ GivesUp(stack'[i + 1])
    <3> TAKE i \in DOMAIN stack'
    <3> HAVE Clears(stack'[i])
    <3>1. i # 1 /\ i \in Nat  BY <1>4, <1>5 DEF Works
    <3>2. i - 1 \in DOMAIN stack /\ Clears(stack[i - 1]) /\ (i - 1) + 1 = i  BY <1>5, <3>1
    <3>3. i \in DOMAIN stack /\ GivesUp(stack[i])  BY <3>2 DEF IInv, WindowsFollow
    <3> QED BY <1>5, <3>3
  <2> QED BY <1>1, <1>4, <1>5, <2>1 DEF IInv, WindowsFollow, Has
<1> QED BY <1>6, <1>7, <1>8, <1>9, <1>10 DEF IInv

\* Leaving while something else works on the registrations only asks it to undo itself.
LEMMA LeaveWaitsKeeps == IInv /\ Leave /\ (Defers(life) \/ Cleans(life)) => IInv'
<1> SUFFICES ASSUME IInv, Leave, Defers(life) \/ Cleans(life) PROVE IInv'  OBVIOUS
<1>1. /\ stack # <<>> /\ Top.call = "Deactivate" /\ 1 \in DOMAIN stack /\ Top = stack[1]
      /\ stack \in Seq(Frames) /\ life \in Lives /\ Top \in Leaving
  BY HeadRuns, FrameKinds DEF Leave, IInv, Typed
<1>2. PICK g : g = [Top EXCEPT !.at = "Left"]  OBVIOUS
<1>3. g \in Frames /\ ~Works(g) /\ ~Undoes(g) /\ GivesUp(g) /\ ~Works(Top)
  BY <1>1, <1>2 DEF Frames, Leaving, Works, Registers, Clears, Undoes, GivesUp
<1>4. /\ ~dispatch' /\ dispatch' \in BOOLEAN /\ stack' = <<g>> \o Tail(stack)
      /\ UNCHANGED <<held, refused, sink, calls>>
      /\ life' = [life EXCEPT !.cancel = TRUE] \/ life' = life
  BY <1>2 DEF Leave
<1>5. /\ life' \in Lives /\ life'.phase = life.phase /\ life'.tid = life.tid
      /\ life'.owner = life.owner /\ life'.records = life.records
      /\ life.phase \in {"Activating", "Cleaning"}
  BY <1>1, <1>4 DEF Defers, Cleans
<1>6. /\ stack' \in Seq(Frames) /\ DOMAIN stack' = DOMAIN stack /\ stack'[1] = g
      /\ Len(stack') = Len(stack)
      /\ \A i \in DOMAIN stack : i # 1 => stack'[i] = stack[i]
  BY <1>1, <1>3, <1>4, HeadReplaced
<1>7. Typed'  BY <1>4, <1>5, <1>6 DEF IInv, Typed
<1>8. OneWorks'
  BY <1>1, <1>3, <1>5, <1>6 DEF IInv, OneWorks, Works
<1>9. Owned'  BY <1>1, <1>3, <1>4, <1>5, <1>6 DEF IInv, Owned, Works
<1>10. Accounts'
  <2>1. \A f : /\ Registered(f) => Registered(f)'
               /\ Cleared(f) => Cleared(f)'
    BY <1>4, <1>5 DEF Registered, Cleared, Recorded
  <2> QED BY <1>1, <1>3, <1>4, <1>5, <1>6, <2>1 DEF IInv, Accounts, Cookies, Works
<1>11. WindowsFollow'
  <2>1. \A i \in DOMAIN stack' :
          Clears(stack'[i]) => i + 1 \in DOMAIN stack' /\ GivesUp(stack'[i + 1])
    <3> TAKE i \in DOMAIN stack'
    <3> HAVE Clears(stack'[i])
    <3>1. i # 1 /\ i \in DOMAIN stack /\ i + 1 # 1  BY <1>1, <1>3, <1>6 DEF Works
    <3> QED BY <1>6, <3>1 DEF IInv, WindowsFollow
  <2> QED BY <1>4, <1>5, <2>1 DEF WindowsFollow
<1> QED BY <1>7, <1>8, <1>9, <1>10, <1>11 DEF IInv

\* Leaving otherwise takes everything recorded into a removal of its own.
LEMMA LeaveCleansKeeps == IInv /\ Leave /\ ~Defers(life) /\ ~Cleans(life) => IInv'
<1> SUFFICES ASSUME IInv, Leave, ~Defers(life), ~Cleans(life) PROVE IInv'  OBVIOUS
<1>1. /\ stack # <<>> /\ Top.call = "Deactivate" /\ 1 \in DOMAIN stack /\ Top = stack[1]
      /\ stack \in Seq(Frames) /\ life \in Lives /\ Top \in Leaving
      /\ life.records \in Seq(Registrations)
  BY HeadRuns, FrameKinds DEF Leave, IInv, Typed
<1>2. PICK g : g = [Top EXCEPT !.at = "Left"]  OBVIOUS
<1>3. g \in Frames /\ ~Works(g) /\ ~Undoes(g) /\ GivesUp(g) /\ ~Works(Top)
  BY <1>1, <1>2 DEF Frames, Leaving, Works, Registers, Clears, Undoes, GivesUp
<1>4. PICK f : f = Cleaning(life.records)  OBVIOUS
<1>5. /\ ~dispatch' /\ dispatch' \in BOOLEAN /\ stack' = <<f, g>> \o Tail(stack)
      /\ UNCHANGED <<held, refused, sink, calls>>
      /\ life' = [life EXCEPT !.phase = "Cleaning"]
  <2>1. stack' = <<f>> \o (<<g>> \o Tail(stack))  BY <1>2, <1>4 DEF Leave
  <2>2. <<f>> \o (<<g>> \o Tail(stack)) = <<f, g>> \o Tail(stack)
    <3>0. Tail(stack) \in Seq(Frames)  BY <1>1
    <3>1. PICK rest \in Seq(Frames) : rest = Tail(stack)  BY <3>0
    <3>2. f \in Frames  BY <1>1, <1>4 DEF Cleaning, Clearing, Frames
    <3> QED BY <3>1, <3>2, <1>3
  <2> QED BY <2>1, <2>2 DEF Leave
<1>6. /\ life' \in Lives /\ life'.phase = "Cleaning" /\ life'.tid = life.tid
      /\ life'.owner = life.owner /\ life'.records = life.records
  <2>1. "Cleaning" \in Phases  BY DEF Phases
  <2> QED BY <1>1, <1>5, <2>1
<1>7. /\ life.phase \in {"Idle", "Active", "Pending"}
      /\ \A i \in DOMAIN stack : ~Works(stack[i])
  BY <1>1 DEF Defers, Cleans, Phases, IInv, OneWorks, Works
<1>8. held = Recorded \cup refused /\ Distinct(life.records) /\ Apart(life.records, refused)
  BY <1>7 DEF IInv, Accounts
<1>9. /\ f \in Frames /\ f.call = "Clean" /\ f.todo = life.records /\ f.retained = <<>>
      /\ Cleared(f) /\ Clears(f) /\ Works(f) /\ ~Registers(f)
  BY <1>1, <1>4, <1>8, ClearedAtFirst
<1>10. /\ stack' \in Seq(Frames) /\ stack'[1] = f /\ stack'[2] = g
       /\ {1, 2} \subseteq DOMAIN stack'
       /\ \A i \in DOMAIN stack' : i \notin {1, 2} => i - 1 \in DOMAIN stack /\ stack'[i] = stack[i - 1]
  BY <1>1, <1>3, <1>5, <1>9
<1>11. \A i \in DOMAIN stack' : i # 1 => ~Works(stack'[i])
  BY <1>3, <1>7, <1>10
<1>12. Cleared(f)'  BY <1>5, <1>9 DEF Cleared
<1>13. Typed'  BY <1>5, <1>6, <1>10 DEF IInv, Typed
<1>14. OneWorks'
  <2>1. ~Undoes(f)  BY <1>9 DEF Undoes
  <2> QED BY <1>3, <1>6, <1>9, <1>10, <1>11, <2>1 DEF IInv, OneWorks, Works
<1>15. Owned'  BY <1>6, <1>5, <1>9, <1>10, <1>11 DEF IInv, Owned, Works
<1>16. Accounts'
  BY <1>6, <1>5, <1>9, <1>10, <1>11, <1>12 DEF IInv, Accounts, Works, Cookies
<1>17. WindowsFollow'
  <2>1. \A i \in DOMAIN stack' :
          Clears(stack'[i]) => i + 1 \in DOMAIN stack' /\ GivesUp(stack'[i + 1])
    BY <1>3, <1>10, <1>11 DEF Works
  <2> QED BY <1>5, <1>6, <2>1 DEF WindowsFollow
<1> QED BY <1>13, <1>14, <1>15, <1>16, <1>17 DEF IInv

\* A removal that goes on.
LEMMA ClearingGoesOn ==
  ASSUME IInv, stack # <<>>, Clears(Top), NEW f \in Clearing, Goes(f),
         UNCHANGED <<life, dispatch, sink, calls>>,
         held' \in SUBSET Registrations, refused' \in SUBSET Registrations,
         Cookies(held)', Cookies(refused)', \A r \in refused' : ~RetryOnFailure(r),
         Cleared(f)', f.todo # <<>> \/ f.retained # <<>> => life.owner /\ life.tid # 0
  PROVE  IInv'
<1>1. 1 \in DOMAIN stack /\ Top = stack[1] /\ stack \in Seq(Frames)  BY HeadRuns DEF IInv, Typed
<1>2. f \in Frames /\ f.call = "Clean"  BY DEF Frames, Clearing
<1>3. /\ stack' \in Seq(Frames) /\ DOMAIN stack' = DOMAIN stack /\ stack'[1] = f
      /\ Len(stack') = Len(stack)
      /\ \A i \in DOMAIN stack : i # 1 => stack'[i] = stack[i]
  BY <1>1, <1>2, HeadReplaced DEF Goes
<1>4. ~Registers(f) /\ Works(f) /\ Clears(f) /\ ~GivesUp(f) /\ ~Undoes(f) /\ Works(Top)
  BY <1>2 DEF Registers, Works, Clears, GivesUp, Undoes
<1>5. /\ \A i \in DOMAIN stack : i # 1 => ~Works(stack'[i])
      /\ life.phase = "Cleaning"
  BY <1>3, <1>4, WorksAlone
<1>6. Typed'  BY <1>3 DEF IInv, Typed
<1>7. OneWorks'  BY <1>1, <1>3, <1>4, <1>5 DEF IInv, OneWorks, Works
<1>8. Owned'  BY <1>1, <1>3, <1>4, <1>5 DEF IInv, Owned, Works
<1>9. Accounts'
  BY <1>1, <1>3, <1>4, <1>5 DEF IInv, Accounts, Works
<1>10. WindowsFollow'
  <2>1. 2 \in DOMAIN stack /\ GivesUp(stack[2])
    <3>1. 1 + 1 \in DOMAIN stack /\ GivesUp(stack[1 + 1])
      BY <1>1 DEF IInv, WindowsFollow
    <3> QED BY <3>1
  <2>2. \A i \in DOMAIN stack' :
          Clears(stack'[i]) => i + 1 \in DOMAIN stack' /\ GivesUp(stack'[i + 1])
    BY <1>3, <1>5, <2>1 DEF Works
  <2> QED BY <1>5, <2>2 DEF IInv, WindowsFollow
<1> QED BY <1>6, <1>7, <1>8, <1>9, <1>10 DEF IInv

\* The registration asked for is in the list once, and nowhere else.
LEMMA NextToRemove ==
  ASSUME IInv, Removing
  PROVE  /\ stack # <<>> /\ Clears(Top) /\ Top \in Clearing /\ Cleared(Top)
         /\ Top.todo \in Seq(Registrations) /\ Top.retained \in Seq(Registrations)
         /\ Next1 \in Registrations /\ Next1 \in ToSet(Top.todo)
         /\ Next1 \notin refused /\ Next1 \notin ToSet(Top.retained)
         /\ Others \in Seq(Registrations) /\ Distinct(Others)
         /\ ToSet(Others) = ToSet(Top.todo) \ {Next1}
         /\ life.owner /\ life.tid # 0
<1>1. /\ stack # <<>> /\ Top.call = "Clean" /\ Top.todo # <<>> /\ Top \in Clearing
      /\ 1 \in DOMAIN stack /\ Top = stack[1]
  BY HeadRuns, FrameKinds DEF Removing, IInv, Typed
<1>2. Clears(Top) /\ Cleared(Top)  BY <1>1, WorksAlone DEF Works, Clears
<1>3. Top.todo \in Seq(Registrations) /\ Top.retained \in Seq(Registrations)
  BY <1>1 DEF Clearing
<1>4. PICK k : k = Foremost(Top.todo) /\ k \in DOMAIN Top.todo
  BY <1>1, <1>3, ForemostIsThere
<1>5. Next1 = Top.todo[k] /\ Others = RemoveAt(Top.todo, k)  BY <1>4 DEF Next1, Others
<1>6. Next1 \in Registrations /\ Next1 \in ToSet(Top.todo)
  BY <1>3, <1>4, <1>5 DEF ToSet
<1>7. Next1 \notin refused /\ Next1 \notin ToSet(Top.retained)
  BY <1>2, <1>4, <1>5 DEF Cleared, Apart
<1>8. Distinct(Top.todo)  BY <1>2 DEF Cleared
<1>9. /\ Others \in Seq(Registrations) /\ Distinct(Others)
      /\ ToSet(Others) = ToSet(Top.todo) \ {Next1}
  BY <1>3, <1>4, <1>5, <1>8, RemovedFromList
<1>10. life.owner /\ life.tid # 0  BY <1>1, <1>2 DEF IInv, Owned
<1> QED BY <1>1, <1>2, <1>3, <1>6, <1>7, <1>9, <1>10

LEMMA RemoveDoneKeeps == IInv /\ RemoveDone => IInv'
<1> SUFFICES ASSUME IInv, RemoveDone PROVE IInv'  OBVIOUS
<1>1. PICK r : r = Next1  OBVIOUS
<1>2. PICK others : others = Others  OBVIOUS
<1>3. PICK f : f = [Top EXCEPT !.todo = others]  OBVIOUS
<1>4. /\ Goes(f) /\ held' = held \ {r} /\ UNCHANGED <<life, refused, dispatch, sink, calls>>
      /\ Removing
  BY <1>1, <1>2, <1>3 DEF RemoveDone
<1>5. /\ stack # <<>> /\ Clears(Top) /\ Top \in Clearing /\ Cleared(Top)
      /\ r \notin refused /\ r \notin ToSet(Top.retained)
      /\ others \in Seq(Registrations) /\ Distinct(others)
      /\ ToSet(others) = ToSet(Top.todo) \ {r} /\ life.owner /\ life.tid # 0
  BY <1>1, <1>2, <1>4, NextToRemove
<1>6. f \in Clearing /\ f.todo = others /\ f.retained = Top.retained
  BY <1>3, <1>5 DEF Clearing
<1>7. Cleared(f)'
  <2>1. held' = ToSet(f.todo) \cup ToSet(f.retained) \cup refused'
    BY <1>4, <1>5, <1>6 DEF Cleared
  <2>2. Apart(f.todo, refused') /\ Apart(f.todo, ToSet(f.retained))
    <3>1. \A i \in DOMAIN others : others[i] \in ToSet(Top.todo)  BY <1>5 DEF ToSet
    <3>2. \A q \in ToSet(Top.todo) : q \notin refused /\ q \notin ToSet(Top.retained)
      BY <1>5 DEF Cleared, Apart, ToSet
    <3> QED BY <1>4, <1>6, <3>1, <3>2 DEF Apart
  <2> QED BY <1>4, <1>5, <1>6, <2>1, <2>2 DEF Cleared
<1>8. /\ held' \in SUBSET Registrations /\ refused' \in SUBSET Registrations
      /\ Cookies(held)' /\ Cookies(refused)' /\ \A q \in refused' : ~RetryOnFailure(q)
  BY <1>4 DEF IInv, Typed, Accounts, Cookies
<1> QED BY <1>4, <1>5, <1>6, <1>7, <1>8, ClearingGoesOn

\* A failure is kept for another time, or given up for good.
LEMMA RemoveFailsKeeps == IInv /\ RemoveFails => IInv'
<1> SUFFICES ASSUME IInv, RemoveFails PROVE IInv'  OBVIOUS
<1>1. PICK r : r = Next1  OBVIOUS
<1>2. PICK others : others = Others  OBVIOUS
<1>3. PICK kept : kept = Top.retained \o Retained(r)  OBVIOUS
<1>4. PICK f : f = [Top EXCEPT !.todo = others, !.retained = kept]  OBVIOUS
<1>5. /\ Goes(f) /\ UNCHANGED <<life, held, dispatch, sink, calls>> /\ Removing
      /\ refused' = refused \cup ({r} \ ToSet(Retained(r)))
  BY <1>1, <1>2, <1>3, <1>4 DEF RemoveFails
<1>6. /\ stack # <<>> /\ Clears(Top) /\ Top \in Clearing /\ Cleared(Top)
      /\ r \in Registrations /\ r \in ToSet(Top.todo)
      /\ r \notin refused /\ r \notin ToSet(Top.retained)
      /\ others \in Seq(Registrations) /\ Distinct(others)
      /\ Top.retained \in Seq(Registrations)
      /\ ToSet(others) = ToSet(Top.todo) \ {r} /\ life.owner /\ life.tid # 0
  BY <1>1, <1>2, <1>5, NextToRemove
<1>7. /\ \A q \in ToSet(Top.todo) : q \notin refused /\ q \notin ToSet(Top.retained)
      /\ \A q \in ToSet(Top.retained) : q \notin refused
      /\ held = ToSet(Top.todo) \cup ToSet(Top.retained) \cup refused
      /\ Distinct(Top.retained)
  BY <1>6 DEF Cleared, Apart, ToSet
<1>8. /\ kept \in Seq(Registrations) /\ Distinct(kept)
      /\ ToSet(kept) = ToSet(Top.retained) \cup ToSet(Retained(r))
      /\ ToSet(Retained(r)) = (IF RetryOnFailure(r) THEN {r} ELSE {})
  <2>1. CASE RetryOnFailure(r)
    <3>1. kept = Top.retained \o <<r>>  BY <1>3, <2>1 DEF Retained
    <3>2. ToSet(Retained(r)) = {r}  BY <2>1 DEF Retained, ToSet
    <3> QED BY <2>1, <3>1, <3>2, <1>6, <1>7, AddedToList
  <2>2. CASE ~RetryOnFailure(r)
    <3>1. kept = Top.retained  BY <1>3, <1>6, <2>2 DEF Retained
    <3>2. ToSet(Retained(r)) = {}  BY <2>2 DEF Retained, ToSet
    <3> QED BY <2>2, <3>1, <3>2, <1>6, <1>7
  <2> QED BY <2>1, <2>2
<1>9. f \in Clearing /\ f.todo = others /\ f.retained = kept
  BY <1>4, <1>6, <1>8 DEF Clearing
<1>10. Cleared(f)'
  <2>1. held' = ToSet(f.todo) \cup ToSet(f.retained) \cup refused'
    BY <1>5, <1>6, <1>7, <1>8, <1>9
  <2>2. \A i \in DOMAIN others : others[i] \in ToSet(Top.todo) /\ others[i] # r
    <3>1. \A i \in DOMAIN others : others[i] \in ToSet(others)  BY DEF ToSet
    <3> QED BY <3>1, <1>6
  <2>3. \A i \in DOMAIN kept :
          kept[i] \in ToSet(Top.retained) \/ (kept[i] = r /\ RetryOnFailure(r))
    <3>1. \A i \in DOMAIN kept : kept[i] \in ToSet(kept)  BY DEF ToSet
    <3> QED BY <3>1, <1>8
  <2>4. refused' = refused \/ (refused' = refused \cup {r} /\ ~RetryOnFailure(r))
    BY <1>5, <1>8
  <2>5. Apart(f.todo, refused') /\ Apart(f.todo, ToSet(f.retained))
    BY <1>7, <1>8, <1>9, <2>2, <2>4 DEF Apart
  <2>6. Apart(f.retained, refused')
    BY <1>6, <1>7, <1>9, <2>3, <2>4 DEF Apart
  <2> QED BY <1>6, <1>8, <1>9, <2>1, <2>5, <2>6 DEF Cleared
<1>11. /\ held' \in SUBSET Registrations /\ refused' \in SUBSET Registrations
       /\ Cookies(held)' /\ Cookies(refused)' /\ \A q \in refused' : ~RetryOnFailure(q)
  BY <1>5, <1>6, <1>7, <1>8 DEF IInv, Typed, Accounts, Cookies
<1> QED BY <1>5, <1>6, <1>9, <1>10, <1>11, ClearingGoesOn

\* A removal that ends leaves what is to be tried again, with the references it needs.
LEMMA RemovedKeeps == IInv /\ Removed => IInv'
<1> SUFFICES ASSUME IInv, Removed PROVE IInv'  OBVIOUS
<1>1. /\ stack # <<>> /\ Top.call = "Clean" /\ Top.todo = <<>> /\ Top \in Clearing
      /\ 1 \in DOMAIN stack /\ Top = stack[1] /\ stack \in Seq(Frames) /\ life \in Lives
      /\ Top.retained \in Seq(Registrations)
  BY HeadRuns, FrameKinds DEF Removed, IInv, Typed, Clearing
<1>2. Clears(Top) /\ Works(Top)  BY <1>1 DEF Works, Clears
<1>3. /\ Cleared(Top) /\ life.phase = "Cleaning"
      /\ \A i \in DOMAIN stack : i # 1 => ~Works(stack[i])
  BY <1>1, <1>2, WorksAlone
<1>4. /\ stack' = Tail(stack) /\ life' = Kept(life, Top.retained)
      /\ UNCHANGED <<held, refused, dispatch, sink, calls>>
  BY DEF Removed, Returns
<1>5. /\ stack' \in Seq(Frames) /\ Len(stack') = Len(stack) - 1 /\ Len(stack) >= 1
      /\ \A i \in DOMAIN stack' : i + 1 \in DOMAIN stack /\ stack'[i] = stack[i + 1]
      /\ \A i \in DOMAIN stack : i # 1 => i - 1 \in DOMAIN stack' /\ stack'[i - 1] = stack[i]
  BY <1>1, <1>4, HeadReturned
<1>6. \A i \in DOMAIN stack' : ~Works(stack'[i])
  BY <1>3, <1>5
<1>7. /\ life' \in Lives /\ life'.records = Top.retained
      /\ life'.phase = (IF Top.retained = <<>> THEN "Idle" ELSE "Pending")
      /\ Top.retained = <<>> => ~life'.owner /\ life'.tid = 0
      /\ Top.retained # <<>> => life'.owner = life.owner /\ life'.tid = life.tid
  <2>1. {"Idle", "Pending"} \subseteq Phases /\ 0 \in 0..MaxActivations
    BY LifecycleAssumption DEF Phases
  <2>2. CASE Top.retained = <<>>
    <3>1. life' = [life EXCEPT !.records = <<>>, !.phase = "Idle", !.tid = 0, !.owner = FALSE]
      BY <1>4, <2>2 DEF Kept
    <3> QED BY <1>1, <2>1, <2>2, <3>1
  <2>3. CASE Top.retained # <<>>
    <3>1. life' = [life EXCEPT !.records = Top.retained, !.phase = "Pending"]
      BY <1>4, <2>3 DEF Kept
    <3> QED BY <1>1, <2>1, <2>3, <3>1
  <2> QED BY <2>2, <2>3
<1>8. Typed'  BY <1>4, <1>5, <1>7 DEF IInv, Typed
<1>9. OneWorks'
  BY <1>5, <1>6, <1>7 DEF IInv, OneWorks, Works
<1>10. Owned'
  <2>1. Top.retained # <<>> => life.owner /\ life.tid # 0
    BY <1>1, <1>2 DEF IInv, Owned
  <2>2. life'.tid <= calls'.activate
    BY <1>4, <1>7 DEF IInv, Owned, Typed
  <2> QED BY <1>6, <1>7, <2>1, <2>2 DEF Owned, Works
<1>11. Accounts'
  <2>1. ToSet(Top.todo) = {}  BY <1>1 DEF ToSet
  <2>2. /\ held' = Recorded' \cup refused'
        /\ Distinct(life.records)' /\ Apart(life.records, refused)'
    BY <1>3, <1>4, <1>7, <2>1 DEF Cleared, Recorded
  <2> QED BY <1>4, <1>6, <2>2 DEF IInv, Accounts, Works, Cookies
<1>12. WindowsFollow'
  <2>1. /\ ~dispatch /\ 1 + 1 \in DOMAIN stack /\ GivesUp(stack[1 + 1])
    BY <1>1, <1>2, <1>3 DEF IInv, WindowsFollow
  <2>2. 1 \in DOMAIN stack' /\ GivesUp(stack'[1])  BY <1>5, <2>1
  <2> QED BY <1>4, <1>6, <2>1, <2>2 DEF WindowsFollow, Works
<1> QED BY <1>8, <1>9, <1>10, <1>11, <1>12 DEF IInv

-----------------------------------------------------------------------------
(* The theorems. *)

LEMMA StepKeeps == IInv /\ [Next]_vars => IInv'
<1> SUFFICES ASSUME IInv, [Next]_vars PROVE IInv'  OBVIOUS
<1>1. CASE ReleaseUnactivated  BY <1>1, ReleaseKeeps
<1>2. CASE ActivateEx  BY <1>2, ActivateRefusedKeeps, ActivateBegunKeeps
<1>3. CASE Deactivate  BY <1>3, DeactivateKeeps
<1>4. ASSUME NEW kind \in Kinds, Advise(kind) PROVE IInv'  BY <1>4, AdviseKeeps
<1>5. ASSUME NEW kind \in Kinds, AdviseFails(kind) PROVE IInv'  BY <1>5, AdviseFailsKeeps
<1>6. CASE Record  BY <1>6, RecordKeeps
<1>7. CASE Finish  BY <1>7, FinishKeeps, FinishCancelledKeeps
<1>8. CASE Cancelled  BY <1>8, CancelledKeeps
<1>9. CASE Leave  BY <1>9, LeaveWaitsKeeps, LeaveCleansKeeps
<1>10. CASE Left  BY <1>10, LeftKeeps
<1>11. CASE RemoveDone  BY <1>11, RemoveDoneKeeps
<1>12. CASE RemoveFails  BY <1>12, RemoveFailsKeeps
<1>13. CASE Removed  BY <1>13, RemovedKeeps
<1>14. CASE UNCHANGED vars
  <2>1. UNCHANGED <<life, held, refused, dispatch, sink, calls, stack>>  BY <1>14 DEF vars
  <2>2. \A f : Registered(f)' <=> Registered(f)  BY <2>1 DEF Registered, Recorded
  <2>3. \A f : Cleared(f)' <=> Cleared(f)  BY <2>1 DEF Cleared
  <2> QED
    BY <2>1, <2>2, <2>3
    DEF IInv, Typed, OneWorks, Owned, Accounts, WindowsFollow, Recorded, Cookies, Has
<1> QED
  BY <1>1, <1>2, <1>3, <1>4, <1>5, <1>6, <1>7, <1>8, <1>9, <1>10, <1>11, <1>12, <1>13, <1>14
  DEF Next

\* The inductive invariant holds of the object however the host calls and calls back.
THEOREM AlwaysGood == Spec => []IInv
<1>1. Init => IInv  BY InitGood
<1>2. IInv /\ [Next]_vars => IInv'  BY StepKeeps
<1> QED BY <1>1, <1>2, PTL DEF Spec

LEMMA RestIsIdleOrDone == IInv /\ AtRest => life.phase \in {"Idle", "Active", "Pending"}
  BY DEF IInv, Typed, Phases, AtRest, OneWorks

\* Whenever TSF has returned from all its calls, what it still has registered of the object
\* is what the object has recorded for removal and what it refused to remove.
THEOREM RegistrationsAreBalanced == Spec => []RegistrationsBalance
<1>1. IInv => RegistrationsBalance
  <2> SUFFICES ASSUME IInv PROVE RegistrationsBalance  OBVIOUS
  <2>1. TypeOK
    <3>1. /\ life \in Lives /\ held \in SUBSET Registrations /\ refused \in SUBSET Registrations
          /\ dispatch \in BOOLEAN /\ sink \in BOOLEAN /\ stack \in Seq(Frames)
          /\ life.records \in Seq(Registrations)
      BY DEF IInv, Typed
    <3>2. \A r \in held \cup refused \cup ToSet(life.records) : r \in Registrations
      BY <3>1 DEF ToSet
    <3>3. \A r \in Registrations : r.kind \in Kinds  BY DEF Registrations
    <3>4. \A i \in DOMAIN stack : stack[i] \in Frames  BY <3>1
    <3>5. \A i \in DOMAIN stack : stack[i].call \in {"ActivateEx", "Deactivate", "Clean"}
      BY <3>4, FrameKinds
    <3> QED BY <3>1, <3>2, <3>3, <3>5 DEF TypeOK
  <2>2. NothingLeaks
    <3> SUFFICES ASSUME AtRest
                 PROVE  /\ held = Recorded \cup refused
                        /\ Recorded \cap refused = {}
                        /\ \A r \in refused : ~RetryOnFailure(r)
      BY DEF NothingLeaks
    <3> QED BY RestIsIdleOrDone DEF IInv, Accounts, Recorded, ToSet, Apart
  <2>3. RemovedOnce
    <3> SUFFICES ASSUME NEW i \in DOMAIN stack, NEW j \in DOMAIN stack, stack[i].call = "Clean"
                 PROVE  /\ ToSet(stack[i].todo) \subseteq held
                        /\ i # j => stack[j].call # "Clean"
      BY DEF RemovedOnce
    <3>1. Clears(stack[i]) /\ Works(stack[i])  BY DEF Clears, Works
    <3>2. ToSet(stack[i].todo) \subseteq held  BY <3>1 DEF IInv, Accounts, Cleared
    <3>3. stack[j].call = "Clean" => i = j
      BY <3>1 DEF IInv, OneWorks, Clears, Works
    <3> QED BY <3>2, <3>3
  <2> QED BY <2>1, <2>2, <2>3 DEF RegistrationsBalance
<1> QED BY <1>1, AlwaysGood, PTL

\* The references to itself, to the manager and its client id last as long as anything is
\* recorded and no longer, and nothing overtakes an activation that still registers.
THEOREM ActivationAlwaysOwns == Spec => []ActivationOwns
<1>1. IInv => ActivationOwns
  <2> SUFFICES ASSUME IInv PROVE ActivationOwns  OBVIOUS
  <2>1. OwnerIsKept  BY DEF IInv, Owned, OwnerIsKept
  <2>2. ActivationIsAlone
    BY DEF IInv, OneWorks, ActivationIsAlone, Works, Registers
  <2> QED BY <2>1, <2>2 DEF ActivationOwns
<1> QED BY <1>1, AlwaysGood, PTL

\* Between calls the click window lives with an activation only, and the update sink with
\* the language bar's item.
THEOREM WindowsAlwaysGo == Spec => []WindowsGo
<1>1. IInv => WindowsGo
  <2> SUFFICES ASSUME IInv, AtRest
               PROVE  /\ dispatch => life.phase = "Active"
                      /\ sink /\ life.phase # "Active" => Has("LanguageBar")
    BY DEF WindowsGo
  <2> QED BY RestIsIdleOrDone DEF IInv, WindowsFollow, AtRest
<1> QED BY <1>1, AlwaysGood, PTL
=============================================================================
