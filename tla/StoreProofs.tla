----------------------------- MODULE StoreProofs -----------------------------
(***************************************************************************)
(* Theorems about ModelStore, for every set of windows and every length of *)
(* the weights and of the ranges, whatever the servers, the users and the  *)
(* ends of processes do.                                                   *)
(*                                                                         *)
(* Whoever is past the lock holds it: that is what keeps a stage that was  *)
(* validated whole until it gets its name, since every other writer of the *)
(* stage is past the lock too.  An import takes no lock, and is kept apart *)
(* only by the threads of its own window; where a theorem needs that there *)
(* is one window, it says so.                                              *)
(***************************************************************************)
EXTENDS ModelStore, FiniteSetTheorems, TLAPS

Packages ==
  [manifest : BOOLEAN, bytes : 0..Size, sound : BOOLEAN, alone : BOOLEAN, policy : BOOLEAN]

\* A download past its lock, and past its validation.
Inside ==
  {"identify", "pin", "space", "transfer", "request", "answer", "read", "data", "hash",
   "verify", "receipt", "exists", "rename"}
Late == {"receipt", "exists", "rename"}
Tasks ==
  [at : Inside \cup {"idle", "lock", "final", "stop"}, end : 0..Size, cancel : BOOLEAN,
   result : {"stopped", "ready"}, phase : {"idle", "going", "cancelling", "stopped", "ready"}]

Works ==
  [does : {"none", "list", "import", "remove"},
   at : {"idle", "list", "sent", "check", "copy", "rename", "config", "cache", "delete",
         "unlock"},
   staging : Packages, listed : BOOLEAN, ok : BOOLEAN]
Panels ==
  [seen : {"idle", "going", "cancelling", "stopped", "ready"}, refresh : BOOLEAN,
   clicked : BOOLEAN, listed : BOOLEAN, draft : BOOLEAN]
Holders == Windows \X {"download", "catalog"}

Typed ==
  /\ stage \in Packages /\ identity \in {"none", "torn", "pinned"} /\ receipt \in BOOLEAN
  /\ lock = {} \/ \E h \in Holders : lock = {h}
  /\ installed = {} \/ \E p \in Packages : installed = {p}
  /\ saved \in BOOLEAN
  /\ task \in [Windows -> Tasks] /\ work \in [Windows -> Works] /\ ui \in [Windows -> Panels]

\* Whoever is past the lock holds it.
LockIsHeld ==
  \A a \in Windows :
    /\ task[a].at \in Inside => <<a, "download">> \in lock
    /\ work[a].at \in {"delete", "unlock"} => <<a, "catalog">> \in lock

\* A removal that has cleared the workspace finds it clear until it gives the lock back.
WorkspaceStaysClear ==
  \A a \in Windows :
    work[a].at \in {"delete", "unlock"} => stage = Fresh /\ identity = "none" /\ ~receipt

IInv == Typed /\ LockIsHeld /\ ValidatedStays /\ WorkspaceStaysClear

\* With one window: what is being removed is selected neither on the disk nor in the panel,
\* and does not come back before the removal has ended.
RemovalIsAlone ==
  \A a \in Windows :
    /\ work[a].at \in {"config", "cache", "delete"} => ~ui[a].draft
    /\ work[a].at \in {"cache", "delete"} => ~saved
    /\ work[a].at \in {"config", "cache", "delete", "unlock"} => work[a].does = "remove"
    /\ work[a].at = "unlock" => installed = {}

-----------------------------------------------------------------------------
(* Helpers. *)

Places == Inside \cup {"idle", "lock", "final", "stop"}

LEMMA KnownPackages ==
  /\ Whole \in Packages /\ Fresh \in Packages
  /\ Sources \subseteq Packages
  /\ \A p \in Packages : Remains(p) \subseteq Packages
  /\ \A p \in Packages : [p EXCEPT !.manifest = TRUE, !.alone = TRUE] \in Packages
<1> USE StoreAssumption
<1>1. Whole \in Packages /\ Fresh \in Packages  BY DEF Whole, Fresh, Packages
<1>a. \A p \in Packages, flag \in BOOLEAN :
        /\ [p EXCEPT !.manifest = flag] \in Packages /\ [p EXCEPT !.sound = flag] \in Packages
        /\ [p EXCEPT !.alone = flag] \in Packages /\ [p EXCEPT !.policy = flag] \in Packages
  BY DEF Packages
<1>b. \A p \in Packages : [p EXCEPT !.bytes = 0] \in Packages
  <2>1. 0 \in 0..Size  OBVIOUS
  <2> QED BY <2>1 DEF Packages
<1>2. Sources \subseteq Packages  BY <1>1, <1>a, <1>b DEF Sources
<1>3. \A p \in Packages : Remains(p) \subseteq Packages  BY <1>a, <1>b DEF Remains
<1>4. \A p \in Packages : [p EXCEPT !.manifest = TRUE, !.alone = TRUE] \in Packages
  BY DEF Packages
<1> QED BY <1>1, <1>2, <1>3, <1>4

LEMMA KnownTasks ==
  NoTask \in Tasks /\ NoTask.at = "idle" /\ NewTask \in Tasks /\ NewTask.at = "lock"
<1>1. 0 \in 0..Size  BY StoreAssumption
<1>2. NoTask \in Tasks /\ NoTask.at = "idle"  BY <1>1 DEF NoTask, Tasks
<1>3. NewTask \in Tasks /\ NewTask.at = "lock"  BY <1>2 DEF NewTask, Tasks
<1> QED BY <1>2, <1>3

\* Only the whole package passes validate.
LEMMA ValidIsWhole ==
  ASSUME NEW p \in Packages
  PROVE  Validate(p) <=> p = Whole
  BY DEF Validate, BytesFit, NothingElse, PolicyFits, Whole, Packages

\* What a step of one download thread does to the threads: it is at its next place, or
\* has failed and given the lock back.
TaskMoves(a, at) ==
  /\ task' \in [Windows -> Tasks] /\ task'[a].at = at
  /\ \A b \in Windows \ {a} : task'[b] = task[b]
GoesOn(a, at) == TaskMoves(a, at) /\ lock' = lock
Stopped(a) == TaskMoves(a, "final") /\ lock' = lock \ {<<a, "download">>}

LEMMA StepsEffect ==
  ASSUME Typed, NEW a \in Windows, NEW at \in Places, Steps(a, at)
  PROVE  TaskMoves(a, at)
  BY DEF Typed, Steps, TaskMoves, Tasks, Places

LEMMA PublishesEffect ==
  ASSUME Typed, NEW a \in Windows, NEW at \in Places,
         NEW phase \in {"idle", "going", "cancelling", "stopped", "ready"},
         Publishes(a, phase, at)
  PROVE  TaskMoves(a, at)
<1>1. PICK t : t = [task[a] EXCEPT !.phase = phase, !.at = at]  OBVIOUS
<1>2. task[a] \in Tasks  BY DEF Typed
<1>3. t \in Tasks /\ t.at = at  BY <1>1, <1>2 DEF Tasks, Places
<1>4. task' = [task EXCEPT ![a] = t]  BY <1>1 DEF Publishes, Typed
<1> QED BY <1>3, <1>4 DEF Typed, TaskMoves

LEMMA FailsEffect ==
  ASSUME Typed, NEW a \in Windows, Fails(a)
  PROVE  Stopped(a)
<1>1. 0 \in 0..Size  BY StoreAssumption
<1>2. PICK t : t = [task[a] EXCEPT !.at = "final", !.result = "stopped", !.end = 0]  OBVIOUS
<1>3. task[a] \in Tasks  BY DEF Typed
<1>4. t \in Tasks /\ t.at = "final"  BY <1>1, <1>2, <1>3 DEF Tasks
<1>5. task' = [task EXCEPT ![a] = t] /\ lock' = lock \ {<<a, "download">>}
  BY <1>2 DEF Fails, Unlocks, Typed
<1> QED BY <1>4, <1>5 DEF Typed, Stopped, TaskMoves

LEMMA GoesEffect ==
  ASSUME Typed, NEW a \in Windows, NEW at \in Places, Goes(a, at)
  PROVE  IF task[a].cancel THEN Stopped(a) ELSE GoesOn(a, at)
  BY FailsEffect, StepsEffect DEF Goes, GoesOn

\* The holder of the lock is alone past it.
LEMMA HolderIsAlone ==
  ASSUME IInv, NEW a \in Windows, task[a].at \in Inside
  PROVE  /\ lock = {<<a, "download">>}
         /\ \A b \in Windows \ {a} : task[b].at \notin Inside
         /\ \A b \in Windows : work[b].at \notin {"delete", "unlock"}
<1>1. <<a, "download">> \in lock  BY DEF IInv, LockIsHeld
<1>2. lock = {<<a, "download">>}  BY <1>1 DEF IInv, Typed
<1>3. \A b \in Windows \ {a} : <<b, "download">> # <<a, "download">>  OBVIOUS
<1> QED BY <1>2, <1>3 DEF IInv, LockIsHeld

\* A step of a download past its lock keeps the invariant, if what it leaves behind after
\* its validation is still whole.
LEMMA HolderSteps ==
  ASSUME IInv, NEW a \in Windows, task[a].at \in Inside,
         (\E at \in Inside : GoesOn(a, at)) \/ Stopped(a),
         task'[a].at \in Late => stage' = Whole,
         stage' \in Packages, identity' \in {"none", "torn", "pinned"}, receipt' \in BOOLEAN,
         installed' = {} \/ \E p \in Packages : installed' = {p},
         UNCHANGED <<saved, work, ui>>
  PROVE  IInv'
<1>1. /\ lock = {<<a, "download">>}
      /\ \A b \in Windows \ {a} : task[b].at \notin Inside
      /\ \A b \in Windows : work[b].at \notin {"delete", "unlock"}
  BY HolderIsAlone
<1>2. /\ task' \in [Windows -> Tasks] /\ \A b \in Windows \ {a} : task'[b] = task[b]
      /\ \/ task'[a].at \in Inside /\ lock' = lock
         \/ task'[a].at = "final" /\ lock' = {}
  BY <1>1 DEF GoesOn, Stopped, TaskMoves
<1>3. Typed'  BY <1>1, <1>2 DEF IInv, Typed
<1>4. LockIsHeld'  BY <1>1, <1>2 DEF LockIsHeld, Inside
<1>5. ValidatedStays'
  <2>1. \A b \in Windows \ {a} : task'[b].at \notin Late  BY <1>1, <1>2 DEF Inside, Late
  <2> QED BY <2>1 DEF ValidatedStays, Late
<1>6. WorkspaceStaysClear'  BY <1>1 DEF WorkspaceStaysClear
<1> QED BY <1>3, <1>4, <1>5, <1>6 DEF IInv

\* A step of a thread that holds no lock of its own, before or after.
LEMMA OutsiderSteps ==
  ASSUME IInv, UNCHANGED files,
         saved' \in BOOLEAN, ui' \in [Windows -> Panels],
         task' \in [Windows -> Tasks], work' \in [Windows -> Works],
         \A b \in Windows : task'[b].at \in Inside => task'[b].at = task[b].at,
         \A b \in Windows : work'[b].at \in {"delete", "unlock"} => work'[b].at = work[b].at
  PROVE  IInv'
<1>1. UNCHANGED <<stage, identity, receipt, lock, installed>>  BY DEF files
<1>2. Typed'  BY <1>1 DEF IInv, Typed
<1>3. LockIsHeld'  BY <1>1 DEF IInv, LockIsHeld
<1>4. ValidatedStays'  BY <1>1 DEF IInv, ValidatedStays, Inside
<1>5. WorkspaceStaysClear'  BY <1>1 DEF IInv, WorkspaceStaysClear
<1> QED BY <1>2, <1>3, <1>4, <1>5 DEF IInv

-----------------------------------------------------------------------------
(* The download thread. *)

LEMMA TakesLockKeeps ==
  ASSUME IInv, NEW a \in Windows, TakesLock(a)
  PROVE  IInv'
<1>1. /\ UNCHANGED <<stage, identity, receipt, installed, saved, work, ui>>
      /\ task[a].at = "lock"
  BY DEF TakesLock, At
<1>2. CASE lock = {}
  <2>1. lock' = {<<a, "download">>} /\ TaskMoves(a, "identify")
    BY <1>2, StepsEffect DEF TakesLock, Locks, IInv, Places, Inside
  <2>2. /\ \A b \in Windows : task[b].at \notin Inside
        /\ \A b \in Windows : work[b].at \notin {"delete", "unlock"}
    BY <1>2 DEF IInv, LockIsHeld
  <2>3. Typed'  BY <1>1, <2>1 DEF IInv, Typed, TaskMoves, Holders
  <2>4. LockIsHeld'  BY <1>1, <2>1, <2>2 DEF LockIsHeld, TaskMoves
  <2>5. ValidatedStays'
    BY <1>1, <2>1, <2>2 DEF ValidatedStays, TaskMoves, Inside
  <2>6. WorkspaceStaysClear'  BY <1>1, <2>2 DEF WorkspaceStaysClear
  <2> QED BY <2>3, <2>4, <2>5, <2>6 DEF IInv
<1>3. CASE lock # {}
  <2>1. Stopped(a)  BY <1>3, FailsEffect DEF TakesLock, IInv
  <2>2. <<a, "download">> \notin lock \/ \A b \in Windows : task[b].at \notin Inside /\ work[b].at \notin {"delete", "unlock"}
    <3> SUFFICES ASSUME <<a, "download">> \in lock
                 PROVE  \A b \in Windows : task[b].at \notin Inside /\ work[b].at \notin {"delete", "unlock"}
      OBVIOUS
    <3>1. lock = {<<a, "download">>}  BY DEF IInv, Typed
    <3>2. task[a].at \notin Inside  BY <1>1 DEF Inside
    <3>3. \A b \in Windows \ {a} : <<b, "download">> # <<a, "download">>  OBVIOUS
    <3> QED BY <3>1, <3>2, <3>3 DEF IInv, LockIsHeld
  <2>3. lock' = lock \/ lock' = {}
    <3>1. lock' = lock \ {<<a, "download">>}  BY <2>1 DEF Stopped
    <3> QED BY <3>1 DEF IInv, Typed
  <2>4. Typed'  BY <1>1, <2>1, <2>3 DEF IInv, Typed, Stopped, TaskMoves
  <2>5. LockIsHeld'
    BY <1>1, <2>1, <2>2 DEF IInv, LockIsHeld, Stopped, TaskMoves, Inside
  <2>6. ValidatedStays'
    BY <1>1, <2>1 DEF IInv, ValidatedStays, Stopped, TaskMoves
  <2>7. WorkspaceStaysClear'  BY <1>1 DEF IInv, WorkspaceStaysClear
  <2> QED BY <2>4, <2>5, <2>6, <2>7 DEF IInv
<1> QED BY <1>2, <1>3

\* The identity, the space and the requests.
LEMMA EarlyStepsKeep ==
  ASSUME IInv, NEW a \in Windows,
         Identifies(a) \/ Pins(a) \/ Prepares(a) \/ Requests(a) \/ Reads(a)
  PROVE  IInv'
<1> USE DEF At
<1>1. Typed  BY DEF IInv
<1>2. UNCHANGED <<saved, work, ui, receipt, installed>> /\ task[a].at \in Inside
  BY DEF Identifies, Pins, Prepares, Requests, Reads, Inside
<1>3. /\ {"pin", "space", "transfer", "answer", "data"} \subseteq Inside \cap Places
      /\ {"pin", "space", "transfer", "answer", "data"} \cap Late = {}
  BY DEF Inside, Places, Late
<1>4. (\E at \in {"pin", "space", "transfer", "answer", "data"} : GoesOn(a, at)) \/ Stopped(a)
  <2>1. CASE Identifies(a)
    BY <2>1, <1>1, <1>3, StepsEffect, FailsEffect DEF Identifies, GoesOn
  <2>2. CASE Pins(a)
    <3>1. UNCHANGED lock  BY <2>2 DEF Pins
    <3> QED BY <3>1, <2>2, <1>1, <1>3, StepsEffect DEF Pins, GoesOn
  <2>3. CASE Prepares(a)
    BY <2>3, <1>1, <1>3, GoesEffect, FailsEffect DEF Prepares
  <2>4. CASE Requests(a)  BY <2>4, <1>1, <1>3, GoesEffect DEF Requests
  <2>5. CASE Reads(a)  BY <2>5, <1>1, <1>3, GoesEffect DEF Reads
  <2> QED BY <2>1, <2>2, <2>3, <2>4, <2>5
<1>5. task'[a].at \notin Late
  BY <1>3, <1>4 DEF GoesOn, Stopped, TaskMoves, Late
<1>6. identity' \in {"none", "torn", "pinned"} /\ stage' \in Packages
  BY <1>1 DEF Typed, Identifies, Pins, Prepares, Requests, Reads, Packages, Tasks
<1>7. /\ receipt' \in BOOLEAN
      /\ installed' = {} \/ \E p \in Packages : installed' = {p}
  BY <1>1, <1>2 DEF Typed
<1> QED BY <1>2, <1>3, <1>4, <1>5, <1>6, <1>7, HolderSteps

LEMMA UpdateEffect ==
  ASSUME Typed, NEW a \in Windows, NEW t \in Tasks, task' = [task EXCEPT ![a] = t]
  PROVE  TaskMoves(a, t.at)
  BY DEF Typed, TaskMoves

\* The stage when it is started again, and when it gets bytes.
LEMMA StageEffects ==
  ASSUME Typed
  PROVE  /\ [stage EXCEPT !.bytes = 0, !.sound = TRUE] \in Packages
         /\ [stage EXCEPT !.manifest = TRUE] \in Packages
         /\ \A right \in BOOLEAN :
              stage.bytes < Size => [stage EXCEPT !.bytes = @ + 1, !.sound = @ /\ right] \in Packages
<1>1. stage \in Packages /\ 0 \in 0..Size  BY StoreAssumption DEF Typed
<1>2. [stage EXCEPT !.bytes = 0, !.sound = TRUE] \in Packages  BY <1>1 DEF Packages
<1>3. [stage EXCEPT !.manifest = TRUE] \in Packages  BY <1>1 DEF Packages
<1>4. ASSUME NEW right \in BOOLEAN, stage.bytes < Size
      PROVE  [stage EXCEPT !.bytes = @ + 1, !.sound = @ /\ right] \in Packages
  <2>1. stage.bytes + 1 \in 0..Size  BY <1>1, <1>4, StoreAssumption DEF Packages
  <2>2. (stage.sound /\ right) \in BOOLEAN  OBVIOUS
  <2> QED BY <1>1, <2>1, <2>2 DEF Packages
<1> QED BY <1>2, <1>3, <1>4

LEMMA TransferStepsKeep ==
  ASSUME IInv, NEW a \in Windows, Resumes(a) \/ Answers(a) \/ Receives(a) \/ Hashes(a)
  PROVE  IInv'
<1> USE DEF At
<1>1. Typed  BY DEF IInv
<1>2. /\ UNCHANGED <<saved, work, ui, receipt, identity, installed>> /\ task[a].at \in Inside
      /\ task[a] \in Tasks /\ stage \in Packages
  BY <1>1 DEF Resumes, Answers, Receives, Hashes, Inside, Typed
<1>3. /\ {"verify", "request", "read", "hash"} \subseteq Inside \cap Places
      /\ {"verify", "request", "read", "hash"} \cap Late = {}
  BY DEF Inside, Places, Late
<1>4. /\ (\E at \in {"verify", "request", "read", "hash"} : GoesOn(a, at)) \/ Stopped(a)
      /\ stage' \in Packages
  <2>1. CASE Resumes(a)
    <3>1. CASE ~task[a].cancel /\ stage.bytes = Size /\ stage.sound
      <4>1. Publishes(a, "going", "verify") /\ UNCHANGED <<stage, lock>>
        BY <2>1, <3>1 DEF Resumes
      <4> QED BY <4>1, <1>1, <1>2, <1>3, PublishesEffect DEF GoesOn
    <3>2. CASE ~(~task[a].cancel /\ stage.bytes = Size /\ stage.sound)
      <4>1. /\ Goes(a, "request")
            /\ stage' \in {stage, [stage EXCEPT !.bytes = 0, !.sound = TRUE]}
        BY <2>1, <3>2 DEF Resumes
      <4> QED BY <4>1, <1>1, <1>2, <1>3, GoesEffect, StageEffects
    <3> QED BY <3>1, <3>2
  <2>2. CASE Answers(a)
    <3>1. CASE Fails(a) /\ UNCHANGED stage  BY <3>1, <1>1, <1>2, FailsEffect
    <3>2. CASE ~(Fails(a) /\ UNCHANGED stage)
      <4>1. PICK end \in {Least(stage.bytes + Chunk, Size), Size} :
              task' = [task EXCEPT ![a].phase = "going", ![a].at = "read", ![a].end = end]
        BY <2>2, <3>2 DEF Answers
      <4>2. /\ UNCHANGED lock
            /\ stage' \in {stage, [stage EXCEPT !.bytes = 0, !.sound = TRUE]}
        BY <2>2, <3>2 DEF Answers
      <4>3. end \in 0..Size
        BY <1>2, StoreAssumption DEF Least, Packages
      <4>4. PICK t : t = [task[a] EXCEPT !.phase = "going", !.at = "read", !.end = end]
        OBVIOUS
      <4>5. t \in Tasks /\ t.at = "read"  BY <1>2, <4>3, <4>4 DEF Tasks, Inside
      <4>6. task' = [task EXCEPT ![a] = t]  BY <1>1, <4>1, <4>4 DEF Typed
      <4> QED BY <4>2, <4>5, <4>6, <1>1, <1>2, UpdateEffect, StageEffects DEF GoesOn
    <3> QED BY <3>1, <3>2
  <2>3. CASE Receives(a)
    <3>1. CASE Fails(a) /\ UNCHANGED stage  BY <3>1, <1>1, <1>2, FailsEffect
    <3>2. CASE stage.bytes < task[a].end /\ Publishes(a, "going", "read")
      <4>0. CASE Fails(a) /\ UNCHANGED stage  BY <3>1, <4>0
      <4>1. CASE stage.bytes = task[a].end  BY <3>2, <4>1, <1>2 DEF Packages, Tasks
      <4>2. CASE \E right \in BOOLEAN :
                   stage' = [stage EXCEPT !.bytes = @ + 1, !.sound = @ /\ right] /\ UNCHANGED lock
        <5>1. stage.bytes < Size  BY <3>2, <1>2, StoreAssumption DEF Packages, Tasks
        <5>2. stage' \in Packages  BY <5>1, <4>2, <1>1, StageEffects
        <5> QED BY <5>2, <4>2, <3>2, <1>1, <1>3, PublishesEffect DEF GoesOn
      <4> QED BY <2>3, <4>0, <4>1, <4>2 DEF Receives
    <3>3. CASE /\ task' = [task EXCEPT ![a].at = IF stage.bytes < Size THEN "request" ELSE "hash",
                                       ![a].end = 0]
               /\ UNCHANGED <<stage, lock>>
      <4>1. PICK at \in {"request", "hash"} :
              at = IF stage.bytes < Size THEN "request" ELSE "hash"
        OBVIOUS
      <4>2. PICK t : t = [task[a] EXCEPT !.at = at, !.end = 0]  OBVIOUS
      <4>3. 0 \in 0..Size  BY StoreAssumption
      <4>4. t \in Tasks /\ t.at = at  BY <1>2, <4>2, <4>3 DEF Tasks, Inside
      <4>a. task \in [Windows -> Tasks] /\ a \in Windows  BY <1>1 DEF Typed
      <4>5. task' = [task EXCEPT ![a] = t]
        <5>1. task' = [task EXCEPT ![a].at = at, ![a].end = 0]  BY <3>3, <4>1
        <5> QED BY <4>a, <4>2, <5>1
      <4>6. TaskMoves(a, at)  BY <4>4, <4>5, <1>1, UpdateEffect
      <4>7. stage' \in Packages /\ lock' = lock  BY <3>3, <1>2
      <4>8. GoesOn(a, at) /\ at \in {"verify", "request", "read", "hash"}
        BY <4>1, <4>6, <4>7 DEF GoesOn
      <4> QED BY <4>7, <4>8
    <3> QED BY <2>3, <3>1, <3>2, <3>3 DEF Receives
  <2>4. CASE Hashes(a)
    <3>1. CASE stage.sound \/ task[a].cancel
      BY <2>4, <3>1, <1>1, <1>2, <1>3, GoesEffect DEF Hashes
    <3>2. CASE ~(stage.sound \/ task[a].cancel)
      BY <2>4, <3>2, <1>1, FailsEffect, StageEffects DEF Hashes
    <3> QED BY <3>1, <3>2
  <2> QED BY <1>2, <2>1, <2>2, <2>3, <2>4
<1>5. task'[a].at \notin Late
  BY <1>3, <1>4 DEF GoesOn, Stopped, TaskMoves, Late
<1>6. identity' \in {"none", "torn", "pinned"} /\ receipt' \in BOOLEAN
      /\ (installed' = {} \/ \E p \in Packages : installed' = {p})
  BY <1>1, <1>2 DEF Typed
<1> QED BY <1>2, <1>3, <1>4, <1>5, <1>6, HolderSteps

\* The validation, the receipt and the name.
LEMMA LateStepsKeep ==
  ASSUME IInv, NEW a \in Windows,
         Verifies(a) \/ WritesReceipt(a) \/ LooksForInstalled(a)
  PROVE  IInv'
<1> USE DEF At
<1>1. Typed  BY DEF IInv
<1>2. /\ UNCHANGED <<saved, work, ui, identity, installed>> /\ task[a].at \in Inside
  BY DEF Verifies, WritesReceipt, LooksForInstalled, Inside
<1>3. {"receipt", "exists", "rename"} \subseteq Inside \cap Places  BY DEF Inside, Places
<1>4. /\ (\E at \in {"receipt", "exists", "rename"} : GoesOn(a, at) /\ stage' = Whole)
         \/ Stopped(a)
      /\ stage' \in Packages /\ receipt' \in BOOLEAN
  <2>1. CASE Verifies(a)
    <3>1. stage' \in Packages /\ receipt' \in BOOLEAN
      BY <2>1, <1>1, StageEffects DEF Verifies, Typed
    <3>2. CASE Validate(stage')
      <4>1. stage' = Whole  BY <3>1, <3>2, ValidIsWhole
      <4>2. Publishes(a, "going", "receipt") /\ UNCHANGED lock  BY <2>1, <3>2 DEF Verifies
      <4> QED BY <3>1, <4>1, <4>2, <1>1, <1>3, PublishesEffect DEF GoesOn
    <3>3. CASE ~Validate(stage')
      BY <2>1, <3>1, <3>3, <1>1, FailsEffect DEF Verifies
    <3> QED BY <3>2, <3>3
  <2>2. CASE WritesReceipt(a)
    <3>1. stage = Whole /\ stage' = stage
      BY <2>2 DEF WritesReceipt, IInv, ValidatedStays
    <3>2. GoesOn(a, "exists") \/ Stopped(a)
      BY <2>2, <1>1, <1>3, GoesEffect DEF WritesReceipt
    <3> QED BY <2>2, <3>1, <3>2, <1>1 DEF WritesReceipt, Typed, Tasks
  <2>3. CASE LooksForInstalled(a)
    <3>1. stage = Whole /\ stage' = stage
      BY <2>3 DEF LooksForInstalled, IInv, ValidatedStays
    <3>2. GoesOn(a, "rename") \/ Stopped(a)
      BY <2>3, <1>1, <1>3, StepsEffect, FailsEffect DEF LooksForInstalled, GoesOn
    <3> QED BY <2>3, <3>1, <3>2, <1>1 DEF LooksForInstalled, Typed
  <2> QED BY <2>1, <2>2, <2>3
<1>5. task'[a].at \in Late => stage' = Whole
  BY <1>4 DEF Stopped, TaskMoves, Late
<1>6. /\ identity' \in {"none", "torn", "pinned"}
      /\ installed' = {} \/ \E p \in Packages : installed' = {p}
  BY <1>1, <1>2 DEF Typed
<1> QED BY <1>2, <1>3, <1>4, <1>5, <1>6, HolderSteps

LEMMA RenamesKeeps ==
  ASSUME IInv, NEW a \in Windows, Renames(a)
  PROVE  /\ IInv'
         /\ installed # {} => installed' = installed
         /\ installed' = installed \/ installed' = {Whole}
<1> USE DEF At
<1>1. Typed /\ stage \in Packages /\ task[a] \in Tasks  BY DEF IInv, Typed
<1>2. /\ UNCHANGED <<saved, work, ui, identity, receipt>> /\ task[a].at \in Inside
  BY DEF Renames, Inside
<1>3. stage = Whole  BY DEF Renames, IInv, ValidatedStays
<1>4. CASE installed # {}
  <2>1. Stopped(a) /\ UNCHANGED <<stage, installed>>
    BY <1>1, <1>4, FailsEffect DEF Renames
  <2>2. task'[a].at \notin Late  BY <2>1 DEF Stopped, TaskMoves, Late
  <2>3. /\ identity' \in {"none", "torn", "pinned"} /\ receipt' \in BOOLEAN
        /\ installed' = {} \/ \E p \in Packages : installed' = {p}
        /\ stage' \in Packages
    BY <1>1, <1>2, <2>1 DEF Typed
  <2> QED BY <1>2, <2>1, <2>2, <2>3, HolderSteps
<1>5. CASE installed = {}
  <2>1. /\ installed' = {stage} /\ stage' = Fresh /\ lock' = lock \ {<<a, "download">>}
        /\ task' = [task EXCEPT ![a].phase = "ready", ![a].at = "final", ![a].result = "ready"]
    BY <1>5 DEF Renames, Unlocks
  <2>2. PICK t : t = [task[a] EXCEPT !.phase = "ready", !.at = "final", !.result = "ready"]
    OBVIOUS
  <2>3. t \in Tasks /\ t.at = "final"  BY <1>1, <2>2 DEF Tasks
  <2>4. task' = [task EXCEPT ![a] = t]  BY <1>1, <2>1, <2>2 DEF Typed
  <2>5. Stopped(a)  BY <1>1, <2>1, <2>3, <2>4, UpdateEffect DEF Stopped
  <2>6. task'[a].at \notin Late  BY <2>5 DEF Stopped, TaskMoves, Late
  <2>7. /\ identity' \in {"none", "torn", "pinned"} /\ receipt' \in BOOLEAN
        /\ \E p \in Packages : installed' = {p}
        /\ stage' \in Packages
    BY <1>1, <1>2, <2>1, KnownPackages DEF Typed
  <2> QED BY <1>2, <1>3, <1>5, <2>1, <2>5, <2>6, <2>7, HolderSteps
<1> QED BY <1>4, <1>5

LEMMA EndStepsKeep ==
  ASSUME IInv, NEW a \in Windows, Finishes(a) \/ Stops(a)
  PROVE  IInv'
<1> USE DEF At
<1>1. Typed /\ task[a] \in Tasks  BY DEF IInv, Typed
<1>2. UNCHANGED <<saved, work, ui>> /\ UNCHANGED files  BY DEF Finishes, Stops
<1>3. \E at \in {"stop", "idle"} : TaskMoves(a, at)
  <2>1. CASE Finishes(a)
    <3>1. /\ task[a].result \in {"idle", "going", "cancelling", "stopped", "ready"}
          /\ "stop" \in Places
      BY <1>1 DEF Tasks, Places
    <3> QED BY <2>1, <3>1, <1>1, PublishesEffect DEF Finishes
  <2>2. CASE Stops(a)
    <3>1. PICK t : t = [NoTask EXCEPT !.phase = task[a].phase]  OBVIOUS
    <3>2. 0 \in 0..Size  BY StoreAssumption
    <3>3. t \in Tasks /\ t.at = "idle"  BY <3>1, <3>2, <1>1 DEF NoTask, Tasks
    <3> QED BY <2>2, <3>1, <3>3, <1>1, UpdateEffect DEF Stops
  <2> QED BY <2>1, <2>2
<1>4. /\ task' \in [Windows -> Tasks]
      /\ \A b \in Windows : task'[b].at \in Inside => task'[b].at = task[b].at
  BY <1>3 DEF TaskMoves, Inside
<1>5. /\ saved' \in BOOLEAN /\ ui' \in [Windows -> Panels] /\ work' \in [Windows -> Works]
      /\ \A b \in Windows : work'[b].at \in {"delete", "unlock"} => work'[b].at = work[b].at
  BY <1>1, <1>2 DEF Typed
<1> QED BY <1>2, <1>4, <1>5, OutsiderSteps

-----------------------------------------------------------------------------
(* The catalog thread. *)

WorkMoves(a, at) ==
  /\ work' \in [Windows -> Works] /\ work'[a].at = at
  /\ \A b \in Windows \ {a} : work'[b] = work[b]

WorkPlaces ==
  {"idle", "list", "sent", "check", "copy", "rename", "config", "cache", "delete", "unlock"}

LEMMA WorkEffect ==
  ASSUME Typed, NEW a \in Windows, NEW w \in Works, work' = [work EXCEPT ![a] = w]
  PROVE  WorkMoves(a, w.at)
  BY DEF Typed, WorkMoves

LEMMA KnownWorks ==
  /\ Listing \in Works /\ Listing.at = "list" /\ Listing.does = "list"
  /\ NoWork \in Works /\ NoWork.at = "idle"
  /\ [NoWork EXCEPT !.at = "sent", !.ok = FALSE] \in Works
  /\ \A does \in {"list", "import", "remove"}, at \in WorkPlaces :
       /\ [NoWork EXCEPT !.does = does, !.at = at] \in Works
       /\ [NoWork EXCEPT !.does = does, !.at = at].at = at
       /\ [NoWork EXCEPT !.does = does, !.at = at].does = does
  /\ \A listed \in BOOLEAN : [NoWork EXCEPT !.at = "sent", !.listed = listed] \in Works
<1>1. NoWork \in Works  BY KnownPackages DEF NoWork, Works
<1>2. Listing \in Works /\ Listing.at = "list" /\ Listing.does = "list"
  BY <1>1 DEF Listing, NoWork, Works
<1>3. [NoWork EXCEPT !.at = "sent", !.ok = FALSE] \in Works  BY <1>1 DEF Works
<1>4. ASSUME NEW does \in {"list", "import", "remove"}, NEW at \in WorkPlaces
      PROVE  /\ [NoWork EXCEPT !.does = does, !.at = at] \in Works
             /\ [NoWork EXCEPT !.does = does, !.at = at].at = at
             /\ [NoWork EXCEPT !.does = does, !.at = at].does = does
  BY <1>1 DEF Works, WorkPlaces
<1>5. ASSUME NEW listed \in BOOLEAN
      PROVE  [NoWork EXCEPT !.at = "sent", !.listed = listed] \in Works
  BY <1>1 DEF Works
<1>6. NoWork.at = "idle"  BY DEF NoWork
<1> QED BY <1>1, <1>2, <1>3, <1>4, <1>5, <1>6

LEMMA ContinuesEffect ==
  ASSUME Typed, NEW a \in Windows, NEW at \in WorkPlaces, Continues(a, at)
  PROVE  WorkMoves(a, at) /\ work'[a].does = work[a].does
<1>1. PICK w : w = [work[a] EXCEPT !.at = at]  OBVIOUS
<1>2. work[a] \in Works  BY DEF Typed
<1>3. w \in Works /\ w.at = at /\ w.does = work[a].does  BY <1>1, <1>2 DEF Works, WorkPlaces
<1>4. work' = [work EXCEPT ![a] = w]  BY <1>1 DEF Continues, Typed
<1> QED BY <1>3, <1>4, WorkEffect DEF WorkMoves, Typed

LEMMA RefusedEffect ==
  ASSUME Typed, NEW a \in Windows, Refused(a)
  PROVE  WorkMoves(a, "sent")
<1>1. PICK w : w = [NoWork EXCEPT !.at = "sent", !.ok = FALSE]  OBVIOUS
<1>2. w \in Works /\ w.at = "sent"  BY <1>1, KnownWorks DEF NoWork
<1>3. work' = [work EXCEPT ![a] = w]  BY <1>1 DEF Refused
<1> QED BY <1>2, <1>3, WorkEffect

LEMMA ListingEffect ==
  ASSUME Typed, NEW a \in Windows, work' = [work EXCEPT ![a] = Listing]
  PROVE  WorkMoves(a, "list")
<1>1. PICK w \in Works : w = Listing /\ w.at = "list"  BY KnownWorks
<1> QED BY <1>1, WorkEffect

\* A step of the catalog thread without the lock, which may name a package.
LEMMA CatalogSteps ==
  ASSUME IInv, NEW a \in Windows, UNCHANGED <<stage, identity, receipt, lock, saved, task, ui>>,
         NEW at \in WorkPlaces \ {"delete", "unlock"}, WorkMoves(a, at),
         installed' = installed \/ \E p \in Packages : installed' = {p}
  PROVE  IInv'
<1>1. Typed'  BY DEF IInv, Typed, WorkMoves
<1>2. LockIsHeld'  BY DEF IInv, LockIsHeld, WorkMoves
<1>3. ValidatedStays'  BY DEF IInv, ValidatedStays
<1>4. WorkspaceStaysClear'  BY DEF IInv, WorkspaceStaysClear, WorkMoves
<1> QED BY <1>1, <1>2, <1>3, <1>4 DEF IInv

LEMMA ImportKeeps ==
  ASSUME IInv, NEW a \in Windows, ImportChecks(a) \/ ImportCopies(a) \/ ImportRenames(a)
  PROVE  /\ IInv'
         /\ installed # {} => installed' = installed
         /\ installed' = installed \/ installed' = {Whole}
         /\ \E at \in {"copy", "rename", "sent", "list"} : WorkMoves(a, at)
<1> USE DEF Doing
<1>1. Typed /\ work[a] \in Works  BY DEF IInv, Typed
<1>2. UNCHANGED <<stage, identity, receipt, lock, saved, task, ui>>
  BY DEF ImportChecks, ImportCopies, ImportRenames, files
<1>3. {"copy", "rename", "sent", "list"} \subseteq WorkPlaces \ {"delete", "unlock"}
  BY DEF WorkPlaces
<1>4. /\ \E at \in {"copy", "rename", "sent", "list"} : WorkMoves(a, at)
      /\ installed # {} => installed' = installed
      /\ installed' = installed \/ installed' = {Whole}
  <2>1. CASE ImportChecks(a)
    <3>1. Continues(a, "copy") \/ Refused(a)  BY <2>1 DEF ImportChecks
    <3>2. installed' = installed  BY <2>1 DEF ImportChecks, files
    <3> QED BY <3>1, <3>2, <1>1, <1>3, ContinuesEffect, RefusedEffect
  <2>2. CASE ImportCopies(a)
    <3>1. PICK source \in Sources :
            work' = [work EXCEPT ![a].staging = [source EXCEPT !.manifest = TRUE, !.alone = TRUE],
                                 ![a].at = "rename"]
      BY <2>2 DEF ImportCopies
    <3>2. PICK p \in Packages : p = [source EXCEPT !.manifest = TRUE, !.alone = TRUE]
      BY KnownPackages
    <3>3. PICK w : w = [work[a] EXCEPT !.staging = p, !.at = "rename"]  OBVIOUS
    <3>4. w \in Works /\ w.at = "rename"  BY <1>1, <3>2, <3>3 DEF Works
    <3>5. work' = [work EXCEPT ![a] = w]  BY <1>1, <3>1, <3>2, <3>3 DEF Typed
    <3>6. installed' = installed  BY <2>2 DEF ImportCopies, files
    <3> QED BY <3>4, <3>5, <3>6, <1>1, WorkEffect
  <2>3. CASE ImportRenames(a)
    <3>1. CASE Validate(work[a].staging) /\ installed = {}
      <4>1. work[a].staging = Whole  BY <3>1, <1>1, ValidIsWhole DEF Works
      <4>2. installed' = {Whole} /\ work' = [work EXCEPT ![a] = Listing]
        BY <2>3, <3>1, <4>1 DEF ImportRenames
      <4> QED BY <3>1, <4>2, <1>1, ListingEffect
    <3>2. CASE ~(Validate(work[a].staging) /\ installed = {})
      BY <2>3, <3>2, <1>1, RefusedEffect DEF ImportRenames
    <3> QED BY <3>1, <3>2
  <2> QED BY <2>1, <2>2, <2>3
<1> QED BY <1>2, <1>3, <1>4, CatalogSteps, KnownPackages

LEMMA ListsKeeps ==
  ASSUME IInv, NEW a \in Windows, Lists(a)
  PROVE  IInv'
<1>1. Typed  BY DEF IInv
<1>2. UNCHANGED <<stage, identity, receipt, lock, installed, saved, task, ui>>
  BY DEF Lists, files
<1>3. PICK listed \in BOOLEAN : listed = Listed  BY DEF Listed
<1>4. PICK w : w = [NoWork EXCEPT !.at = "sent", !.listed = listed]  OBVIOUS
<1>5. w \in Works /\ w.at = "sent"  BY <1>4, KnownWorks DEF NoWork
<1>6. work' = [work EXCEPT ![a] = w]  BY <1>3, <1>4 DEF Lists
<1>7. WorkMoves(a, "sent") /\ "sent" \in WorkPlaces \ {"delete", "unlock"}
  BY <1>1, <1>5, <1>6, WorkEffect DEF WorkPlaces
<1> QED BY <1>2, <1>7, CatalogSteps

LEMMA RemoveChecksKeeps ==
  ASSUME IInv, NEW a \in Windows, RemoveChecks(a)
  PROVE  IInv'
<1>1. Typed  BY DEF IInv
<1>2. UNCHANGED <<stage, identity, receipt, lock, installed, saved, task, ui>>
  BY DEF RemoveChecks, Doing, files
<1>3. {"cache", "sent"} \subseteq WorkPlaces \ {"delete", "unlock"}  BY DEF WorkPlaces
<1>4. \E at \in {"cache", "sent"} : WorkMoves(a, at)
  BY <1>1, <1>3, ContinuesEffect, RefusedEffect DEF RemoveChecks
<1> QED BY <1>2, <1>3, <1>4, CatalogSteps

\* The workspace is cleared by whoever has just taken the lock.
LEMMA RemoveCacheKeeps ==
  ASSUME IInv, NEW a \in Windows, RemoveCache(a)
  PROVE  IInv'
<1>1. Typed  BY DEF IInv
<1>2. UNCHANGED <<installed, saved, task, ui>> /\ work[a].at = "cache"
  BY DEF RemoveCache, Doing
<1>3. "delete" \in WorkPlaces /\ "sent" \in WorkPlaces  BY DEF WorkPlaces
<1>4. lock = {} => /\ \A b \in Windows : task[b].at \notin Inside
                   /\ \A b \in Windows : work[b].at \notin {"delete", "unlock"}
  BY DEF IInv, LockIsHeld
<1>5. CASE Locks(a, "catalog") /\ Continues(a, "delete")
           /\ identity' = "none" /\ stage' = Fresh /\ receipt' = FALSE
  <2>1. lock = {} /\ lock' = {<<a, "catalog">>} /\ WorkMoves(a, "delete")
    BY <1>1, <1>3, <1>5, ContinuesEffect DEF Locks
  <2>2. Typed'
    BY <1>1, <1>2, <1>5, <2>1, KnownPackages DEF Typed, WorkMoves, Holders
  <2>3. LockIsHeld'  BY <1>2, <1>4, <2>1 DEF LockIsHeld, WorkMoves
  <2>4. ValidatedStays'  BY <1>2, <1>4, <2>1 DEF ValidatedStays, Inside
  <2>5. WorkspaceStaysClear'  BY <1>4, <1>5, <2>1 DEF WorkspaceStaysClear, WorkMoves
  <2> QED BY <2>2, <2>3, <2>4, <2>5 DEF IInv
<1>6. CASE lock = {} /\ Refused(a) /\ identity' = "none" /\ UNCHANGED <<lock, stage, receipt>>
  <2>1. WorkMoves(a, "sent")  BY <1>1, <1>6, RefusedEffect
  <2>2. Typed'  BY <1>1, <1>2, <1>6, <2>1 DEF Typed, WorkMoves
  <2>3. LockIsHeld'  BY <1>2, <1>4, <1>6, <2>1 DEF LockIsHeld, WorkMoves
  <2>4. ValidatedStays'  BY <1>2, <1>4, <1>6 DEF ValidatedStays, Inside
  <2>5. WorkspaceStaysClear'  BY <1>4, <1>6, <2>1 DEF WorkspaceStaysClear, WorkMoves
  <2> QED BY <2>2, <2>3, <2>4, <2>5 DEF IInv
<1>7. CASE lock # {} /\ Refused(a) /\ UNCHANGED <<lock, identity, stage, receipt>>
  <2>1. WorkMoves(a, "sent") /\ "sent" \in WorkPlaces \ {"delete", "unlock"}
    BY <1>1, <1>3, <1>7, RefusedEffect
  <2> QED BY <1>2, <1>7, <2>1, CatalogSteps
<1> QED BY <1>5, <1>6, <1>7 DEF RemoveCache

\* The holder of the lock in the catalog thread is alone past it, too.
LEMMA RemoverIsAlone ==
  ASSUME IInv, NEW a \in Windows, work[a].at \in {"delete", "unlock"}
  PROVE  /\ lock = {<<a, "catalog">>}
         /\ \A b \in Windows : task[b].at \notin Inside
         /\ \A b \in Windows \ {a} : work[b].at \notin {"delete", "unlock"}
<1>1. <<a, "catalog">> \in lock  BY DEF IInv, LockIsHeld
<1>2. lock = {<<a, "catalog">>}  BY <1>1 DEF IInv, Typed
<1>3. \A b \in Windows \ {a} : <<b, "catalog">> # <<a, "catalog">>  OBVIOUS
<1> QED BY <1>2, <1>3 DEF IInv, LockIsHeld

LEMMA RemoveEndsKeep ==
  ASSUME IInv, NEW a \in Windows, RemoveDeletes(a) \/ RemoveUnlocks(a)
  PROVE  /\ IInv'
         /\ installed = {} => installed' = {}
         /\ work'[a].at = "unlock" => installed' = {}
<1> USE DEF Doing
<1>1. Typed  BY DEF IInv
<1>2. UNCHANGED <<stage, identity, receipt, saved, task, ui>> /\ work[a].at \in {"delete", "unlock"}
  BY DEF RemoveDeletes, RemoveUnlocks
<1>3. /\ lock = {<<a, "catalog">>}
      /\ \A b \in Windows : task[b].at \notin Inside
      /\ \A b \in Windows \ {a} : work[b].at \notin {"delete", "unlock"}
      /\ stage = Fresh /\ identity = "none" /\ ~receipt
  BY <1>2, RemoverIsAlone DEF IInv, WorkspaceStaysClear
<1>4. "unlock" \in WorkPlaces /\ "sent" \in WorkPlaces /\ "list" \in WorkPlaces
  BY DEF WorkPlaces
<1>5. /\ \/ WorkMoves(a, "unlock") /\ lock' = lock /\ installed' = {}
         \/ \E at \in {"sent", "list"} : WorkMoves(a, at) /\ lock' = {}
      /\ installed' = {} \/ \E p \in Packages : installed' = {p}
      /\ installed = {} => installed' = {}
  <2>1. CASE RemoveDeletes(a)
    <3>1. CASE installed # {} /\ installed' = {} /\ Continues(a, "unlock") /\ UNCHANGED lock
      BY <3>1, <1>1, <1>4, ContinuesEffect
    <3>2. CASE /\ installed' \in IF installed = {} THEN {{}}
                                 ELSE {{left} : left \in UNION {Remains(p) : p \in installed}}
               /\ Refused(a) /\ Unlocks(a, "catalog")
      <4>1. lock' = {} /\ WorkMoves(a, "sent")
        BY <3>2, <1>1, <1>3, RefusedEffect DEF Unlocks
      <4>2. CASE installed = {}  BY <4>1, <4>2, <3>2
      <4>3. CASE installed # {}
        <5>1. PICK p \in Packages : installed = {p}  BY <4>3, <1>1 DEF Typed
        <5>2. PICK left \in UNION {Remains(q) : q \in installed} : installed' = {left}
          BY <3>2, <4>3
        <5>3. left \in Remains(p)  BY <5>1, <5>2
        <5>4. left \in Packages  BY <5>3, KnownPackages
        <5> QED BY <4>1, <4>3, <5>2, <5>4
      <4> QED BY <4>2, <4>3
    <3> QED BY <2>1, <3>1, <3>2 DEF RemoveDeletes
  <2>2. CASE RemoveUnlocks(a)
    <3>1. lock' = {} /\ WorkMoves(a, "list") /\ installed' = installed
      BY <2>2, <1>1, <1>3, ListingEffect DEF RemoveUnlocks, Unlocks
    <3> QED BY <3>1, <1>1 DEF Typed
  <2> QED BY <2>1, <2>2
<1>6. Typed'  BY <1>1, <1>2, <1>5 DEF Typed, WorkMoves
<1>7. LockIsHeld'  BY <1>2, <1>3, <1>5 DEF LockIsHeld, WorkMoves
<1>8. ValidatedStays'  BY <1>2, <1>3 DEF ValidatedStays, Inside
<1>9. WorkspaceStaysClear'  BY <1>2, <1>3 DEF WorkspaceStaysClear
<1> QED BY <1>5, <1>6, <1>7, <1>8, <1>9 DEF IInv, WorkMoves

-----------------------------------------------------------------------------
(* The panel, and the end of a process. *)

PanelMoves(a) ==
  /\ ui' \in [Windows -> Panels] /\ \A b \in Windows \ {a} : ui'[b] = ui[b]

LEMMA ClicksEffect ==
  ASSUME Typed, NEW a \in Windows, Clicks(a)
  PROVE  PanelMoves(a) /\ ui'[a].draft = ui[a].draft
<1>1. PICK u : u = [ui[a] EXCEPT !.clicked = TRUE]  OBVIOUS
<1>2. ui[a] \in Panels  BY DEF Typed
<1>3. u \in Panels /\ u.draft = ui[a].draft  BY <1>1, <1>2 DEF Panels
<1>4. ui' = [ui EXCEPT ![a] = u]  BY <1>1 DEF Clicks, Typed
<1> QED BY <1>3, <1>4 DEF Typed, PanelMoves

\* A click that starts or cancels a download, or saves: no thread gets past the lock by it.
LEMMA ClickTaskKeeps ==
  ASSUME IInv, NEW a \in Windows, ClickStart(a) \/ ClickCancel(a) \/ ClickSave(a)
  PROVE  IInv' /\ PanelMoves(a) /\ ui'[a].draft = ui[a].draft
<1>1. Typed /\ task[a] \in Tasks /\ ui[a] \in Panels  BY DEF IInv, Typed
<1>2. UNCHANGED work /\ UNCHANGED files /\ Clicks(a)
  BY DEF ClickStart, ClickCancel, ClickSave
<1>3. saved' \in BOOLEAN
  BY <1>1 DEF ClickStart, ClickCancel, ClickSave, Typed, Panels
<1>4. PanelMoves(a) /\ ui'[a].draft = ui[a].draft  BY <1>1, <1>2, ClicksEffect
<1>5. /\ task' \in [Windows -> Tasks]
      /\ \A b \in Windows : task'[b].at \in Inside => task'[b].at = task[b].at
  <2>1. CASE task' = task  BY <2>1, <1>1 DEF Typed
  <2>2. CASE task' = [task EXCEPT ![a] = NewTask]
    <3>2. PICK t \in Tasks : t = NewTask /\ t.at = "lock"  BY KnownTasks
    <3>3. TaskMoves(a, "lock")  BY <2>2, <3>2, <1>1, UpdateEffect
    <3> QED BY <3>3 DEF TaskMoves, Inside
  <2>3. CASE task' = [task EXCEPT ![a].cancel = TRUE, ![a].phase = "cancelling"]
    <3>1. PICK t : t = [task[a] EXCEPT !.cancel = TRUE, !.phase = "cancelling"]  OBVIOUS
    <3>2. t \in Tasks /\ t.at = task[a].at  BY <3>1, <1>1 DEF Tasks
    <3>3. task' = [task EXCEPT ![a] = t]  BY <2>3, <3>1, <1>1 DEF Typed
    <3>4. TaskMoves(a, task[a].at)  BY <3>2, <3>3, <1>1, UpdateEffect
    <3> QED BY <3>4 DEF TaskMoves
  <2>4. \/ task' = task \/ task' = [task EXCEPT ![a] = NewTask]
        \/ task' = [task EXCEPT ![a].cancel = TRUE, ![a].phase = "cancelling"]
    BY DEF ClickStart, ClickCancel, ClickSave
  <2> QED BY <2>1, <2>2, <2>3, <2>4
<1>6. /\ work' \in [Windows -> Works] /\ ui' \in [Windows -> Panels]
      /\ \A b \in Windows : work'[b].at \in {"delete", "unlock"} => work'[b].at = work[b].at
  BY <1>1, <1>2, <1>4 DEF Typed, PanelMoves
<1> QED BY <1>2, <1>3, <1>4, <1>5, <1>6, OutsiderSteps

LEMMA ClickCatalogKeeps ==
  ASSUME IInv, NEW a \in Windows, NEW does \in {"import", "list", "remove"},
         NEW at \in {"check", "list", "config"}, ClickCatalog(a, does, at)
  PROVE  /\ IInv' /\ PanelMoves(a) /\ ui'[a].draft = ui[a].draft
         /\ WorkMoves(a, at) /\ work'[a].does = does
<1>1. Typed  BY DEF IInv
<1>2. UNCHANGED <<saved, task>> /\ UNCHANGED files /\ Clicks(a)
  BY DEF ClickCatalog
<1>3. PanelMoves(a) /\ ui'[a].draft = ui[a].draft  BY <1>1, <1>2, ClicksEffect
<1>4. PICK w : w = [NoWork EXCEPT !.does = does, !.at = at]  OBVIOUS
<1>5. w \in Works /\ w.at = at /\ w.does = does
  <2>1. NoWork \in Works  BY KnownWorks
  <2> QED BY <1>4, <2>1 DEF Works
<1>6. work' = [work EXCEPT ![a] = w]  BY <1>4 DEF ClickCatalog
<1>7. WorkMoves(a, at) /\ work'[a].does = does
  BY <1>1, <1>5, <1>6, WorkEffect DEF Typed
<1>8. /\ saved' \in BOOLEAN /\ ui' \in [Windows -> Panels]
      /\ task' \in [Windows -> Tasks] /\ work' \in [Windows -> Works]
      /\ \A b \in Windows : task'[b].at \in Inside => task'[b].at = task[b].at
      /\ \A b \in Windows : work'[b].at \in {"delete", "unlock"} => work'[b].at = work[b].at
  BY <1>1, <1>2, <1>3, <1>7 DEF Typed, PanelMoves, WorkMoves
<1> QED BY <1>2, <1>3, <1>7, <1>8, OutsiderSteps

LEMMA ClickChooseKeeps ==
  ASSUME IInv, NEW a \in Windows, ClickChoose(a)
  PROVE  IInv' /\ PanelMoves(a) /\ work[a].at = "idle"
<1>1. Typed /\ ui[a] \in Panels  BY DEF IInv, Typed
<1>2. UNCHANGED <<saved, task, work>> /\ UNCHANGED files /\ work[a].at = "idle"
  BY DEF ClickChoose, MayChoose
<1>3. PICK u : u = [ui[a] EXCEPT !.clicked = TRUE, !.draft = ~@]  OBVIOUS
<1>4. u \in Panels  BY <1>1, <1>3 DEF Panels
<1>5. ui' = [ui EXCEPT ![a] = u]  BY <1>1, <1>3 DEF ClickChoose, Typed
<1>6. PanelMoves(a)  BY <1>1, <1>4, <1>5 DEF Typed, PanelMoves
<1>7. /\ saved' \in BOOLEAN /\ ui' \in [Windows -> Panels]
      /\ task' \in [Windows -> Tasks] /\ work' \in [Windows -> Works]
      /\ \A b \in Windows : task'[b].at \in Inside => task'[b].at = task[b].at
      /\ \A b \in Windows : work'[b].at \in {"delete", "unlock"} => work'[b].at = work[b].at
  BY <1>1, <1>2, <1>6 DEF Typed, PanelMoves
<1> QED BY <1>2, <1>6, <1>7, OutsiderSteps

LEMMA FrameKeeps ==
  ASSUME IInv, NEW a \in Windows, Frame(a)
  PROVE  /\ IInv' /\ PanelMoves(a) /\ ui'[a].draft = ui[a].draft
         /\ work' = work \/ WorkMoves(a, "list") \/ WorkMoves(a, "idle")
<1> DEFINE free == work[a].at \in {"idle", "sent"}
           refresh == ui[a].refresh \/ ShowsReady(a)
           sent == work[a].at = "sent"
<1>1. Typed /\ ui[a] \in Panels /\ task[a] \in Tasks /\ work[a] \in Works  BY DEF IInv, Typed
<1>2. UNCHANGED <<saved, task>> /\ UNCHANGED files  BY DEF Frame
<1>3. PICK listed \in BOOLEAN :
        listed = IF sent /\ work[a].ok THEN work[a].listed ELSE ui[a].listed
  BY <1>1 DEF Works, Panels
<1>4. PICK again \in BOOLEAN : again = (refresh /\ ~free)  BY <1>1 DEF Panels
<1>5. PICK u : u = [ui[a] EXCEPT !.seen = task[a].phase, !.clicked = FALSE,
                                 !.refresh = again, !.listed = listed]
  OBVIOUS
<1>6. u \in Panels /\ u.draft = ui[a].draft  BY <1>1, <1>5 DEF Panels, Tasks
<1>7. ui' = [ui EXCEPT ![a] = u]  BY <1>1, <1>3, <1>4, <1>5 DEF Frame, Typed
<1>8. PanelMoves(a) /\ ui'[a].draft = ui[a].draft
  BY <1>1, <1>6, <1>7 DEF Typed, PanelMoves
<1>9. work' = work \/ WorkMoves(a, "list") \/ WorkMoves(a, "idle")
  <2>1. CASE work' = [work EXCEPT ![a] = Listing]  BY <2>1, <1>1, ListingEffect
  <2>2. CASE work' = [work EXCEPT ![a] = NoWork]
    <3>1. PICK w \in Works : w = NoWork /\ w.at = "idle"  BY KnownWorks
    <3> QED BY <2>2, <3>1, <1>1, WorkEffect
  <2>3. CASE work' = work  BY <2>3
  <2> QED BY <2>1, <2>2, <2>3 DEF Frame
<1>10. /\ saved' \in BOOLEAN /\ ui' \in [Windows -> Panels]
       /\ task' \in [Windows -> Tasks] /\ work' \in [Windows -> Works]
       /\ \A b \in Windows : task'[b].at \in Inside => task'[b].at = task[b].at
       /\ \A b \in Windows : work'[b].at \in {"delete", "unlock"} => work'[b].at = work[b].at
  BY <1>1, <1>2, <1>8, <1>9 DEF Typed, PanelMoves, WorkMoves
<1> QED BY <1>2, <1>8, <1>9, <1>10, OutsiderSteps

\* The locks of a process end with it, and so do its claims to hold one.
LEMMA EndsKeeps ==
  ASSUME IInv, NEW a \in Windows, Ends(a)
  PROVE  IInv' /\ PanelMoves(a) /\ WorkMoves(a, "list")
<1>1. Typed  BY DEF IInv
<1>2. UNCHANGED <<stage, identity, receipt, installed, saved>>
      /\ lock' = {holder \in lock : holder[1] # a}
  BY DEF Ends
<1>3. TaskMoves(a, "idle")
  <2>2. PICK t \in Tasks : t = NoTask /\ t.at = "idle"  BY KnownTasks
  <2> QED BY <2>2, <1>1, UpdateEffect DEF Ends
<1>4. WorkMoves(a, "list")  BY <1>1, ListingEffect DEF Ends
<1>5. PanelMoves(a)
  <2>1. PICK u \in Panels : u = Panel(saved)  BY <1>1 DEF Panel, Panels, Typed
  <2>2. ui' = [ui EXCEPT ![a] = u]  BY <2>1 DEF Ends
  <2> QED BY <2>2, <1>1 DEF Typed, PanelMoves
<1>6. /\ lock' = {} \/ lock' = lock
      /\ \A b \in Windows \ {a}, thread \in {"download", "catalog"} :
           <<b, thread>> \in lock => <<b, thread>> \in lock'
  <2>1. CASE lock = {}  BY <2>1, <1>2
  <2>2. CASE \E h \in Holders : lock = {h}
    <3>1. PICK h \in Holders : lock = {h}  BY <2>2
    <3>2. lock' = IF h[1] # a THEN {h} ELSE {}  BY <3>1, <1>2
    <3> QED BY <3>1, <3>2, <1>2
  <2> QED BY <2>1, <2>2, <1>1 DEF Typed
<1>7. Typed'  BY <1>1, <1>2, <1>3, <1>4, <1>5, <1>6 DEF Typed, TaskMoves, WorkMoves, PanelMoves
<1>8. LockIsHeld'
  <2> SUFFICES ASSUME NEW b \in Windows
               PROVE  /\ task'[b].at \in Inside => <<b, "download">> \in lock'
                      /\ work'[b].at \in {"delete", "unlock"} => <<b, "catalog">> \in lock'
    BY DEF LockIsHeld
  <2>1. CASE b = a  BY <2>1, <1>3, <1>4 DEF TaskMoves, WorkMoves, Inside
  <2>2. CASE b # a
    <3>1. task'[b] = task[b] /\ work'[b] = work[b]  BY <2>2, <1>3, <1>4 DEF TaskMoves, WorkMoves
    <3> QED BY <2>2, <3>1, <1>6 DEF IInv, LockIsHeld
  <2> QED BY <2>1, <2>2
<1>9. ValidatedStays'  BY <1>2, <1>3 DEF IInv, ValidatedStays, TaskMoves
<1>10. WorkspaceStaysClear'  BY <1>2, <1>4 DEF IInv, WorkspaceStaysClear, WorkMoves
<1> QED BY <1>4, <1>5, <1>7, <1>8, <1>9, <1>10 DEF IInv

-----------------------------------------------------------------------------
(* The theorems, for any number of windows. *)

LEMMA InitGood == Init => IInv
<1> SUFFICES ASSUME Init PROVE IInv  OBVIOUS
<1>1. Typed
  <2>1. installed = {} \/ \E p \in Packages : installed = {p}
    BY KnownPackages DEF Init
  <2>2. stage \in Packages /\ identity \in {"none", "torn", "pinned"} /\ receipt \in BOOLEAN
        /\ lock = {} /\ saved \in BOOLEAN
    BY KnownPackages DEF Init
  <2>3. task \in [Windows -> Tasks] /\ work \in [Windows -> Works]
    BY KnownTasks, KnownWorks DEF Init
  <2>4. Panel(saved) \in Panels  BY <2>2 DEF Panel, Panels
  <2>5. ui \in [Windows -> Panels]  BY <2>4 DEF Init
  <2> QED BY <2>1, <2>2, <2>3, <2>5 DEF Typed
<1>2. \A a \in Windows : task[a].at = "idle" /\ work[a].at = "list"
  BY KnownTasks, KnownWorks DEF Init
<1> QED
  BY <1>1, <1>2 DEF IInv, LockIsHeld, ValidatedStays, WorkspaceStaysClear, Inside

\* Every step keeps the invariant, and names only whole packages.
LEMMA StepKeeps ==
  ASSUME IInv, [Next]_vars
  PROVE  IInv' /\ (installed = {} => installed' \subseteq {Whole})
<1> DEFINE Named == installed = {} => installed' \subseteq {Whole}
<1>1. CASE UNCHANGED vars
  <2>1. UNCHANGED <<stage, identity, receipt, lock, installed, saved, task, work, ui>>
    BY <1>1 DEF vars
  <2> QED BY <2>1 DEF IInv, Typed, LockIsHeld, ValidatedStays, WorkspaceStaysClear
<1>2. ASSUME NEW a \in Windows, Download(a) PROVE IInv' /\ Named
  <2>1. CASE TakesLock(a)  BY <2>1, TakesLockKeeps DEF TakesLock
  <2>2. CASE Identifies(a) \/ Pins(a) \/ Prepares(a) \/ Requests(a) \/ Reads(a)
    BY <2>2, EarlyStepsKeep DEF Identifies, Pins, Prepares, Requests, Reads
  <2>3. CASE Resumes(a) \/ Answers(a) \/ Receives(a) \/ Hashes(a)
    BY <2>3, TransferStepsKeep DEF Resumes, Answers, Receives, Hashes
  <2>4. CASE Verifies(a) \/ WritesReceipt(a) \/ LooksForInstalled(a)
    BY <2>4, LateStepsKeep DEF Verifies, WritesReceipt, LooksForInstalled
  <2>5. CASE Renames(a)  BY <2>5, RenamesKeeps
  <2>6. CASE Finishes(a) \/ Stops(a)
    BY <2>6, EndStepsKeep DEF Finishes, Stops, files
  <2> QED BY <1>2, <2>1, <2>2, <2>3, <2>4, <2>5, <2>6 DEF Download
<1>3. ASSUME NEW a \in Windows, Catalog(a) PROVE IInv' /\ Named
  <2>1. CASE ImportChecks(a) \/ ImportCopies(a) \/ ImportRenames(a)  BY <2>1, ImportKeeps
  <2>2. CASE RemoveChecks(a)  BY <2>2, RemoveChecksKeeps DEF RemoveChecks, files
  <2>3. CASE RemoveCache(a)  BY <2>3, RemoveCacheKeeps DEF RemoveCache
  <2>4. CASE RemoveDeletes(a) \/ RemoveUnlocks(a)  BY <2>4, RemoveEndsKeep
  <2>5. CASE Lists(a)  BY <2>5, ListsKeeps DEF Lists, files
  <2> QED BY <1>3, <2>1, <2>2, <2>3, <2>4, <2>5 DEF Catalog
<1>4. ASSUME NEW a \in Windows, Ends(a) PROVE IInv' /\ Named
  BY <1>4, EndsKeeps DEF Ends
<1>5. ASSUME NEW a \in Windows, Frame(a) PROVE IInv' /\ Named
  BY <1>5, FrameKeeps DEF Frame, files
<1>6. ASSUME NEW a \in Windows, ClickStart(a) \/ ClickCancel(a) \/ ClickSave(a)
      PROVE  IInv' /\ Named
  BY <1>6, ClickTaskKeeps DEF ClickStart, ClickCancel, ClickSave, files
<1>7. ASSUME NEW a \in Windows, ClickImport(a) \/ ClickList(a) \/ ClickRemove(a)
      PROVE  IInv' /\ Named
  <2>1. PICK does \in {"import", "list", "remove"}, at \in {"check", "list", "config"} :
          ClickCatalog(a, does, at)
    BY <1>7 DEF ClickImport, ClickList, ClickRemove
  <2> QED BY <2>1, ClickCatalogKeeps DEF ClickCatalog, files
<1>8. ASSUME NEW a \in Windows, ClickChoose(a) PROVE IInv' /\ Named
  BY <1>8, ClickChooseKeeps DEF ClickChoose, files
<1> QED BY <1>1, <1>2, <1>3, <1>4, <1>5, <1>6, <1>7, <1>8 DEF Next

\* Whoever is past the lock holds it, and what it has made sure of stays, for any number of
\* windows on one store.
THEOREM AlwaysGood == Spec => []IInv
<1>1. Init => IInv  BY InitGood
<1>2. IInv /\ [Next]_vars => IInv'  BY StepKeeps
<1> QED BY <1>1, <1>2, PTL DEF Spec

LEMMA GoodIsTyped == IInv => TypeOK
<1> SUFFICES ASSUME IInv PROVE TypeOK  OBVIOUS
<1>1. Typed  BY DEF IInv
<1>2. Cardinality(lock) <= 1 /\ Cardinality(installed) <= 1
  <2>1. Cardinality({}) = 0  BY FS_EmptySet
  <2>2. Cardinality(lock) <= 1
    <3>1. CASE lock = {}  BY <3>1, <2>1
    <3>2. CASE \E h \in Holders : lock = {h}
      <4>1. PICK h : lock = {h}  BY <3>2
      <4>2. Cardinality({h}) = 1  BY FS_Singleton
      <4> QED BY <4>1, <4>2
    <3> QED BY <3>1, <3>2, <1>1 DEF Typed
  <2>3. Cardinality(installed) <= 1
    <3>1. CASE installed = {}  BY <3>1, <2>1
    <3>2. CASE \E p \in Packages : installed = {p}
      <4>1. PICK p : installed = {p}  BY <3>2
      <4>2. Cardinality({p}) = 1  BY FS_Singleton
      <4> QED BY <4>1, <4>2
    <3> QED BY <3>1, <3>2, <1>1 DEF Typed
  <2> QED BY <2>2, <2>3
<1>3. \A p \in Packages : DOMAIN p = DOMAIN Whole /\ p.bytes \in 0..Size
  BY DEF Packages, Whole
<1>4. \A p \in {stage} \cup installed : p \in Packages  BY <1>1 DEF Typed
<1>5. \A a \in Windows :
        /\ DOMAIN task[a] = DOMAIN NoTask /\ DOMAIN work[a] = DOMAIN NoWork
        /\ DOMAIN ui[a] = DOMAIN Panel(saved)
  BY <1>1 DEF Typed, Tasks, Works, Panels, NoTask, NoWork, Panel
<1> QED BY <1>1, <1>2, <1>3, <1>4, <1>5 DEF TypeOK, Typed

\* What a download has validated is still all there when it gets its name, whoever else uses
\* the store.
THEOREM ValidatedAlwaysStays == Spec => [](TypeOK /\ ValidatedStays)
<1>1. IInv => TypeOK /\ ValidatedStays  BY GoodIsTyped DEF IInv
<1> QED BY <1>1, AlwaysGood, PTL

\* A directory that appears under the model's name is whole, from a download or an import,
\* with any number of windows at work.
THEOREM WholePackagesAppear == Spec => OnlyWholeAppears
<1>1. IInv /\ [Next]_vars => [installed = {} => installed' \subseteq {Whole}]_vars
  BY StepKeeps
<1> QED BY <1>1, AlwaysGood, PTL DEF Spec, OnlyWholeAppears

-----------------------------------------------------------------------------
(* With one window. *)

\* The selection on the disk and the one in the panel stay clear of a removal that goes on,
\* when nobody else has a panel.
LEMMA AloneDownload ==
  ASSUME IInv, RemovalIsAlone, NEW a \in Windows, Windows = {a}, Download(a)
  PROVE  RemovalIsAlone' /\ (installed # {} => installed' = installed)
<1>1. CASE Renames(a)
  <2>1. work[a].at # "unlock"  BY <1>1, HolderIsAlone DEF Renames, At, Inside
  <2>2. UNCHANGED <<saved, work, ui>>  BY <1>1 DEF Renames, At
  <2>3. installed # {} => installed' = installed  BY <1>1, RenamesKeeps
  <2> QED BY <2>1, <2>2, <2>3 DEF RemovalIsAlone
<1>2. CASE ~Renames(a)
  <2>1. UNCHANGED <<saved, work, ui>>
    BY <1>2 DEF Download, At, TakesLock, Identifies, Pins, Prepares, Resumes, Requests, Answers,
       Reads, Receives, Hashes, Verifies, WritesReceipt, LooksForInstalled, Finishes, Stops
  <2>2. installed' = installed
    BY <1>2 DEF Download, files, TakesLock, Identifies, Pins, Prepares, Resumes, Requests,
       Answers, Reads, Receives, Hashes, Verifies, WritesReceipt, LooksForInstalled, Finishes,
       Stops
  <2> QED BY <2>1, <2>2 DEF RemovalIsAlone
<1> QED BY <1>1, <1>2

\* A removal asks for the saved selection before it goes on, and empties the place of the
\* package before it says that it has succeeded.
LEMMA AloneCatalog ==
  ASSUME IInv, RemovalIsAlone, NEW a \in Windows, Windows = {a}, Catalog(a)
  PROVE  RemovalIsAlone' /\ (saved /\ installed # {} => installed' = installed)
<1>1. Typed  BY DEF IInv
<1>2. CASE ImportChecks(a) \/ ImportCopies(a) \/ ImportRenames(a)
  BY <1>2, ImportKeeps DEF RemovalIsAlone, WorkMoves
<1>3. CASE RemoveChecks(a)
  <2>1. UNCHANGED <<saved, ui, installed>> /\ work[a].does = "remove" /\ work[a].at = "config"
    BY <1>3 DEF RemoveChecks, Doing, files
  <2>2. CASE saved
    <3>1. WorkMoves(a, "sent")  BY <1>1, <1>3, <2>2, RefusedEffect DEF RemoveChecks
    <3> QED BY <2>1, <3>1 DEF RemovalIsAlone, WorkMoves
  <2>3. CASE ~saved
    <3>1. WorkMoves(a, "cache") /\ work'[a].does = "remove"
      BY <1>1, <1>3, <2>1, <2>3, ContinuesEffect DEF RemoveChecks, WorkPlaces
    <3> QED BY <2>1, <2>3, <3>1 DEF RemovalIsAlone, WorkMoves
  <2> QED BY <2>2, <2>3
<1>4. CASE RemoveCache(a)
  <2>1. UNCHANGED <<saved, ui, installed>> /\ work[a].does = "remove" /\ work[a].at = "cache"
    BY <1>4 DEF RemoveCache, Doing
  <2>2. \/ WorkMoves(a, "delete") /\ work'[a].does = "remove"
        \/ WorkMoves(a, "sent")
    BY <1>1, <1>4, <2>1, ContinuesEffect, RefusedEffect DEF RemoveCache, WorkPlaces
  <2> QED BY <2>1, <2>2 DEF RemovalIsAlone, WorkMoves
<1>5. CASE RemoveDeletes(a)
  <2>1. UNCHANGED <<saved, ui>> /\ work[a].does = "remove" /\ work[a].at = "delete" /\ ~saved
    BY <1>5 DEF RemoveDeletes, Doing, RemovalIsAlone
  <2>2. \/ WorkMoves(a, "unlock") /\ work'[a].does = "remove" /\ installed' = {}
        \/ WorkMoves(a, "sent")
    BY <1>1, <1>5, <2>1, ContinuesEffect, RefusedEffect DEF RemoveDeletes, WorkPlaces
  <2> QED BY <2>1, <2>2 DEF RemovalIsAlone, WorkMoves
<1>6. CASE RemoveUnlocks(a)
  <2>1. UNCHANGED <<saved, ui, installed>> /\ WorkMoves(a, "list")
    BY <1>1, <1>6, ListingEffect DEF RemoveUnlocks, Doing
  <2> QED BY <2>1 DEF RemovalIsAlone, WorkMoves
<1>7. CASE Lists(a)
  <2>1. UNCHANGED <<saved, ui, installed>>  BY <1>7 DEF Lists, files
  <2>2. work'[a].at = "sent"
    BY <1>1, <1>7 DEF Lists, NoWork, Typed
  <2> QED BY <2>1, <2>2 DEF RemovalIsAlone
<1> QED BY <1>2, <1>3, <1>4, <1>5, <1>6, <1>7 DEF Catalog

\* The panel offers a removal for what its draft does not select, and while the catalog
\* thread works it offers neither another choice nor another operation.
LEMMA AlonePanel ==
  ASSUME IInv, RemovalIsAlone, NEW a \in Windows, Windows = {a},
         \/ Ends(a) \/ Frame(a) \/ ClickStart(a) \/ ClickCancel(a) \/ ClickImport(a)
         \/ ClickList(a) \/ ClickRemove(a) \/ ClickChoose(a) \/ ClickSave(a)
  PROVE  RemovalIsAlone' /\ installed' = installed
<1>1. Typed  BY DEF IInv
<1>2. installed' = installed
  BY DEF Ends, Frame, ClickStart, ClickCancel, ClickImport, ClickList, ClickRemove,
     ClickCatalog, ClickChoose, ClickSave, files
<1>3. CASE Ends(a)  BY <1>2, <1>3, EndsKeeps DEF RemovalIsAlone, WorkMoves
<1>4. CASE Frame(a)
  <2>1. UNCHANGED saved  BY <1>4 DEF Frame
  <2> QED BY <1>2, <1>4, <2>1, FrameKeeps DEF RemovalIsAlone, WorkMoves
<1>5. CASE ClickStart(a) \/ ClickCancel(a)
  <2>1. UNCHANGED <<saved, work>> /\ Clicks(a)  BY <1>5 DEF ClickStart, ClickCancel
  <2> QED BY <1>1, <1>2, <2>1, ClicksEffect DEF RemovalIsAlone
<1>6. CASE ClickSave(a)
  <2>1. saved' = ui[a].draft /\ UNCHANGED work /\ Clicks(a)  BY <1>6 DEF ClickSave
  <2> QED BY <1>1, <1>2, <2>1, ClicksEffect DEF RemovalIsAlone
<1>7. CASE ClickImport(a)
  <2>1. UNCHANGED saved /\ WorkMoves(a, "check")
    BY <1>7, ClickCatalogKeeps DEF ClickImport, ClickCatalog
  <2> QED BY <1>2, <2>1 DEF RemovalIsAlone, WorkMoves
<1>8. CASE ClickList(a)
  <2>1. UNCHANGED saved /\ WorkMoves(a, "list")
    BY <1>8, ClickCatalogKeeps DEF ClickList, ClickCatalog
  <2> QED BY <1>2, <2>1 DEF RemovalIsAlone, WorkMoves
<1>9. CASE ClickRemove(a)
  <2>1. /\ UNCHANGED saved /\ WorkMoves(a, "config") /\ work'[a].does = "remove"
        /\ ui'[a].draft = ui[a].draft /\ ~ui[a].draft
    BY <1>9, ClickCatalogKeeps DEF ClickRemove, ClickCatalog
  <2> QED BY <1>2, <2>1 DEF RemovalIsAlone, WorkMoves
<1>10. CASE ClickChoose(a)
  <2>1. UNCHANGED <<saved, work>> /\ work[a].at = "idle"
    BY <1>10, ClickChooseKeeps DEF ClickChoose
  <2> QED BY <1>2, <2>1 DEF RemovalIsAlone
<1> QED BY <1>2, <1>3, <1>4, <1>5, <1>6, <1>7, <1>8, <1>9, <1>10

LEMMA AloneSteps ==
  ASSUME IInv, RemovalIsAlone, NEW only, Windows = {only}, [Next]_vars
  PROVE  RemovalIsAlone' /\ (saved /\ installed # {} => installed' = installed)
<1>1. CASE UNCHANGED vars
  <2>1. UNCHANGED <<installed, saved, work, ui>>  BY <1>1 DEF vars
  <2> QED BY <2>1 DEF RemovalIsAlone
<1>2. CASE Next
  <2>1. PICK a \in Windows :
          \/ Download(a) \/ Ends(a) \/ Catalog(a)
          \/ Frame(a) \/ ClickStart(a) \/ ClickCancel(a) \/ ClickImport(a)
          \/ ClickList(a) \/ ClickRemove(a) \/ ClickChoose(a) \/ ClickSave(a)
    BY <1>2 DEF Next
  <2>2. Windows = {a}  BY <2>1
  <2> QED BY <2>1, <2>2, AloneDownload, AloneCatalog, AlonePanel
<1> QED BY <1>1, <1>2

LEMMA AloneAlways ==
  ASSUME NEW only, Windows = {only}
  PROVE  Spec => [](IInv /\ RemovalIsAlone)
<1>1. Init => RemovalIsAlone
  <2>1. Init => \A a \in Windows : work[a].at = "list"
    <3>1. Listing.at = "list"  BY KnownWorks
    <3> QED BY <3>1 DEF Init
  <2> QED BY <2>1 DEF RemovalIsAlone
<1>2. IInv /\ RemovalIsAlone /\ [Next]_vars => RemovalIsAlone'  BY AloneSteps
<1> QED BY <1>1, <1>2, AlwaysGood, PTL DEF Spec

\* With one window: a removal that succeeds leaves neither the package nor anything to resume
\* from, and what a download has validated stays, whatever the two threads do meanwhile.
THEOREM WorkIsAlwaysExclusive ==
  ASSUME NEW only, Windows = {only}
  PROVE  Spec => []WorkIsExclusive
<1>1. IInv /\ RemovalIsAlone => WorkIsExclusive
  BY GoodIsTyped DEF IInv, WorkspaceStaysClear, RemovalIsAlone, RemovedIsGone, WorkIsExclusive
<1> QED BY <1>1, AloneAlways, PTL

\* With one window: the model's directory comes whole and stays while it is selected.
THEOREM StoreIsAlwaysSound ==
  ASSUME NEW only, Windows = {only}
  PROVE  Spec => StoreIsSound
<1>1. IInv /\ RemovalIsAlone /\ [Next]_vars
        => [saved /\ installed # {} => installed' = installed]_vars
  BY AloneSteps
<1>2. Spec => SelectedStays  BY <1>1, AloneAlways, PTL DEF Spec, SelectedStays
<1> QED BY <1>2, WholePackagesAppear, PTL DEF StoreIsSound
=============================================================================
