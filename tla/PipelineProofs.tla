---------------------------- MODULE PipelineProofs ----------------------------
(***************************************************************************)
(* Theorems about ModelPipeline, for every set of hosts, configurations,   *)
(* requests and events, with and without loss.                             *)
(*                                                                         *)
(* The service and the hosts have an inductive invariant each.  That of    *)
(* the service, GoodService, is one of its worker: what waits, what is     *)
(* finished and what still runs belong to the owner and to the             *)
(* configuration in force, unless the end of the job throws it away.       *)
(***************************************************************************)
EXTENDS ModelPipeline, TLAPS

WorkerFields ==
  {"config", "pending", "result", "job", "paused", "reset", "phase", "loaded", "prepared"}
JobFields == {"requests", "config", "stale", "cancelled", "stage"}
ServiceFields == {"up", "owner", "userPaused", "pressure", "worker"}

\* A job that has not been overtaken by a change of the configuration runs under the
\* present one, and one whose answer may be kept works for the owner.
JobFits(j, config, owner) ==
  /\ DOMAIN j = JobFields
  /\ ~j.stale => j.config = config
  /\ ~Discards(j) => \A r \in j.requests : r[1] = owner

\* Nothing waits, nothing can be fetched, and what runs is thrown away.
Quiet(w) == w.pending = {} /\ w.result = {} /\ \A j \in w.job : Discards(j)

GoodWorker(w, owner) ==
  /\ DOMAIN w = WorkerFields
  /\ \A r \in w.pending : r[1] = owner
  /\ \A done \in w.result : done.request[1] = owner /\ done.config = w.config
  /\ \A j \in w.job : JobFits(j, w.config, owner)
  /\ Stopped(w) => Quiet(w)

GoodService(sv) ==
  /\ DOMAIN sv = ServiceFields /\ sv.userPaused \in BOOLEAN /\ sv.pressure \in BOOLEAN
  /\ \A v, w \in sv.worker : v = w
  /\ \A w \in sv.worker :
       GoodWorker(w, sv.owner) /\ w.paused = (sv.userPaused \/ sv.pressure)

USE DEF WorkerFields, JobFields, ServiceFields

-----------------------------------------------------------------------------
(* The worker under its commands. *)

\* A worker that is emptied is a good worker of any owner.
LEMMA InvalidatedGood ==
  ASSUME NEW w, NEW before, NEW owner, GoodWorker(w, before)
  PROVE  LET y == Invalidated(w)
         IN /\ GoodWorker(y, owner) /\ Quiet(y)
            /\ y.config = w.config /\ y.paused = w.paused
<1> DEFINE y == Invalidated(w)
<1>1. /\ DOMAIN y = WorkerFields /\ y.pending = {} /\ y.result = {}
      /\ y.job = Cancelled(w.job) /\ y.config = w.config /\ y.paused = w.paused
  BY DEF Invalidated, GoodWorker
<1>2. \A x \in Cancelled(w.job) : JobFits(x, w.config, owner) /\ Discards(x)
  BY DEF GoodWorker, JobFits, Cancelled, Discards
<1> QED BY <1>1, <1>2 DEF GoodWorker, Quiet

\* So is one that enters a new epoch, whatever the change that starts it.
LEMMA NextEpochGood ==
  ASSUME NEW w, NEW owner, DOMAIN w = WorkerFields, \A j \in w.job : DOMAIN j = JobFields
  PROVE  LET y == NextEpoch(w)
         IN /\ GoodWorker(y, owner) /\ Quiet(y)
            /\ y.config = w.config /\ y.paused = w.paused
<1> DEFINE z == Invalidated(w)
           y == NextEpoch(w)
<1>1. /\ DOMAIN z = WorkerFields /\ z.pending = {} /\ z.result = {}
      /\ z.job = Cancelled(w.job) /\ z.config = w.config /\ z.paused = w.paused
  BY DEF Invalidated
<1>2. \A j \in z.job : DOMAIN j = JobFields
  BY <1>1 DEF Cancelled
<1> HIDE DEF z
<1>3. /\ DOMAIN y = WorkerFields /\ y.pending = {} /\ y.result = {}
      /\ y.job = {[j EXCEPT !.stale = TRUE] : j \in z.job}
      /\ y.config = w.config /\ y.paused = w.paused
  BY <1>1 DEF NextEpoch, z
<1>4. \A x \in y.job : JobFits(x, w.config, owner) /\ Discards(x)
  BY <1>2, <1>3 DEF JobFits, Discards
<1> QED BY <1>3, <1>4 DEF GoodWorker, Quiet

LEMMA ConfiguredGood ==
  ASSUME NEW w, NEW owner, NEW config, GoodWorker(w, owner)
  PROVE  LET y == Configured(w, config)
         IN GoodWorker(y, owner) /\ y.config = config /\ y.paused = w.paused
<1> DEFINE z == [w EXCEPT !.config = config, !.phase = "Idle"]
<1>1. /\ DOMAIN z = WorkerFields /\ z.config = config /\ z.paused = w.paused
      /\ \A j \in z.job : DOMAIN j = JobFields
  BY DEF GoodWorker, JobFits
<1> HIDE DEF z
<1>2. /\ GoodWorker(NextEpoch(z), owner)
      /\ NextEpoch(z).config = config /\ NextEpoch(z).paused = w.paused
  BY <1>1, NextEpochGood
<1>3. Configured(w, config) = IF w.config = config THEN w ELSE NextEpoch(z)
  BY DEF Configured, z
<1> QED BY <1>2, <1>3

LEMMA PausedGood ==
  ASSUME NEW w, NEW owner, NEW paused, GoodWorker(w, owner)
  PROVE  GoodWorker(Paused(w, paused), owner) /\ Paused(w, paused).paused = paused
<1> DEFINE z == [w EXCEPT !.paused = paused]
<1>1. /\ DOMAIN z = WorkerFields /\ z.paused = paused
      /\ \A j \in z.job : DOMAIN j = JobFields
  BY DEF GoodWorker, JobFits
<1> HIDE DEF z
<1>2. GoodWorker(NextEpoch(z), owner) /\ NextEpoch(z).paused = paused
  BY <1>1, NextEpochGood
<1>3. Paused(w, paused) = IF w.paused = paused THEN w ELSE NextEpoch(z)
  BY DEF Paused, z
<1> QED BY <1>2, <1>3

\* A worker that accepts requests takes one of its owner.
LEMMA SubmittedGood ==
  ASSUME NEW w, NEW owner, NEW r, GoodWorker(w, owner), Accepts(w), r[1] = owner
  PROVE  GoodWorker(Submitted(w, r), owner) /\ Submitted(w, r).paused = w.paused
<1> DEFINE y == [w EXCEPT !.pending = {r}, !.result = {}, !.job = Cancelled(@)]
<1>1. /\ DOMAIN y = WorkerFields /\ y.pending = {r} /\ y.result = {}
      /\ y.job = Cancelled(w.job) /\ y.config = w.config /\ y.paused = w.paused
  BY DEF GoodWorker
<1>2. \A x \in Cancelled(w.job) : JobFits(x, w.config, owner)
  BY DEF GoodWorker, JobFits, Cancelled, Discards
<1> HIDE DEF y
<1>3. ~Stopped(y)
  BY <1>1 DEF Accepts, Stopped
<1>4. GoodWorker(y, owner)
  BY <1>1, <1>2, <1>3 DEF GoodWorker
<1>5. Submitted(w, r) = IF r \in w.pending THEN w ELSE y
  BY DEF Submitted, y
<1> QED BY <1>1, <1>4, <1>5

-----------------------------------------------------------------------------
(* The worker's own steps.  None changes the configuration or the pause. *)

Steps(w, y, owner) == GoodWorker(y, owner) /\ y.paused = w.paused

\* The model, the phase and the preparation are nobody's request.
LEMMA ModelStepGood ==
  ASSUME NEW w, NEW owner, GoodWorker(w, owner)
  PROVE  Steps(w, Unloaded(w), owner) /\ Steps(w, WasReset(w), owner)
<1>1. Steps(w, Unloaded(w), owner)
  BY DEF Steps, Unloaded, GoodWorker, Stopped, Quiet
<1>2. Steps(w, WasReset(w), owner)
  BY DEF Steps, WasReset, GoodWorker, Stopped, Quiet
<1> QED BY <1>1, <1>2

\* A new job runs under the configuration in force, for the owner.
LEMMA NewJobFits ==
  ASSUME NEW w, NEW owner, NEW requests, \A r \in requests : r[1] = owner
  PROVE  JobFits(NewJob(w, requests), w.config, owner)
  BY DEF JobFits, NewJob

LEMMA PickedGood ==
  ASSUME NEW w, NEW owner, GoodWorker(w, owner), CanPick(w)
  PROVE  Steps(w, Picked(w), owner)
<1> DEFINE j == NewJob(w, w.pending)
           y == Picked(w)
<1>1. JobFits(j, w.config, owner)
  BY NewJobFits DEF GoodWorker
<1> HIDE DEF j
<1>2. /\ DOMAIN y = WorkerFields /\ y.pending = {} /\ y.job = {j} /\ y.result = w.result
      /\ y.config = w.config /\ y.paused = w.paused
  BY DEF Picked, GoodWorker, j
<1>3. ~Stopped(y)
  BY <1>2 DEF CanPick, Stopped
<1> QED BY <1>1, <1>2, <1>3 DEF Steps, GoodWorker

LEMMA PreparingGood ==
  ASSUME NEW w, NEW owner, GoodWorker(w, owner), CanPrepare(w)
  PROVE  Steps(w, Preparing(w), owner)
<1> DEFINE j == NewJob(w, {})
           y == Preparing(w)
<1>1. JobFits(j, w.config, owner)
  BY NewJobFits
<1> HIDE DEF j
<1>2. /\ DOMAIN y = WorkerFields /\ y.pending = w.pending /\ y.job = {j}
      /\ y.result = w.result /\ y.config = w.config /\ y.paused = w.paused
  BY DEF Preparing, GoodWorker, j
<1>3. ~Stopped(y)
  BY <1>2 DEF CanPrepare, Stopped
<1> QED BY <1>1, <1>2, <1>3 DEF Steps, GoodWorker

\* A job moves on; neither the worker's phase nor its model matters.
LEMMA StageGood ==
  ASSUME NEW w, NEW owner, NEW stage, GoodWorker(w, owner)
  PROVE  Steps(w, Stage(w, stage), owner)
<1> DEFINE y == Stage(w, stage)
<1>1. /\ DOMAIN y = WorkerFields /\ y.pending = w.pending /\ y.result = w.result
      /\ y.job = {[j EXCEPT !.stage = stage] : j \in w.job}
      /\ y.config = w.config /\ y.paused = w.paused
  BY DEF Stage, GoodWorker
<1>2. \A x \in y.job : \E j \in w.job :
        /\ DOMAIN j = JobFields /\ DOMAIN x = JobFields
        /\ x.stale = j.stale /\ x.cancelled = j.cancelled /\ x.config = j.config
        /\ x.requests = j.requests
  BY <1>1 DEF GoodWorker, JobFits
<1>3. \A x \in y.job : JobFits(x, w.config, owner)
  BY <1>2 DEF GoodWorker, JobFits, Discards
<1>4. Stopped(w) => \A x \in y.job : Discards(x)
  BY <1>2 DEF GoodWorker, Quiet, Discards
<1>5. Stopped(y) => Stopped(w)
  BY <1>1 DEF Stopped
<1> QED BY <1>1, <1>3, <1>4, <1>5 DEF Steps, GoodWorker, Quiet

LEMMA StartGood ==
  ASSUME NEW w, NEW owner, GoodWorker(w, owner)
  PROVE  Steps(w, StartJob(w), owner)
<1> DEFINE z == [w EXCEPT !.phase = "Loading"]
<1>1. GoodWorker(z, owner) /\ z.paused = w.paused
  BY DEF GoodWorker, Stopped, Quiet
<1> HIDE DEF z
<1>2. Steps(z, Stage(z, "load"), owner) /\ Steps(w, Stage(w, "score"), owner)
  BY <1>1, StageGood
<1>3. StartJob(w) = Stage(w, "score") \/ StartJob(w) = Stage(z, "load")
  BY DEF StartJob, z
<1> QED BY <1>1, <1>2, <1>3 DEF Steps

LEMMA LoadGood ==
  ASSUME NEW w, NEW owner, NEW loads, GoodWorker(w, owner)
  PROVE  Steps(w, EndLoad(w, loads), owner)
<1> DEFINE z == [w EXCEPT !.loaded = {Only(w.job).config}]
<1>1. GoodWorker(z, owner) /\ z.paused = w.paused
  BY DEF GoodWorker, Stopped, Quiet
<1> HIDE DEF z
<1>2. Steps(z, Stage(z, "score"), owner) /\ Steps(w, Stage(w, "failed"), owner)
  BY <1>1, StageGood
<1>3. EndLoad(w, loads) = Stage(z, "score") \/ EndLoad(w, loads) = Stage(w, "failed")
  BY DEF EndLoad, z
<1> QED BY <1>1, <1>2, <1>3 DEF Steps

\* What a job brings back is kept only if nothing has changed since it started.
LEMMA EndGood ==
  ASSUME NEW w, NEW owner, NEW error, NEW late, GoodWorker(w, owner), w.job # {}
  PROVE  Steps(w, EndJob(w, error, late), owner)
<1> DEFINE j == Only(w.job)
           results == {[request |-> r, config |-> j.config] : r \in j.requests}
           done == [w EXCEPT !.job = {}, !.phase = EndPhase(w, j, error)]
           kept == [done EXCEPT !.result = results]
<1>1. j \in w.job
  BY DEF Only
<1> HIDE DEF j
<1>2. /\ DOMAIN done = WorkerFields /\ done.pending = w.pending /\ done.result = w.result
      /\ done.job = {} /\ done.config = w.config /\ done.paused = w.paused
  BY DEF GoodWorker
<1> HIDE DEF done, results
<1>3. Steps(w, done, owner)
  BY <1>2 DEF Steps, GoodWorker, Stopped, Quiet
<1>4. ASSUME ~Discards(j) PROVE Steps(w, kept, owner)
<2>1. /\ DOMAIN kept = WorkerFields /\ kept.pending = w.pending /\ kept.result = results
      /\ kept.job = {} /\ kept.config = w.config /\ kept.paused = w.paused
  BY <1>2
<2>2. j.config = w.config /\ \A r \in j.requests : r[1] = owner
  BY <1>1, <1>4 DEF GoodWorker, JobFits, Discards
<2>3. \A d \in results : d.request[1] = owner /\ d.config = w.config
  BY <2>2 DEF results
<2>4. ~Stopped(kept)
  BY <1>1, <1>4, <2>1 DEF GoodWorker, Quiet, Stopped
<2> HIDE DEF kept
<2> QED BY <2>1, <2>3, <2>4 DEF Steps, GoodWorker
<1>5. EndJob(w, error, late) = done \/ (~Discards(j) /\ EndJob(w, error, late) = kept)
  BY DEF EndJob, j, done, results
<1> QED BY <1>3, <1>4, <1>5

-----------------------------------------------------------------------------
(* The service under its commands.  An operator of the service makes a worker *)
(* of each it has, or one of the one it has.                                  *)

LEMMA NewServiceGood == ASSUME NEW up PROVE GoodService(NewService(up))
  BY DEF NewService, GoodService

\* The one worker there is.
LEMMA OnlyWorker ==
  ASSUME NEW sv, GoodService(sv), sv.worker # {}
  PROVE  /\ Only(sv.worker) \in sv.worker
         /\ GoodWorker(Only(sv.worker), sv.owner)
         /\ Only(sv.worker).paused = (sv.userPaused \/ sv.pressure)
  BY DEF Only, GoodService

LEMMA PressureGood ==
  ASSUME NEW sv, NEW low \in BOOLEAN, GoodService(sv)
  PROVE  GoodService(UnderPressure(sv, low))
<1> DEFINE y == UnderPressure(sv, low)
<1>1. /\ DOMAIN y = ServiceFields /\ y.pressure = low /\ y.userPaused = sv.userPaused
      /\ y.owner = sv.owner /\ y.worker = {Paused(w, low \/ sv.userPaused) : w \in sv.worker}
  BY DEF UnderPressure, GoodService
<1>2. \A w \in sv.worker :
        /\ GoodWorker(Paused(w, low \/ sv.userPaused), sv.owner)
        /\ Paused(w, low \/ sv.userPaused).paused = (low \/ sv.userPaused)
  BY PausedGood DEF GoodService
<1>3. (low \/ sv.userPaused) = (sv.userPaused \/ low)
  OBVIOUS
<1> HIDE DEF y
<1>4. GoodService(y)
  BY <1>1, <1>2, <1>3 DEF GoodService
<1> QED BY <1>4 DEF y

LEMMA PrepareGood ==
  ASSUME NEW sv, NEW config, GoodService(sv)
  PROVE  GoodService(Prepare(sv, config)) /\ Prepare(sv, config).owner = sv.owner
<1> DEFINE w == IF sv.worker = {} THEN NewWorker(config)
                ELSE Configured(Only(sv.worker), config)
           y == Prepare(sv, config)
<1>1. GoodWorker(NewWorker(config), sv.owner)
  BY DEF NewWorker, GoodWorker, Quiet
<1>2. sv.worker # {} => GoodWorker(Configured(Only(sv.worker), config), sv.owner)
  BY OnlyWorker, ConfiguredGood
<1>3. GoodWorker(w, sv.owner)
  BY <1>1, <1>2
<1> HIDE DEF w
<1>4. /\ DOMAIN y = ServiceFields /\ y.pressure = sv.pressure /\ y.userPaused = FALSE
      /\ y.owner = sv.owner /\ y.worker = {Paused(w, sv.pressure)}
  BY DEF Prepare, GoodService, w
<1>5. GoodWorker(Paused(w, sv.pressure), sv.owner) /\ Paused(w, sv.pressure).paused = sv.pressure
  BY <1>3, PausedGood
<1>6. sv.pressure \in BOOLEAN /\ sv.pressure = (FALSE \/ sv.pressure)
  BY DEF GoodService
<1> HIDE DEF y
<1>7. GoodService(y)
  BY <1>4, <1>5, <1>6 DEF GoodService
<1> QED BY <1>4, <1>7 DEF y

\* A change of the owner withdraws the work of the last one.
LEMMA OwnedGood ==
  ASSUME NEW sv, NEW p, GoodService(sv)
  PROVE  LET y == Owned(sv, p)
         IN /\ GoodService(y) /\ y.owner = p
            /\ Accepted(y) = Accepted(sv)
<1> DEFINE y == Owned(sv, p)
<1>1. CASE sv.owner = p
  BY <1>1 DEF Owned
<1>2. CASE sv.owner # p
<2>1. /\ DOMAIN y = ServiceFields /\ y.pressure = sv.pressure
      /\ y.userPaused = sv.userPaused /\ y.owner = p
      /\ y.worker = {Invalidated(w) : w \in sv.worker}
  BY <1>2 DEF Owned, GoodService
<2>2. \A w \in sv.worker :
        /\ GoodWorker(Invalidated(w), p)
        /\ Invalidated(w).paused = w.paused /\ Invalidated(w).config = w.config
  BY InvalidatedGood DEF GoodService
<2> HIDE DEF y
<2>3. GoodService(y)
  BY <2>1, <2>2 DEF GoodService
<2>4. Accepted(y) = Accepted(sv)
  BY <2>1, <2>2 DEF Accepted, Accepts
<2> QED BY <2>1, <2>3, <2>4 DEF y
<1> QED BY <1>1, <1>2

LEMMA ConfigureGood ==
  ASSUME NEW sv, NEW p, NEW config, GoodService(sv)
  PROVE  GoodService(Configure(sv, p, config))
  BY OwnedGood, PrepareGood DEF Configure

LEMMA PauseGood ==
  ASSUME NEW sv, NEW p, NEW paused \in BOOLEAN, GoodService(sv)
  PROVE  GoodService(Pause(sv, p, paused))
<1> DEFINE y == [sv EXCEPT !.userPaused = paused,
                           !.worker = {Paused(w, paused \/ sv.pressure) : w \in @}]
<1>1. /\ DOMAIN y = ServiceFields /\ y.pressure = sv.pressure /\ y.userPaused = paused
      /\ y.owner = sv.owner
      /\ y.worker = {Paused(w, paused \/ sv.pressure) : w \in sv.worker}
  BY DEF GoodService
<1>2. \A w \in sv.worker :
        /\ GoodWorker(Paused(w, paused \/ sv.pressure), sv.owner)
        /\ Paused(w, paused \/ sv.pressure).paused = (paused \/ sv.pressure)
  BY PausedGood DEF GoodService
<1> HIDE DEF y
<1>3. GoodService(y)
  BY <1>1, <1>2 DEF GoodService
<1>4. Pause(sv, p, paused) = sv \/ Pause(sv, p, paused) = y
  BY DEF Pause, y
<1> QED BY <1>3, <1>4

LEMMA InvalidateGood ==
  ASSUME NEW sv, NEW p, GoodService(sv)
  PROVE  GoodService(Invalidate(sv, p))
<1> DEFINE y == [sv EXCEPT !.worker = {Invalidated(w) : w \in @}]
<1>1. /\ DOMAIN y = ServiceFields /\ y.pressure = sv.pressure
      /\ y.userPaused = sv.userPaused /\ y.owner = sv.owner
      /\ y.worker = {Invalidated(w) : w \in sv.worker}
  BY DEF GoodService
<1>2. \A w \in sv.worker :
        GoodWorker(Invalidated(w), sv.owner) /\ Invalidated(w).paused = w.paused
  BY InvalidatedGood DEF GoodService
<1> HIDE DEF y
<1>3. GoodService(y)
  BY <1>1, <1>2 DEF GoodService
<1>4. Invalidate(sv, p) = sv \/ Invalidate(sv, p) = y
  BY DEF Invalidate, y
<1> QED BY <1>3, <1>4

\* The request of a process is its own, and is taken in its name.
LEMMA SubmitGood ==
  ASSUME NEW sv, NEW p, NEW k, GoodService(sv)
  PROVE  GoodService(Submit(sv, p, <<p, k>>))
<1> DEFINE r == <<p, k>>
           own == Owned(sv, p)
           y == [own EXCEPT !.worker = {Submitted(w, r) : w \in @}]
<1>1. GoodService(own) /\ own.owner = p /\ Accepted(own) = Accepted(sv)
  BY OwnedGood
<1> HIDE DEF own
<1>2. ASSUME Accepted(sv) PROVE GoodService(y)
<2>1. /\ DOMAIN y = ServiceFields /\ y.pressure = own.pressure
      /\ y.userPaused = own.userPaused /\ y.owner = p
      /\ y.worker = {Submitted(w, r) : w \in own.worker}
  BY <1>1 DEF GoodService
<2>2. \A w \in own.worker : Accepts(w)
  BY <1>1, <1>2 DEF Accepted, GoodService
<2>3. r[1] = p
  OBVIOUS
<2>4. \A w \in own.worker :
        GoodWorker(Submitted(w, r), p) /\ Submitted(w, r).paused = w.paused
  BY <1>1, <2>2, <2>3, SubmittedGood DEF GoodService
<2> HIDE DEF y, r
<2> QED BY <1>1, <2>1, <2>4 DEF GoodService
<1>3. Submit(sv, p, r) = own \/ (Accepted(sv) /\ Submit(sv, p, r) = y)
  BY DEF Submit, own
<1> QED BY <1>1, <1>2, <1>3

LEMMA PolledGood ==
  ASSUME NEW sv, NEW p, NEW key, GoodService(sv)
  PROVE  GoodService(Polled(sv, p, key))
<1> DEFINE y == [sv EXCEPT !.worker = {[w EXCEPT !.result = {}] : w \in @}]
<1>1. /\ DOMAIN y = ServiceFields /\ y.pressure = sv.pressure
      /\ y.userPaused = sv.userPaused /\ y.owner = sv.owner
      /\ y.worker = {[w EXCEPT !.result = {}] : w \in sv.worker}
  BY DEF GoodService
<1>2. ASSUME NEW w \in sv.worker
      PROVE  /\ GoodWorker([w EXCEPT !.result = {}], sv.owner)
             /\ [w EXCEPT !.result = {}].paused = w.paused
  BY DEF GoodService, GoodWorker, Stopped, Quiet
<1> HIDE DEF y
<1>3. GoodService(y)
  BY <1>1, <1>2 DEF GoodService
<1>4. Polled(sv, p, key) = sv \/ Polled(sv, p, key) = y
  BY DEF Polled, y
<1> QED BY <1>3, <1>4

-----------------------------------------------------------------------------
(* The service's invariant. *)

ServiceInv == GoodService(service)

\* A step of the worker's thread that keeps the worker good keeps the service good.
LEMMA WorksGood ==
  ASSUME ServiceInv, NEW y, Works(y), Steps(TheWorker, y, service.owner)
  PROVE  ServiceInv'
<1>1. /\ DOMAIN service' = ServiceFields /\ service'.owner = service.owner
      /\ service'.userPaused = service.userPaused /\ service'.pressure = service.pressure
      /\ service'.worker = {y}
  BY DEF ServiceInv, GoodService, Works
<1>2. TheWorker.paused = (service.userPaused \/ service.pressure)
  BY OnlyWorker DEF ServiceInv, Works, TheWorker
<1> QED BY <1>1, <1>2 DEF ServiceInv, GoodService, Steps

\* Every step of the worker's thread.
LEMMA WorkerThreadGood == ServiceInv /\ WorkerThread => ServiceInv'
<1> SUFFICES ASSUME ServiceInv, WorkerThread PROVE ServiceInv'
  OBVIOUS
<1> DEFINE w == TheWorker
           o == service.owner
<1>1. service.worker # {} => GoodWorker(w, o)
  BY OnlyWorker DEF ServiceInv, TheWorker
<1>2. CASE Unload
  BY <1>1, <1>2, ModelStepGood, WorksGood DEF Unload, HasWorker
<1>3. CASE ResetModel
  BY <1>1, <1>3, ModelStepGood, WorksGood DEF ResetModel, HasWorker
<1>4. CASE Pick
  BY <1>1, <1>4, PickedGood, WorksGood DEF Pick, HasWorker
<1>5. CASE PrepareModel
  BY <1>1, <1>5, PreparingGood, WorksGood DEF PrepareModel, HasWorker
<1>6. CASE Idle
  BY <1>1, <1>6, ModelStepGood, WorksGood DEF Idle, HasWorker
<1>7. CASE Start
  BY <1>1, <1>7, StartGood, WorksGood DEF Start, HasWorker
<1>8. CASE Load
  BY <1>1, <1>8, LoadGood, WorksGood DEF Load, HasWorker
<1>9. CASE End
<2>1. w.job # {}
  BY <1>9 DEF End, AtStage
<2> QED BY <1>1, <1>9, <2>1, EndGood, WorksGood DEF End, HasWorker
<1> QED BY <1>2, <1>3, <1>4, <1>5, <1>6, <1>7, <1>8, <1>9 DEF WorkerThread

\* A call that keeps the service good does so also when its answer is lost.
LEMMA ExchangeGood ==
  ASSUME ServiceInv, NEW next, GoodService(next), Replied(next) \/ Fails(next)
  PROVE  ServiceInv'
  BY DEF ServiceInv, Replied, Fails

LEMMA SetUpGood ==
  ASSUME ServiceInv, NEW p PROVE GoodService(SetUp(p))
  BY PrepareGood, ConfigureGood DEF SetUp, ServiceInv

\* Every step of a host's IPC thread.
LEMMA ThreadGood ==
  ASSUME ServiceInv, NEW p \in Pids, Thread(p) PROVE ServiceInv'
<1>1. CASE Take(p) \/ Reactivate(p) \/ GiveUp(p) \/ Publish(p)
  BY <1>1 DEF Take, Reactivate, GiveUp, Publish, ServiceInv
<1>2. CASE SendPause(p)
  BY <1>2, PauseGood, ExchangeGood DEF SendPause, ServiceInv
<1>3. CASE SendInvalidate(p)
  BY <1>3, InvalidateGood, ExchangeGood DEF SendInvalidate, ServiceInv
<1>4. CASE SendConfigure(p)
  BY <1>4, SetUpGood, ExchangeGood DEF SendConfigure
<1>5. CASE AwaitStart(p)
  BY <1>5, SetUpGood, ExchangeGood DEF AwaitStart
<1>6. CASE Resume(p)
  BY <1>6, PauseGood, ExchangeGood DEF Resume, ServiceInv
<1>7. CASE SendSubmit(p)
  BY <1>7, SubmitGood, ExchangeGood DEF SendSubmit, Request, ServiceInv
<1>8. CASE Poll(p)
  BY <1>8, PolledGood, ExchangeGood DEF Poll, ServiceInv
<1> QED BY <1>1, <1>2, <1>3, <1>4, <1>5, <1>6, <1>7, <1>8 DEF Thread

\* Every step of the system keeps the service good.
LEMMA ServiceStep == ServiceInv /\ [Next]_vars => ServiceInv'
<1> SUFFICES ASSUME ServiceInv, [Next]_vars PROVE ServiceInv'
  OBVIOUS
<1>1. CASE UNCHANGED vars
  BY <1>1 DEF vars, ServiceInv
<1>2. ASSUME NEW p \in Pids,
             Ask(p) \/ Pump(p) \/ Expire(p) \/ Clear(p) \/ Deactivate(p)
             \/ \E config \in Configs : Reload(p, config)
      PROVE  ServiceInv'
  BY <1>2 DEF Ask, Pump, Expire, Clear, Deactivate, Reload, ServiceInv
<1>3. ASSUME NEW p \in Pids, Thread(p) PROVE ServiceInv'
  BY <1>3, ThreadGood
<1>4. CASE Boot \/ Die \/ Retire
  BY <1>4, NewServiceGood DEF Boot, Die, Retire, ServiceInv
<1>5. CASE WorkerThread
  BY <1>5, WorkerThreadGood
<1>6. ASSUME NEW low \in BOOLEAN, MemorySignal(low) PROVE ServiceInv'
  BY <1>6, PressureGood DEF MemorySignal, ServiceInv
<1>7. ASSUME NEW config \in Configs, Save(config) PROVE ServiceInv'
  BY <1>7, PrepareGood, NewServiceGood DEF Save, ServiceInv
<1> QED BY <1>1, <1>2, <1>3, <1>4, <1>5, <1>6, <1>7 DEF Next

LEMMA SpecService == Spec => []ServiceInv
<1>1. Init => ServiceInv
  BY NewServiceGood DEF Init, ServiceInv
<1> QED BY <1>1, ServiceStep, PTL DEF Spec

\* What the worker holds, finishes or may still answer belongs to the process it serves,
\* for any number of hosts taking turns: no text or prediction crosses between them.
THEOREM WorkStaysWithItsOwner == Spec => []WorkIsOwners
<1>1. ServiceInv => WorkIsOwners
  BY DEF ServiceInv, GoodService, GoodWorker, JobFits, WorkIsOwners
<1> QED BY SpecService, <1>1, PTL

\* A paused worker, or one without a model, holds nothing and throws away what it runs.
THEOREM PausesAreQuiet == Spec => []PausedIsQuiet
<1>1. ServiceInv => PausedIsQuiet
  BY DEF ServiceInv, GoodService, GoodWorker, Quiet, PausedIsQuiet
<1> QED BY SpecService, <1>1, PTL

\* Whatever the configuration did while a request was computed, an answer that can be
\* fetched was computed under the present one.
THEOREM AnswersStayCurrent == Spec => []AnswersAreCurrent
<1>1. ServiceInv => AnswersAreCurrent
  BY DEF ServiceInv, GoodService, GoodWorker, AnswersAreCurrent
<1> QED BY SpecService, <1>1, PTL

\* The worker is paused exactly while the user or the system wants it.
THEOREM PausesAreWanted == Spec => []PauseIsWanted
<1>1. ServiceInv => PauseIsWanted
  BY DEF ServiceInv, GoodService, PauseIsWanted
<1> QED BY SpecService, <1>1, PTL

\* The four together, as the runs check them.
THEOREM ServiceStaysSafe == Spec => []ServiceIsSafe
<1>1. WorkIsOwners /\ PausedIsQuiet /\ AnswersAreCurrent /\ PauseIsWanted => ServiceIsSafe
  BY DEF ServiceIsSafe
<1> QED
  BY WorkStaysWithItsOwner, PausesAreQuiet, AnswersStayCurrent, PausesAreWanted, <1>1, PTL

-----------------------------------------------------------------------------
(* The hosts.  Whatever the thread brings back is an answer to the request it *)
(* took, and the mailbox is emptied whenever the question changes.            *)

ClientFields ==
  {"config", "wait", "asked", "born", "current", "pending", "configuration", "prepare",
   "result", "clear", "release", "released", "closed", "pc", "job", "outcome"}

GoodClient(p, c) ==
  /\ DOMAIN c = ClientFields
  /\ \A r \in c.result :
       r.key = c.current /\ \A done \in r.answer : done.request = <<p, Only(r.key)>>
  /\ \A done \in c.outcome :
       c.pc = "publish" /\ done.request = <<p, Only(Only(c.job).key)>>

ClientInv ==
  /\ clients = [p \in Pids |-> clients[p]]
  /\ \A p \in Pids : GoodClient(p, clients[p])

USE DEF ClientFields

\* The text service thread leaves the IPC thread alone, and changes the question only with
\* an empty mailbox.
Asks(c, d) ==
  /\ DOMAIN d = ClientFields
  /\ d.pc = c.pc /\ d.job = c.job /\ d.outcome = c.outcome
  /\ d.result = {} \/ (d.result = c.result /\ d.current = c.current)

LEMMA AsksGood ==
  ASSUME NEW p, NEW c, NEW d, GoodClient(p, c), Asks(c, d)
  PROVE  GoodClient(p, d)
  BY DEF GoodClient, Asks

LEMMA NewClientGood ==
  ASSUME NEW p, NEW config, NEW asked PROVE GoodClient(p, Prepared(NewClient(config, asked)))
<1> DEFINE c == NewClient(config, asked)
<1>1. DOMAIN c = ClientFields /\ c.result = {} /\ c.outcome = {}
  BY DEF NewClient
<1> HIDE DEF c
<1>2. /\ DOMAIN Prepared(c) = ClientFields
      /\ Prepared(c).result = {} /\ Prepared(c).outcome = {}
  BY <1>1 DEF Prepared
<1> QED BY <1>2 DEF GoodClient, c

LEMMA PreparedAsks ==
  ASSUME NEW c, DOMAIN c = ClientFields PROVE Asks(c, Prepared(c))
  BY DEF Asks, Prepared

LEMMA PlacedAsks ==
  ASSUME NEW c, DOMAIN c = ClientFields PROVE Asks(c, Placed(c))
  BY DEF Asks, Placed

LEMMA CollectedAsks ==
  ASSUME NEW c, DOMAIN c = ClientFields PROVE Asks(c, Collected(c))
  BY DEF Asks, Collected

LEMMA WithdrawnAsks ==
  ASSUME NEW c, DOMAIN c = ClientFields PROVE Asks(c, Withdrawn(c))
  BY DEF Asks, Withdrawn

LEMMA ReleasedAsks ==
  ASSUME NEW c, DOMAIN c = ClientFields PROVE Asks(c, Released(c))
<1> DEFINE z == Withdrawn(c)
<1>1. Asks(c, z)
  BY WithdrawnAsks
<1> HIDE DEF z
<1>2. Released(c) =
        IF ~c.born THEN c
        ELSE [z EXCEPT !.configuration = {}, !.prepare = FALSE,
                       !.release = @ \/ ~c.released, !.released = TRUE]
  BY DEF Released, z
<1> QED BY <1>1, <1>2 DEF Asks

LEMMA AsksTransitive ==
  ASSUME NEW c, NEW d, NEW e, Asks(c, d), Asks(d, e) PROVE Asks(c, e)
  BY DEF Asks

LEMMA PumpedAsks ==
  ASSUME NEW c, DOMAIN c = ClientFields PROVE Asks(c, Pumped(c))
<1> DEFINE z == Prepared(c)
<1>1. Asks(c, z)
  BY PreparedAsks
<1>2. DOMAIN z = ClientFields
  BY <1>1 DEF Asks
<1> HIDE DEF z
<1>3. Asks(z, Placed(z)) /\ DOMAIN Placed(z) = ClientFields
  BY <1>2, PlacedAsks DEF Asks
<1>4. Asks(z, Collected(Placed(z)))
  BY <1>3, CollectedAsks, AsksTransitive
<1>5. Asks(z, Withdrawn(z)) /\ Asks(z, Released(z))
  BY <1>2, WithdrawnAsks, ReleasedAsks
<1>6. Pumped(c) = Collected(Placed(z)) \/ Pumped(c) = Withdrawn(z) \/ Pumped(c) = Released(z)
  BY DEF Pumped, z
<1> QED BY <1>1, <1>4, <1>5, <1>6, AsksTransitive

LEMMA HostGood ==
  ASSUME ClientInv, NEW p \in Pids, NEW d, GoodClient(p, d), Host(p, d)
  PROVE  ClientInv'
<1>1. clients' = [q \in Pids |-> IF q = p THEN d ELSE clients[q]]
  BY DEF ClientInv, Host
<1> QED BY <1>1 DEF ClientInv

LEMMA HostAsks ==
  ASSUME ClientInv, NEW p \in Pids, NEW d, Asks(clients[p], d), Host(p, d)
  PROVE  ClientInv'
  BY AsksGood, HostGood DEF ClientInv

\* Every step of the text service thread.
LEMMA TextServiceGood ==
  ASSUME ClientInv, NEW p \in Pids,
         Ask(p) \/ Pump(p) \/ Expire(p) \/ Clear(p) \/ Deactivate(p)
         \/ \E config \in Configs : Reload(p, config)
  PROVE  ClientInv'
<1> DEFINE c == clients[p]
<1>0. DOMAIN c = ClientFields
  BY DEF ClientInv, GoodClient
<1>1. CASE Ask(p)
<2> DEFINE z == [c EXCEPT !.asked = @ + 1, !.wait = {c.asked + 1}]
<2>1. Asks(c, z)
  BY <1>0 DEF Asks
<2>2. Host(p, Pumped(z))
  BY <1>1 DEF Ask
<2> HIDE DEF z
<2>3. Asks(c, Pumped(z))
  BY <2>1, PumpedAsks, AsksTransitive DEF Asks
<2> QED BY <2>2, <2>3, HostAsks
<1>2. CASE Pump(p)
  BY <1>0, <1>2, PumpedAsks, HostAsks DEF Pump
<1>3. CASE Expire(p)
<2> DEFINE z == [c EXCEPT !.wait = {}]
<2>1. Asks(c, z)
  BY <1>0 DEF Asks
<2>2. Host(p, Pumped(z))
  BY <1>3 DEF Expire
<2> HIDE DEF z
<2>3. Asks(c, Pumped(z))
  BY <2>1, PumpedAsks, AsksTransitive DEF Asks
<2> QED BY <2>2, <2>3, HostAsks
<1>4. CASE Clear(p)
<2> DEFINE z == Withdrawn(c)
           y == [z EXCEPT !.wait = {}]
<2>1. Asks(c, z)
  BY <1>0, WithdrawnAsks
<2>2. Host(p, y)
  BY <1>4 DEF Clear
<2> HIDE DEF z
<2>3. Asks(c, y)
  BY <2>1 DEF Asks
<2> QED BY <2>2, <2>3, HostAsks
<1>5. CASE Deactivate(p)
<2>1. Asks(c, [c EXCEPT !.closed = TRUE, !.pending = {}, !.wait = {}])
  BY <1>0 DEF Asks
<2> QED BY <1>5, <2>1, HostAsks DEF Deactivate
<1>6. ASSUME NEW config \in Configs, Reload(p, config) PROVE ClientInv'
<2> DEFINE z == Released(c)
           y == [z EXCEPT !.wait = {}, !.config = config]
<2>1. Asks(c, z)
  BY <1>0, ReleasedAsks
<2>2. Host(p, y)
  BY <1>6 DEF Reload
<2> HIDE DEF z
<2>3. Asks(c, y)
  BY <2>1 DEF Asks
<2> QED BY <2>2, <2>3, HostAsks
<1> QED BY <1>1, <1>2, <1>3, <1>4, <1>5, <1>6

\* The IPC thread goes on without an answer, or ends with one to its request.
LEMMA GoesGood ==
  ASSUME ClientInv, NEW p \in Pids, NEW pc, clients[p].pc # "publish", Goes(p, pc)
  PROVE  ClientInv'
<1> DEFINE c == clients[p]
           d == [c EXCEPT !.pc = pc]
<1>1. GoodClient(p, d)
  BY DEF ClientInv, GoodClient
<1> QED BY <1>1, HostGood DEF Goes

LEMMA EndsGood ==
  ASSUME ClientInv, NEW p \in Pids, NEW outcome, Ends(p, outcome),
         \A done \in outcome : done.request = Request(p)
  PROVE  ClientInv'
<1> DEFINE c == clients[p]
           d == [c EXCEPT !.pc = "publish", !.outcome = outcome]
<1>1. GoodClient(p, d)
  BY DEF ClientInv, GoodClient, Request, Job
<1> QED BY <1>1, HostGood DEF Ends

LEMMA TakeGood == ASSUME ClientInv, NEW p \in Pids, Take(p) PROVE ClientInv'
<1> DEFINE c == clients[p]
<1>1. DOMAIN c = ClientFields /\ GoodClient(p, c) /\ c.pc = "idle"
  BY DEF ClientInv, GoodClient, Take
<1>2. c.outcome = {}
  BY <1>1 DEF GoodClient
<1>3. ASSUME NEW d, DOMAIN d = ClientFields, d.result = c.result, d.current = c.current,
             d.outcome = {}, Host(p, d)
      PROVE  ClientInv'
  BY <1>1, <1>3, HostGood DEF GoodClient
<1>4. CASE Host(p, [c EXCEPT !.release = FALSE, !.pc = "pausing"])
  BY <1>1, <1>2, <1>3, <1>4
<1>5. CASE Host(p, [c EXCEPT !.clear = FALSE, !.pc = "clearing"])
  BY <1>1, <1>2, <1>3, <1>5
<1>6. CASE Host(p, [c EXCEPT !.pending = {}, !.job = c.pending, !.pc = "configure"])
  BY <1>1, <1>2, <1>3, <1>6
<1>7. CASE Host(p, [c EXCEPT
              !.prepare = FALSE,
              !.job = {[config |-> g, key |-> {}] : g \in c.configuration},
              !.pc = IF c.configuration = {} THEN "idle" ELSE "configure"])
  BY <1>1, <1>2, <1>3, <1>7
<1> QED BY <1>4, <1>5, <1>6, <1>7 DEF Take

LEMMA PublishGood == ASSUME ClientInv, NEW p \in Pids, Publish(p) PROVE ClientInv'
<1> DEFINE c == clients[p]
           key == Only(c.job).key
           d == [c EXCEPT
                  !.pc = "idle", !.job = {}, !.outcome = {},
                  !.result = IF Publishes(c) THEN {[key |-> key, answer |-> c.outcome]}
                             ELSE @]
<1>1. GoodClient(p, c)
  BY DEF ClientInv
<1>2. /\ DOMAIN d = ClientFields /\ d.outcome = {} /\ d.current = c.current
      /\ d.result = IF Publishes(c) THEN {[key |-> key, answer |-> c.outcome]} ELSE c.result
  BY <1>1 DEF GoodClient
<1>3. Publishes(c) => c.current = key
  BY DEF Publishes
<1>4. Host(p, d)
  BY DEF Publish
<1> HIDE DEF d
<1>5. GoodClient(p, d)
  BY <1>1, <1>2, <1>3 DEF GoodClient
<1> QED BY <1>4, <1>5, HostGood

\* Every step of a host's IPC thread, as its mailbox sees it.
LEMMA MailboxGood == ASSUME ClientInv, NEW p \in Pids, Thread(p) PROVE ClientInv'
<1>0. ASSUME UNCHANGED clients PROVE ClientInv'
  BY <1>0 DEF ClientInv
<1>a. Ends(p, {}) => ClientInv'
  BY EndsGood
<1>1. CASE Take(p) \/ Publish(p)
  BY <1>1, TakeGood, PublishGood
<1>2. CASE Reactivate(p)
  BY <1>2, NewClientGood, HostGood DEF Reactivate
<1>3. CASE SendPause(p) \/ SendInvalidate(p)
  BY <1>3, GoesGood DEF SendPause, SendInvalidate, At
<1>4. CASE SendConfigure(p)
  BY <1>4, <1>a, GoesGood DEF SendConfigure, AfterSetUp, At
<1>5. CASE AwaitStart(p)
  BY <1>0, <1>5, <1>a, GoesGood DEF AwaitStart, AfterSetUp, At
<1>6. CASE Resume(p)
  BY <1>6, <1>a, GoesGood DEF Resume, At
<1>7. CASE SendSubmit(p)
  BY <1>7, <1>a, GoesGood DEF SendSubmit, At
<1>8. CASE Poll(p)
<2>1. \A done \in Found(service, p, Request(p)) : done.request = Request(p)
  BY DEF Found
<2> QED BY <1>0, <1>8, <1>a, <2>1, EndsGood DEF Poll
<1>9. CASE GiveUp(p)
  BY <1>9, <1>a DEF GiveUp
<1> QED BY <1>1, <1>2, <1>3, <1>4, <1>5, <1>6, <1>7, <1>8, <1>9 DEF Thread

LEMMA ClientStep == ClientInv /\ [Next]_vars => ClientInv'
<1> SUFFICES ASSUME ClientInv, [Next]_vars PROVE ClientInv'
  OBVIOUS
<1>1. ASSUME UNCHANGED clients PROVE ClientInv'
  BY <1>1 DEF ClientInv
<1>2. CASE UNCHANGED vars
  BY <1>1, <1>2 DEF vars
<1>3. ASSUME NEW p \in Pids,
             Ask(p) \/ Pump(p) \/ Expire(p) \/ Clear(p) \/ Deactivate(p)
             \/ \E config \in Configs : Reload(p, config)
      PROVE  ClientInv'
  BY <1>3, TextServiceGood
<1>4. ASSUME NEW p \in Pids, Thread(p) PROVE ClientInv'
  BY <1>4, MailboxGood
<1>5. CASE Boot \/ Die \/ Retire \/ WorkerThread
  BY <1>1, <1>5 DEF Boot, Die, Retire, WorkerThread, Works, Unload, ResetModel, Pick,
       PrepareModel, Idle, Start, Load, End
<1>6. CASE \/ \E low \in BOOLEAN : MemorySignal(low)
           \/ \E config \in Configs : Save(config)
  BY <1>1, <1>6 DEF MemorySignal, Save
<1> QED BY <1>2, <1>3, <1>4, <1>5, <1>6 DEF Next

LEMMA SpecClients == Spec => []ClientInv
<1>1. Init => ClientInv
  BY NewClientGood DEF Init, ClientInv
<1> QED BY <1>1, ClientStep, PTL DEF Spec

\* An answer is published only to the question the host asked last and still asks, and
\* only if it was computed for that question, however late the thread returns.
THEOREM LateAnswersAreDropped == Spec => []AnswersAreAwaited
<1>1. ClientInv => AnswersAreAwaited
  BY DEF ClientInv, GoodClient, AnswersAreAwaited
<1> QED BY SpecClients, <1>1, PTL
=============================================================================
