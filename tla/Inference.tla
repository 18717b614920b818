------------------------------- MODULE Inference -------------------------------
(***************************************************************************)
(* The shared inference service: model_input/worker.rs (one loader and     *)
(* scorer thread behind a lock), model_input/service.rs (the Endpoint that *)
(* owns a worker) and the request loop of bin/model_worker.rs, which       *)
(* serves one pipe call at a time and gives the worker an owning process.  *)
(*                                                                         *)
(* A configuration stands for the pair of model store and settings.  The   *)
(* epoch of the code is only compared, so it is kept as what the           *)
(* comparison tells: a job is stale, or a configuration prepared, since    *)
(* the epoch last advanced.  Deadlines are choices of the caller.          *)
(***************************************************************************)
EXTENDS Integers, FiniteSets

CONSTANTS
  Configs,  \* configuration names
  Usable,   \* those that are enabled and name a model
  Keeping,  \* those that preload the model and keep it
  Off       \* the default configuration: prediction disabled

ASSUME InferenceAssumption ==
  /\ Usable \subseteq Configs /\ Keeping \subseteq Configs
  /\ Off \in Configs \ Usable

Only(option) == CHOOSE x \in option : TRUE

\* A request is its key: the process it comes from, which model_worker.rs mixes into the
\* session number, and its number there.

-----------------------------------------------------------------------------
(* The worker.  A job that runs holds the cancellation of the code. *)

NewWorker(config) ==
  [config |-> config, pending |-> {}, result |-> {}, job |-> {}, paused |-> FALSE,
   reset |-> FALSE, phase |-> "Idle", loaded |-> {}, prepared |-> FALSE]

Cancelled(job) == {[j EXCEPT !.cancelled = TRUE] : j \in job}

Invalidated(w) ==
  [w EXCEPT !.pending = {}, !.result = {}, !.reset = TRUE, !.job = Cancelled(@)]

\* A new epoch: running work is stale, and a preloaded model is to be prepared again.
NextEpoch(w) ==
  LET next == Invalidated(w)
  IN [next EXCEPT !.job = {[j EXCEPT !.stale = TRUE] : j \in @}, !.prepared = FALSE]

Configured(w, config) ==
  IF w.config = config THEN w
  ELSE NextEpoch([w EXCEPT !.config = config, !.phase = "Idle"])

Paused(w, paused) ==
  IF w.paused = paused THEN w ELSE NextEpoch([w EXCEPT !.paused = paused])

Accepts(w) == ~w.paused /\ w.config \in Usable

\* The newest request replaces the one that waits, and cancels the one that runs.
Submitted(w, request) ==
  IF request \in w.pending THEN w
  ELSE [w EXCEPT !.pending = {request}, !.result = {}, !.job = Cancelled(@)]

(* The worker's thread, between two holds of its lock. *)

Rests(w) == w.job = {}
Stopped(w) == w.paused \/ w.config \notin Usable
Ready(w) == Rests(w) /\ ~w.reset
RestPhase(w) == IF w.paused THEN "Paused" ELSE "Idle"

\* Mutant of MustUnload: a model that is to be kept is kept while the worker is stopped.
KeptAsleep(w) == Rests(w) /\ Stopped(w) /\ w.loaded # {} /\ w.config \notin Keeping

\* Work is given up, and the model released, while paused, disabled or without a model.
MustUnload(w) == Rests(w) /\ Stopped(w) /\ (w.loaded # {} \/ w.phase # RestPhase(w))
Unloaded(w) == [w EXCEPT !.loaded = {}, !.phase = RestPhase(w)]

MustReset(w) == Rests(w) /\ w.reset /\ ~MustUnload(w)
WasReset(w) == [w EXCEPT !.reset = FALSE]

NewJob(w, requests) ==
  [requests |-> requests, config |-> w.config, stale |-> FALSE, cancelled |-> FALSE,
   stage |-> "start"]

CanPick(w) == Ready(w) /\ ~Stopped(w) /\ w.pending # {}
Picked(w) == [w EXCEPT !.job = {NewJob(w, w.pending)}, !.pending = {}]

CanPrepare(w) ==
  /\ Ready(w) /\ ~Stopped(w) /\ w.pending = {}
  /\ w.config \in Keeping /\ ~w.prepared
Preparing(w) == [w EXCEPT !.job = {NewJob(w, {})}, !.prepared = TRUE]

\* The idle time has passed: an on-demand model is released.
CanIdle(w) ==
  /\ Ready(w) /\ w.pending = {} /\ w.config \notin Keeping
  /\ w.loaded # {} \/ w.phase # RestPhase(w)

Stage(w, stage) == [w EXCEPT !.job = {[j EXCEPT !.stage = stage] : j \in @}]
AtStage(w, stage) == \E j \in w.job : j.stage = stage

StartJob(w) ==
  IF w.loaded = {Only(w.job).config} THEN Stage(w, "score")
  ELSE Stage([w EXCEPT !.phase = "Loading"], "load")

\* A replacement that cannot be loaded or warmed up leaves the last model in place.
EndLoad(w, loads) ==
  IF loads THEN Stage([w EXCEPT !.loaded = {Only(w.job).config}], "score")
  ELSE Stage(w, "failed")

Discards(j) == j.stale \/ j.cancelled

EndPhase(w, j, error) ==
  CASE j.stale -> "Idle"
    [] ~j.stale /\ (j.cancelled \/ error = "Soft") -> IF w.loaded # {} THEN "Ready" ELSE "Idle"
    [] ~Discards(j) /\ error = "Nothing" -> "Ready"
    [] OTHER -> "Failed"

\* The end of a job: "Soft" is a timeout, a low confidence or an empty result.  A request
\* past its deadline gets no result at all.
Errors(j) == IF j.stage = "failed" THEN {"Soft", "Hard"} ELSE {"Nothing", "Soft", "Hard"}
EndJob(w, error, late) ==
  LET j == Only(w.job)
      done == [w EXCEPT !.job = {}, !.phase = EndPhase(w, j, error)]
  IN IF Discards(j) \/ late \/ j.requests = {} THEN done
     ELSE [done EXCEPT !.result = {[request |-> r, config |-> j.config] : r \in j.requests}]

-----------------------------------------------------------------------------
(* The endpoint, and the process around it that serves one call at a time. *)

NewService(up) ==
  [up |-> up, owner |-> 0, userPaused |-> FALSE, pressure |-> FALSE, worker |-> {}]

\* The system reports low memory, or the end of it.
UnderPressure(sv, low) ==
  [sv EXCEPT !.pressure = low, !.worker = {Paused(w, low \/ sv.userPaused) : w \in @}]

Prepare(sv, config) ==
  LET w == IF sv.worker = {} THEN NewWorker(config) ELSE Configured(Only(sv.worker), config)
  IN [sv EXCEPT !.userPaused = FALSE, !.worker = {Paused(w, sv.pressure)}]

\* Mutant of Owned: the new owner finds the work of the old one.
OwnedAsItIs(sv, pid) == [sv EXCEPT !.owner = pid]
Owned(sv, pid) ==
  IF sv.owner = pid THEN sv
  ELSE [sv EXCEPT !.owner = pid, !.worker = {Invalidated(w) : w \in @}]

Configure(sv, pid, config) == Prepare(Owned(sv, pid), config)

\* A process that does not own the service changes nothing, and is told "ok".
Pause(sv, pid, paused) ==
  IF sv.owner # pid \/ sv.worker = {} THEN sv
  ELSE [sv EXCEPT !.userPaused = paused, !.worker = {Paused(w, paused \/ sv.pressure) : w \in @}]

Invalidate(sv, pid) ==
  IF sv.owner # pid THEN sv ELSE [sv EXCEPT !.worker = {Invalidated(w) : w \in @}]

Accepted(sv) == \E w \in sv.worker : Accepts(w)
Submit(sv, pid, request) ==
  LET own == Owned(sv, pid)
  IN IF Accepted(sv) THEN [own EXCEPT !.worker = {Submitted(w, request) : w \in @}] ELSE own

\* The answer to one key, which is taken with it.
Found(sv, pid, key) ==
  {r \in UNION {w.result : w \in sv.worker} : sv.owner = pid /\ r.request = key}
Polled(sv, pid, key) ==
  IF Found(sv, pid, key) = {} THEN sv
  ELSE [sv EXCEPT !.worker = {[w EXCEPT !.result = {}] : w \in @}]
=============================================================================
