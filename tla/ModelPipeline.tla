----------------------------- MODULE ModelPipeline -----------------------------
(***************************************************************************)
(* Host processes and the one inference service they share on Windows.     *)
(* In each host the text service thread asks, pumps and clears             *)
(* (input_session.rs), and an IPC thread of its own carries one thing at a *)
(* time to the service (model_client.rs) over a pipe on which a call may   *)
(* be lost before or after it is served.  The service may die, is started  *)
(* by the hosts, and is paused by the system when memory is low.           *)
(***************************************************************************)
EXTENDS Inference

CONSTANTS
  Pids,      \* the host processes
  First,     \* the configuration they start with
  Lossy,     \* whether the pipe may lose a call
  MaxAsked,  \* bound: requests of one host
  MaxEvents  \* bound: reloads, saves, deaths, shortages of memory and deactivations

ASSUME PipelineAssumption ==
  /\ 0 \notin Pids /\ First \in Configs /\ Lossy \in BOOLEAN
  /\ MaxAsked \in Nat /\ MaxEvents \in Nat

VARIABLES
  service,
  starting,  \* a service process has been started and is not serving yet
  clients,
  events

vars == <<service, starting, clients, events>>

-----------------------------------------------------------------------------
(* A host: the prediction its session waits for, and the client's mailbox. *)

NewClient(config, asked) ==
  [config |-> config, wait |-> {}, asked |-> asked, born |-> FALSE,
   current |-> {}, pending |-> {}, configuration |-> {}, prepare |-> FALSE,
   result |-> {}, clear |-> FALSE, release |-> FALSE, released |-> FALSE,
   closed |-> FALSE, pc |-> "idle", job |-> {}, outcome |-> {}]

Prepared(c) ==
  IF c.config \notin Usable \cap Keeping THEN c
  ELSE IF c.configuration = {c.config} THEN [c EXCEPT !.born = TRUE]
  ELSE [c EXCEPT !.born = TRUE, !.configuration = {c.config}, !.prepare = TRUE,
                 !.released = FALSE]

Placed(c) ==
  IF c.current = c.wait THEN c
  ELSE [c EXCEPT !.born = TRUE, !.current = c.wait, !.released = FALSE, !.result = {},
                 !.pending = {[config |-> c.config, key |-> c.wait]}]

\* The session takes the answer it waits for: an item list, or an error that ends the wait.
Collected(c) ==
  IF \E r \in c.result : r.key = c.wait THEN [c EXCEPT !.result = {}, !.wait = {}] ELSE c

Withdrawn(c) ==
  IF ~c.born \/ c.current = {} THEN c
  ELSE [c EXCEPT !.current = {}, !.pending = {}, !.result = {}, !.clear = TRUE]

Released(c) ==
  IF ~c.born THEN c
  ELSE [Withdrawn(c) EXCEPT !.configuration = {}, !.prepare = FALSE,
                            !.release = @ \/ ~c.released, !.released = TRUE]

Pumped(c) ==
  LET ready == Prepared(c)
  IN IF c.wait # {} THEN Collected(Placed(ready))
     ELSE IF c.config \in Usable THEN Withdrawn(ready) ELSE Released(ready)

-----------------------------------------------------------------------------
Init ==
  /\ service = NewService(FALSE)
  /\ starting = FALSE
  /\ clients = [p \in Pids |-> Prepared(NewClient(First, 0))]
  /\ events = 0

Host(p, next) == clients' = [clients EXCEPT ![p] = next]
Happens == events < MaxEvents /\ events' = events + 1

(* The text service thread. *)

Ask(p) ==
  LET c == clients[p]
  IN /\ ~c.closed /\ c.config \in Usable /\ c.asked < MaxAsked
     /\ Host(p, Pumped([c EXCEPT !.asked = @ + 1, !.wait = {c.asked + 1}]))
     /\ UNCHANGED <<service, starting, events>>

\* The timer, or the end of a key event.
Pump(p) ==
  /\ ~clients[p].closed
  /\ Host(p, Pumped(clients[p]))
  /\ UNCHANGED <<service, starting, events>>

Expire(p) ==
  /\ ~clients[p].closed /\ clients[p].wait # {}
  /\ Host(p, Pumped([clients[p] EXCEPT !.wait = {}]))
  /\ UNCHANGED <<service, starting, events>>

Clear(p) ==
  /\ ~clients[p].closed
  /\ Host(p, [Withdrawn(clients[p]) EXCEPT !.wait = {}])
  /\ UNCHANGED <<service, starting, events>>

Reload(p, config) ==
  /\ Happens
  /\ ~clients[p].closed /\ config # clients[p].config
  /\ Host(p, [Released(clients[p]) EXCEPT !.wait = {}, !.config = config])
  /\ UNCHANGED <<service, starting>>

\* Deactivation closes the client and joins its thread.
Deactivate(p) ==
  /\ Happens
  /\ ~clients[p].closed /\ clients[p].born
  /\ Host(p, [clients[p] EXCEPT !.closed = TRUE, !.pending = {}, !.wait = {}])
  /\ UNCHANGED <<service, starting>>

(* The IPC thread. *)

\* What it takes from the mailbox: a release before a clear, before a request, before a
\* preparation.
Take(p) ==
  LET c == clients[p]
  IN /\ c.pc = "idle" /\ ~c.closed
     /\ \/ /\ c.release
           /\ Host(p, [c EXCEPT !.release = FALSE, !.pc = "pausing"])
        \/ /\ ~c.release /\ c.clear
           /\ Host(p, [c EXCEPT !.clear = FALSE, !.pc = "clearing"])
        \/ /\ ~c.release /\ ~c.clear /\ c.pending # {}
           /\ Host(p, [c EXCEPT !.pending = {}, !.job = c.pending, !.pc = "configure"])
        \/ /\ ~c.release /\ ~c.clear /\ c.pending = {} /\ c.prepare
           /\ Host(p, [c EXCEPT
                !.prepare = FALSE,
                !.job = {[config |-> g, key |-> {}] : g \in c.configuration},
                !.pc = IF c.configuration = {} THEN "idle" ELSE "configure"])
     /\ UNCHANGED <<service, starting, events>>

\* The joined thread is gone, and the host is active again under a new client.
Reactivate(p) ==
  LET c == clients[p]
  IN /\ c.pc = "idle" /\ c.closed
     /\ Host(p, Prepared(NewClient(c.config, c.asked)))
     /\ UNCHANGED <<service, starting, events>>

\* One call on the pipe that would leave the service in state `next`.
Replied(next) == service.up /\ service' = next
Fails(next) == IF service.up THEN Lossy /\ service' \in {service, next} ELSE UNCHANGED service

Goes(p, pc) == Host(p, [clients[p] EXCEPT !.pc = pc])
Ends(p, outcome) == Host(p, [clients[p] EXCEPT !.pc = "publish", !.outcome = outcome])
At(p, pc) == clients[p].pc = pc /\ UNCHANGED events
Job(p) == Only(clients[p].job)
Request(p) == <<p, Only(Job(p).key)>>

\* The job has been replaced, withdrawn or released since it was taken.
Superseded(c) ==
  LET job == Only(c.job)
  IN c.closed \/ (IF job.key # {} THEN c.current # job.key ELSE c.configuration # {job.config})

SendPause(p) ==
  LET next == Pause(service, p, TRUE)
  IN At(p, "pausing") /\ (Replied(next) \/ Fails(next)) /\ Goes(p, "idle") /\ UNCHANGED starting

SendInvalidate(p) ==
  LET next == Invalidate(service, p)
  IN At(p, "clearing") /\ (Replied(next) \/ Fails(next)) /\ Goes(p, "idle") /\ UNCHANGED starting

SetUp(p) ==
  IF Job(p).key = {} THEN Prepare(service, Job(p).config)
  ELSE Configure(service, p, Job(p).config)
AfterSetUp(p) ==
  IF Job(p).key = {} THEN Ends(p, {}) ELSE Goes(p, "resume") \/ Ends(p, {})

\* Without a service one is started, unless one was in the last second or none is installed.
SendConfigure(p) ==
  /\ At(p, "configure")
  /\ \/ Replied(SetUp(p)) /\ AfterSetUp(p) /\ UNCHANGED starting
     \/ Fails(SetUp(p)) /\ Ends(p, {}) /\ UNCHANGED starting
     \/ Fails(SetUp(p)) /\ Goes(p, "starting") /\ starting' = TRUE

AwaitStart(p) ==
  /\ At(p, "starting") /\ ~Superseded(clients[p]) /\ UNCHANGED starting
  /\ \/ Replied(SetUp(p)) /\ AfterSetUp(p)
     \/ Fails(SetUp(p)) /\ UNCHANGED clients

Resume(p) ==
  LET next == Pause(service, p, FALSE)
  IN /\ At(p, "resume") /\ UNCHANGED starting
     /\ \/ Replied(next) /\ (service.owner = p => service.worker # {}) /\ Goes(p, "submit")
        \/ Replied(next) /\ service.owner = p /\ service.worker = {} /\ Ends(p, {})
        \/ Fails(next) /\ Ends(p, {})

SendSubmit(p) ==
  LET next == Submit(service, p, Request(p))
  IN /\ At(p, "submit") /\ UNCHANGED starting
     /\ \/ Replied(next) /\ Accepted(service) /\ Goes(p, "poll")
        \/ Replied(next) /\ ~Accepted(service) /\ Ends(p, {})
        \/ Fails(next) /\ Ends(p, {})

Poll(p) ==
  LET next == Polled(service, p, Request(p))
  IN /\ At(p, "poll") /\ ~Superseded(clients[p]) /\ UNCHANGED starting
     /\ \/ /\ Replied(next)
           /\ IF Found(service, p, Request(p)) = {} THEN UNCHANGED clients
              ELSE Ends(p, Found(service, p, Request(p)))
        \/ Fails(next) /\ Ends(p, {})

\* The deadline of the wait has passed, or nobody waits.
GiveUp(p) ==
  /\ (At(p, "starting") \/ At(p, "poll"))
  /\ Ends(p, {})
  /\ UNCHANGED <<service, starting>>

\* Mutant of Publishes: whatever the thread ends with is put in the mailbox.
PublishesAnything(c) == Only(c.job).key # {}
\* Mutant of Publishes: an error ends nothing.
PublishesAnswers(c) ==
  c.outcome # {} /\ Only(c.job).key # {} /\ ~c.closed /\ c.current = Only(c.job).key
Publishes(c) == Only(c.job).key # {} /\ ~c.closed /\ c.current = Only(c.job).key

Publish(p) ==
  LET c == clients[p]
  IN /\ At(p, "publish")
     /\ Host(p, [c EXCEPT
          !.pc = "idle", !.job = {}, !.outcome = {},
          !.result = IF Publishes(c) THEN {[key |-> Only(c.job).key, answer |-> c.outcome]}
                     ELSE @])
     /\ UNCHANGED <<service, starting>>

Thread(p) ==
  \/ Take(p) \/ Reactivate(p) \/ SendPause(p) \/ SendInvalidate(p) \/ SendConfigure(p)
  \/ AwaitStart(p) \/ Resume(p) \/ SendSubmit(p) \/ Poll(p) \/ GiveUp(p) \/ Publish(p)

-----------------------------------------------------------------------------
(* The service process. *)

\* A started process serves, unless one already does.
Boot ==
  /\ starting /\ starting' = FALSE
  /\ service' = IF service.up THEN service ELSE NewService(TRUE)
  /\ UNCHANGED <<clients, events>>

Die ==
  /\ Happens /\ service.up
  /\ service' = NewService(FALSE)
  /\ UNCHANGED <<starting, clients>>

\* Memory is low, which is an event, or no longer low.
MemorySignal(low) ==
  /\ service.up /\ low # service.pressure
  /\ IF low THEN Happens ELSE UNCHANGED events
  /\ service' = UnderPressure(service, low)
  /\ UNCHANGED <<starting, clients>>

\* The settings application starts a process that hands what was saved to the service in
\* place, or becomes it when there is a model to keep.
Save(config) ==
  /\ Happens
  /\ IF service.up THEN service' = Prepare(service, config)
     ELSE service' = IF config \in Usable \cap Keeping THEN Prepare(NewService(TRUE), config)
                     ELSE service
  /\ UNCHANGED <<starting, clients>>

\* A service that has had no call for a minute, and keeps no model, ends.
KeepsAlive(w) == Accepts(w) /\ w.config \in Keeping
Retire ==
  /\ service.up /\ \A w \in service.worker : ~KeepsAlive(w)
  /\ service' = NewService(FALSE)
  /\ UNCHANGED <<starting, clients, events>>

(* Its worker thread. *)

Works(next) ==
  /\ service.worker # {} /\ service' = [service EXCEPT !.worker = {next}]
  /\ UNCHANGED <<starting, clients, events>>
TheWorker == Only(service.worker)
HasWorker == service.worker # {}

Unload == HasWorker /\ MustUnload(TheWorker) /\ Works(Unloaded(TheWorker))
ResetModel == HasWorker /\ MustReset(TheWorker) /\ Works(WasReset(TheWorker))
Pick == HasWorker /\ CanPick(TheWorker) /\ Works(Picked(TheWorker))
PrepareModel == HasWorker /\ CanPrepare(TheWorker) /\ Works(Preparing(TheWorker))
Idle == HasWorker /\ CanIdle(TheWorker) /\ Works(Unloaded(TheWorker))
Start == HasWorker /\ AtStage(TheWorker, "start") /\ Works(StartJob(TheWorker))
Load ==
  /\ HasWorker /\ AtStage(TheWorker, "load")
  /\ \E loads \in BOOLEAN : Works(EndLoad(TheWorker, loads))
End ==
  /\ HasWorker /\ (AtStage(TheWorker, "score") \/ AtStage(TheWorker, "failed"))
  /\ \E error \in Errors(Only(TheWorker.job)), late \in BOOLEAN :
       Works(EndJob(TheWorker, error, late))

WorkerThread == Unload \/ ResetModel \/ Pick \/ PrepareModel \/ Idle \/ Start \/ Load \/ End

Next ==
  \/ \E p \in Pids :
       \/ Ask(p) \/ Pump(p) \/ Expire(p) \/ Clear(p) \/ Deactivate(p) \/ Thread(p)
       \/ \E config \in Configs : Reload(p, config)
  \/ Boot \/ Die \/ Retire \/ WorkerThread
  \/ \E low \in BOOLEAN : MemorySignal(low)
  \/ \E config \in Configs : Save(config)

Spec == Init /\ [][Next]_vars

\* The threads run, the timer ticks while a prediction is awaited, and deadlines pass.
Fairness ==
  /\ WF_vars(WorkerThread)
  /\ \A p \in Pids : WF_vars(Thread(p)) /\ WF_vars(Pump(p)) /\ WF_vars(GiveUp(p))
FairSpec == Spec /\ Fairness
-----------------------------------------------------------------------------
(* Properties. *)

Option(set) == {{}} \cup {{x} : x \in set}
Keys == 1..MaxAsked
Requests == Pids \X Keys

\* Everything that waits, runs or is kept in one place at most, and is of its kind.
TypeOK ==
  /\ service.up \in BOOLEAN /\ service.owner \in {0} \cup Pids
  /\ \A w \in service.worker :
       /\ w.config \in Configs /\ w.pending \in Option(Requests)
       /\ w.phase \in {"Idle", "Loading", "Ready", "Paused", "Failed"}
       /\ \A r \in w.result : r.request \in Requests /\ r.config \in Usable
  /\ Cardinality(service.worker) <= 1
  /\ \A p \in Pids :
       /\ clients[p].wait \in Option(Keys) /\ clients[p].current \in Option(Keys)
       /\ \A job \in clients[p].job : clients[p].pc # "idle" /\ job.key \in Option(Keys)

\* What the worker holds, runs to the end or has finished is of the process that owns it:
\* model_worker.rs clears the work of the last owner before it serves the next.
WorkIsOwners ==
  \A w \in service.worker :
    /\ \A r \in w.pending : r[1] = service.owner
    /\ \A done \in w.result : done.request[1] = service.owner
    /\ \A j \in w.job : ~Discards(j) => \A r \in j.requests : r[1] = service.owner

\* The mailbox holds an answer only to the request the host last made and has not
\* withdrawn, and one computed for that request: a late one is dropped, however long the
\* thread was away (model_client.rs).
AnswersAreAwaited ==
  \A p \in Pids : \A r \in clients[p].result :
    r.key = clients[p].current /\ \A done \in r.answer : done.request = <<p, Only(r.key)>>

\* A paused worker, or one without a model to use, holds no request and no answer, and
\* what it still runs is thrown away (worker.rs).
PausedIsQuiet ==
  \A w \in service.worker : Stopped(w) =>
    w.pending = {} /\ w.result = {} /\ \A j \in w.job : Discards(j)

\* An answer that can still be fetched was computed under the configuration in force.
AnswersAreCurrent ==
  \A w \in service.worker : \A done \in w.result : done.config = w.config

\* The worker is paused when the user or the system wants it: the end of low memory does
\* not resume what was paused explicitly (service.rs).
PauseIsWanted ==
  \A w \in service.worker : w.paused <=> service.userPaused \/ service.pressure

\* Whatever the two applications ask, save and pause: the service works for its owner, under
\* the configuration in force, and only while it may.
ServiceIsSafe == WorkIsOwners /\ PausedIsQuiet /\ AnswersAreCurrent /\ PauseIsWanted

\* A worker that is paused or has no model to use gives the model's memory back.
StoppedIsUnloaded ==
  (\E w \in service.worker : Stopped(w))
    ~> (\A w \in service.worker : ~Stopped(w) \/ w.loaded = {})

\* A prediction awaited by a host ends: with an answer, an error or another request, also
\* when the service dies, loses calls or serves another host meanwhile.
WaitEnds ==
  /\ []TypeOK
  /\ \A p \in Pids : \A k \in Keys : (clients[p].wait = {k}) ~> (clients[p].wait # {k})

\* A service whose hosts have all switched prediction off, and have nothing left to send,
\* keeps no model (docs/model-input-preload.md: switching off releases the model).
Silent(c) ==
  /\ c.config \notin Usable /\ c.released /\ c.pc = "idle"
  /\ ~c.release /\ ~c.clear /\ ~c.prepare /\ c.pending = {}
OffReleasesModel ==
  (\A p \in Pids : Silent(clients[p])) => \A w \in service.worker : Stopped(w)

=============================================================================
