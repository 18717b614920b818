------------------------------ MODULE Components ------------------------------
(***************************************************************************)
(* Inference components: the plan of a capability and the checks of the    *)
(* store (windows/runtime_components), their installation and removal      *)
(* (model_input/src/components.rs) by the component thread of a settings   *)
(* window (windows/settings/src/model_components.rs), and the services     *)
(* started from them (model_catalog.rs, model_client.rs, model_worker.rs). *)
(*                                                                         *)
(* Everything is files: a directory per component, the stage and archive   *)
(* it is made from, install.lock, and a lease file beside each directory.  *)
(* A window or a service may end at any step; a lock ends with its owner.  *)
(***************************************************************************)
EXTENDS Naturals, Sequences, SequencesExt

CONSTANTS
  Windows,   \* settings windows
  Services,  \* service processes
  Catalogs,  \* the catalogs a build may carry
  MaxDamage  \* bound: how often a file of an installed component is damaged

ASSUME ComponentsAssumption ==
  /\ MaxDamage \in Nat
  /\ \A c \in Catalogs : \A i \in DOMAIN c :
       /\ DOMAIN c[i] = {"key", "deps", "able", "fits"}
       /\ c[i].able \in BOOLEAN /\ c[i].fits \in BOOLEAN

VARIABLES
  catalog,    \* compiled into the application, in order of preference
  plans,      \* the plan of each of its components
  dir,        \* components/<key>: absent, whole, or bad
  archive,    \* .downloads/<key>-<hash>.part: absent, part or whole
  stage,      \* .downloads/<key>.stage: absent, part, whole, or with a stray file
  quarantined,\* the components of which an <key>.invalid-<time> is kept
  removed,    \* the components of which a <key>.removed is left
  lock,       \* who holds install.lock
  leases,     \* who holds the lease of each component, and how
  saved,      \* the saved configuration selects a model that needs the capability
  op,         \* the component thread of each window
  service,    \* each service process
  damage      \* damages so far

disk == <<dir, archive, stage, quarantined, removed>>
vars == <<catalog, plans, disk, lock, leases, saved, op, service, damage>>

-----------------------------------------------------------------------------
\* Planning: the component and, before it, everything it depends on, each once.
Keys == {catalog[i].key : i \in DOMAIN catalog}
Entry(k) == catalog[CHOOSE i \in DOMAIN catalog : catalog[i].key = k]
Duplicate == \E i, j \in DOMAIN catalog : i # j /\ catalog[i].key = catalog[j].key

RECURSIVE Visit(_, _, _)
Visit(k, visiting, r) ==
  IF ~r.ok \/ k \in ToSet(r.order) THEN r
  ELSE IF k \in visiting \/ k \notin Keys THEN [r EXCEPT !.ok = FALSE]
  ELSE IF ~Entry(k).fits THEN [r EXCEPT !.ok = FALSE]
  ELSE LET inner == FoldLeft(LAMBDA s, d : Visit(d, visiting \cup {k}, s), r, Entry(k).deps)
       IN  IF inner.ok THEN [inner EXCEPT !.order = Append(@, k)] ELSE inner

PlanComponent(k) ==
  IF Duplicate THEN [ok |-> FALSE, order |-> <<>>]
  ELSE Visit(k, {}, [ok |-> TRUE, order |-> <<>>])

Able == SelectSeq(catalog, LAMBDA c : c.able)
Plan == IF Able = <<>> THEN [ok |-> FALSE, order |-> <<>>] ELSE plans[Head(Able).key]

Verifies(k) == dir[k] = "whole"

\* The first component of the capability whose whole plan verifies.
Authorized(k) ==
  plans[k].ok /\ \A d \in ToSet(plans[k].order) : Verifies(d)
Usable == SelectSeq(Able, LAMBDA c : Authorized(c.key))

-----------------------------------------------------------------------------
Idle == [does |-> "none", at |-> "idle", key |-> "", todo |-> <<>>]
Off == [at |-> "off", key |-> ""]

Init ==
  /\ catalog \in Catalogs /\ plans = [k \in Keys |-> PlanComponent(k)]
  /\ dir = [k \in Keys |-> "absent"] /\ archive = [k \in Keys |-> "absent"]
  /\ \E left \in SUBSET Keys :
       /\ \A j, k \in left : j = k
       /\ stage = [k \in Keys |-> IF k \in left THEN "stray" ELSE "absent"]
  /\ quarantined = {} /\ removed = {}
  /\ lock = {} /\ leases = [k \in Keys |-> {}] /\ saved \in BOOLEAN
  /\ op = [a \in Windows |-> Idle] /\ service = [s \in Services |-> Off] /\ damage = 0

Goes(a, at) == op' = [op EXCEPT ![a].at = at]
Ended(a) == op' = [op EXCEPT ![a] = Idle]
Unlocks(a) == lock' = lock \ {a}
Fails(a) == Ended(a) /\ Unlocks(a) /\ UNCHANGED <<disk, leases>>

At(a, does, at) ==
  op[a].does = does /\ op[a].at = at /\ UNCHANGED <<catalog, plans, saved, service, damage>>

\* try_lock: an exclusive holder excludes everybody, a shared one the exclusive.
Shared(p) == <<p, "shared">>
Exclusive(p) == <<p, "exclusive">>
Free(k) == leases[k] = {}
Lends(k) == \A h \in leases[k] : h[2] = "shared"
Takes(k, h) == leases' = [leases EXCEPT ![k] = @ \cup {h}]
Returns(k, h) == leases' = [leases EXCEPT ![k] = @ \ {h}]

StartInstall(a) ==
  /\ op[a] = Idle /\ op' = [op EXCEPT ![a] = [Idle EXCEPT !.does = "install", !.at = "lock"]]
  /\ Plan.ok
  /\ UNCHANGED <<catalog, plans, disk, lock, leases, saved, service, damage>>

\* What does not verify is pending, in the order of the plan.  The disk may be full.
InstallLocks(a) ==
  /\ At(a, "install", "lock")
  /\ IF lock # {} THEN Ended(a) /\ UNCHANGED <<disk, lock, leases>>
     ELSE /\ \/ /\ lock' = {a}
                /\ op' = [op EXCEPT ![a].at = "next",
                                    ![a].todo = SelectSeq(Plan.order, LAMBDA k : ~Verifies(k))]
             \/ Ended(a) /\ UNCHANGED lock
          /\ UNCHANGED <<disk, leases>>

\* The user may cancel before each component, during the transfer and the unpacking.
InstallNext(a) ==
  /\ At(a, "install", "next")
  /\ \/ op[a].todo = <<>> /\ Fails(a)
     \/ op[a].todo # <<>> /\ Fails(a)
     \/ /\ op[a].todo # <<>>
        /\ op' = [op EXCEPT ![a].at = "transfer", ![a].key = Head(op[a].todo),
                            ![a].todo = Tail(op[a].todo)]
        /\ UNCHANGED <<disk, lock, leases>>

\* A resumable transfer: it ends with the pinned archive or leaves a part of it.
InstallTransfers(a) ==
  /\ At(a, "install", "transfer")
  /\ \/ archive' = [archive EXCEPT ![op[a].key] = "whole"] /\ Goes(a, "unpack") /\ UNCHANGED lock
     \/ /\ archive[op[a].key] # "whole" /\ archive' = [archive EXCEPT ![op[a].key] = "part"]
        /\ Ended(a) /\ Unlocks(a)
  /\ UNCHANGED <<dir, stage, quarantined, removed, leases>>

InstallUnpacksAnything(a) ==
  /\ At(a, "install", "unpack")
  /\ \E s \in {"whole", "stray"} : stage' = [stage EXCEPT ![op[a].key] = s]
  /\ Goes(a, "lease") /\ UNCHANGED <<dir, archive, quarantined, removed, leases, lock>>

\* Every declared file is written over what an earlier attempt left; a file nobody
\* declared stays and keeps the stage from being verified.
InstallUnpacks(a) ==
  /\ At(a, "install", "unpack")
  /\ LET k == op[a].key
     IN  \/ /\ stage[k] # "stray" /\ stage' = [stage EXCEPT ![k] = "whole"]
            /\ Goes(a, "lease") /\ UNCHANGED lock
         \/ /\ stage' = [stage EXCEPT ![k] = IF @ = "stray" THEN @ ELSE "part"]
            /\ Ended(a) /\ Unlocks(a)
  /\ UNCHANGED <<dir, archive, quarantined, removed, leases>>

\* A directory that is there did not verify: it is moved aside under its lease.
InstallLeases(a) ==
  /\ At(a, "install", "lease")
  /\ LET k == op[a].key
     IN  IF dir[k] = "absent" THEN Goes(a, "place") /\ UNCHANGED <<disk, lock, leases>>
         ELSE IF Free(k) THEN Takes(k, Exclusive(a)) /\ Goes(a, "quarantine")
                              /\ UNCHANGED <<disk, lock>>
         ELSE Fails(a)
InstallQuarantines(a) ==
  /\ At(a, "install", "quarantine")
  /\ LET k == op[a].key
     IN  /\ Returns(k, Exclusive(a))
         /\ \/ dir' = [dir EXCEPT ![k] = "absent"] /\ quarantined' = quarantined \cup {k}
               /\ Goes(a, "place") /\ UNCHANGED lock
            \/ Ended(a) /\ Unlocks(a) /\ UNCHANGED <<dir, quarantined>>
  /\ UNCHANGED <<archive, stage, removed>>
InstallPlaces(a) ==
  /\ At(a, "install", "place")
  /\ dir' = [dir EXCEPT ![op[a].key] = IF stage[op[a].key] = "whole" THEN "whole" ELSE "bad"]
  /\ stage' = [stage EXCEPT ![op[a].key] = "absent"]
  /\ Goes(a, "next") /\ UNCHANGED <<archive, quarantined, removed, lock, leases>>

Installation(a) ==
  \/ InstallLocks(a) \/ InstallNext(a) \/ InstallTransfers(a) \/ InstallUnpacks(a)
  \/ InstallLeases(a) \/ InstallQuarantines(a) \/ InstallPlaces(a)

-----------------------------------------------------------------------------
\* remove: the saved selection, then install.lock, the dependents, the lease, and the
\* payload are asked before the directory is renamed away and deleted.
StartRemove(a, k) ==
  /\ op[a] = Idle
  /\ op' = [op EXCEPT ![a] = [Idle EXCEPT !.does = "remove", !.at = "config", !.key = k]]
  /\ UNCHANGED <<catalog, plans, disk, lock, leases, saved, service, damage>>

UsedBySelection(k) ==
  saved /\ (Entry(k).able \/ (Plan.ok /\ k \in ToSet(Plan.order)))
RemoveAsks(a) ==
  /\ At(a, "remove", "config")
  /\ IF UsedBySelection(op[a].key) THEN Ended(a) ELSE Goes(a, "lock")
  /\ UNCHANGED <<disk, lock, leases>>

RemoveLocks(a) ==
  /\ At(a, "remove", "lock")
  /\ IF lock # {} THEN Ended(a) /\ UNCHANGED lock ELSE lock' = {a} /\ Goes(a, "dependents")
  /\ UNCHANGED <<disk, leases>>

HasNoDependents(k) == FALSE
HasDependents(k) ==
  \E i \in DOMAIN catalog :
    k \in ToSet(catalog[i].deps) /\ dir[catalog[i].key] # "absent"
RemoveAsksDependents(a) ==
  /\ At(a, "remove", "dependents")
  /\ IF HasDependents(op[a].key) THEN Fails(a)
     ELSE Goes(a, "lease") /\ UNCHANGED <<disk, lock, leases>>

RemoveLeases(a) ==
  /\ At(a, "remove", "lease")
  /\ IF dir[op[a].key] # "absent" /\ Free(op[a].key)
     THEN Takes(op[a].key, Exclusive(a)) /\ Goes(a, "verify") /\ UNCHANGED <<disk, lock>>
     ELSE Fails(a)

\* A name that is still taken by an earlier removal makes the renaming fail.
RemoveRenames(a) ==
  /\ At(a, "remove", "verify")
  /\ LET k == op[a].key
     IN  /\ Returns(k, Exclusive(a))
         /\ \/ /\ Verifies(k) /\ k \notin removed
               /\ dir' = [dir EXCEPT ![k] = "absent"] /\ removed' = removed \cup {k}
               /\ Goes(a, "delete") /\ UNCHANGED lock
            \/ Ended(a) /\ Unlocks(a) /\ UNCHANGED <<dir, removed>>
  /\ UNCHANGED <<archive, stage, quarantined>>
RemoveDeletes(a) ==
  /\ At(a, "remove", "delete")
  /\ \/ removed' = removed \ {op[a].key}
     \/ UNCHANGED removed
  /\ Ended(a) /\ Unlocks(a) /\ UNCHANGED <<dir, archive, stage, quarantined, leases>>

Removal(a) ==
  \/ RemoveAsks(a) \/ RemoveLocks(a) \/ RemoveAsksDependents(a) \/ RemoveLeases(a)
  \/ RemoveRenames(a) \/ RemoveDeletes(a)

-----------------------------------------------------------------------------
\* A service: its program is chosen and verified, then the process is started.
ServiceAt(s, at) ==
  service[s].at = at /\ UNCHANGED <<catalog, plans, disk, lock, saved, op, damage>>
Becomes(s, at) == service' = [service EXCEPT ![s].at = at]
TurnsOff(s) == service' = [service EXCEPT ![s] = Off]

Resolves(s) ==
  /\ ServiceAt(s, "off") /\ saved /\ Usable # <<>>
  /\ service' = [service EXCEPT ![s] = [at |-> "resolved", key |-> Head(Usable).key]]
  /\ UNCHANGED leases
Spawns(s) ==
  /\ ServiceAt(s, "resolved")
  /\ IF dir[service[s].key] = "absent" THEN TurnsOff(s) ELSE Becomes(s, "started")
  /\ UNCHANGED leases

\* It asks for a shared lease of its directory before it loads anything, and looks for
\* the directory again once it has it.  If the marker that asks for a lease is gone with
\* the directory, it goes on without one.
AsksLease(s) ==
  /\ ServiceAt(s, "started")
  /\ Becomes(s, IF dir[service[s].key] = "absent" THEN "unleased" ELSE "asking")
  /\ UNCHANGED leases
TakesLease(s) ==
  /\ ServiceAt(s, "asking")
  /\ LET k == service[s].key
     IN  IF Lends(k) THEN Takes(k, Shared(s)) /\ Becomes(s, "leased")
         ELSE TurnsOff(s) /\ UNCHANGED leases
RechecksLease(s) ==
  /\ ServiceAt(s, "leased")
  /\ LET k == service[s].key
     IN  IF dir[k] = "absent" THEN TurnsOff(s) /\ Returns(k, Shared(s))
         ELSE Becomes(s, "running") /\ UNCHANGED leases

Exits(s) ==
  /\ service[s].at \in {"started", "asking", "leased", "running", "unleased"} /\ TurnsOff(s)
  /\ Returns(service[s].key, Shared(s))
  /\ UNCHANGED <<catalog, plans, disk, lock, saved, op, damage>>

Serve(s) ==
  \/ Resolves(s) \/ Spawns(s) \/ AsksLease(s) \/ TakesLease(s) \/ RechecksLease(s)
  \/ Exits(s)

-----------------------------------------------------------------------------
Saves ==
  /\ saved' = ~saved /\ UNCHANGED <<catalog, plans, disk, lock, leases, op, service, damage>>

\* Something else damages a file of an installed component.
Damages(k) ==
  /\ dir[k] = "whole" /\ damage < MaxDamage
  /\ dir' = [dir EXCEPT ![k] = "bad"] /\ damage' = damage + 1
  /\ UNCHANGED <<catalog, plans, archive, stage, quarantined, removed, lock, leases, saved, op, service>>

\* A window ends with its threads; what it held is free.
Crashes(a) ==
  /\ op[a] # Idle /\ Ended(a) /\ Unlocks(a)
  /\ leases' = [k \in Keys |-> leases[k] \ {Exclusive(a)}]
  /\ stage' = IF op[a].at # "unpack" THEN stage
              ELSE [stage EXCEPT ![op[a].key] = IF @ = "stray" THEN @ ELSE "part"]
  /\ UNCHANGED <<catalog, plans, dir, archive, quarantined, removed, saved, service, damage>>

Next ==
  \/ \E a \in Windows :
       \/ StartInstall(a) \/ Installation(a) \/ Removal(a) \/ Crashes(a)
       \/ \E k \in Keys : StartRemove(a, k)
  \/ \E s \in Services : Serve(s)
  \/ \E k \in Keys : Damages(k)
  \/ Saves

Spec == Init /\ [][Next]_vars

-----------------------------------------------------------------------------
\* Type invariant.
TypeOK ==
  /\ dir \in [Keys -> {"absent", "whole", "bad"}]
  /\ archive \in [Keys -> {"absent", "part", "whole"}]
  /\ stage \in [Keys -> {"absent", "part", "whole", "stray"}]
  /\ quarantined \cup removed \subseteq Keys /\ lock \subseteq Windows /\ Cardinality(lock) <= 1
  /\ \A k \in Keys : \A h \in leases[k] : h[1] \in Windows \cup Services
  /\ \A a \in Windows : ToSet(op[a].todo) \subseteq Keys

\* Only a verified component gets its versioned name, whatever was resumed or left behind.
OnlyWholeAppears ==
  [][\A k \in Keys : dir[k] = "absent" => dir'[k] \in {"absent", "whole"}]_vars

\* An installed component has what it depends on, at every step of installing, repairing
\* and removing; while a damaged one is being replaced its old copy is kept aside.
DependenciesStay ==
  \A i \in DOMAIN catalog :
    dir[catalog[i].key] # "absent" =>
      \A d \in ToSet(catalog[i].deps) : dir[d] # "absent" \/ d \in quarantined

\* The directory of a service that has its lease is neither removed nor replaced.
RunningIsKept ==
  \A s \in Services : service[s].at = "running" => dir[service[s].key] # "absent"

\* What is in use stays, by other components and by services.
UsedStays == TypeOK /\ DependenciesStay /\ RunningIsKept

\* What a component promises to whoever uses it: it came whole, and it stays.
ComponentsAreSound == []UsedStays /\ OnlyWholeAppears
=============================================================================
