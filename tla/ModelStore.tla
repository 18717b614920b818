------------------------------ MODULE ModelStore ------------------------------
(***************************************************************************)
(* model_input: the store of model packages (package.rs), the resumable    *)
(* download into it (download.rs, download_manager.rs), the catalog        *)
(* operations (catalog.rs) and the panels that use them                    *)
(* (windows/settings: model_catalog.rs, model_downloads.rs).               *)
(*                                                                         *)
(* Models do not share files, so the module follows one model: its         *)
(* download workspace, its receipt and its directory in the store.  Its    *)
(* weights are Size units long; a directory is told apart by what          *)
(* validate looks at.  A settings window has a download thread and a       *)
(* catalog thread, and several windows may work on one store.              *)
(***************************************************************************)
EXTENDS Naturals, FiniteSets

CONSTANTS
  Windows, \* the settings windows that use the store
  Size,    \* bound: length of the weights
  Chunk    \* length of one range request (8 MiB)

ASSUME StoreAssumption ==
  Windows # {} /\ Size \in Nat \ {0} /\ Chunk \in Nat \ {0}

VARIABLES
  stage,     \* .downloads/<model>/package
  identity,  \* .downloads/<model>/identity.json
  receipt,   \* .receipts/<model>.json exists
  lock,      \* who holds .downloads/<model>.lock
  installed, \* the model's directory in the store, if there is one
  saved,     \* the saved configuration selects the model
  task,      \* the download thread of each window
  work,      \* the catalog thread of each window
  ui         \* the model panel of each window

files == <<stage, identity, receipt, lock, installed>>
vars == <<stage, identity, receipt, lock, installed, saved, task, work, ui>>

-----------------------------------------------------------------------------
\* What validate asks of a directory: a fitting manifest, every byte of the pinned
\* files, nothing besides them, and a policy bound to these weights.
Whole == [manifest |-> TRUE, bytes |-> Size, sound |-> TRUE, alone |-> TRUE, policy |-> TRUE]
Fresh == [manifest |-> FALSE, bytes |-> 0, sound |-> TRUE, alone |-> TRUE, policy |-> FALSE]

BytesFit(p) == p.bytes = Size /\ p.sound
NothingElse(p) == p.alone
PolicyFits(p) == p.policy

ValidateLoosely(p) == p.manifest /\ p.bytes = Size /\ NothingElse(p) /\ PolicyFits(p)
Validate(p) == p.manifest /\ BytesFit(p) /\ NothingElse(p) /\ PolicyFits(p)

\* The folders a user may offer, and what is left of one whose deletion failed.
Sources ==
  {Whole, [Whole EXCEPT !.manifest = FALSE], [Whole EXCEPT !.bytes = 0],
   [Whole EXCEPT !.sound = FALSE], [Whole EXCEPT !.alone = FALSE],
   [Whole EXCEPT !.policy = FALSE]}
Remains(p) == {[p EXCEPT !.manifest = FALSE], [p EXCEPT !.bytes = 0]}

Listed == \E p \in installed : Validate(p)

NoTask == [at |-> "idle", end |-> 0, cancel |-> FALSE, result |-> "stopped", phase |-> "idle"]
NoWork == [does |-> "none", at |-> "idle", staging |-> Fresh, listed |-> FALSE, ok |-> TRUE]
Listing == [NoWork EXCEPT !.does = "list", !.at = "list"]
Panel(draft) ==
  [seen |-> "idle", refresh |-> FALSE, clicked |-> TRUE, listed |-> FALSE, draft |-> draft]

Running(a) == task[a].at # "idle"
\* "going" stands for starting, downloading and verifying, "stopped" for cancelled and
\* failed: the panel offers the same buttons in each.
Shows(phase) == phase \in {"going", "cancelling"}

Init ==
  /\ stage = Fresh /\ identity = "none" /\ receipt = FALSE /\ lock = {}
  /\ installed \in {{}, {Whole}} /\ saved \in {FALSE, installed # {}}
  /\ task = [a \in Windows |-> NoTask]
  /\ work = [a \in Windows |-> Listing]
  /\ ui = [a \in Windows |-> Panel(saved)]

-----------------------------------------------------------------------------
\* The download thread.  It reports a phase when it publishes progress.
Steps(a, at) == task' = [task EXCEPT ![a].at = at]
Publishes(a, phase, at) == task' = [task EXCEPT ![a].phase = phase, ![a].at = at]

Locks(a, thread) == /\ lock = {} /\ lock' = {<<a, thread>>}
Unlocks(a, thread) == lock' = lock \ {<<a, thread>>}

Fails(a) ==
  /\ task' = [task EXCEPT ![a].at = "final", ![a].result = "stopped", ![a].end = 0]
  /\ Unlocks(a, "download")

At(a, at) == task[a].at = at /\ UNCHANGED <<saved, work, ui>>

\* Each place that asks whether the user has cancelled.
Goes(a, at) ==
  IF task[a].cancel THEN Fails(a) ELSE Steps(a, at) /\ UNCHANGED lock

TakesLock(a) ==
  /\ At(a, "lock")
  /\ IF lock = {} THEN Locks(a, "download") /\ Steps(a, "identify") ELSE Fails(a)
  /\ UNCHANGED <<stage, identity, receipt, installed>>

\* The workspace belongs to one pinned manifest.  A new identity is created, then written.
Identifies(a) ==
  /\ At(a, "identify")
  /\ \/ identity = "none" /\ identity' = "torn" /\ Steps(a, "pin") /\ UNCHANGED lock
     \/ identity = "pinned" /\ Steps(a, "space") /\ UNCHANGED <<identity, lock>>
     \/ identity = "torn" /\ Fails(a) /\ UNCHANGED identity
  /\ UNCHANGED <<stage, receipt, installed>>

Pins(a) ==
  /\ At(a, "pin") /\ identity' = "pinned" /\ Steps(a, "space")
  /\ UNCHANGED <<stage, receipt, lock, installed>>

\* The disk may be too full; the policy file comes with the program.
Prepares(a) ==
  /\ At(a, "space")
  /\ \/ Fails(a) /\ UNCHANGED stage
     \/ Goes(a, "transfer") /\ stage' = [stage EXCEPT !.policy = ~task[a].cancel \/ @]
  /\ UNCHANGED <<identity, receipt, installed>>

\* A complete file is kept if its hash fits, and started again otherwise.
Resumes(a) ==
  /\ At(a, "transfer")
  /\ IF ~task[a].cancel /\ stage.bytes = Size /\ stage.sound
     THEN Publishes(a, "going", "verify") /\ UNCHANGED <<stage, lock>>
     ELSE /\ Goes(a, "request")
          /\ stage' = IF ~task[a].cancel /\ stage.bytes >= Size
                      THEN [stage EXCEPT !.bytes = 0, !.sound = TRUE] ELSE stage
  /\ UNCHANGED <<identity, receipt, installed>>

Requests(a) == /\ At(a, "request") /\ Goes(a, "answer")
               /\ UNCHANGED <<stage, identity, receipt, installed>>

Least(m, n) == IF m < n THEN m ELSE n

\* 206 continues, 200 sends the whole file again, anything else ends the attempt.
Answers(a) ==
  /\ At(a, "answer")
  /\ \/ /\ task' = [task EXCEPT ![a].phase = "going", ![a].at = "read",
                                ![a].end = Least(stage.bytes + Chunk, Size)]
        /\ UNCHANGED <<stage, lock>>
     \/ /\ task' = [task EXCEPT ![a].phase = "going", ![a].at = "read",
                                ![a].end = Size]
        /\ stage' = [stage EXCEPT !.bytes = 0, !.sound = TRUE] /\ UNCHANGED lock
     \/ Fails(a) /\ UNCHANGED stage
  /\ UNCHANGED <<identity, receipt, installed>>

Reads(a) == /\ At(a, "read") /\ Goes(a, "data")
            /\ UNCHANGED <<stage, identity, receipt, installed>>

\* More bytes, right or wrong ones, the end of the body, or an error.  What has been
\* written stays; a body longer than the range is refused, a shorter one is a failure.
Receives(a) ==
  /\ At(a, "data")
  /\ \/ /\ stage.bytes < task[a].end
        /\ \E right \in BOOLEAN :
             stage' = [stage EXCEPT !.bytes = @ + 1, !.sound = @ /\ right]
        /\ Publishes(a, "going", "read") /\ UNCHANGED lock
     \/ /\ stage.bytes = task[a].end
        /\ task' = [task EXCEPT ![a].at = IF stage.bytes < Size THEN "request" ELSE "hash",
                                ![a].end = 0]
        /\ UNCHANGED <<stage, lock>>
     \/ Fails(a) /\ UNCHANGED stage
  /\ UNCHANGED <<identity, receipt, installed>>

HashesAgain(a) ==
  /\ At(a, "hash")
  /\ IF stage.sound \/ task[a].cancel
     THEN Goes(a, "verify") /\ UNCHANGED stage
     ELSE Steps(a, "request") /\ stage' = [stage EXCEPT !.bytes = 0, !.sound = TRUE] /\ UNCHANGED lock
  /\ UNCHANGED <<identity, receipt, installed>>
Hashes(a) ==
  /\ At(a, "hash")
  /\ IF stage.sound \/ task[a].cancel
     THEN Goes(a, "verify") /\ UNCHANGED stage
     ELSE Fails(a) /\ stage' = [stage EXCEPT !.bytes = 0, !.sound = TRUE]
  /\ UNCHANGED <<identity, receipt, installed>>

\* The manifest is written and the whole stage validated.
Verifies(a) ==
  /\ At(a, "verify")
  /\ stage' = [stage EXCEPT !.manifest = TRUE]
  /\ IF ~Validate(stage') THEN Fails(a)
     ELSE Publishes(a, "going", "receipt") /\ UNCHANGED lock
  /\ UNCHANGED <<identity, receipt, installed>>

WritesReceipt(a) ==
  /\ At(a, "receipt") /\ Goes(a, "exists") /\ receipt' = (receipt \/ ~task[a].cancel)
  /\ UNCHANGED <<stage, identity, installed>>

LooksForInstalled(a) ==
  /\ At(a, "exists")
  /\ IF installed # {} THEN Fails(a) ELSE Steps(a, "rename") /\ UNCHANGED lock
  /\ UNCHANGED <<stage, identity, receipt, installed>>

\* A directory is never renamed over another one.
Renames(a) ==
  /\ At(a, "rename")
  /\ IF installed # {}
     THEN Fails(a) /\ UNCHANGED <<stage, installed>>
     ELSE /\ installed' = {stage} /\ stage' = Fresh
          /\ task' = [task EXCEPT ![a].phase = "ready", ![a].at = "final", ![a].result = "ready"]
          /\ Unlocks(a, "download")
  /\ UNCHANGED <<identity, receipt>>

\* The last phase is written first and the task marked as ended afterwards.
Finishes(a) ==
  /\ At(a, "final") /\ Publishes(a, task[a].result, "stop") /\ UNCHANGED files
Stops(a) ==
  /\ At(a, "stop") /\ UNCHANGED files
  /\ task' = [task EXCEPT ![a] = [NoTask EXCEPT !.phase = task[a].phase]]

Download(a) ==
  \/ TakesLock(a) \/ Identifies(a) \/ Pins(a) \/ Prepares(a) \/ Resumes(a) \/ Requests(a)
  \/ Answers(a) \/ Reads(a) \/ Receives(a) \/ Hashes(a) \/ Verifies(a) \/ WritesReceipt(a)
  \/ LooksForInstalled(a) \/ Renames(a) \/ Finishes(a) \/ Stops(a)

-----------------------------------------------------------------------------
\* The catalog thread.
Doing(a, does, at) ==
  work[a].does = does /\ work[a].at = at /\ UNCHANGED <<saved, task, ui>>
Continues(a, at) == work' = [work EXCEPT ![a].at = at]
Refused(a) == work' = [work EXCEPT ![a] = [NoWork EXCEPT !.at = "sent", !.ok = FALSE]]

\* import: the folder is checked and validated, and the name must be free.
ImportChecks(a) ==
  /\ Doing(a, "import", "check")
  /\ \E source \in Sources, compatible \in BOOLEAN :
       IF compatible /\ Validate(source) /\ installed = {} THEN Continues(a, "copy") ELSE Refused(a)
  /\ UNCHANGED files

\* The listed files are copied as they are by then, the manifest as it was validated, and
\* only a valid copy gets the name.
ImportCopies(a) ==
  /\ Doing(a, "import", "copy")
  /\ \E source \in Sources :
       work' = [work EXCEPT ![a].staging = [source EXCEPT !.manifest = TRUE, !.alone = TRUE],
                            ![a].at = "rename"]
  /\ UNCHANGED files
ImportRenames(a) ==
  /\ Doing(a, "import", "rename")
  /\ IF Validate(work[a].staging) /\ installed = {}
     THEN installed' = {work[a].staging} /\ work' = [work EXCEPT ![a] = Listing]
     ELSE Refused(a) /\ UNCHANGED installed
  /\ UNCHANGED <<stage, identity, receipt, lock>>

\* remove: the saved selection is asked, not the draft; then the workspace goes, under
\* its lock, and then the package.  Any of the deletions may stop half way.
RemoveChecks(a) ==
  /\ Doing(a, "remove", "config")
  /\ IF saved THEN Refused(a) ELSE Continues(a, "cache")
  /\ UNCHANGED files

RemoveCacheAnyway(a) ==
  /\ Doing(a, "remove", "cache") /\ lock' = lock \cup {<<a, "catalog">>}
  /\ identity' = "none" /\ stage' = Fresh /\ receipt' = FALSE /\ Continues(a, "delete")
  /\ UNCHANGED installed
RemoveCache(a) ==
  /\ Doing(a, "remove", "cache")
  /\ \/ /\ Locks(a, "catalog") /\ Continues(a, "delete")
        /\ identity' = "none" /\ stage' = Fresh /\ receipt' = FALSE
     \/ /\ lock = {} /\ Refused(a) /\ identity' = "none" /\ UNCHANGED <<lock, stage, receipt>>
     \/ lock # {} /\ Refused(a) /\ UNCHANGED <<lock, identity, stage, receipt>>
  /\ UNCHANGED installed

RemoveDeletes(a) ==
  /\ Doing(a, "remove", "delete")
  /\ \/ installed # {} /\ installed' = {} /\ Continues(a, "unlock") /\ UNCHANGED lock
     \/ /\ installed' \in IF installed = {} THEN {{}}
                          ELSE {{left} : left \in UNION {Remains(p) : p \in installed}}
        /\ Refused(a) /\ Unlocks(a, "catalog")
  /\ UNCHANGED <<stage, identity, receipt>>

RemoveUnlocks(a) ==
  /\ Doing(a, "remove", "unlock") /\ Unlocks(a, "catalog")
  /\ work' = [work EXCEPT ![a] = Listing]
  /\ UNCHANGED <<stage, identity, receipt, installed>>

Lists(a) ==
  /\ work[a].at = "list" /\ UNCHANGED <<saved, task, ui>> /\ UNCHANGED files
  /\ work' = [work EXCEPT ![a] = [NoWork EXCEPT !.at = "sent", !.listed = Listed]]

Catalog(a) ==
  \/ ImportChecks(a) \/ ImportCopies(a) \/ ImportRenames(a) \/ RemoveChecks(a)
  \/ RemoveCache(a) \/ RemoveDeletes(a) \/ RemoveUnlocks(a) \/ Lists(a)

-----------------------------------------------------------------------------
\* The panel.  A frame takes the catalog thread's result, reads the phase, and lists
\* again after a download; what the user clicks in it acts on what the frame showed.
ShowsReady(a) == task[a].phase = "ready" /\ ui[a].seen # "ready"

Frame(a) ==
  LET sent == work[a].at = "sent"
      free == work[a].at \in {"idle", "sent"}
      refresh == ui[a].refresh \/ ShowsReady(a)
  IN  /\ ui' = [ui EXCEPT ![a].seen = task[a].phase, ![a].clicked = FALSE,
                          ![a].refresh = refresh /\ ~free,
                          ![a].listed = IF sent /\ work[a].ok THEN work[a].listed ELSE @]
      /\ work' = IF refresh /\ free
                 THEN [work EXCEPT ![a] = Listing]
                 ELSE IF sent THEN [work EXCEPT ![a] = NoWork] ELSE work
      /\ UNCHANGED <<saved, task>> /\ UNCHANGED files

Clicks(a) == ~ui[a].clicked /\ ui' = [ui EXCEPT ![a].clicked = TRUE]

NewTask == [NoTask EXCEPT !.at = "lock", !.phase = "going"]

ClickStart(a) ==
  /\ Clicks(a) /\ ~Shows(ui[a].seen) /\ ~ui[a].listed
  /\ task' = IF Running(a) THEN task ELSE [task EXCEPT ![a] = NewTask]
  /\ UNCHANGED <<saved, work>> /\ UNCHANGED files

\* The task's thread moves on between the frame's look at the phase and the click.
ClickCancel(a) ==
  /\ Clicks(a) /\ Shows(ui[a].seen) /\ ui[a].seen # "cancelling"
  /\ task' = IF Running(a)
             THEN [task EXCEPT ![a].cancel = TRUE, ![a].phase = "cancelling"] ELSE task
  /\ UNCHANGED <<saved, work>> /\ UNCHANGED files

ClickCatalog(a, does, at) ==
  /\ Clicks(a) /\ work[a].at = "idle"
  /\ work' = [work EXCEPT ![a] = [NoWork EXCEPT !.does = does, !.at = at]]
  /\ UNCHANGED <<saved, task>> /\ UNCHANGED files
ClickImport(a) == ClickCatalog(a, "import", "check")
ClickList(a) == ClickCatalog(a, "list", "list")
ClickRemove(a) == ui[a].listed /\ ~ui[a].draft /\ ClickCatalog(a, "remove", "config")

\* The selection cannot be changed while the catalog thread works.
MayChoose(a) == work[a].at = "idle"
ClickChoose(a) ==
  /\ ~ui[a].clicked /\ MayChoose(a) /\ (~ui[a].draft => ui[a].listed)
  /\ ui' = [ui EXCEPT ![a].clicked = TRUE, ![a].draft = ~@]
  /\ UNCHANGED <<saved, task, work>> /\ UNCHANGED files

ClickSave(a) ==
  /\ Clicks(a) /\ saved' = ui[a].draft /\ UNCHANGED <<task, work>> /\ UNCHANGED files

\* A window's process ends at any point: its threads are gone and its locks are free.
Ends(a) ==
  /\ task' = [task EXCEPT ![a] = NoTask]
  /\ lock' = {holder \in lock : holder[1] # a}
  /\ work' = [work EXCEPT ![a] = Listing] /\ ui' = [ui EXCEPT ![a] = Panel(saved)]
  /\ UNCHANGED <<stage, identity, receipt, installed, saved>>

Next ==
  \E a \in Windows :
       \/ Download(a) \/ Ends(a) \/ Catalog(a)
       \/ Frame(a) \/ ClickStart(a) \/ ClickCancel(a) \/ ClickImport(a)
       \/ ClickList(a) \/ ClickRemove(a) \/ ClickChoose(a) \/ ClickSave(a)

\* Threads go on: every network call has its time limit, and an open panel is drawn.
Fairness ==
  \A a \in Windows : WF_vars(Download(a)) /\ WF_vars(Catalog(a)) /\ WF_vars(Frame(a))

Spec == Init /\ [][Next]_vars /\ Fairness

-----------------------------------------------------------------------------
\* Type invariant.
TypeOK ==
  /\ identity \in {"none", "torn", "pinned"} /\ receipt \in BOOLEAN /\ saved \in BOOLEAN
  /\ Cardinality(lock) <= 1 /\ Cardinality(installed) <= 1
  /\ \A p \in {stage} \cup installed : DOMAIN p = DOMAIN Whole /\ p.bytes \in 0..Size
  /\ \A a \in Windows :
       /\ DOMAIN task[a] = DOMAIN NoTask /\ DOMAIN work[a] = DOMAIN NoWork
       /\ DOMAIN ui[a] = DOMAIN Panel(saved)

\* A directory that appears under the model's name holds every pinned byte, its manifest
\* and its policy, whatever was resumed, mixed from two sources or replaced meanwhile.
OnlyWholeAppears == [][installed = {} => installed' \subseteq {Whole}]_vars

\* What a download has validated is still all there when it renames it: nobody else
\* writes in the workspace or clears it.
ValidatedStays ==
  \A a \in Windows : task[a].at \in {"receipt", "exists", "rename"} => stage = Whole

\* A removal that succeeds leaves neither the package, nor its receipt, nor anything to
\* resume from, although a download of the same model may be asked for at any time.
RemovedIsGone ==
  \A a \in Windows :
    work[a].at = "unlock" =>
      installed = {} /\ stage = Fresh /\ identity = "none" /\ ~receipt

\* The lock of a model keeps downloads, imports and removals apart: nothing that one of them has
\* just made sure of is undone by another.
WorkIsExclusive == TypeOK /\ ValidatedStays /\ RemovedIsGone

\* The package of the saved selection is not removed.  With a second window this fails: it may
\* save the selection after the first has checked it.
SelectedStays == [][saved /\ installed # {} => installed' = installed]_vars

\* The model's directory comes whole, and stays while it is selected.
StoreIsSound == OnlyWholeAppears /\ SelectedStays

\* A download comes to an end, however the server answers and whoever holds the lock.
DownloadEnds == \A a \in Windows : Running(a) ~> ~Running(a)

\* What a window has downloaded gets listed in it, if it stays in the store; the panel
\* notices the change of the phase, so it must have been drawn since an earlier one.
DownloadIsListed ==
  \A a \in Windows :
    task[a].phase = "ready" /\ ui[a].seen # "ready" /\ ~Running(a) /\ Listed
      ~> ui[a].listed \/ ~Listed \/ task[a].phase # "ready"

\* Both ends of a download: that of its thread, and what the user gets of it.
DownloadsFinish == DownloadEnds /\ DownloadIsListed

\* A download that has ended is not shown as going on (docs/model-input-download-ui.md:5).  This
\* the code does not keep.
EndedIsShown ==
  \A a \in Windows : ~Running(a) => ~Shows(task[a].phase)

\* An interrupted download can be taken up again (docs/model-input-downloads.md:14).  This the
\* code does not keep.
WorkspaceCanResume ==
  identity = "torn" => \E a \in Windows : task[a].at = "pin"
=============================================================================
