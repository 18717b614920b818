-------------------------------- MODULE Settings --------------------------------
(***************************************************************************)
(* The Windows settings application (state.rs, table_session.rs, save.rs)  *)
(* editing and saving the configuration and the main table, beside a host  *)
(* process that reloads them and programs that write them on their own.    *)
(***************************************************************************)
EXTENDS Reload

VARIABLES
  app  \* the settings application: its drafts, what is unsaved, and how far a save has got

vars == <<files, watcher, writes, foreign, app>>

\* AppState::load: an unreadable configuration is replaced by the default one in memory only,
\* and the user is asked what to do.
Opened(d) ==
  LET good == Readable(Config, d[Config])
      config == IF good THEN d[Config] ELSE DefaultConfig
      path == Only(config.refs)
  IN [config |-> config, path |-> path, table |-> d[path],
      dirty |-> FALSE, tableDirty |-> FALSE, asking |-> ~good, step |-> "edit"]

Differs(a) == IF a.asking THEN {Config} ELSE {}

Idle == app.step = "edit" /\ UNCHANGED watcher

\* "Reload": what was not saved is dropped.
Reopen ==
  /\ Idle /\ app' = Opened(disk)
  /\ foreign' = Differs(app')
  /\ UNCHANGED <<files, writes>>

\* The application ends, in the middle of a save perhaps, and is started again.
Restart ==
  /\ Resolve /\ app' = Opened(disk') /\ foreign' = Differs(app')
  /\ UNCHANGED <<watcher, writes>>

EditConfig(config) ==
  /\ Idle /\ config.refs = app.config.refs /\ config # app.config
  /\ app' = [app EXCEPT !.config = config, !.dirty = TRUE]
  /\ UNCHANGED <<files, writes, foreign>>

\* Mutant of Chosen: the caller does not mark the configuration dirty.
ChosenQuietly(m, table) ==
  [app EXCEPT !.path = m, !.table = table, !.tableDirty = FALSE, !.config.refs = {m}]

\* TableSession::select and save_as end alike, and their callers mark the configuration dirty.
Chosen(m, table) ==
  [app EXCEPT !.path = m, !.table = table, !.tableDirty = FALSE,
              !.config.refs = {m}, !.dirty = TRUE]

Select(m) ==
  /\ Idle /\ ~app.tableDirty /\ Readable(m, disk[m])
  /\ app' = Chosen(m, disk[m]) /\ foreign' = foreign \ {m}
  /\ UNCHANGED <<files, writes>>

\* A table that could not be read is not shown for editing.
EditTable(table) ==
  /\ Idle /\ Readable(app.path, app.table) /\ table # app.table
  /\ app' = [app EXCEPT !.table = table, !.tableDirty = TRUE]
  /\ UNCHANGED <<files, writes, foreign>>

\* validate_references: what a table refers to must be readable before it is saved.
ReferencesAreReadable == \A a \in app.table.refs : Readable(a, disk[a])

SaveAs(m) ==
  /\ Idle /\ Readable(app.path, app.table) /\ disk[m] = Absent /\ ReferencesAreReadable
  /\ Write(m, app.table) /\ foreign' = foreign \ {m}
  /\ app' = Chosen(m, app.table)

\* save::save.  Everything is checked before the first of the two files is written.
Save ==
  /\ Idle /\ ReferencesAreReadable
  /\ app' = [app EXCEPT !.step = IF app.tableDirty THEN "table" ELSE "config"]
  /\ UNCHANGED <<files, writes, foreign>>

\* A check or a write fails; a table that was written stays saved.
SaveFails ==
  /\ app' = [app EXCEPT !.step = "edit", !.dirty = TRUE]
  /\ UNCHANGED <<files, watcher, writes, foreign>>

SaveTable ==
  /\ app.step = "table"
  /\ Write(app.path, app.table) /\ foreign' = foreign \ {app.path}
  /\ app' = [app EXCEPT !.step = "config", !.tableDirty = FALSE]
  /\ UNCHANGED watcher

SaveConfig ==
  /\ app.step = "config"
  /\ Write(Config, app.config) /\ foreign' = foreign \ {Config}
  /\ app' = [app EXCEPT !.step = "edit", !.dirty = FALSE]
  /\ UNCHANGED watcher

\* The answers to the question about an unreadable configuration.
OverwriteWithDefault ==
  /\ Idle /\ app.asking
  /\ Write(Config, DefaultConfig) /\ foreign' = foreign \ {Config}
  /\ app' = [app EXCEPT !.config = DefaultConfig, !.asking = FALSE]

KeepUnreadable ==
  /\ Idle /\ app.asking
  /\ app' = [app EXCEPT !.asking = FALSE]
  /\ UNCHANGED <<files, writes, foreign>>

\* The user dictionary is saved at every change of it.
EditUser(entries) ==
  /\ Idle /\ Write(User, entries) /\ UNCHANGED <<foreign, app>>

AppStep ==
  \/ Reopen \/ Restart \/ Save \/ SaveFails \/ SaveTable \/ SaveConfig
  \/ OverwriteWithDefault \/ KeepUnreadable
  \/ \E c \in Editions[Config] : EditConfig(c)
  \/ \E m \in Mains : Select(m) \/ SaveAs(m)
  \/ \E t \in Editions[app.path] : EditTable(t)
  \/ \E e \in Editions[User] : EditUser(e)

-----------------------------------------------------------------------------
Init ==
  /\ disk \in FirstDisks
  /\ dirs = FirstDirs /\ watched = {} /\ channel = {} /\ writes = 0 /\ unseen = {}
  /\ InitWatcher
  /\ app = Opened(disk)
  /\ foreign = Differs(app)

Next ==
  \/ WatcherStep /\ UNCHANGED app
  \/ AppStep
  \/ \E p \in ByOthers : \E c \in Contents(p) : External(p, c) /\ UNCHANGED <<watcher, app>>
  \/ \E d \in Dirs : MakeDir(d) /\ UNCHANGED <<watcher, app>>

\* The watcher's thread runs.
Spec == Init /\ [][Next]_vars /\ WF_vars(WatcherStep /\ UNCHANGED app)
-----------------------------------------------------------------------------
(* Properties. *)

\* Type invariant.
TypeOK ==
  /\ \A p \in Paths : disk[p] \in Contents(p)
  /\ dirs \subseteq Dirs /\ watched \subseteq dirs /\ channel \subseteq Paths \cup Dirs
  /\ writes \in 0..MaxWrites /\ unseen \subseteq Paths /\ foreign \subseteq Paths
  /\ targets \subseteq Paths /\ lost \subseteq Paths
  /\ DOMAIN published \subseteq Paths /\ \A p \in DOMAIN published : published[p] \in Contents(p)
  /\ reader.at \in {"wait", "resolve", "config", "main", "tables", "publish", "watch"}
  /\ DOMAIN reader.got \subseteq Paths
  /\ \A p \in DOMAIN reader.got : reader.got[p] \in Contents(p)
  /\ app \in [config : Editions[Config], path : Mains,
              table : UNION {Contents(m) : m \in Mains}, dirty : BOOLEAN, tableDirty : BOOLEAN,
              asking : BOOLEAN, step : {"edit", "table", "config"}]

\* When the watcher's thread rests and every report is handled, sessions are given what the files
\* hold, however writes and reads interleaved and whatever failed in between (reload.rs:38-47).
\* The two gaps of the code are named: files that changed before they were watched, and files a
\* failed load wanted but did not report.
NothingIsMissed ==
  /\ reader.at = "wait" /\ channel = {} /\ Loadable(disk)
  /\ Deps(disk) \cap (unseen \cup lost) = {}
  => published = Load(disk)

\* Reload policy: a snapshot that was read whole is never replaced by one with a missing or
\* broken part (reload.rs:54-68).
GoodIsKept == [][Whole(published) => Whole(published')]_vars

\* The watcher neither misses a change nor makes things worse: both halves of its policy.
ReloadsAreSound == [](TypeOK /\ NothingIsMissed) /\ GoodIsKept

\* What the settings application shows as saved is on the disk, unless another program has
\* changed it: over selections, copies, partial saves and restarts (save.rs, table_session.rs).
CleanIsSaved ==
  app.step = "edit" =>
    /\ ~app.dirty /\ Config \notin foreign => disk[Config] = app.config
    /\ ~app.tableDirty /\ app.path \notin foreign => disk[app.path] = app.table

\* A load that fails does not end the thread: once the files can be loaded again and their
\* changes were noticed, sessions are given them (reload.rs:30-48).
Converges ==
  <>[](Loadable(disk) /\ Deps(disk) \cap (unseen \cup lost) = {}) => <>[](published = Load(disk))

\* reload.rs:60 says of a load that failed over new references: they are watched, and once the
\* files are repaired the configuration need not be saved again.  This the code does not keep
\* when a table was unreadable from the start.
RepairIsNoticed ==
  /\ reader.at = "wait" /\ channel = {} /\ Loadable(disk) /\ Deps(disk) \cap unseen = {}
  => published = Load(disk)

\* state.rs:136: a configuration that could not be read is overwritten only after the user
\* confirmed it.  This the code does not keep.
BrokenIsKept ==
  [][app.asking /\ disk[Config] = Broken /\ app' # app => disk'[Config] = Broken \/ ~app'.asking]_vars
================================================================================
