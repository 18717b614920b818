-------------------------------- MODULE Reload --------------------------------
(***************************************************************************)
(* Hot reload in one host process (reload.rs).  A thread is told of        *)
(* changes, reads the files one after the other while others may write     *)
(* them, publishes a snapshot of what it read and watches what that        *)
(* snapshot depends on.                                                    *)
(***************************************************************************)
EXTENDS Files

VARIABLES
  published, \* the snapshot sessions are given, as the contents it was built from
  targets,   \* the files the thread looks for
  lost       \* history: files a failed load wanted and the thread does not look for

watcher == <<published, targets, watched, reader, lost>>

Only(s) == CHOOSE x \in s : TRUE
Whole(s) == \A p \in DOMAIN s : Readable(p, s[p])
Loadable(d) == d[Config].refs # {} /\ \A p \in Deps(d) : Readable(p, d[p])
Load(d) == [p \in Deps(d) |-> d[p]]

\* The first load tolerates auxiliary tables that cannot be read.  When anything else fails the
\* main table is tried once more alone, under the default configuration if need be.
Startup(d) ==
  LET config == IF Readable(Config, d[Config]) THEN d[Config] ELSE DefaultConfig
      alone == {Config, User} \cup config.refs
      used == [d EXCEPT ![Config] = config]
      tolerated == Readable(Config, d[Config]) /\ \A p \in alone : Readable(p, d[p])
  IN [p \in IF tolerated THEN Deps(used) ELSE alone |-> used[p]]

InitWatcher ==
  /\ published = Startup(disk) /\ targets = DOMAIN published
  /\ reader = [at |-> "watch", got |-> <<>>] /\ lost = {}

\* The nearest directory that exists.
Nearest(d) ==
  CHOOSE a \in Above[d] \cap dirs : \A b \in Above[d] \cap dirs : b \in Above[a]

\* update_watches
Watch ==
  /\ reader.at = "watch"
  /\ watched' = {Nearest(DirOf[t]) : t \in targets}
  /\ reader' = [at |-> "wait", got |-> <<>>]
  /\ UNCHANGED <<files, published, targets, lost, writes, foreign>>

Matches(e) == \E t \in targets : t = e \/ e \in Above[DirOf[t]]

Receive(e) ==
  /\ reader.at = "wait" /\ e \in channel
  /\ channel' = channel \ {e}
  /\ reader' = IF Matches(e) THEN [at |-> "resolve", got |-> <<>>] ELSE reader
  /\ UNCHANGED <<disk, dirs, unseen, published, targets, watched, lost, writes, foreign>>

ResolveConfig ==
  /\ reader.at = "resolve"
  /\ Resolve /\ foreign' = foreign \cup {p \in Paths : disk'[p] # disk[p]}
  /\ reader' = [reader EXCEPT !.at = "config"]
  /\ UNCHANGED <<published, targets, watched, lost, writes>>

\* Mutant of After: an error ends the thread.
AfterError(got, good, next) == [at |-> IF good THEN next ELSE "ended", got |-> got]

\* A load that fails keeps the snapshot and the targets.
After(got, good, next) == [at |-> IF good THEN next ELSE "watch", got |-> got]

Take(p, good, next) ==
  LET got == [q \in DOMAIN reader.got \cup {p} |-> IF q = p THEN disk[p] ELSE reader.got[q]] IN
  /\ reader' = After(got, good, next)
  /\ lost' = IF good THEN lost ELSE DOMAIN got \ targets
  /\ unseen' = unseen \ {p}
  /\ UNCHANGED <<disk, dirs, channel, published, targets, watched, writes, foreign>>

ReadConfig ==
  /\ reader.at = "config"
  /\ Take(Config, Readable(Config, disk[Config]), "main")

Main == Only(reader.got[Config].refs)

ReadMain ==
  /\ reader.at = "main"
  /\ Take(Main, Readable(Main, disk[Main]), "tables")

\* What is wrong with an auxiliary table is noted, and the load goes on.
ReadTable(a) ==
  /\ reader.at = "tables" /\ a \in reader.got[Main].refs \ DOMAIN reader.got
  /\ Take(a, TRUE, "tables")

ReadUser ==
  /\ reader.at = "tables" /\ reader.got[Main].refs \subseteq DOMAIN reader.got
  /\ Take(User, Readable(User, disk[User]), "publish")

\* Mutant of TargetsAfter: the new references are not looked for.
TargetsOfOld(got) == IF Whole(got) THEN DOMAIN got ELSE DOMAIN published

\* publish_reload keeps the old snapshot when an auxiliary table could not be read, and looks
\* for that table as well.
SnapshotAfter(got) == IF Whole(got) THEN got ELSE published
TargetsAfter(got) == IF Whole(got) THEN DOMAIN got ELSE DOMAIN published \cup DOMAIN got

Publish ==
  /\ reader.at = "publish"
  /\ published' = SnapshotAfter(reader.got)
  /\ targets' = TargetsAfter(reader.got)
  /\ reader' = [reader EXCEPT !.at = "watch"] /\ lost' = {}
  /\ UNCHANGED <<files, watched, writes, foreign>>

WatcherStep ==
  \/ Watch \/ ResolveConfig \/ ReadConfig \/ ReadMain \/ ReadUser \/ Publish
  \/ \E e \in channel : Receive(e)
  \/ \E a \in Auxiliaries : ReadTable(a)
================================================================================
