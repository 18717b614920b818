---------------------------- MODULE SettingsProofs ----------------------------
(***************************************************************************)
(* Theorems about Settings, for every set of tables, editions and          *)
(* directories, however many changes there are and whoever makes them.     *)
(*                                                                         *)
(* What a session is given is compared with the disk only while the        *)
(* watcher rests; in between, the proofs follow what its thread has read.  *)
(* A file read is what the disk holds, or its change waits in the channel, *)
(* or it fell in a gap that the code leaves open and the model names.      *)
(*                                                                         *)
(* The last section is about Registration, for any lists of steps and      *)
(* whichever of them fail.                                                 *)
(***************************************************************************)
EXTENDS Settings, Sequences, TLAPS

\* What a load may have read.
AnyContents == UNION {Contents(p) : p \in Paths}
Snapshots ==
  {s \in UNION {[d -> AnyContents] : d \in SUBSET Paths} :
     \A p \in DOMAIN s : s[p] \in Contents(p)}

Apps ==
  [config : Editions[Config], path : Mains, table : UNION {Contents(m) : m \in Mains},
   dirty : BOOLEAN, tableDirty : BOOLEAN, asking : BOOLEAN, step : {"edit", "table", "config"}]

Events == Paths \cup Dirs

TypedFiles ==
  /\ \A p \in Paths : disk[p] \in Contents(p)
  /\ FirstDirs \subseteq dirs /\ dirs \subseteq Dirs /\ channel \subseteq Events
  /\ unseen \subseteq Paths /\ foreign \subseteq Paths /\ writes \in 0..MaxWrites
TypedWatcher ==
  /\ watched \subseteq dirs /\ targets \subseteq Paths /\ lost \subseteq Paths
  /\ published \in Snapshots
  /\ reader.at \in {"wait", "resolve", "config", "main", "tables", "publish", "watch"}
  /\ reader.got \in Snapshots
Typed == TypedFiles /\ TypedWatcher /\ app \in Apps

\* At rest, a change of any target is reported.
TargetsAreWatched ==
  reader.at = "wait" => \A t \in targets : Above[DirOf[t]] \cap watched # {}

\* What was read is what the disk holds, but for changes that are reported or in the gaps.
Current(s, gaps) == \A p \in DOMAIN s : s[p] = disk[p] \/ p \in channel \cup unseen \cup gaps

\* How far a load has got.
HasConfig(s) == Config \in DOMAIN s /\ Readable(Config, s[Config])
HasMain(s, m) ==
  HasConfig(s) /\ s[Config].refs = {m} /\ m \in DOMAIN s /\ Readable(m, s[m])
Reading ==
  /\ reader.at \in {"resolve", "config"} => DOMAIN reader.got = {}
  /\ reader.at = "main" => HasConfig(reader.got) /\ DOMAIN reader.got = {Config}
  /\ reader.at = "tables" =>
       \E m \in Mains :
         /\ HasMain(reader.got, m)
         /\ DOMAIN reader.got \subseteq {Config, m} \cup reader.got[m].refs
  /\ reader.at = "publish" =>
       \E m \in Mains :
         /\ HasMain(reader.got, m) /\ Readable(User, reader.got[User])
         /\ DOMAIN reader.got = {Config, User, m} \cup reader.got[m].refs
ReadingIsCurrent ==
  Reading /\ (reader.at \notin {"wait", "watch"} => Current(reader.got, {}))

\* The files that what was read shows to be needed, and the two ways a load may end.
Needs(s) ==
  {Config, User} \cup s[Config].refs
  \cup UNION {s[m].refs : m \in s[Config].refs \cap DOMAIN s}
Complete(s) ==
  /\ DOMAIN s = Needs(s) /\ s[Config].refs \subseteq DOMAIN s
  /\ s = published
Stuck(s) == \E p \in Needs(s) \cap DOMAIN s : ~Readable(p, s[p])
LastLoad(s) ==
  /\ Config \in DOMAIN s /\ DOMAIN s \subseteq targets \cup lost /\ Current(s, lost)
  /\ Complete(s) \/ Stuck(s)
RestIsCurrent == reader.at \in {"wait", "watch"} => \E s \in Snapshots : LastLoad(s)

WatcherInv ==
  TypedWatcher /\ TargetsAreWatched /\ ReadingIsCurrent /\ RestIsCurrent

\* What is not dirty is on the disk at every step of a save, too.
CleanAlways ==
  /\ ~app.dirty /\ Config \notin foreign => disk[Config] = app.config
  /\ ~app.tableDirty /\ app.path \notin foreign => disk[app.path] = app.table

IInv == TypedFiles /\ app \in Apps /\ WatcherInv /\ CleanAlways

-----------------------------------------------------------------------------
(* Files and directories. *)

LEMMA PathKinds ==
  /\ Config \in Paths /\ User \in Paths /\ Mains \subseteq Paths /\ Auxiliaries \subseteq Paths
  /\ Config # User /\ Config \notin Mains \cup Auxiliaries /\ User \notin Mains \cup Auxiliaries
  /\ Mains \cap Auxiliaries = {}
  BY FilesAssumption DEF Paths

LEMMA EmptyTuple == DOMAIN <<>> = {}
  OBVIOUS

LEMMA OnlyMember == \A x : Only({x}) = x
<1> TAKE x
<1>1. \E y : y \in {x}  OBVIOUS
<1>2. (CHOOSE y \in {x} : TRUE) \in {x}  BY <1>1
<1> QED BY <1>2 DEF Only

\* What a configuration or a main table that can be read refers to.
LEMMA ConfigRefers ==
  ASSUME NEW c \in Contents(Config), Readable(Config, c)
  PROVE  \E m \in Mains : c.refs = {m} /\ Only(c.refs) = m /\ c \in Editions[Config]
<1>1. c \in Editions[Config]  BY PathKinds DEF Readable, Contents
<1>2. PICK m \in Mains : c.refs = {m}  BY <1>1, FilesAssumption
<1> QED BY <1>1, <1>2, OnlyMember

LEMMA MainRefers ==
  ASSUME NEW m \in Mains, NEW c \in Contents(m)
  PROVE  /\ c.refs \subseteq Auxiliaries
         /\ Readable(m, c) => c \in Editions[m]
<1>1. CASE c \in {Absent, Broken}
  BY <1>1, PathKinds DEF Absent, Broken, Readable, Contents
<1>2. CASE c \in Editions[m]  BY <1>2, FilesAssumption DEF Contents
<1> QED BY <1>1, <1>2 DEF Contents

LEMMA NearestIsAround ==
  ASSUME NEW d \in Dirs, FirstDirs \subseteq dirs
  PROVE  Nearest(d) \in Above[d] \cap dirs
<1>1. Above[d] \cap dirs \in (SUBSET Above[d]) \ {{}}  BY FilesAssumption
<1>2. PICK a \in Above[d] \cap dirs : Above[d] \cap dirs \subseteq Above[a]
  <2>1. \A s \in (SUBSET Above[d]) \ {{}} : \E a \in s : s \subseteq Above[a]
    BY FilesAssumption
  <2> QED BY <1>1, <2>1
<1>3. \E b \in Above[d] \cap dirs : \A c \in Above[d] \cap dirs : c \in Above[b]  BY <1>2
<1> QED BY <1>3 DEF Nearest

LEMMA KnownSnapshots ==
  /\ \A s \in Snapshots :
       /\ DOMAIN s \subseteq Paths
       /\ \A p \in DOMAIN s : s[p] \in Contents(p)
       /\ s = [p \in DOMAIN s |-> s[p]]
  /\ \A d \in SUBSET Paths : \A f \in [d -> AnyContents] :
       (\A p \in d : f[p] \in Contents(p)) => f \in Snapshots
  BY DEF Snapshots

LEMMA SnapshotOf ==
  ASSUME NEW d \in SUBSET Paths, NEW f, f = [p \in d |-> f[p]],
         \A p \in d : f[p] \in Contents(p)
  PROVE  f \in Snapshots
<1>1. \A p \in d : f[p] \in AnyContents  BY DEF AnyContents
<1>2. f \in [d -> AnyContents]  BY <1>1
<1> QED BY <1>2, KnownSnapshots

\* What a writer of files does to what is known of them: every change is reported, or falls
\* in a gap, or is made at rest where nothing is watched.
Reported ==
  /\ channel \subseteq channel' /\ unseen \subseteq unseen'
  /\ \A p \in Paths :
       \/ disk'[p] = disk[p] \/ p \in channel' \/ p \in unseen'
       \/ reader.at = "wait" /\ Above[DirOf[p]] \cap watched = {}

LEMMA PutEffect ==
  ASSUME TypedFiles, NEW changes, DOMAIN changes \subseteq Paths,
         \A p \in DOMAIN changes : changes[p] \in Contents(p), Put(changes)
  PROVE  /\ \A p \in Paths : disk'[p] \in Contents(p)
         /\ dirs' = dirs /\ channel' \subseteq Events /\ unseen' \subseteq Paths
         /\ Reported
         /\ \A p \in DOMAIN changes : disk'[p] = changes[p]
         /\ \A p \in Paths \ DOMAIN changes : disk'[p] = disk[p]
<1> DEFINE seen == {p \in DOMAIN changes : Above[DirOf[p]] \cap watched # {}}
<1>1. /\ disk' = [p \in Paths |-> IF p \in DOMAIN changes THEN changes[p] ELSE disk[p]]
      /\ channel' = channel \cup seen /\ dirs' = dirs
      /\ unseen' = IF reader.at = "wait" THEN unseen ELSE unseen \cup (DOMAIN changes \ seen)
  BY DEF Put
<1>2. \A p \in Paths :
        disk'[p] = IF p \in DOMAIN changes THEN changes[p] ELSE disk[p]
  BY <1>1
<1>3. \A p \in Paths : disk'[p] \in Contents(p)  BY <1>2 DEF TypedFiles
<1>4. channel' \subseteq Events /\ unseen' \subseteq Paths  BY <1>1 DEF TypedFiles, Events
<1>5. Reported  BY <1>1, <1>2 DEF Reported
<1> QED BY <1>1, <1>2, <1>3, <1>4, <1>5

LEMMA WriteEffect ==
  ASSUME TypedFiles, NEW p \in Paths, NEW content \in Contents(p), Write(p, content)
  PROVE  /\ \A q \in Paths : disk'[q] \in Contents(q)
         /\ dirs' = dirs /\ channel' \subseteq Events /\ unseen' \subseteq Paths
         /\ writes' \in 0..MaxWrites
         /\ Reported
         /\ disk'[p] = content /\ \A q \in Paths \ {p} : disk'[q] = disk[q]
<1>1. PICK changes : changes = [q \in {p} |-> content]  OBVIOUS
<1>2. Put(changes) /\ writes' = writes + 1 /\ writes < MaxWrites  BY <1>1 DEF Write
<1>3. DOMAIN changes = {p} /\ changes[p] = content  BY <1>1
<1>4. writes' \in 0..MaxWrites  BY <1>2, FilesAssumption DEF TypedFiles
<1> QED BY <1>2, <1>3, <1>4, PutEffect

LEMMA ResolveEffect ==
  ASSUME TypedFiles, Resolve
  PROVE  /\ \A q \in Paths : disk'[q] \in Contents(q)
         /\ dirs' = dirs /\ channel' \subseteq Events /\ unseen' \subseteq Paths
         /\ Reported
<1>1. CASE disk[Config] = Absent
  <2>1. PICK changes : changes = [p \in {Config} \cup DOMAIN Shipped |->
                                    IF p = Config THEN DefaultConfig ELSE Shipped[p]]
    OBVIOUS
  <2>2. Put(changes)  BY <1>1, <2>1 DEF Resolve
  <2>3. DOMAIN changes \subseteq Paths  BY <2>1, PathKinds, FilesAssumption
  <2>4. \A p \in DOMAIN changes : changes[p] \in Contents(p)
    BY <2>1, PathKinds, FilesAssumption DEF Contents
  <2> QED BY <2>2, <2>3, <2>4, PutEffect
<1>2. CASE disk[Config] # Absent
  BY <1>2 DEF Resolve, files, TypedFiles, Reported
<1> QED BY <1>1, <1>2

-----------------------------------------------------------------------------
(* Writers leave what the watcher knows true. *)

LEMMA CurrentStays ==
  ASSUME Reported, NEW s \in Snapshots, NEW gaps, Current(s, gaps),
         reader.at = "wait" =>
           \A p \in DOMAIN s \ gaps : Above[DirOf[p]] \cap watched # {}
  PROVE  Current(s, gaps)'
<1> SUFFICES ASSUME NEW p \in DOMAIN s
             PROVE  s[p] = disk'[p] \/ p \in channel' \cup unseen' \cup gaps
  BY DEF Current
<1>1. p \in Paths  BY KnownSnapshots
<1> QED BY <1>1 DEF Current, Reported

LEMMA WritersKeep ==
  ASSUME WatcherInv, Reported, dirs \subseteq dirs', UNCHANGED watcher
  PROVE  WatcherInv'
<1>1. UNCHANGED <<published, targets, watched, reader, lost>>  BY DEF watcher
<1>2. TypedWatcher'  BY <1>1 DEF WatcherInv, TypedWatcher
<1>3. TargetsAreWatched'  BY <1>1 DEF WatcherInv, TargetsAreWatched
<1>4. ReadingIsCurrent'
  <2>1. Reading'  BY <1>1 DEF WatcherInv, ReadingIsCurrent, Reading
  <2>2. CASE reader.at \notin {"wait", "watch"}
    <3>1. reader.got \in Snapshots /\ Current(reader.got, {})
      BY <2>2 DEF WatcherInv, TypedWatcher, ReadingIsCurrent
    <3>2. PICK s \in Snapshots : s = reader.got  BY <3>1
    <3>3. Current(s, {})'  BY <2>2, <3>1, <3>2, CurrentStays
    <3>4. Current(reader.got, {})'  BY <1>1, <3>2, <3>3 DEF Current
    <3> QED BY <2>1, <3>4 DEF ReadingIsCurrent
  <2> QED BY <1>1, <2>1, <2>2 DEF ReadingIsCurrent
<1>5. RestIsCurrent'
  <2>1. CASE reader.at \in {"wait", "watch"}
    <3>1. PICK s \in Snapshots : LastLoad(s)  BY <2>1 DEF WatcherInv, RestIsCurrent
    <3>2. reader.at = "wait" => \A p \in DOMAIN s \ lost : Above[DirOf[p]] \cap watched # {}
      BY <3>1 DEF LastLoad, WatcherInv, TargetsAreWatched
    <3>3. PICK gaps : gaps = lost  OBVIOUS
    <3>4. Current(s, gaps)'  BY <3>1, <3>2, <3>3, CurrentStays DEF LastLoad
    <3>5. Current(s, lost)'  BY <1>1, <3>3, <3>4 DEF Current
    <3>6. LastLoad(s)'
      BY <1>1, <3>1, <3>5 DEF LastLoad, Complete, Stuck, Needs
    <3> QED BY <3>6 DEF RestIsCurrent
  <2> QED BY <1>1, <2>1 DEF RestIsCurrent
<1> QED BY <1>2, <1>3, <1>4, <1>5 DEF WatcherInv

-----------------------------------------------------------------------------
(* The watcher's thread. *)

\* A thread that goes on reading knows what it knew and the file it has just read.
ReadInto(p, good, next, got) ==
  /\ reader' = After(got, good, next)
  /\ DOMAIN got = DOMAIN reader.got \cup {p}
  /\ got[p] = disk[p] /\ \A q \in DOMAIN reader.got \ {p} : got[q] = reader.got[q]
  /\ Current(got, {})'
  /\ lost' = IF good THEN lost ELSE DOMAIN got \ targets
  /\ UNCHANGED <<disk, dirs, channel, published, targets, watched, writes, foreign>>
  /\ unseen' = unseen \ {p}

LEMMA TakeEffect ==
  ASSUME TypedFiles, TypedWatcher, NEW p \in Paths, NEW good \in BOOLEAN, NEW next,
         Current(reader.got, {}), Take(p, good, next)
  PROVE  \E got \in Snapshots : ReadInto(p, good, next, got)
<1>1. PICK got : got = [q \in DOMAIN reader.got \cup {p} |->
                          IF q = p THEN disk[p] ELSE reader.got[q]]
  OBVIOUS
<1>2. reader.got \in Snapshots  BY DEF TypedWatcher
<1>3. got \in Snapshots
  <2>1. PICK d \in SUBSET Paths : d = DOMAIN reader.got \cup {p}  BY <1>2, KnownSnapshots
  <2>2. got = [q \in d |-> got[q]]  BY <1>1, <2>1
  <2>3. \A q \in d : got[q] \in Contents(q)
    BY <1>1, <1>2, <2>1, KnownSnapshots DEF TypedFiles
  <2> QED BY <2>2, <2>3, SnapshotOf
<1>4. Current(got, {})'
  BY <1>1 DEF Current, Take
<1> QED BY <1>1, <1>3, <1>4 DEF Take, ReadInto

\* A load that fails leaves what it has read to compare with.
LEMMA FailureKeeps ==
  ASSUME WatcherInv, NEW got \in Snapshots, Config \in DOMAIN got,
         Stuck(got), Current(got, {})', reader' = [at |-> "watch", got |-> got],
         lost' = DOMAIN got \ targets, UNCHANGED <<published, targets, watched, dirs>>
  PROVE  WatcherInv'
<1>1. /\ reader'.at = "watch" /\ reader'.got = got  OBVIOUS
<1>2. TypedWatcher'
  <2>1. lost' \subseteq Paths  BY KnownSnapshots
  <2> QED BY <1>1, <2>1 DEF WatcherInv, TypedWatcher
<1>3. TargetsAreWatched' /\ ReadingIsCurrent'
  BY <1>1 DEF TargetsAreWatched, ReadingIsCurrent, Reading
<1>4. LastLoad(got)'
  <2>1. DOMAIN got \subseteq targets' \cup lost'  OBVIOUS
  <2>2. Current(got, lost)'  BY DEF Current
  <2> QED BY <2>1, <2>2 DEF LastLoad, Stuck, Needs
<1>5. RestIsCurrent'  BY <1>4 DEF RestIsCurrent
<1> QED BY <1>2, <1>3, <1>5 DEF WatcherInv

\* A load that goes on.
LEMMA ProgressKeeps ==
  ASSUME WatcherInv, NEW at \in {"main", "tables", "publish"}, NEW got \in Snapshots,
         Current(got, {})', reader' = [at |-> at, got |-> got], Reading',
         UNCHANGED <<published, targets, watched, dirs, lost>>
  PROVE  WatcherInv'
<1>1. reader'.at = at /\ reader'.got = got  OBVIOUS
<1>2. TypedWatcher'  BY <1>1 DEF WatcherInv, TypedWatcher
<1>3. TargetsAreWatched' /\ RestIsCurrent'  BY <1>1 DEF TargetsAreWatched, RestIsCurrent
<1>4. ReadingIsCurrent'  BY <1>1 DEF ReadingIsCurrent, Current
<1> QED BY <1>2, <1>3, <1>4 DEF WatcherInv

LEMMA ReadConfigKeeps ==
  ASSUME TypedFiles, WatcherInv, ReadConfig
  PROVE  WatcherInv'
<1>1. /\ TypedWatcher /\ reader.at = "config" /\ DOMAIN reader.got = {}
      /\ Current(reader.got, {})
  BY DEF WatcherInv, ReadConfig, ReadingIsCurrent, Reading
<1>2. PICK good \in BOOLEAN : good = Readable(Config, disk[Config])  BY DEF Readable
<1>3. Take(Config, good, "main")  BY <1>2 DEF ReadConfig
<1>4. PICK got \in Snapshots :
        /\ reader' = After(got, good, "main")
        /\ DOMAIN got = {Config} /\ got[Config] = disk[Config]
        /\ Current(got, {})'
        /\ lost' = IF good THEN lost ELSE DOMAIN got \ targets
        /\ UNCHANGED <<published, targets, watched, dirs>>
  <2>1. Config \in Paths /\ Current(reader.got, {})  BY <1>1, PathKinds
  <2>2. PICK got \in Snapshots : ReadInto(Config, good, "main", got)
    BY <1>1, <1>3, <2>1, TakeEffect
  <2>3. DOMAIN got = {Config}  BY <1>1, <2>2 DEF ReadInto
  <2> QED BY <2>2, <2>3 DEF ReadInto
<1>5. CASE good
  <2>1. reader' = [at |-> "main", got |-> got]  BY <1>4, <1>5 DEF After
  <2>2. reader'.at = "main" /\ reader'.got = got  BY <2>1
  <2>3. HasConfig(got)  BY <1>2, <1>4, <1>5 DEF HasConfig
  <2>4. Reading'  BY <1>4, <2>2, <2>3 DEF Reading, HasConfig
  <2> QED BY <1>4, <1>5, <2>1, <2>4, ProgressKeeps
<1>6. CASE ~good
  <2>1. reader' = [at |-> "watch", got |-> got]  BY <1>4, <1>6 DEF After
  <2>2. Stuck(got)  BY <1>2, <1>4, <1>6 DEF Stuck, Needs
  <2> QED BY <1>4, <1>6, <2>1, <2>2, FailureKeeps
<1> QED BY <1>5, <1>6

LEMMA ReadMainKeeps ==
  ASSUME TypedFiles, WatcherInv, ReadMain
  PROVE  WatcherInv'
<1>1. /\ TypedWatcher /\ reader.at = "main" /\ DOMAIN reader.got = {Config}
      /\ HasConfig(reader.got) /\ Current(reader.got, {})
  BY DEF WatcherInv, ReadMain, ReadingIsCurrent, Reading
<1>2. reader.got[Config] \in Contents(Config)
  BY <1>1, KnownSnapshots DEF TypedWatcher
<1>3. PICK m \in Mains : reader.got[Config].refs = {m} /\ Main = m
  BY <1>1, <1>2, ConfigRefers DEF Main, HasConfig
<1>4. PICK good \in BOOLEAN : good = Readable(m, disk[m])  BY DEF Readable
<1>5. Take(m, good, "tables")  BY <1>3, <1>4 DEF ReadMain
<1>6. m \in Paths /\ m # Config  BY PathKinds
<1>7. PICK got \in Snapshots :
        /\ reader' = After(got, good, "tables")
        /\ DOMAIN got = {Config, m} /\ got[m] = disk[m] /\ got[Config] = reader.got[Config]
        /\ Current(got, {})'
        /\ lost' = IF good THEN lost ELSE DOMAIN got \ targets
        /\ UNCHANGED <<published, targets, watched, dirs>>
  <2>1. PICK got \in Snapshots : ReadInto(m, good, "tables", got)
    BY <1>1, <1>5, <1>6, TakeEffect
  <2>2. DOMAIN got = {Config, m} /\ got[Config] = reader.got[Config]
    BY <1>1, <1>6, <2>1 DEF ReadInto
  <2> QED BY <2>1, <2>2 DEF ReadInto
<1>8. HasConfig(got) /\ got[Config].refs = {m}  BY <1>1, <1>3, <1>7 DEF HasConfig
<1>9. CASE good
  <2>1. reader' = [at |-> "tables", got |-> got]  BY <1>7, <1>9 DEF After
  <2>2. HasMain(got, m)  BY <1>4, <1>7, <1>8, <1>9 DEF HasMain
  <2>3. Reading'  BY <1>7, <2>1, <2>2 DEF Reading, HasMain, HasConfig
  <2> QED BY <1>7, <1>9, <2>1, <2>3, ProgressKeeps
<1>10. CASE ~good
  <2>1. reader' = [at |-> "watch", got |-> got]  BY <1>7, <1>10 DEF After
  <2>2. Stuck(got)  BY <1>4, <1>7, <1>8, <1>10 DEF Stuck, Needs
  <2> QED BY <1>7, <1>10, <2>1, <2>2, FailureKeeps
<1> QED BY <1>9, <1>10

LEMMA ReadTableKeeps ==
  ASSUME TypedFiles, WatcherInv, NEW a \in Auxiliaries, ReadTable(a)
  PROVE  WatcherInv'
<1>1. TypedWatcher /\ reader.at = "tables" /\ Current(reader.got, {})
  BY DEF WatcherInv, ReadTable, ReadingIsCurrent
<1>2. PICK m \in Mains :
        HasMain(reader.got, m) /\ DOMAIN reader.got \subseteq {Config, m} \cup reader.got[m].refs
  BY <1>1 DEF WatcherInv, ReadingIsCurrent, Reading
<1>3. Main = m  BY <1>2, OnlyMember DEF Main, HasMain
<1>4. a \in reader.got[m].refs \ DOMAIN reader.got /\ Take(a, TRUE, "tables")
  BY <1>3 DEF ReadTable
<1>5. a \in Paths  BY PathKinds
<1>6. PICK got \in Snapshots :
        /\ reader' = After(got, TRUE, "tables")
        /\ DOMAIN got = DOMAIN reader.got \cup {a}
        /\ \A q \in DOMAIN reader.got : got[q] = reader.got[q]
        /\ Current(got, {})' /\ lost' = lost
        /\ UNCHANGED <<published, targets, watched, dirs>>
  <2>1. PICK good \in BOOLEAN : good  OBVIOUS
  <2>2. good = TRUE  BY <2>1
  <2>3. Take(a, good, "tables")  BY <1>4, <2>2
  <2>4. PICK got \in Snapshots : ReadInto(a, good, "tables", got)
    BY <1>1, <1>5, <2>3, TakeEffect
  <2> QED BY <1>4, <2>2, <2>4 DEF ReadInto
<1>7. reader' = [at |-> "tables", got |-> got]  BY <1>6 DEF After
<1>8. HasMain(got, m)  BY <1>2, <1>6 DEF HasMain, HasConfig
<1>9. DOMAIN got \subseteq {Config, m} \cup got[m].refs
  BY <1>2, <1>4, <1>6 DEF HasMain
<1>10. Reading'  BY <1>7, <1>8, <1>9 DEF Reading, HasMain, HasConfig
<1> QED BY <1>6, <1>7, <1>10, ProgressKeeps

LEMMA ReadUserKeeps ==
  ASSUME TypedFiles, WatcherInv, ReadUser
  PROVE  WatcherInv'
<1>1. TypedWatcher /\ reader.at = "tables" /\ Current(reader.got, {})
  BY DEF WatcherInv, ReadUser, ReadingIsCurrent
<1>2. PICK m \in Mains :
        HasMain(reader.got, m) /\ DOMAIN reader.got \subseteq {Config, m} \cup reader.got[m].refs
  BY <1>1 DEF WatcherInv, ReadingIsCurrent, Reading
<1>3. Main = m  BY <1>2, OnlyMember DEF Main, HasMain
<1>4. reader.got[m].refs \subseteq Auxiliaries
  BY <1>1, <1>2, MainRefers, KnownSnapshots DEF HasMain, TypedWatcher
<1>5. User \notin DOMAIN reader.got /\ DOMAIN reader.got = {Config, m} \cup reader.got[m].refs
  BY <1>2, <1>3, <1>4, PathKinds DEF ReadUser, HasMain, HasConfig
<1>6. PICK good \in BOOLEAN : good = Readable(User, disk[User])  BY DEF Readable
<1>7. Take(User, good, "publish")  BY <1>6 DEF ReadUser
<1>0. PICK got \in Snapshots : ReadInto(User, good, "publish", got)
  BY <1>1, <1>7, PathKinds, TakeEffect
<1>8. /\ reader' = After(got, good, "publish")
      /\ DOMAIN got = DOMAIN reader.got \cup {User} /\ got[User] = disk[User]
      /\ \A q \in DOMAIN reader.got : got[q] = reader.got[q]
      /\ Current(got, {})'
      /\ lost' = IF good THEN lost ELSE DOMAIN got \ targets
      /\ UNCHANGED <<published, targets, watched, dirs>>
  BY <1>0, <1>5 DEF ReadInto
<1>9. HasMain(got, m)  BY <1>2, <1>8 DEF HasMain, HasConfig
<1>10. CASE good
  <2>1. reader' = [at |-> "publish", got |-> got]  BY <1>8, <1>10 DEF After
  <2>2. DOMAIN got = {Config, User, m} \cup got[m].refs
    BY <1>2, <1>5, <1>8 DEF HasMain
  <2>3. Readable(User, got[User])  BY <1>6, <1>8, <1>10
  <2>4. reader'.at = "publish" /\ reader'.got = got  BY <2>1
  <2>5. Reading'  BY <1>9, <2>2, <2>3, <2>4 DEF Reading, HasMain, HasConfig
  <2> QED BY <1>8, <1>10, <2>1, <2>5, ProgressKeeps
<1>11. CASE ~good
  <2>1. reader' = [at |-> "watch", got |-> got]  BY <1>8, <1>11 DEF After
  <2>2. Stuck(got)  BY <1>6, <1>8, <1>11 DEF Stuck, Needs
  <2>3. Config \in DOMAIN got  BY <1>9 DEF HasMain, HasConfig
  <2> QED BY <1>8, <1>11, <2>1, <2>2, <2>3, FailureKeeps
<1> QED BY <1>10, <1>11

\* A load that has read everything is published, or keeps looking for what it could not read.
LEMMA PublishKeeps ==
  ASSUME TypedFiles, WatcherInv, Publish
  PROVE  WatcherInv' /\ (Whole(published) => Whole(published'))
<1>1. /\ TypedWatcher /\ reader.at = "publish" /\ Current(reader.got, {})
      /\ reader.got \in Snapshots
  BY DEF WatcherInv, TypedWatcher, Publish, ReadingIsCurrent
<1>2. PICK got \in Snapshots : got = reader.got  BY <1>1
<1>3. PICK m \in Mains :
        /\ HasMain(got, m) /\ Readable(User, got[User])
        /\ DOMAIN got = {Config, User, m} \cup got[m].refs
  BY <1>1, <1>2 DEF WatcherInv, ReadingIsCurrent, Reading
<1>4. /\ UNCHANGED <<disk, dirs, channel, unseen, watched>> /\ lost' = {}
      /\ published' = (IF Whole(got) THEN got ELSE published)
      /\ targets' = IF Whole(got) THEN DOMAIN got ELSE DOMAIN published \cup DOMAIN got
  BY <1>2 DEF Publish, SnapshotAfter, TargetsAfter, files
<1>5. reader'.at = "watch" /\ reader'.got = got
  <2>1. reader' = [reader EXCEPT !.at = "watch"]  BY DEF Publish
  <2> QED BY <1>2, <2>1
<1>6. got[m].refs \subseteq Auxiliaries /\ Needs(got) = DOMAIN got
  <2>1. m \in DOMAIN got /\ got[Config].refs = {m}  BY <1>3 DEF HasMain
  <2>2. got[m].refs \subseteq Auxiliaries  BY <2>1, MainRefers, KnownSnapshots
  <2>3. {got[n].refs : n \in {m} \cap DOMAIN got} = {got[m].refs}  BY <2>1
  <2> QED BY <1>3, <2>1, <2>2, <2>3 DEF Needs
<1>7. TypedWatcher'
  <2>1. published \in Snapshots /\ got \in Snapshots /\ targets' \subseteq Paths
    BY <1>1, <1>4, KnownSnapshots DEF TypedWatcher
  <2>2. published' \in Snapshots  BY <1>4, <2>1
  <2> QED BY <1>1, <1>4, <1>5, <2>1, <2>2 DEF TypedWatcher
<1>8. TargetsAreWatched' /\ ReadingIsCurrent'
  BY <1>5 DEF TargetsAreWatched, ReadingIsCurrent, Reading
<1>9. Complete(got)' \/ Stuck(got)
  <2>1. CASE Whole(got)  BY <1>3, <1>4, <1>6, <2>1 DEF Complete, Needs, HasMain
  <2>2. CASE ~Whole(got)  BY <1>6, <2>2 DEF Stuck, Whole
  <2> QED BY <2>1, <2>2
<1>10. LastLoad(got)'
  <2>1. Current(got, {})  BY <1>1, <1>2
  <2>2. Current(got, lost)'  BY <1>4, <2>1 DEF Current
  <2>3. DOMAIN got \subseteq targets'  BY <1>4
  <2> QED BY <1>3, <1>9, <2>2, <2>3 DEF LastLoad, Stuck, Needs
<1>11. RestIsCurrent'  BY <1>10 DEF RestIsCurrent
<1>12. Whole(published) => Whole(published')  BY <1>4
<1> QED BY <1>7, <1>8, <1>11, <1>12 DEF WatcherInv

LEMMA NothingRead == <<>> \in Snapshots
<1>1. DOMAIN <<>> = {} /\ {} \in SUBSET Paths  BY EmptyTuple
<1>2. <<>> \in [{} -> AnyContents]  OBVIOUS
<1> QED BY <1>1, <1>2, KnownSnapshots

LEMMA WatchKeeps ==
  ASSUME TypedFiles, WatcherInv, Watch
  PROVE  WatcherInv'
<1>1. /\ TypedWatcher /\ reader.at = "watch" /\ UNCHANGED <<files, published, targets, lost>>
      /\ watched' = {Nearest(DirOf[t]) : t \in targets}
      /\ reader' = [at |-> "wait", got |-> <<>>]
  BY DEF WatcherInv, Watch
<1>2. \A t \in targets : Nearest(DirOf[t]) \in Above[DirOf[t]] \cap dirs
  <2> SUFFICES ASSUME NEW t \in targets
               PROVE  Nearest(DirOf[t]) \in Above[DirOf[t]] \cap dirs
    OBVIOUS
  <2>1. DirOf[t] \in Dirs /\ FirstDirs \subseteq dirs
    BY <1>1, FilesAssumption DEF TypedWatcher, TypedFiles
  <2> QED BY <2>1, NearestIsAround
<1>3. UNCHANGED <<disk, dirs, channel, unseen>> /\ reader'.at = "wait" /\ reader'.got = <<>>
  BY <1>1 DEF files
<1>4. TypedWatcher'
  <2>1. watched' \subseteq dirs  BY <1>1, <1>2
  <2> QED BY <1>1, <1>3, <2>1, NothingRead DEF TypedWatcher
<1>5. TargetsAreWatched'
  <2>1. \A t \in targets : Above[DirOf[t]] \cap watched' # {}  BY <1>1, <1>2
  <2> QED BY <1>1, <2>1 DEF TargetsAreWatched
<1>6. ReadingIsCurrent'  BY <1>3 DEF ReadingIsCurrent, Reading
<1>7. RestIsCurrent'
  <2>1. PICK s \in Snapshots : LastLoad(s)  BY <1>1 DEF WatcherInv, RestIsCurrent
  <2>2. LastLoad(s)'
    BY <1>1, <1>3, <2>1 DEF LastLoad, Current, Complete, Stuck, Needs
  <2> QED BY <2>2 DEF RestIsCurrent
<1> QED BY <1>4, <1>5, <1>6, <1>7 DEF WatcherInv

\* A report that does not match is of no file the thread looks for.
LEMMA ReceiveKeeps ==
  ASSUME TypedFiles, WatcherInv, NEW e \in channel, Receive(e)
  PROVE  WatcherInv'
<1>1. /\ TypedWatcher /\ reader.at = "wait" /\ channel' = channel \ {e}
      /\ UNCHANGED <<disk, dirs, unseen, published, targets, watched, lost>>
  BY DEF WatcherInv, Receive
<1>2. CASE Matches(e)
  <2>1. reader'.at = "resolve" /\ reader'.got = <<>>  BY <1>2 DEF Receive
  <2>2. DOMAIN reader'.got = {}  BY <2>1, EmptyTuple
  <2>3. TypedWatcher'  BY <1>1, <2>1, NothingRead DEF TypedWatcher
  <2>4. TargetsAreWatched' /\ RestIsCurrent'  BY <2>1 DEF TargetsAreWatched, RestIsCurrent
  <2>5. ReadingIsCurrent'  BY <2>1, <2>2 DEF ReadingIsCurrent, Reading, Current
  <2> QED BY <2>3, <2>4, <2>5 DEF WatcherInv
<1>3. CASE ~Matches(e)
  <2>1. reader' = reader /\ e \notin targets  BY <1>3 DEF Receive, Matches
  <2>2. TypedWatcher' /\ TargetsAreWatched'
    BY <1>1, <2>1 DEF WatcherInv, TypedWatcher, TargetsAreWatched
  <2>3. ReadingIsCurrent'  BY <1>1, <2>1 DEF ReadingIsCurrent, Reading
  <2>4. PICK s \in Snapshots : LastLoad(s)  BY <1>1 DEF WatcherInv, RestIsCurrent
  <2>5. Current(s, lost)'  BY <1>1, <2>1, <2>4 DEF LastLoad, Current
  <2>6. LastLoad(s)'  BY <1>1, <2>4, <2>5 DEF LastLoad, Complete, Stuck, Needs
  <2>7. RestIsCurrent'  BY <2>6 DEF RestIsCurrent
  <2> QED BY <2>2, <2>3, <2>7 DEF WatcherInv
<1> QED BY <1>2, <1>3

LEMMA ResolveConfigKeeps ==
  ASSUME TypedFiles, WatcherInv, ResolveConfig
  PROVE  WatcherInv' /\ TypedFiles'
<1>1. /\ TypedWatcher /\ reader.at = "resolve" /\ reader'.at = "config"
      /\ reader'.got = reader.got
      /\ UNCHANGED <<published, targets, watched, lost, writes>> /\ foreign' \subseteq Paths
  <2>1. reader' = [reader EXCEPT !.at = "config"] /\ reader.at = "resolve"  BY DEF ResolveConfig
  <2>2. foreign' \subseteq Paths  BY DEF ResolveConfig, TypedFiles
  <2> QED BY <2>1, <2>2 DEF ResolveConfig, WatcherInv
<1>2. reader'.at = "config"
  BY DEF ResolveConfig
<1>3. /\ \A q \in Paths : disk'[q] \in Contents(q)
      /\ dirs' = dirs /\ channel' \subseteq Events /\ unseen' \subseteq Paths
  BY ResolveEffect DEF ResolveConfig
<1>4. DOMAIN reader.got = {}  BY <1>1 DEF WatcherInv, ReadingIsCurrent, Reading
<1>5. TypedWatcher'  BY <1>1, <1>3 DEF TypedWatcher
<1>6. TargetsAreWatched' /\ RestIsCurrent'  BY <1>1 DEF TargetsAreWatched, RestIsCurrent
<1>7. ReadingIsCurrent'  BY <1>1, <1>4 DEF ReadingIsCurrent, Reading, Current
<1>8. TypedFiles'  BY <1>1, <1>3 DEF TypedFiles
<1> QED BY <1>5, <1>6, <1>7, <1>8 DEF WatcherInv

\* What another process changes is foreign to the application from then on.
LEMMA CleanStays ==
  ASSUME CleanAlways, app \in Apps, UNCHANGED app, foreign \subseteq foreign',
         \A p \in Paths : disk'[p] = disk[p] \/ p \in foreign'
  PROVE  CleanAlways'
<1>1. app.path \in Paths /\ Config \in Paths  BY PathKinds DEF Apps
<1> QED BY <1>1 DEF CleanAlways

LEMMA WatcherKeeps ==
  ASSUME IInv, WatcherStep, UNCHANGED app
  PROVE  IInv' /\ (Whole(published) => Whole(published'))
<1>1. TypedFiles /\ WatcherInv /\ TypedWatcher /\ CleanAlways /\ app \in Apps
  BY DEF IInv, WatcherInv
<1>2. WatcherInv' /\ (Whole(published) => Whole(published'))
  <2>1. CASE Watch
    BY <2>1, <1>1, WatchKeeps DEF Watch
  <2>2. CASE \E e \in channel : Receive(e)  BY <2>2, <1>1, ReceiveKeeps DEF Receive
  <2>3. CASE ResolveConfig  BY <2>3, <1>1, ResolveConfigKeeps DEF ResolveConfig
  <2>4. CASE ReadConfig  BY <2>4, <1>1, ReadConfigKeeps DEF ReadConfig, Take
  <2>5. CASE ReadMain  BY <2>5, <1>1, ReadMainKeeps DEF ReadMain, Take
  <2>6. CASE \E a \in Auxiliaries : ReadTable(a)
    BY <2>6, <1>1, ReadTableKeeps DEF ReadTable, Take
  <2>7. CASE ReadUser  BY <2>7, <1>1, ReadUserKeeps DEF ReadUser, Take
  <2>8. CASE Publish  BY <2>8, <1>1, PublishKeeps
  <2> QED BY <2>1, <2>2, <2>3, <2>4, <2>5, <2>6, <2>7, <2>8 DEF WatcherStep
<1>3. TypedFiles' /\ CleanAlways'
  <2>1. CASE ResolveConfig
    <3>1. foreign' = foreign \cup {p \in Paths : disk'[p] # disk[p]}  BY <2>1 DEF ResolveConfig
    <3>2. foreign \subseteq foreign' /\ \A p \in Paths : disk'[p] = disk[p] \/ p \in foreign'
      BY <3>1
    <3> QED BY <2>1, <3>2, <1>1, CleanStays, ResolveConfigKeeps
  <2>2. CASE ~ResolveConfig
    <3>1. UNCHANGED <<disk, dirs, writes, foreign>> /\ channel' \subseteq channel
          /\ unseen' \subseteq unseen
      BY <2>2 DEF WatcherStep, Watch, Receive, ReadConfig, ReadMain, ReadTable, ReadUser, Take,
         Publish, files
    <3> QED BY <3>1, <1>1, CleanStays DEF TypedFiles
  <2> QED BY <2>1, <2>2
<1> QED BY <1>1, <1>2, <1>3 DEF IInv

-----------------------------------------------------------------------------
(* The settings application and the other programs. *)

LEMMA OpenedIsClean ==
  ASSUME NEW d, \A p \in Paths : d[p] \in Contents(p)
  PROVE  /\ Opened(d) \in Apps
         /\ Opened(d).asking \/ Opened(d).config = d[Config]
         /\ Opened(d).table = d[Opened(d).path] /\ Opened(d).path \in Mains
<1> DEFINE good == Readable(Config, d[Config])
<1>1. PICK config : config = IF good THEN d[Config] ELSE DefaultConfig  OBVIOUS
<1>2. config \in Editions[Config]
  BY <1>1, PathKinds, ConfigRefers, FilesAssumption
<1>3. PICK m \in Mains : config.refs = {m}  BY <1>2, FilesAssumption
<1>4. Only(config.refs) = m  BY <1>3, OnlyMember
<1>5. d[m] \in Contents(m)  BY PathKinds
<1>6. PICK asking \in BOOLEAN : asking = ~good  OBVIOUS
<1>7. Opened(d) =
        [config |-> config, path |-> m, table |-> d[m], dirty |-> FALSE, tableDirty |-> FALSE,
         asking |-> asking, step |-> "edit"]
  BY <1>1, <1>4, <1>6 DEF Opened
<1>8. Opened(d) \in Apps
  <2>1. d[m] \in UNION {Contents(n) : n \in Mains}  BY <1>5
  <2> QED BY <1>2, <1>7, <2>1 DEF Apps
<1>9. Opened(d).path = m /\ Opened(d).table = d[m]  BY <1>7
<1>10. Opened(d).asking \/ Opened(d).config = d[Config]
  <2>1. Opened(d).asking = asking /\ Opened(d).config = config  BY <1>7
  <2> QED BY <1>1, <1>6, <2>1
<1> QED BY <1>8, <1>9, <1>10

\* A change of the files by anybody, at any state of the application.
LEMMA FilesChange ==
  ASSUME IInv, Reported, dirs' = dirs, UNCHANGED watcher, app' \in Apps,
         \A q \in Paths : disk'[q] \in Contents(q),
         channel' \subseteq Events, unseen' \subseteq Paths, foreign' \subseteq Paths,
         writes' \in 0..MaxWrites, CleanAlways'
  PROVE  IInv'
<1>1. WatcherInv'  BY WritersKeep DEF IInv
<1>2. TypedFiles'  BY DEF IInv, TypedFiles
<1> QED BY <1>1, <1>2 DEF IInv

LEMMA FilesStay ==
  ASSUME IInv, UNCHANGED files, UNCHANGED watcher, app' \in Apps, UNCHANGED writes,
         foreign' \subseteq Paths, CleanAlways'
  PROVE  IInv'
<1>1. UNCHANGED <<disk, dirs, channel, unseen>>  BY DEF files
<1>2. Reported  BY <1>1 DEF Reported
<1> QED BY <1>1, <1>2, FilesChange DEF IInv, TypedFiles

LEMMA OpeningKeeps ==
  ASSUME IInv, Reopen \/ Restart
  PROVE  IInv'
<1>1. TypedFiles /\ \A p \in Paths : disk[p] \in Contents(p)  BY DEF IInv, TypedFiles
<1>2. /\ UNCHANGED watcher /\ UNCHANGED writes /\ Reported /\ dirs' = dirs
      /\ \A p \in Paths : disk'[p] \in Contents(p)
      /\ channel' \subseteq Events /\ unseen' \subseteq Paths
      /\ app' = Opened(disk') /\ foreign' = IF app'.asking THEN {Config} ELSE {}
  <2>1. CASE Reopen
    BY <2>1, <1>1 DEF Reopen, Idle, files, Reported, TypedFiles, Differs
  <2>2. CASE Restart
    BY <2>2, <1>1, ResolveEffect DEF Restart, watcher, Differs
  <2> QED BY <2>1, <2>2
<1>3. PICK d : d = disk'  OBVIOUS
<1>4. /\ app' \in Apps /\ app'.path \in Mains
      /\ app'.asking \/ app'.config = disk'[Config]
      /\ app'.table = disk'[app'.path]
  BY <1>2, <1>3, OpenedIsClean
<1>5. CleanAlways'  BY <1>2, <1>4 DEF CleanAlways
<1>6. foreign' \subseteq Paths /\ writes' \in 0..MaxWrites
  BY <1>1, <1>2, PathKinds DEF TypedFiles
<1> QED BY <1>2, <1>4, <1>5, <1>6, FilesChange

LEMMA EditingKeeps ==
  ASSUME IInv,
         \/ \E c \in Editions[Config] : EditConfig(c)
         \/ \E t \in Editions[app.path] : EditTable(t)
         \/ Save \/ SaveFails \/ KeepUnreadable
  PROVE  IInv'
<1>1. app \in Apps /\ CleanAlways  BY DEF IInv
<1>2. UNCHANGED <<watcher, writes, foreign>> /\ UNCHANGED files
  BY DEF EditConfig, EditTable, Save, SaveFails, KeepUnreadable, Idle
<1>3. UNCHANGED <<disk, foreign>>  BY <1>2 DEF files
<1>4. app' \in Apps /\ CleanAlways'
  <2>1. CASE \E c \in Editions[Config] : EditConfig(c)
    <3>1. PICK c \in Editions[Config] : app' = [app EXCEPT !.config = c, !.dirty = TRUE]
      BY <2>1 DEF EditConfig
    <3>2. app' \in Apps  BY <1>1, <3>1 DEF Apps
    <3>3. /\ app'.dirty /\ app'.tableDirty = app.tableDirty /\ app'.table = app.table
          /\ app'.path = app.path
      BY <1>1, <3>1 DEF Apps
    <3> QED BY <1>1, <1>3, <3>2, <3>3 DEF CleanAlways
  <2>2. CASE \E t \in Editions[app.path] : EditTable(t)
    <3>1. PICK t \in Editions[app.path] : app' = [app EXCEPT !.table = t, !.tableDirty = TRUE]
      BY <2>2 DEF EditTable
    <3>2. t \in UNION {Contents(m) : m \in Mains}  BY <1>1 DEF Apps, Contents
    <3>3. app' \in Apps  BY <1>1, <3>1, <3>2 DEF Apps
    <3>4. app'.tableDirty /\ app'.dirty = app.dirty /\ app'.config = app.config
      BY <1>1, <3>1 DEF Apps
    <3> QED BY <1>1, <1>3, <3>3, <3>4 DEF CleanAlways
  <2>3. CASE Save
    <3>1. PICK step \in {"table", "config"} : app' = [app EXCEPT !.step = step]
      BY <2>3 DEF Save
    <3> QED BY <1>1, <1>3, <3>1 DEF CleanAlways, Apps
  <2>4. CASE SaveFails
    <3>1. app' = [app EXCEPT !.step = "edit", !.dirty = TRUE]  BY <2>4 DEF SaveFails
    <3> QED BY <1>1, <1>3, <3>1 DEF CleanAlways, Apps
  <2>5. CASE KeepUnreadable
    <3>1. app' = [app EXCEPT !.asking = FALSE]  BY <2>5 DEF KeepUnreadable
    <3> QED BY <1>1, <1>3, <3>1 DEF CleanAlways, Apps
  <2> QED BY <2>1, <2>2, <2>3, <2>4, <2>5
<1>5. foreign' \subseteq Paths  BY <1>3 DEF IInv, TypedFiles
<1> QED BY <1>2, <1>4, <1>5, FilesStay

LEMMA ChosenEffect ==
  ASSUME app \in Apps, NEW m \in Mains, NEW table \in UNION {Contents(n) : n \in Mains}
  PROVE  /\ Chosen(m, table) \in Apps
         /\ Chosen(m, table).path = m /\ Chosen(m, table).table = table
         /\ Chosen(m, table).dirty
<1>1. PICK c : c = [app.config EXCEPT !.refs = {m}]  OBVIOUS
<1>2. c \in Editions[Config]  BY <1>1, FilesAssumption DEF Apps
<1>3. Chosen(m, table) = [app EXCEPT !.path = m, !.table = table, !.tableDirty = FALSE,
                                     !.config = c, !.dirty = TRUE]
  BY <1>1 DEF Chosen, Apps
<1>4. app.dirty \in BOOLEAN /\ app.asking \in BOOLEAN /\ app.step \in {"edit", "table", "config"}
  BY DEF Apps
<1>5. PICK t : t \in Apps /\ t = [config |-> c, path |-> m, table |-> table, dirty |-> TRUE,
                               tableDirty |-> FALSE, asking |-> app.asking, step |-> app.step]
  <2>1. table \in UNION {Contents(n) : n \in Mains}  OBVIOUS
  <2> QED BY <1>2, <1>4, <2>1 DEF Apps
<1>6. Chosen(m, table) = t  BY <1>3, <1>5 DEF Apps
<1> QED BY <1>5, <1>6

LEMMA ChoosingKeeps ==
  ASSUME IInv, NEW m \in Mains, Select(m) \/ SaveAs(m)
  PROVE  IInv'
<1>1. TypedFiles /\ app \in Apps /\ m \in Paths  BY PathKinds DEF IInv
<1>2. foreign' = foreign \ {m} /\ UNCHANGED watcher  BY DEF Select, SaveAs, Idle
<1>3. foreign' \subseteq Paths  BY <1>1, <1>2 DEF TypedFiles
<1>4. CASE Select(m)
  <2>1. UNCHANGED <<files, writes>> /\ app' = Chosen(m, disk[m])  BY <1>4 DEF Select
  <2>2. PICK table : table = disk[m]  OBVIOUS
  <2>3. table \in UNION {Contents(n) : n \in Mains}  BY <1>1, <2>2 DEF TypedFiles
  <2>4. app' \in Apps /\ app'.path = m /\ app'.table = disk[m] /\ app'.dirty
    BY <1>1, <2>1, <2>2, <2>3, ChosenEffect
  <2>5. disk' = disk  BY <2>1 DEF files
  <2>6. CleanAlways'  BY <2>4, <2>5 DEF CleanAlways
  <2> QED BY <1>2, <1>3, <2>1, <2>4, <2>6, FilesStay
<1>5. CASE SaveAs(m)
  <2>1. Write(m, app.table) /\ app' = Chosen(m, app.table)  BY <1>5 DEF SaveAs
  <2>2. PICK table \in Contents(m) : table = app.table
    <3>1. app.table \in UNION {Contents(n) : n \in Mains}  BY <1>1 DEF Apps
    <3>2. \A n \in Mains : Contents(n) = Contents(m)  BY FilesAssumption DEF Contents
    <3> QED BY <3>1, <3>2
  <2>3. table \in UNION {Contents(n) : n \in Mains}  OBVIOUS
  <2>4. app' \in Apps /\ app'.path = m /\ app'.table = table /\ app'.dirty
    BY <1>1, <2>1, <2>2, <2>3, ChosenEffect
  <2>5. /\ \A q \in Paths : disk'[q] \in Contents(q)
        /\ dirs' = dirs /\ channel' \subseteq Events /\ unseen' \subseteq Paths
        /\ writes' \in 0..MaxWrites /\ Reported /\ disk'[m] = table
    BY <1>1, <2>1, <2>2, WriteEffect
  <2>6. CleanAlways'  BY <2>4, <2>5 DEF CleanAlways
  <2> QED BY <1>2, <1>3, <2>4, <2>5, <2>6, FilesChange
<1> QED BY <1>4, <1>5

LEMMA SavingKeeps ==
  ASSUME IInv,
         SaveTable \/ SaveConfig \/ OverwriteWithDefault
  PROVE  IInv'
<1>1. TypedFiles /\ app \in Apps /\ CleanAlways /\ app.path \in Mains /\ app.path # Config
  BY PathKinds DEF IInv, Apps
<1>2. PICK p, content :
        /\ p \in Paths /\ content \in Contents(p)
        /\ Write(p, content) /\ foreign' = foreign \ {p} /\ UNCHANGED watcher
        /\ \/ /\ p = app.path /\ content = app.table
              /\ app' = [app EXCEPT !.step = "config", !.tableDirty = FALSE]
           \/ /\ p = Config
              /\ \/ content = app.config /\ app' = [app EXCEPT !.step = "edit", !.dirty = FALSE]
                 \/ content = DefaultConfig
                    /\ app' = [app EXCEPT !.config = DefaultConfig, !.asking = FALSE]
  <2>1. app.path \in Paths /\ Config \in Paths /\ app.config \in Contents(Config)
        /\ DefaultConfig \in Contents(Config)
    BY <1>1, PathKinds, FilesAssumption DEF Apps, Contents
  <2>2. app.table \in Contents(app.path)
    <3>1. app.table \in UNION {Contents(n) : n \in Mains}  BY <1>1 DEF Apps
    <3>2. \A n \in Mains : Contents(n) = Contents(app.path)
      BY <1>1, FilesAssumption DEF Contents
    <3> QED BY <3>1, <3>2
  <2>3. CASE SaveTable  BY <2>1, <2>2, <2>3 DEF SaveTable
  <2>4. CASE SaveConfig  BY <2>1, <2>4 DEF SaveConfig
  <2>5. CASE OverwriteWithDefault  BY <2>1, <2>5 DEF OverwriteWithDefault, Idle
  <2> QED BY <2>3, <2>4, <2>5
<1>3. /\ \A q \in Paths : disk'[q] \in Contents(q)
      /\ dirs' = dirs /\ channel' \subseteq Events /\ unseen' \subseteq Paths
      /\ writes' \in 0..MaxWrites /\ Reported
      /\ disk'[p] = content /\ \A q \in Paths \ {p} : disk'[q] = disk[q]
  BY <1>1, <1>2, WriteEffect
<1>4. app.path \in Paths /\ Config \in Paths  BY <1>1, PathKinds
<1>5. app' \in Apps /\ CleanAlways'
  <2>1. CASE /\ p = app.path /\ content = app.table
             /\ app' = [app EXCEPT !.step = "config", !.tableDirty = FALSE]
    <3>1. app' \in Apps  BY <2>1, <1>1 DEF Apps
    <3>2. /\ app'.path = app.path /\ app'.table = app.table /\ app'.dirty = app.dirty
          /\ app'.config = app.config
      BY <2>1, <1>1 DEF Apps
    <3> QED BY <1>1, <1>2, <1>3, <1>4, <2>1, <3>1, <3>2 DEF CleanAlways
  <2>2. CASE /\ p = Config /\ content = app.config
             /\ app' = [app EXCEPT !.step = "edit", !.dirty = FALSE]
    <3>1. app' \in Apps  BY <2>2, <1>1 DEF Apps
    <3>2. /\ app'.path = app.path /\ app'.table = app.table
          /\ app'.tableDirty = app.tableDirty /\ app'.config = app.config
      BY <2>2, <1>1 DEF Apps
    <3> QED BY <1>1, <1>2, <1>3, <1>4, <2>2, <3>1, <3>2 DEF CleanAlways
  <2>3. CASE /\ p = Config /\ content = DefaultConfig
             /\ app' = [app EXCEPT !.config = DefaultConfig, !.asking = FALSE]
    <3>1. app' \in Apps  BY <2>3, <1>1, FilesAssumption DEF Apps
    <3>2. /\ app'.path = app.path /\ app'.table = app.table
          /\ app'.tableDirty = app.tableDirty /\ app'.config = DefaultConfig
      BY <2>3, <1>1 DEF Apps
    <3> QED BY <1>1, <1>2, <1>3, <1>4, <2>3, <3>1, <3>2 DEF CleanAlways
  <2> QED BY <1>2, <2>1, <2>2, <2>3
<1>6. foreign' \subseteq Paths  BY <1>1, <1>2 DEF TypedFiles
<1> QED BY <1>2, <1>3, <1>5, <1>6, FilesChange

LEMMA UserKeeps ==
  ASSUME IInv, NEW entries \in Editions[User], EditUser(entries)
  PROVE  IInv'
<1>1. TypedFiles /\ app \in Apps /\ CleanAlways  BY DEF IInv
<1>2. Write(User, entries) /\ UNCHANGED <<foreign, app, watcher>>  BY DEF EditUser, Idle
<1>3. User \in Paths /\ entries \in Contents(User)  BY PathKinds DEF Contents
<1>4. /\ \A q \in Paths : disk'[q] \in Contents(q)
      /\ dirs' = dirs /\ channel' \subseteq Events /\ unseen' \subseteq Paths
      /\ writes' \in 0..MaxWrites /\ Reported
      /\ \A q \in Paths \ {User} : disk'[q] = disk[q]
  BY <1>1, <1>2, <1>3, WriteEffect
<1>5. app.path \in Paths \ {User} /\ Config \in Paths \ {User}  BY <1>1, PathKinds DEF Apps
<1>6. CleanAlways'  BY <1>1, <1>2, <1>4, <1>5 DEF CleanAlways
<1> QED BY <1>1, <1>2, <1>4, <1>6, FilesChange DEF TypedFiles

LEMMA OthersKeep ==
  ASSUME IInv, UNCHANGED <<watcher, app>>,
         \/ \E p \in ByOthers : \E c \in Contents(p) : External(p, c)
         \/ \E d \in Dirs : MakeDir(d)
  PROVE  IInv'
<1>1. TypedFiles /\ app \in Apps /\ CleanAlways /\ WatcherInv  BY DEF IInv
<1>2. CASE \E p \in ByOthers : \E c \in Contents(p) : External(p, c)
  <2>1. PICK p, c : p \in ByOthers /\ c \in Contents(p) /\ External(p, c)  BY <1>2
  <2>2. p \in Paths /\ c \in Contents(p) /\ Write(p, c) /\ foreign' = foreign \cup {p}
    BY <2>1, FilesAssumption DEF External
  <2>3. /\ \A q \in Paths : disk'[q] \in Contents(q)
        /\ dirs' = dirs /\ channel' \subseteq Events /\ unseen' \subseteq Paths
        /\ writes' \in 0..MaxWrites /\ Reported
        /\ \A q \in Paths \ {p} : disk'[q] = disk[q]
    BY <1>1, <2>2, WriteEffect
  <2>4. foreign \subseteq foreign' /\ foreign' \subseteq Paths
        /\ \A q \in Paths : disk'[q] = disk[q] \/ q \in foreign'
    BY <1>1, <2>2, <2>3 DEF TypedFiles
  <2>5. CleanAlways'  BY <1>1, <2>4, CleanStays
  <2> QED BY <1>1, <2>3, <2>4, <2>5, FilesChange
<1>3. CASE \E d \in Dirs : MakeDir(d)
  <2>1. PICK d \in Dirs : MakeDir(d)  BY <1>3
  <2>2. /\ UNCHANGED <<disk, unseen, writes, foreign>> /\ dirs' = dirs \cup {d}
        /\ channel' = channel \/ channel' = channel \cup {d}
    BY <2>1 DEF MakeDir
  <2>3. Reported  BY <2>2 DEF Reported
  <2>4. WatcherInv'  BY <1>1, <2>2, <2>3, WritersKeep
  <2>5. TypedFiles'  BY <1>1, <2>2 DEF TypedFiles, Events
  <2>6. CleanAlways'  BY <1>1, <2>2 DEF CleanAlways
  <2> QED BY <1>1, <2>4, <2>5, <2>6 DEF IInv
<1> QED BY <1>2, <1>3

-----------------------------------------------------------------------------
(* The theorems. *)

\* What the first load leaves to compare with: what it published, or the file it failed over.
LEMMA FirstLoad ==
  ASSUME disk \in FirstDisks, channel = {}, unseen = {}, InitWatcher
  PROVE  RestIsCurrent /\ published \in Snapshots
<1> DEFINE good == Readable(Config, disk[Config])
<1>1. disk \in [Paths -> AnyContents] /\ \A p \in Paths : disk[p] \in Contents(p)
  BY FilesAssumption DEF AnyContents
<1>2. PICK config : config = IF good THEN disk[Config] ELSE DefaultConfig  OBVIOUS
<1>3. config \in Editions[Config]  BY <1>1, <1>2, PathKinds, ConfigRefers, FilesAssumption
<1>4. PICK m \in Mains : config.refs = {m}  BY <1>3, FilesAssumption
<1>5. PICK used : used = [disk EXCEPT ![Config] = config]  OBVIOUS
<1>6. PICK alone \in SUBSET Paths : alone = {Config, User, m}  BY PathKinds
<1>7. PICK tolerated : tolerated = (good /\ \A p \in alone : Readable(p, disk[p]))  OBVIOUS
<1>8. published = [p \in IF tolerated THEN Deps(used) ELSE alone |-> used[p]]
  <2>1. {Config, User} \cup config.refs = alone  BY <1>4, <1>6
  <2>2. Startup(disk) =
          [p \in IF good /\ \A q \in {Config, User} \cup config.refs : Readable(q, disk[q])
                 THEN Deps(used) ELSE {Config, User} \cup config.refs |-> used[p]]
    BY <1>2, <1>5 DEF Startup
  <2>3. Startup(disk) = [p \in IF tolerated THEN Deps(used) ELSE alone |-> used[p]]
    BY <1>7, <2>1, <2>2
  <2> QED BY <2>3 DEF InitWatcher
<1>9. /\ \A p \in Paths \ {Config} : used[p] = disk[p]
      /\ used[Config] = config /\ \A p \in Paths : used[p] \in Contents(p)
  BY <1>1, <1>3, <1>5, PathKinds DEF Contents
<1>10. targets = DOMAIN published /\ reader.at = "watch" /\ lost = {}  BY DEF InitWatcher
<1>11. CASE tolerated
  <2>1. good /\ config = disk[Config]  BY <1>2, <1>7, <1>11
  <2>2. \A p \in Paths : used[p] = disk[p]  BY <1>9, <2>1
  <2>3. disk[m].refs \subseteq Auxiliaries  BY <1>1, PathKinds, MainRefers
  <2>4. PICK d \in SUBSET Paths : d = {Config, User, m} \cup disk[m].refs  BY <2>3, PathKinds
  <2>5. Deps(used) = d
    <3>1. used[Config].refs = {m} /\ used[m].refs = disk[m].refs
      BY <1>4, <1>9, <2>2, PathKinds
    <3>2. UNION {used[n].refs : n \in {m}} = disk[m].refs  BY <3>1
    <3> QED BY <2>4, <3>1, <3>2 DEF Deps
  <2>6. published = [p \in d |-> used[p]]  BY <1>8, <1>11, <2>5
  <2>7. published \in Snapshots
    <3>1. DOMAIN published = d /\ published = [p \in d |-> published[p]]  BY <2>6
    <3>2. \A p \in d : published[p] \in Contents(p)  BY <1>9, <2>6
    <3> QED BY <3>1, <3>2, SnapshotOf
  <2>8. DOMAIN published = d /\ \A p \in d : published[p] = disk[p]  BY <2>2, <2>6
  <2>9. Complete(published)
    <3>1. published[Config].refs = {m} /\ published[m].refs = disk[m].refs /\ m \in d
      BY <1>4, <2>1, <2>4, <2>8
    <3>2. UNION {published[n].refs : n \in {m} \cap d} = disk[m].refs  BY <3>1
    <3>3. Needs(published) = d  BY <2>4, <2>8, <3>1, <3>2 DEF Needs
    <3> QED BY <2>8, <3>1, <3>3 DEF Complete
  <2>10. Current(published, lost) /\ Config \in d  BY <2>4, <2>8 DEF Current
  <2>11. LastLoad(published)  BY <1>10, <2>8, <2>9, <2>10 DEF LastLoad
  <2> QED BY <2>7, <2>11 DEF RestIsCurrent
<1>12. CASE ~tolerated
  <2>1. published = [p \in alone |-> used[p]]  BY <1>8, <1>12
  <2>2. published \in Snapshots
    <3>1. DOMAIN published = alone /\ published = [p \in alone |-> published[p]]  BY <2>1
    <3>2. \A p \in alone : published[p] \in Contents(p)  BY <1>9, <2>1
    <3> QED BY <3>1, <3>2, SnapshotOf
  <2>3. PICK s : s = [p \in alone |-> disk[p]]  OBVIOUS
  <2>4. s \in Snapshots
    <3>1. DOMAIN s = alone /\ s = [p \in alone |-> s[p]]  BY <2>3
    <3>2. \A p \in alone : s[p] \in Contents(p)  BY <1>1, <2>3
    <3> QED BY <3>1, <3>2, SnapshotOf
  <2>5. DOMAIN s = alone /\ \A p \in alone : s[p] = disk[p]  BY <2>3
  <2>6. Stuck(s)
    <3>1. CASE ~good  BY <3>1, <1>6, <2>5 DEF Stuck, Needs
    <3>2. CASE good
      <4>1. PICK p \in alone : ~Readable(p, disk[p])  BY <3>2, <1>7, <1>12
      <4>2. s[Config].refs = {m}  BY <3>2, <1>2, <1>4, <1>6, <2>5
      <4>3. p \in Needs(s)  BY <4>1, <4>2, <1>6 DEF Needs
      <4> QED BY <4>1, <4>3, <2>5 DEF Stuck
    <3> QED BY <3>1, <3>2
  <2>7. DOMAIN s \subseteq targets  BY <1>10, <2>1, <2>5
  <2>8. Current(s, lost) /\ Config \in DOMAIN s  BY <1>6, <2>5 DEF Current
  <2>9. LastLoad(s)  BY <2>6, <2>7, <2>8 DEF LastLoad
  <2> QED BY <2>2, <2>4, <2>9 DEF RestIsCurrent
<1> QED BY <1>11, <1>12

LEMMA InitGood == Init => IInv
<1> SUFFICES ASSUME Init PROVE IInv  OBVIOUS
<1>1. /\ disk \in FirstDisks /\ dirs = FirstDirs /\ watched = {} /\ channel = {} /\ writes = 0
      /\ unseen = {} /\ InitWatcher /\ app = Opened(disk) /\ foreign = Differs(app)
  BY DEF Init
<1>2. \A p \in Paths : disk[p] \in Contents(p)  BY <1>1, FilesAssumption
<1>3. RestIsCurrent /\ published \in Snapshots  BY <1>1, FirstLoad
<1>4. PICK d : d = disk  OBVIOUS
<1>5. /\ app \in Apps /\ app.path \in Mains
      /\ app.asking \/ app.config = disk[Config]
      /\ app.table = disk[app.path]
  BY <1>1, <1>2, <1>4, OpenedIsClean
<1>6. TypedFiles  BY <1>1, <1>2, PathKinds, FilesAssumption DEF TypedFiles, Differs
<1>7. /\ targets = DOMAIN published /\ lost = {} /\ reader.at = "watch" /\ reader.got = <<>>
  BY <1>1 DEF InitWatcher
<1>8. TypedWatcher  BY <1>1, <1>3, <1>7, NothingRead, KnownSnapshots DEF TypedWatcher
<1>9. TargetsAreWatched /\ ReadingIsCurrent
  BY <1>7 DEF TargetsAreWatched, ReadingIsCurrent, Reading
<1>10. CleanAlways  BY <1>1, <1>5 DEF CleanAlways, Differs
<1> QED BY <1>3, <1>5, <1>6, <1>8, <1>9, <1>10 DEF IInv, WatcherInv

\* Every step keeps the invariant, and a whole snapshot.
LEMMA StepKeeps ==
  ASSUME IInv, [Next]_vars
  PROVE  IInv' /\ (Whole(published) => Whole(published'))
<1>1. CASE UNCHANGED vars
  <2>1. UNCHANGED <<files, watcher, writes, foreign, app>>  BY <1>1 DEF vars
  <2>2. app' \in Apps /\ foreign' \subseteq Paths /\ CleanAlways' /\ published' = published
    BY <2>1 DEF IInv, TypedFiles, files, watcher, CleanAlways
  <2> QED BY <2>1, <2>2, FilesStay
<1>2. CASE WatcherStep /\ UNCHANGED app  BY <1>2, WatcherKeeps
<1>3. CASE AppStep
  <2>1. published' = published
    BY <1>3 DEF AppStep, Reopen, Restart, Save, SaveFails, SaveTable, SaveConfig,
       OverwriteWithDefault, KeepUnreadable, EditConfig, Select, SaveAs, EditTable, EditUser,
       Idle, watcher
  <2>2. IInv'
    BY <1>3, OpeningKeeps, EditingKeeps, ChoosingKeeps, SavingKeeps, UserKeeps DEF AppStep
  <2> QED BY <2>1, <2>2
<1>4. CASE /\ UNCHANGED <<watcher, app>>
           /\ \/ \E p \in ByOthers : \E c \in Contents(p) : External(p, c)
              \/ \E d \in Dirs : MakeDir(d)
  <2>1. published' = published  BY <1>4 DEF watcher
  <2> QED BY <1>4, <2>1, OthersKeep
<1> QED BY <1>1, <1>2, <1>3, <1>4 DEF Next

\* What is not dirty is on the disk, and what was read last is followed by its changes, for
\* any files, directories and programs.
THEOREM AlwaysGood == Spec => []IInv
<1>1. Init => IInv  BY InitGood
<1>2. IInv /\ [Next]_vars => IInv'  BY StepKeeps
<1> QED BY <1>1, <1>2, PTL DEF Spec

LEMMA GoodIsTyped == IInv => TypeOK
<1> SUFFICES ASSUME IInv PROVE TypeOK  OBVIOUS
<1>1. TypedFiles /\ TypedWatcher /\ app \in Apps  BY DEF IInv, WatcherInv
<1>2. /\ DOMAIN published \subseteq Paths /\ DOMAIN reader.got \subseteq Paths
      /\ \A p \in DOMAIN published : published[p] \in Contents(p)
      /\ \A p \in DOMAIN reader.got : reader.got[p] \in Contents(p)
  BY <1>1, KnownSnapshots DEF TypedWatcher
<1> QED BY <1>1, <1>2 DEF TypeOK, TypedFiles, TypedWatcher, Apps, Events

\* At rest, with nothing reported and nothing in the gaps, the last load is either what the
\* disk holds or could not succeed.
LEMMA GoodMissesNothing == IInv => NothingIsMissed
<1> SUFFICES ASSUME IInv, reader.at = "wait", channel = {}, Loadable(disk),
                    Deps(disk) \cap (unseen \cup lost) = {}
             PROVE  published = Load(disk)
  BY DEF NothingIsMissed
<1>1. PICK s \in Snapshots : LastLoad(s)  BY DEF IInv, WatcherInv, RestIsCurrent
<1>2. Config \in DOMAIN s /\ \A p \in DOMAIN s \cap Deps(disk) : s[p] = disk[p]
  BY <1>1 DEF LastLoad, Current
<1>3. Config \in Deps(disk) /\ s[Config] = disk[Config]  BY <1>2 DEF Deps
<1>4. Readable(Config, disk[Config]) /\ disk[Config] \in Contents(Config)
  BY <1>3, PathKinds DEF Loadable, IInv, TypedFiles
<1>5. PICK m \in Mains : disk[Config].refs = {m}  BY <1>4, ConfigRefers
<1>6. m \in Deps(disk) /\ Deps(disk) = {Config, User, m} \cup disk[m].refs
  BY <1>5 DEF Deps
<1>7. CASE Stuck(s)
  <2>1. PICK p \in Needs(s) \cap DOMAIN s : ~Readable(p, s[p])  BY <1>7 DEF Stuck
  <2>2. p \in Deps(disk)
    <3>1. CASE m \in DOMAIN s
      <4>1. s[m] = disk[m]  BY <3>1, <1>2, <1>6
      <4> QED BY <2>1, <4>1, <1>3, <1>5, <1>6 DEF Needs
    <3>2. CASE m \notin DOMAIN s  BY <3>2, <2>1, <1>3, <1>5, <1>6 DEF Needs
    <3> QED BY <3>1, <3>2
  <2>3. s[p] = disk[p] /\ Readable(p, disk[p])  BY <2>1, <2>2, <1>2 DEF Loadable
  <2> QED BY <2>1, <2>3
<1>8. CASE Complete(s)
  <2>1. m \in DOMAIN s  BY <1>3, <1>5, <1>8 DEF Complete
  <2>2. s[m] = disk[m]  BY <2>1, <1>2, <1>6
  <2>3. DOMAIN s = Deps(disk)
    <3>1. s[Config].refs \cap DOMAIN s = {m} /\ s[Config].refs = {m}  BY <1>3, <1>5, <2>1
    <3>2. UNION {s[n].refs : n \in {m}} = disk[m].refs  BY <2>2
    <3> QED BY <1>6, <1>8, <3>1, <3>2 DEF Complete, Needs
  <2>4. s = [p \in Deps(disk) |-> disk[p]]  BY <1>2, <2>3, KnownSnapshots
  <2> QED BY <1>8, <2>4 DEF Complete, Load
<1> QED BY <1>1, <1>7, <1>8 DEF LastLoad

\* The watcher misses no change but in the two gaps that are named, and never makes a whole
\* snapshot worse, however reads and writes interleave.
THEOREM ReloadsAreAlwaysSound == Spec => ReloadsAreSound
<1>1. IInv => TypeOK /\ NothingIsMissed  BY GoodIsTyped, GoodMissesNothing
<1>2. IInv /\ [Next]_vars => [Whole(published) => Whole(published')]_vars  BY StepKeeps
<1>3. Spec => GoodIsKept  BY <1>2, AlwaysGood, PTL DEF Spec, GoodIsKept
<1>4. Spec => [](TypeOK /\ NothingIsMissed)  BY <1>1, AlwaysGood, PTL
<1> QED BY <1>3, <1>4 DEF ReloadsAreSound

\* What the settings application shows as saved is on the disk, unless another program has
\* changed it.
THEOREM CleanIsAlwaysSaved == Spec => []CleanIsSaved
<1>1. IInv => CleanIsSaved  BY DEF IInv, CleanAlways, CleanIsSaved
<1> QED BY <1>1, AlwaysGood, PTL

-----------------------------------------------------------------------------
(***************************************************************************)
(* The registration of the text service, from other panels of the same     *)
(* application.  It shares no state with the files.                        *)
(***************************************************************************)
CONSTANTS Windows, Writes, Server, Categories, MaxCalls
VARIABLES registry, categories, profile, access, shown, ready, task, calls, alone, whole, gone

Tip == INSTANCE Registration

\* The commands in progress: where each is, and which value or category is next.
Jobs ==
  [at : {"idle", "prepare", "write", "connect", "category", "profile", "enable",
         "unprofile", "uncategorise", "classes", "machine"},
   next : Nat, failed : BOOLEAN]
Statuses == {"NotInstalled", "Unknown"} \cup Tip!Installed

TypedTip ==
  /\ registry \in [Tip!Values -> {"absent", "empty", "set"}]
  /\ categories \subseteq Tip!ToSet(Categories) /\ profile \in {"absent", "disabled", "enabled"}
  /\ access \in {"never", "granted", "lost"}
  /\ shown \in [Windows -> Statuses]
  /\ ready \subseteq Windows /\ alone \subseteq Windows /\ whole \in BOOLEAN /\ gone \in BOOLEAN
TypedTasks ==
  /\ task \in [Windows -> Jobs]
  /\ \A w \in Windows :
       task[w].next \in IF Tip!At(w, "write") THEN 1..Len(Writes)
                        ELSE IF Tip!At(w, "category") THEN 1..Len(Categories) ELSE {0, 1}

\* What an installation has done so far, and what a removal of which no call failed.
Past(w, ats) == Tip!Installing(w) /\ ~Tip!At(w, "prepare") /\ task[w].at \notin ats
Built(w) ==
  /\ Past(w, {}) => access = "granted"
  /\ Past(w, {}) =>
       \A i \in DOMAIN Writes :
         ~Tip!At(w, "write") \/ i < task[w].next => registry[Writes[i]] = "set"
  /\ Past(w, {"write", "connect"}) =>
       \A i \in DOMAIN Categories :
         ~Tip!At(w, "category") \/ i < task[w].next => Categories[i] \in categories
  /\ Tip!At(w, "enable") => profile # "absent"
Razed(w) ==
  Tip!Removing(w) /\ ~task[w].failed =>
    /\ ~Tip!At(w, "unprofile") => profile = "absent"
    /\ task[w].at \in {"classes", "machine"} => categories = {}
    /\ Tip!At(w, "machine") => \A v \in Tip!Values : v.tree = "classes" => registry[v] = "absent"

\* No command overlaps one against it of a window in "alone", and none is under way while a
\* history variable promises its result.
Apart ==
  /\ \A w \in alone, x \in Windows :
       ~(Tip!Installing(w) /\ Tip!Removing(x)) /\ ~(Tip!Removing(w) /\ Tip!Installing(x))
  /\ \A w \in Windows : whole => ~Tip!Removing(w)
  /\ \A w \in Windows : gone => ~Tip!Installing(w)
AloneIsDone == \A w \in alone : Built(w) /\ Razed(w)
\* Every installation, alone or not, allows the hosts first.
Allowed == \A w \in Windows : Past(w, {}) => access # "never"

\* The inductive invariant of the registration.
TipInv ==
  /\ TypedTip /\ TypedTasks /\ Apart /\ AloneIsDone /\ Allowed
  /\ Tip!InstalledIsWhole /\ Tip!RemovedIsGone /\ Tip!PublishedIsLoadable

-----------------------------------------------------------------------------
\* Nothing is taken away, or nothing added.
Grows ==
  /\ \A v \in Tip!Values : registry[v] = "set" => registry'[v] = "set"
  /\ categories \subseteq categories' /\ (profile # "absent" => profile' # "absent")
  /\ (access = "granted" => access' = "granted")
Shrinks ==
  /\ \A v \in Tip!Values : registry[v] = "absent" => registry'[v] = "absent"
  /\ categories' \subseteq categories /\ (profile = "absent" => profile' = "absent")

\* Only the task of w changes, and it goes on with what it does or ends.
OnlyTask(w) ==
  /\ \A x \in Windows \ {w} : task'[x] = task[x]
  /\ Tip!Installing(w)' => Tip!Installing(w)
  /\ Tip!Removing(w)' => Tip!Removing(w)

\* The values and categories are those of the lists.
LEMMA WritesAreValues ==
  ASSUME Tip!RegistrationAssumption
  PROVE  /\ \A i \in DOMAIN Writes : Writes[i] \in Tip!Values
         /\ \A v \in Tip!Values : \E i \in DOMAIN Writes : v = Writes[i]
         /\ \A v \in Tip!Values : v.tree \in {"classes", "machine", "user"}
         /\ \A i \in DOMAIN Categories : Categories[i] \in Tip!ToSet(Categories)
         /\ \A c \in Tip!ToSet(Categories) : \E i \in DOMAIN Categories : c = Categories[i]
         /\ DOMAIN Writes = 1..Len(Writes) /\ DOMAIN Categories = 1..Len(Categories)
         /\ Len(Writes) \in Nat \ {0} /\ Len(Categories) \in Nat \ {0}
<1>1. DOMAIN Writes = 1..Len(Writes) /\ Len(Writes) \in Nat \ {0}
  BY DEF Tip!RegistrationAssumption
<1>2. DOMAIN Categories = 1..Len(Categories) /\ Len(Categories) \in Nat \ {0}
  BY DEF Tip!RegistrationAssumption
<1> QED BY <1>1, <1>2 DEF Tip!Values, Tip!ToSet, Tip!RegistrationAssumption

\* What is built stays while nothing is taken away, and what is razed while nothing is added.
LEMMA BuiltStays ==
  ASSUME Tip!RegistrationAssumption, NEW x \in Windows, task'[x] = task[x], Built(x), Grows
  PROVE  Built(x)'
<1>1. \A i \in DOMAIN Writes : Writes[i] \in Tip!Values  BY WritesAreValues
<1>2. Past(x, {})' = Past(x, {}) /\ Past(x, {"write", "connect"})' = Past(x, {"write", "connect"})
      /\ Tip!At(x, "enable")' = Tip!At(x, "enable") /\ Tip!At(x, "write")' = Tip!At(x, "write")
      /\ Tip!At(x, "category")' = Tip!At(x, "category")
  BY DEF Past, Tip!At, Tip!Installing
<1> QED BY <1>1, <1>2 DEF Built, Grows

LEMMA RazedStays ==
  ASSUME NEW x \in Windows, task'[x] = task[x], Razed(x), Shrinks
  PROVE  Razed(x)'
BY DEF Razed, Shrinks, Tip!Removing, Tip!At

\* An installing step of w.
LEMMA InstallingKeeps ==
  ASSUME Tip!RegistrationAssumption, NEW w \in Windows, TipInv, TypedTip',
         Tip!Installing(w), OnlyTask(w), Grows,
         alone' = alone, gone' = gone, w \in alone => Built(w)',
         (whole' = whole) \/ (Tip!At(w, "enable") /\ w \in alone /\ whole' \in BOOLEAN)
  PROVE  Apart' /\ AloneIsDone' /\ Tip!InstalledIsWhole' /\ Tip!RemovedIsGone'
<1>1. ~gone /\ \A x \in alone : ~Tip!Removing(x)  BY DEF TipInv, Apart
<1>2. \A x \in Windows :
        (Tip!Removing(x)' => Tip!Removing(x)) /\ (Tip!Installing(x)' => Tip!Installing(x))
  BY DEF OnlyTask, Tip!Removing, Tip!Installing
<1>3. whole' => \A x \in Windows : ~Tip!Removing(x)  BY DEF TipInv, Apart
<1>4. alone \subseteq Windows  BY DEF TipInv, TypedTip
<1>5. Apart'  BY <1>1, <1>2, <1>3, <1>4 DEF TipInv, Apart
<1>6. ASSUME NEW x \in alone  PROVE Built(x)' /\ Razed(x)'
  <2>1. Razed(x)'  BY <1>1, <1>2, <1>4 DEF Razed
  <2>2. CASE x = w  BY <2>1, <2>2
  <2>3. CASE x # w  BY <2>1, <2>3, <1>4, BuiltStays DEF OnlyTask, TipInv, AloneIsDone
  <2> QED BY <2>2, <2>3
<1>7. AloneIsDone'  BY <1>6 DEF AloneIsDone
<1>8. Tip!InstalledIsWhole'
  <2>1. whole' => (Tip!InstalledIsWhole /\ whole) \/ (Tip!At(w, "enable") /\ Built(w))
    BY DEF TipInv, AloneIsDone
  <2>2. Tip!At(w, "enable") /\ Built(w) =>
          /\ \A i \in DOMAIN Writes : registry[Writes[i]] = "set"
          /\ \A i \in DOMAIN Categories : Categories[i] \in categories
          /\ profile # "absent" /\ access = "granted"
    BY DEF Built, Past, Tip!At, Tip!Installing
  <2>3. whole' => /\ \A v \in Tip!Values : registry[v] = "set"
                  /\ Tip!ToSet(Categories) \subseteq categories
                  /\ profile # "absent" /\ access = "granted"
    BY <2>1, <2>2, WritesAreValues DEF Tip!InstalledIsWhole
  <2>4. categories' \subseteq Tip!ToSet(Categories)  BY DEF TypedTip
  <2> QED BY <2>3, <2>4 DEF Tip!InstalledIsWhole, Grows
<1> QED BY <1>1, <1>5, <1>7, <1>8 DEF Tip!RemovedIsGone

\* The ways a task changes: to the next kind of call, to the next call of a kind, to the end.
LEMMA GoesOnTo ==
  ASSUME Tip!RegistrationAssumption, NEW w \in Windows, TypedTasks,
         NEW at \in {"write", "connect", "category", "profile", "enable", "prepare", "unprofile"},
         Tip!Goes(w, at)
  PROVE  /\ TypedTasks' /\ Tip!At(w, at)' /\ task'[w].next = 1 /\ task'[w].failed = task[w].failed
         /\ \A x \in Windows \ {w} : task'[x] = task[x]
<1>1. task[w] \in Jobs /\ task' = [task EXCEPT ![w] = [task[w] EXCEPT !.at = at, !.next = 1]]
  BY DEF Tip!Goes, TypedTasks
<1> DEFINE job == [task[w] EXCEPT !.at = at, !.next = 1]
<1>2. job \in Jobs /\ job.at = at /\ job.next = 1 /\ job.failed = task[w].failed  BY <1>1 DEF Jobs
<1> HIDE DEF job
<1>3. task'[w] = job /\ \A x \in Windows \ {w} : task'[x] = task[x]  BY <1>1 DEF TypedTasks, job
<1>4. task' \in [Windows -> Jobs]  BY <1>1, <1>2 DEF TypedTasks, job
<1>5. 1 \in 1..Len(Writes) /\ 1 \in 1..Len(Categories)  BY WritesAreValues
<1> QED BY <1>2, <1>3, <1>4, <1>5 DEF TypedTasks, Tip!At

LEMMA StepsOn ==
  ASSUME Tip!RegistrationAssumption, NEW w \in Windows, TypedTasks,
         Tip!At(w, "write") \/ Tip!At(w, "category"),
         Tip!At(w, "write") => task[w].next # Len(Writes),
         Tip!At(w, "category") => task[w].next # Len(Categories),
         task' = [task EXCEPT ![w].next = @ + 1]
  PROVE  /\ TypedTasks' /\ task'[w].at = task[w].at /\ task'[w].next = task[w].next + 1
         /\ task'[w].failed = task[w].failed
         /\ \A x \in Windows \ {w} : task'[x] = task[x]
<1>1. task[w] \in Jobs /\ task' = [task EXCEPT ![w] = [task[w] EXCEPT !.next = @ + 1]]
  BY DEF TypedTasks
<1> DEFINE job == [task[w] EXCEPT !.next = @ + 1]
<1>2. /\ job \in Jobs /\ job.at = task[w].at /\ job.next = task[w].next + 1
      /\ job.failed = task[w].failed
  BY <1>1 DEF Jobs
<1> HIDE DEF job
<1>3. task'[w] = job /\ \A x \in Windows \ {w} : task'[x] = task[x]  BY <1>1 DEF TypedTasks, job
<1>4. task' \in [Windows -> Jobs]  BY <1>1, <1>2 DEF TypedTasks, job
<1>5. Tip!At(w, "write") => job.next \in 1..Len(Writes)  BY <1>2, WritesAreValues DEF TypedTasks
<1>6. Tip!At(w, "category") => job.next \in 1..Len(Categories)
  BY <1>2, WritesAreValues DEF TypedTasks, Tip!At
<1> QED BY <1>2, <1>3, <1>4, <1>5, <1>6 DEF TypedTasks, Tip!At

LEMMA EndsIdle ==
  ASSUME NEW w \in Windows, TypedTasks, Tip!Ends(w)
  PROVE  /\ TypedTasks' /\ Tip!At(w, "idle")' /\ OnlyTask(w)
         /\ ~Tip!Installing(w)' /\ ~Tip!Removing(w)'
<1>1. task'[w] = Tip!Idle /\ \A x \in Windows \ {w} : task'[x] = task[x]
  BY DEF Tip!Ends, TypedTasks
<1>2. task' \in [Windows -> Jobs]  BY DEF Tip!Ends, TypedTasks, Tip!Idle, Jobs
<1>3. task'[w].at = "idle" /\ task'[w].next = 0  BY <1>1 DEF Tip!Idle
<1> QED BY <1>1, <1>2, <1>3 DEF TypedTasks, Tip!At, OnlyTask, Tip!Installing, Tip!Removing

\* Who has got past the permission stays past it.
LEMMA AllowedStays ==
  ASSUME NEW w \in Windows, Allowed, \A x \in Windows \ {w} : task'[x] = task[x],
         access # "never" => access' # "never", Past(w, {})' => access' # "never"
  PROVE  Allowed'
<1>1. \A x \in Windows \ {w} : Past(x, {})' = Past(x, {})  BY DEF Past, Tip!Installing, Tip!At
<1> QED BY <1>1 DEF Allowed

\* A command that fails, or ends, only ends its task.
LEMMA GivingUpKeeps ==
  ASSUME Tip!RegistrationAssumption, NEW w \in Windows, TipInv, TypedTip',
         Tip!Installing(w), Tip!GivesUp(w), Grows,
         gone' = gone, whole' = whole, access # "never" => access' # "never",
         registry'[Server] # "absent" => access' # "never"
  PROVE  TipInv'
<1>1. Tip!Ends(w) /\ alone' = alone  BY DEF Tip!GivesUp, Tip!Fails
<1>2. /\ TypedTasks' /\ OnlyTask(w) /\ ~Tip!Installing(w)'
  BY <1>1, EndsIdle DEF TipInv
<1>3. Built(w)'  BY <1>2 DEF Built, Past, Tip!At, Tip!Installing
<1>4. ~Past(w, {})' /\ Allowed'  BY <1>2, AllowedStays DEF Past, TipInv, OnlyTask
<1>5. Tip!PublishedIsLoadable'  BY DEF Tip!PublishedIsLoadable
<1>6. (whole' = whole) \/ (Tip!At(w, "enable") /\ w \in alone /\ whole' \in BOOLEAN)  OBVIOUS
<1>7. Apart' /\ AloneIsDone' /\ Tip!InstalledIsWhole' /\ Tip!RemovedIsGone'
  BY <1>1, <1>2, <1>3, <1>6, InstallingKeeps
<1> QED BY <1>2, <1>4, <1>5, <1>7 DEF TipInv

\* An installation that proceeds from one kind of call to the next.
LEMMA ProceedingKeeps ==
  ASSUME Tip!RegistrationAssumption, NEW w \in Windows, TipInv, TypedTip', Tip!Installing(w),
         NEW at \in {"write", "connect", "category", "profile", "enable"},
         Tip!Proceeds(w, at), Grows,
         gone' = gone, whole' = whole, access # "never" => access' # "never",
         registry'[Server] # "absent" => access' # "never", access' # "never",
         w \in alone => access' = "granted",
         w \in alone /\ at # "write" => \A i \in DOMAIN Writes : registry'[Writes[i]] = "set",
         w \in alone /\ at \in {"profile", "enable"} =>
           \A i \in DOMAIN Categories : Categories[i] \in categories',
         w \in alone /\ at = "enable" => profile' # "absent"
  PROVE  TipInv'
<1>1. Tip!Goes(w, at) /\ alone' = alone  BY DEF Tip!Proceeds
<1>2. /\ TypedTasks' /\ Tip!At(w, at)' /\ task'[w].next = 1
      /\ \A x \in Windows \ {w} : task'[x] = task[x]
  BY <1>1, GoesOnTo DEF TipInv
<1>3. OnlyTask(w)  BY <1>2 DEF OnlyTask, Tip!Installing, Tip!Removing, Tip!At
<1>4. ~(1 > 1) /\ \A i \in DOMAIN Writes \cup DOMAIN Categories : ~(i < 1)  BY WritesAreValues
<1>5. w \in alone => Built(w)'
  BY <1>2, <1>4 DEF Built, Past, Tip!At, Tip!Installing
<1>6. Allowed'  BY <1>2, AllowedStays DEF TipInv
<1>7. Tip!PublishedIsLoadable'  BY DEF Tip!PublishedIsLoadable
<1>8. (whole' = whole) \/ (Tip!At(w, "enable") /\ w \in alone /\ whole' \in BOOLEAN)  OBVIOUS
<1>9. Apart' /\ AloneIsDone' /\ Tip!InstalledIsWhole' /\ Tip!RemovedIsGone'
  BY <1>1, <1>3, <1>5, <1>8, InstallingKeeps
<1> QED BY <1>2, <1>6, <1>7, <1>9 DEF TipInv

\* The calls of an installation, each of which may fail.
LEMMA PreparesKeeps ==
  ASSUME Tip!RegistrationAssumption, NEW w \in Windows, TipInv, Tip!Prepares(w)  PROVE  TipInv'
<1>1. /\ Tip!Installing(w) /\ gone' = gone /\ whole' = whole /\ registry' = registry
      /\ categories' = categories /\ profile' = profile
  BY DEF Tip!Prepares, Tip!Step, Tip!At, Tip!Installing
<1>2. /\ access' \in {access, "granted"}
      /\ (access' = "granted" /\ Tip!Proceeds(w, "write")) \/ Tip!GivesUp(w)
  BY DEF Tip!Prepares
<1>3. Tip!told' = Tip!told /\ alone' = alone  BY <1>2 DEF Tip!Proceeds, Tip!GivesUp, Tip!Fails
<1>4. TypedTip' /\ Grows  BY <1>1, <1>2, <1>3 DEF TipInv, TypedTip, Grows, Tip!told
<1>5. /\ access # "never" => access' # "never"
      /\ registry'[Server] # "absent" => access' # "never"
  BY <1>1, <1>2 DEF TipInv, Tip!PublishedIsLoadable
<1>6. CASE Tip!GivesUp(w)  BY <1>1, <1>4, <1>5, <1>6, GivingUpKeeps
<1>7. CASE access' = "granted" /\ Tip!Proceeds(w, "write")
  BY <1>1, <1>4, <1>5, <1>7, ProceedingKeeps
<1> QED BY <1>2, <1>6, <1>7

LEMMA RegisterKeeps ==
  ASSUME Tip!RegistrationAssumption, NEW w \in Windows, TipInv, Tip!Register(w)  PROVE  TipInv'
<1> DEFINE n == task[w].next
           v == Writes[n]
<1>1. /\ Tip!Installing(w) /\ Tip!At(w, "write") /\ gone' = gone /\ whole' = whole
      /\ access' = access
      /\ categories' = categories /\ profile' = profile
  BY DEF Tip!Register, Tip!Step, Tip!At, Tip!Installing
<1>2. n \in 1..Len(Writes) /\ v \in Tip!Values  BY <1>1, WritesAreValues DEF TipInv, TypedTasks
<1>3. \/ registry' = Tip!Written(v) /\ n = Len(Writes) /\ Tip!Proceeds(w, "connect")
      \/ /\ registry' = Tip!Written(v) /\ n # Len(Writes)
         /\ task' = [task EXCEPT ![w].next = @ + 1] /\ UNCHANGED <<Tip!told, calls, alone>>
      \/ registry' \in {registry, Tip!Opened(v)} /\ Tip!GivesUp(w)
  BY DEF Tip!Register
<1>4. Tip!told' = Tip!told /\ alone' = alone  BY <1>3 DEF Tip!Proceeds, Tip!GivesUp, Tip!Fails
<1>5. registry \in [Tip!Values -> {"absent", "empty", "set"}]  BY DEF TipInv, TypedTip
<1>6. /\ registry' \in [Tip!Values -> {"absent", "empty", "set"}]
      /\ \A u \in Tip!Values : registry[u] = "set" => registry'[u] = "set"
  BY <1>2, <1>3, <1>5 DEF Tip!Written, Tip!Opened
<1>7. TypedTip' /\ Grows  BY <1>1, <1>4, <1>6 DEF TipInv, TypedTip, Grows, Tip!told
<1>8. access' # "never"  BY <1>1 DEF TipInv, Allowed, Past, Tip!At, Tip!Installing
<1>9. w \in alone => /\ access = "granted"
                     /\ \A i \in DOMAIN Writes : i < n => registry[Writes[i]] = "set"
  BY <1>1 DEF TipInv, AloneIsDone, Built, Past, Tip!At, Tip!Installing
<1>10. ASSUME registry' = Tip!Written(v), w \in alone
       PROVE  \A i \in DOMAIN Writes : i < n + 1 => registry'[Writes[i]] = "set"
  <2> SUFFICES ASSUME NEW i \in DOMAIN Writes, i < n + 1  PROVE registry'[Writes[i]] = "set"
    OBVIOUS
  <2>1. Writes[i] \in Tip!Values  BY WritesAreValues
  <2>2. registry'[v] = "set"  BY <1>2, <1>5, <1>10 DEF Tip!Written
  <2>3. i = n \/ i < n  BY <1>2, WritesAreValues
  <2> QED BY <1>6, <1>9, <1>10, <2>1, <2>2, <2>3
<1>11. CASE registry' = Tip!Written(v) /\ n = Len(Writes) /\ Tip!Proceeds(w, "connect")
  <2>1. w \in alone => \A i \in DOMAIN Writes : registry'[Writes[i]] = "set"
    BY <1>2, <1>10, <1>11, WritesAreValues
  <2> QED BY <1>1, <1>7, <1>8, <1>9, <1>11, <2>1, ProceedingKeeps
<1>12. CASE /\ registry' = Tip!Written(v) /\ n # Len(Writes)
            /\ task' = [task EXCEPT ![w].next = @ + 1] /\ UNCHANGED <<Tip!told, calls, alone>>
  <2>1. /\ TypedTasks' /\ task'[w].at = task[w].at /\ task'[w].next = n + 1
        /\ \A x \in Windows \ {w} : task'[x] = task[x]
    BY <1>1, <1>12, StepsOn DEF TipInv, Tip!At
  <2>2. OnlyTask(w)  BY <2>1 DEF OnlyTask, Tip!Installing, Tip!Removing
  <2>3. w \in alone => Built(w)'
    BY <1>1, <1>9, <1>10, <1>12, <2>1 DEF Built, Past, Tip!At, Tip!Installing
  <2>4. Allowed'  BY <1>8, <2>1, AllowedStays DEF TipInv
  <2>5. Tip!PublishedIsLoadable'  BY <1>8 DEF Tip!PublishedIsLoadable
  <2>6. (whole' = whole) \/ (Tip!At(w, "enable") /\ w \in alone /\ whole' \in BOOLEAN)  BY <1>1
  <2>7. Apart' /\ AloneIsDone' /\ Tip!InstalledIsWhole' /\ Tip!RemovedIsGone'
    BY <1>1, <1>4, <1>7, <2>2, <2>3, <2>6, InstallingKeeps
  <2> QED BY <1>7, <2>1, <2>4, <2>5, <2>7 DEF TipInv
<1>13. CASE registry' \in {registry, Tip!Opened(v)} /\ Tip!GivesUp(w)
  BY <1>1, <1>7, <1>8, <1>13, GivingUpKeeps
<1> QED BY <1>3, <1>11, <1>12, <1>13

\* What an installation has established by the time it reaches one of its later calls.
LEMMA LaterCalls ==
  ASSUME Tip!RegistrationAssumption, NEW w \in Windows, TipInv,
         Tip!Installing(w), ~Tip!At(w, "prepare")
  PROVE  /\ access # "never"
         /\ w \in alone => access = "granted"
         /\ w \in alone /\ ~Tip!At(w, "write") =>
              \A i \in DOMAIN Writes : registry[Writes[i]] = "set"
         /\ w \in alone /\ task[w].at \in {"profile", "enable"} =>
              \A i \in DOMAIN Categories : Categories[i] \in categories
BY DEF TipInv, Allowed, AloneIsDone, Built, Past, Tip!At

LEMMA ConnectsKeeps ==
  ASSUME Tip!RegistrationAssumption, NEW w \in Windows, TipInv, Tip!Connects(w)  PROVE  TipInv'
<1>1. /\ Tip!Installing(w) /\ Tip!At(w, "connect") /\ ~Tip!At(w, "prepare") /\ ~Tip!At(w, "write")
      /\ gone' = gone /\ whole' = whole
      /\ UNCHANGED <<registry, categories, profile, access>>
  BY DEF Tip!Connects, Tip!Step, Tip!At, Tip!Installing, Tip!state
<1>2. Tip!Proceeds(w, "category") \/ Tip!GivesUp(w)  BY DEF Tip!Connects
<1>3. Tip!told' = Tip!told /\ alone' = alone  BY <1>2 DEF Tip!Proceeds, Tip!GivesUp, Tip!Fails
<1>4. TypedTip' /\ Grows  BY <1>1, <1>3 DEF TipInv, TypedTip, Grows, Tip!told
<1>5. /\ access' # "never"
      /\ w \in alone => access' = "granted"
      /\ w \in alone => \A i \in DOMAIN Writes : registry'[Writes[i]] = "set"
  BY <1>1, LaterCalls
<1>6. CASE Tip!GivesUp(w)  BY <1>1, <1>4, <1>5, <1>6, GivingUpKeeps
<1>7. CASE Tip!Proceeds(w, "category")  BY <1>1, <1>4, <1>5, <1>7, LaterCalls, ProceedingKeeps
<1> QED BY <1>2, <1>6, <1>7

LEMMA CategoriseKeeps ==
  ASSUME Tip!RegistrationAssumption, NEW w \in Windows, TipInv, Tip!Categorise(w)  PROVE  TipInv'
<1> DEFINE n == task[w].next
           c == Categories[n]
<1>1. /\ Tip!Installing(w) /\ Tip!At(w, "category") /\ ~Tip!At(w, "prepare") /\ ~Tip!At(w, "write")
      /\ gone' = gone /\ whole' = whole
      /\ UNCHANGED <<registry, profile, access>>
  BY DEF Tip!Categorise, Tip!Step, Tip!At, Tip!Installing
<1>2. n \in 1..Len(Categories) /\ c \in Tip!ToSet(Categories)
  BY <1>1, WritesAreValues DEF TipInv, TypedTasks
<1>3. \/ categories' = categories \cup {c} /\ n = Len(Categories) /\ Tip!Proceeds(w, "profile")
      \/ /\ categories' = categories \cup {c} /\ n # Len(Categories)
         /\ task' = [task EXCEPT ![w].next = @ + 1] /\ UNCHANGED <<Tip!told, calls, alone>>
      \/ categories' = categories /\ Tip!GivesUp(w)
  BY DEF Tip!Categorise
<1>4. Tip!told' = Tip!told /\ alone' = alone  BY <1>3 DEF Tip!Proceeds, Tip!GivesUp, Tip!Fails
<1>5. categories \subseteq categories' /\ categories' \subseteq Tip!ToSet(Categories)
  BY <1>2, <1>3 DEF TipInv, TypedTip
<1>6. TypedTip' /\ Grows  BY <1>1, <1>4, <1>5 DEF TipInv, TypedTip, Grows, Tip!told
<1>7. /\ access' # "never"
      /\ w \in alone => access' = "granted"
      /\ w \in alone => \A i \in DOMAIN Writes : registry'[Writes[i]] = "set"
  BY <1>1, LaterCalls
<1>8. w \in alone => \A i \in DOMAIN Categories : i < n => Categories[i] \in categories
  BY <1>1 DEF TipInv, AloneIsDone, Built, Past, Tip!At, Tip!Installing
<1>9. w \in alone /\ categories' = categories \cup {c} =>
        \A i \in DOMAIN Categories : i < n + 1 => Categories[i] \in categories'
  <2> SUFFICES ASSUME w \in alone, categories' = categories \cup {c},
                      NEW i \in DOMAIN Categories, i < n + 1
               PROVE  Categories[i] \in categories'
    OBVIOUS
  <2>1. i = n \/ i < n  BY <1>2, WritesAreValues
  <2> QED BY <1>8, <2>1
<1>10. CASE categories' = categories \cup {c} /\ n = Len(Categories) /\ Tip!Proceeds(w, "profile")
  <2>1. w \in alone => \A i \in DOMAIN Categories : Categories[i] \in categories'
    BY <1>2, <1>9, <1>10, WritesAreValues
  <2> QED BY <1>1, <1>6, <1>7, <1>10, <2>1, ProceedingKeeps
<1>11. CASE /\ categories' = categories \cup {c} /\ n # Len(Categories)
            /\ task' = [task EXCEPT ![w].next = @ + 1] /\ UNCHANGED <<Tip!told, calls, alone>>
  <2>1. /\ TypedTasks' /\ task'[w].at = task[w].at /\ task'[w].next = n + 1
        /\ \A x \in Windows \ {w} : task'[x] = task[x]
    BY <1>1, <1>11, StepsOn DEF TipInv, Tip!At
  <2>2. OnlyTask(w)  BY <2>1 DEF OnlyTask, Tip!Installing, Tip!Removing
  <2>3. w \in alone => Built(w)'
    BY <1>1, <1>7, <1>9, <1>11, <2>1 DEF Built, Past, Tip!At, Tip!Installing
  <2>4. Allowed'  BY <1>7, <2>1, AllowedStays DEF TipInv
  <2>5. Tip!PublishedIsLoadable'  BY <1>7 DEF Tip!PublishedIsLoadable
  <2>6. (whole' = whole) \/ (Tip!At(w, "enable") /\ w \in alone /\ whole' \in BOOLEAN)  BY <1>1
  <2>7. Apart' /\ AloneIsDone' /\ Tip!InstalledIsWhole' /\ Tip!RemovedIsGone'
    BY <1>1, <1>4, <1>6, <2>2, <2>3, <2>6, InstallingKeeps
  <2> QED BY <1>6, <2>1, <2>4, <2>5, <2>7 DEF TipInv
<1>12. CASE categories' = categories /\ Tip!GivesUp(w)
  BY <1>1, <1>6, <1>7, <1>12, GivingUpKeeps
<1> QED BY <1>3, <1>10, <1>11, <1>12

LEMMA ProfilesKeeps ==
  ASSUME Tip!RegistrationAssumption, NEW w \in Windows, TipInv, Tip!Profiles(w)  PROVE  TipInv'
<1>1. /\ Tip!Installing(w) /\ Tip!At(w, "profile") /\ ~Tip!At(w, "prepare") /\ ~Tip!At(w, "write")
      /\ task[w].at = "profile" /\ gone' = gone /\ whole' = whole
      /\ UNCHANGED <<registry, categories, access>>
  BY DEF Tip!Profiles, Tip!Step, Tip!At, Tip!Installing
<1>2. \/ profile' \in {"enabled", profile} \ {"absent"} /\ Tip!Proceeds(w, "enable")
      \/ profile' = profile /\ Tip!GivesUp(w)
  BY DEF Tip!Profiles
<1>3. Tip!told' = Tip!told /\ alone' = alone  BY <1>2 DEF Tip!Proceeds, Tip!GivesUp, Tip!Fails
<1>4. TypedTip' /\ Grows  BY <1>1, <1>2, <1>3 DEF TipInv, TypedTip, Grows, Tip!told
<1>5. /\ access' # "never"
      /\ w \in alone => access' = "granted"
      /\ w \in alone => /\ \A i \in DOMAIN Writes : registry'[Writes[i]] = "set"
                        /\ \A i \in DOMAIN Categories : Categories[i] \in categories'
  BY <1>1, LaterCalls
<1>6. CASE profile' = profile /\ Tip!GivesUp(w)  BY <1>1, <1>4, <1>5, <1>6, GivingUpKeeps
<1>7. CASE profile' \in {"enabled", profile} \ {"absent"} /\ Tip!Proceeds(w, "enable")
  BY <1>1, <1>4, <1>5, <1>7, ProceedingKeeps
<1> QED BY <1>2, <1>6, <1>7

\* The status shown is one of the five that there are.
LEMMA RefreshedIsTyped ==
  ASSUME NEW w \in Windows, shown \in [Windows -> Statuses], Tip!Refreshes(w)
  PROVE  shown' \in [Windows -> Statuses]
<1>1. Tip!Detected(registry', profile') \subseteq Statuses
  BY DEF Tip!Detected, Statuses, Tip!Installed
<1> QED BY <1>1 DEF Tip!Refreshes

LEMMA EnablesKeeps ==
  ASSUME Tip!RegistrationAssumption, NEW w \in Windows, TipInv, Tip!Enables(w)  PROVE  TipInv'
<1>1. /\ Tip!Installing(w) /\ Tip!At(w, "enable") /\ ~Tip!At(w, "prepare") /\ ~Tip!At(w, "write")
      /\ gone' = gone /\ UNCHANGED <<registry, categories, access>>
  BY DEF Tip!Enables, Tip!At, Tip!Installing
<1>2. \/ /\ profile' = (IF profile = "absent" THEN profile ELSE "enabled") /\ Tip!Succeeds(w)
         /\ whole' = (whole \/ w \in alone) /\ alone' = alone
      \/ profile' = profile /\ whole' = whole /\ Tip!GivesUp(w)
  BY DEF Tip!Enables
<1>3. shown' \in [Windows -> Statuses] /\ ready' = ready /\ alone' = alone
  BY <1>2, RefreshedIsTyped DEF Tip!Succeeds, Tip!GivesUp, Tip!Fails, Tip!told, TipInv, TypedTip
<1>4. /\ whole' \in BOOLEAN
      /\ (whole' = whole) \/ (Tip!At(w, "enable") /\ w \in alone /\ whole' \in BOOLEAN)
  BY <1>1, <1>2 DEF TipInv, TypedTip
<1>5. TypedTip' /\ Grows  BY <1>1, <1>2, <1>3, <1>4 DEF TipInv, TypedTip, Grows
<1>6. access' # "never"  BY <1>1, LaterCalls
<1>7. CASE profile' = profile /\ whole' = whole /\ Tip!GivesUp(w)
  BY <1>1, <1>5, <1>6, <1>7, GivingUpKeeps
<1>8. CASE Tip!Succeeds(w)
  <2>1. TypedTasks' /\ OnlyTask(w) /\ ~Tip!Installing(w)'
    BY <1>8, EndsIdle DEF Tip!Succeeds, TipInv
  <2>2. Built(w)'  BY <2>1 DEF Built, Past, Tip!At, Tip!Installing
  <2>3. Allowed'  BY <1>6, <2>1, AllowedStays DEF OnlyTask, TipInv
  <2>4. Tip!PublishedIsLoadable'  BY <1>6 DEF Tip!PublishedIsLoadable
  <2>5. Apart' /\ AloneIsDone' /\ Tip!InstalledIsWhole' /\ Tip!RemovedIsGone'
    BY <1>1, <1>3, <1>4, <1>5, <2>1, <2>2, InstallingKeeps
  <2> QED BY <1>5, <2>1, <2>3, <2>4, <2>5 DEF TipInv
<1> QED BY <1>2, <1>7, <1>8

\* A removing step of w.
LEMMA RemovingKeeps ==
  ASSUME Tip!RegistrationAssumption, NEW w \in Windows, TipInv, TypedTip', TypedTasks',
         Tip!Removing(w), OnlyTask(w), Shrinks,
         alone' = alone, whole' = whole, access' = access, w \in alone => Razed(w)',
         (gone' = gone) \/ (w \in alone /\ Tip!RemovedIsGone')
  PROVE  TipInv'
<1>1. ~whole /\ \A x \in alone : ~Tip!Installing(x)  BY DEF TipInv, Apart
<1>2. \A x \in Windows :
        (Tip!Removing(x)' => Tip!Removing(x)) /\ (Tip!Installing(x)' => Tip!Installing(x))
  BY DEF OnlyTask, Tip!Removing, Tip!Installing
<1>3. gone' => \A x \in Windows : ~Tip!Installing(x)  BY DEF TipInv, Apart
<1>4. alone \subseteq Windows  BY DEF TipInv, TypedTip
<1>5. Apart'  BY <1>1, <1>2, <1>3, <1>4 DEF TipInv, Apart
<1>6. ASSUME NEW x \in alone  PROVE Built(x)' /\ Razed(x)'
  <2>1. ~Tip!Installing(x)' /\ ~Tip!At(x, "enable")'  BY <1>1, <1>2, <1>4 DEF Tip!Installing, Tip!At
  <2>2. Built(x)'  BY <2>1 DEF Built, Past
  <2>3. CASE x = w  BY <2>2, <2>3
  <2>4. CASE x # w  BY <2>2, <2>4, <1>4, RazedStays DEF OnlyTask, TipInv, AloneIsDone
  <2> QED BY <2>3, <2>4
<1>7. AloneIsDone'  BY <1>6 DEF AloneIsDone
<1>8. Tip!InstalledIsWhole'  BY <1>1 DEF Tip!InstalledIsWhole
<1>9. gone => Tip!RemovedIsGone'  BY DEF TipInv, Tip!RemovedIsGone, Shrinks
<1>10. Tip!RemovedIsGone'  BY <1>9 DEF Tip!RemovedIsGone
<1>11. ~Past(w, {})'  BY <1>2 DEF Past, Tip!Removing, Tip!Installing
<1>12. Allowed'  BY <1>11, AllowedStays DEF OnlyTask, TipInv
<1>13. Tip!PublishedIsLoadable'
  BY DEF TipInv, Tip!PublishedIsLoadable, Shrinks, Tip!RegistrationAssumption
<1> QED BY <1>5, <1>7, <1>8, <1>10, <1>12, <1>13 DEF TipInv

\* A removal goes on, and remembers a failure.
LEMMA ContinuesTo ==
  ASSUME Tip!RegistrationAssumption, NEW w \in Windows, TypedTasks, Tip!Removing(w),
         NEW at \in {"uncategorise", "classes", "machine"}, NEW failed \in BOOLEAN,
         Tip!Continues(w, at, failed)
  PROVE  /\ TypedTasks' /\ OnlyTask(w) /\ task'[w].at = at
         /\ task'[w].failed = (task[w].failed \/ failed)
         /\ Tip!told' = Tip!told /\ alone' = alone /\ whole' = whole /\ gone' = gone
<1>1. task[w] \in Jobs  BY DEF TypedTasks
<1> DEFINE job == [task[w] EXCEPT !.at = at, !.failed = task[w].failed \/ failed]
<1>2. /\ job \in Jobs /\ job.at = at /\ job.next = task[w].next
      /\ job.failed = (task[w].failed \/ failed)
  BY <1>1 DEF Jobs
<1>3. task[w].next \in {0, 1}  BY DEF TypedTasks, Tip!Removing, Tip!At
<1> HIDE DEF job
<1>4. task' = [task EXCEPT ![w] = job]  BY DEF Tip!Continues, job
<1>5. /\ task'[w] = job /\ \A x \in Windows \ {w} : task'[x] = task[x]
      /\ task' \in [Windows -> Jobs]
  BY <1>2, <1>4 DEF TypedTasks
<1>6. TypedTasks'  BY <1>2, <1>3, <1>5 DEF TypedTasks, Tip!At
<1>7. OnlyTask(w)  BY <1>2, <1>5 DEF OnlyTask, Tip!Installing, Tip!Removing
<1> QED BY <1>2, <1>5, <1>6, <1>7 DEF Tip!Continues, Tip!history

\* The calls of a removal: one that fails is remembered, and the next is made.
LEMMA UnprofileKeeps ==
  ASSUME Tip!RegistrationAssumption, NEW w \in Windows, TipInv, Tip!Unprofile(w)  PROVE  TipInv'
<1>1. /\ Tip!Removing(w) /\ registry' = registry /\ access' = access /\ categories' = categories
  BY DEF Tip!Unprofile, Tip!At, Tip!Removing
<1>2. \/ profile' = "absent" /\ Tip!Continues(w, "uncategorise", FALSE)
      \/ /\ profile' \in {profile, IF profile = "absent" THEN "absent" ELSE "disabled"}
         /\ \/ Tip!Continues(w, "uncategorise", TRUE) \/ Tip!Continues(w, "classes", TRUE)
  BY DEF Tip!Unprofile
<1>3. TypedTasks  BY DEF TipInv
<1>4. /\ TypedTasks' /\ OnlyTask(w)
      /\ Tip!told' = Tip!told /\ alone' = alone /\ whole' = whole /\ gone' = gone
  BY <1>1, <1>2, <1>3, ContinuesTo
<1>5. \/ profile' = "absent" /\ task'[w].at = "uncategorise"
      \/ task'[w].failed
  BY <1>1, <1>2, <1>3, ContinuesTo
<1>6. TypedTip'  BY <1>1, <1>2, <1>4 DEF TipInv, TypedTip, Tip!told
<1>7. Shrinks  BY <1>1, <1>2 DEF Shrinks
<1>8. Razed(w)'  BY <1>5 DEF Razed, Tip!Removing, Tip!At
<1> QED BY <1>1, <1>4, <1>6, <1>7, <1>8, RemovingKeeps

LEMMA UncategoriseKeeps ==
  ASSUME Tip!RegistrationAssumption, NEW w \in Windows, TipInv, Tip!Uncategorise(w)  PROVE  TipInv'
<1>1. /\ Tip!Removing(w) /\ Tip!At(w, "uncategorise") /\ UNCHANGED <<registry, profile, access>>
      /\ categories' \subseteq categories /\ Tip!Continues(w, "classes", categories' # {})
  BY DEF Tip!Uncategorise, Tip!At, Tip!Removing
<1>2. TypedTasks  BY DEF TipInv
<1>3. /\ TypedTasks' /\ OnlyTask(w) /\ task'[w].at = "classes"
      /\ task'[w].failed = (task[w].failed \/ categories' # {})
      /\ Tip!told' = Tip!told /\ alone' = alone /\ whole' = whole /\ gone' = gone
  BY <1>1, <1>2, ContinuesTo
<1>4. TypedTip'  BY <1>1, <1>3 DEF TipInv, TypedTip, Tip!told
<1>5. Shrinks  BY <1>1 DEF Shrinks
<1>6. w \in alone /\ ~task[w].failed => profile = "absent"
  BY <1>1 DEF TipInv, AloneIsDone, Razed, Tip!At
<1>7. w \in alone => Razed(w)'  BY <1>1, <1>3, <1>6 DEF Razed, Tip!Removing, Tip!At
<1> QED BY <1>1, <1>3, <1>4, <1>5, <1>7, RemovingKeeps

LEMMA ClearingShrinks ==
  ASSUME TypedTip, NEW tree, NEW kept, registry' = Tip!Cleared(tree, kept)
  PROVE  /\ registry' \in [Tip!Values -> {"absent", "empty", "set"}]
         /\ \A v \in Tip!Values : registry[v] = "absent" => registry'[v] = "absent"
         /\ kept = {} => \A v \in Tip!Values : v.tree = tree => registry'[v] = "absent"
BY DEF TypedTip, Tip!Cleared

LEMMA UnclassKeeps ==
  ASSUME Tip!RegistrationAssumption, NEW w \in Windows, TipInv, Tip!Unclass(w)  PROVE  TipInv'
<1>1. /\ Tip!Removing(w) /\ Tip!At(w, "classes") /\ UNCHANGED <<categories, profile, access>>
  BY DEF Tip!Unclass, Tip!At, Tip!Removing
<1>2. PICK kept \in SUBSET Tip!Of("classes") :
        registry' = Tip!Cleared("classes", kept) /\ Tip!Continues(w, "machine", kept # {})
  BY DEF Tip!Unclass
<1>3. TypedTasks /\ TypedTip  BY DEF TipInv
<1>4. /\ TypedTasks' /\ OnlyTask(w) /\ task'[w].at = "machine"
      /\ task'[w].failed = (task[w].failed \/ kept # {})
      /\ Tip!told' = Tip!told /\ alone' = alone /\ whole' = whole /\ gone' = gone
  BY <1>1, <1>2, <1>3, ContinuesTo
<1>5. /\ registry' \in [Tip!Values -> {"absent", "empty", "set"}] /\ Shrinks
      /\ kept = {} => \A v \in Tip!Values : v.tree = "classes" => registry'[v] = "absent"
  BY <1>1, <1>2, <1>3, ClearingShrinks DEF Shrinks
<1>6. TypedTip'  BY <1>1, <1>3, <1>4, <1>5 DEF TypedTip, Tip!told
<1>7. w \in alone /\ ~task[w].failed => profile = "absent" /\ categories = {}
  BY <1>1 DEF TipInv, AloneIsDone, Razed, Tip!At
<1>8. w \in alone => Razed(w)'  BY <1>1, <1>4, <1>5, <1>7 DEF Razed, Tip!Removing, Tip!At
<1> QED BY <1>1, <1>4, <1>5, <1>6, <1>8, RemovingKeeps

LEMMA UnmachineKeeps ==
  ASSUME Tip!RegistrationAssumption, NEW w \in Windows, TipInv, Tip!Unmachine(w)  PROVE  TipInv'
<1>1. /\ Tip!Removing(w) /\ Tip!At(w, "machine")
      /\ UNCHANGED <<categories, profile, access, alone, whole>>
      /\ Tip!Succeeds(w)
  BY DEF Tip!Unmachine, Tip!At, Tip!Removing
<1>2. PICK kept \in SUBSET Tip!Of("machine") :
        /\ registry' = Tip!Cleared("machine", kept)
        /\ gone' = (gone \/ (w \in alone /\ ~task[w].failed /\ kept = {}))
  BY DEF Tip!Unmachine
<1>3. TypedTasks /\ TypedTip  BY DEF TipInv
<1>4. TypedTasks' /\ OnlyTask(w) /\ ~Tip!Removing(w)' /\ ready' = ready
  BY <1>1, <1>3, EndsIdle DEF Tip!Succeeds
<1>5. /\ registry' \in [Tip!Values -> {"absent", "empty", "set"}] /\ Shrinks
      /\ kept = {} => \A v \in Tip!Values : v.tree = "machine" => registry'[v] = "absent"
  BY <1>1, <1>2, <1>3, ClearingShrinks DEF Shrinks
<1>6. shown' \in [Windows -> Statuses]  BY <1>1, <1>3, RefreshedIsTyped DEF Tip!Succeeds, TypedTip
<1>7. TypedTip'  BY <1>1, <1>2, <1>3, <1>4, <1>5, <1>6 DEF TypedTip
<1>8. Razed(w)'  BY <1>4 DEF Razed
<1>9. ASSUME w \in alone, ~task[w].failed, kept = {}  PROVE Tip!RemovedIsGone'
  <2>1. /\ profile = "absent" /\ categories = {}
        /\ \A v \in Tip!Values : v.tree = "classes" => registry[v] = "absent"
    BY <1>1, <1>9 DEF TipInv, AloneIsDone, Razed, Tip!At
  <2>2. \A v \in Tip!Values : v.tree # "user" => v.tree = "classes" \/ v.tree = "machine"
    BY WritesAreValues
  <2> QED BY <1>1, <1>5, <1>9, <2>1, <2>2 DEF Tip!RemovedIsGone, Shrinks
<1>10. (gone' = gone) \/ (w \in alone /\ Tip!RemovedIsGone')
  BY <1>2, <1>3, <1>7, <1>9 DEF TypedTip
<1> QED BY <1>1, <1>4, <1>5, <1>7, <1>8, <1>10, RemovingKeeps

\* What a window does while it executes no command, and the end of the window.
LEMMA RestingKeeps ==
  ASSUME Tip!RegistrationAssumption, NEW w \in Windows, TipInv, TypedTip', TypedTasks', OnlyTask(w),
         ~Tip!Installing(w)', ~Tip!Removing(w)', Shrinks, access # "never" => access' # "never",
         alone' \subseteq alone, whole' => whole, gone' = gone,
         Grows \/ (~whole' /\ \A x \in alone' : Tip!Removing(x))
  PROVE  TipInv'
<1>1. \A x \in Windows :
        (Tip!Removing(x)' => Tip!Removing(x)) /\ (Tip!Installing(x)' => Tip!Installing(x))
  BY DEF OnlyTask, Tip!Removing, Tip!Installing
<1>2. alone \subseteq Windows  BY DEF TipInv, TypedTip
<1>3. Apart'  BY <1>1, <1>2 DEF TipInv, Apart
<1>4. ASSUME NEW x \in alone'  PROVE Built(x)' /\ Razed(x)'
  <2>1. x \in Windows /\ Built(x) /\ Razed(x)  BY <1>2 DEF TipInv, AloneIsDone
  <2>2. CASE x = w  BY <2>2 DEF Built, Razed, Past, Tip!At, Tip!Installing
  <2>3. CASE x # w
    <3>1. task'[x] = task[x]  BY <2>1, <2>3 DEF OnlyTask
    <3>2. Razed(x)'  BY <2>1, <3>1, RazedStays
    <3>3. CASE Grows  BY <2>1, <3>1, <3>2, <3>3, BuiltStays
    <3>4. CASE Tip!Removing(x)
      <4>1. ~Tip!Installing(x)' /\ ~Tip!At(x, "enable")'
        BY <3>1, <3>4 DEF Tip!Removing, Tip!Installing, Tip!At
      <4> QED BY <3>2, <4>1 DEF Built, Past
    <3> QED BY <3>3, <3>4
  <2> QED BY <2>2, <2>3
<1>5. AloneIsDone'  BY <1>4 DEF AloneIsDone
<1>6. whole' => Grows /\ Tip!InstalledIsWhole /\ whole  BY DEF TipInv
<1>7. categories' \subseteq Tip!ToSet(Categories)  BY DEF TypedTip
<1>8. Tip!InstalledIsWhole'  BY <1>6, <1>7 DEF Tip!InstalledIsWhole, Grows
<1>9. Tip!RemovedIsGone'  BY DEF TipInv, Tip!RemovedIsGone, Shrinks
<1>10. Allowed'  BY AllowedStays DEF OnlyTask, TipInv, Past
<1>11. Tip!PublishedIsLoadable'
  BY DEF TipInv, Tip!PublishedIsLoadable, Shrinks, Tip!RegistrationAssumption
<1> QED BY <1>3, <1>5, <1>8, <1>9, <1>10, <1>11 DEF TipInv

\* The beginning of an installation, and of a removal.
LEMMA InstallKeeps ==
  ASSUME Tip!RegistrationAssumption, NEW w \in Windows, TipInv, Tip!Install(w)  PROVE  TipInv'
<1>1. /\ task[w] = Tip!Idle /\ UNCHANGED <<registry, categories, profile, access, shown, ready>>
      /\ Tip!Goes(w, "prepare") /\ gone' = FALSE /\ whole' = whole
      /\ alone' = {x \in alone : Tip!Installing(x)} \cup
                  (IF \E x \in Windows : Tip!Removing(x) THEN {} ELSE {w})
  BY DEF Tip!Install, Tip!Starts, Tip!state, Tip!told, Tip!Overlaps
<1>2. TypedTasks' /\ Tip!At(w, "prepare")' /\ \A x \in Windows \ {w} : task'[x] = task[x]
  BY <1>1, GoesOnTo DEF TipInv
<1>3. alone \subseteq Windows /\ alone' \subseteq Windows  BY <1>1 DEF TipInv, TypedTip
<1>4. TypedTip'  BY <1>1, <1>3 DEF TipInv, TypedTip
<1>5. ~Tip!Installing(w) /\ ~Tip!Removing(w)' /\ ~Tip!Removing(w)
  BY <1>1, <1>2 DEF Tip!Idle, Tip!Installing, Tip!Removing, Tip!At
<1>6. /\ \A x \in Windows \ {w} : Tip!Installing(x)' = Tip!Installing(x)
      /\ \A x \in Windows : Tip!Removing(x)' = Tip!Removing(x)
  BY <1>2, <1>5 DEF Tip!Installing, Tip!Removing
<1>7. Apart'
  <2>1. ASSUME NEW y \in alone', NEW x \in Windows
        PROVE  /\ ~(Tip!Installing(y)' /\ Tip!Removing(x)')
               /\ ~(Tip!Removing(y)' /\ Tip!Installing(x)')
    <3>1. CASE y = w /\ \A z \in Windows : ~Tip!Removing(z)  BY <1>6, <3>1
    <3>2. CASE y \in alone /\ Tip!Installing(y)
      <4>1. ~Tip!Removing(x) /\ ~Tip!Removing(y)
        BY <1>3, <3>2 DEF TipInv, Apart, Tip!Installing, Tip!Removing
      <4> QED BY <1>3, <1>6, <3>2, <4>1
    <3> QED BY <1>1, <3>1, <3>2
  <2>2. \A x \in Windows : whole' => ~Tip!Removing(x)'  BY <1>1, <1>6 DEF TipInv, Apart
  <2> QED BY <1>1, <2>1, <2>2 DEF Apart
<1>8. Grows /\ Shrinks  BY <1>1 DEF Grows, Shrinks
<1>9. ASSUME NEW x \in alone'  PROVE Built(x)' /\ Razed(x)'
  <2>1. CASE x = w  BY <1>2, <1>5, <2>1 DEF Built, Razed, Past, Tip!At
  <2>2. CASE x # w
    <3>1. x \in Windows /\ Built(x) /\ Razed(x) /\ task'[x] = task[x]
      BY <1>1, <1>2, <1>3, <2>2 DEF TipInv, AloneIsDone
    <3> QED BY <1>8, <3>1, BuiltStays, RazedStays
  <2> QED BY <2>1, <2>2
<1>10. AloneIsDone'  BY <1>9 DEF AloneIsDone
<1>11. Tip!InstalledIsWhole' /\ Tip!RemovedIsGone' /\ Tip!PublishedIsLoadable'
  BY <1>1 DEF TipInv, Tip!InstalledIsWhole, Tip!RemovedIsGone, Tip!PublishedIsLoadable
<1>12. ~Past(w, {})'  BY <1>2 DEF Past
<1>13. Allowed'  BY <1>1, <1>2, <1>12, AllowedStays DEF TipInv
<1> QED BY <1>2, <1>4, <1>7, <1>10, <1>11, <1>13 DEF TipInv

LEMMA UninstallKeeps ==
  ASSUME Tip!RegistrationAssumption, NEW w \in Windows, TipInv, Tip!Uninstall(w)  PROVE  TipInv'
<1>1. /\ task[w] = Tip!Idle /\ UNCHANGED <<registry, categories, profile, access, shown, ready>>
      /\ Tip!Goes(w, "unprofile") /\ whole' = FALSE /\ gone' = gone
      /\ alone' = {x \in alone : Tip!Removing(x)} \cup
                  (IF \E x \in Windows : Tip!Installing(x) THEN {} ELSE {w})
  BY DEF Tip!Uninstall, Tip!Starts, Tip!state, Tip!told, Tip!Overlaps
<1>2. TypedTasks' /\ Tip!At(w, "unprofile")' /\ \A x \in Windows \ {w} : task'[x] = task[x]
  BY <1>1, GoesOnTo DEF TipInv
<1>3. alone \subseteq Windows /\ alone' \subseteq Windows  BY <1>1 DEF TipInv, TypedTip
<1>4. TypedTip'  BY <1>1, <1>3 DEF TipInv, TypedTip
<1>5. ~Tip!Removing(w) /\ ~Tip!Installing(w)' /\ ~Tip!Installing(w)
  BY <1>1, <1>2 DEF Tip!Idle, Tip!Installing, Tip!Removing, Tip!At
<1>6. /\ \A x \in Windows \ {w} : Tip!Removing(x)' = Tip!Removing(x)
      /\ \A x \in Windows : Tip!Installing(x)' = Tip!Installing(x)
  BY <1>2, <1>5 DEF Tip!Installing, Tip!Removing
<1>7. Apart'
  <2>1. ASSUME NEW y \in alone', NEW x \in Windows
        PROVE  /\ ~(Tip!Installing(y)' /\ Tip!Removing(x)')
               /\ ~(Tip!Removing(y)' /\ Tip!Installing(x)')
    <3>1. CASE y = w /\ \A z \in Windows : ~Tip!Installing(z)  BY <1>6, <3>1
    <3>2. CASE y \in alone /\ Tip!Removing(y)
      <4>1. ~Tip!Installing(x) /\ ~Tip!Installing(y)
        BY <1>3, <3>2 DEF TipInv, Apart, Tip!Installing, Tip!Removing
      <4> QED BY <1>3, <1>6, <3>2, <4>1
    <3> QED BY <1>1, <3>1, <3>2
  <2>2. \A x \in Windows : gone' => ~Tip!Installing(x)'  BY <1>1, <1>6 DEF TipInv, Apart
  <2> QED BY <1>1, <2>1, <2>2 DEF Apart
<1>8. Grows /\ Shrinks  BY <1>1 DEF Grows, Shrinks
<1>9. ASSUME NEW x \in alone'  PROVE Built(x)' /\ Razed(x)'
  <2>1. CASE x = w  BY <1>2, <1>5, <2>1 DEF Built, Razed, Past, Tip!At
  <2>2. CASE x # w
    <3>1. x \in Windows /\ Built(x) /\ Razed(x) /\ task'[x] = task[x]
      BY <1>1, <1>2, <1>3, <2>2 DEF TipInv, AloneIsDone
    <3> QED BY <1>8, <3>1, BuiltStays, RazedStays
  <2> QED BY <2>1, <2>2
<1>10. AloneIsDone'  BY <1>9 DEF AloneIsDone
<1>11. Tip!InstalledIsWhole' /\ Tip!RemovedIsGone' /\ Tip!PublishedIsLoadable'
  BY <1>1 DEF TipInv, Tip!InstalledIsWhole, Tip!RemovedIsGone, Tip!PublishedIsLoadable
<1>12. ~Past(w, {})'  BY <1>5 DEF Past
<1>13. Allowed'  BY <1>1, <1>2, <1>12, AllowedStays DEF TipInv
<1> QED BY <1>2, <1>4, <1>7, <1>10, <1>11, <1>13 DEF TipInv

\* A window without a task whose tasks stay as they are.
LEMMA IdleStays ==
  ASSUME NEW w \in Windows, TypedTasks, task[w] = Tip!Idle, task' = task
  PROVE  TypedTasks' /\ OnlyTask(w) /\ ~Tip!Installing(w)' /\ ~Tip!Removing(w)'
<1>1. task'[w].at = "idle"  BY DEF Tip!Idle
<1> QED BY <1>1 DEF TypedTasks, Tip!At, OnlyTask, Tip!Installing, Tip!Removing

\* The steps of a window between its commands.
LEMMA LooksKeep ==
  ASSUME Tip!RegistrationAssumption, NEW w \in Windows, TipInv,
         Tip!Switch(w) \/ Tip!Visit(w) \/ Tip!Download(w)
  PROVE  TipInv'
<1>1. /\ task[w] = Tip!Idle /\ UNCHANGED <<registry, categories, access, task, alone, whole, gone>>
      /\ profile' \in {"enabled", "disabled", profile}
      /\ (profile = "absent" => profile' = "absent")
      /\ ready' \subseteq ready \cup {w} /\ (profile # "absent" => profile' # "absent")
  BY DEF Tip!Switch, Tip!Visit, Tip!Download, Tip!state, Tip!history
<1>2. shown' \in [Windows -> Statuses]
  BY RefreshedIsTyped DEF Tip!Switch, Tip!Visit, Tip!Download, TipInv, TypedTip
<1>3. TypedTip'  BY <1>1, <1>2 DEF TipInv, TypedTip
<1>4. Grows /\ Shrinks  BY <1>1 DEF Grows, Shrinks
<1>5. TypedTasks' /\ OnlyTask(w) /\ ~Tip!Installing(w)' /\ ~Tip!Removing(w)'
  BY <1>1, IdleStays DEF TipInv
<1> QED BY <1>1, <1>3, <1>4, <1>5, RestingKeeps

LEMMA UpdateKeeps ==
  ASSUME Tip!RegistrationAssumption, NEW w \in Windows, TipInv, Tip!Update(w)  PROVE  TipInv'
<1>1. /\ task[w] = Tip!Idle /\ UNCHANGED <<registry, categories, profile, task, gone>>
      /\ access' \in {"never", "lost", "granted"} /\ (access # "never" => access' # "never")
      /\ ready' = ready \ {w} /\ Tip!Refreshes(w)
      /\ alone' = {x \in alone : Tip!Removing(x)} /\ whole' = FALSE
  BY DEF Tip!Update
<1>2. shown' \in [Windows -> Statuses]  BY <1>1, RefreshedIsTyped DEF TipInv, TypedTip
<1>3. TypedTip'  BY <1>1, <1>2 DEF TipInv, TypedTip
<1>4. Shrinks  BY <1>1 DEF Shrinks
<1>5. TypedTasks' /\ OnlyTask(w) /\ ~Tip!Installing(w)' /\ ~Tip!Removing(w)'
  BY <1>1, IdleStays DEF TipInv
<1>6. alone' \subseteq alone /\ \A x \in alone' : Tip!Removing(x)  BY <1>1
<1> QED BY <1>1, <1>3, <1>4, <1>5, <1>6, RestingKeeps

LEMMA RestartKeeps ==
  ASSUME Tip!RegistrationAssumption, NEW w \in Windows, TipInv, Tip!Restart(w)  PROVE  TipInv'
<1>1. /\ UNCHANGED <<registry, categories, profile, alone, whole, gone>> /\ Tip!Ends(w)
      /\ access' \in {access, "granted"} /\ ready' = ready \ {w} /\ Tip!Refreshes(w)
  BY DEF Tip!Restart, Tip!history
<1>2. shown' \in [Windows -> Statuses]  BY <1>1, RefreshedIsTyped DEF TipInv, TypedTip
<1>3. TypedTip'  BY <1>1, <1>2 DEF TipInv, TypedTip
<1>4. Grows /\ Shrinks  BY <1>1 DEF Grows, Shrinks
<1>5. TypedTasks' /\ OnlyTask(w) /\ ~Tip!Installing(w)' /\ ~Tip!Removing(w)'
  BY <1>1, EndsIdle DEF TipInv
<1> QED BY <1>1, <1>3, <1>4, <1>5, RestingKeeps

\* The invariant holds at first, every step keeps it, and it implies what is promised.
LEMMA TipInitInv == Tip!RegistrationAssumption /\ Tip!Init => TipInv
<1> SUFFICES ASSUME Tip!RegistrationAssumption, Tip!Init  PROVE TipInv
  OBVIOUS
<1>1. \A w \in Windows : task[w] = Tip!Idle /\ task[w].at = "idle" /\ task[w].next = 0
  BY DEF Tip!Init, Tip!Idle
<1>2. TypedTip  BY DEF Tip!Init, TypedTip, Statuses
<1>3. Tip!Idle \in Jobs  BY DEF Tip!Idle, Jobs
<1>4. TypedTasks  BY <1>1, <1>3 DEF Tip!Init, TypedTasks, Tip!At
<1>5. \A w \in Windows : ~Tip!Installing(w) /\ ~Tip!Removing(w)
  BY <1>1 DEF Tip!Installing, Tip!Removing
<1>6. Apart /\ AloneIsDone /\ Allowed  BY <1>5 DEF Tip!Init, Apart, AloneIsDone, Allowed, Past
<1>7. Tip!InstalledIsWhole /\ Tip!RemovedIsGone /\ Tip!PublishedIsLoadable
  BY DEF Tip!Init, Tip!InstalledIsWhole, Tip!RemovedIsGone, Tip!PublishedIsLoadable,
         Tip!RegistrationAssumption
<1> QED BY <1>2, <1>4, <1>6, <1>7 DEF TipInv

LEMMA TipNextInv ==
  ASSUME Tip!RegistrationAssumption, TipInv, [Tip!Next]_(Tip!vars)
  PROVE  TipInv'
<1>1. ASSUME NEW w \in Windows, Tip!Installation(w)  PROVE TipInv'
  BY <1>1, PreparesKeeps, RegisterKeeps, ConnectsKeeps, CategoriseKeeps, ProfilesKeeps, EnablesKeeps
     DEF Tip!Installation
<1>2. ASSUME NEW w \in Windows, Tip!Removal(w)  PROVE TipInv'
  BY <1>2, UnprofileKeeps, UncategoriseKeeps, UnclassKeeps, UnmachineKeeps DEF Tip!Removal
<1>3. ASSUME NEW w \in Windows,
             \/ Tip!Switch(w) \/ Tip!Visit(w) \/ Tip!Download(w)
             \/ Tip!Update(w) \/ Tip!Restart(w)
      PROVE  TipInv'
  BY <1>3, LooksKeep, UpdateKeeps, RestartKeeps
<1>4. ASSUME NEW w \in Windows, Tip!Install(w) \/ Tip!Uninstall(w)  PROVE TipInv'
  BY <1>4, InstallKeeps, UninstallKeeps
<1>5. CASE UNCHANGED Tip!vars
  <2>1. UNCHANGED <<registry, categories, profile, access, shown, ready, task, alone, whole, gone>>
    BY <1>5 DEF Tip!vars, Tip!state, Tip!told, Tip!history
  <2> QED BY <2>1 DEF TipInv, TypedTip, TypedTasks, Apart, AloneIsDone, Allowed, Built, Razed, Past,
        Tip!Installing, Tip!Removing, Tip!At,
        Tip!InstalledIsWhole, Tip!RemovedIsGone, Tip!PublishedIsLoadable
<1> QED BY <1>1, <1>2, <1>3, <1>4, <1>5 DEF Tip!Next

LEMMA TipInvIsSound == TipInv => Tip!RegistrationIsSound
<1> SUFFICES ASSUME TipInv  PROVE Tip!TypeOK
  BY DEF Tip!RegistrationIsSound, TipInv
<1>1. \A w \in Windows :
        task[w].next \in 1..Len(Writes) \cup 1..Len(Categories) \cup {0, 1}
  BY DEF TipInv, TypedTasks
<1> QED BY <1>1 DEF TipInv, TypedTip, Tip!TypeOK, Statuses

\* For any lists of values and categories, any number of windows and commands, and whichever
\* calls fail: an installation that no removal or update overlapped leaves everything
\* registered, a removal that no installation overlapped leaves nothing outside the user's
\* tree, and the DLL is never published before hosts are allowed to load it.
THEOREM RegistrationIsAlwaysSound ==
  ASSUME Tip!RegistrationAssumption
  PROVE  Tip!Spec => []Tip!RegistrationIsSound
<1>1. Tip!Init => TipInv  BY TipInitInv
<1>2. TipInv /\ [Tip!Next]_(Tip!vars) => TipInv'  BY TipNextInv
<1> QED BY <1>1, <1>2, TipInvIsSound, PTL DEF Tip!Spec
=============================================================================
