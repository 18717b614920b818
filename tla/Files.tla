--------------------------------- MODULE Files ---------------------------------
(***************************************************************************)
(* The files MyWubi shares between its processes on Windows: config.toml,  *)
(* main tables that may refer to auxiliary ones, and the user dictionary.  *)
(* Each is replaced whole (atomic_write) and none is locked.  The system   *)
(* reports changes under the directories that the watcher of one host      *)
(* process watches.                                                        *)
(***************************************************************************)
EXTENDS Naturals, FiniteSets

CONSTANTS
  Config, User,        \* config.toml and the user dictionary
  Mains, Auxiliaries,  \* the files that may serve as main and as auxiliary tables
  Editions,            \* what a file that can be read may hold, and what it refers to
  DefaultConfig,       \* Config::default
  Shipped,             \* the contents of the tables installed beside the program
  DirOf, Above,        \* a file's directory; a directory and those around it
  FirstDirs,           \* the directories that exist at first
  FirstDisks,          \* what the files may hold at first
  ByOthers,            \* the files other programs write
  MaxWrites            \* bound: changes of files

Paths == {Config, User} \cup Mains \cup Auxiliaries
Dirs == DOMAIN Above

Absent == [refs |-> {}, text |-> "absent"]
Broken == [refs |-> {}, text |-> "broken"]
Contents(p) == Editions[p] \cup {Absent, Broken}

\* Directories are nested: among any of those around one, some lies within all the others.
ASSUME FilesAssumption ==
  /\ Config \notin {User} \cup Mains \cup Auxiliaries
  /\ Mains \cap Auxiliaries = {} /\ User \notin Mains \cup Auxiliaries
  /\ \A e \in Editions[Config] : \E m \in Mains : e.refs = {m}
  /\ \A e \in Editions[Config], m \in Mains : [e EXCEPT !.refs = {m}] \in Editions[Config]
  /\ DefaultConfig \in Editions[Config]
  /\ \A m \in Mains : \A e \in Editions[m] : e.refs \subseteq Auxiliaries
  /\ \A m, n \in Mains : Editions[m] = Editions[n]
  /\ \A p \in {User} \cup Auxiliaries : \A e \in Editions[p] : e.refs = {}
  /\ DOMAIN Shipped \subseteq Mains /\ \A m \in DOMAIN Shipped : Shipped[m] \in Editions[m]
  /\ \A p \in Paths : DirOf[p] \in Dirs
  /\ \A d \in Dirs :
       /\ d \in Above[d] /\ Above[d] \subseteq Dirs /\ FirstDirs \cap Above[d] # {}
       /\ \A s \in (SUBSET Above[d]) \ {{}} : \E a \in s : s \subseteq Above[a]
  /\ FirstDirs \subseteq Dirs
  /\ FirstDisks \subseteq [Paths -> UNION {Contents(p) : p \in Paths}]
  /\ \A d \in FirstDisks : d[Config] # Absent /\ \A p \in Paths :
       d[p] \in Contents(p) /\ (DirOf[p] \notin FirstDirs => d[p] = Absent)
  /\ ByOthers \subseteq Paths /\ MaxWrites \in Nat

VARIABLES
  disk, dirs,       \* what the files hold, and the directories there are
  watched, channel, \* the directories watched, and the changes reported but not yet handled
  reader,           \* the watcher's thread: where it is, and what it has read
  writes,
  unseen,           \* history: files changed under no watch between a reading and its watch
  foreign           \* history: files changed since the settings application knew them

files == <<disk, dirs, channel, unseen>>

\* A user dictionary that is not there is an empty one.
Readable(p, content) == content # Broken /\ (content = Absent => p = User)

\* The files a snapshot depends on, as far as they can be known.
Deps(d) ==
  {Config, User} \cup d[Config].refs \cup UNION {d[m].refs : m \in d[Config].refs}

Put(changes) ==
  LET seen == {p \in DOMAIN changes : Above[DirOf[p]] \cap watched # {}} IN
  /\ disk' = [p \in Paths |-> IF p \in DOMAIN changes THEN changes[p] ELSE disk[p]]
  /\ channel' = channel \cup seen
  /\ unseen' = IF reader.at = "wait" THEN unseen ELSE unseen \cup (DOMAIN changes \ seen)
  /\ UNCHANGED dirs

Write(p, content) ==
  /\ DirOf[p] \in dirs /\ writes < MaxWrites
  /\ Put([q \in {p} |-> content]) /\ writes' = writes + 1

\* A configuration that is not there is created, and the tables installed beside the program
\* are copied over those of the user.
Resolve ==
  IF disk[Config] = Absent
  THEN Put([p \in {Config} \cup DOMAIN Shipped |->
              IF p = Config THEN DefaultConfig ELSE Shipped[p]])
  ELSE UNCHANGED files

\* Another program writes, breaks or deletes a file.
External(p, content) ==
  /\ content # disk[p] /\ Write(p, content)
  /\ foreign' = foreign \cup {p}

MakeDir(d) ==
  /\ d \notin dirs /\ Above[d] \ {d} \subseteq dirs
  /\ dirs' = dirs \cup {d}
  /\ channel' = IF Above[d] \cap watched # {} THEN channel \cup {d} ELSE channel
  /\ UNCHANGED <<disk, unseen, writes, foreign>>
================================================================================
