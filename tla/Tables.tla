-------------------------------- MODULE Tables --------------------------------
(***************************************************************************)
(* The files of core_engine that hold words: main and auxiliary tables     *)
(* with their YAML header, and the user dictionary.  What a file may hold, *)
(* how it is read for the keyboard and for an editor, what is refused,     *)
(* how it is written, and how the keyboard's dictionary is made of them.   *)
(*                                                                         *)
(* A file is its header and its lines; a line is what stands between its   *)
(* tabs.  The display name and the numbers of the lines are left out, and  *)
(* so is the text of the errors: what fails yields the empty set, what     *)
(* succeeds the set of its one result.                                     *)
(***************************************************************************)
EXTENDS Lookup

CONSTANTS
  Main, Auxiliary, \* the tables; the header of Main may refer to Auxiliary
  UserFile,        \* the user dictionary
  Alphanumeric,    \* the ASCII letters and digits in use
  Han              \* the Chinese characters in use

Blank == " "
Tab == "\t"
Comment == "#"

ASSUME TablesAssumption ==
  /\ Main # Auxiliary /\ UserFile \notin {Main, Auxiliary}
  /\ Alphanumeric \cup {Blank, Tab, Comment} \cup Han \subseteq DOMAIN CharOrder
  /\ Lower \subseteq Alphanumeric /\ Alphanumeric \cap Han = {}
  /\ {Blank, Tab, Comment, Quote} \cap (Alphanumeric \cup Han) = {}

MainTables == {Main, Auxiliary}
Files == MainTables \cup {UserFile}

Shape == "shape"
Pinyin == "pinyin"
DefaultHeader == [type |-> Shape, wildcard |-> {}, charset |-> Lower, max |-> 4, key |-> {},
                  pinyin |-> {}, english |-> {}, reverse |-> FALSE]

NoFile == [front |-> "absent", header |-> DefaultHeader, lines |-> <<>>]

-----------------------------------------------------------------------------
(* Lines. *)

Trim(text) ==
  LET solid == {i \in DOMAIN text : text[i] \notin {Blank, Tab}}
  IN IF solid = {} THEN <<>> ELSE SubSeq(text, Min(solid), Max(solid))

IsComment(line) ==
  LET code == Trim(line.code) IN IF code = <<>> THEN Trim(line.word) = <<>> ELSE Head(code) = Comment

\* A weight that is not a number counts as 1 in a table; a user dictionary is refused.
Row(line) ==
  [code |-> Trim(line.code), word |-> Trim(line.word),
   weight |-> IF line.weight = {} THEN 1 ELSE CHOOSE w \in line.weight : TRUE]
Rows(lines) ==
  LET rows == SelectSeq(lines, LAMBDA line : ~IsComment(line))
  IN [i \in DOMAIN rows |-> Row(rows[i])]

Written(entries) ==
  [i \in DOMAIN entries |-> [entries[i] EXCEPT !.weight = {@}]]

ReadLines(lines, wildcard) ==
  LET rows == Rows(lines)
  IN IF \E i \in DOMAIN rows : \/ rows[i].code = <<>> \/ rows[i].word = <<>>
                               \/ wildcard \cap ToSet(rows[i].code) # {}
     THEN {} ELSE {rows}

-----------------------------------------------------------------------------
(* Tables. *)

ValidHeader(h) ==
  /\ h.charset # {} /\ h.charset \cap {Blank, Tab} = {}
  /\ h.type = Pinyin => h.charset = Lower /\ h.wildcard = {}
  /\ h.key \cap (h.charset \cup {Blank, Tab}) = {}
  /\ h.max > 0
  /\ h.wildcard \subseteq h.charset

Syllables(code) == Cardinality(Boundaries(code)) + 1

ValidEntry(h, e) ==
  /\ e.code # <<>> /\ e.word # <<>>
  /\ Tab \notin ToSet(e.code) \cup ToSet(e.word)
  /\ IF h.type = Pinyin
     THEN /\ ValidPinyin(e.code)
          /\ (Len(e.word) > 1 /\ ToSet(e.word) \subseteq Han) => Syllables(e.code) = Len(e.word)
          /\ Len(Letters(e.code)) <= h.max
     ELSE ToSet(e.code) \subseteq h.charset /\ Len(e.code) <= h.max
  /\ h.wildcard \cap ToSet(e.code) = {}

ValidTable(h, entries) ==
  ValidHeader(h) /\ \A i \in DOMAIN entries : ValidEntry(h, entries[i])

\* For an editor: whatever has the form of a table.
ReadTable(file) ==
  {[header |-> file.header, entries |-> rows] :
     rows \in {r \in ReadLines(file.lines, {}) : file.front \notin {"absent", "broken"}}}

\* For the keyboard.
ParseTable(file) ==
  {[header |-> file.header, entries |-> rows] :
     rows \in {r \in ReadLines(file.lines, file.header.wildcard) :
                 file.front \notin {"absent", "broken"} /\ ValidTable(file.header, r)}}

LoadTable(file) == {Build(t.header, t.entries) : t \in ParseTable(file)}

LoadPinyin(file) == {d \in LoadTable(file) : IsPinyin(d)}

ReferencesLoad(disk, h) ==
  /\ \A f \in h.pinyin : LoadPinyin(disk[f]) # {}
  /\ \A f \in h.english : LoadTable(disk[f]) # {}

\* The entries are written as they are, under a header.
SaveTable(disk, h, entries) ==
  IF ReferencesLoad(disk, h) /\ ValidTable(h, entries)
  THEN {[front |-> "header", header |-> h, lines |-> Written(entries)]} ELSE {}

-----------------------------------------------------------------------------
(* The user dictionary. *)

ValidUser(e) ==
  /\ e.code # <<>> /\ ToSet(e.code) \subseteq Alphanumeric
  /\ e.word # <<>> /\ Tab \notin ToSet(e.word)

SamePair(e, f) == e.code = f.code /\ e.word = f.word

Sorted(entries) ==
  StableSort(entries, LAMBDA e, f :
    \/ Below(e.code, f.code)
    \/ e.code = f.code /\ Heavier(e, f)
    \/ e.code = f.code /\ e.weight = f.weight /\ Below(e.word, f.word))

\* Only a pair that stands next to its like is dropped.
ReadUser(file) ==
  LET rows == Sorted(Rows(file.lines))
      kept == SelectAt(rows, LAMBDA i : i = 1 \/ ~SamePair(rows[i - 1], rows[i]))
      bad == \E i \in DOMAIN file.lines : /\ ~IsComment(file.lines[i])
                                          /\ file.lines[i].weight = {}
  IN IF file.front = "absent" THEN {<<>>}
     ELSE IF bad \/ \E i \in DOMAIN rows : ~ValidUser(rows[i]) THEN {} ELSE {kept}

Place(entries, id) ==
  {i \in DOMAIN entries : /\ SamePair(entries[i], id)
                          /\ \A j \in 1..(i - 1) : ~SamePair(entries[j], id)}

UserAdd(entries, e) ==
  IF ValidUser(e) /\ Place(entries, e) = {} THEN {Append(entries, e)} ELSE {}
UserUpdate(entries, id, e) ==
  {[entries EXCEPT ![i] = e] :
     i \in {j \in Place(entries, id) : /\ ValidUser(e)
                                       /\ \A k \in DOMAIN entries :
                                            k # j => ~SamePair(entries[k], e)}}
UserRemove(entries, id) == {RemoveAt(entries, i) : i \in Place(entries, id)}
UserImport(entries, imported) ==
  {FoldLeft(LAMBDA got, e : IF Place(got, e) = {} THEN Append(got, e)
                            ELSE [got EXCEPT ![CHOOSE i \in Place(got, e) : TRUE].weight = e.weight],
            entries, more) : more \in ReadUser(imported)}

\* What an edit makes of the entries it finds.
UserEdit(entries, edit) ==
  CASE edit.op = "Add" -> UserAdd(entries, edit.entry)
    [] edit.op = "Update" -> UserUpdate(entries, edit.id, edit.entry)
    [] edit.op = "Remove" -> UserRemove(entries, edit.id)
    [] edit.op = "Import" -> UserImport(entries, edit.file)

WriteUser(entries) ==
  [front |-> "none", header |-> DefaultHeader, lines |-> Written(Sorted(entries))]

EditUser(file, edit) ==
  {WriteUser(after) : after \in UNION {UserEdit(before, edit) : before \in ReadUser(file)}}

-----------------------------------------------------------------------------
(* The dictionary of the keyboard. *)

\* Mutant of MergeDictionary: an entry of the user hides every entry of its word.
MergeByWord(system, user) ==
  Build(system.header, user \o SelectSeq(system.entries, LAMBDA e :
          \A i \in DOMAIN user : user[i].word # e.word))
\* The pairs of the user come first and replace those of the table.
MergeDictionary(system, user) ==
  Build(system.header, user \o SelectSeq(system.entries, LAMBDA e :
          \A i \in DOMAIN user : ~SamePair(user[i], e)))

\* The codes of a word in the table itself, the shortest first, each once.
ReverseCodes(system, word) ==
  LET rows == SelectSeq(system.entries, LAMBDA e : e.word = word)
      codes == StableSort([i \in DOMAIN rows |-> rows[i].code],
                          LAMBDA s, t : Len(s) < Len(t) \/ (Len(s) = Len(t) /\ Below(s, t)))
  IN SelectAt(codes, LAMBDA i : i = 1 \/ codes[i - 1] # codes[i])

\* A snapshot of the files, or nothing when one of them cannot be used.
BuildRuntime(disk) ==
  {[system |-> system, main |-> MergeDictionary(system, user),
    pinyin |-> UNION {LoadPinyin(disk[f]) : f \in system.header.pinyin}] :
     system \in {d \in LoadTable(disk[Main]) : ReferencesLoad(disk, d.header)},
     user \in ReadUser(disk[UserFile])}
=============================================================================
