------------------------------- MODULE Library --------------------------------
(***************************************************************************)
(* The editor of tables and of the user dictionary on Android              *)
(* (LibraryModel behind LibraryActivity), the files it edits, the drafts   *)
(* it keeps of what is not saved, and the keyboard that loads what it      *)
(* saved.  The work of the model is done on a thread of its own, in steps  *)
(* between which others may change the files and the process may die; its  *)
(* results are published on the main thread.                               *)
(*                                                                         *)
(* Versions and digests are those of contents, so a content stands for     *)
(* both.  One model is open at a time, and it is left only when it is not  *)
(* at work, as the screen has it.                                          *)
(***************************************************************************)
EXTENDS Tables

CONSTANTS
  FirstDisks,   \* what the files may hold at first
  ByOthers,     \* [file -> contents that something else may put there]
  FormEntries,  \* the entries typed into the form: [code, word, weight]
  Headers,      \* the headers made in the form
  Imports,      \* the files chosen for an import into the user dictionary
  Apart,        \* the tables are in different directories
  MaxPlace,     \* the last place of a list that is chosen
  MaxChanges, MaxSaves, MaxOthers, MaxStarts, MaxOpens \* bounds

ASSUME LibraryAssumption ==
  /\ \A disk \in FirstDisks : DOMAIN disk = Files
  /\ DOMAIN ByOthers \subseteq Files /\ Apart \in BOOLEAN
  /\ {MaxPlace, MaxChanges, MaxSaves, MaxOthers, MaxStarts, MaxOpens} \subseteq Nat

VARIABLES
  disk,     \* what the files hold
  drafts,   \* the drafts kept, by the path the table was opened under
  model,    \* the model of the screen
  keyboard, \* the snapshot the keyboard uses, if it has one
  spent,    \* changes, saves, writes by others, models and openings so far
  past      \* history, see Init

vars == <<disk, drafts, model, keyboard, spent, past>>

\* A form: the place in the list it is about (0 for a new entry), what is typed, and the
\* header.  History: the entry that stood at that place when it was chosen, and whether the list
\* shown then was read from something else than what was digested.
Blanks(header) ==
  [index |-> 0, entry |-> [code |-> <<>>, word |-> <<>>, weight |-> {1}],
   header |-> header, chosen |-> {}, torn |-> FALSE]

NoJob == [op |-> "none"]
Gone == [at |-> "gone", job |-> NoJob, path |-> [f \in {} |-> f], selected |-> {},
         data |-> {}, version |-> NoFile, baseline |-> NoFile,
         form |-> Blanks(DefaultHeader), dirty |-> FALSE]

Idle == model.at = "idle"
TheFile == CHOOSE f \in model.selected : TRUE
Data == CHOOSE d \in model.data : TRUE
IsUser == model.selected = {UserFile}

\* The catalog: a table the main table refers to is listed under the path that the reference
\* gives, the others under their own.
Paths(header) ==
  [f \in Files |-> IF Apart /\ f = Auxiliary /\ Auxiliary \in header.pinyin \cup header.english
                   THEN <<Main, f>> ELSE <<f>>]
PathsOf(f) == {<<f>>, <<Main, f>>}
Listed(path, kept) ==
  [past EXCEPT !.relisted = @ \cup
     {f \in Files : \E p \in PathsOf(f) \cap DOMAIN kept : p # path[f] /\ kept[p] # {}}]
ReadCatalog ==
  {Paths(disk[Main].header) : f \in {g \in {Main} : disk[g].front \notin {"absent", "broken"}}}

\* ReadUser and ReadTable, as an editor is given them.
ReadAs(f, content) ==
  IF f = UserFile
  THEN {[header |-> DefaultHeader, entries |-> rows] : rows \in ReadUser(content)}
  ELSE ReadTable(content)
Read(f) == ReadAs(f, disk[f])

\* The keyboard is asked to load when it starts and after every write, and does so at once: what
\* may come between is TouchHost's.  A load that fails leaves the snapshot in use.
Loads(d) == keyboard' = IF BuildRuntime(d) = {} THEN keyboard ELSE BuildRuntime(d)

Spend(what) == spent' = [spent EXCEPT ![what] = @ + 1]

-----------------------------------------------------------------------------
(* The screen. *)

Start ==
  /\ model.at = "gone" /\ spent.starts < MaxStarts /\ Spend("starts")
  /\ Loads(disk)
  /\ model' = [Gone EXCEPT !.at = "work", !.job = [op |-> "catalog"]]
  /\ UNCHANGED <<disk, drafts, past>>

Work(job) == model' = [model EXCEPT !.at = "work", !.job = job]

Open(f, discard) ==
  /\ Idle /\ f \in DOMAIN model.path
  /\ IF discard THEN model.selected = {f} ELSE ~model.dirty
  /\ spent.opens < MaxOpens /\ Spend("opens")
  /\ Work([op |-> "open", file |-> f, discard |-> discard, step |-> "read"])
  /\ UNCHANGED <<disk, drafts, keyboard, past>>

Choose(i) ==
  /\ Idle /\ ~model.dirty /\ model.selected # {} /\ i \in 0..MaxPlace /\ i <= Len(Data.entries)
  /\ model' = [model EXCEPT !.form =
       IF i = 0 THEN Blanks(Data.header)
       ELSE LET e == Data.entries[i]
            IN [index |-> i, entry |-> [e EXCEPT !.weight = {@}],
                header |-> Data.header, chosen |-> {e}, torn |-> model.version # model.baseline]]
  /\ UNCHANGED <<disk, drafts, keyboard, spent, past>>

\* Every change is kept in the draft of the path, or cannot be.
Change(form) ==
  /\ Idle /\ model.selected # {} /\ form # model.form /\ spent.changes < MaxChanges
  /\ model' = [model EXCEPT !.form = form, !.dirty = TRUE]
  /\ \/ /\ drafts' = [drafts EXCEPT ![model.path[TheFile]] =
                        {[baseline |-> model.baseline, form |-> form]}]
        /\ past' = [past EXCEPT !.unsaved[TheFile] = {form}]
     \/ UNCHANGED <<drafts, past>>
  /\ Spend("changes")
  /\ UNCHANGED <<disk, keyboard>>

Type(e) == Change([model.form EXCEPT !.entry = e])
EditHeader(h) == ~IsUser /\ Change([model.form EXCEPT !.header = h])

Save(remove) ==
  /\ Idle /\ model.selected # {} /\ spent.saves < MaxSaves
  /\ IF remove THEN model.form.index > 0 ELSE model.dirty
  /\ Work([op |-> "save", remove |-> remove, step |-> "check"])
  /\ Spend("saves")
  /\ UNCHANGED <<disk, drafts, keyboard, past>>

Import(file) ==
  /\ Idle /\ IsUser /\ ~model.dirty /\ spent.saves < MaxSaves
  /\ Work([op |-> "import", file |-> file, step |-> "check"])
  /\ Spend("saves")
  /\ UNCHANGED <<disk, drafts, keyboard, past>>

Leave ==
  /\ Idle /\ model' = Gone
  /\ UNCHANGED <<disk, drafts, keyboard, spent, past>>

-----------------------------------------------------------------------------
(* The worker, and what it publishes on the main thread. *)

Step(op, step) == model.at = "work" /\ model.job.op = op /\ model.job.step = step
Goto(step) == model' = [model EXCEPT !.job.step = step]
Ready == model' = [model EXCEPT !.at = "idle", !.job = NoJob]
Fails == Ready /\ UNCHANGED <<disk, drafts, keyboard, spent, past>>

\* A catalog that cannot be read leaves a screen without tables.
Catalog ==
  /\ model.at = "work" /\ model.job.op = "catalog"
  /\ \/ /\ ReadCatalog = {} /\ Ready /\ UNCHANGED past
     \/ \E path \in ReadCatalog :
          /\ model' = [model EXCEPT !.at = "idle", !.job = NoJob, !.path = path]
          /\ past' = Listed(path, drafts)
  /\ UNCHANGED <<disk, drafts, keyboard, spent>>

OpenReads ==
  /\ Step("open", "read")
  /\ IF Read(model.job.file) = {} THEN Fails
     ELSE /\ model' = [model EXCEPT !.job =
                [op |-> "open", step |-> "digest", file |-> @.file, discard |-> @.discard,
                 data |-> Read(@.file), version |-> disk[@.file]]]
          /\ UNCHANGED <<disk, drafts, keyboard, spent, past>>

OpenDigests ==
  /\ Step("open", "digest")
  /\ LET job == model.job
         draft == IF job.discard THEN {} ELSE drafts[model.path[job.file]]
     IN model' = [model EXCEPT !.job =
          [op |-> "open", step |-> "publish", file |-> job.file, discard |-> job.discard,
           data |-> job.data, version |-> job.version, digest |-> disk[job.file],
           draft |-> draft]]
  /\ UNCHANGED <<disk, drafts, keyboard, spent, past>>

\* A draft keeps the digest it was begun with.  Mutant: it takes that of the file as it is.
RebasedDraft(job) == [baseline |-> job.digest, form |-> (CHOOSE d \in job.draft : TRUE).form]
Restored(job) == CHOOSE d \in job.draft : TRUE

OpenPublishes ==
  /\ Step("open", "publish")
  /\ LET job == model.job IN
     /\ model' = [model EXCEPT
          !.at = "idle", !.job = NoJob, !.selected = {job.file},
          !.data = job.data, !.version = job.version,
          !.baseline = IF job.draft = {} THEN job.digest ELSE Restored(job).baseline,
          !.form = IF job.draft = {} THEN Blanks((CHOOSE d \in job.data : TRUE).header)
                   ELSE Restored(job).form,
          !.dirty = job.draft # {}]
     /\ drafts' = IF job.discard THEN [drafts EXCEPT ![model.path[job.file]] = {}] ELSE drafts
     /\ past' = IF job.discard THEN [past EXCEPT !.unsaved[job.file] = {}] ELSE past
  /\ UNCHANGED <<disk, keyboard, spent>>

Unchanged == disk[TheFile] = model.baseline

Check(op) ==
  /\ Step(op, "check")
  /\ IF Unchanged THEN Goto("write") /\ UNCHANGED <<disk, drafts, keyboard, spent, past>>
     ELSE Fails

\* What is typed: the weight must be a number.
TypedEntries ==
  {[model.form.entry EXCEPT !.weight = w] : w \in model.form.entry.weight}

\* The list with the form applied: an empty form adds nothing, and a place that is not in the list
\* removes nothing, adds at the end, or fails.
Applied(e) ==
  LET i == model.form.index
      list == Data.entries
  IN IF model.job.remove THEN {IF i \in DOMAIN list THEN RemoveAt(list, i) ELSE list}
     ELSE IF i \in DOMAIN list THEN {[list EXCEPT ![i] = e]}
     ELSE IF i = 0 /\ e.code = <<>> /\ e.word = <<>> THEN {list}
     ELSE IF i \in {0, Len(list) + 1} THEN {Append(list, e)} ELSE {}

Edits(e) ==
  LET i == model.form.index
      old == {Data.entries[j] : j \in {i} \cap DOMAIN Data.entries}
  IN IF i = 0 THEN {[op |-> "Add", entry |-> e]}
     ELSE IF model.job.remove THEN {[op |-> "Remove", id |-> id] : id \in old}
     ELSE {[op |-> "Update", id |-> id, entry |-> e] : id \in old}

\* The shared operations compare the version that was read once more.
Expected == disk[TheFile] = model.version

Results ==
  IF ~Expected THEN {}
  ELSE IF IsUser
  THEN UNION {EditUser(disk[UserFile], edit) : edit \in UNION {Edits(e) : e \in TypedEntries}}
  ELSE UNION {SaveTable(disk, model.form.header, list) : list \in UNION {Applied(e) : e \in TypedEntries}}

Wrote(content) == disk' = [disk EXCEPT ![TheFile] = content] /\ Loads(disk')

\* The file is replaced after the comparison, by what was made of the content compared
\* (data.rs, save_table and edit_user): others may write in between.
Compares(results) ==
  IF results = {} THEN Fails
  ELSE /\ \E content \in results :
            model' = [model EXCEPT !.job = [content |-> content] @@ [@ EXCEPT !.step = "replace"]]
       /\ UNCHANGED <<disk, drafts, keyboard, spent, past>>

SaveCompares == Step("save", "write") /\ Compares(Results)

\* History: what the file held, and what it was given.
SaveReplaces ==
  /\ Step("save", "replace") /\ Wrote(model.job.content)
  /\ model' = [model EXCEPT !.job =
       [op |-> "save", remove |-> @.remove, step |-> "reread",
        before |-> disk[TheFile], after |-> @.content]]
  /\ UNCHANGED <<drafts, spent, past>>

\* What cannot be read again fails the save, though the file is written.
SaveRereads ==
  /\ Step("save", "reread")
  /\ IF ReadCatalog = {} \/ Read(TheFile) = {} THEN Fails
     ELSE /\ model' = [model EXCEPT !.job =
                [op |-> "save", step |-> "digest", data |-> Read(TheFile), version |-> disk[TheFile],
                 path |-> CHOOSE p \in ReadCatalog : TRUE]]
          /\ UNCHANGED <<disk, drafts, keyboard, spent, past>>

SaveDigests ==
  /\ Step("save", "digest")
  /\ model' = [model EXCEPT !.job =
       [op |-> "save", step |-> "publish", data |-> @.data, version |-> @.version,
        path |-> @.path, digest |-> disk[TheFile]]]
  /\ UNCHANGED <<disk, drafts, keyboard, spent, past>>

\* The draft deleted is the one of the path the table is listed under now.
\* Mutant of Finished: the draft stays.
KeepDraft(job) == drafts
Finished(job) == [drafts EXCEPT ![job.path[TheFile]] = {}]

SavePublishes ==
  /\ Step("save", "publish")
  /\ LET job == model.job IN
     /\ model' = [model EXCEPT
          !.at = "idle", !.job = NoJob, !.path = job.path, !.data = job.data,
          !.version = job.version, !.baseline = job.digest, !.dirty = FALSE,
          !.form = Blanks((CHOOSE d \in job.data : TRUE).header)]
     /\ drafts' = Finished(job)
     /\ past' = [Listed(job.path, drafts') EXCEPT !.unsaved[TheFile] = {}]
  /\ UNCHANGED <<disk, keyboard, spent>>

Imported ==
  IF Expected THEN EditUser(disk[UserFile], [op |-> "Import", file |-> model.job.file]) ELSE {}

ImportCompares == Step("import", "write") /\ Compares(Imported)

\* An import leaves what the model knows of the file as it was.
ImportReplaces ==
  /\ Step("import", "replace") /\ Wrote(model.job.content) /\ Ready
  /\ UNCHANGED <<drafts, spent, past>>

Worker ==
  \/ Catalog \/ OpenReads \/ OpenDigests \/ OpenPublishes \/ Check("save") \/ Check("import")
  \/ SaveCompares \/ SaveReplaces \/ SaveRereads \/ SaveDigests \/ SavePublishes
  \/ ImportCompares \/ ImportReplaces

-----------------------------------------------------------------------------
(* Other writers, and the end of the process. *)

OthersWrite(f, content) ==
  /\ content # disk[f] /\ spent.others < MaxOthers
  /\ disk' = [disk EXCEPT ![f] = content]
  /\ Spend("others")
  /\ UNCHANGED <<drafts, model, keyboard, past>>

Dies ==
  /\ model.at # "gone" /\ model' = Gone
  /\ UNCHANGED <<disk, drafts, keyboard, spent, past>>

\* History: what was typed for a file, kept, and neither saved nor given up; the files that were
\* listed under another path than one of their drafts.
Init ==
  /\ disk \in FirstDisks
  /\ drafts = [p \in {<<f>> : f \in Files} \cup {<<Main, Auxiliary>>} |-> {}]
  /\ model = Gone
  /\ keyboard = {}
  /\ spent = [changes |-> 0, saves |-> 0, others |-> 0, starts |-> 0, opens |-> 0]
  /\ past = [unsaved |-> [f \in Files |-> {}], relisted |-> {}]

User ==
  \/ Start \/ Leave
  \/ \E f \in Files, discard \in BOOLEAN : Open(f, discard)
  \/ \E i \in 0..MaxPlace : Choose(i)
  \/ \E e \in FormEntries : Type(e)
  \/ \E h \in Headers : EditHeader(h)
  \/ \E remove \in BOOLEAN : Save(remove)
  \/ \E file \in Imports : Import(file)

Next ==
  \/ User \/ Worker \/ Dies
  \/ \E f \in DOMAIN ByOthers : \E content \in ByOthers[f] : OthersWrite(f, content)

Spec == Init /\ [][Next]_vars

-----------------------------------------------------------------------------
\* Type invariant.
TypeOK ==
  /\ model.at \in {"gone", "idle", "work"} /\ model.dirty \in BOOLEAN
  /\ model.selected \subseteq Files /\ Cardinality(model.selected) <= 1
  /\ Cardinality(model.data) <= 1 /\ Cardinality(keyboard) <= 1
  /\ \A p \in DOMAIN drafts : Cardinality(drafts[p]) <= 1
  /\ model.form.index \in 0..MaxPlace /\ model.form.torn \in BOOLEAN

(* What a save does. *)

\* The entries that were read from the file before, and those written into it.
Before == UNION {ToSet(d.entries) : d \in ReadAs(TheFile, model.job.before)}
After == {[line EXCEPT !.weight = CHOOSE w \in @ : TRUE] : line \in ToSet(model.job.after.lines)}
HasWritten == Step("save", "reread")
Taken == Before \ After

\* A save takes out at most the entry that the user chose, across the end of the process: a file
\* that others changed is not written over (LibraryModel.open and save, the digest of the draft).
\* This the code does not keep: a draft may be restored onto a digest newer than its entries.
ConflictsAreNotOverwritten == HasWritten => Taken \subseteq model.form.chosen

TouchesOnlyTheChosen ==
  /\ After \ Before \subseteq TypedEntries
  /\ ~model.form.torn => Taken \subseteq model.form.chosen

\* A save puts in at most what was typed, whatever became of the file in the meantime, and takes
\* out at most what was chosen, when nobody wrote between the two reads of the opening in which
\* that was done, nor between the comparison and the replacement (LibraryModel.save,
\* FileVersion, UserEntryId).
SavesTouchOnlyTheChosen ==
  HasWritten /\ model.job.before = model.version => TouchesOnlyTheChosen

\* "A conflict on the disk does not overwrite the file" (android/README.md:85): one that comes after
\* the comparison does.
ComparedIsReplaced == HasWritten => TouchesOnlyTheChosen

\* What a save wrote is read again, entry by entry.
IsReadBack(e) ==
  IF IsUser
  THEN \E rows \in ReadUser(model.job.after) : model.job.remove \/ e \in ToSet(rows)
  ELSE ParseTable(model.job.after) =
         {[header |-> model.form.header, entries |-> list] : list \in Applied(e)}

\* The reader trims what stands between the tabs, refuses a word that is then empty, and takes a
\* line that begins with # for a comment; the validation before the save does none of it.
Legible(e) == Trim(e.word) = e.word /\ (e.code = <<>> \/ Head(e.code) # Comment)

\* Whatever passed the validation and is legible can be loaded, as it was saved (save_table
\* and parse_dictionary, UserDictionary::replace_entries and load).
SavedIsReadBack ==
  HasWritten => \A e \in TypedEntries : model.job.remove \/ Legible(e) => IsReadBack(e)

\* Whatever passed the validation can be loaded: not so of what is not legible.
ValidIsReadBack == HasWritten => \A e \in TypedEntries : IsReadBack(e)


Reopened == Step("open", "publish") /\ model'.at = "idle" /\ ~model.job.discard
ShowsTheDraft ==
  IF past.unsaved[model.job.file] = {} THEN ~model'.dirty
  ELSE past.unsaved[model.job.file] = {model'.form}

\* A table opened again shows what was typed for it, kept, and neither saved nor given up, and
\* nothing else, as long as it is listed under the path its drafts have (LibraryModel.open,
\* draftFile).  The path is that of the reference in the main table when there is one.
DraftIsRestored == [][Reopened => model.job.file \in past.relisted \/ ShowsTheDraft]_vars

\* "The next opening of the same table can restore the draft" (LibraryActivity.kt:120): not when
\* the table is listed under another path by then.
EveryDraftIsRestored == [][Reopened => ShowsTheDraft]_vars

-----------------------------------------------------------------------------
(* What the keyboard finds. *)

CONSTANT Keys \* the spellings searched for

\* A code matches a pinyin input when the input begins it once some of its quotes are left out.
MatchesPinyin(code, input) ==
  \E out \in SUBSET {i \in DOMAIN code : code[i] = Quote} :
    IsPrefix(input, [n \in 1..(Len(code) - Cardinality(out)) |->
                       code[CHOOSE i \in DOMAIN code \ out :
                              Cardinality({j \in DOMAIN code \ out : j < i}) = n - 1]])
Matches(d, code, key) ==
  IF IsPinyin(d) THEN key # <<>> /\ ToSet(key) \subseteq Lower \cup {Quote} /\ MatchesPinyin(code, key)
  ELSE IF Wild(d, key) # {}
  THEN DOMAIN code = DOMAIN key /\ \A i \in DOMAIN key : key[i] \in {code[i]} \cup d.header.wildcard
  ELSE \E n \in DOMAIN code : key = SubSeq(code, 1, n)

WordsOf(entries) == {entries[i].word : i \in DOMAIN entries}
All(d, key) == Search(d, key, Len(d.entries))
ExactOf(d, code, key) == IF IsPinyin(d) THEN Letters(code) = Letters(key) ELSE code = key

Engine == INSTANCE InputEngine WITH
  Tables <- <<>>, CodeChars <- Alphanumeric, Digits <- {}, DigitValue <- <<>>,
  Punctuation <- {}, NonAscii <- {}

\* The ways to look up a spelling agree: the search that InputEngine assumes of its tables, the
\* prefix test and the trie answer what the array, the wildcard and the index of syllables answer.
LookupsAgree(d, key) ==
  LET all == All(d, key)
      plain == Literal(d, key, Len(d.entries))
  IN /\ ~IsPinyin(d) => Engine!Search(d.entries, key) = [i \in DOMAIN plain |-> plain[i].word]
     /\ HasPrefix(d, key) <=> plain # <<>>
     /\ SearchTrie(d, key, Len(d.entries)) =
          IF IsPinyin(d) \/ Wild(d, key) # {} \/ Exact(d, key) = <<>> THEN all
          ELSE SelectSeq(all, LAMBDA e : e.code = key)

\* Every word whose code matches the spelling is a candidate once, and nothing else is: exact codes
\* first, and the heavier before the lighter, whichever index answers (Dictionary::search,
\* PinyinIndex::search).
CandidatesMatch ==
  [][\A r \in keyboard' \ keyboard : \A key \in Keys :
    LET d == r.main
        found == All(d, key)
        exact(i) == Wild(d, key) = {} /\ ExactOf(d, found[i].code, key)
    IN /\ WordsOf(found) = {e.word : e \in {f \in ToSet(d.entries) : Matches(d, f.code, key)}}
       /\ Cardinality(WordsOf(found)) = Len(found)
       /\ \A i, j \in DOMAIN found : i < j =>
            /\ exact(j) => exact(i)
            /\ exact(i) = exact(j) => found[i].weight >= found[j].weight
       /\ LookupsAgree(d, key)]_vars

\* A code shown beside a word as a hint, which is taken from the table alone, finds the word in the
\* dictionary merged with the user's entries (ReverseLookup::new, merge_dictionary).
HintsFindTheirWords ==
  [][\A r \in keyboard' \ keyboard : \A word \in WordsOf(r.system.entries) :
    LET codes == ReverseCodes(r.system, word)
    IN \A i \in DOMAIN codes : word \in WordsOf(All(r.main, codes[i]))]_vars
=============================================================================
