-------------------------------- MODULE Lookup --------------------------------
(***************************************************************************)
(* How a dictionary of core_engine is built and searched: one array sorted *)
(* by code, looked up by binary search, by wildcard, through the index of  *)
(* syllables of a pinyin table, or through the trie.  Codes and words are  *)
(* sequences of characters, an entry is [code, word, weight].  Every       *)
(* search prefers exact codes: no caller in the program asks otherwise.    *)
(* The trie is taken to be there for every table that is not pinyin: the   *)
(* tables of a model are far below the 200 000 entries where it ends.      *)
(***************************************************************************)
EXTENDS Naturals, FiniteSets, SequencesExt

CONSTANTS
  CharOrder, \* [character -> Nat]: the order of code points
  Lower      \* the ASCII lower-case letters

Quote == "'"

ASSUME CharOrderAssumption ==
  /\ Lower \cup {Quote} \subseteq DOMAIN CharOrder /\ Quote \notin Lower
  /\ \A c, d \in DOMAIN CharOrder : CharOrder[c] = CharOrder[d] => c = d

\* The order of strings.
Below(s, t) ==
  \E n \in 0..Len(s) :
    /\ n <= Len(t) /\ SubSeq(s, 1, n) = SubSeq(t, 1, n)
    /\ IF n = Len(s) THEN n < Len(t)
       ELSE n < Len(t) /\ CharOrder[s[n + 1]] < CharOrder[t[n + 1]]

Positions(s) == [i \in DOMAIN s |-> i]
StableSort(s, Ahead(_, _)) ==
  LET comes(i, j) == Ahead(s[i], s[j]) \/ (~Ahead(s[j], s[i]) /\ i < j)
      order == SortSeq(Positions(s), comes)
  IN [n \in DOMAIN s |-> s[order[n]]]

\* The entries at the positions that hold.
SelectAt(s, Holds(_)) ==
  LET kept == SelectSeq(Positions(s), Holds) IN [n \in DOMAIN kept |-> s[kept[n]]]

Heavier(e, f) == e.weight > f.weight

\* Take: the first entries, at most limit of them.
Take(s, limit) == SubSeq(s, 1, IF limit < Len(s) THEN limit ELSE Len(s))

\* One entry a word: the first.  Mutant: only neighbours are compared.
DistinctNeighbours(s) == SelectAt(s, LAMBDA i : i = 1 \/ s[i - 1].word # s[i].word)
Distinct(s) == SelectAt(s, LAMBDA i : \A j \in 1..(i - 1) : s[j].word # s[i].word)

-----------------------------------------------------------------------------
(* Building: by code, then the heavier first. *)

Build(header, entries) ==
  [header |-> header,
   entries |-> StableSort(entries, LAMBDA e, f :
                 Below(e.code, f.code) \/ (e.code = f.code /\ Heavier(e, f)))]

IsPinyin(d) == d.header.type = "pinyin"

\* partition_point of the codes below key, and the run of entries from there on that hold.
LowerBound(entries, key) ==
  CHOOSE n \in 0..Len(entries) :
    /\ \A i \in 1..n : Below(entries[i].code, key)
    /\ n = Len(entries) \/ ~Below(entries[n + 1].code, key)
Run(entries, after, Holds(_)) ==
  LET upto(n) == \A i \in (after + 1)..n : Holds(entries[i])
  IN SubSeq(entries, after + 1,
            CHOOSE n \in after..Len(entries) :
              upto(n) /\ (n = Len(entries) \/ ~Holds(entries[n + 1])))
WithPrefix(entries, key) ==
  Run(entries, LowerBound(entries, key), LAMBDA e : IsPrefix(key, e.code))

Exact(d, code) ==
  Run(d.entries, LowerBound(d.entries, code), LAMBDA e : e.code = code)

-----------------------------------------------------------------------------
(* Searching by the letters typed. *)

\* What is longer than the key is looked through in the order of the codes until there are
\* enough, and only then ordered by weight.
SearchLiteral(d, key, limit) ==
  LET exact == Distinct(Exact(d, key))
      more == SelectSeq(WithPrefix(d.entries, key), LAMBDA e : e.code # key)
      all == Distinct(exact \o more)
      room == IF Len(exact) < limit THEN limit ELSE Len(exact) + 1
      found == Take(all, room)
  IN IF key = <<>> THEN <<>>
     ELSE Take(StableSort(found, LAMBDA e, f :
                 \/ e.code = key /\ f.code # key
                 \/ (e.code = key) = (f.code = key) /\ Heavier(e, f)), limit)

WildcardMatch(code, pattern, wildcard) ==
  /\ Len(code) = Len(pattern)
  /\ \A i \in DOMAIN pattern : pattern[i] \in {wildcard, code[i]}

SearchWildcard(d, pattern, wildcard, limit) ==
  LET first == CHOOSE i \in DOMAIN pattern :
                 pattern[i] = wildcard /\ \A j \in 1..(i - 1) : pattern[j] # wildcard
      near == WithPrefix(d.entries, SubSeq(pattern, 1, first - 1))
      hits == SelectSeq(near, LAMBDA e : WildcardMatch(e.code, pattern, wildcard))
  IN Take(Distinct(StableSort(hits, Heavier)), limit)

-----------------------------------------------------------------------------
(* Pinyin: the letters must be those of the code, and every quote typed must stand where *)
(* one syllable ends.                                                                    *)

Letters(code) == SelectSeq(code, LAMBDA c : c # Quote)
Boundaries(code) ==
  {Len(Letters(SubSeq(code, 1, i - 1))) : i \in {j \in DOMAIN code : code[j] = Quote}}

HasEmptySyllable(code) ==
  code = <<>> \/ Head(code) = Quote
  \/ \E i \in 1..(Len(code) - 1) : code[i] = Quote /\ code[i + 1] = Quote
ValidPinyin(code) ==
  /\ ~HasEmptySyllable(code) /\ Last(code) # Quote
  /\ \A i \in DOMAIN code : code[i] \in Lower \cup {Quote}

PinyinSearch(entries, input, limit) ==
  LET hits == SelectSeq(entries, LAMBDA e : /\ IsPrefix(Letters(input), Letters(e.code))
                                            /\ Boundaries(input) \subseteq Boundaries(e.code))
      exact(e) == Letters(e.code) = Letters(input)
  IN IF HasEmptySyllable(input) \/ \E i \in DOMAIN input : input[i] \notin Lower \cup {Quote}
     THEN <<>>
     ELSE Take(Distinct(StableSort(hits, LAMBDA e, f :
                 \/ exact(e) /\ ~exact(f)
                 \/ exact(e) = exact(f) /\ Heavier(e, f))), limit)

-----------------------------------------------------------------------------
(* The entry points. *)

Wild(d, key) == {w \in d.header.wildcard : \E i \in DOMAIN key : key[i] = w}

Search(d, key, limit) ==
  IF IsPinyin(d) THEN PinyinSearch(d.entries, key, limit)
  ELSE IF Wild(d, key) # {}
  THEN SearchWildcard(d, key, CHOOSE w \in Wild(d, key) : TRUE, limit)
  ELSE SearchLiteral(d, key, limit)

Literal(d, key, limit) ==
  IF IsPinyin(d) THEN PinyinSearch(d.entries, key, limit) ELSE SearchLiteral(d, key, limit)

SearchTrie(d, key, limit) ==
  IF IsPinyin(d) \/ Wild(d, key) # {} \/ key = <<>> \/ Exact(d, key) = <<>>
  THEN Search(d, key, limit)
  ELSE Take(Distinct(StableSort(Exact(d, key), Heavier)), limit)

HasPrefix(d, key) ==
  IF IsPinyin(d) THEN Search(d, key, 1) # <<>>
  ELSE /\ key # <<>>
       /\ LET lower == LowerBound(d.entries, key)
          IN lower < Len(d.entries) /\ IsPrefix(key, d.entries[lower + 1].code)
=============================================================================
