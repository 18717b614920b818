------------------------------ MODULE MCLibrary -------------------------------
(* Small files for Library: two characters, two letters, a wildcard and a digit. *)
EXTENDS Library

MCLower == {"a", "b", "z"}
MCAlphanumeric == MCLower \cup {"7"}
MCHan == {"jia", "yi"}
MCCharOrder ==
  [c \in MCAlphanumeric \cup MCHan \cup {"\t", " ", "#", "'"} |->
     CASE c = "\t" -> 9 [] c = " " -> 32 [] c = "#" -> 35 [] c = "'" -> 39 [] c = "7" -> 55
       [] c = "a" -> 97 [] c = "b" -> 98 [] c = "z" -> 122 [] c = "jia" -> 1000 [] c = "yi" -> 1001]

W1 == <<"jia">>
W2 == <<"yi">>
W12 == <<"jia", "yi">>

Line(code, word, weight) == [code |-> code, word |-> word, weight |-> weight]
Row2(code, word, weight) == Line(code, word, {weight})

ShapeHeader == [DefaultHeader EXCEPT !.pinyin = {Auxiliary}, !.reverse = TRUE]
WildHeader ==
  [DefaultHeader EXCEPT !.charset = @ \cup {"#"}, !.wildcard = {"z"}, !.english = {Auxiliary}]
PinyinHeader == [DefaultHeader EXCEPT !.type = "pinyin"]
Table(header, lines) == [front |-> "header", header |-> header, lines |-> lines]
Plain(lines) == [front |-> "none", header |-> DefaultHeader, lines |-> lines]

ShapeTable == Table(ShapeHeader,
  <<Row2(<<"a", "b">>, W1, 5), Row2(<<"a">>, W1, 2), Row2(<<"a">>, W2, 3), Row2(<<"a", "b">>, W2, 4),
    Row2(<<"a", "a">>, W12, 1)>>)
WildTable == Table(WildHeader,
  <<Row2(<<"b", "b">>, W1, 2), Row2(<<"a", "b">>, W2, 2), Row2(<<"a">>, W1, 1), Row2(<<"a", "a">>, W1, 3)>>)
PinyinTable == Table(PinyinHeader,
  <<Row2(<<"a", "'", "b">>, W12, 2), Row2(<<"a">>, W1, 1), Row2(<<"a", "b">>, W2, 3),
    Row2(<<"a", "a", "'", "b">>, W12, 1)>>)
PlainTable == Plain(
  <<Line(<<"#">>, W1, {}), Row2(<<"a">>, W2, 2), Line(<<"b">>, <<" ", "jia">>, {})>>)
BrokenTable == [Plain(<<>>) EXCEPT !.front = "broken"]

UserLines == Plain(<<Row2(<<"a">>, W1, 9), Row2(<<"b", "7">>, W2, 1)>>)
NearLines == Plain(<<Row2(<<"a">>, W1, 3), Row2(<<"a">>, W2, 1), Row2(<<"a">>, W1, 5)>>)

Disk(main, auxiliary, user) ==
  [f \in Files |-> CASE f = Main -> main [] f = Auxiliary -> auxiliary [] f = UserFile -> user]
MCFirstDisks ==
  {Disk(ShapeTable, PinyinTable, UserLines), Disk(WildTable, PlainTable, NearLines),
   Disk(PinyinTable, NoFile, NoFile)}

MCByOthers ==
  [f \in Files |-> CASE f = Main -> {PlainTable, BrokenTable} [] f = Auxiliary -> {BrokenTable}
                     [] f = UserFile -> {NearLines}]
\* Two ordinary entries; one with a word of blanks, one with a padded word, and one whose code the
\* reader takes for a comment.
MCFormEntries ==
  {Line(<<"a", "b">>, W2, {6}), Line(<<"a">>, W1, {2}), Line(<<"b">>, <<" ">>, {1}),
   Line(<<"b">>, <<" ", "jia">>, {1}), Line(<<"#">>, W1, {1})}
MCHeaders == {[WildHeader EXCEPT !.wildcard = {"b"}]}
MCImports == {UserLines}

MCKeys ==
  UNION {[1..n -> MCLower] : n \in 0..2}
    \cup {<<"a", "'">>, <<"a", "'", "b">>, <<"a", "a", "b">>, <<"'", "a">>, <<"z", "b", "z">>, <<"7">>}
=============================================================================
