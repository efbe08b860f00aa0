------------------------------ MODULE MCPackage ------------------------------
(***************************************************************************)
(* Packages for TLC: archives of many shapes, each cut at every unit, and  *)
(* one archive with many control files.                                    *)
(***************************************************************************)
EXTENDS PackageProperties

Member(kind, codec, blocks) ==
  [kind |-> kind, codec |-> codec, size |-> Len(blocks), legal |-> TRUE,
   blocks |-> blocks]

Entry(name, size) == [kind |-> "entry", name |-> name, regular |-> TRUE, size |-> size]
Line(line) == [kind |-> "line", line |-> line]
End == [kind |-> "end"]
Other == [kind |-> "format", version |-> "3.0"]

Binary == Member("debian-binary", "none", <<<<Format>>>>)
Data == Member("data", "none", <<<<>>>>)
Extra == Member("underscore", "none", <<<<>>, <<>>>>)
Trailing == Member("other", "none", <<<<>>>>)

\* The shortest control file.
Lines == <<Line(Field("Package", <<"a">>)), Line(Field("Version", <<"1">>))>>
File(name) == <<Entry(name, 2)>> \o Lines
Short == File(<<".", "control">>)
Note(name) == <<Entry(name, 1), Line(Noise)>>
Notes == Note(<<".", "">>) \o Note(<<"md5sums">>) \o Note(<<"x", "control">>)

Plain(units) == Member("control", "plain", [i \in DOMAIN units |-> <<units[i]>>])
\* The whole archive in the first of two blocks, or half of it in each.
Packed(units) == Member("control", "compressed", <<units, <<>>>>)
Halves(units) ==
  LET n == Len(units) \div 2
  IN  Member("control", "compressed",
             <<SubSeq(units, 1, n), SubSeq(units, n + 1, Len(units)), <<>>>>)

ControlArchives ==
  {Plain(Short \o <<End>>), Plain(Short),
   Packed(Short \o <<End>>), Halves(Short \o <<End>>),
   Halves(Short \o <<End, Broken>>),                                  \* after the end
   Halves(<<Broken>> \o Short \o <<End>>),
   Packed(Notes \o Short), Halves(Notes \o Short),                    \* at the limit
   Packed(Notes \o Short \o <<End>>), Halves(Notes \o Short \o <<End>>), \* beyond it
   Packed(Short \o File(<<"x", "..", "control">>)),                   \* the last one counts
   Packed(<<Entry(<<"control">>, 0)>> \o Short),
   Packed(Short \o <<Entry(<<"control">>, 0)>>),                      \* no version
   Packed(Note(<<"md5sums">>)), Packed(<<>>), Packed(Short \o Lines),
   Packed(Note(<<"x", "..", "..", "control">>) \o Short),
   Packed(Note(<<".", "", "control">>) \o Short),
   Packed(File(<<"", "control">>)), Packed(Note(<<"">>) \o Short),
   Packed(<<[Entry(<<"control">>, 0) EXCEPT !.regular = FALSE]>> \o Short),
   Packed(<<Entry(<<"control">>, 3)>> \o Lines),
   Packed(<<Entry(<<"control">>, 7)>> \o [i \in 1..7 |-> Line(Noise)]),           \* beyond MaxControl
   [Packed(Short) EXCEPT !.codec = "unknown"]}

Shapes ==
  {<<Binary, c, Data>> : c \in ControlArchives}
  \cup {<<Binary, Extra, c, Extra, Data, Trailing>> : c \in ControlArchives}
  \cup LET c == Halves(Short \o <<End>>)
       IN  {<<Binary, Extra, c, Extra, Data, Trailing, Plain(Short)>>,
            <<Binary, c, c, Data>>, <<Binary, Data, c>>, <<Binary, Trailing, c, Data>>,
            <<c, Data>>, <<Data, Binary, c>>,
            <<Binary, [c EXCEPT !.size = 4], Data>>,
            <<Binary, c, [Data EXCEPT !.size = 2]>>,
            <<Binary, c, [Data EXCEPT !.legal = FALSE]>>,
            <<[Binary EXCEPT !.blocks[1] = <<Other>>], c, Data>>,
            <<Member("debian-binary", "none", <<<<Format>>, <<>>>>), c, Data>>}

Cut == {[members |-> m, cut |-> n] : m \in Shapes, n \in 0..40}
MCCut == {a \in Cut : a.cut <= Len(Encode(a.members))}

---------------------------------------------------------------------------
(* Control files *)

Named(version) == <<Field("Package", <<"a">>), Field("Version", version)>>
Texts == UNION {[1..n -> {"1", ":", "-"}] : n \in 0..4}
Bare(name, op, version) == [Dependency(name, op, version) EXCEPT !.bare = TRUE]

Paragraphs ==
  {Named(v) : v \in Texts}
  \cup {Named(<<"1">>) \o more : more \in
    {<<Field("Description", <<"d">>), More(1, <<"e">>), More(1, Dot), More(2, <<"f">>)>>,
     <<Field("Description", Nothing), More(2, <<"e">>), More(1, Dot), Noise>>,
     <<Field("Description", Nothing), More(1, Dot), More(1, <<"e">>)>>,
     <<Field("Description", <<"d">>), More(2, Dot), Field("Homepage", Dot)>>,
     <<Field("Tag", Nothing), More(1, <<"t">>), Field("XB-Tag", <<"u">>)>>,
     <<Field("XB-Tag", <<"t">>), Field("Filename", <<"f">>), Field("Size", <<"0">>)>>,
     <<Field("XB-Filename", <<"f">>)>>, <<Field("X-XB-Tag", <<"t">>)>>,
     <<Field("Package", <<"b">>), Field("License", Nothing)>>,
     <<Field("Package", <<".", "b">>)>>, <<Field("Package", <<"b", "/", "c">>)>>,
     <<Field("Package", <<"b", "c", "/", "d">>)>>,
     <<Field("Package", Nothing)>>, <<More(1, <<"2">>)>>,
     <<Field("Depends", <<Dependency("a", "~>", <<1, 2, 3>>),
                          Dependency("b", "!=", <<1>>), Bare("Foo_Bar", ">", <<1>>)>>)>>,
     <<Field("Depends", <<Bare("a", "!=", <<1>>)>>)>>, <<Field("Depends", Nothing)>>,
     <<Field("Depends", <<Dependency("a", "~>", <<1>>), Dependency("b", "", <<>>)>>),
       Field("Conflicts", <<Dependency("c", "<", <<1>>)>>)>>}}
  \cup {<<More(1, <<"x">>), Noise>> \o Named(<<"1">>), <<Field("Package", <<"a">>)>>}

Textual(lines) ==
  <<Binary,
    Member("control", "compressed",
           <<<<Entry(<<"control">>, Len(lines))>> \o [i \in DOMAIN lines |-> Line(lines[i])]>>),
    Data>>

MCTexts ==
  {[members |-> Textual(p), cut |-> Len(Encode(Textual(p)))] :
     p \in {q \in Paragraphs : Len(q) <= 6}}

MCArchives == MCCut \cup MCTexts
=============================================================================
