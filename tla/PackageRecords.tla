--------------------------- MODULE PackageRecords ---------------------------
(***************************************************************************)
(* The record of one package: how a control paragraph is read, what        *)
(* apt.Package keeps of it, and how it is written into a Packages index,   *)
(* which every later command reads and writes again.                       *)
(*                                                                         *)
(* A text is a sequence of characters, a value the sequence of its lines   *)
(* (the empty value is one empty line). A paragraph is written as lines:   *)
(* fields, continuation lines with their indentation, and noise, which     *)
(* stands for blank lines and whatever else ParseParagraph skips.          *)
(***************************************************************************)
EXTENDS Naturals, SequencesExt

Field(name, text) == [kind |-> "field", name |-> name, text |-> text]
More(indent, text) == [kind |-> "more", indent |-> indent, text |-> text]
Noise == [kind |-> "noise"]

Nothing == <<>>            \* the empty text
Empty == <<Nothing>>       \* the empty value
Dot == <<".">>

---------------------------------------------------------------------------
(* Paragraphs *)

Positions(s) == [i \in DOMAIN s |-> i]

\* Paragraph.set and setExtraField: a field that comes again keeps its place and
\* gets the new value.
Merged(fields) ==
  LET Named(name) == {i \in DOMAIN fields : fields[i].name = name}
      places == SelectSeq(Positions(fields),
                          LAMBDA i : i = Min(Named(fields[i].name)))
  IN  [k \in DOMAIN places |-> fields[Max(Named(fields[places[k]].name))]]

\* A continuation " ." is an empty line, any other one a line without its
\* indentation; it is the first line if the field itself has no text.
Unfolded(text, more) ==
  LET rest == [k \in DOMAIN more |->
                 IF more[k] = More(1, Dot) THEN Nothing ELSE more[k].text]
  IN  IF text = Nothing /\ rest # <<>> /\ rest[1] # Nothing THEN rest ELSE <<text>> \o rest

\* The fields with the continuation lines up to the next one; everything else,
\* and continuations before the first field, is ignored.
ParseParagraph(lines) ==
  LET starts == SelectSeq(Positions(lines), LAMBDA i : lines[i].kind = "field")
      End(k) == IF k = Len(starts) THEN Len(lines) ELSE starts[k + 1] - 1
      Value(k) ==
        Unfolded(lines[starts[k]].text,
                 SelectSeq(SubSeq(lines, starts[k] + 1, End(k)),
                           LAMBDA line : line.kind = "more"))
  IN  Merged([k \in DOMAIN starts |-> [name |-> lines[starts[k]].name, value |-> Value(k)]])

\* Mutant: an empty line is written as it is, which no reader takes for one.
WriteFieldBlank(name, value) ==
  LET last == SelectLastInSeq(value, LAMBDA text : text # Nothing)
  IN  <<Field(name, value[1])>> \o
        [i \in 1..(IF last = 0 THEN 0 ELSE last - 1) |->
           IF value[i + 1] = Nothing THEN Noise ELSE More(1, value[i + 1])]

\* writeField without the empty lines at the end.
WriteField(name, value) ==
  LET last == SelectLastInSeq(value, LAMBDA text : text # Nothing)
  IN  <<Field(name, value[1])>> \o
        [i \in 1..(IF last = 0 THEN 0 ELSE last - 1) |->
           More(1, IF value[i + 1] = Nothing THEN Dot ELSE value[i + 1])]

---------------------------------------------------------------------------
(* Versions *)

Digits == {"0", "1", "2"}

\* versionPattern: digits before a colon are the epoch if anything follows; the
\* first dash after at least one character ends the version.
ParseVersion(text) ==
  LET colon == SelectInSeq(text, LAMBDA ch : ch = ":")
      numbered == /\ colon \in 2..(Len(text) - 1)
                  /\ \A i \in 1..(colon - 1) : text[i] \in Digits
      epoch == IF numbered THEN SubSeq(text, 1, colon - 1) ELSE Nothing
      rest == IF numbered THEN SubSeq(text, colon + 1, Len(text)) ELSE text
      dash == SelectInSeq(Tail(rest), LAMBDA ch : ch = "-") + 1
  IN  [epoch     |-> epoch,
       version   |-> IF dash = 1 THEN rest ELSE SubSeq(rest, 1, dash - 1),
       iteration |-> IF dash = 1 THEN Nothing ELSE SubSeq(rest, dash + 1, Len(rest)),
       present   |-> Contains(rest, "-")]

\* Mutant: a trailing dash is forgotten.
FullVersionOfParts(v) ==
  (IF v.epoch = Nothing THEN Nothing ELSE v.epoch \o <<":">>)
    \o v.version
    \o (IF v.iteration # Nothing THEN <<"-">> \o v.iteration ELSE Nothing)

FullVersion(v) ==
  (IF v.epoch = Nothing THEN Nothing ELSE v.epoch \o <<":">>)
    \o v.version
    \o (IF v.present THEN <<"-">> \o v.iteration ELSE Nothing)

---------------------------------------------------------------------------
(* Dependencies: a name, and for most an operator and a version of numbers.  *)
(* A bare dependency is written without parentheses.                         *)

Dependency(name, op, version) ==
  [name |-> name, op |-> op, version |-> version, bare |-> FALSE]

\* debianizeOperator, which only bare dependencies go through.
DebianOperator(dependency) ==
  CASE dependency.bare /\ dependency.op = "<" -> "<<"
    [] dependency.bare /\ dependency.op = ">" -> ">>"
    [] OTHER -> dependency.op

\* Lower case, and dashes for underscores, for the names that occur.
LowerName(name) == IF name = "Foo_Bar" THEN "foo-bar" ELSE name

\* The end of the range of "~>": the number before the last one is increased,
\* the last one is zero.
NextVersion(version) ==
  LET n == Len(version)
      i == IF n = 1 THEN 1 ELSE n - 1
  IN  [[version EXCEPT ![i] = @ + 1] EXCEPT ![n] = 0]

\* Mutant: "!=" stays a dependency, and becomes a conflict again the next time.
NormalizeDependencyTwice(dependency) ==
  LET name == LowerName(dependency.name)
      op == DebianOperator(dependency)
      version == dependency.version
  IN  CASE op = "~>" -> [depends   |-> <<Dependency(name, ">=", version),
                                         Dependency(name, "<<", NextVersion(version))>>,
                         conflicts |-> <<>>]
        [] op = "!=" -> [depends   |-> <<Dependency(name, op, version)>>,
                         conflicts |-> <<Dependency(name, "=", version)>>]
        [] OTHER     -> [depends   |-> <<Dependency(name, op, version)>>,
                         conflicts |-> <<>>]

\* normalizeDependency: what it depends on and what it conflicts with.
NormalizeDependency(dependency) ==
  LET name == LowerName(dependency.name)
      op == DebianOperator(dependency)
      version == dependency.version
  IN  CASE op = "~>" -> [depends   |-> <<Dependency(name, ">=", version),
                                         Dependency(name, "<<", NextVersion(version))>>,
                         conflicts |-> <<>>]
        [] op = "!=" -> [depends |-> <<>>, conflicts |-> <<Dependency(name, "=", version)>>]
        [] OTHER     -> [depends   |-> <<Dependency(name, op, version)>>,
                         conflicts |-> <<>>]

---------------------------------------------------------------------------
(* Packages *)

\* The fields apt.Package has members for, in the order Render writes them.
RenderOrder ==
  <<"Package", "Version", "License", "Vendor", "Architecture", "Maintainer",
    "Installed-Size", "Depends", "Conflicts", "Breaks", "Pre-Depends",
    "Provides", "Replaces", "Recommends", "Suggests", "Enhances", "Section",
    "Origin", "Priority", "Homepage", "Filename", "Size", "SHA1", "SHA256",
    "MD5sum", "Description">>

Known == ToSet(RenderOrder)

\* What describes an entry of an index and not the package.
IndexFields == {"Filename", "Size", "SHA1", "SHA256", "MD5sum"}

\* Written whether the paragraph has them or not, and with which value.
Default ==
  [name \in {"Package", "License", "Vendor", "Architecture", "Maintainer",
             "Installed-Size", "Section", "Priority", "Homepage", "Description"} |->
     CASE name = "License"     -> <<<<"unknown">>>>
       [] name = "Vendor"      -> <<<<"none">>>>
       [] name = "Homepage"    -> <<<<"http://nourlgiven.example.com/">>>>
       [] name = "Description" -> <<<<"no description given">>>>
       [] OTHER                -> Empty]

\* normalizeExtraFieldName for the names that occur: X, at most three of B, C and
\* S, and a dash are dropped.
Normalized(name) ==
  CASE name = "XB-Tag"      -> "Tag"
    [] name = "XB-Filename" -> "Filename"
    [] name = "X-XB-Tag"    -> "XB-Tag"
    [] OTHER                -> name

\* What ParsePackage returns with an error.
NoPackage == [known |-> <<>>, extra |-> <<>>, version |-> <<>>]

\* ParsePackage: the known fields, and the others under their normalized name. A
\* paragraph without a version of one line is an error.
ParsePackage(lines) ==
  LET fields == ParseParagraph(lines)
      Value(name) == fields[SelectInSeq(fields, LAMBDA f : f.name = name)].value
      names == {fields[i].name : i \in DOMAIN fields}
      others == SelectSeq(fields, LAMBDA f : f.name \notin Known)
  IN  IF "Version" \notin names \/ Value("Version") = Empty
         \/ Len(Value("Version")) > 1
      THEN NoPackage
      ELSE [known   |-> [name \in names \cap Known |-> Value(name)],
            extra   |-> Merged([i \in DOMAIN others |->
                                  [others[i] EXCEPT !.name = Normalized(@)]]),
            version |-> ParseVersion(Value("Version")[1])]

\* Mutant: the fields of an index are taken from the control file.
InspectedAsIs(package) == package

\* What ReadPackage leaves of a control file: index fields are dropped.
Inspected(package) ==
  [package EXCEPT !.known = [name \in DOMAIN @ \ IndexFields |-> @[name]]]

Name(package) ==
  IF "Package" \in DOMAIN package.known THEN package.known["Package"][1] ELSE Nothing

\* RepositoryFilename: the key an entry names, or the one the first two characters
\* of its name lead to, which must not change when the path is cleaned.
Placed(package) ==
  \/ "Filename" \in DOMAIN package.known
  \/ /\ Name(package) # Nothing
     /\ Name(package)[1] # "."
     /\ \A i \in DOMAIN Name(package) \cap {1, 2} : Name(package)[i] # "/"

PoolKey(package) ==
  IF "Filename" \in DOMAIN package.known THEN package.known["Filename"]
  ELSE <<<<"pool/">> \o Name(package)>>

\* Package.Render of a package that is Placed.
Render(package) ==
  LET Has(name) == name \in DOMAIN package.known
      normalized ==
        IF Has("Depends")
        THEN [i \in DOMAIN package.known["Depends"][1] |->
                NormalizeDependency(package.known["Depends"][1][i])]
        ELSE <<>>
      conflicts == (IF Has("Conflicts") THEN package.known["Conflicts"][1] ELSE <<>>)
                     \o FlattenSeq([i \in DOMAIN normalized |-> normalized[i].conflicts])
      Written(name) ==
        CASE name = "Depends"   -> normalized # <<>>
          [] name = "Conflicts" -> Has(name) \/ conflicts # <<>>
          [] OTHER -> Has(name) \/ name \in DOMAIN Default \cup {"Version", "Filename"}
      Value(name) ==
        CASE name = "Version"  -> <<FullVersion(package.version)>>
          [] name = "Filename" -> PoolKey(package)
          [] name = "Depends"  ->
               <<FlattenSeq([i \in DOMAIN normalized |-> normalized[i].depends])>>
          [] name = "Conflicts" -> <<conflicts>>
          [] OTHER -> IF Has(name) THEN package.known[name] ELSE Default[name]
      names == SelectSeq(RenderOrder, Written)
      extra == package.extra
  IN  FlattenSeq([i \in DOMAIN names |-> WriteField(names[i], Value(names[i]))])
        \o FlattenSeq([i \in DOMAIN extra |->
                         WriteField(extra[i].name, extra[i].value)])
=============================================================================
