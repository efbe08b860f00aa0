-------------------------- MODULE PackageProperties --------------------------
(***************************************************************************)
(* What ReadPackage promises of any file, stated without its steps: which  *)
(* packages it accepts, what it counts and hashes of them, that it ends;   *)
(* and what must stay of a package while its entry is read and rendered    *)
(* again and again.                                                        *)
(***************************************************************************)
EXTENDS PackageReader

---------------------------------------------------------------------------
(* Well-formed packages *)

\* The members of a file that ends between two members.
IsWhole(a, n) ==
  /\ a.cut = Len(Encode(SubSeq(a.members, 1, n)))
  /\ \A i \in 1..n : a.members[i].legal /\ a.members[i].size = Len(a.members[i].blocks)

\* A tar archive up to its end mark.
Body(units) ==
  LET end == SelectInSeq(units, LAMBDA u : u.kind = "end")
  IN  IF end = 0 THEN units ELSE SubSeq(units, 1, end - 1)

Entries(units) == {i \in DOMAIN units : units[i].kind = "entry"}

\* Every entry is followed by as many lines as it says and then by another one.
IsTar(units) ==
  /\ units # <<>> => units[1].kind = "entry"
  /\ \A i \in DOMAIN units : units[i].kind \in {"entry", "line"}
  /\ \A i \in Entries(units) :
       LET next == i + units[i].size + 1
       IN  /\ next <= Len(units) + 1
           /\ next \in DOMAIN units => units[next].kind = "entry"
           /\ \A j \in (i + 1)..(next - 1) : units[j].kind = "line"

Controls(units) == {i \in Entries(units) : IsControl(units[i].name)}

\* The lines of the last control file.
ControlLines(units) ==
  LET i == CHOOSE j \in Controls(units) : \A k \in Controls(units) : k <= j
  IN  [n \in 1..units[i].size |-> units[i + n].line]

\* A control archive within the limits that has a usable control file.
HasControl(units) ==
  LET body == Body(units)
  IN  /\ IsTar(body)
      /\ (IF body = units THEN Len(body) ELSE Len(body) + 1) <= MaxArchive
      /\ \A i \in Entries(body) : ~UnsafeName(body[i].name)
      /\ \A i \in Controls(body) : body[i].regular /\ body[i].size <= MaxControl
      /\ Controls(body) # {}
      /\ ParsePackage(ControlLines(body)) # NoPackage

\* debian-binary, a control archive, a data archive: what else there is before the
\* data has a name that begins with an underscore, what follows may be anything.
IsPackage(members) ==
  LET rest == SelectSeq(Tail(members), LAMBDA m : m.kind # "underscore")
  IN  /\ members # <<>> /\ Len(rest) >= 2
      /\ members[1].kind = "debian-binary"
      /\ members[1].size <= MaxFormat
      /\ FlattenSeq(members[1].blocks) = <<Format>>
      /\ rest[1].kind = "control" /\ rest[1].codec # "unknown"
      /\ HasControl(FlattenSeq(rest[1].blocks))
      /\ rest[2].kind = "data"

Acceptable(a) ==
  \E n \in 0..Len(a.members) : IsWhole(a, n) /\ IsPackage(SubSeq(a.members, 1, n))

---------------------------------------------------------------------------
(* Properties *)

Accepted == pc \in {"accepted", "published", "unplaced"}

\* The members are read inside their bounds and the unpacked archive inside its
\* limit, whatever a decoder reads ahead.
TypeOK ==
  /\ pos \in 0..Len(file)
  /\ pc \in {"magic", "next", "skip", "header", "member", "format", "entry", "control",
             "tarEnd", "whole", "rejected", "failed", "accepted", "published", "unplaced"}
  /\ remaining \in Nat
  /\ remaining > 0 => remaining <= member.size
  /\ padding \in 0..1
  /\ left \in Nat
  /\ state \in 0..3
  /\ open \in BOOLEAN
  /\ budget \in 0..MaxArchive
  /\ Len(text) <= MaxControl
  /\ generation \in 0..MaxGeneration

\* ReadPackage accepts exactly the complete and well-formed packages within its
\* limits: where the file was cut and how far a decoder read ahead never decides.
AcceptsWellFormed ==
  /\ Accepted => Acceptable(archive)
  /\ pc = "rejected" => ~Acceptable(archive)

\* Size and digests of an accepted package cover its file to the last unit, padding
\* and trailing members included, each of them read once.
DigestsCoverFile ==
  Accepted => /\ pos = Len(file)
              /\ \A f \in {"Size", "SHA1", "SHA256", "MD5sum"} :
                   package.known[f] = <<<<ToString(Len(file))>>>>

\* Packages whose text survives being rendered: no line is a lone dot, the version
\* does not begin with a dash, and no extra field has or gets the name of a known
\* one or another prefix to lose.
Rewritable(p) ==
  LET Plain(value) == \A i \in 2..Len(value) : value[i] # Dot
  IN  /\ p.version.version[1] # "-"
      /\ \A f \in DOMAIN p.known : Plain(p.known[f])
      /\ \A i \in DOMAIN p.extra :
           /\ Plain(p.extra[i].value)
           /\ p.extra[i].name \notin Known
           /\ Normalized(p.extra[i].name) = p.extra[i].name

WithoutBlankEnd(value) ==
  LET last == SelectLastInSeq(value, LAMBDA line : line # Nothing)
  IN  IF last = 0 THEN Empty ELSE SubSeq(value, 1, last)

\* However often its entry is read and rendered, a package keeps its version, its
\* texts and its extra fields, in one paragraph, and the entry names the object
\* upload stored and the size and digests of its file, not those the control file
\* claims.
EntryKeepsPackage ==
  generation > 0 /\ Rewritable(package) =>
    LET read == ParsePackage(entry)
    IN  /\ ~Contains(entry, Noise)
        /\ read.known["Filename"] = <<<<"pool/">> \o Name(package)>>
        /\ \A f \in DOMAIN package.known \ {"Depends", "Conflicts"} :
             read.known[f] = WithoutBlankEnd(package.known[f])
        /\ read.extra = [i \in DOMAIN package.extra |->
                           [package.extra[i] EXCEPT !.value = WithoutBlankEnd(@)]]

\* From the second time on an entry is rendered as it was read, so that commands
\* that do not touch a package leave its entry, and the digests of the index,
\* alone: dependencies are not normalised twice, conflicts are not added again.
EntrySettles == [][generation >= 2 => entry' = entry]_vars

\* The reading ends, at the end of the file or with an error, however the file was
\* cut and packed.
ReaderEnds == <>(pc \in {"whole", "rejected", "failed"})
=============================================================================
