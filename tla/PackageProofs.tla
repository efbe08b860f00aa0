---------------------------- MODULE PackageProofs ----------------------------
(***************************************************************************)
(* Whatever a decoder reads ahead, and for archives and limits of any      *)
(* size: an accepted package was counted and hashed to its end, and        *)
(* nothing is read outside the file, its members and the limits.           *)
(***************************************************************************)
EXTENDS PackageProperties, SequenceTheorems, WellFoundedInduction, TLAPS

\* A decoder is open only while the control archive is read, or after an error.
OpenInside ==
  /\ open \in BOOLEAN
  /\ open => pc \in {"entry", "control", "tarEnd", "rejected", "failed"}

\* From the end of the file on nothing is read.
ReadToEnd == pc = "whole" \/ Accepted => pos = Len(file)

\* The package says what was counted and hashed.
SaysPosition ==
  Accepted => \A f \in {"Size", "SHA1", "SHA256", "MD5sum"} :
                package.known[f] = <<<<ToString(pos)>>>>

Inv == OpenInside /\ ReadToEnd /\ SaysPosition

\* A control file that is no error gives a package with known fields.
LEMMA ParsedHasFields ==
  ASSUME NEW lines, ParsePackage(lines) # NoPackage
  PROVE  "known" \in DOMAIN ParsePackage(lines)
BY DEF ParsePackage

\* Size and digests are those of the bytes that were read, whatever the control
\* file says of them.
LEMMA MeasuredSaysPosition ==
  ASSUME NEW p, "known" \in DOMAIN p,
         NEW f \in {"Size", "SHA1", "SHA256", "MD5sum"}
  PROVE  Measured(Inspected(p)).known[f] = <<<<ToString(pos)>>>>
<1>1. "known" \in DOMAIN Inspected(p)
  BY DEF Inspected
<1>2. QED
  BY <1>1 DEF Measured

\* Reading leaves the package alone and ends where the file ends.
LEMMA ReadStep ==
  ASSUME Inv, Read \/ ReadFails
  PROVE  Inv'
<1> USE DEF Inv, OpenInside, ReadToEnd, SaysPosition, Accepted, Goto, Reject, stream,
            found
<1>1. CASE ReadMagic
  BY <1>1 DEF ReadMagic
<1>2. CASE SkipMember
  BY <1>2 DEF SkipMember
<1>3. CASE SkipUnit
  BY <1>3 DEF SkipUnit
<1>4. CASE SkipPadding
  BY <1>4 DEF SkipPadding
<1>5. CASE ReadHeader
  BY <1>5 DEF ReadHeader
<1>6. CASE EndOfFile
  BY <1>6 DEF EndOfFile, AtEnd
<1>7. CASE ReadMember
  BY <1>7 DEF ReadMember
<1>8. CASE ReadFormat
  BY <1>8 DEF ReadFormat
<1>9. CASE Fetch
  BY <1>9 DEF Fetch
<1>10. CASE ReadRefused
  BY <1>10 DEF ReadRefused
<1>11. CASE SkipData
  BY <1>11 DEF SkipData, Take
<1>12. CASE ReadEntry
  BY <1>12 DEF ReadEntry, Take
<1>13. CASE ReadControl
  BY <1>13 DEF ReadControl, Take
<1>14. CASE KeepControl
  BY <1>14 DEF KeepControl
<1>15. CASE StreamEnds
  BY <1>15 DEF StreamEnds
<1>16. CASE CloseControlArchive
  BY <1>16 DEF CloseControlArchive
<1>17. CASE ReadFails
  BY <1>17 DEF ReadFails
<1>18. QED
  BY <1>1, <1>2, <1>3, <1>4, <1>5, <1>6, <1>7, <1>8, <1>9, <1>10, <1>11, <1>12,
     <1>13, <1>14, <1>15, <1>16, <1>17 DEF Read

\* Accepting a package measures it; rendering its entry changes nothing of that.
LEMMA EntryStep ==
  ASSUME Inv, Accept \/ Publish \/ Republish
  PROVE  Inv'
<1> USE DEF Inv, OpenInside, ReadToEnd, SaysPosition, Accepted, stream, reading
<1>1. CASE Accept
  <2> DEFINE p == ParsePackage(Last(control))
  <2>1. CASE p = NoPackage
    BY <1>1, <2>1 DEF Accept, Reject, Goto, found
  <2>2. CASE p # NoPackage
    <3>1. /\ package' = Measured(Inspected(p)) /\ pc' = "accepted" /\ pc = "whole"
          /\ UNCHANGED <<file, pos, open>>
      BY <1>1, <2>2 DEF Accept
    <3>2. \A f \in {"Size", "SHA1", "SHA256", "MD5sum"} :
             Measured(Inspected(p)).known[f] = <<<<ToString(pos)>>>>
      BY <2>2, ParsedHasFields, MeasuredSaysPosition
    <3>3. QED
      BY <3>1, <3>2
  <2>3. QED
    BY <2>1, <2>2
<1>2. CASE Publish
  BY <1>2 DEF Publish
<1>3. CASE Republish
  BY <1>3 DEF Republish
<1>4. QED
  BY <1>1, <1>2, <1>3

\* The size and the digests of every package that ReadPackage accepts are those of
\* its whole file: reader.go reads to the end before it computes them, and no
\* decoder is open any more that could read on.
THEOREM DigestsAreComplete == Spec => []DigestsCoverFile
<1>1. Init => Inv
  BY DEF Init, Inv, OpenInside, ReadToEnd, SaysPosition, Accepted
<1>2. Inv /\ [Next]_vars => Inv'
  <2> SUFFICES ASSUME Inv, [Next]_vars PROVE Inv'
    OBVIOUS
  <2>1. CASE UNCHANGED vars
    BY <2>1 DEF vars, stream, found, Inv, OpenInside, ReadToEnd, SaysPosition, Accepted
  <2>2. CASE Next
    BY <2>2, ReadStep, EntryStep DEF Next
  <2>3. QED
    BY <2>1, <2>2
<1>3. Inv => DigestsCoverFile
  BY DEF Inv, ReadToEnd, SaysPosition, DigestsCoverFile, Accepted
<1>4. QED
  BY <1>1, <1>2, <1>3, PTL DEF Spec

---------------------------------------------------------------------------
(* Bounds *)

\* Induction up to n, for a set instead of a predicate.
LEMMA Interval ==
  ASSUME NEW n \in Nat, NEW S, 0 \in S,
         \A m \in 1..n : m - 1 \in S => m \in S
  PROVE  \A m \in 0..n : m \in S
<1> DEFINE R == {ss \in Nat \X Nat : ss[1] < ss[2]}
           Bad == {m \in 0..n : m \notin S}
<1>1. IsWellFoundedOn(R, Nat)
  BY NatLessThanWellFounded DEF OpToRel
<1>2. \A x, y \in Nat : x < y => <<x, y>> \in R
  OBVIOUS
<1> HIDE DEF R
<1>3. SUFFICES ASSUME NEW k \in 0..n, k \notin S PROVE FALSE
  OBVIOUS
<1>4. Bad \subseteq Nat /\ Bad # {}
  BY <1>3
<1>5. PICK m \in Bad : \A i \in Bad : <<i, m>> \notin R
  <2> HIDE DEF Bad
  <2>1. QED
    BY <1>1, <1>4, WFMin, Zenon
<1>6. m \in 1..n /\ m - 1 \in 0..n /\ m - 1 < m /\ m - 1 \in Nat /\ m \in Nat
  OBVIOUS
<1>7. m - 1 \notin Bad
  BY <1>2, <1>5, <1>6
<1>8. QED
  BY <1>6, <1>7

\* FlattenSeq of sequences over a set is one, too.
LEMMA FlattenTyped ==
  ASSUME NEW T, NEW seqs \in Seq(Seq(T))
  PROVE  FlattenSeq(seqs) \in Seq(T)
<1> DEFINE n == Len(seqs)
           V == Seq(T)
           Good(it, k) == it = [i \in 1..k |->
                                  IF i = 1 THEN seqs[i] ELSE it[i - 1] \o seqs[i]]
<1>1. n \in Nat /\ \A i \in 1..n : seqs[i] \in V
  OBVIOUS
<1>2. \A v, w \in V : v \o w \in V
  OBVIOUS
<1>3. CASE n = 0
  <2>1. seqs = <<>>
    BY <1>3
  <2>2. QED
    BY <1>3, <2>1 DEF FlattenSeq
<1>4. CASE n # 0
  <2>1. FlattenSeq(seqs) = (CHOOSE it : Good(it, n))[n]
    BY <1>4 DEF FlattenSeq
  <2> HIDE DEF n, V
  <2> DEFINE P == {k \in 0..n : \E it : Good(it, k)}
  <2>2. 0 \in P
    <3> DEFINE it == [i \in 1..0 |-> 0]
    <3>1. Good(it, 0) /\ 0 \in 0..n
      BY <1>1
    <3> HIDE DEF it, Good
    <3>2. QED
      BY <3>1
  <2>3. ASSUME NEW k \in 1..n, k - 1 \in P PROVE k \in P
    <3>1. PICK it : Good(it, k - 1)
      BY <2>3
    <3> DEFINE next == [i \in 1..k |-> IF i = k
                                       THEN IF k = 1 THEN seqs[k] ELSE it[k - 1] \o seqs[k]
                                       ELSE it[i]]
    <3>2. k \in Nat \ {0} /\ \A i \in 1..k : i # k => i \in 1..(k - 1)
      BY <1>1
    <3>3. \A i \in 1..(k - 1) : it[i] = IF i = 1 THEN seqs[i] ELSE it[i - 1] \o seqs[i]
      BY <3>1
    <3>4. \A i \in 2..k : i - 1 \in 1..k /\ i - 1 # k
      BY <3>2
    <3>5. \A i \in 2..k : next[i - 1] = it[i - 1]
      BY <3>4
    <3>6. \A i \in 1..k : i # 1 => i \in 2..k
      BY <3>2
    <3>7. \A i \in 1..k : next[i] = IF i = 1 THEN seqs[i] ELSE next[i - 1] \o seqs[i]
      <4> TAKE i \in 1..k
      <4>1. CASE i = k /\ k = 1
        BY <4>1
      <4>2. CASE i = k /\ k # 1
        BY <4>2, <3>5, <3>6
      <4>3. CASE i # k
        <5>1. i \in 1..(k - 1) /\ next[i] = it[i]
          BY <3>2, <4>3
        <5>2. CASE i = 1
          BY <3>3, <5>1, <5>2
        <5>3. CASE i # 1
          BY <3>3, <3>5, <3>6, <5>1, <5>3
        <5>4. QED
          BY <5>2, <5>3
      <4>4. QED
        BY <4>1, <4>2, <4>3
    <3>8. next = [i \in 1..k |-> next[i]]
      OBVIOUS
    <3> HIDE DEF next
    <3>9. Good(next, k)
      BY <3>7, <3>8
    <3> HIDE DEF Good
    <3>10. QED
      BY <1>1, <3>9
  <2> HIDE DEF P
  <2>4. \A k \in 0..n : k \in P
    BY <1>1, <2>2, <2>3, Interval
  <2> HIDE DEF Good
  <2>5. \E it : Good(it, n)
    BY <1>1, <2>4 DEF P
  <2>6. PICK it : Good(it, n) /\ FlattenSeq(seqs) = it[n]
    BY <2>1, <2>5
  <2>7. \A i \in 1..n : it[i] = IF i = 1 THEN seqs[i] ELSE it[i - 1] \o seqs[i]
    BY <2>6 DEF Good
  <2> DEFINE Q == {i \in 0..n : i # 0 => it[i] \in V}
  <2>8. 0 \in Q
    BY <1>1
  <2>9. ASSUME NEW i \in 1..n, i - 1 \in Q PROVE i \in Q
    <3>1. i # 1 => it[i - 1] \in V
      BY <1>1, <2>9
    <3>2. QED
      BY <1>1, <1>2, <2>7, <3>1
  <2> HIDE DEF Q
  <2>10. \A i \in 0..n : i \in Q
    BY <1>1, <2>8, <2>9, Interval
  <2>11. it[n] \in V
    BY <1>1, <1>4, <2>10 DEF Q
  <2>12. QED
    BY <2>6, <2>11 DEF V
<1>5. QED
  BY <1>3, <1>4

\* What a file may hold, and what its blocks unpack to: the sizes that either names
\* are numbers.
PlainUnits == {u \in {Broken} \cup UNION {ToSet(b) : b \in
                        UNION {ToSet(m.blocks) : m \in UNION {ToSet(a.members) : a \in Archives}}} :
                 u.kind = "entry" => u.size \in Nat}
FileUnits == {Magic, Trailer, Pad}
               \cup {Header(m) : m \in {x \in UNION {ToSet(a.members) : a \in Archives} :
                                          x.size \in Nat}}
               \cup {[kind |-> "block", plain |-> p] : p \in Seq(PlainUnits)}

\* A member is stored as such units.
LEMMA StoredTyped ==
  ASSUME NEW a \in Archives, NEW m \in ToSet(a.members)
  PROVE  Stored(m) \in Seq(FileUnits)
<1> DEFINE blocks == [i \in DOMAIN m.blocks |-> [kind |-> "block", plain |-> m.blocks[i]]]
<1>1. m.size \in Nat /\ m.blocks \in Seq(ToSet(m.blocks))
  BY ArchivesAssumption
<1>2. Header(m) \in FileUnits
  <2>1. m \in {x \in UNION {ToSet(c.members) : c \in Archives} : x.size \in Nat}
    BY <1>1
  <2>2. QED
    BY <2>1 DEF FileUnits
<1>3. Trailer \in FileUnits /\ Pad \in FileUnits
  BY DEF FileUnits
<1>4. ASSUME NEW i \in DOMAIN m.blocks PROVE m.blocks[i] \in Seq(PlainUnits)
  <2> DEFINE b == m.blocks[i]
  <2>1. b \in ToSet(m.blocks)
    BY DEF ToSet
  <2>2. b \in Seq(ToSet(b)) /\ \A u \in ToSet(b) : u.kind = "entry" => u.size \in Nat
    BY <2>1, ArchivesAssumption
  <2>3. ToSet(b) \subseteq PlainUnits
    BY <2>1, <2>2 DEF PlainUnits
  <2> HIDE DEF b
  <2>4. b \in Seq(PlainUnits)
    BY <2>2, <2>3
  <2>5. QED
    BY <2>4 DEF b
<1>5. blocks \in Seq(FileUnits)
  <2>1. DOMAIN m.blocks = 1..Len(m.blocks) /\ Len(m.blocks) \in Nat
    BY <1>1
  <2>2. \A i \in 1..Len(m.blocks) : blocks[i] \in FileUnits
    BY <1>4, <2>1 DEF FileUnits
  <2>3. blocks \in [1..Len(m.blocks) -> FileUnits]
    BY <2>1, <2>2
  <2> HIDE DEF blocks
  <2>4. QED
    BY <2>1, <2>3
<1> HIDE DEF blocks
<1>6. <<Header(m), Trailer>> \in Seq(FileUnits)
  BY <1>2, <1>3
<1>7. (IF m.size % 2 = 1 THEN <<Pad>> ELSE <<>>) \in Seq(FileUnits)
  BY <1>3
<1>8. <<Header(m), Trailer>> \o blocks \in Seq(FileUnits)
  BY <1>5, <1>6
<1>9. (<<Header(m), Trailer>> \o blocks)
        \o (IF m.size % 2 = 1 THEN <<Pad>> ELSE <<>>) \in Seq(FileUnits)
  BY <1>7, <1>8
<1>10. QED
  BY <1>9 DEF Stored, blocks

\* So is an archive, wherever the file ends.
LEMMA FileTyped ==
  ASSUME NEW a \in Archives
  PROVE  SubSeq(Encode(a.members), 1, a.cut) \in Seq(FileUnits)
<1> DEFINE parts == [i \in DOMAIN a.members |-> Stored(a.members[i])]
<1>1. a.members \in Seq(ToSet(a.members)) /\ a.cut \in 0..Len(Encode(a.members))
  BY ArchivesAssumption
<1>2. DOMAIN a.members = 1..Len(a.members) /\ Len(a.members) \in Nat
  BY <1>1
<1>3. \A i \in DOMAIN a.members : a.members[i] \in ToSet(a.members)
  BY DEF ToSet
<1>4. \A i \in 1..Len(a.members) : parts[i] \in Seq(FileUnits)
  BY <1>2, <1>3, StoredTyped
<1>5. parts \in Seq(Seq(FileUnits))
  <2>1. parts \in [1..Len(a.members) -> Seq(FileUnits)]
    BY <1>2, <1>4
  <2> HIDE DEF parts
  <2>2. QED
    BY <1>2, <2>1
<1>6. FlattenSeq(parts) \in Seq(FileUnits)
  BY <1>5, FlattenTyped
<1>7. <<Magic>> \in Seq(FileUnits)
  BY DEF FileUnits
<1>8. Encode(a.members) \in Seq(FileUnits)
  BY <1>6, <1>7 DEF Encode
<1>9. QED
  BY <1>1, <1>8, SubSeqProperties

\* Blocks unpack to units of a tar archive.
LEMMA UnpackedTyped ==
  ASSUME NEW units \in Seq(FileUnits)
  PROVE  Unpacked(units) \in Seq(PlainUnits)
<1> DEFINE parts == [i \in DOMAIN units |->
                       IF units[i].kind = "block" THEN units[i].plain ELSE <<Broken>>]
<1>1. Broken \in PlainUnits
  BY DEF PlainUnits, Broken
<1>2. ASSUME NEW u \in FileUnits, u.kind = "block" PROVE u.plain \in Seq(PlainUnits)
  BY <1>2 DEF FileUnits, Magic, Trailer, Pad, Header
<1>3. \A i \in 1..Len(units) : parts[i] \in Seq(PlainUnits)
  BY <1>1, <1>2
<1>4. parts \in Seq(Seq(PlainUnits))
  <2>1. DOMAIN units = 1..Len(units) /\ Len(units) \in Nat
    OBVIOUS
  <2>2. parts \in [1..Len(units) -> Seq(PlainUnits)]
    BY <1>3, <2>1
  <2> HIDE DEF parts
  <2>3. QED
    BY <2>1, <2>2
<1>5. QED
  BY <1>4, FlattenTyped DEF Unpacked

\* What a control file may be read as.
Lines == {LineOf(u) : u \in PlainUnits}

\* What the reader keeps: units of the file and of the control archive, and as much
\* text as the control file may still have.
Kept ==
  /\ file \in Seq(FileUnits)
  /\ buffer \in Seq(PlainUnits)
  /\ text \in Seq(Lines)
  /\ pc = "control" => Len(text) + left <= MaxControl
  /\ remaining > 0 => member.size \in Nat

Bounds == TypeOK /\ Kept

\* What lies ahead ends with the file.
LEMMA AheadTyped ==
  ASSUME file \in Seq(FileUnits), pos \in 0..Len(file), NEW n \in Nat
  PROVE  /\ Ahead(n) \in Seq(FileUnits)
         /\ Len(Ahead(n)) \in 0..n
         /\ pos + Len(Ahead(n)) \in 0..Len(file)
<1> DEFINE end == IF pos + n > Len(file) THEN Len(file) ELSE pos + n
<1>1. Len(file) \in Nat /\ pos \in Nat /\ end \in Nat /\ end <= Len(file) /\ pos <= end
      /\ end - pos <= n
  OBVIOUS
<1>2. \A i \in (pos + 1)..end : file[i] \in FileUnits
  BY <1>1
<1>3. Ahead(n) = SubSeq(file, pos + 1, end)
  BY DEF Ahead
<1> HIDE DEF end
<1>4. /\ SubSeq(file, pos + 1, end) \in Seq(FileUnits)
      /\ Len(SubSeq(file, pos + 1, end)) =
           IF pos + 1 <= end THEN end - (pos + 1) + 1 ELSE 0
  BY <1>1, <1>2, SubSeqProperties
<1>5. Len(SubSeq(file, pos + 1, end)) = end - pos
  BY <1>1, <1>4
<1>6. QED
  BY <1>1, <1>3, <1>4, <1>5

\* Taking all that was asked for stays in the file.
LEMMA AheadFits ==
  ASSUME file \in Seq(FileUnits), pos \in 0..Len(file), NEW n \in Nat,
         Len(Ahead(n)) = n
  PROVE  pos + n \in 0..Len(file) /\ \A i \in 1..n : Ahead(n)[i] \in FileUnits
<1>1. Ahead(n) \in Seq(FileUnits) /\ pos + Len(Ahead(n)) \in 0..Len(file)
  BY AheadTyped
<1>2. QED
  BY <1>1

\* Between the members of the file.
LEMMA MemberBounds ==
  ASSUME Bounds,
         \/ ReadMagic \/ SkipMember \/ SkipUnit \/ SkipPadding \/ ReadHeader \/ EndOfFile
         \/ ReadMember \/ ReadFormat
  PROVE  Bounds'
<1> USE LimitsAssumption DEF Bounds, Kept, TypeOK, Goto, Reject, stream, found
<1>1. CASE ReadMagic
  <2>1. CASE Ahead(1) = <<Magic>>
    <3>0. file \in Seq(FileUnits) /\ pos \in 0..Len(file)
      OBVIOUS
    <3>1. pos + 1 \in 0..Len(file)
      BY ONLY <2>1, <3>0, AheadFits
    <3>2. QED
      BY <1>1, <2>1, <3>1 DEF ReadMagic
  <2>2. CASE Ahead(1) # <<Magic>>
    BY <1>1, <2>2 DEF ReadMagic
  <2>3. QED
    BY <2>1, <2>2
<1>2. CASE SkipMember
  BY <1>2 DEF SkipMember
<1>3. CASE SkipUnit
  <2>1. CASE AtEnd
    BY <1>3, <2>1 DEF SkipUnit
  <2>2. CASE ~AtEnd
    BY <1>3, <2>2 DEF SkipUnit, AtEnd
  <2>3. QED
    BY <2>1, <2>2
<1>4. CASE SkipPadding
  <2>1. CASE padding > 0 /\ AtEnd
    BY <1>4, <2>1 DEF SkipPadding
  <2>2. CASE ~(padding > 0 /\ AtEnd)
    BY <1>4, <2>2 DEF SkipPadding, AtEnd
  <2>3. QED
    BY <2>1, <2>2
<1>5. CASE ReadHeader
  <2> DEFINE units == Ahead(2)
             head == units[1]
  <2>1. CASE Len(units) = 2 /\ units[2] = Trailer /\ head.kind = "head" /\ head.legal
    <3>0. file \in Seq(FileUnits) /\ pos \in 0..Len(file)
      OBVIOUS
    <3>1. pos + 2 \in 0..Len(file) /\ head \in FileUnits
      <4>1. pos + 2 \in 0..Len(file) /\ \A i \in 1..2 : units[i] \in FileUnits
        BY ONLY <2>1, <3>0, AheadFits
      <4>2. QED
        BY ONLY <4>1
    <3>2. head.size \in Nat
      BY <2>1, <3>1 DEF FileUnits, Magic, Trailer, Pad, Header
    <3>3. head.size % 2 \in 0..1
      BY <3>2
    <3>4. /\ pos' = pos + 2 /\ remaining' = head.size /\ padding' = head.size % 2
          /\ member' = head /\ pc' = "member"
          /\ UNCHANGED <<archive, file, left, state, open, buffer, budget, text, generation>>
      BY <1>5, <2>1 DEF ReadHeader
    <3> HIDE DEF units, head
    <3>5. QED
      BY <3>1, <3>2, <3>3, <3>4
  <2>2. CASE ~(Len(units) = 2 /\ units[2] = Trailer /\ head.kind = "head" /\ head.legal)
    BY <1>5, <2>2 DEF ReadHeader
  <2>3. QED
    BY <2>1, <2>2
<1>6. CASE EndOfFile
  BY <1>6 DEF EndOfFile
<1>7. CASE ReadMember
  <2>1. /\ pc' \in {"format", "entry", "next", "rejected"} /\ state' \in {3, state}
        /\ left' = 0 /\ budget' \in {MaxArchive, budget} /\ generation' = generation
    BY <1>7 DEF ReadMember
  <2>2. UNCHANGED <<archive, file, pos, remaining, padding, buffer, member, text>>
    BY <1>7 DEF ReadMember
  <2>3. open' \in BOOLEAN
    BY <1>7 DEF ReadMember
  <2>4. QED
    BY <2>1, <2>2, <2>3
<1>8. CASE ReadFormat
  <2> DEFINE units == Ahead(remaining)
  <2>1. Len(units) \in 0..remaining /\ pos + Len(units) \in 0..Len(file)
    BY AheadTyped
  <2>2. /\ pos' = pos + Len(units) /\ remaining' = remaining - Len(units)
        /\ pc' \in {"next", "rejected"} /\ state' \in {1, state}
        /\ UNCHANGED <<archive, file, padding, left, member, open, buffer, budget, text,
                       generation>>
    BY <1>8 DEF ReadFormat
  <2> HIDE DEF units
  <2>3. QED
    BY <2>1, <2>2
<1>9. QED
  BY <1>1, <1>2, <1>3, <1>4, <1>5, <1>6, <1>7, <1>8

\* Inside the control archive.
LEMMA ControlBounds ==
  ASSUME Bounds,
         \/ Fetch \/ ReadRefused \/ SkipData \/ ReadEntry \/ ReadControl \/ KeepControl
         \/ StreamEnds \/ CloseControlArchive
  PROVE  Bounds'
<1> USE LimitsAssumption DEF Bounds, Kept, TypeOK, Goto, Reject, stream, found
<1>1. CASE Fetch
  <2>1. PICK n \in 1..(IF member.codec = "plain" THEN 1 ELSE remaining) :
           LET units == Ahead(n)
           IN  /\ pos' = pos + Len(units) /\ remaining' = remaining - Len(units)
               /\ buffer' = buffer \o Unpacked(units)
                              \o (IF Len(units) < n THEN <<Broken>> ELSE <<>>)
    BY <1>1 DEF Fetch
  <2> DEFINE units == Ahead(n)
             rest == IF Len(units) < n THEN <<Broken>> ELSE <<>>
  <2>2. n \in Nat /\ n <= remaining
    BY <1>1 DEF Fetch
  <2>3. units \in Seq(FileUnits) /\ Len(units) \in 0..n /\ pos + Len(units) \in 0..Len(file)
    BY <2>2, AheadTyped
  <2>4. Unpacked(units) \in Seq(PlainUnits)
    BY <2>3, UnpackedTyped
  <2>5. rest \in Seq(PlainUnits)
    <3>1. Broken \in PlainUnits
      BY DEF PlainUnits, Broken
    <3>2. QED
      BY <3>1
  <2>6. buffer' = buffer \o Unpacked(units) \o rest
    BY <2>1
  <2>7. pos' = pos + Len(units) /\ remaining' = remaining - Len(units)
    BY <2>1
  <2> HIDE DEF units, rest
  <2>8. buffer' \in Seq(PlainUnits)
    BY <2>4, <2>5, <2>6
  <2>9. UNCHANGED <<archive, file, pc, padding, left, state, member, open, budget, text,
                    generation>>
    BY <1>1 DEF Fetch
  <2>10. pos' \in 0..Len(file) /\ remaining' \in Nat /\ remaining' <= remaining
    BY <2>2, <2>3, <2>7
  <2>11. QED
    BY <2>8, <2>9, <2>10
<1>2. CASE ReadRefused
  BY <1>2 DEF ReadRefused
<1>3. ASSUME Take
      PROVE  /\ buffer[1] \in PlainUnits /\ buffer' \in Seq(PlainUnits)
             /\ budget' \in 0..MaxArchive
             /\ UNCHANGED <<archive, file, pos, remaining, padding, state, member, open>>
  BY <1>3 DEF Take, Exhausted
<1>4. CASE SkipData
  BY <1>3, <1>4 DEF SkipData
<1>5. CASE ReadEntry
  <2>1. buffer[1].kind = "entry" => buffer[1].size \in Nat
    BY <1>3, <1>5 DEF ReadEntry, PlainUnits
  <2>2. \/ pc' \in {"tarEnd", "rejected"} /\ UNCHANGED <<left, text>>
        \/ /\ buffer[1].kind = "entry" /\ left' = buffer[1].size
           /\ pc' = pc /\ text' = text
        \/ /\ buffer[1].kind = "entry" /\ buffer[1].size <= MaxControl
           /\ left' = buffer[1].size /\ text' = <<>> /\ pc' = "control"
    BY <1>5 DEF ReadEntry
  <2>3. pc = "entry" /\ generation' = generation
    BY <1>5 DEF ReadEntry
  <2>4. /\ buffer' \in Seq(PlainUnits) /\ budget' \in 0..MaxArchive
        /\ UNCHANGED <<archive, file, pos, remaining, padding, state, member, open>>
    BY <1>3, <1>5 DEF ReadEntry
  <2>5. left' \in Nat /\ text' \in Seq(Lines)
        /\ Len(text') <= MaxControl
    <3>1. <<>> \in Seq(Lines) /\ Len(<<>>) = 0 /\ 0 <= MaxControl
      OBVIOUS
    <3>2. QED
      BY <2>1, <2>2, <3>1
  <2>6. pc' = "control" => Len(text') + left' <= MaxControl
    BY <2>1, <2>2, <2>3
  <2>7. QED
    BY <2>2, <2>3, <2>4, <2>5, <2>6
<1>6. CASE ReadControl
  <2>1. text' = Append(text, LineOf(buffer[1])) /\ left' = left - 1 /\ left > 0
        /\ pc = "control" /\ pc' = pc /\ generation' = generation
    BY <1>6 DEF ReadControl
  <2>2. LineOf(buffer[1]) \in Lines
    BY <1>3, <1>6 DEF ReadControl, Lines
  <2>3. text' \in Seq(Lines) /\ Len(text') = Len(text) + 1
    BY <2>1, <2>2
  <2>4. left' \in Nat /\ Len(text') + left' = Len(text) + left
    BY <1>3, <2>1, <2>3
  <2>5. QED
    BY <1>3, <1>6, <2>1, <2>3, <2>4, SMTT(30) DEF ReadControl
<1>7. CASE KeepControl
  BY <1>7 DEF KeepControl
<1>8. CASE StreamEnds
  BY <1>8 DEF StreamEnds
<1>9. CASE CloseControlArchive
  <2>1. /\ pc' \in {"next", "rejected"} /\ state' \in {2, state}
        /\ buffer' = <<>> /\ generation' = generation
        /\ UNCHANGED <<archive, file, pos, remaining, padding, left, member, budget, text>>
    BY <1>9 DEF CloseControlArchive
  <2>2. open' \in BOOLEAN
    BY <1>9 DEF CloseControlArchive
  <2>3. QED
    BY <2>1, <2>2
<1>10. QED
  BY <1>1, <1>2, <1>4, <1>5, <1>6, <1>7, <1>8, <1>9

\* ReadPackage stays inside the file, inside each member as its header describes
\* it, and inside the limits of reader.go for the unpacked control archive and the
\* control file, whatever sizes ar and tar headers claim and however far a decoder
\* reads ahead.
THEOREM ReadsInBounds == Spec => []TypeOK
<1>1. Init => Bounds
  <2> SUFFICES ASSUME Init PROVE Bounds
    OBVIOUS
  <2>1. file \in Seq(FileUnits)
    BY FileTyped DEF Init
  <2>2. text = <<>> /\ buffer = <<>> /\ pc = "magic"
    BY DEF Init
  <2>3. Kept
    BY <2>1, <2>2 DEF Init, Kept
  <2>4. TypeOK
    <3>1. Len(text) <= MaxControl
      BY <2>2, LimitsAssumption
    <3>2. open \in BOOLEAN
      BY DEF Init
    <3>3. QED
      BY <2>1, <2>2, <3>1, <3>2, LimitsAssumption DEF Init, TypeOK
  <2>5. QED
    BY <2>3, <2>4 DEF Bounds
<1>2. Bounds /\ [Next]_vars => Bounds'
  <2> SUFFICES ASSUME Bounds, [Next]_vars PROVE Bounds'
    OBVIOUS
  <2> USE LimitsAssumption DEF Bounds, Kept, TypeOK, stream, found, reading, Goto, Reject
  <2>1. CASE UNCHANGED vars
    BY <2>1 DEF vars
  <2>2. CASE Read
    BY <2>2, MemberBounds, ControlBounds DEF Read
  <2>3. CASE ReadFails
    BY <2>3 DEF ReadFails
  <2>4. CASE Accept
    BY <2>4 DEF Accept
  <2>5. CASE Publish
    BY <2>5 DEF Publish
  <2>6. CASE Republish
    BY <2>6 DEF Republish
  <2>7. QED
    BY <2>1, <2>2, <2>3, <2>4, <2>5, <2>6 DEF Next
<1>3. Bounds => TypeOK
  BY DEF Bounds
<1>4. QED
  BY <1>1, <1>2, <1>3, PTL DEF Spec
=============================================================================
