---------------------------- MODULE PackageReader ----------------------------
(***************************************************************************)
(* ReadPackage: one pass over a Debian package that walks the members of   *)
(* its ar archive, unpacks the control archive within limits, and counts   *)
(* and hashes whatever it reads on the way; then the life of the entry     *)
(* that upload renders from it and that every later command reads and      *)
(* renders again.                                                          *)
(*                                                                         *)
(* A file is a sequence of units: the magic, two units for each member     *)
(* header, one for each block of a member's body and for its padding. The  *)
(* blocks of a control archive unpack to units of a tar archive: entries,  *)
(* the lines that follow them, the end mark, or garbage. A decoder may     *)
(* read any number of blocks ahead, within its member and while it is      *)
(* open: the one for zstd does so from goroutines of its own.              *)
(***************************************************************************)
EXTENDS PackageRecords, TLC

CONSTANTS Archives,        \* the packages: their members and where the file ends
          MaxFormat,       \* the size limit of debian-binary
          MaxArchive,      \* the size limit of the unpacked control archive
          MaxControl,      \* the size limit of the control file
          MaxGeneration    \* how often an entry is rendered

ASSUME LimitsAssumption ==
  /\ MaxFormat \in Nat
  /\ MaxArchive \in Nat \ {0}
  /\ MaxControl \in Nat \ {0}
  /\ MaxGeneration \in Nat \ {0}

VARIABLES archive,     \* the package: the members it was made of
          file,        \* its units
          pos,         \* the number of units read: counted and hashed
          pc,          \* where ReadPackage is
          remaining,   \* arReader.remaining: what the current member has left
          padding,     \* arReader.padding
          left,        \* what Next or the tar reader still has to skip or read
          state,       \* the members ReadPackage has seen
          member,      \* the header of the current member
          open,        \* whether a decoder reads the member
          buffer,      \* what it has unpacked and nobody has read
          budget,      \* sizeLimitedReader.remaining
          control,     \* the control files found, the last one in use
          text,        \* the control file being read
          package,     \* what ReadPackage returns
          entry,       \* the lines of the package's index entry
          generation   \* how often they were rendered

stream == <<remaining, padding, open, buffer>>
found == <<package, entry, generation>>
vars == <<archive, file, pos, pc, stream, left, state, member, budget, control,
          text, found>>

---------------------------------------------------------------------------
(* Files *)

Magic == [kind |-> "magic"]
Trailer == [kind |-> "trailer"]
Pad == [kind |-> "pad"]
Header(m) == [kind |-> "head", of |-> m.kind, codec |-> m.codec, size |-> m.size,
                legal |-> m.legal]

\* A member as the archive stores it: two units of header, its blocks, padding.
Stored(m) ==
  <<Header(m), Trailer>> \o [i \in DOMAIN m.blocks |-> [kind |-> "block", plain |-> m.blocks[i]]]
    \o (IF m.size % 2 = 1 THEN <<Pad>> ELSE <<>>)

Encode(members) ==
  <<Magic>> \o FlattenSeq([i \in DOMAIN members |-> Stored(members[i])])

\* What a block unpacks to; units that are not blocks are no compressed data.
Broken == [kind |-> "broken"]
Unpacked(units) ==
  FlattenSeq([i \in DOMAIN units |->
                IF units[i].kind = "block" THEN units[i].plain ELSE <<Broken>>])

\* Sizes are numbers: the header of a member with a negative one is not legal, and
\* a tar reader refuses such an entry. A file ends somewhere in its archive.
ASSUME ArchivesAssumption ==
  \A a \in Archives :
    /\ a.members \in Seq(ToSet(a.members))
    /\ a.cut \in 0..Len(Encode(a.members))
    /\ \A m \in ToSet(a.members) :
         /\ m.size \in Nat
         /\ m.blocks \in Seq(ToSet(m.blocks))
         /\ \A b \in ToSet(m.blocks) :
              /\ b \in Seq(ToSet(b))
              /\ \A u \in ToSet(b) : u.kind = "entry" => u.size \in Nat

---------------------------------------------------------------------------
(* Names in the control archive, split at the slashes *)

IsAbs(name) == Len(name) > 1 /\ name[1] = ""

\* path.Clean of a relative name; the empty sequence is the directory itself.
Clean(name) ==
  FoldLeft(LAMBDA path, s :
             CASE s \in {"", "."} -> path
               [] s = ".." /\ path # <<>> /\ Last(path) # ".." -> Front(path)
               [] OTHER -> Append(path, s),
           <<>>, name)

Trimmed(name) == IF Len(name) > 1 /\ name[1] = "." THEN Tail(name) ELSE name

\* safeTarName: a name outside the archive is an error.
UnsafeName(name) ==
  \/ name = <<"">>
  \/ IsAbs(name)
  \/ IsAbs(Trimmed(name))
  \/ Clean(Trimmed(name)) # <<>> /\ Clean(Trimmed(name))[1] = ".."

IsControl(name) == Clean(Trimmed(name)) = <<"control">>

---------------------------------------------------------------------------
(* Reading *)

Init ==
  /\ archive \in Archives
  /\ file = SubSeq(Encode(archive.members), 1, archive.cut)
  /\ pos = 0 /\ pc = "magic"
  /\ remaining = 0 /\ padding = 0 /\ left = 0
  /\ state = 0 /\ member = Trailer
  /\ open = FALSE /\ buffer = <<>> /\ budget = 0
  /\ control = <<>> /\ text = <<>>
  /\ package = NoPackage /\ entry = <<>> /\ generation = 0

AtEnd == pos = Len(file)

\* The next n units, or what the file has left.
Ahead(n) == SubSeq(file, pos + 1, IF pos + n > Len(file) THEN Len(file) ELSE pos + n)

Goto(label) == pc' = label /\ UNCHANGED found

\* ReadPackage returns an error.
Reject == Goto("rejected")

ReadMagic ==
  /\ pc = "magic"
  /\ IF Ahead(1) = <<Magic>>
     THEN pos' = 1 /\ Goto("next")
     ELSE Reject /\ UNCHANGED pos
  /\ UNCHANGED <<archive, file, stream, left, state, member, budget, control, text>>

\* arReader.Next finds how much of the member is left to skip, ...
SkipMember ==
  /\ pc = "next"
  /\ left' = remaining
  /\ Goto("skip")
  /\ UNCHANGED <<archive, file, pos, stream, state, member, budget, control, text>>

\* Mutant: a copy that comes to the end of the file too early is tried again.
SkipUnitForever ==
  /\ pc = "skip" /\ left > 0
  /\ IF AtEnd THEN UNCHANGED <<pos, left>>
     ELSE pos' = pos + 1 /\ left' = left - 1
  /\ Goto(pc)
  /\ UNCHANGED <<archive, file, stream, state, member, budget, control, text>>

\* ... copies that to nowhere, which reads, counts and hashes it, ...
SkipUnit ==
  /\ pc = "skip" /\ left > 0
  /\ IF AtEnd THEN Reject /\ UNCHANGED <<pos, left>>
     ELSE pos' = pos + 1 /\ left' = left - 1 /\ Goto(pc)
  /\ UNCHANGED <<archive, file, stream, state, member, budget, control, text>>

\* Mutant: padding at the end of the file is not needed.
SkipPaddingIfAny ==
  /\ pc = "skip" /\ left = 0
  /\ pos' = IF AtEnd THEN pos ELSE pos + padding
  /\ remaining' = 0 /\ padding' = 0 /\ Goto("header")
  /\ UNCHANGED <<archive, file, left, state, member, open, buffer, budget, control, text>>

\* ... and the padding after it.
SkipPadding ==
  /\ pc = "skip" /\ left = 0
  /\ IF padding > 0 /\ AtEnd
     THEN Reject /\ UNCHANGED <<pos, remaining, padding>>
     ELSE /\ pos' = pos + padding
          /\ remaining' = 0 /\ padding' = 0
          /\ Goto("header")
  /\ UNCHANGED <<archive, file, left, state, member, open, buffer, budget, control, text>>

\* The header of the next member.
ReadHeader ==
  /\ pc = "header" /\ ~AtEnd
  /\ LET units == Ahead(2)
         head == units[1]
     IN  IF Len(units) = 2 /\ units[2] = Trailer /\ head.kind = "head" /\ head.legal
         THEN /\ pos' = pos + 2
              /\ remaining' = head.size /\ padding' = head.size % 2
              /\ member' = head
              /\ Goto("member")
         ELSE Reject /\ UNCHANGED <<pos, remaining, padding, member>>
  /\ UNCHANGED <<archive, file, left, state, open, buffer, budget, control, text>>

\* The file ends where a header could begin; all members must have been there.
EndOfFile ==
  /\ pc = "header" /\ AtEnd
  /\ IF state = 3 THEN Goto("whole") ELSE Reject
  /\ UNCHANGED <<archive, file, pos, stream, left, state, member, budget, control, text>>

\* ReadPackageFile: what was counted and hashed describes the package.
Measured(p) ==
  LET sums == {"Size", "SHA1", "SHA256", "MD5sum"}
  IN  [p EXCEPT !.known = [f \in sums \cup DOMAIN @ |->
                             IF f \in sums THEN <<<<ToString(pos)>>>> ELSE @[f]]]

\* ReadPackage returns the package of the control file without index fields.
Accept ==
  /\ pc = "whole"
  /\ LET p == ParsePackage(Last(control))
     IN  IF p = NoPackage THEN Reject
         ELSE /\ package' = Measured(Inspected(p))
              /\ pc' = "accepted"
              /\ UNCHANGED <<entry, generation>>
  /\ UNCHANGED <<archive, file, pos, stream, left, state, member, budget, control, text>>

\* Members whose name begins with an underscore are skipped before the data.
Skipped == member.of = "underscore" /\ state \in 1..2

\* Mutant: nothing is read after the header of the data archive.
ReadMemberToData ==
  /\ pc = "member"
  /\ CASE state = 0 /\ member.of = "debian-binary" /\ member.size <= MaxFormat ->
            Goto("format") /\ UNCHANGED <<state, open, budget>>
       [] state = 1 /\ member.of = "control" /\ member.codec # "unknown" ->
            /\ open' = TRUE /\ budget' = MaxArchive
            /\ Goto("entry") /\ UNCHANGED state
       [] state = 2 /\ member.of = "data" ->
            state' = 3 /\ Goto("whole") /\ UNCHANGED <<open, budget>>
       [] Skipped -> Goto("next") /\ UNCHANGED <<state, open, budget>>
       [] OTHER -> Reject /\ UNCHANGED <<state, open, budget>>
  /\ left' = 0
  /\ UNCHANGED <<archive, file, pos, remaining, padding, buffer, member, control, text>>

\* What the state expects of the member; the first error ends the reading.
ReadMember ==
  /\ pc = "member"
  /\ CASE state = 0 /\ member.of = "debian-binary" /\ member.size <= MaxFormat ->
            Goto("format") /\ UNCHANGED <<state, open, budget>>
       [] state = 1 /\ member.of = "control" /\ member.codec # "unknown" ->
            /\ open' = TRUE /\ budget' = MaxArchive
            /\ Goto("entry") /\ UNCHANGED state
       [] state = 2 /\ member.of = "data" ->
            state' = 3 /\ Goto("next") /\ UNCHANGED <<open, budget>>
       [] Skipped \/ state = 3 -> Goto("next") /\ UNCHANGED <<state, open, budget>>
       [] OTHER -> Reject /\ UNCHANGED <<state, open, budget>>
  /\ left' = 0
  /\ UNCHANGED <<archive, file, pos, remaining, padding, buffer, member, control, text>>

Format == [kind |-> "format", version |-> "2.0"]

\* validateDebianBinary reads the whole member.
ReadFormat ==
  /\ pc = "format"
  /\ LET units == Ahead(remaining)
     IN  /\ pos' = pos + Len(units) /\ remaining' = remaining - Len(units)
         /\ IF remaining' = 0 /\ Unpacked(units) = <<Format>>
            THEN state' = 1 /\ Goto("next")
            ELSE Reject /\ UNCHANGED state
  /\ UNCHANGED <<archive, file, padding, left, member, open, buffer, budget, control, text>>

---------------------------------------------------------------------------
(* The control archive *)

\* The decoder reads blocks of the member: one when it is asked for data and has
\* none, if the member is not compressed, else any number at any time.
Fetch ==
  /\ open /\ remaining > 0 /\ pc \notin {"rejected", "failed"}
  /\ ~Contains(buffer, Broken)
  /\ member.codec = "plain" => buffer = <<>> /\ pc \in {"entry", "control"}
  /\ \E n \in 1..(IF member.codec = "plain" THEN 1 ELSE remaining) :
       LET units == Ahead(n)
       IN  /\ pos' = pos + Len(units) /\ remaining' = remaining - Len(units)
           /\ buffer' = buffer \o Unpacked(units)
                          \o (IF Len(units) < n THEN <<Broken>> ELSE <<>>)
  /\ UNCHANGED <<archive, file, pc, padding, left, state, member, open, budget,
                 control, text, found>>

\* Mutant: the size of the unpacked archive is not limited.
ExhaustedNever == budget < 0

\* Mutant: an archive of exactly the size of the limit is beyond it.
ExhaustedEarly == budget <= 1

\* sizeLimitedReader: at the limit it is an error that there is more.
Exhausted == budget = 0

ReadRefused ==
  /\ pc = "entry" \/ (pc = "control" /\ left > 0)
  /\ buffer # <<>> /\ (Exhausted \/ buffer[1] = Broken)
  /\ Reject
  /\ UNCHANGED <<archive, file, pos, stream, left, state, member, budget, control, text>>

\* One unit through sizeLimitedReader.
Take ==
  /\ buffer # <<>> /\ ~Exhausted /\ buffer[1] # Broken
  /\ buffer' = Tail(buffer) /\ budget' = budget - 1
  /\ UNCHANGED <<archive, file, pos, remaining, padding, state, member, open, control>>

\* The tar reader skips what is left of an entry.
SkipData ==
  /\ pc = "entry" /\ left > 0
  /\ Take
  /\ left' = left - 1
  /\ Goto(pc)
  /\ UNCHANGED text

\* The next entry: every name must stay inside the archive, one of them may be
\* the control file.
ReadEntry ==
  /\ pc = "entry" /\ left = 0
  /\ Take
  /\ LET unit == buffer[1]
         isEntry == unit.kind = "entry" /\ ~UnsafeName(unit.name)
     IN  CASE unit.kind = "end" -> Goto("tarEnd") /\ UNCHANGED <<left, text>>
           [] isEntry /\ ~IsControl(unit.name) ->
                left' = unit.size /\ Goto(pc) /\ UNCHANGED text
           [] isEntry /\ IsControl(unit.name) /\ unit.regular /\ unit.size <= MaxControl ->
                left' = unit.size /\ text' = <<>> /\ Goto("control")
           [] OTHER -> Reject /\ UNCHANGED <<left, text>>

\* A unit of an entry's data as a line of text.
LineOf(unit) == IF unit.kind = "line" THEN unit.line ELSE Noise

ReadControl ==
  /\ pc = "control" /\ left > 0
  /\ Take
  /\ text' = Append(text, LineOf(buffer[1])) /\ left' = left - 1
  /\ Goto(pc)

\* The whole file was read: it is the control file unless another one follows.
KeepControl ==
  /\ pc = "control" /\ left = 0
  /\ control' = Append(control, text)
  /\ Goto("entry")
  /\ UNCHANGED <<archive, file, pos, stream, left, state, member, budget, text>>

\* The unpacked archive ends, which it may do between entries.
StreamEnds ==
  /\ pc \in {"entry", "control"} /\ buffer = <<>> /\ remaining = 0
  /\ pc = "control" => left > 0
  /\ IF left > 0 THEN Reject ELSE Goto("tarEnd")
  /\ UNCHANGED <<archive, file, pos, stream, left, state, member, budget, control, text>>

\* Mutant: the decoder is not closed.
LeaveControlArchive ==
  /\ pc = "tarEnd"
  /\ IF control = <<>> THEN Reject /\ UNCHANGED state
     ELSE state' = 2 /\ Goto("next")
  /\ buffer' = <<>>
  /\ UNCHANGED <<archive, file, pos, remaining, padding, left, member, open, budget,
                 control, text>>

\* readControlArchive returns; the decoder is closed and reads no more.
CloseControlArchive ==
  /\ pc = "tarEnd"
  /\ IF control = <<>> THEN Reject /\ UNCHANGED state
     ELSE state' = 2 /\ Goto("next")
  /\ open' = FALSE /\ buffer' = <<>>
  /\ UNCHANGED <<archive, file, pos, remaining, padding, left, member, budget,
                 control, text>>

\* A read of the file fails, or the command is cancelled before it.
ReadFails ==
  /\ pc \notin {"rejected", "failed", "accepted", "published", "unplaced"}
  /\ Goto("failed")
  /\ UNCHANGED <<archive, file, pos, stream, left, state, member, budget, control, text>>

---------------------------------------------------------------------------
(* The entry of the package *)

reading == <<archive, file, pos, stream, left, state, member, budget, control, text>>

\* upload renders the package, unless no path of the pool follows from its name.
Publish ==
  /\ pc = "accepted"
  /\ IF Placed(package)
     THEN entry' = Render(package) /\ generation' = 1 /\ pc' = "published"
     ELSE pc' = "unplaced" /\ UNCHANGED <<entry, generation>>
  /\ UNCHANGED <<reading, package>>

\* Every later command that changes the index reads the entry and renders it.
Republish ==
  /\ pc = "published" /\ generation < MaxGeneration
  /\ entry' = Render(ParsePackage(entry))
  /\ generation' = generation + 1
  /\ UNCHANGED <<reading, pc, package>>

Read ==
  \/ ReadMagic \/ SkipMember \/ SkipUnit \/ SkipPadding \/ ReadHeader \/ EndOfFile
  \/ ReadMember \/ ReadFormat
  \/ Fetch \/ ReadRefused \/ SkipData \/ ReadEntry \/ ReadControl \/ KeepControl \/ StreamEnds
  \/ CloseControlArchive

Next == Read \/ ReadFails \/ Accept \/ Publish \/ Republish

Spec == Init /\ [][Next]_vars

\* ReadPackage goes on with the next member or unit as long as it has one: reading
\* a local file waits for nobody.
FairSpec == Spec /\ WF_vars(Read)
=============================================================================
