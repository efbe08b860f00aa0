------------------------- MODULE AcknowledgedProofs -------------------------
(***************************************************************************)
(* What deb-s3 acknowledged stays, and what it left broken is put right.   *)
(*                                                                         *)
(* An upload that succeeded is found by clients, and by queries that are   *)
(* started later, whatever other commands do and however they fail, as     *)
(* long as those that change indexes hold the lock. What is due to clients *)
(* is followed from the decision of a run through its publication; what a  *)
(* query reports, from the indexes it reads, that list each entry under    *)
(* every architecture it belongs to. When clean holds the lock too, and    *)
(* uploads replace no body, clean deletes nothing that a plain index of    *)
(* its codename lists, and an upload leaves its component coherent,        *)
(* whatever runs that died have left there.                                *)
(***************************************************************************)
EXTENDS RepositoryProofs

\* The entry is in the list, and nothing else there has its name and version.
Sole(packages, e) ==
  /\ e \in ToSet(packages)
  /\ \A f \in ToSet(packages) : SamePackage(f, e) => f = e

\* It is in what is stored or listed.
Has(stored, e) == stored # NoObject /\ Sole(stored, e)

\* The upload puts the entry into the index, and nothing takes it out.
Promises(p, n, e) ==
  /\ job[p].op = "upload"
  /\ n[1] = job[p].component
  /\ \E d \in ToSet(job[p].debs) :
       ~Retracted(p, d) /\ n[2] = Placement(job[p], d) /\ e = Entry(d, Codename(p))

\* The store has what has been acknowledged.
StoreKeeps ==
  \A p \in Runs : outcome[p] = "ok" =>
    \A n \in IndexNames, e \in AllEntries : Promises(p, n, e) =>
      LET c == Codename(p) IN Has(index[c][n], e) /\ Has(Contents(c)[n], e)

\* From the decision of a run to the last object of its publication.
Publishing == Indexing \cup Indexed \cup {"putGpg", "putInRelease"}

\* Some upload to the codename of the run that promised it has succeeded.
Acknowledged(p, n, e) ==
  \E q \in Runs : Codename(q) = Codename(p) /\ outcome[q] = "ok" /\ Promises(q, n, e)

\* What a run that changes indexes has to keep: what was acknowledged, and what
\* it has decided on itself.
Due(p, n, e) ==
  \/ Acknowledged(p, n, e)
  \/ Promises(p, n, e) /\ pc[p] \in Publishing

\* It is in the Release in memory, in what was read and in what is written.
Carries(p, n, e) ==
  /\ Has(rel[p].files[n], e)
  /\ pc[p] = "manifests" =>
       \A m \in ToSet(manifests[p]) : Lists(m, n) => Sole(m.packages, e)
  /\ pc[p] \in Indexing =>
       /\ \A i \in DOMAIN Batch(p) : Batch(p)[i].name = n => Sole(Batch(p)[i].body, e)
       /\ Has(index[Codename(p)][n], e) \/ Unwritten(p, n)
  /\ pc[p] \in Indexed \cup {"putGpg", "putInRelease"} => Has(index[Codename(p)][n], e)
  /\ pc[p] \in {"putGpg", "putInRelease"} => Has(Contents(Codename(p))[n], e)

\* The packages of an upload all have an architecture to be listed under.
Places(p) ==
  job[p].op = "upload" =>
    \A d \in ToSet(job[p].debs) : Placement(job[p], d) \in Archs

\* What a run that changes indexes makes of it. An upload reads a manifest for
\* each of its packages, and copy adds packages of one name.
RunKeeps(p) ==
  /\ pc[p] \in WritingLabels \cup {"sign"} => Changing(p)
  /\ pc[p] \in Publishing \/ outcome[p] = "ok" => Places(p)
  /\ pc[p] \in Indexing => Len(batches[p]) = 1
  /\ PlacesRead(p)
  /\ \A m \in ToSet(manifests[p]) : m.component = job[p].component
  /\ job[p].op = "copy" /\ pc[p] \in {"release", "manifests"} =>
       \A f \in ToSet(kept[p]) : f.name = job[p].name
  /\ Changing(p) /\ pc[p] \in Publishing \cup {"manifests"} =>
       \A n \in IndexNames, e \in AllEntries : Due(p, n, e) => Carries(p, n, e)

\* The inductive invariant.
KeepInv == StoreKeeps /\ \A p \in Runs : RunKeeps(p)

\* What the arguments below start from.
KeepHypotheses == ChangesUnderLock /\ TypeInv /\ WorksUnderLock /\ KeepInv

---------------------------------------------------------------------------
(* What lists keep *)

\* An entry outlives the addition of other packages.
LEMMA SoleStays ==
  ASSUME NEW packages \in Packages, NEW entries \in Packages, NEW e \in AllEntries,
         Sole(packages, e), \A f \in ToSet(entries) : f.name # e.name,
         NEW preserve, NEW failIfExists
  PROVE  Sole(AddAll(packages, entries, preserve, failIfExists).packages, e)
<1> DEFINE added == AddAll(packages, entries, preserve, failIfExists).packages
<1>1. \A f : f \in ToSet(added)
        <=> \/ /\ f \in ToSet(packages)
               /\ \A k \in DOMAIN entries : ~Replaces(entries[k], f, preserve)
            \/ \E i \in DOMAIN entries :
                 /\ f = entries[i]
                 /\ \A k \in DOMAIN entries :
                      k > i => ~Replaces(entries[k], f, preserve)
  <2>1. packages \in Seq(AllEntries) /\ entries \in Seq(AllEntries)
    BY DEF Packages
  <2>2. QED
    BY <2>1, AddAllFacts
<1> HIDE DEF added
<1>2. \A k \in DOMAIN entries : entries[k].name # e.name
  BY DEF ToSet
<1>3. \A k \in DOMAIN entries : ~Replaces(entries[k], e, preserve)
  BY <1>2 DEF Replaces, SamePackage
<1>4. e \in ToSet(added)
  BY <1>1, <1>3 DEF Sole
<1>5. ASSUME NEW f \in ToSet(added), SamePackage(f, e) PROVE f = e
  <2>1. f \in ToSet(packages)
    BY <1>1, <1>2, <1>5 DEF SamePackage
  <2>2. QED
    BY <1>5, <2>1 DEF Sole
<1>6. QED
  BY <1>4, <1>5 DEF Sole, added

\* An entry that is added to a list is alone there with its name and version.
LEMMA SoleAdded ==
  ASSUME NEW packages \in Packages, NEW entries \in Packages, NEW e \in ToSet(entries),
         \A f \in ToSet(entries) : f.name = e.name => f = e,
         NEW preserve, NEW failIfExists
  PROVE  Sole(AddAll(packages, entries, preserve, failIfExists).packages, e)
<1> DEFINE added == AddAll(packages, entries, preserve, failIfExists).packages
           I == {i \in DOMAIN entries : entries[i] = e}
<1>1. \A f : f \in ToSet(added)
        <=> \/ /\ f \in ToSet(packages)
               /\ \A k \in DOMAIN entries : ~Replaces(entries[k], f, preserve)
            \/ \E i \in DOMAIN entries :
                 /\ f = entries[i]
                 /\ \A k \in DOMAIN entries :
                      k > i => ~Replaces(entries[k], f, preserve)
  <2>1. packages \in Seq(AllEntries) /\ entries \in Seq(AllEntries)
    BY DEF Packages
  <2>2. QED
    BY <2>1, AddAllFacts
<1> HIDE DEF added
<1>2. entries \in Seq(AllEntries) /\ DOMAIN entries = 1..Len(entries)
      /\ Len(entries) \in Nat
  BY DEF Packages
<1>3. I \in SUBSET (1..Len(entries)) /\ I # {}
  BY <1>2 DEF ToSet
<1>4. PICK i \in I : \A k \in I : k <= i
  BY <1>2, <1>3, MaxOf
<1>5. i \in DOMAIN entries /\ entries[i] = e
  OBVIOUS
<1>6. \A k \in DOMAIN entries : entries[k].name = e.name => k \in I
  BY DEF ToSet
<1>7. \A k \in DOMAIN entries : k > i => k \notin I
  BY <1>2, <1>4, <1>5
<1>8. \A k \in DOMAIN entries : k > i => ~Replaces(entries[k], entries[i], preserve)
  BY <1>5, <1>6, <1>7 DEF Replaces, SamePackage
<1>9. e \in ToSet(added)
  BY <1>1, <1>5, <1>8
<1>10. ASSUME NEW f \in ToSet(added), SamePackage(f, e) PROVE f = e
  <2>1. CASE f \in ToSet(entries)
    BY <1>10, <2>1 DEF SamePackage
  <2>2. CASE f \notin ToSet(entries)
    <3>1. ~Replaces(e, f, preserve)
      BY <1>1, <1>5, <2>2 DEF ToSet
    <3>2. Replaces(e, f, preserve)
      BY <1>10 DEF Replaces, SamePackage
    <3>3. QED
      BY <3>1, <3>2
  <2>3. QED
    BY <2>1, <2>2
<1>11. QED
  BY <1>9, <1>10 DEF Sole, added

\* Deleting another package leaves it.
LEMMA SoleLeft ==
  ASSUME NEW packages \in Packages, NEW e \in AllEntries, Sole(packages, e),
         NEW name, name # e.name, NEW all, NEW versions
  PROVE  Sole(DeletePackage(packages, name, all, versions), e)
<1> DEFINE S == {f \in ToSet(packages) :
                   ~(f.name = name /\ (all \/ Spellings(f.version) \cap versions # {}))}
<1>1. ToSet(KeepOnly(packages, S)) = ToSet(packages) \cap S
  BY KeepOnlyFacts DEF Packages
<1>2. e \in ToSet(packages) /\ e \in S
  BY DEF Sole
<1>3. QED
  BY <1>1, <1>2 DEF DeletePackage, Sole

\* So do they in a manifest that an upload adds to.
LEMMA AddedKeeps ==
  ASSUME NEW j \in Jobs, NEW m \in Manifest, NEW e \in AllEntries, Sole(m.packages, e),
         \A d \in ToSet(j.debs) : d.name # e.name
  PROVE  Sole(Added(j, m).packages, e)
<1> DEFINE own == Entries(j, m.arch)
           everywhere == IF m.arch = "all" THEN <<>> ELSE Entries(j, "all")
           new == own \o everywhere
<1>1. own \in Seq(AllEntries) /\ everywhere \in Seq(AllEntries) /\ m.packages \in Packages
  BY EntriesType DEF Manifest, Packages
<1>2. Added(j, m) = AddAll(m.packages, new, j.preserve, j.failIfExists)
  BY DEF Added
<1>3. \A f \in ToSet(own) \cup ToSet(everywhere) : f.name # e.name
  <2>1. DOMAIN <<>> = {}
    OBVIOUS
  <2>2. \A f \in ToSet(Entries(j, "all")) : f.name # e.name
    BY EntriesRange DEF Entry
  <2>3. \A f \in ToSet(own) : f.name # e.name
    BY EntriesRange DEF Entry
  <2>4. QED
    BY <2>1, <2>2, <2>3 DEF ToSet
<1> HIDE DEF own, everywhere
<1>4. new \in Packages /\ \A f \in ToSet(new) : f.name # e.name
  BY <1>1, <1>3, ConcatRange DEF Packages
<1>5. QED
  BY <1>1, <1>2, <1>4, SoleStays

\* A package enters the manifest it is placed in.
LEMMA AddedHas ==
  ASSUME NEW j \in Jobs, NEW m \in Manifest, NEW d \in ToSet(j.debs),
         m.arch = Placement(j, d),
         \A other \in ToSet(j.debs) \ {d} : other.name # d.name
  PROVE  Sole(Added(j, m).packages, Entry(d, j.codename))
<1> DEFINE e == Entry(d, j.codename)
           own == Entries(j, m.arch)
           everywhere == IF m.arch = "all" THEN <<>> ELSE Entries(j, "all")
           new == own \o everywhere
<1>1. own \in Seq(AllEntries) /\ everywhere \in Seq(AllEntries) /\ m.packages \in Packages
  BY EntriesType DEF Manifest, Packages
<1>2. Added(j, m) = AddAll(m.packages, new, j.preserve, j.failIfExists)
  BY DEF Added
<1>3. \A f \in ToSet(own) \cup ToSet(everywhere) : f.name = e.name => f = e
  <2>1. DOMAIN <<>> = {}
    OBVIOUS
  <2>2. \A f \in ToSet(Entries(j, "all")) : f.name = e.name => f = e
    BY EntriesRange DEF Entry
  <2>3. \A f \in ToSet(own) : f.name = e.name => f = e
    BY EntriesRange DEF Entry
  <2>4. QED
    BY <2>1, <2>2, <2>3 DEF ToSet
<1>4. e \in ToSet(own)
  BY EntriesRange
<1> HIDE DEF own, everywhere, e
<1>5. /\ new \in Packages /\ e \in ToSet(new)
      /\ \A f \in ToSet(new) : f.name = e.name => f = e
  BY <1>1, <1>3, <1>4, ConcatRange DEF Packages
<1> HIDE DEF new
<1>6. Sole(Added(j, m).packages, e)
  BY <1>1, <1>2, <1>5, SoleAdded
<1>7. QED
  BY <1>6 DEF e

---------------------------------------------------------------------------
(* Decisions *)

\* What a run promises is not among the packages that another one, to which the
\* promise matters, adds or takes away.
LEMMA PromiseFacts ==
  ASSUME TypeOK, NEW p \in Runs, NEW q \in Runs, NEW n, NEW e, Promises(q, n, e), q # p
  PROVE  /\ job[p].op \in {"delete", "copy"} => job[p].name # e.name
         /\ job[p].op = "upload" => \A d \in ToSet(job[p].debs) : d.name # e.name
<1>1. PICK d \in ToSet(job[q].debs) : ~Retracted(q, d) /\ e = Entry(d, Codename(q))
  BY DEF Promises
<1>2. e.name = d.name
  BY <1>1 DEF Entry
<1>3. QED
  BY <1>1, <1>2 DEF Retracted

\* The manifests that a command has changed have what is due.
KeepsDue(p, changed) ==
  \A n \in IndexNames, e \in AllEntries :
    /\ Acknowledged(p, n, e) \/ Promises(p, n, e) =>
         \A m \in ToSet(changed) : Lists(m, n) => Sole(m.packages, e)
    /\ Promises(p, n, e) => \E m \in ToSet(changed) : Lists(m, n)

\* An upload that is not refused changes a manifest for each of its packages.
LEMMA UploadKeepsDue ==
  ASSUME KeepHypotheses, NEW p \in Runs, DecideUpload(p),
         NEW changed \in Seq(Manifest), Len(changed) = Len(manifests[p]),
         \A i \in DOMAIN manifests[p] :
           changed[i] = [manifests[p][i] EXCEPT !.packages =
                           Added(job[p], manifests[p][i]).packages],
         \A i \in DOMAIN job[p].debs : ~Misplaced(job[p], job[p].debs[i])
  PROVE  KeepsDue(p, changed)
<1> DEFINE j == job[p]
           ms == manifests[p]
<1>1. /\ TypeOK /\ RunKeeps(p) /\ j \in Jobs /\ ms \in Seq(Manifest)
      /\ pc[p] = "manifests" /\ todo[p] = <<>> /\ j.op = "upload" /\ Changing(p)
  BY JobType DEF KeepHypotheses, TypeInv, TypeOK, KeepInv, DecideUpload, Decide, Changing
<1>2. DOMAIN ms = 1..Len(ms) /\ DOMAIN changed = 1..Len(ms) /\ Len(ms) \in Nat
  BY <1>1
<1>3. ASSUME NEW i \in 1..Len(ms)
      PROVE  /\ ms[i] \in Manifest /\ ms[i] \in ToSet(ms) /\ changed[i] \in ToSet(changed)
             /\ changed[i].packages = Added(j, ms[i]).packages
             /\ changed[i].arch = ms[i].arch /\ changed[i].component = ms[i].component
  <2>1. ms[i] \in Manifest /\ ms[i] \in ToSet(ms) /\ changed[i] \in ToSet(changed)
    BY <1>1, <1>2 DEF ToSet
  <2>2. changed[i] = [ms[i] EXCEPT !.packages = Added(j, ms[i]).packages]
    BY <1>2
  <2>3. QED
    BY <2>1, <2>2 DEF Manifest
<1>4. \A m \in ToSet(changed) : \E i \in 1..Len(ms) : m = changed[i]
  BY <1>2 DEF ToSet
<1>5. ASSUME NEW n \in IndexNames, NEW e \in AllEntries, Promises(p, n, e)
      PROVE  /\ \A m \in ToSet(changed) : Lists(m, n) => Sole(m.packages, e)
             /\ \E m \in ToSet(changed) : Lists(m, n)
  <2>1. PICK d \in ToSet(j.debs) :
          /\ ~Retracted(p, d) /\ e = Entry(d, j.codename)
          /\ n[2] = Placement(j, d) /\ n[1] = j.component
    BY <1>5 DEF Promises, Codename
  <2>2. \A other \in ToSet(j.debs) \ {d} : other.name # d.name
    BY <2>1 DEF Retracted
  <2>3. ASSUME NEW m \in ToSet(changed), Lists(m, n) PROVE Sole(m.packages, e)
    <3>1. PICK i \in 1..Len(ms) : m = changed[i]
      BY <1>4
    <3>2. ms[i].arch = Placement(j, d)
      BY <1>3, <2>1, <2>3, <3>1 DEF Lists
    <3>3. Sole(Added(j, ms[i]).packages, Entry(d, j.codename))
      BY <1>1, <1>3, <2>2, <3>2, AddedHas
    <3>4. QED
      BY <1>3, <2>1, <3>1, <3>3
  <2>4. d \in ToSet(Placed(j))
    <3>1. ~Misplaced(j, d)
      BY DEF ToSet
    <3>2. ToSet(Placed(j)) = ToSet(j.debs) \cap {x \in ToSet(j.debs) : ~Misplaced(j, x)}
      BY <1>1, JobFacts, KeepOnlyFacts DEF Placed
    <3>3. QED
      BY <3>1, <3>2
  <2>5. ToSet(todo[p]) = {}
    <3>1. DOMAIN <<>> = {}
      OBVIOUS
    <3>2. QED
      BY <1>1, <3>1 DEF ToSet
  <2>6. PICK x \in ToSet(ms) : x.arch = Placement(j, d)
    BY <1>1, <2>4, <2>5 DEF RunKeeps, PlacesRead
  <2>7. x.component = j.component
    BY <1>1 DEF RunKeeps
  <2>8. PICK i \in 1..Len(ms) : x = ms[i]
    BY <1>2 DEF ToSet
  <2>9. changed[i] \in ToSet(changed) /\ Lists(changed[i], n)
    BY <1>3, <2>1, <2>6, <2>7, <2>8 DEF Lists
  <2>10. QED
    BY <2>3, <2>9
<1>6. ASSUME NEW n \in IndexNames, NEW e \in AllEntries, Acknowledged(p, n, e),
             NEW m \in ToSet(changed), Lists(m, n)
      PROVE  Sole(m.packages, e)
  <2>1. PICK q \in Runs : Promises(q, n, e)
    BY <1>6 DEF Acknowledged
  <2>2. CASE q = p
    BY <1>5, <1>6, <2>1, <2>2
  <2>3. CASE q # p
    <3>1. \A d \in ToSet(j.debs) : d.name # e.name
      BY <1>1, <2>1, <2>3, PromiseFacts
    <3>2. PICK i \in 1..Len(ms) : m = changed[i]
      BY <1>4
    <3>3. Lists(ms[i], n)
      BY <1>3, <1>6, <3>2 DEF Lists
    <3>4. Carries(p, n, e)
      BY <1>1, <1>6 DEF RunKeeps, Due
    <3>5. Sole(ms[i].packages, e)
      BY <1>1, <1>3, <3>3, <3>4 DEF Carries
    <3>6. QED
      BY <1>1, <1>3, <3>1, <3>2, <3>5, AddedKeeps
  <2>4. QED
    BY <2>2, <2>3
<1>7. QED
  BY <1>5, <1>6 DEF KeepsDue

\* Copy adds packages of another name.
LEMMA CopyKeepsDue ==
  ASSUME KeepHypotheses, NEW p \in Runs, DecideCopy(p)
  PROVE  \/ Nothing(p, "error")
         \/ \E changed \in Seq(Manifest) : Prepare(p, changed, <<>>) /\ KeepsDue(p, changed)
<1> DEFINE j == job[p]
           m == manifests[p][1]
           added == AddAll(m.packages, kept[p], j.preserve, j.failIfExists)
           copied == [m EXCEPT !.packages = added.packages]
<1>1. /\ TypeOK /\ RunKeeps(p) /\ RunOK(p) /\ manifests[p] \in Seq(Manifest)
      /\ kept[p] \in Packages
      /\ pc[p] = "manifests" /\ todo[p] = <<>> /\ j.op = "copy" /\ Changing(p)
  BY DEF KeepHypotheses, TypeInv, RunsOK, TypeOK, KeepInv, DecideCopy, Decide, Changing
<1>2. Nothing(p, "error") \/ Prepare(p, <<copied>>, <<>>)
  BY DEF DecideCopy
<1>3. m \in Manifest /\ m \in ToSet(manifests[p])
  <2>1. Len(todo[p]) + Len(manifests[p]) = 1 /\ Len(todo[p]) = 0
    BY <1>1 DEF RunOK
  <2>2. QED
    BY <1>1, <2>1 DEF ToSet
<1>4. added.packages \in Packages
  BY <1>1, <1>3, AddAllRange DEF Manifest, Packages
<1>5. \A f \in ToSet(kept[p]) : f.name = j.name
  BY <1>1 DEF RunKeeps
<1>6. copied \in Manifest /\ copied.packages = added.packages
      /\ copied.component = m.component /\ copied.arch = m.arch
  <2> HIDE DEF m, added
  <2> QED BY <1>3, <1>4 DEF Manifest
<1>7. \A n \in IndexNames : Lists(copied, n) => Lists(m, n)
  BY <1>6 DEF Lists
<1> HIDE DEF copied
<1>8. ASSUME NEW n \in IndexNames, NEW e \in AllEntries, Acknowledged(p, n, e),
             Lists(copied, n)
      PROVE  Sole(copied.packages, e)
  <2>1. PICK q \in Runs : Promises(q, n, e)
    BY <1>8 DEF Acknowledged
  <2>2. q # p
    BY <1>1, <2>1 DEF Promises
  <2>3. e.name # j.name
    BY <1>1, <2>1, <2>2, PromiseFacts
  <2>4. Sole(m.packages, e)
    BY <1>1, <1>3, <1>7, <1>8 DEF RunKeeps, Due, Carries
  <2>5. m.packages \in Packages
    BY <1>3 DEF Manifest
  <2>6. Sole(added.packages, e)
    BY <1>1, <1>5, <2>3, <2>4, <2>5, SoleStays
  <2>7. QED
    BY <1>6, <2>6
<1>9. <<copied>> \in Seq(Manifest) /\ ToSet(<<copied>>) = {copied}
  BY <1>6 DEF ToSet
<1>10. \A n, e : ~Promises(p, n, e)
  BY <1>1 DEF Promises
<1>11. KeepsDue(p, <<copied>>)
  BY <1>8, <1>9, <1>10 DEF KeepsDue
<1>12. QED
  BY <1>2, <1>9, <1>11

\* Every decision keeps what is due, or fails.
LEMMA DecidesKeep ==
  ASSUME KeepHypotheses, NEW p \in Runs,
         DecideUpload(p) \/ DecideCopy(p) \/ DecideDelete(p) \/ DecideVerify(p)
  PROVE  /\ Changing(p)
         /\ \E op : Decide(p, op)
         /\ \/ /\ Places(p)
               /\ \E changed \in Seq(Manifest) : \E uploads :
                    Prepare(p, changed, uploads) /\ KeepsDue(p, changed)
            \/ Nothing(p, "error")
<1>1. /\ TypeOK /\ RunKeeps(p) /\ job[p] \in JobsOf[p] /\ job[p] \in Jobs
      /\ manifests[p] \in Seq(Manifest)
  BY JobType DEF KeepHypotheses, TypeInv, TypeOK, KeepInv
<1>2. ~DecideVerify(p)
  BY <1>1 DEF DecideVerify, Decide, KeepHypotheses, ChangesUnderLock
<1>3. Changing(p) /\ pc[p] = "manifests" /\ \E op : Decide(p, op)
  BY <1>2 DEF Changing, DecideUpload, DecideCopy, DecideDelete, Decide
<1>4. CASE DecideUpload(p)
  <2> DEFINE j == job[p]
             ms == manifests[p]
             added == [i \in DOMAIN ms |-> Added(j, ms[i])]
             changed == [i \in DOMAIN ms |->
                           [ms[i] EXCEPT !.packages = added[i].packages]]
             uploads == Uploads(j, ms)
  <2>1. \/ Nothing(p, "error")
        \/ /\ \A i \in DOMAIN j.debs : ~Misplaced(j, j.debs[i])
           /\ Prepare(p, changed, uploads)
    BY <1>4 DEF DecideUpload
  <2>2. DOMAIN ms = 1..Len(ms) /\ Len(ms) \in Nat
            /\ \A i \in 1..Len(ms) : ms[i] \in Manifest
    BY <1>1
  <2>3. ASSUME NEW i \in 1..Len(ms)
        PROVE  /\ changed[i] = [ms[i] EXCEPT !.packages = Added(j, ms[i]).packages]
               /\ changed[i] \in Manifest
    <3>1. ms[i] \in Manifest /\ added[i] = Added(j, ms[i])
      BY <2>2
    <3>2. added[i].packages \in Packages
      BY <1>1, <3>1, AddedType
    <3>3. changed[i] = [ms[i] EXCEPT !.packages = added[i].packages]
      BY <2>2
    <3> HIDE DEF changed, added
    <3>4. QED
      BY <3>1, <3>2, <3>3 DEF Manifest
  <2>4. changed \in Seq(Manifest) /\ Len(changed) = Len(ms)
    <3>1. changed = [i \in 1..Len(ms) |-> changed[i]] /\ DOMAIN changed = 1..Len(ms)
      BY <2>2
    <3> HIDE DEF changed
    <3>2. changed \in Seq(Manifest)
      BY <2>2, <2>3, <3>1, SequenceType
    <3>3. QED
      BY <2>2, <3>1, <3>2
  <2> HIDE DEF changed, uploads
  <2>5. (\A i \in DOMAIN j.debs : ~Misplaced(j, j.debs[i])) => KeepsDue(p, changed)
    BY <1>4, <2>2, <2>3, <2>4, UploadKeepsDue
  <2>6. ASSUME \A i \in DOMAIN j.debs : ~Misplaced(j, j.debs[i]) PROVE Places(p)
    <3>1. \A d \in ToSet(j.debs) : ~Misplaced(j, d)
      BY <2>6 DEF ToSet
    <3>2. \A d \in ToSet(j.debs) : Placement(j, d) \in Archs
      BY <1>1, <3>1, JobFacts DEF Misplaced, Placement, IsJob
    <3>3. QED
      BY <3>2 DEF Places
  <2>7. QED
    BY <1>3, <2>1, <2>4, <2>5, <2>6
<1>5. CASE DecideCopy(p)
  BY <1>3, <1>5, CopyKeepsDue DEF Places, DecideCopy, Decide
<1>6. CASE DecideDelete(p)
  <2>1. job[p].op = "delete" /\ (Nothing(p, "error") \/ Prepare(p, manifests[p], <<>>))
    BY <1>6 DEF DecideDelete, Decide
  <2>2. KeepsDue(p, manifests[p])
    BY <1>1, <1>3, <2>1 DEF KeepsDue, RunKeeps, Due, Carries, Promises
  <2>3. QED
    BY <1>1, <1>3, <2>1, <2>2 DEF Places
<1>7. QED
  BY <1>2, <1>4, <1>5, <1>6

\* The Release and the artifacts that a decision makes of the manifests it has
\* changed have the entry, and an artifact is made for the index it is due in.
Prepared(r, changed, n, e) ==
  LET updated == UpdateManifests(r, changed)
      missing == MissingManifests(updated)
      final == UpdateManifests(updated, missing)
      artifacts == Artifacts(changed \o missing)
  IN  /\ Has(final.files[n], e)
      /\ \A a \in ToSet(artifacts) : a.name = n => Sole(a.body, e)
      /\ (\E m \in ToSet(changed) : Lists(m, n))
           => \E i \in DOMAIN artifacts : artifacts[i].name = n

\* So do the Release in memory and the artifacts that a decision makes of its
\* manifests: the empty ones it adds are for no index that anything is due in.
LEMMA PreparedKeeps ==
  ASSUME NEW r \in Releases, NEW changed \in Seq(Manifest),
         NEW n \in IndexNames, NEW e \in AllEntries,
         \A m \in ToSet(changed) : Lists(m, n) => Sole(m.packages, e),
         \/ /\ Has(r.files[n], e)
            /\ Has(r.files[<<n[1], n[2], "Packages">>], e)
         \/ \E m \in ToSet(changed) : Lists(m, n)
  PROVE  Prepared(r, changed, n, e)
<1> DEFINE updated == UpdateManifests(r, changed)
           missing == MissingManifests(updated)
           final == UpdateManifests(updated, missing)
           artifacts == Artifacts(changed \o missing)
           plain == <<n[1], n[2], "Packages">>
<1>1. updated \in Releases
  BY UpdateManifestsType
<1>2. \A x \in IndexNames :
        \/ /\ updated.files[x] = r.files[x]
           /\ \A m \in ToSet(changed) : ~Lists(m, x)
        \/ \E m \in ToSet(changed) : Lists(m, x) /\ updated.files[x] = m.packages
  BY UpdateManifestsFacts
<1>3. \A m \in ToSet(changed) : m \in Manifest
  BY DEF ToSet
<1>4. /\ plain \in IndexNames /\ \A m : Lists(m, plain) <=> Lists(m, n)
      /\ n = <<n[1], n[2], n[3]>> /\ n[3] \in ToSet(Forms)
  BY PlainName DEF Lists, IndexNames
<1>5. ASSUME NEW x \in {n, plain} PROVE Has(updated.files[x], e)
  <2>1. x \in IndexNames /\ \A m : Lists(m, x) <=> Lists(m, n)
    BY <1>4
  <2>2. CASE \E m \in ToSet(changed) : Lists(m, x) /\ updated.files[x] = m.packages
    <3>1. PICK m \in ToSet(changed) : Lists(m, x) /\ updated.files[x] = m.packages
      BY <2>2
    <3>2. m.packages \in Packages
      BY <1>3, <3>1 DEF Manifest
    <3>3. QED
      BY <2>1, <3>1, <3>2, ObjectsAssumption DEF Has
  <2>3. CASE /\ updated.files[x] = r.files[x]
             /\ \A m \in ToSet(changed) : ~Lists(m, x)
    BY <2>1, <2>3
  <2>4. QED
    BY <1>2, <2>1, <2>2, <2>3
<1> HIDE DEF updated
<1>6. /\ missing \in Seq(Manifest)
      /\ \A m \in ToSet(missing) :
           updated.files[<<m.component, m.arch, "Packages">>] = NoObject
  BY <1>1, MissingManifestsType, MissingManifestsFacts
<1>7. \A m \in ToSet(missing) : ~Lists(m, n)
  BY <1>5, <1>6 DEF Has, Lists
<1> HIDE DEF missing
<1>8. final.files[n] = updated.files[n]
  BY <1>1, <1>6, <1>7, UpdateManifestsFacts
<1>9. changed \o missing \in Seq(Manifest)
      /\ ToSet(changed \o missing) = ToSet(changed) \cup ToSet(missing)
  BY <1>6, ConcatRange
<1>10. ASSUME NEW a \in ToSet(artifacts), a.name = n PROVE Sole(a.body, e)
  <2>1. PICK m \in ToSet(changed) \cup ToSet(missing) :
          Lists(m, a.name) /\ a.body = m.packages
    BY <1>9, <1>10, ArtifactsFacts
  <2>2. QED
    BY <1>7, <1>10, <2>1
<1>11. ASSUME NEW m \in ToSet(changed), Lists(m, n)
       PROVE  \E i \in DOMAIN artifacts : artifacts[i].name = n
  <2>1. [name |-> <<m.component, m.arch, n[3]>>, body |-> m.packages] \in ToSet(artifacts)
    BY <1>4, <1>9, ArtifactsFacts
  <2>2. <<m.component, m.arch, n[3]>> = n
    BY <1>4, <1>11 DEF Lists
  <2>3. QED
    BY <2>1, <2>2 DEF ToSet
<1> HIDE DEF final, artifacts
<1>12. /\ Has(final.files[n], e)
       /\ \A a \in ToSet(artifacts) : a.name = n => Sole(a.body, e)
       /\ (\E m \in ToSet(changed) : Lists(m, n))
            => \E i \in DOMAIN artifacts : artifacts[i].name = n
  BY <1>5, <1>8, <1>10, <1>11
<1>13. QED
  BY <1>12 DEF Prepared, final, artifacts, missing, updated

---------------------------------------------------------------------------
(* What a step keeps *)

\* Nothing happens to a run in a step of another one.
Bystanders(p) ==
  /\ Aside(p)
  /\ \A q \in Runs \ {p} :
       todo'[q] = todo[q] /\ kept'[q] = kept[q] /\ outcome'[q] = outcome[q]

\* The step changes nothing but its own codename, and that only while it holds
\* the lock, as it does when an upload succeeds.
Contained(p) ==
  /\ \A d \in Codenames \ {Codename(p)} :
       index'[d] = index[d] /\ release'[d] = release[d]
  /\ \/ index'[Codename(p)] = index[Codename(p)] /\ release'[Codename(p)] = release[Codename(p)]
     \/ Changing(p) /\ pc[p] \in Working
  /\ outcome'[p] = "ok" /\ job[p].op = "upload" => outcome[p] = "ok" \/ pc[p] \in Working

\* What is promised does not change.
LEMMA PromisesStay ==
  ASSUME job' = job
  PROVE  /\ \A p, n, e : Promises(p, n, e)' <=> Promises(p, n, e)
         /\ \A p : Codename(p)' = Codename(p) /\ (Changing(p)' <=> Changing(p))
BY DEF Promises, Retracted, Codename, Changing

\* The runs that do not take the step keep their invariant.
LEMMA OthersKeep ==
  ASSUME KeepHypotheses, NEW p \in Runs, Bystanders(p), Contained(p),
         NEW q \in Runs, q # p
  PROVE  RunKeeps(q)'
<1>1. /\ pc'[q] = pc[q] /\ rel'[q] = rel[q] /\ batches'[q] = batches[q]
      /\ at'[q] = at[q] /\ manifests'[q] = manifests[q] /\ job' = job
      /\ todo'[q] = todo[q] /\ kept'[q] = kept[q] /\ outcome'[q] = outcome[q]
  BY DEF Bystanders, Aside
<1>2. /\ Codename(q)' = Codename(q) /\ Changing(q)' = Changing(q)
      /\ Batch(q)' = Batch(q) /\ (Places(q)' <=> Places(q))
  BY <1>1 DEF Codename, Changing, Batch, Places
<1>3. RunKeeps(q) /\ TypeOK
  BY DEF KeepHypotheses, KeepInv, TypeInv
<1>4. PlacesRead(q)'
  BY <1>1, <1>3 DEF RunKeeps, PlacesRead
<1>5. CASE Changing(q) /\ pc[q] \in Working
  <2>1. Changing(p) /\ pc[p] \in Working => Codename(p) # Codename(q)
    BY <1>3, <1>5, OneChange DEF KeepHypotheses
  <2>2. Codename(q) \in Codenames
    BY <1>3, CodenameType
  <2>3. index'[Codename(q)] = index[Codename(q)] /\ release'[Codename(q)] = release[Codename(q)]
    BY <2>1, <2>2 DEF Contained
  <2>4. ASSUME NEW n \in IndexNames, NEW e \in AllEntries, Acknowledged(q, n, e)'
        PROVE  Acknowledged(q, n, e)
    <3>1. PICK r \in Runs : Codename(r) = Codename(q) /\ outcome'[r] = "ok" /\ Promises(r, n, e)
      BY <1>1, <2>4, PromisesStay DEF Acknowledged
    <3>2. outcome[r] = "ok"
      <4>1. CASE r # p
        BY <3>1, <4>1 DEF Bystanders
      <4>2. CASE r = p
        <5>1. job[p].op = "upload"
          BY <3>1, <4>2 DEF Promises
        <5>2. QED
          BY <2>1, <3>1, <4>2, <5>1 DEF Contained, Changing
      <4>3. QED
        BY <4>1, <4>2
    <3>3. QED
      BY <3>1, <3>2 DEF Acknowledged
  <2>5. ASSUME NEW n \in IndexNames, NEW e \in AllEntries, Due(q, n, e)'
        PROVE  Due(q, n, e)
    BY <1>1, <2>4, <2>5, PromisesStay DEF Due
  <2>6. \A n, e : Carries(q, n, e)' <=> Carries(q, n, e)
    BY <1>1, <1>2, <2>3 DEF Carries, Unwritten, Contents
  <2>7. QED
    BY <1>1, <1>2, <1>3, <1>4, <2>5, <2>6 DEF RunKeeps
<1>6. CASE ~(Changing(q) /\ pc[q] \in Working)
  <2>1. ~(Changing(q) /\ pc[q] \in Publishing \cup {"manifests"})
    BY <1>6 DEF Publishing, Indexing, Indexed, Working, Labels
  <2>2. QED
    BY <1>1, <1>2, <1>3, <1>4, <2>1 DEF RunKeeps
<1>7. QED
  BY <1>5, <1>6

\* The step keeps the invariant when its run does, and the store has what was
\* acknowledged in the codename of the run.
LEMMA StepKeeps ==
  ASSUME KeepHypotheses, NEW p \in Runs, Bystanders(p), Contained(p), RunKeeps(p)',
         \A c \in Codenames, q \in Runs, n \in IndexNames, e \in AllEntries :
           c = Codename(p) /\ c = Codename(q) /\ outcome'[q] = "ok" /\ Promises(q, n, e)
             => Has(index'[c][n], e) /\ Has(Contents(c)'[n], e)
  PROVE  KeepInv'
<1>1. \A q \in Runs : RunKeeps(q)'
  BY OthersKeep
<1>2. job' = job /\ TypeOK
  BY DEF Bystanders, Aside, KeepHypotheses, TypeInv
<1>3. ASSUME NEW q \in Runs, outcome'[q] = "ok", NEW n \in IndexNames, NEW e \in AllEntries,
             Promises(q, n, e), NEW c \in Codenames, c = Codename(q)
      PROVE  Has(index'[c][n], e) /\ Has(Contents(c)'[n], e)
  <2>1. CASE c = Codename(p)
    BY <1>3, <2>1
  <2>2. CASE c # Codename(p)
    <3>1. index'[c] = index[c] /\ release'[c] = release[c]
      BY <2>2 DEF Contained
    <3>2. outcome[q] = "ok"
      BY <1>3, <2>2 DEF Bystanders
    <3>3. Has(index[c][n], e) /\ Has(Contents(c)[n], e)
      BY <1>3, <3>2 DEF KeepHypotheses, KeepInv, StoreKeeps
    <3>4. QED
      BY <3>1, <3>3 DEF Contents
  <2>3. QED
    BY <2>1, <2>2
<1>4. StoreKeeps'
  <2> SUFFICES ASSUME NEW q \in Runs, outcome'[q] = "ok", NEW n \in IndexNames,
                      NEW e \in AllEntries, Promises(q, n, e)',
                      NEW c, c = Codename(q)'
               PROVE  Has(index'[c][n], e) /\ Has(Contents(c)'[n], e)
    BY DEF StoreKeeps
  <2>1. c = Codename(q) /\ Promises(q, n, e) /\ c \in Codenames
    BY <1>2, PromisesStay, CodenameType
  <2>2. QED
    BY <1>3, <2>1
<1>5. QED
  BY <1>1, <1>4 DEF KeepInv

\* A step that leaves the store alone and lets no upload succeed.
Calm(p) ==
  /\ Bystanders(p)
  /\ UNCHANGED <<index, release>>
  /\ outcome'[p] = "ok" => outcome[p] = "ok" \/ job[p].op # "upload"

\* It keeps the invariant when its run does.
LEMMA CalmKeeps ==
  ASSUME KeepHypotheses, NEW p \in Runs, Calm(p), RunKeeps(p)'
  PROVE  KeepInv'
<1>1. Bystanders(p) /\ Contained(p)
  BY DEF Calm, Contained
<1>2. ASSUME NEW c \in Codenames, NEW q \in Runs, NEW n \in IndexNames, NEW e \in AllEntries,
             c = Codename(q), outcome'[q] = "ok", Promises(q, n, e)
      PROVE  Has(index'[c][n], e) /\ Has(Contents(c)'[n], e)
  <2>1. job[q].op = "upload"
    BY <1>2 DEF Promises
  <2>2. outcome[q] = "ok"
    BY <1>2, <2>1 DEF Calm, Bystanders
  <2>3. Has(index[c][n], e) /\ Has(Contents(c)[n], e)
    BY <1>2, <2>2 DEF KeepHypotheses, KeepInv, StoreKeeps
  <2>4. QED
    BY <2>3 DEF Calm, Contents
<1>3. QED
  BY <1>1, <1>2, StepKeeps

\* Outside the publication of indexes there is nothing to keep.
LEMMA RestKeeps ==
  ASSUME KeepHypotheses, NEW p \in Runs, Calm(p),
         pc'[p] \notin Publishing, pc'[p] = "manifests" => ~Changing(p),
         pc'[p] = "release" => job[p].op # "copy",
         \A m \in ToSet(manifests'[p]) : m.component = job[p].component
  PROVE  KeepInv'
<1>1. Changing(p)' = Changing(p) /\ job' = job /\ (Places(p)' <=> Places(p))
  BY DEF Changing, Aside, Calm, Bystanders, Places
<1>2. outcome'[p] = "ok" => Places(p)
  BY DEF Calm, Places, KeepHypotheses, KeepInv, RunKeeps
<1>3. RunKeeps(p)'
  BY <1>1, <1>2
  DEF RunKeeps, PlacesRead, Publishing, Indexing, Indexed, WritingLabels, Changing
<1>4. QED
  BY <1>3, CalmKeeps

---------------------------------------------------------------------------
(* The steps *)

\* The steps of the lock, of queries and of clean keep the invariant, and so do
\* failures, whatever the run was about to do.
LEMMA QuietKeeps ==
  ASSUME KeepHypotheses, NEW p \in Runs,
         \/ Start(p) \/ TakeLock(p) \/ GiveUp(p) \/ Unlock(p)
         \/ Answer(p) \/ LookUp(p) \/ ListIndexes(p) \/ ListPool(p) \/ SweepDone(p)
         \/ StoreFails(p) \/ UnlockFails(p) \/ SigningFails(p) \/ Crash(p)
  PROVE  KeepInv'
<1> USE DEF Goto, store, memory, reading
<1>1. /\ pc \in [Runs -> Labels] /\ outcome \in [Runs -> Outcomes]
      /\ DOMAIN todo = Runs /\ DOMAIN kept = Runs
      /\ RunOK(p) /\ RunKeeps(p)
  BY DEF KeepHypotheses, TypeInv, TypeOK, RunsOK, KeepInv
<1>2. UNCHANGED <<index, release, job, rel, batches, at, manifests>>
  BY DEF Start, TakeLock, GiveUp, Unlock, Answer, LookUp, ListIndexes, ListPool,
         SweepDone, StoreFails, UnlockFails, SigningFails, SignFails, Crash
<1>3. \E label \in {"lock", "source", "list", "lookup", "release", "scan", "sweep",
                    "unlock", "ended"} :
        /\ pc' = [pc EXCEPT ![p] = label]
        /\ label = "release" => job[p].op # "copy"
  BY DEF Start, FirstRead, TakeLock, GiveUp, Unlock, Answer, LookUp, ListIndexes,
         ListPool, SweepDone, StoreFails, UnlockFails, SigningFails, SignFails, Crash,
         Finish
<1>4. \A q \in Runs \ {p} :
        todo'[q] = todo[q] /\ kept'[q] = kept[q] /\ outcome'[q] = outcome[q]
  BY <1>1 DEF Start, TakeLock, GiveUp, Unlock, Answer, LookUp, ListIndexes, ListPool,
         SweepDone, StoreFails, UnlockFails, SigningFails, SignFails, Crash, Finish
<1>5. outcome'[p] = "ok" => outcome[p] = "ok" \/ job[p].op # "upload"
  BY <1>1 DEF RunOK, Start, TakeLock, GiveUp, Unlock, Answer, LookUp, ListIndexes,
         ListPool, SweepDone, StoreFails, UnlockFails, SigningFails, SignFails, Crash,
         Finish
<1>6. /\ \A q \in Runs \ {p} : pc'[q] = pc[q]
      /\ pc'[p] \in {"lock", "source", "list", "lookup", "release", "scan", "sweep",
                     "unlock", "ended"}
      /\ pc'[p] = "release" => job[p].op # "copy"
  BY <1>1, <1>3
<1>7. Calm(p)
  BY <1>2, <1>4, <1>5, <1>6 DEF Calm, Bystanders, Aside
<1>8. \A m \in ToSet(manifests'[p]) : m.component = job[p].component
  BY <1>1, <1>2 DEF RunKeeps
<1>9. QED
  BY <1>6, <1>7, <1>8, RestKeeps DEF Publishing, Indexing, Indexed

\* So do the loops of list and clean; verify, which has no lock, is left out.
LEMMA LoopKeeps ==
  ASSUME KeepHypotheses, NEW p \in Runs,
         \/ ListManifest(p) \/ ScanIndex(p) \/ DeletePoolObject(p)
         \/ HeadPackage(p) \/ HeadsDone(p)
  PROVE  KeepInv'
<1> USE DEF store, memory, reading
<1>1. /\ DOMAIN todo = Runs /\ DOMAIN kept = Runs /\ job[p] \in JobsOf[p]
      /\ RunOK(p) /\ RunKeeps(p)
  BY DEF KeepHypotheses, TypeInv, TypeOK, RunsOK, KeepInv
<1>2. ~HeadPackage(p) /\ ~HeadsDone(p)
  BY <1>1 DEF HeadPackage, HeadsDone, RunOK, KeepHypotheses, ChangesUnderLock
<1>3. /\ UNCHANGED <<index, release, job, rel, batches, at, manifests, pc, outcome>>
      /\ pc[p] \in {"manifests", "scan", "sweep"}
      /\ pc[p] = "manifests" => job[p].op = "list"
      /\ \A q \in Runs \ {p} : todo'[q] = todo[q] /\ kept'[q] = kept[q]
  BY <1>1, <1>2 DEF ListManifest, ScanIndex, DeletePoolObject
<1>4. Calm(p)
  BY <1>3 DEF Calm, Bystanders, Aside
<1>5. \A m \in ToSet(manifests'[p]) : m.component = job[p].component
  BY <1>1, <1>3 DEF RunKeeps
<1>6. QED
  BY <1>3, <1>4, <1>5, RestKeeps DEF Publishing, Indexing, Indexed, Changing

\* What copy selects has the name that was given.
LEMMA RetrieveSourceKeeps ==
  ASSUME KeepHypotheses, NEW p \in Runs, RetrieveSource(p)
  PROVE  KeepInv'
<1> USE DEF Goto, store, memory
<1> DEFINE j == job[p]
           source == PackagesOf(index[j.source[1]][<<j.source[2], j.arch, "Packages">>])
<1>1. /\ pc \in [Runs -> Labels] /\ TypeOK /\ RunOK(p) /\ RunKeeps(p) /\ DOMAIN kept = Runs
      /\ j \in Jobs
  BY JobType DEF KeepHypotheses, TypeInv, TypeOK, RunsOK, KeepInv
<1>2. /\ pc[p] = "source" /\ pc' = [pc EXCEPT ![p] = "release"]
      /\ kept' = [kept EXCEPT ![p] = Selected(j, source)]
      /\ UNCHANGED <<index, release, job, rel, batches, at, manifests, todo, outcome>>
  BY DEF RetrieveSource
<1>3. j.op = "copy"
  BY <1>1, <1>2 DEF RunOK
<1>4. source \in Packages
  <2>1. j.source[1] \in Codenames /\ j.source[2] \in Components /\ j.arch \in Archs
    BY <1>1, <1>3, JobFacts DEF IsJob
  <2>2. <<j.source[2], j.arch, "Packages">> \in IndexNames
    BY <2>1, PlainName
  <2>3. QED
    BY <1>1, <2>1, <2>2, IndexType
<1> HIDE DEF source
<1>5. \A f \in ToSet(Selected(j, source)) : f.name = j.name
  <2> DEFINE S == {f \in ToSet(source) : f.name = j.name /\ (j.all \/ f.version \in j.versions)}
  <2>1. source \in Seq(AllEntries)
    BY <1>4 DEF Packages
  <2>2. ToSet(KeepOnly(source, S)) = ToSet(source) \cap S
    BY <2>1, KeepOnlyFacts
  <2>3. QED
    BY <2>2 DEF Selected
<1>6. /\ pc'[p] = "release" /\ kept'[p] = Selected(j, source)
      /\ \A q \in Runs \ {p} : pc'[q] = pc[q] /\ kept'[q] = kept[q]
  BY <1>1, <1>2
<1>7. Calm(p)
  BY <1>2, <1>6 DEF Calm, Bystanders, Aside
<1>8. RunKeeps(p)'
  BY <1>1, <1>2, <1>5, <1>6
  DEF RunKeeps, PlacesRead, Publishing, Indexing, Indexed, WritingLabels, Places
<1>9. QED
  BY <1>7, <1>8, CalmKeeps

\* Nothing becomes due in a step that decides on nothing and lets no upload
\* succeed.
LEMMA DueBefore ==
  ASSUME job' = job, NEW p \in Runs, \A q \in Runs : outcome'[q] = "ok" => outcome[q] = "ok",
         pc'[p] \in Publishing => pc[p] \in Publishing, NEW n, NEW e, Due(p, n, e)'
  PROVE  Due(p, n, e)
BY PromisesStay DEF Due, Acknowledged

\* What was acknowledged is in the store of the codename.
LEMMA AcknowledgedStored ==
  ASSUME KeepInv, NEW p \in Runs, NEW n \in IndexNames, NEW e \in AllEntries,
         Acknowledged(p, n, e)
  PROVE  Has(index[Codename(p)][n], e) /\ Has(Contents(Codename(p))[n], e)
BY DEF KeepInv, StoreKeeps, Acknowledged

\* The Release that is retrieved lists all that was acknowledged.
LEMMA RetrieveReleaseKeeps ==
  ASSUME KeepHypotheses, NEW p \in Runs, RetrieveRelease(p)
  PROVE  KeepInv'
<1> DEFINE c == Codename(p)
           r == Retrieved(release[c], job[p].byHash)
<1>1. /\ TypeOK /\ RunOK(p) /\ RunKeeps(p) /\ c \in Codenames /\ pc \in [Runs -> Labels]
      /\ rel \in [Runs -> Releases] /\ release[c] \in {NoObject} \cup Releases
      /\ DOMAIN todo = Runs /\ job[p] \in Jobs
  BY CodenameType, JobType DEF KeepHypotheses, TypeInv, TypeOK, RunsOK, KeepInv
<1>2. /\ pc[p] = "release" /\ pc' = [pc EXCEPT ![p] = "manifests"]
      /\ rel' = [rel EXCEPT ![p] = r]
      /\ todo' = [todo EXCEPT ![p] = ArchsToRead(job[p], r.archs)]
      /\ UNCHANGED <<index, release, job, batches, at, manifests, kept, outcome>>
  BY DEF RetrieveRelease, Goto, store
<1>3. \A n \in IndexNames : r.files[n] = Contents(c)[n]
  BY <1>1 DEF Retrieved, NewRelease, Contents, Releases
<1>4. r \in Releases
  BY <1>1, RetrievedType
<1> HIDE DEF r
<1>5. /\ pc'[p] = "manifests" /\ rel'[p] = r /\ todo'[p] = ArchsToRead(job[p], r.archs)
      /\ \A q \in Runs \ {p} : pc'[q] = pc[q] /\ rel'[q] = rel[q] /\ todo'[q] = todo[q]
  BY <1>1, <1>2
<1>6. Calm(p) /\ Changing(p)' = Changing(p)
  BY <1>2, <1>5 DEF Calm, Bystanders, Aside, Changing
<1>7. PlacesRead(p)'
  <2> SUFFICES ASSUME job[p].op = "upload", NEW d \in ToSet(Placed(job[p]))
               PROVE  Placement(job[p], d) \in ToSet(todo'[p])
    BY <1>2 DEF PlacesRead
  <2>1. r.archs \in Seq(Archs)
    BY <1>4 DEF Releases
  <2>2. ArchsToRead(job[p], r.archs) = UploadArchs(job[p], r.archs)
    BY DEF ArchsToRead
  <2>3. QED
    BY <1>1, <1>5, <2>1, <2>2, UploadArchsFacts
<1>8. ToSet(manifests'[p]) = {}
  <2>1. DOMAIN <<>> = {}
    OBVIOUS
  <2>2. QED
    BY <1>1, <1>2, <2>1 DEF RunOK, ToSet
<1>9. ASSUME NEW n \in IndexNames, NEW e \in AllEntries, Due(p, n, e)'
      PROVE  Carries(p, n, e)'
  <2>1. Acknowledged(p, n, e)
    BY <1>2, <1>5, <1>9, DueBefore DEF Due, Publishing, Indexing, Indexed
  <2>2. Has(Contents(c)[n], e)
    BY <2>1, AcknowledgedStored DEF KeepHypotheses
  <2>3. QED
    BY <1>3, <1>5, <1>8, <2>2 DEF Carries, Indexing, Indexed
<1>10. RunKeeps(p)'
  BY <1>1, <1>2, <1>5, <1>6, <1>7, <1>8, <1>9
  DEF RunKeeps, Publishing, Indexing, Indexed, WritingLabels, Places
<1>11. QED
  BY <1>6, <1>10, CalmKeeps

\* A manifest that is read has it, and delete leaves it there.
LEMMA RetrieveManifestKeeps ==
  ASSUME KeepHypotheses, NEW p \in Runs, RetrieveManifest(p)
  PROVE  KeepInv'
<1> DEFINE j == job[p]
           c == Codename(p)
           arch == Head(todo[p])
           packages == PackagesOf(index[j.codename][<<j.component, arch, "Packages">>])
           left == IF j.op = "delete"
                   THEN DeletePackage(packages, j.name, j.all, j.versions)
                   ELSE packages
           m == [component |-> j.component, arch |-> arch, packages |-> left]
<1>1. /\ pc[p] = "manifests" /\ todo[p] # <<>> /\ TypeOK /\ RunOK(p) /\ RunKeeps(p)
      /\ j \in JobsOf[p] /\ j \in Jobs /\ pc \in [Runs -> Labels] /\ DOMAIN todo = Runs
      /\ manifests \in [Runs -> Seq(Manifest)] /\ c \in Codenames
  BY JobType, CodenameType
  DEF KeepHypotheses, TypeInv, TypeOK, RunsOK, KeepInv, RetrieveManifest
<1>2. j.op # "verify"
  BY <1>1 DEF KeepHypotheses, ChangesUnderLock
<1>3. /\ UNCHANGED <<pc, index, release, job, rel, batches, at, kept, outcome>>
      /\ todo' = [todo EXCEPT ![p] = Tail(@)]
      /\ manifests' = [manifests EXCEPT ![p] =
                         IF j.op = "delete" /\ left = packages THEN @ ELSE Append(@, m)]
  BY <1>2 DEF RetrieveManifest, store
<1>4. todo[p] \in Seq(Archs) /\ arch \in Archs
  <2>1. todo[p] \in Seq(Archs)
    BY <1>1 DEF RunOK
  <2>2. QED
    BY <1>1, <2>1
<1>5. packages \in Packages
  <2>1. <<j.component, arch, "Packages">> \in IndexNames /\ j.codename \in Codenames
    BY <1>1, <1>4, PlainName, JobFacts
  <2>2. QED
    BY <1>1, <2>1, IndexType
<1>6. ASSUME NEW n \in IndexNames, NEW e \in AllEntries, Acknowledged(p, n, e),
             n[1] = j.component, n[2] = arch
      PROVE  Sole(left, e)
  <2> DEFINE plain == <<j.component, arch, "Packages">>
  <2>1. PICK q \in Runs : Codename(q) = c /\ outcome[q] = "ok" /\ Promises(q, n, e)
    BY <1>6 DEF Acknowledged
  <2>2. Promises(q, plain, e)
    BY <1>6, <2>1 DEF Promises
  <2>3. plain \in IndexNames
    BY <1>1, <1>4, PlainName, JobFacts
  <2>4. Has(index[c][plain], e)
    BY <2>1, <2>2, <2>3 DEF KeepHypotheses, KeepInv, StoreKeeps
  <2>5. Sole(packages, e)
    BY <2>4 DEF Has, PackagesOf, Codename
  <2>6. j.op = "delete" => j.name # e.name
    <3>1. q = p => j.op = "upload"
      BY <2>1 DEF Promises
    <3>2. QED
      BY <1>1, <2>1, <3>1, PromiseFacts
  <2> HIDE DEF packages
  <2>7. QED
    BY <1>5, <2>5, <2>6, SoleLeft
<1>7. /\ m.component = j.component /\ m.arch = arch /\ m.packages = left
  OBVIOUS
<1> HIDE DEF m, left, packages, arch
<1>8. /\ ToSet(manifests'[p]) \subseteq ToSet(manifests[p]) \cup {m}
      /\ j.op = "upload" => ToSet(manifests'[p]) = ToSet(manifests[p]) \cup {m}
      /\ \A q \in Runs \ {p} : manifests'[q] = manifests[q]
  <2>1. manifests[p] \in Seq(Manifest)
    BY <1>1
  <2>2. ToSet(Append(manifests[p], m)) = ToSet(manifests[p]) \cup {m}
    BY <2>1, AppendRange
  <2>3. \/ manifests'[p] = manifests[p] /\ j.op = "delete"
        \/ manifests'[p] = Append(manifests[p], m)
    BY <1>1, <1>3
  <2>4. QED
    BY <1>1, <1>3, <2>2, <2>3
<1>9. /\ \A q \in Runs \ {p} : todo'[q] = todo[q]
      /\ todo'[p] = Tail(todo[p])
  BY <1>1, <1>3
<1>10. Calm(p) /\ Changing(p)' = Changing(p) /\ Codename(p)' = c
  BY <1>3, <1>8, <1>9 DEF Calm, Bystanders, Aside, Changing, Codename
<1>11. PlacesRead(p)'
  <2> SUFFICES ASSUME j.op = "upload", NEW d \in ToSet(Placed(j))
               PROVE  \/ Placement(j, d) \in ToSet(todo'[p])
                      \/ \E x \in ToSet(manifests'[p]) : x.arch = Placement(j, d)
    BY <1>3 DEF PlacesRead
  <2>1. \/ Placement(j, d) \in ToSet(todo[p])
        \/ \E x \in ToSet(manifests[p]) : x.arch = Placement(j, d)
    BY <1>1 DEF RunKeeps, PlacesRead
  <2>2. ToSet(todo[p]) = {arch} \cup ToSet(todo'[p])
    BY <1>1, <1>4, <1>9, HeadTail DEF arch
  <2>3. QED
    BY <1>7, <1>8, <2>1, <2>2
<1>12. ASSUME Changing(p), NEW n \in IndexNames, NEW e \in AllEntries, Due(p, n, e)'
       PROVE  Carries(p, n, e)'
  <2>1. Due(p, n, e)
    BY <1>3, <1>12, DueBefore
  <2>2. Acknowledged(p, n, e)
    BY <1>1, <2>1 DEF Due, Publishing, Indexing, Indexed
  <2>3. Carries(p, n, e)
    BY <1>1, <1>12, <2>1 DEF RunKeeps
  <2>4. Lists(m, n) => Sole(m.packages, e)
    BY <1>6, <1>7, <2>2 DEF Lists
  <2>5. \A x \in ToSet(manifests'[p]) : Lists(x, n) => Sole(x.packages, e)
    BY <1>1, <1>8, <2>3, <2>4 DEF Carries
  <2>6. QED
    BY <1>1, <1>3, <2>3, <2>5 DEF Carries, Indexing, Indexed
<1>13. \A x \in ToSet(manifests'[p]) : x.component = j.component
  BY <1>1, <1>7, <1>8 DEF RunKeeps
<1>14. RunKeeps(p)'
  BY <1>1, <1>3, <1>10, <1>11, <1>12, <1>13
  DEF RunKeeps, Publishing, Indexing, Indexed, WritingLabels, Places
<1>15. QED
  BY <1>10, <1>14, CalmKeeps

\* A decision carries what is due into the Release and the artifacts.
LEMMA DecideKeeps ==
  ASSUME KeepHypotheses, NEW p \in Runs,
         DecideUpload(p) \/ DecideCopy(p) \/ DecideDelete(p) \/ DecideVerify(p)
  PROVE  KeepInv'
<1> DEFINE c == Codename(p)
<1>1. /\ TypeOK /\ RunKeeps(p) /\ pc \in [Runs -> Labels] /\ rel \in [Runs -> Releases]
      /\ outcome \in [Runs -> Outcomes] /\ c \in Codenames
      /\ DOMAIN batches = Runs /\ DOMAIN manifests = Runs /\ DOMAIN kept = Runs
  BY CodenameType DEF KeepHypotheses, TypeInv, TypeOK, KeepInv
<1>2. /\ Changing(p) /\ pc[p] = "manifests"
      /\ UNCHANGED <<index, release, job, at, todo>>
      /\ manifests' = [manifests EXCEPT ![p] = <<>>]
      /\ kept' = [kept EXCEPT ![p] = <<>>]
  BY DecidesKeep DEF Decide, store
<1>3. ToSet(manifests'[p]) = {}
  <2>1. DOMAIN <<>> = {}
    OBVIOUS
  <2>2. QED
    BY <1>1, <1>2, <2>1 DEF ToSet
<1>4. CASE Nothing(p, "error")
  <2>1. /\ \E label \in {"unlock", "ended"} : pc' = [pc EXCEPT ![p] = label]
        /\ outcome' = [outcome EXCEPT ![p] = "error"]
        /\ UNCHANGED <<rel, batches>>
    BY <1>4 DEF Nothing, Finish, Goto
  <2>2. Calm(p) /\ pc'[p] \in {"unlock", "ended"}
    BY <1>1, <1>2, <2>1 DEF Calm, Bystanders, Aside
  <2>3. QED
    BY <1>3, <2>2, RestKeeps DEF Publishing, Indexing, Indexed
<1>5. ASSUME Places(p), NEW changed \in Seq(Manifest), NEW uploads,
             Prepare(p, changed, uploads), KeepsDue(p, changed)
      PROVE  KeepInv'
  <2> DEFINE updated == UpdateManifests(rel[p], changed)
             missing == MissingManifests(updated)
             final == UpdateManifests(updated, missing)
             artifacts == Artifacts(changed \o missing)
  <2>1. /\ rel' = [rel EXCEPT ![p] = final]
        /\ batches' = [batches EXCEPT ![p] = <<artifacts>>]
        /\ pc' = [pc EXCEPT ![p] = "packages"]
        /\ outcome' = outcome
    BY <1>5 DEF Prepare, Goto
  <2>2. ASSUME NEW n \in IndexNames, NEW e \in AllEntries,
               Acknowledged(p, n, e) \/ Promises(p, n, e)
        PROVE  /\ Has(final.files[n], e)
               /\ \A a \in ToSet(artifacts) : a.name = n => Sole(a.body, e)
               /\ (\E m \in ToSet(changed) : Lists(m, n))
                    => \E i \in DOMAIN artifacts : artifacts[i].name = n
    <3> DEFINE plain == <<n[1], n[2], "Packages">>
    <3>1. rel[p] \in Releases
      BY <1>1
    <3>2. \A m \in ToSet(changed) : Lists(m, n) => Sole(m.packages, e)
      BY <1>5, <2>2 DEF KeepsDue
    <3>3. plain \in IndexNames
      BY PlainName DEF IndexNames
    <3>4. Acknowledged(p, n, e) => Has(rel[p].files[n], e) /\ Has(rel[p].files[plain], e)
      <4>1. Acknowledged(p, n, e) => Acknowledged(p, plain, e)
        BY DEF Acknowledged, Promises
      <4>2. QED
        BY <1>1, <1>2, <3>3, <4>1 DEF RunKeeps, Due, Carries
    <3>5. \/ /\ Has(rel[p].files[n], e)
             /\ Has(rel[p].files[<<n[1], n[2], "Packages">>], e)
          \/ \E m \in ToSet(changed) : Lists(m, n)
      BY <1>5, <2>2, <3>4 DEF KeepsDue
    <3> HIDE DEF plain
    <3>6. Prepared(rel[p], changed, n, e)
      BY <3>1, <3>2, <3>5, PreparedKeeps
    <3>7. QED
      BY <3>6 DEF Prepared
  <2> HIDE DEF updated, missing, final, artifacts
  <2>3. /\ rel'[p] = final /\ batches'[p] = <<artifacts>> /\ pc'[p] = "packages"
        /\ Calm(p) /\ Changing(p)' = Changing(p) /\ Codename(p)' = c
    BY <1>1, <1>2, <2>1 DEF Calm, Bystanders, Aside, Changing, Codename
  <2>4. Len(batches'[p]) = 1 /\ Batch(p)' = artifacts
    BY <2>3 DEF Batch
  <2>5. ASSUME NEW n \in IndexNames, NEW e \in AllEntries, Due(p, n, e)'
        PROVE  Carries(p, n, e)'
    <3>1. Acknowledged(p, n, e) \/ Promises(p, n, e)
      BY <1>2, <2>1, <2>5, PromisesStay DEF Due, Acknowledged
    <3>2. /\ Has(final.files[n], e)
          /\ \A a \in ToSet(artifacts) : a.name = n => Sole(a.body, e)
          /\ (\E m \in ToSet(changed) : Lists(m, n))
               => \E i \in DOMAIN artifacts : artifacts[i].name = n
      BY <2>2, <3>1
    <3>3. \A i \in DOMAIN artifacts : artifacts[i].name = n => Sole(artifacts[i].body, e)
      BY <3>2 DEF ToSet
    <3>4. Has(index'[c][n], e) \/ Unwritten(p, n)'
      <4>1. CASE Acknowledged(p, n, e)
        BY <1>2, <4>1, AcknowledgedStored DEF KeepHypotheses
      <4>2. CASE Promises(p, n, e)
        <5>1. \E m \in ToSet(changed) : Lists(m, n)
          BY <1>5, <4>2 DEF KeepsDue
        <5>2. QED
          BY <2>3, <2>4, <3>2, <5>1 DEF Unwritten
      <4>3. QED
        BY <3>1, <4>1, <4>2
    <3>5. QED
      BY <2>3, <2>4, <3>2, <3>3, <3>4 DEF Carries, Indexing, Indexed
  <2>6. Places(p)' /\ PlacesRead(p)'
    BY <1>2, <1>5, <2>3 DEF Places, PlacesRead
  <2>7. RunKeeps(p)'
    BY <1>2, <1>3, <2>3, <2>4, <2>5, <2>6 DEF RunKeeps
  <2>8. QED
    BY <2>3, <2>7, CalmKeeps
<1>6. QED
  BY <1>4, <1>5, DecidesKeep

\* Until the first canonical index is written, what the batch says still stands.
LEMMA BeforeCanonicalKeeps ==
  ASSUME KeepHypotheses, NEW p \in Runs, UNCHANGED reading,
         PutPackage(p) \/ PackagesDone(p) \/ PutByHash(p) \/ ByHashDone(p)
  PROVE  KeepInv'
<1> USE DEF Goto, store, memory, reading
<1>1. /\ TypeOK /\ RunKeeps(p) /\ pc \in [Runs -> Labels] /\ outcome \in [Runs -> Outcomes]
      /\ batches \in [Runs -> Seq(Seq(Artifact))] /\ at \in [Runs -> Nat \ {0}]
  BY DEF KeepHypotheses, TypeInv, TypeOK, KeepInv
<1>2. /\ pc[p] \in {"packages", "byHash"}
      /\ UNCHANGED <<index, release, job, rel, batches, manifests, todo, kept>>
      /\ at' = at \/ \E i : at' = [at EXCEPT ![p] = i]
  BY DEF PutPackage, PackagesDone, PutByHash, ByHashDone
<1>3. Changing(p) /\ Places(p) /\ Len(batches[p]) = 1
  BY <1>1, <1>2 DEF RunKeeps, WritingLabels, Publishing, Indexing
<1>4. batches[p] # <<>> /\ Batch(p) \in Seq(Artifact)
  <2>1. batches[p] \in Seq(Seq(Artifact))
    BY <1>1
  <2>2. batches[p] # <<>>
    <3>1. Len(<<>>) = 0
      OBVIOUS
    <3>2. QED
      BY <1>3, <3>1
  <2>3. QED
    BY <2>1, <2>2 DEF Batch
<1>5. \/ /\ \E label \in {"unlock", "ended"} : pc' = [pc EXCEPT ![p] = label]
         /\ outcome' = [outcome EXCEPT ![p] = "error"]
      \/ /\ \E label \in {"packages", "byHash"} : pc' = [pc EXCEPT ![p] = label]
         /\ outcome' = outcome
      \/ /\ pc' = [pc EXCEPT ![p] = "canonical"] /\ at' = [at EXCEPT ![p] = 1]
         /\ outcome' = outcome
  <2>1. pc' = pc => \E label \in {"packages", "byHash"} : pc' = [pc EXCEPT ![p] = label]
    BY <1>1, <1>2
  <2>2. QED
    BY <1>4, <2>1 DEF PutPackage, PackagesDone, PutByHash, ByHashDone, Finish
<1>6. /\ \/ pc'[p] \in {"unlock", "ended"} /\ outcome'[p] = "error"
         \/ pc'[p] \in {"packages", "byHash"} /\ outcome' = outcome
         \/ pc'[p] = "canonical" /\ at'[p] = 1 /\ outcome' = outcome
      /\ \A q \in Runs \ {p} :
           pc'[q] = pc[q] /\ at'[q] = at[q] /\ outcome'[q] = outcome[q]
  BY <1>1, <1>2, <1>5
<1>7. /\ Calm(p) /\ Changing(p)' = Changing(p) /\ Batch(p)' = Batch(p)
      /\ Codename(p)' = Codename(p)
  BY <1>2, <1>6 DEF Calm, Bystanders, Aside, Changing, Batch, Codename
<1>8. \A m \in ToSet(manifests'[p]) : m.component = job[p].component
  BY <1>1, <1>2 DEF RunKeeps
<1>9. CASE pc'[p] \in {"unlock", "ended"}
  BY <1>7, <1>8, <1>9, RestKeeps DEF Publishing, Indexing, Indexed
<1>10. CASE pc'[p] \in Indexing
  <2>1. outcome' = outcome
    BY <1>6, <1>10 DEF Indexing
  <2>2. ASSUME NEW n \in IndexNames, NEW e \in AllEntries, Due(p, n, e)'
        PROVE  Carries(p, n, e)'
    <3>1. Due(p, n, e)
      BY <1>2, <2>1, <2>2, DueBefore DEF Publishing, Indexing
    <3>2. Carries(p, n, e)
      BY <1>1, <1>2, <1>3, <3>1 DEF RunKeeps, Publishing, Indexing
    <3>3. \A i \in DOMAIN Batch(p) : i >= 1
      BY <1>4
    <3>4. Unwritten(p, n) => Unwritten(p, n)'
      BY <1>6, <1>7, <1>10, <3>3 DEF Unwritten, Indexing
    <3>5. QED
      BY <1>2, <1>7, <1>10, <3>2, <3>4 DEF Carries, Indexing, Indexed
  <2>3. Places(p)' /\ PlacesRead(p)'
    BY <1>2, <1>3, <1>10 DEF Places, PlacesRead, Indexing
  <2>4. RunKeeps(p)'
    BY <1>2, <1>3, <1>7, <1>8, <1>10, <2>2, <2>3 DEF RunKeeps, Indexing
  <2>5. QED
    BY <1>7, <2>4, CalmKeeps
<1>11. QED
  BY <1>6, <1>9, <1>10 DEF Indexing

\* A canonical index that is written has what is due.
LEMMA PutCanonicalKeeps ==
  ASSUME KeepHypotheses, NEW p \in Runs, UNCHANGED reading, PutCanonical(p)
  PROVE  KeepInv'
<1> USE DEF Goto, store, memory, reading
<1> DEFINE c == Codename(p)
           a == Batch(p)[at[p]]
<1>1. /\ TypeOK /\ RunKeeps(p) /\ RunOK(p) /\ c \in Codenames
      /\ batches \in [Runs -> Seq(Seq(Artifact))] /\ at \in [Runs -> Nat \ {0}]
      /\ index \in [Codenames -> [IndexNames -> {NoObject} \cup Packages]]
  BY CodenameType DEF KeepHypotheses, TypeInv, TypeOK, RunsOK, KeepInv
<1>2. /\ pc[p] = "canonical" /\ ArtifactsLeft(p)
      /\ index' = [index EXCEPT ![c][a.name] = a.body]
      /\ at' = [at EXCEPT ![p] = @ + 1]
      /\ UNCHANGED <<pc, release, job, rel, batches, manifests, todo, kept, outcome>>
  BY DEF PutCanonical
<1>3. Changing(p) /\ Places(p) /\ Len(batches[p]) = 1 /\ batches[p] # <<>>
  BY <1>1, <1>2 DEF RunKeeps, WritingLabels, Publishing, Indexing, RunOK
<1>4. Batch(p) \in Seq(Artifact) /\ at[p] \in DOMAIN Batch(p)
  <2>1. Batch(p) \in Seq(Artifact)
    BY <1>1, <1>3 DEF Batch
  <2>2. QED
    BY <1>1, <1>2, <2>1 DEF ArtifactsLeft
<1>5. a.name \in IndexNames /\ a.body # NoObject
  <2>1. a \in Artifact
    BY <1>4
  <2>2. QED
    BY <2>1, ObjectsAssumption DEF Artifact
<1>6. ASSUME NEW n \in IndexNames, NEW e \in AllEntries, Due(p, n, e)
      PROVE  Carries(p, n, e) /\ (n = a.name => Sole(a.body, e))
  <2>1. Carries(p, n, e)
    BY <1>1, <1>2, <1>3, <1>6 DEF RunKeeps, Publishing, Indexing
  <2>2. QED
    BY <1>2, <1>4, <2>1 DEF Carries, Indexing
<1> HIDE DEF a
<1>7. /\ index'[c][a.name] = a.body
      /\ \A n \in IndexNames \ {a.name} : index'[c][n] = index[c][n]
      /\ \A d \in Codenames \ {c} : index'[d] = index[d]
  BY <1>1, <1>2, <1>5
<1>8. /\ Bystanders(p) /\ Changing(p)' = Changing(p) /\ Batch(p)' = Batch(p)
      /\ Codename(p)' = c /\ at'[p] = at[p] + 1
  BY <1>1, <1>2 DEF Bystanders, Aside, Changing, Batch, Codename
<1>9. Contained(p)
  BY <1>2, <1>3, <1>7 DEF Contained, Working, Labels
<1>10. ASSUME NEW n \in IndexNames, NEW e \in AllEntries, Due(p, n, e)'
       PROVE  Carries(p, n, e)'
  <2>1. Due(p, n, e)
    BY <1>2, <1>10, DueBefore
  <2>2. Carries(p, n, e)
    BY <1>6, <2>1
  <2>3. Has(index'[c][n], e) \/ Unwritten(p, n)'
    <3>1. CASE n = a.name
      BY <1>5, <1>6, <1>7, <2>1, <3>1 DEF Has
    <3>2. CASE n # a.name /\ Has(index[c][n], e)
      BY <1>7, <3>2
    <3>3. CASE n # a.name /\ Unwritten(p, n)
      <4>1. PICK i \in DOMAIN Batch(p) : Batch(p)[i].name = n /\ i >= at[p]
        BY <1>2, <3>3 DEF Unwritten
      <4>2. i # at[p]
        BY <3>3, <4>1 DEF a
      <4>3. i \in Nat /\ at[p] \in Nat
        BY <1>1, <1>4
      <4>4. i >= at[p] + 1
        BY <4>1, <4>2, <4>3
      <4>5. QED
        BY <1>8, <4>1, <4>4 DEF Unwritten
    <3>4. QED
      BY <1>2, <2>2, <3>1, <3>2, <3>3 DEF Carries, Indexing
  <2>4. QED
    BY <1>2, <1>8, <2>2, <2>3 DEF Carries, Indexing, Indexed
<1>11. RunKeeps(p)'
  BY <1>1, <1>2, <1>3, <1>8, <1>10 DEF RunKeeps, PlacesRead, Places
<1>12. ASSUME NEW d \in Codenames, NEW q \in Runs, NEW n \in IndexNames, NEW e \in AllEntries,
              d = c, d = Codename(q), outcome'[q] = "ok", Promises(q, n, e)
       PROVE  Has(index'[d][n], e) /\ Has(Contents(d)'[n], e)
  <2>1. Acknowledged(p, n, e)
    BY <1>2, <1>12 DEF Acknowledged
  <2>2. Has(index[c][n], e) /\ Has(Contents(c)[n], e)
    BY <2>1, AcknowledgedStored DEF KeepHypotheses
  <2>3. n = a.name => Sole(a.body, e)
    BY <1>6, <2>1 DEF Due
  <2>4. Has(index'[c][n], e)
    BY <1>5, <1>7, <2>2, <2>3 DEF Has
  <2>5. QED
    BY <1>2, <1>12, <2>2, <2>4 DEF Contents
<1>13. QED
  BY <1>8, <1>9, <1>11, <1>12, StepKeeps

\* After the last one the indexes have all that is due.
LEMMA CanonicalDoneKeeps ==
  ASSUME KeepHypotheses, NEW p \in Runs, UNCHANGED reading, CanonicalDone(p)
  PROVE  KeepInv'
<1> USE DEF Goto, store, memory, reading
<1>1. /\ TypeOK /\ RunKeeps(p) /\ RunOK(p) /\ pc \in [Runs -> Labels]
      /\ batches \in [Runs -> Seq(Seq(Artifact))] /\ at \in [Runs -> Nat \ {0}]
  BY DEF KeepHypotheses, TypeInv, TypeOK, RunsOK, KeepInv
<1>2. /\ pc[p] = "canonical" /\ ~ArtifactsLeft(p)
      /\ batches' = [batches EXCEPT ![p] = Tail(@)]
      /\ at' = [at EXCEPT ![p] = 1]
      /\ UNCHANGED <<index, release, job, rel, manifests, todo, kept, outcome>>
  BY DEF CanonicalDone
<1>3. Changing(p) /\ Places(p) /\ Len(batches[p]) = 1 /\ batches[p] # <<>>
  BY <1>1, <1>2 DEF RunKeeps, WritingLabels, Publishing, Indexing, RunOK
<1>4. batches'[p] = <<>>
  <2>1. batches[p] \in Seq(Seq(Artifact))
    BY <1>1
  <2>2. Tail(batches[p]) \in Seq(Seq(Artifact)) /\ Len(Tail(batches[p])) = 0
    BY <1>3, <2>1, HeadTailProperties
  <2>3. Tail(batches[p]) = <<>>
    BY <2>2, EmptySeq
  <2>4. QED
    BY <1>1, <1>2, <2>3
<1>5. /\ pc'[p] \in {"sign", "deleteGpg"}
      /\ \A q \in Runs \ {p} : pc'[q] = pc[q]
  BY <1>1, <1>4 DEF CanonicalDone, AfterIndexes
<1>6. Calm(p) /\ Changing(p)' = Changing(p) /\ Codename(p)' = Codename(p)
  BY <1>1, <1>2, <1>5 DEF Calm, Bystanders, Aside, Changing, Codename
<1>7. \A i \in DOMAIN Batch(p) : ~(i >= at[p])
  <2>1. Batch(p) \in Seq(Artifact)
    BY <1>1, <1>3 DEF Batch
  <2>2. QED
    BY <1>1, <1>2, <2>1 DEF ArtifactsLeft
<1>8. ASSUME NEW n \in IndexNames, NEW e \in AllEntries, Due(p, n, e)'
      PROVE  Carries(p, n, e)'
  <2>1. Due(p, n, e)
    BY <1>2, <1>8, DueBefore DEF Publishing, Indexing
  <2>2. Carries(p, n, e)
    BY <1>1, <1>2, <1>3, <2>1 DEF RunKeeps, Publishing, Indexing
  <2>3. Has(index[Codename(p)][n], e)
    BY <1>2, <1>7, <2>2 DEF Carries, Indexing, Unwritten
  <2>4. QED
    BY <1>2, <1>5, <1>6, <2>2, <2>3 DEF Carries, Indexing
<1>9. RunKeeps(p)'
  BY <1>1, <1>2, <1>3, <1>5, <1>6, <1>8 DEF RunKeeps, PlacesRead, Places, Indexing
<1>10. QED
  BY <1>6, <1>9, CalmKeeps

\* Signatures do not matter to it, but an upload succeeds with the last one.
LEMMA SigningKeeps ==
  ASSUME KeepHypotheses, NEW p \in Runs, UNCHANGED reading,
         \/ Sign(p) \/ DeleteReleaseGpg(p) \/ DeleteInRelease(p)
         \/ PutReleaseGpg(p) \/ PutInRelease(p)
  PROVE  KeepInv'
<1> USE DEF Goto, store, memory, reading
<1>1. /\ TypeOK /\ RunKeeps(p) /\ pc \in [Runs -> Labels] /\ outcome \in [Runs -> Outcomes]
  BY DEF KeepHypotheses, TypeInv, TypeOK, KeepInv
<1>2. UNCHANGED <<index, release, job, rel, batches, at, manifests, todo, kept>>
  BY DEF Sign, DeleteReleaseGpg, DeleteInRelease, PutReleaseGpg, PutInRelease
<1>3. \/ /\ pc[p] \in {"sign", "deleteGpg", "deleteInRelease", "putGpg"}
         /\ \E label \in {"deleteInRelease", "putRelease", "putInRelease"} :
              pc' = [pc EXCEPT ![p] = label]
              /\ (label = "putInRelease" => pc[p] = "putGpg")
         /\ outcome' = outcome
      \/ /\ pc[p] = "putInRelease"
         /\ \E label \in {"unlock", "ended"} : pc' = [pc EXCEPT ![p] = label]
         /\ outcome' = [outcome EXCEPT ![p] = "ok"]
  BY DEF Sign, DeleteReleaseGpg, DeleteInRelease, PutReleaseGpg, PutInRelease, Finish
<1>4. /\ \/ /\ pc[p] \in {"sign", "deleteGpg", "deleteInRelease", "putGpg"}
            /\ pc'[p] \in {"deleteInRelease", "putRelease", "putInRelease"}
            /\ pc'[p] = "putInRelease" => pc[p] = "putGpg"
            /\ outcome' = outcome
         \/ /\ pc[p] = "putInRelease" /\ pc'[p] \in {"unlock", "ended"}
      /\ \A q \in Runs \ {p} : pc'[q] = pc[q] /\ outcome'[q] = outcome[q]
  BY <1>1, <1>3
<1>5. Changing(p) /\ Places(p) /\ pc[p] \in Publishing
  BY <1>1, <1>4 DEF RunKeeps, WritingLabels, Publishing, Indexing, Indexed
<1>6. /\ Bystanders(p) /\ Changing(p)' = Changing(p) /\ Codename(p)' = Codename(p)
      /\ Contained(p)
  BY <1>2, <1>4, <1>5
  DEF Bystanders, Contained, Aside, Changing, Codename, Working, Labels, Publishing,
      Indexing, Indexed
<1>7. ASSUME pc'[p] \in Publishing, NEW n \in IndexNames, NEW e \in AllEntries, Due(p, n, e)'
      PROVE  Carries(p, n, e)'
  <2>1. outcome' = outcome
    BY <1>4, <1>7 DEF Publishing, Indexing, Indexed
  <2>2. Due(p, n, e)
    BY <1>2, <1>5, <1>7, <2>1, DueBefore
  <2>3. Carries(p, n, e)
    BY <1>1, <1>5, <2>2 DEF RunKeeps
  <2>4. QED
    BY <1>2, <1>4, <1>6, <1>7, <2>3
    DEF Carries, Contents, Publishing, Indexing, Indexed
<1>8. Places(p)' /\ PlacesRead(p)'
  BY <1>2, <1>4, <1>5 DEF Places, PlacesRead
<1>9. RunKeeps(p)'
  BY <1>1, <1>2, <1>4, <1>5, <1>6, <1>7, <1>8 DEF RunKeeps, Indexing
<1>10. ASSUME NEW d \in Codenames, NEW q \in Runs, NEW n \in IndexNames, NEW e \in AllEntries,
              d = Codename(p), d = Codename(q), outcome'[q] = "ok", Promises(q, n, e)
       PROVE  Has(index'[d][n], e) /\ Has(Contents(d)'[n], e)
  <2>1. CASE outcome[q] = "ok"
    <3>1. Acknowledged(p, n, e)
      BY <1>10, <2>1 DEF Acknowledged
    <3>2. Has(index[d][n], e) /\ Has(Contents(d)[n], e)
      BY <1>10, <3>1, AcknowledgedStored DEF KeepHypotheses
    <3>3. QED
      BY <1>2, <3>2 DEF Contents
  <2>2. CASE outcome[q] # "ok"
    <3>1. q = p /\ pc[p] = "putInRelease"
      BY <1>4, <1>10, <2>2
    <3>2. Due(p, n, e)
      BY <1>5, <1>10, <3>1 DEF Due
    <3>3. Has(index[d][n], e) /\ Has(Contents(d)[n], e)
      BY <1>1, <1>5, <1>10, <3>1, <3>2 DEF RunKeeps, Carries
    <3>4. QED
      BY <1>2, <3>3 DEF Contents
  <2>3. QED
    BY <2>1, <2>2
<1>11. QED
  BY <1>6, <1>9, <1>10, StepKeeps

\* The Release that is stored lists all that is due, and without a key the
\* upload has succeeded with it.
LEMMA PutReleaseKeeps ==
  ASSUME KeepHypotheses, NEW p \in Runs, UNCHANGED reading, PutRelease(p)
  PROVE  KeepInv'
<1> USE DEF Goto, store, memory, reading
<1> DEFINE c == Codename(p)
<1>1. /\ TypeOK /\ RunKeeps(p) /\ pc \in [Runs -> Labels] /\ c \in Codenames
      /\ outcome \in [Runs -> Outcomes]
      /\ release \in [Codenames -> {NoObject} \cup Releases]
      /\ Rendered(p) \in Releases /\ rel[p] \in Releases
  BY CodenameType, RenderedType DEF KeepHypotheses, TypeInv, TypeOK, KeepInv
<1>2. /\ pc[p] = "putRelease"
      /\ release' = [release EXCEPT ![c] = Rendered(p)]
      /\ UNCHANGED <<index, job, rel, batches, at, manifests, todo, kept>>
      /\ \/ pc' = [pc EXCEPT ![p] = "putGpg"] /\ outcome' = outcome
         \/ /\ \E label \in {"unlock", "ended"} : pc' = [pc EXCEPT ![p] = label]
            /\ outcome' = [outcome EXCEPT ![p] = "ok"]
  BY DEF PutRelease, Finish
<1>3. /\ \/ pc'[p] = "putGpg" /\ outcome' = outcome
         \/ pc'[p] \in {"unlock", "ended"}
      /\ \A q \in Runs \ {p} : pc'[q] = pc[q] /\ outcome'[q] = outcome[q]
  BY <1>1, <1>2
<1>4. /\ Changing(p) /\ Places(p) /\ pc[p] \in Publishing
  BY <1>1, <1>2 DEF RunKeeps, WritingLabels, Publishing, Indexed
<1>5. /\ release'[c] = Rendered(p)
      /\ \A d \in Codenames \ {c} : release'[d] = release[d]
  BY <1>1, <1>2
<1>6. /\ Bystanders(p) /\ Changing(p)' = Changing(p) /\ Codename(p)' = c /\ Contained(p)
  BY <1>2, <1>3, <1>4, <1>5
  DEF Bystanders, Contained, Aside, Changing, Codename, Working, Labels
<1>7. \A d : d = c => Contents(d)' = rel[p].files
  BY <1>1, <1>5, ObjectsAssumption DEF Contents, Rendered, Releases
<1>8. ASSUME NEW n \in IndexNames, NEW e \in AllEntries, Due(p, n, e)
      PROVE  Has(index[c][n], e) /\ Has(rel[p].files[n], e)
  BY <1>1, <1>2, <1>4, <1>8 DEF RunKeeps, Carries, Indexed
<1>9. ASSUME pc'[p] = "putGpg", NEW n \in IndexNames, NEW e \in AllEntries, Due(p, n, e)'
      PROVE  Carries(p, n, e)'
  <2>1. Due(p, n, e)
    BY <1>2, <1>3, <1>4, <1>9, DueBefore
  <2>2. Has(index[c][n], e) /\ Has(rel[p].files[n], e)
    BY <1>8, <2>1
  <2>3. \A d : d = c => Has(Contents(d)'[n], e)
    BY <1>7, <2>2
  <2>4. \A d : d = c => Codename(p)' = d
    BY <1>6
  <2>5. Has(rel'[p].files[n], e) /\ Has(index'[Codename(p)'][n], e)
    BY <1>2, <1>6, <2>2
  <2>6. Has(Contents(Codename(p))'[n], e)
    BY <1>6, <2>3 DEF Contents
  <2>7. QED
    BY <1>9, <2>5, <2>6 DEF Carries, Indexing, Indexed
<1>10. Places(p)' /\ PlacesRead(p)'
  BY <1>2, <1>3, <1>4 DEF Places, PlacesRead
<1>11. RunKeeps(p)'
  BY <1>1, <1>2, <1>3, <1>4, <1>6, <1>9, <1>10
  DEF RunKeeps, Indexing, Indexed, Publishing
<1>12. ASSUME NEW d \in Codenames, NEW q \in Runs, NEW n \in IndexNames, NEW e \in AllEntries,
              d = c, d = Codename(q), outcome'[q] = "ok", Promises(q, n, e)
       PROVE  Has(index'[d][n], e) /\ Has(Contents(d)'[n], e)
  <2>1. Due(p, n, e)
    BY <1>3, <1>4, <1>12 DEF Due, Acknowledged
  <2>2. QED
    BY <1>2, <1>7, <1>8, <1>12, <2>1
<1>13. QED
  BY <1>6, <1>11, <1>12, StepKeeps

---------------------------------------------------------------------------
(* The theorem on uploads *)

\* Steps that change nothing of what the invariant is about keep it.
LEMMA IdleKeeps ==
  ASSUME KeepInv, UNCHANGED <<index, release, pc, job, outcome, rel, batches, at,
                              manifests, todo, kept>>
  PROVE  KeepInv'
<1>1. /\ \A p : Codename(p)' = Codename(p) /\ (Changing(p)' <=> Changing(p))
      /\ \A p : Batch(p)' = Batch(p) /\ (Places(p)' <=> Places(p))
      /\ \A p, n, e : Promises(p, n, e)' <=> Promises(p, n, e)
      /\ \A c : Contents(c)' = Contents(c)
  BY DEF Codename, Changing, Batch, Places, Promises, Retracted, Contents
<1>2. StoreKeeps'
  BY <1>1 DEF KeepInv, StoreKeeps
<1>3. ASSUME NEW p \in Runs PROVE RunKeeps(p)'
  <2>1. RunKeeps(p)
    BY DEF KeepInv
  <2>2. \A n, e : Due(p, n, e)' <=> Due(p, n, e)
    BY <1>1 DEF Due, Acknowledged
  <2>3. \A n : Unwritten(p, n)' <=> Unwritten(p, n)
    BY <1>1 DEF Unwritten
  <2>4. \A n, e : Carries(p, n, e)' <=> Carries(p, n, e)
    BY <1>1, <2>3 DEF Carries
  <2>5. PlacesRead(p)'
    BY <2>1 DEF RunKeeps, PlacesRead
  <2>6. QED
    BY <1>1, <2>1, <2>2, <2>4, <2>5 DEF RunKeeps
<1>4. QED
  BY <1>2, <1>3 DEF KeepInv

\* The invariant holds initially: nothing is acknowledged.
LEMMA InitKeeps == Init => KeepInv
<1> SUFFICES ASSUME Init PROVE KeepInv
  OBVIOUS
<1>1. StoreKeeps
  BY DEF Init, StoreKeeps
<1>2. ASSUME NEW p \in Runs PROVE RunKeeps(p)
  <2>1. pc[p] = "start" /\ outcome[p] = "none" /\ ToSet(manifests[p]) = {}
    <3>1. DOMAIN <<>> = {}
      OBVIOUS
    <3>2. QED
      BY <3>1 DEF Init, ToSet
  <2>2. QED
    BY <2>1 DEF RunKeeps, PlacesRead, WritingLabels, Publishing, Indexing, Indexed
<1>3. QED
  BY <1>1, <1>2 DEF KeepInv

\* Every step keeps the invariant.
LEMMA NextKeeps ==
  ASSUME Fenced, KeepHypotheses, [Next]_vars
  PROVE  KeepInv'
<1>1. KeepInv
  BY DEF KeepHypotheses
<1>2. ASSUME NEW p \in Runs, Proceed(p) PROVE KeepInv'
  <2>1. CASE Publish(p) /\ UNCHANGED reading
    BY <2>1, BeforeCanonicalKeeps, PutCanonicalKeeps, CanonicalDoneKeeps,
       SigningKeeps, PutReleaseKeeps DEF Publish
  <2>2. CASE DecideUpload(p) \/ DecideCopy(p) \/ DecideDelete(p) \/ DecideVerify(p)
    BY <2>2, DecideKeeps
  <2>3. CASE RetrieveSource(p) \/ RetrieveRelease(p) \/ RetrieveManifest(p)
    BY <2>3, RetrieveSourceKeeps, RetrieveReleaseKeeps, RetrieveManifestKeeps
  <2>4. QED
    BY <1>2, <2>1, <2>2, <2>3, QuietKeeps, LoopKeeps DEF Proceed
<1>3. ASSUME NEW p \in Runs, Disturb(p) PROVE KeepInv'
  BY <1>3, QuietKeeps DEF Disturb
<1>4. \A p \in Runs : ~LateCall(p)
  BY DEF LateCall, Fenced
<1>5. ASSUME NEW c \in Codenames, BreakLock(c) PROVE KeepInv'
  BY <1>1, <1>5, IdleKeeps DEF BreakLock, memory, reading
<1>6. CASE UNCHANGED vars
  BY <1>1, <1>6, IdleKeeps DEF vars, store, memory, reading
<1>7. QED
  BY <1>2, <1>3, <1>4, <1>5, <1>6 DEF Next, Terminated

\* What is kept includes every package of an upload that succeeded.
LEMMA KeepImplies == ASSUME TypeOK, KeepInv PROVE AcknowledgedUploads
<1> SUFFICES ASSUME NEW p \in Runs, outcome[p] = "ok", job[p].op = "upload",
                    NEW d \in ToSet(job[p].debs), NEW form \in ToSet(Forms),
                    ~Retracted(p, d), NEW c, c = Codename(p),
                    NEW n, n = <<job[p].component, Placement(job[p], d), form>>,
                    NEW e, e = Entry(d, c)
             PROVE  e \in ToSet(index[c][n]) /\ e \in ToSet(release[c].files[n])
  BY DEF AcknowledgedUploads
<1>1. c \in Codenames /\ job[p] \in Jobs
  BY CodenameType, JobType
<1>2. n \in IndexNames
  BY <1>1, JobFacts DEF KeepInv, RunKeeps, Places, IndexNames, IsJob
<1>3. e \in AllEntries /\ Promises(p, n, e)
  BY <1>1 DEF AllEntries, Promises
<1>4. Has(index[c][n], e) /\ Has(Contents(c)[n], e)
  BY <1>2, <1>3 DEF KeepInv, StoreKeeps
<1>5. QED
  BY <1>2, <1>4 DEF Has, Sole, Contents

\* The invariant holds when every command that changes indexes takes the lock
\* and no call is applied after its run has lost it, whatever else fails.
LEMMA KeepInvHolds == ASSUME ChangesUnderLock, Fenced PROVE Spec => []KeepInv
<1>1. Init => TypeInv /\ KeepInv
  BY InitType, InitKeeps
<1>2. TypeInv /\ WorksUnderLock /\ KeepInv /\ [Next]_vars => (TypeInv /\ KeepInv)'
  BY NextType, NextKeeps DEF KeepHypotheses
<1>3. QED
  BY <1>1, <1>2, LockDiscipline, PTL DEF Spec

\* An upload that succeeded is not undone: as long as no other command deletes or
\* replaces its packages, the indexes and the Release list them, whatever is
\* uploaded, copied, deleted and cleaned beside them, and however it fails.
THEOREM UploadsStay ==
  ASSUME ChangesUnderLock, Fenced
  PROVE  Spec => []AcknowledgedUploads
<1>1. TypeInv /\ KeepInv => AcknowledgedUploads
  BY KeepImplies DEF TypeInv
<1>2. Spec => []TypeInv
  BY InitType, NextType, PTL DEF Spec
<1>3. QED
  BY <1>1, <1>2, KeepInvHolds, PTL

---------------------------------------------------------------------------
(* What queries report *)

\* Some upload made the entry.
Own(f) ==
  \E r \in Runs : /\ job[r].op = "upload"
                  /\ \E x \in ToSet(job[r].debs) : f = Entry(x, Codename(r))

Owned(packages) == \A f \in ToSet(packages) : Own(f)

\* So it is with whatever a run has read and whatever it is about to write.
RunOwned(p) ==
  /\ \A m \in ToSet(manifests[p]) : Owned(m.packages)
  /\ Owned(kept[p])
  /\ \A a \in Pending(p) : Owned(a.body)

\* Every entry that is read or written anywhere is the entry of an uploaded
\* package: what list takes for the same entry is the same entry, unless it was
\* uploaded twice.
OwnInv ==
  /\ \A c \in Codenames, n \in IndexNames : Owned(PackagesOf(index[c][n]))
  /\ \A p \in Runs : RunOwned(p)

\* A Release has the architectures of the indexes it lists.
KnowsArchs(r) == \A n \in IndexNames : r.files[n] # NoObject => n[2] \in ToSet(r.archs)

\* So list, which takes them from the Release, reads all of these indexes.
ArchsInv ==
  /\ \A c \in Codenames : release[c] # NoObject => KnowsArchs(release[c])
  /\ \A p \in Runs : KnowsArchs(rel[p])

\* No entry is in the list twice.
Distinct(packages) ==
  \A i \in DOMAIN packages, k \in DOMAIN packages :
    Identical(packages[i], packages[k]) => i = k

\* It was acknowledged before the query was started.
Expects(q, n, e) ==
  /\ n[1] = job[q].component /\ n[3] = "Packages"
  /\ \E p \in Before[q] :
       outcome[p] = "ok" /\ Codename(p) = Codename(q) /\ Promises(p, n, e)

\* And the query asks for it.
Asked(q, n, e) ==
  \/ job[q].op = "list" /\ job[q].arch \in {"", n[2]}
  \/ /\ job[q].op \in {"show", "exists"}
     /\ job[q].arch = n[2] /\ job[q].name = e.name /\ e.version \in job[q].versions

\* Where a query may be; a query that is not over has no outcome.
Stages(q) ==
  /\ job[q].op = "list" =>
       pc[q] \in {"start", "lock", "release", "manifests", "unlock", "ended"}
  /\ job[q].op \in {"show", "exists"} =>
       pc[q] \in {"start", "lock", "lookup", "unlock", "ended"}
  /\ job[q].op \in {"list", "show", "exists"} /\ outcome[q] # "none" =>
       pc[q] \in {"unlock", "ended"}

\* What it expects, a query has found or is still going to read.
Found(q, n, e) ==
  /\ job[q].op = "list" /\ pc[q] = "manifests" =>
       e \in ToSet(kept[q]) \/ n[2] \in ToSet(todo[q])
  /\ job[q].op = "list" /\ outcome[q] \in {"ok", "notFound"} => e \in ToSet(kept[q])
  /\ job[q].op \in {"show", "exists"} /\ outcome[q] \in {"ok", "notFound"} =>
       kept[q] = <<e>>

Answers(q) ==
  /\ Stages(q)
  /\ pc[q] # "start" => \A p \in Before[q] : pc[p] = "ended"
  /\ job[q].op = "list" => Distinct(kept[q])
  /\ pc[q] # "start" =>
       \A n \in IndexNames, e \in AllEntries :
         Expects(q, n, e) /\ Asked(q, n, e) => Found(q, n, e)

AnswersInv == \A q \in Runs : Answers(q)

---------------------------------------------------------------------------
(* Where entries come from *)

\* What is the entry of an uploaded package stays that.
LEMMA OwnStays == ASSUME job' = job PROVE \A f : Own(f)' <=> Own(f)
BY DEF Own, Codename

\* The entries of an upload are its own.
LEMMA EntriesOwned ==
  ASSUME TypeOK, NEW p \in Runs, job[p].op = "upload", NEW arch
  PROVE  Owned(Entries(job[p], arch))
<1>1. job[p] \in Jobs
  BY JobType
<1>2. QED
  BY <1>1, EntriesRange DEF Owned, Own, Codename

\* So an upload adds entries of uploaded packages to those it has read.
LEMMA AddedOwned ==
  ASSUME TypeOK, NEW p \in Runs, job[p].op = "upload", NEW m \in Manifest, Owned(m.packages)
  PROVE  Owned(Added(job[p], m).packages)
<1> DEFINE j == job[p]
           own == Entries(j, m.arch)
           everywhere == IF m.arch = "all" THEN <<>> ELSE Entries(j, "all")
           new == own \o everywhere
<1>1. j \in Jobs
  BY JobType
<1>2. own \in Seq(AllEntries) /\ everywhere \in Seq(AllEntries)
      /\ m.packages \in Seq(AllEntries)
  BY <1>1, EntriesType DEF Manifest, Packages
<1>3. Added(j, m) = AddAll(m.packages, new, j.preserve, j.failIfExists)
  BY DEF Added
<1>4. Owned(own) /\ Owned(everywhere)
  <2>1. DOMAIN <<>> = {}
    OBVIOUS
  <2>2. Owned(Entries(j, "all")) /\ Owned(own)
    BY EntriesOwned
  <2>3. QED
    BY <2>1, <2>2 DEF Owned, ToSet
<1> HIDE DEF own, everywhere
<1>5. new \in Seq(AllEntries) /\ ToSet(new) = ToSet(own) \cup ToSet(everywhere)
  BY <1>2, ConcatRange
<1> HIDE DEF new
<1>6. ToSet(Added(j, m).packages) \subseteq ToSet(m.packages) \cup ToSet(new)
  BY <1>2, <1>3, <1>5, AddAllRange
<1>7. QED
  BY <1>4, <1>5, <1>6 DEF Owned

\* Every decision publishes such entries.
LEMMA DecidesOwned ==
  ASSUME TypeInv, NEW p \in Runs, RunOwned(p),
         DecideUpload(p) \/ DecideCopy(p) \/ DecideDelete(p) \/ DecideVerify(p)
  PROVE  \E op : /\ Decide(p, op)
                 /\ \/ \E changed \in Seq(Manifest) : \E uploads :
                         /\ Prepare(p, changed, uploads)
                         /\ \A m \in ToSet(changed) : Owned(m.packages)
                    \/ PrepareRelease(p)
                    \/ \E how : Nothing(p, how)
<1>1. /\ TypeOK /\ RunOK(p) /\ job[p] \in Jobs /\ manifests[p] \in Seq(Manifest)
      /\ kept[p] \in Packages
  BY JobType DEF TypeInv, RunsOK, TypeOK
<1>2. (\A m \in ToSet(manifests[p]) : Owned(m.packages)) /\ Owned(kept[p])
  BY DEF RunOwned
<1>3. CASE DecideUpload(p)
  <2> DEFINE j == job[p]
             ms == manifests[p]
             added == [i \in DOMAIN ms |-> Added(j, ms[i])]
             changed == [i \in DOMAIN ms |->
                           [ms[i] EXCEPT !.packages = added[i].packages]]
             uploads == Uploads(j, ms)
  <2>1. Decide(p, "upload") /\ (Nothing(p, "error") \/ Prepare(p, changed, uploads))
    BY <1>3 DEF DecideUpload
  <2>2. /\ DOMAIN ms = 1..Len(ms) /\ Len(ms) \in Nat /\ j.op = "upload"
        /\ \A i \in 1..Len(ms) : ms[i] \in Manifest /\ ms[i] \in ToSet(ms)
    BY <1>1, <2>1 DEF ToSet, Decide
  <2>3. ASSUME NEW i \in 1..Len(ms)
        PROVE  changed[i] \in Manifest /\ Owned(changed[i].packages)
    <3>1. ms[i] \in Manifest /\ added[i] = Added(j, ms[i])
      BY <2>2
    <3>2. added[i].packages \in Packages /\ Owned(added[i].packages)
      BY <1>1, <1>2, <2>2, <3>1, AddedType, AddedOwned
    <3>3. changed[i] = [ms[i] EXCEPT !.packages = added[i].packages]
      BY <2>2
    <3> HIDE DEF changed, added
    <3>4. changed[i] \in Manifest /\ changed[i].packages = added[i].packages
      BY <3>1, <3>2, <3>3 DEF Manifest
    <3>5. QED
      BY <3>2, <3>4
  <2>4. changed \in Seq(Manifest) /\ DOMAIN changed = 1..Len(ms)
    <3>1. changed = [i \in 1..Len(ms) |-> changed[i]]
      BY <2>2
    <3> HIDE DEF changed
    <3>2. QED
      BY <2>2, <2>3, <3>1, SequenceType
  <2> HIDE DEF changed, uploads
  <2>5. \A m \in ToSet(changed) : Owned(m.packages)
    BY <2>3, <2>4 DEF ToSet
  <2>6. QED
    BY <2>1, <2>4, <2>5
<1>4. CASE DecideCopy(p)
  <2> DEFINE j == job[p]
             m == manifests[p][1]
             added == AddAll(m.packages, kept[p], j.preserve, j.failIfExists)
             copied == [m EXCEPT !.packages = added.packages]
  <2>1. Decide(p, "copy") /\ (Nothing(p, "error") \/ Prepare(p, <<copied>>, <<>>))
    BY <1>4 DEF DecideCopy
  <2>2. m \in Manifest /\ m \in ToSet(manifests[p])
    <3>1. Len(todo[p]) + Len(manifests[p]) = 1 /\ todo[p] = <<>>
      BY <1>1, <2>1 DEF Decide, RunOK
    <3>2. Len(todo[p]) = 0
      BY <3>1
    <3>3. QED
      BY <1>1, <3>1, <3>2 DEF ToSet
  <2>3. added.packages \in Packages /\ Owned(added.packages)
    <3>1. m.packages \in Seq(AllEntries) /\ kept[p] \in Seq(AllEntries)
      BY <1>1, <2>2 DEF Manifest, Packages
    <3>2. /\ added.packages \in Seq(AllEntries)
          /\ ToSet(added.packages) \subseteq ToSet(m.packages) \cup ToSet(kept[p])
      BY <3>1, AddAllRange
    <3>3. QED
      BY <1>2, <2>2, <3>2 DEF Packages, Owned
  <2> HIDE DEF m, added
  <2>4. copied \in Manifest /\ copied.packages = added.packages
    BY <2>2, <2>3 DEF Manifest
  <2> HIDE DEF copied
  <2>5. <<copied>> \in Seq(Manifest) /\ ToSet(<<copied>>) = {copied}
    BY <2>4 DEF ToSet
  <2>6. QED
    BY <2>1, <2>3, <2>4, <2>5
<1>5. CASE DecideDelete(p)
  <2>1. Decide(p, "delete") /\ (Nothing(p, "error") \/ Prepare(p, manifests[p], <<>>))
    BY <1>5 DEF DecideDelete
  <2>2. QED
    BY <1>1, <1>2, <2>1
<1>6. CASE DecideVerify(p)
  <2>1. /\ Decide(p, "verify")
        /\ Nothing(p, "ok") \/ Prepare(p, manifests[p], <<>>) \/ PrepareRelease(p)
    BY <1>6 DEF DecideVerify
  <2>2. QED
    BY <1>1, <1>2, <2>1
<1>7. QED
  BY <1>3, <1>4, <1>5, <1>6

\* The runs that take no part keep their entries, and so do the indexes.
LEMMA StepOwned ==
  ASSUME OwnInv, job' = job, NEW p \in Runs, RunOwned(p)',
         \A q \in Runs \ {p} :
           manifests'[q] = manifests[q] /\ kept'[q] = kept[q] /\ batches'[q] = batches[q],
         \A c \in Codenames, n \in IndexNames :
           index'[c][n] = index[c][n] \/ Owned(PackagesOf(index'[c][n]))
  PROVE  OwnInv'
<1>1. \A f : Own(f)' <=> Own(f)
  BY OwnStays
<1>2. ASSUME NEW q \in Runs, q # p PROVE RunOwned(q)'
  <2>1. manifests'[q] = manifests[q] /\ kept'[q] = kept[q] /\ Pending(q)' = Pending(q)
    BY <1>2 DEF Pending
  <2>2. RunOwned(q)
    BY DEF OwnInv
  <2>3. QED
    BY <1>1, <2>1, <2>2 DEF RunOwned, Owned
<1>3. ASSUME NEW c \in Codenames, NEW n \in IndexNames
      PROVE  Owned(PackagesOf(index'[c][n]))
  BY <1>3 DEF OwnInv
<1>4. QED
  BY <1>1, <1>2, <1>3 DEF OwnInv, Owned

\* Most steps change nothing of this.
LEMMA IdleOwned ==
  ASSUME OwnInv, UNCHANGED <<index, job, manifests, kept, batches>>
  PROVE  OwnInv'
<1>1. \A f : Own(f)' <=> Own(f)
  BY OwnStays
<1>2. \A q \in Runs : Pending(q)' = Pending(q)
  BY DEF Pending
<1>3. QED
  BY <1>1, <1>2 DEF OwnInv, RunOwned, Owned

\* A run reads what the indexes have.
LEMMA ReadingOwned ==
  ASSUME ChangesUnderLock, TypeInv, OwnInv, NEW p \in Runs,
         RetrieveSource(p) \/ RetrieveManifest(p) \/ ListManifest(p) \/ LookUp(p)
  PROVE  OwnInv'
<1> USE DEF store, memory
<1> DEFINE j == job[p]
           Read(c, n) == PackagesOf(index[c][n])
<1>1. /\ TypeOK /\ RunOK(p) /\ j \in Jobs /\ j \in JobsOf[p] /\ RunOwned(p)
      /\ DOMAIN kept = Runs /\ kept[p] \in Packages
      /\ manifests \in [Runs -> Seq(Manifest)]
  BY JobType DEF TypeInv, RunsOK, TypeOK, OwnInv
<1>2. ASSUME NEW c \in Codenames, NEW n \in IndexNames
      PROVE  Read(c, n) \in Packages /\ Owned(Read(c, n))
  BY <1>1, IndexType DEF OwnInv
<1>3. ASSUME kept' = [kept EXCEPT ![p] = kept'[p]], Owned(kept'[p]),
             UNCHANGED <<index, job, manifests, batches>>
      PROVE  OwnInv'
  <2>1. \A q \in Runs \ {p} : kept'[q] = kept[q]
    BY <1>1, <1>3
  <2>2. Pending(p)' = Pending(p)
    BY <1>3 DEF Pending
  <2>3. RunOwned(p)'
    BY <1>1, <1>3, <2>2, OwnStays DEF RunOwned, Owned
  <2>4. QED
    BY <1>3, <2>1, <2>3, StepOwned
<1>4. CASE RetrieveSource(p)
  <2> DEFINE source == Read(j.source[1], <<j.source[2], j.arch, "Packages">>)
  <2>1. /\ kept' = [kept EXCEPT ![p] = Selected(j, source)]
        /\ UNCHANGED <<index, job, manifests, batches>> /\ pc[p] = "source"
    BY <1>4 DEF RetrieveSource
  <2>2. j.arch \in Archs
    BY <1>1, <2>1, JobFacts DEF RunOK, IsJob
  <2>3. source \in Packages /\ Owned(source)
    BY <1>1, <1>2, <2>2, PlainName, JobFacts
  <2> HIDE DEF source
  <2>4. Owned(Selected(j, source))
    BY <2>3, KeepOnlyFacts DEF Selected, Packages, Owned
  <2>5. kept'[p] = Selected(j, source)
    BY <1>1, <2>1
  <2>6. QED
    BY <1>3, <2>1, <2>4, <2>5
<1>5. CASE LookUp(p)
  <2> DEFINE packages == Read(j.codename, <<j.component, j.arch, "Packages">>)
             found == Selected(j, packages)
  <2>1. /\ kept' = [kept EXCEPT ![p] = IF found = <<>> THEN found ELSE <<Head(found)>>]
        /\ UNCHANGED <<index, job, manifests, batches>> /\ pc[p] = "lookup"
    BY <1>5 DEF LookUp, Codename
  <2>2. j.arch \in Archs
    BY <1>1, <2>1, JobFacts DEF RunOK, IsJob
  <2>3. packages \in Packages /\ Owned(packages)
    BY <1>1, <1>2, <2>2, PlainName, JobFacts
  <2> HIDE DEF packages
  <2>4. found \in Seq(AllEntries) /\ Owned(found)
    BY <2>3, KeepOnlyFacts DEF Selected, Packages, Owned
  <2> HIDE DEF found
  <2>5. kept'[p] = IF found = <<>> THEN found ELSE <<Head(found)>>
    BY <1>1, <2>1
  <2>6. Owned(kept'[p])
    <3>1. found # <<>> => Head(found) \in ToSet(found)
      BY <2>4, HeadTail
    <3>2. \A x : ToSet(<<x>>) = {x}
      BY DEF ToSet
    <3>3. QED
      BY <2>4, <2>5, <3>1, <3>2 DEF Owned
  <2>7. QED
    BY <1>3, <2>1, <2>5, <2>6
<1>6. ASSUME todo[p] # <<>>, j.op # "clean"
      PROVE  Read(j.codename, <<j.component, Head(todo[p]), "Packages">>) \in Packages
             /\ Owned(Read(j.codename, <<j.component, Head(todo[p]), "Packages">>))
  <2>1. todo[p] \in Seq(Archs)
    BY <1>1, <1>6 DEF RunOK
  <2>2. Head(todo[p]) \in Archs
    BY <1>6, <2>1
  <2>3. QED
    BY <1>1, <1>2, <2>2, PlainName, JobFacts
<1>7. CASE ListManifest(p)
  <2> DEFINE packages == Read(j.codename, <<j.component, Head(todo[p]), "Packages">>)
  <2>1. /\ kept' = [kept EXCEPT ![p] = Reported(@, packages)]
        /\ UNCHANGED <<index, job, manifests, batches>>
        /\ todo[p] # <<>> /\ j.op # "clean"
    BY <1>7 DEF ListManifest, Codename
  <2>2. packages \in Packages /\ Owned(packages)
    BY <1>6, <2>1
  <2> HIDE DEF packages
  <2>3. ToSet(Reported(kept[p], packages)) \subseteq ToSet(kept[p]) \cup ToSet(packages)
    BY <1>1, <2>2, ReportedFacts DEF Packages
  <2>4. kept'[p] = Reported(kept[p], packages)
    BY <1>1, <2>1
  <2>5. Owned(kept'[p])
    BY <1>1, <2>2, <2>3, <2>4 DEF Owned, RunOwned
  <2>6. QED
    BY <1>3, <2>1, <2>4, <2>5
<1>8. CASE RetrieveManifest(p)
  <2> DEFINE packages == Read(j.codename, <<j.component, Head(todo[p]), "Packages">>)
             left == IF j.op = "delete"
                     THEN DeletePackage(packages, j.name, j.all, j.versions)
                     ELSE packages
             m == [component |-> j.component, arch |-> Head(todo[p]), packages |-> left]
  <2>1. /\ UNCHANGED <<index, job, kept, batches>>
        /\ todo[p] # <<>> /\ pc[p] = "manifests"
        /\ manifests' = [manifests EXCEPT ![p] =
                           IF j.op = "delete" /\ left = packages THEN @ ELSE Append(@, m)]
    BY <1>8 DEF RetrieveManifest
  <2>2. packages \in Packages /\ Owned(packages)
    BY <1>1, <1>6, <2>1 DEF RunOK
  <2>3. m.packages = left
    OBVIOUS
  <2> HIDE DEF packages
  <2>4. Owned(left)
    BY <2>2, KeepOnlyFacts DEF DeletePackage, Packages, Owned
  <2> HIDE DEF left, m
  <2>5. /\ \A q \in Runs \ {p} : manifests'[q] = manifests[q]
        /\ manifests'[p] = manifests[p] \/ manifests'[p] = Append(manifests[p], m)
    BY <1>1, <2>1
  <2>6. ToSet(manifests'[p]) \subseteq ToSet(manifests[p]) \cup {m}
    <3>1. manifests[p] \in Seq(Manifest)
      BY <1>1
    <3>2. QED
      BY <2>5, <3>1, AppendRange
  <2>7. Pending(p)' = Pending(p)
    BY <2>1 DEF Pending
  <2>8. RunOwned(p)'
    BY <1>1, <2>1, <2>3, <2>4, <2>6, <2>7, OwnStays DEF RunOwned, Owned
  <2>9. QED
    BY <2>1, <2>5, <2>8, StepOwned
<1>9. QED
  BY <1>4, <1>5, <1>7, <1>8

\* A decision puts it into the batch.
LEMMA DecideOwned ==
  ASSUME TypeInv, OwnInv, NEW p \in Runs,
         DecideUpload(p) \/ DecideCopy(p) \/ DecideDelete(p) \/ DecideVerify(p)
  PROVE  OwnInv'
<1>1. /\ TypeOK /\ RunOwned(p) /\ DOMAIN batches = Runs
      /\ DOMAIN manifests = Runs /\ DOMAIN kept = Runs
  BY DEF TypeInv, TypeOK, OwnInv
<1>2. PICK op :
        /\ Decide(p, op)
        /\ \/ \E changed \in Seq(Manifest) : \E uploads :
                Prepare(p, changed, uploads) /\ \A m \in ToSet(changed) : Owned(m.packages)
           \/ PrepareRelease(p)
           \/ \E how : Nothing(p, how)
  BY <1>1, DecidesOwned
<1>3. /\ UNCHANGED <<index, job>>
      /\ manifests' = [manifests EXCEPT ![p] = <<>>]
      /\ kept' = [kept EXCEPT ![p] = <<>>]
  BY <1>2 DEF Decide, store
<1>4. ToSet(<<>>) = {}
  <2>1. DOMAIN <<>> = {}
    OBVIOUS
  <2>2. QED
    BY <2>1 DEF ToSet
<1>5. /\ manifests'[p] = <<>> /\ kept'[p] = <<>>
      /\ \A q \in Runs \ {p} : manifests'[q] = manifests[q] /\ kept'[q] = kept[q]
  BY <1>1, <1>3
<1>6. \A q \in Runs \ {p} : batches'[q] = batches[q]
  BY <1>1, <1>2 DEF Prepare, PrepareRelease, Nothing
<1>7. \A a \in Pending(p)' : Owned(a.body)
  <2>1. CASE \E changed \in Seq(Manifest) : \E uploads :
               Prepare(p, changed, uploads) /\ \A m \in ToSet(changed) : Owned(m.packages)
    <3>1. PICK changed \in Seq(Manifest) : \E uploads :
            Prepare(p, changed, uploads) /\ \A m \in ToSet(changed) : Owned(m.packages)
      BY <2>1
    <3>2. PICK uploads :
            Prepare(p, changed, uploads) /\ \A m \in ToSet(changed) : Owned(m.packages)
      BY <3>1
    <3>3. \A a \in Pending(p)' :
            a.body = <<>> \/ \E m \in ToSet(changed) : a.body = m.packages
      BY <1>1, <3>2, PreparedBodies
    <3>4. QED
      BY <1>4, <3>2, <3>3 DEF Owned
  <2>2. CASE PrepareRelease(p)
    BY <1>1, <1>4, <2>2, PreparedReleaseBodies DEF Owned
  <2>3. CASE \E how : Nothing(p, how)
    <3>1. Pending(p)' = Pending(p)
      BY <2>3 DEF Nothing, Pending
    <3>2. QED
      BY <1>1, <3>1 DEF RunOwned
  <2>4. QED
    BY <1>2, <2>1, <2>2, <2>3
<1>8. RunOwned(p)'
  BY <1>3, <1>4, <1>5, <1>7, OwnStays DEF RunOwned, Owned
<1>9. QED
  BY <1>3, <1>5, <1>6, <1>8, StepOwned

\* From there it goes into the indexes.
LEMMA CanonicalOwned ==
  ASSUME TypeInv, OwnInv, NEW p \in Runs, UNCHANGED reading,
         PutCanonical(p) \/ CanonicalDone(p)
  PROVE  OwnInv'
<1> USE DEF store, memory, reading
<1>1. /\ TypeOK /\ RunOK(p) /\ RunOwned(p) /\ Codename(p) \in Codenames
      /\ batches \in [Runs -> Seq(Seq(Artifact))] /\ at \in [Runs -> Nat \ {0}]
      /\ index \in [Codenames -> [IndexNames -> {NoObject} \cup Packages]]
  BY CodenameType DEF TypeInv, TypeOK, RunsOK, OwnInv
<1>2. pc[p] = "canonical" /\ UNCHANGED <<job, manifests, kept>>
  BY DEF PutCanonical, CanonicalDone
<1>3. batches[p] # <<>> /\ batches[p] \in Seq(Seq(Artifact))
  BY <1>1, <1>2 DEF RunOK
<1>4. CASE PutCanonical(p)
  <2> DEFINE a == Batch(p)[at[p]]
  <2>1. /\ index' = [index EXCEPT ![Codename(p)][a.name] = a.body]
        /\ batches' = batches /\ ArtifactsLeft(p)
    BY <1>4 DEF PutCanonical
  <2>2. a.name \in IndexNames /\ a.body \in Packages
    BY <1>1, <1>3, <2>1, ArtifactType
  <2>3. a \in Pending(p)
    <3>1. batches[p][1] \in Seq(Artifact) /\ 1 \in DOMAIN batches[p]
          /\ Batch(p) = batches[p][1]
      BY <1>3 DEF Batch
    <3>2. at[p] \in DOMAIN Batch(p)
      BY <1>1, <2>1, <3>1 DEF ArtifactsLeft
    <3>3. QED
      BY <3>1, <3>2 DEF Pending, ToSet
  <2>4. Owned(PackagesOf(a.body))
    BY <1>1, <2>2, <2>3, ObjectsAssumption DEF RunOwned, PackagesOf
  <2> HIDE DEF a
  <2>5. \A c \in Codenames, n \in IndexNames :
          index'[c][n] = index[c][n] \/ index'[c][n] = a.body
    BY <1>1, <2>1, <2>2
  <2>6. RunOwned(p)'
    <3>1. Pending(p)' = Pending(p)
      BY <2>1 DEF Pending
    <3>2. QED
      BY <1>1, <1>2, <3>1, OwnStays DEF RunOwned, Owned
  <2>7. QED
    BY <1>2, <2>1, <2>4, <2>5, <2>6, StepOwned
<1>5. CASE CanonicalDone(p)
  <2>1. index' = index /\ batches' = [batches EXCEPT ![p] = Tail(@)]
    BY <1>5 DEF CanonicalDone
  <2>2. batches'[p] = Tail(batches[p]) /\ \A q \in Runs \ {p} : batches'[q] = batches[q]
    BY <1>1, <2>1
  <2>3. Pending(p)' \subseteq Pending(p)
    <3>1. \A k \in DOMAIN Tail(batches[p]) :
            k + 1 \in DOMAIN batches[p] /\ Tail(batches[p])[k] = batches[p][k + 1]
      BY <1>3
    <3>2. QED
      BY <2>2, <3>1 DEF Pending
  <2>4. RunOwned(p)'
    BY <1>1, <1>2, <2>3, OwnStays DEF RunOwned, Owned
  <2>5. QED
    BY <1>2, <2>1, <2>2, <2>4, StepOwned
<1>6. QED
  BY <1>4, <1>5

\* Initially there are no entries.
LEMMA InitOwned == Init => OwnInv
<1> SUFFICES ASSUME Init PROVE OwnInv
  OBVIOUS
<1>1. ToSet(<<>>) = {} /\ DOMAIN <<>> = {}
  <2>1. DOMAIN <<>> = {}
    OBVIOUS
  <2>2. QED
    BY <2>1 DEF ToSet
<1>2. \A c \in Codenames, n \in IndexNames : PackagesOf(index[c][n]) = <<>>
  BY DEF Init, PackagesOf
<1>3. \A p \in Runs : manifests[p] = <<>> /\ kept[p] = <<>> /\ Pending(p) = {}
  BY <1>1 DEF Init, Pending
<1>4. QED
  BY <1>1, <1>2, <1>3 DEF OwnInv, RunOwned, Owned

\* Every step keeps that; verify and calls that are applied late are left out.
LEMMA NextOwned ==
  ASSUME ChangesUnderLock, Fenced, TypeInv, OwnInv, [Next]_vars
  PROVE  OwnInv'
<1> USE DEF store, memory, reading
<1>1. ASSUME NEW p \in Runs, Proceed(p) PROVE OwnInv'
  <2>1. ~HeadPackage(p) /\ ~HeadsDone(p)
    BY DEF TypeInv, TypeOK, RunsOK, RunOK, HeadPackage, HeadsDone, ChangesUnderLock
  <2>2. CASE (PutCanonical(p) \/ CanonicalDone(p)) /\ UNCHANGED reading
    BY <2>2, CanonicalOwned
  <2>3. CASE DecideUpload(p) \/ DecideCopy(p) \/ DecideDelete(p) \/ DecideVerify(p)
    BY <2>3, DecideOwned
  <2>4. CASE RetrieveSource(p) \/ RetrieveManifest(p) \/ ListManifest(p) \/ LookUp(p)
    BY <2>4, ReadingOwned
  <2>5. CASE Publish(p) /\ UNCHANGED reading /\ ~PutCanonical(p) /\ ~CanonicalDone(p)
    <3>1. UNCHANGED <<index, job, manifests, kept, batches>>
      BY <2>5 DEF Publish, PutPackage, PackagesDone, PutByHash, ByHashDone, Sign,
         DeleteReleaseGpg, DeleteInRelease, PutRelease, PutReleaseGpg, PutInRelease
    <3>2. QED
      BY <3>1, IdleOwned
  <2>6. CASE \/ Start(p) \/ TakeLock(p) \/ Unlock(p) \/ RetrieveRelease(p) \/ Answer(p)
             \/ ListIndexes(p) \/ ScanIndex(p) \/ ListPool(p)
             \/ DeletePoolObject(p) \/ SweepDone(p)
    <3>1. UNCHANGED <<index, job, manifests, kept, batches>>
      BY <2>6 DEF Start, TakeLock, Unlock, RetrieveRelease, Answer, ListIndexes,
         ScanIndex, ListPool, DeletePoolObject, SweepDone
    <3>2. QED
      BY <3>1, IdleOwned
  <2>7. QED
    BY <1>1, <2>1, <2>2, <2>3, <2>4, <2>5, <2>6 DEF Proceed
<1>2. ASSUME NEW p \in Runs, Disturb(p) PROVE OwnInv'
  <2>1. UNCHANGED <<index, job, manifests, kept, batches>>
    BY <1>2 DEF Disturb, GiveUp, UnlockFails, SigningFails, SignFails, StoreFails, Crash
  <2>2. QED
    BY <2>1, IdleOwned
<1>3. \A p \in Runs : ~LateCall(p)
  BY DEF LateCall, Fenced
<1>4. ASSUME NEW c \in Codenames, BreakLock(c) PROVE OwnInv'
  BY <1>4, IdleOwned DEF BreakLock
<1>5. CASE UNCHANGED vars
  BY <1>5, IdleOwned DEF vars
<1>6. QED
  BY <1>1, <1>2, <1>3, <1>4, <1>5 DEF Next, Terminated

---------------------------------------------------------------------------
(* Which architectures a Release has *)

\* A Release that is updated has the architectures of the manifests it lists.
LEMMA UpdateKnows ==
  ASSUME NEW r \in Releases, KnowsArchs(r), NEW ms \in Seq(Manifest)
  PROVE  KnowsArchs(UpdateManifests(r, ms))
<1> DEFINE u == UpdateManifests(r, ms)
<1>1. ToSet(u.archs) = ToSet(r.archs) \cup {m.arch : m \in ToSet(ms)}
  BY UpdateManifestsFacts
<1>2. \A n \in IndexNames :
        \/ u.files[n] = r.files[n]
        \/ \E m \in ToSet(ms) : Lists(m, n) /\ u.files[n] = m.packages
  BY UpdateManifestsFacts
<1> HIDE DEF u
<1>3. KnowsArchs(u)
  BY <1>1, <1>2 DEF KnowsArchs, Lists
<1>4. QED
  BY <1>3 DEF u

\* The Release in memory keeps them, and so does the one that is stored.
LEMMA NextArchs ==
  ASSUME TypeInv, ArchsInv, [Next]_vars
  PROVE  ArchsInv'
<1> USE DEF store, memory, reading
<1>1. /\ TypeOK /\ rel \in [Runs -> Releases]
      /\ release \in [Codenames -> {NoObject} \cup Releases]
  BY DEF TypeInv, TypeOK
<1>2. ASSUME NEW p \in Runs, KnowsArchs(rel'[p]), release' = release,
             \A q \in Runs \ {p} : rel'[q] = rel[q]
      PROVE  ArchsInv'
  BY <1>2 DEF ArchsInv, KnowsArchs
<1>3. ASSUME UNCHANGED <<rel, release>> PROVE ArchsInv'
  BY <1>3 DEF ArchsInv, KnowsArchs
<1>4. ASSUME NEW p \in Runs, rel' = rel,
             release' = [release EXCEPT ![Codename(p)] = Rendered(p)]
      PROVE  ArchsInv'
  <2>1. \A c \in Codenames : release'[c] \in {release[c], Rendered(p)}
    BY <1>1, <1>4
  <2>2. rel[p] \in Releases /\ Rendered(p) = [rel[p] EXCEPT !.date = p]
    BY <1>1 DEF Rendered
  <2>3. Rendered(p).files = rel[p].files /\ Rendered(p).archs = rel[p].archs
    BY <2>2 DEF Releases
  <2>4. KnowsArchs(Rendered(p))
    BY <2>3 DEF ArchsInv, KnowsArchs
  <2>5. QED
    BY <1>4, <2>1, <2>4 DEF ArchsInv, KnowsArchs
<1>5. ASSUME NEW p \in Runs, RetrieveRelease(p) PROVE ArchsInv'
  <2> DEFINE c == Codename(p)
             r == Retrieved(release[c], job[p].byHash)
  <2>1. /\ rel' = [rel EXCEPT ![p] = r] /\ release' = release
    BY <1>5 DEF RetrieveRelease
  <2>2. c \in Codenames /\ release[c] \in {NoObject} \cup Releases
    BY <1>1, CodenameType
  <2>3. CASE release[c] = NoObject
    <3>1. \A n \in IndexNames : r.files[n] = NoObject
      BY <2>3 DEF Retrieved, NewRelease
    <3>2. KnowsArchs(rel'[p])
      BY <1>1, <2>1, <3>1 DEF KnowsArchs
    <3>3. QED
      BY <1>1, <1>2, <2>1, <3>2
  <2>4. CASE release[c] # NoObject
    <3>1. r.files = release[c].files /\ r.archs = release[c].archs
      BY <2>2, <2>4 DEF Retrieved, Releases
    <3>2. KnowsArchs(release[c])
      BY <2>2, <2>4 DEF ArchsInv
    <3>3. KnowsArchs(rel'[p])
      BY <1>1, <2>1, <3>1, <3>2 DEF KnowsArchs
    <3>4. QED
      BY <1>1, <1>2, <2>1, <3>3
  <2>5. QED
    BY <2>3, <2>4
<1>6. ASSUME NEW p \in Runs,
             DecideUpload(p) \/ DecideCopy(p) \/ DecideDelete(p) \/ DecideVerify(p)
      PROVE  ArchsInv'
  <2>1. PICK op :
          /\ Decide(p, op)
          /\ \/ \E changed \in Seq(Manifest), uploads \in Packages :
                  Prepare(p, changed, uploads)
             \/ PrepareRelease(p)
             \/ \E how \in {"ok", "error"} : Nothing(p, how)
    BY <1>6, DecidesTyped
  <2>2. release' = release
    BY <2>1 DEF Decide
  <2>3. rel[p] \in Releases /\ KnowsArchs(rel[p])
    BY <1>1 DEF ArchsInv
  <2>4. ASSUME NEW changed \in Seq(Manifest), NEW uploads \in Packages,
               Prepare(p, changed, uploads)
        PROVE  ArchsInv'
    <3> DEFINE updated == UpdateManifests(rel[p], changed)
    <3>1. rel' = [rel EXCEPT ![p] = UpdateManifests(updated, MissingManifests(updated))]
      BY <2>4 DEF Prepare
    <3>2. updated \in Releases /\ KnowsArchs(updated)
      BY <2>3, UpdateManifestsType, UpdateKnows
    <3> HIDE DEF updated
    <3>3. KnowsArchs(UpdateManifests(updated, MissingManifests(updated)))
      BY <3>2, MissingManifestsType, UpdateKnows
    <3>4. KnowsArchs(rel'[p])
      BY <1>1, <3>1, <3>3
    <3>5. QED
      BY <1>1, <1>2, <2>2, <3>1, <3>4
  <2>5. CASE PrepareRelease(p)
    <3>1. rel' = [rel EXCEPT ![p] = UpdateManifests(rel[p], MissingManifests(rel[p]))]
      BY <2>5 DEF PrepareRelease
    <3>2. KnowsArchs(UpdateManifests(rel[p], MissingManifests(rel[p])))
      BY <2>3, MissingManifestsType, UpdateKnows
    <3>3. KnowsArchs(rel'[p])
      BY <1>1, <3>1, <3>2
    <3>4. QED
      BY <1>1, <1>2, <2>2, <3>1, <3>3
  <2>6. CASE \E how \in {"ok", "error"} : Nothing(p, how)
    BY <1>3, <2>2, <2>6 DEF Nothing
  <2>7. QED
    BY <2>1, <2>4, <2>5, <2>6
<1>7. ASSUME NEW p \in Runs, Proceed(p) PROVE ArchsInv'
  <2>1. CASE PutRelease(p)
    BY <1>4, <2>1 DEF PutRelease
  <2>2. CASE \/ PutPackage(p) \/ PackagesDone(p) \/ PutByHash(p) \/ ByHashDone(p)
             \/ PutCanonical(p) \/ CanonicalDone(p) \/ Sign(p)
             \/ DeleteReleaseGpg(p) \/ DeleteInRelease(p)
             \/ PutReleaseGpg(p) \/ PutInRelease(p)
    BY <1>3, <2>2
    DEF PutPackage, PackagesDone, PutByHash, ByHashDone, PutCanonical, CanonicalDone,
        Sign, DeleteReleaseGpg, DeleteInRelease, PutReleaseGpg, PutInRelease
  <2>3. CASE \/ Start(p) \/ TakeLock(p) \/ Unlock(p) \/ RetrieveSource(p)
             \/ RetrieveManifest(p) \/ HeadPackage(p) \/ HeadsDone(p)
             \/ ListManifest(p) \/ Answer(p) \/ LookUp(p)
             \/ ListIndexes(p) \/ ScanIndex(p) \/ ListPool(p)
             \/ DeletePoolObject(p) \/ SweepDone(p)
    BY <1>3, <2>3
    DEF Start, TakeLock, Unlock, RetrieveSource, RetrieveManifest, HeadPackage,
        HeadsDone, ListManifest, Answer, LookUp, ListIndexes, ScanIndex, ListPool,
        DeletePoolObject, SweepDone
  <2>4. QED
    BY <1>5, <1>6, <1>7, <2>1, <2>2, <2>3 DEF Proceed, Publish
<1>8. ASSUME NEW p \in Runs, Disturb(p) PROVE ArchsInv'
  BY <1>3, <1>8 DEF Disturb, GiveUp, UnlockFails, SigningFails, SignFails, StoreFails, Crash
<1>9. ASSUME NEW p \in Runs, LateCall(p) PROVE ArchsInv'
  <2>1. /\ rel' = rel
        /\ release' = release \/ release' = [release EXCEPT ![Codename(p)] = Rendered(p)]
    BY <1>9 DEF LateCall
  <2>2. QED
    BY <1>3, <1>4, <2>1
<1>10. ASSUME NEW c \in Codenames, BreakLock(c) PROVE ArchsInv'
  BY <1>3, <1>10 DEF BreakLock
<1>11. CASE UNCHANGED vars
  BY <1>3, <1>11 DEF vars
<1>12. QED
  BY <1>7, <1>8, <1>9, <1>10, <1>11 DEF Next, Terminated

\* Initially no Release is stored and none lists anything.
LEMMA InitArchs == Init => ArchsInv
BY DEF Init, ArchsInv, KnowsArchs, NewRelease

---------------------------------------------------------------------------
(* What list makes of an index *)

\* An entry is appended when no identical one is there.
LEMMA ReportNextFacts ==
  ASSUME NEW T, NEW seen \in Seq(T), NEW e \in T, Distinct(seen)
  PROVE  /\ Distinct(ReportNext(seen, e))
         /\ ToSet(seen) \subseteq ToSet(ReportNext(seen, e))
         /\ \E f \in ToSet(ReportNext(seen, e)) : Identical(f, e)
<1>1. CASE \E f \in ToSet(seen) : Identical(e, f)
  BY <1>1 DEF ReportNext, Identical, SamePackage
<1>2. CASE ~ \E f \in ToSet(seen) : Identical(e, f)
  <2> DEFINE next == Append(seen, e)
  <2>1. /\ DOMAIN seen = 1..Len(seen) /\ DOMAIN next = 1..(Len(seen) + 1)
        /\ Len(seen) \in Nat
        /\ \A i \in 1..Len(seen) : next[i] = seen[i] /\ seen[i] \in ToSet(seen)
        /\ next[Len(seen) + 1] = e
    BY DEF ToSet
  <2>2. ReportNext(seen, e) = next /\ ToSet(next) = ToSet(seen) \cup {e}
    BY <1>2, AppendRange DEF ReportNext
  <2> HIDE DEF next
  <2>3. ASSUME NEW i \in DOMAIN next, NEW k \in DOMAIN next, Identical(next[i], next[k])
        PROVE  i = k
    <3>1. Identical(next[k], next[i])
      BY <2>3 DEF Identical, SamePackage
    <3>2. CASE i \in 1..Len(seen) /\ k \in 1..Len(seen)
      BY <2>1, <2>3, <3>2 DEF Distinct
    <3>3. CASE i \in 1..Len(seen) /\ k = Len(seen) + 1
      BY <1>2, <2>1, <3>1, <3>3
    <3>4. CASE k \in 1..Len(seen) /\ i = Len(seen) + 1
      BY <1>2, <2>1, <2>3, <3>4
    <3>5. QED
      BY <2>1, <3>2, <3>3, <3>4
  <2>4. Identical(e, e)
    BY DEF Identical, SamePackage
  <2>5. QED
    BY <2>2, <2>3, <2>4 DEF Distinct
<1>3. QED
  BY <1>1, <1>2

\* Every entry of an index is reported, unless an identical one was, and none
\* is reported twice.
LEMMA ReportedOnce ==
  ASSUME NEW T, NEW reported \in Seq(T), NEW packages \in Seq(T), Distinct(reported)
  PROVE  /\ Distinct(Reported(reported, packages))
         /\ \A e \in ToSet(packages) :
              \E f \in ToSet(Reported(reported, packages)) : Identical(f, e)
<1> DEFINE n == Len(packages)
<1>1. PICK f \in [0..n -> Seq(T)] :
        /\ f[0] = reported
        /\ \A i \in 1..n : f[i] = ReportNext(f[i - 1], packages[i])
        /\ f[n] = Reported(reported, packages)
  BY ReportedSteps
<1>2. n \in Nat /\ DOMAIN packages = 1..n
  OBVIOUS
<1> HIDE DEF n
<1> DEFINE P == {i \in 0..n :
                   /\ Distinct(f[i])
                   /\ \A k \in 1..i : \E x \in ToSet(f[i]) : Identical(x, packages[k])}
<1>3. 0 \in P
  BY <1>1, <1>2
<1>4. ASSUME NEW i \in 1..n, i - 1 \in P PROVE i \in P
  <2>1. f[i - 1] \in Seq(T) /\ packages[i] \in T /\ Distinct(f[i - 1])
        /\ f[i] = ReportNext(f[i - 1], packages[i])
    BY <1>1, <1>2, <1>4
  <2>2. /\ Distinct(f[i]) /\ ToSet(f[i - 1]) \subseteq ToSet(f[i])
        /\ \E x \in ToSet(f[i]) : Identical(x, packages[i])
    BY <2>1, ReportNextFacts
  <2>3. ASSUME NEW k \in 1..i PROVE \E x \in ToSet(f[i]) : Identical(x, packages[k])
    <3>1. CASE k = i
      BY <2>2, <3>1
    <3>2. CASE k # i
      <4>1. k \in 1..(i - 1)
        BY <1>2, <3>2
      <4>2. QED
        BY <1>4, <2>2, <4>1
    <3>3. QED
      BY <3>1, <3>2
  <2>4. QED
    BY <2>2, <2>3
<1> HIDE DEF P
<1>5. \A i \in 0..n : i \in P
  BY <1>2, <1>3, <1>4, Interval
<1>6. n \in P
  BY <1>2, <1>5
<1>7. QED
  BY <1>1, <1>2, <1>6 DEF P, ToSet

\* What list takes for an entry that is not uploaded twice is that entry.
LEMMA IdenticalIsSame ==
  ASSUME TypeOK, NEW p \in Runs, NEW n, NEW e, Promises(p, n, e), NEW f, Own(f),
         Identical(f, e)
  PROVE  f = e
<1>1. PICK d \in ToSet(job[p].debs) : ~Retracted(p, d) /\ e = Entry(d, Codename(p))
  BY DEF Promises
<1>2. PICK r \in Runs : /\ job[r].op = "upload"
                        /\ \E x \in ToSet(job[r].debs) : f = Entry(x, Codename(r))
  BY DEF Own
<1>3. PICK x \in ToSet(job[r].debs) : f = Entry(x, Codename(r))
  BY <1>2
<1>4. x.name = d.name
  BY <1>1, <1>3 DEF Identical, SamePackage, Entry
<1>5. r = p /\ x = d
  BY <1>1, <1>2, <1>4 DEF Retracted
<1>6. QED
  BY <1>1, <1>3, <1>5

---------------------------------------------------------------------------
(* What a query has found *)

\* A step of a run that is not over, and of no other one; a run begins by being
\* started.
Single(p) ==
  /\ job' = job
  /\ pc[p] # "ended"
  /\ pc'[p] # "start" => pc[p] # "start" \/ Start(p)
  /\ \A q \in Runs \ {p} :
       /\ pc'[q] = pc[q] /\ outcome'[q] = outcome[q]
       /\ kept'[q] = kept[q] /\ todo'[q] = todo[q]

\* Every step of a run is one.
LEMMA StepSingle ==
  ASSUME TypeOK, Shape, NEW p \in Runs, Proceed(p) \/ Disturb(p)
  PROVE  Single(p)
<1> USE DEF store, memory, reading
<1>1. pc \in [Runs -> Labels] /\ outcome \in [Runs -> Outcomes]
      /\ DOMAIN todo = Runs /\ DOMAIN kept = Runs
  BY DEF TypeOK
<1>2. /\ job' = job /\ pc[p] # "ended"
      /\ \A q \in Runs \ {p} : pc'[q] = pc[q] /\ outcome'[q] = outcome[q]
  <2>1. CASE Storing(p)
    BY <1>1, <2>1, StoringSteps DEF Signing
  <2>2. CASE ~Storing(p)
    BY ONLY <1>1, Shape, Proceed(p) \/ Disturb(p), <2>2, SteadySteps DEF Steady
  <2>3. QED
    BY <2>1, <2>2
<1>3. pc[p] # "start" \/ Start(p) \/ pc'[p] = "start"
  BY Zenon DEF Proceed, Disturb, TakeLock, GiveUp, Unlock, UnlockFails, SigningFails, SignFails,
         StoreFails, Crash, RetrieveSource, RetrieveRelease, RetrieveManifest,
         HeadPackage, HeadsDone, ListManifest, Answer, LookUp, DecideUpload, DecideCopy,
         DecideDelete, DecideVerify, Decide, Publish, PutPackage, PackagesDone,
         PutByHash, ByHashDone, PutCanonical, CanonicalDone, Sign, DeleteReleaseGpg,
         DeleteInRelease, PutRelease, PutReleaseGpg, PutInRelease, ListIndexes,
         ScanIndex, ListPool, DeletePoolObject, SweepDone
<1>4. /\ todo' = todo \/ \E x : todo' = [todo EXCEPT ![p] = x]
      /\ kept' = kept \/ \E x : kept' = [kept EXCEPT ![p] = x]
  <2>1. CASE DecideUpload(p) \/ DecideCopy(p) \/ DecideDelete(p) \/ DecideVerify(p)
    BY <2>1 DEF DecideUpload, DecideCopy, DecideDelete, DecideVerify, Decide
  <2>2. CASE (Publish(p) /\ UNCHANGED reading) \/ Disturb(p)
    BY <2>2 DEF Disturb, GiveUp, UnlockFails, SigningFails, SignFails, StoreFails, Crash
  <2>3. CASE \/ Start(p) \/ TakeLock(p) \/ Unlock(p) \/ Answer(p) \/ RetrieveManifest(p)
             \/ RetrieveRelease(p) \/ ListIndexes(p) \/ ScanIndex(p) \/ ListPool(p)
             \/ DeletePoolObject(p) \/ SweepDone(p)
    BY <2>3 DEF Start, TakeLock, Unlock, Answer, RetrieveManifest, RetrieveRelease,
         ListIndexes, ScanIndex, ListPool, DeletePoolObject, SweepDone
  <2>4. CASE \/ RetrieveSource(p) \/ HeadPackage(p) \/ HeadsDone(p)
             \/ ListManifest(p) \/ LookUp(p)
    BY <2>4 DEF RetrieveSource, HeadPackage, HeadsDone, ListManifest, LookUp
  <2>5. QED
    BY <2>1, <2>2, <2>3, <2>4 DEF Proceed
<1>5. \A q \in Runs \ {p} : kept'[q] = kept[q] /\ todo'[q] = todo[q]
  BY <1>1, <1>4
<1>6. QED
  BY <1>2, <1>3, <1>5 DEF Single

\* What a query expects is settled when it is started.
Settled(q) ==
  /\ \A r \in Before[q] : pc'[r] = "ended"
  /\ \A n, e : Expects(q, n, e)' <=> Expects(q, n, e)
  /\ \A n, e : Asked(q, n, e)' <=> Asked(q, n, e)

\* The runs a command is started after have ended, and stay as they are.
LEMMA ExpectsStay ==
  ASSUME NEW p \in Runs, Single(p), NEW q \in Runs, Answers(q),
         pc[q] = "start" => q = p /\ Start(p)
  PROVE  Settled(q)
<1>1. \A r \in Before[q] : r \in Runs /\ pc[r] = "ended"
  BY RepositoryAssumption DEF Answers, Start
<1>2. \A r \in Before[q] : r # p /\ pc'[r] = "ended" /\ outcome'[r] = outcome[r]
  BY <1>1 DEF Single
<1>3. QED
  BY <1>1, <1>2, PromisesStay DEF Single, Expects, Asked, Settled

\* The queries that do not take the step have found what they had.
LEMMA OthersAnswer ==
  ASSUME AnswersInv, NEW p \in Runs, Single(p), Answers(p)'
  PROVE  AnswersInv'
<1> SUFFICES ASSUME NEW q \in Runs, q # p PROVE Answers(q)'
  BY DEF AnswersInv
<1>1. /\ pc'[q] = pc[q] /\ outcome'[q] = outcome[q] /\ kept'[q] = kept[q]
      /\ todo'[q] = todo[q] /\ job' = job
  BY DEF Single
<1>2. Answers(q)
  BY DEF AnswersInv
<1>3. CASE pc[q] = "start"
  BY <1>1, <1>2, <1>3 DEF Answers, Stages
<1>4. CASE pc[q] # "start"
  <2>1. Settled(q)
    BY <1>2, <1>4, ExpectsStay
  <2>2. \A n, e : Found(q, n, e)' <=> Found(q, n, e)
    BY <1>1 DEF Found
  <2>3. QED
    BY <1>1, <1>2, <1>4, <2>1, <2>2 DEF Answers, Stages, Settled
<1>5. QED
  BY <1>3, <1>4

\* So it is enough that the query that takes the step has found what it expects.
LEMMA StepAnswers ==
  ASSUME AnswersInv, NEW p \in Runs, Single(p), Stages(p)',
         job[p].op = "list" => Distinct(kept'[p]),
         \A n \in IndexNames, e \in AllEntries :
           pc'[p] # "start" /\ Expects(p, n, e) /\ Asked(p, n, e) => Found(p, n, e)'
  PROVE  AnswersInv'
<1>1. Answers(p) /\ job' = job
  BY DEF AnswersInv, Single
<1>2. CASE pc'[p] = "start"
  BY <1>1, <1>2, OthersAnswer DEF Answers
<1>3. CASE pc'[p] # "start"
  <2>1. pc[p] = "start" => p = p /\ Start(p)
    BY <1>3 DEF Single
  <2>2. Settled(p)
    BY <1>1, <2>1, ExpectsStay
  <2>3. Answers(p)'
    BY <1>1, <1>3, <2>2 DEF Answers, Settled
  <2>4. QED
    BY <2>3, OthersAnswer
<1>4. QED
  BY <1>2, <1>3

\* What the arguments below start from.
QueryHypotheses ==
  TypeInv /\ Shape /\ KeepInv /\ OwnInv /\ ArchsInv /\ AnswersInv

\* What a query expects is in the index, and in the Release.
LEMMA ExpectedStored ==
  ASSUME KeepInv, NEW q \in Runs, NEW n \in IndexNames, NEW e \in AllEntries,
         Expects(q, n, e)
  PROVE  Has(index[Codename(q)][n], e) /\ Has(Contents(Codename(q))[n], e)
BY RepositoryAssumption DEF Expects, KeepInv, StoreKeeps

\* Commands that are no queries answer nothing.
LEMMA CommandAnswers ==
  ASSUME QueryHypotheses, NEW p \in Runs, Proceed(p) \/ Disturb(p),
         job[p].op \notin {"list", "show", "exists"}
  PROVE  AnswersInv'
<1>1. Single(p)
  BY StepSingle DEF QueryHypotheses, TypeInv
<1>2. Stages(p)' /\ \A n, e : ~Asked(p, n, e)
  BY <1>1 DEF Single, Stages, Asked
<1>3. QED
  BY <1>1, <1>2, StepAnswers DEF QueryHypotheses

\* Only the steps of a query read anything for it.
LEMMA QuietAnswers ==
  ASSUME QueryHypotheses, NEW p \in Runs, Proceed(p) \/ Disturb(p),
         job[p].op \in {"list", "show", "exists"},
         ~RetrieveRelease(p), ~ListManifest(p), ~Answer(p), ~LookUp(p)
  PROVE  AnswersInv'
<1> USE DEF Goto, store, memory, reading
<1>1. /\ TypeOK /\ RunOK(p) /\ RunKeeps(p) /\ Answers(p) /\ Stages(p)
      /\ pc \in [Runs -> Labels] /\ outcome \in [Runs -> Outcomes]
  BY DEF QueryHypotheses, TypeInv, TypeOK, RunsOK, KeepInv, AnswersInv, Answers
<1>2. Single(p)
  BY <1>1, StepSingle DEF QueryHypotheses
<1>3. \/ Start(p) \/ TakeLock(p) \/ GiveUp(p) \/ Unlock(p)
      \/ StoreFails(p) \/ UnlockFails(p) \/ Crash(p)
  BY <1>1, Zenon DEF Stages, Proceed, Disturb, SigningFails, SignFails, RetrieveSource,
         RetrieveManifest, HeadPackage, HeadsDone, DecideUpload, DecideCopy,
         DecideDelete, DecideVerify, Decide, Publish, PutPackage, PackagesDone,
         PutByHash, ByHashDone, PutCanonical, CanonicalDone, Sign, DeleteReleaseGpg,
         DeleteInRelease, PutRelease, PutReleaseGpg, PutInRelease, ListIndexes,
         ScanIndex, ListPool, DeletePoolObject, SweepDone
<1>4. kept' = kept /\ todo' = todo
  BY <1>3 DEF Start, TakeLock, GiveUp, Unlock, StoreFails, UnlockFails, Crash
<1>5. \/ /\ \E label : pc' = [pc EXCEPT ![p] = label] /\ label \in {"lock", FirstRead(p)}
         /\ outcome' = outcome /\ pc[p] \in {"start", "lock"}
      \/ /\ \E label \in {"unlock", "ended"} : pc' = [pc EXCEPT ![p] = label]
         /\ outcome' = outcome
            \/ \E how \in {"gaveUp", "error", "crashed"} :
                 outcome' = [outcome EXCEPT ![p] = how]
  BY <1>3 DEF Start, TakeLock, GiveUp, Unlock, StoreFails, UnlockFails, Crash, Finish
<1>6. \/ /\ pc'[p] \in {"lock", FirstRead(p)} /\ outcome'[p] = outcome[p]
         /\ pc[p] \in {"start", "lock"}
      \/ /\ pc'[p] \in {"unlock", "ended"}
         /\ outcome'[p] = outcome[p] \/ outcome'[p] \in {"gaveUp", "error", "crashed"}
  BY <1>1, <1>5
<1>7. Stages(p)'
  BY <1>1, <1>2, <1>6 DEF Stages, Single, FirstRead
<1>8. ASSUME NEW n \in IndexNames, NEW e \in AllEntries, Expects(p, n, e), Asked(p, n, e)
      PROVE  Found(p, n, e)'
  <2>1. pc'[p] # "manifests"
    BY <1>6 DEF FirstRead
  <2>2. CASE pc[p] = "start"
    <3>1. outcome'[p] \notin {"ok", "notFound"}
      BY <1>1, <1>6, <2>2 DEF Stages
    <3>2. QED
      BY <1>2, <2>1, <3>1 DEF Found, Single
  <2>3. CASE pc[p] # "start"
    <3>1. Found(p, n, e)
      BY <1>1, <1>8, <2>3 DEF Answers
    <3>2. QED
      BY <1>2, <1>4, <1>6, <2>1, <3>1 DEF Found, Single
  <2>4. QED
    BY <2>2, <2>3
<1>9. QED
  BY <1>1, <1>2, <1>4, <1>7, <1>8, StepAnswers DEF QueryHypotheses, Answers

\* list takes the architectures it reads from the Release, which lists what was
\* acknowledged.
LEMMA RetrieveReleaseAnswers ==
  ASSUME QueryHypotheses, NEW p \in Runs, Proceed(p) \/ Disturb(p), RetrieveRelease(p),
         job[p].op \in {"list", "show", "exists"}
  PROVE  AnswersInv'
<1> USE DEF Goto, store, memory, reading
<1> DEFINE c == Codename(p)
           r == Retrieved(release[c], job[p].byHash)
<1>1. /\ TypeOK /\ Answers(p) /\ Stages(p) /\ pc \in [Runs -> Labels] /\ DOMAIN todo = Runs
      /\ c \in Codenames /\ job[p] \in Jobs
      /\ release[c] \in {NoObject} \cup Releases
  BY CodenameType, JobType
  DEF QueryHypotheses, TypeInv, TypeOK, AnswersInv, Answers
<1>2. Single(p)
  BY <1>1, StepSingle DEF QueryHypotheses, Proceed
<1>3. /\ pc[p] = "release" /\ pc' = [pc EXCEPT ![p] = "manifests"]
      /\ todo' = [todo EXCEPT ![p] = ArchsToRead(job[p], r.archs)]
      /\ kept' = kept /\ outcome' = outcome
  BY DEF RetrieveRelease
<1>4. job[p].op = "list" /\ outcome[p] = "none"
  BY <1>1, <1>3 DEF Stages
<1>5. r \in Releases /\ r.archs \in Seq(Archs)
  BY <1>1, RetrievedType DEF Releases
<1>6. release[c] # NoObject => r.archs = release[c].archs /\ KnowsArchs(release[c])
  BY <1>1 DEF Retrieved, Releases, QueryHypotheses, ArchsInv
<1> HIDE DEF r
<1>7. pc'[p] = "manifests" /\ todo'[p] = ArchsToRead(job[p], r.archs)
  BY <1>1, <1>3
<1>8. ASSUME NEW n \in IndexNames, NEW e \in AllEntries, Expects(p, n, e), Asked(p, n, e)
      PROVE  Found(p, n, e)'
  <2>1. Has(Contents(c)[n], e)
    BY <1>8, ExpectedStored DEF QueryHypotheses
  <2>2. release[c] # NoObject /\ release[c].files[n] # NoObject
    BY <2>1 DEF Has, Contents
  <2>3. n[2] \in ToSet(r.archs)
    BY <1>6, <2>2 DEF KnowsArchs
  <2>4. CASE job[p].arch = ""
    <3>1. ArchsToRead(job[p], r.archs) = r.archs
      BY <1>4, <2>4 DEF ArchsToRead
    <3>2. QED
      BY <1>2, <1>3, <1>4, <1>7, <2>3, <3>1 DEF Found, Single
  <2>5. CASE job[p].arch # ""
    <3>1. job[p].arch = n[2]
      BY <1>4, <1>8, <2>5 DEF Asked
    <3>2. ArchsToRead(job[p], r.archs) = KeepOnly(r.archs, {job[p].arch})
      BY <1>4, <2>5 DEF ArchsToRead
    <3>3. n[2] \in ToSet(KeepOnly(r.archs, {job[p].arch}))
      BY <1>5, <2>3, <3>1, KeepOnlyFacts
    <3>4. QED
      BY <1>2, <1>3, <1>4, <1>7, <3>2, <3>3 DEF Found, Single
  <2>6. QED
    BY <2>4, <2>5
<1>9. Stages(p)'
  BY <1>2, <1>3, <1>4, <1>7 DEF Stages, Single
<1>10. QED
  BY <1>1, <1>2, <1>3, <1>8, <1>9, StepAnswers DEF QueryHypotheses, Answers

\* list reports the entry with the index that has it.
LEMMA ListManifestAnswers ==
  ASSUME QueryHypotheses, NEW p \in Runs, Proceed(p) \/ Disturb(p), ListManifest(p)
  PROVE  AnswersInv'
<1> USE DEF store, memory
<1> DEFINE c == Codename(p)
           plain == <<job[p].component, Head(todo[p]), "Packages">>
           packages == PackagesOf(index[c][plain])
<1>1. /\ TypeOK /\ Answers(p) /\ Stages(p) /\ DOMAIN todo = Runs /\ DOMAIN kept = Runs
      /\ c \in Codenames /\ job[p] \in Jobs /\ kept[p] \in Packages /\ RunOK(p)
  BY CodenameType, JobType
  DEF QueryHypotheses, TypeInv, TypeOK, RunsOK, AnswersInv, Answers
<1>2. Single(p)
  BY <1>1, StepSingle DEF QueryHypotheses, Proceed
<1>3. /\ pc[p] = "manifests" /\ todo[p] # <<>> /\ job[p].op = "list"
      /\ kept' = [kept EXCEPT ![p] = Reported(@, packages)]
      /\ todo' = [todo EXCEPT ![p] = Tail(@)]
      /\ UNCHANGED <<pc, outcome>>
  BY DEF ListManifest
<1>4. todo[p] \in Seq(Archs) /\ Head(todo[p]) \in Archs
  <2>1. todo[p] \in Seq(Archs)
    BY <1>1, <1>3 DEF RunOK
  <2>2. QED
    BY <1>3, <2>1
<1>5. plain \in IndexNames
  BY <1>1, <1>4, PlainName, JobFacts
<1>6. packages \in Packages /\ Owned(packages)
  BY <1>1, <1>5, IndexType DEF QueryHypotheses, OwnInv
<1>7. kept'[p] = Reported(kept[p], packages) /\ todo'[p] = Tail(todo[p])
  BY <1>1, <1>3
<1>8. kept[p] \in Seq(AllEntries) /\ packages \in Seq(AllEntries) /\ Distinct(kept[p])
  BY <1>1, <1>3, <1>6 DEF Packages, Answers
<1>9. ASSUME NEW e \in ToSet(packages)
      PROVE  \E f \in ToSet(kept'[p]) : Identical(f, e)
  <2> HIDE DEF packages
  <2> QED BY <1>7, <1>8, <1>9, ReportedOnce
<1>10. /\ Distinct(kept'[p]) /\ ToSet(kept[p]) \subseteq ToSet(kept'[p])
       /\ \A f \in ToSet(kept'[p]) : Own(f)
  <2>1. Owned(kept[p])
    BY DEF QueryHypotheses, OwnInv, RunOwned
  <2> HIDE DEF packages
  <2>2. ToSet(kept'[p]) \subseteq ToSet(kept[p]) \cup ToSet(packages)
        /\ ToSet(kept[p]) \subseteq ToSet(kept'[p])
    BY <1>7, <1>8, ReportedFacts
  <2>3. Distinct(kept'[p])
    BY <1>7, <1>8, ReportedOnce
  <2>4. QED
    BY <1>6, <2>1, <2>2, <2>3 DEF Owned
<1>11. ASSUME NEW n \in IndexNames, NEW e \in AllEntries, Expects(p, n, e), Asked(p, n, e)
       PROVE  Found(p, n, e)'
  <2>1. Found(p, n, e)
    BY <1>1, <1>3, <1>11 DEF Answers
  <2>2. e \in ToSet(kept'[p]) \/ n[2] \in ToSet(todo'[p])
    <3>1. CASE e \in ToSet(kept[p])
      BY <1>10, <3>1
    <3>2. CASE n[2] \in ToSet(Tail(todo[p]))
      BY <1>7, <3>2
    <3>3. CASE n[2] = Head(todo[p])
      <4>1. n = plain
        BY <1>11, <3>3 DEF Expects, IndexNames
      <4>2. Has(index[c][plain], e)
        BY <1>11, <4>1, ExpectedStored DEF QueryHypotheses
      <4>3. e \in ToSet(packages)
        BY <4>2 DEF Has, Sole, PackagesOf
      <4>4. PICK f \in ToSet(kept'[p]) : Identical(f, e)
        BY <1>9, <4>3
      <4>5. PICK r \in Runs : Promises(r, n, e)
        BY <1>11, RepositoryAssumption DEF Expects
      <4>6. f = e
        BY <1>1, <1>10, <4>4, <4>5, IdenticalIsSame
      <4>7. QED
        BY <4>4, <4>6
    <3>4. e \in ToSet(kept[p]) \/ n[2] \in ToSet(todo[p])
      BY <1>3, <2>1 DEF Found
    <3>5. QED
      BY <1>3, <1>4, <3>1, <3>2, <3>3, <3>4, HeadTail
  <2>3. outcome'[p] = "none"
    BY <1>1, <1>3 DEF Stages
  <2>4. QED
    BY <1>2, <1>3, <2>2, <2>3 DEF Found, Single
<1>12. Stages(p)'
  BY <1>1, <1>2, <1>3 DEF Stages, Single
<1>13. QED
  BY <1>2, <1>10, <1>11, <1>12, StepAnswers DEF QueryHypotheses

\* When nothing is left to read, all of it was reported.
LEMMA AnswerAnswers ==
  ASSUME QueryHypotheses, NEW p \in Runs, Proceed(p) \/ Disturb(p), Answer(p)
  PROVE  AnswersInv'
<1>1. /\ TypeOK /\ Answers(p) /\ Stages(p)
      /\ pc \in [Runs -> Labels] /\ outcome \in [Runs -> Outcomes]
  BY DEF QueryHypotheses, TypeInv, TypeOK, AnswersInv, Answers
<1>2. Single(p)
  BY <1>1, StepSingle DEF QueryHypotheses, Proceed
<1>3. /\ pc[p] = "manifests" /\ todo[p] = <<>> /\ job[p].op = "list" /\ kept' = kept
      /\ pc'[p] \in {"unlock", "ended"}
  BY <1>1 DEF Answer, Finish, Goto, reading
<1>4. ASSUME NEW n \in IndexNames, NEW e \in AllEntries, Expects(p, n, e), Asked(p, n, e)
      PROVE  Found(p, n, e)'
  <2>1. Found(p, n, e)
    BY <1>1, <1>3, <1>4 DEF Answers
  <2>2. DOMAIN <<>> = {}
    OBVIOUS
  <2>3. e \in ToSet(kept'[p])
    BY <1>3, <2>1, <2>2 DEF Found, ToSet
  <2>4. QED
    BY <1>2, <1>3, <2>3 DEF Found, Single
<1>5. Stages(p)'
  BY <1>2, <1>3 DEF Stages, Single
<1>6. QED
  BY <1>1, <1>2, <1>3, <1>4, <1>5, StepAnswers DEF QueryHypotheses, Answers

\* show and exists find the entry, and no other one: a version is listed once.
LEMMA LookUpAnswers ==
  ASSUME QueryHypotheses, NEW p \in Runs, Proceed(p) \/ Disturb(p), LookUp(p)
  PROVE  AnswersInv'
<1> USE DEF store, memory
<1> DEFINE c == Codename(p)
           j == job[p]
           plain == <<j.component, j.arch, "Packages">>
           packages == PackagesOf(index[c][plain])
           S == {e \in ToSet(packages) : e.name = j.name /\ (j.all \/ e.version \in j.versions)}
           found == Selected(j, packages)
<1>1. /\ TypeOK /\ Answers(p) /\ Stages(p) /\ DOMAIN kept = Runs
      /\ pc \in [Runs -> Labels] /\ outcome \in [Runs -> Outcomes]
      /\ c \in Codenames /\ j \in Jobs /\ RunOK(p)
  BY CodenameType, JobType
  DEF QueryHypotheses, TypeInv, TypeOK, RunsOK, AnswersInv, Answers
<1>2. Single(p)
  BY <1>1, StepSingle DEF QueryHypotheses, Proceed
<1>3. /\ pc[p] = "lookup"
      /\ kept' = [kept EXCEPT ![p] = IF found = <<>> THEN found ELSE <<Head(found)>>]
      /\ pc'[p] \in {"unlock", "ended"}
  BY <1>1 DEF LookUp, Finish, Goto
<1>4. j.op \in {"show", "exists"}
  BY <1>1, <1>3 DEF RunOK
<1>5. j.arch \in Archs /\ ~j.all /\ \E v \in j.versions : j.versions = {v}
  BY <1>1, <1>4, JobFacts DEF IsJob
<1>6. plain \in IndexNames
  BY <1>1, <1>5, PlainName, JobFacts
<1>7. packages \in Seq(AllEntries)
  BY <1>1, <1>6, IndexType DEF Packages
<1>8. kept'[p] = IF found = <<>> THEN found ELSE <<Head(found)>>
  BY <1>1, <1>3
<1>9. found \in Seq(AllEntries) /\ ToSet(found) = ToSet(packages) \cap S
  <2> HIDE DEF packages
  <2> QED BY <1>7, KeepOnlyFacts DEF Selected
<1>10. ASSUME NEW n \in IndexNames, NEW e \in AllEntries, Expects(p, n, e), Asked(p, n, e)
       PROVE  Found(p, n, e)'
  <2>1. n = plain /\ j.name = e.name /\ e.version \in j.versions
    <3>1. n[2] = j.arch /\ j.name = e.name /\ e.version \in j.versions
      BY <1>4, <1>10 DEF Asked
    <3>2. n[1] = j.component /\ n[3] = "Packages" /\ n = <<n[1], n[2], n[3]>>
      BY <1>10 DEF Expects, IndexNames
    <3>3. QED
      BY <3>1, <3>2
  <2>2. Has(index[c][plain], e)
    BY <1>10, <2>1, ExpectedStored DEF QueryHypotheses
  <2>3. Sole(packages, e)
    BY <2>2 DEF Has, PackagesOf
  <2> HIDE DEF packages
  <2>4. e \in ToSet(found)
    BY <1>9, <2>1, <2>3 DEF Sole
  <2>5. \A f \in ToSet(found) : f = e
    BY <1>5, <1>9, <2>1, <2>3 DEF Sole, SamePackage
  <2> HIDE DEF found
  <2>6. found # <<>>
    <3>1. DOMAIN <<>> = {}
      OBVIOUS
    <3>2. QED
      BY <2>4, <3>1 DEF ToSet
  <2>7. Head(found) \in ToSet(found)
    BY <1>9, <2>6, HeadTail
  <2>8. kept'[p] = <<e>>
    BY <1>8, <2>5, <2>6, <2>7
  <2>9. QED
    BY <1>2, <1>4, <2>8 DEF Found, Single
<1>11. Stages(p)'
  BY <1>2, <1>3, <1>4 DEF Stages, Single
<1>12. QED
  BY <1>2, <1>4, <1>10, <1>11, StepAnswers DEF QueryHypotheses

---------------------------------------------------------------------------
(* The theorem on queries *)

\* Nothing was asked for yet.
LEMMA InitAnswers == Init => AnswersInv
<1> SUFFICES ASSUME Init, NEW q \in Runs PROVE Answers(q)
  BY DEF AnswersInv
<1>1. pc[q] = "start" /\ outcome[q] = "none" /\ kept[q] = <<>>
  BY DEF Init
<1>2. DOMAIN <<>> = {}
  OBVIOUS
<1>3. QED
  BY <1>1, <1>2 DEF Answers, Stages, Distinct

\* Queries see nothing of locks.
LEMMA IdleAnswers ==
  ASSUME AnswersInv, UNCHANGED <<pc, outcome, kept, todo, job>>
  PROVE  AnswersInv'
<1> SUFFICES ASSUME NEW q \in Runs PROVE Answers(q)'
  BY DEF AnswersInv
<1>1. Answers(q)
  BY DEF AnswersInv
<1>2. \A n, e : /\ Expects(q, n, e)' <=> Expects(q, n, e)
                /\ Asked(q, n, e)' <=> Asked(q, n, e)
                /\ Found(q, n, e)' <=> Found(q, n, e)
  BY DEF Expects, Asked, Found, Promises, Retracted, Codename
<1>3. QED
  BY <1>1, <1>2 DEF Answers, Stages

\* Every step keeps the invariant.
LEMMA NextAnswers ==
  ASSUME Fenced, QueryHypotheses, [Next]_vars
  PROVE  AnswersInv'
<1>1. AnswersInv
  BY DEF QueryHypotheses
<1>2. ASSUME NEW p \in Runs, Proceed(p) \/ Disturb(p) PROVE AnswersInv'
  <2>1. CASE job[p].op \notin {"list", "show", "exists"}
    BY <1>2, <2>1, CommandAnswers
  <2>2. CASE job[p].op \in {"list", "show", "exists"}
    <3>1. CASE RetrieveRelease(p) \/ ListManifest(p) \/ Answer(p) \/ LookUp(p)
      BY <1>2, <2>2, <3>1, RetrieveReleaseAnswers, ListManifestAnswers, AnswerAnswers,
         LookUpAnswers
    <3>2. CASE ~RetrieveRelease(p) /\ ~ListManifest(p) /\ ~Answer(p) /\ ~LookUp(p)
      BY <1>2, <2>2, <3>2, QuietAnswers
    <3>3. QED
      BY <3>1, <3>2
  <2>3. QED
    BY <2>1, <2>2
<1>3. ASSUME NEW c \in Codenames, BreakLock(c) PROVE AnswersInv'
  BY <1>1, <1>3, IdleAnswers DEF BreakLock, memory, reading
<1>4. CASE UNCHANGED vars
  BY <1>1, <1>4, IdleAnswers DEF vars, memory, reading
<1>5. QED
  BY <1>2, <1>3, <1>4 DEF Next, Terminated, LateCall, Fenced

\* A query that is over reports what it found, and once.
LEMMA AnswersImply ==
  ASSUME TypeOK, KeepInv, AnswersInv
  PROVE  QueriesSeeAcknowledged
<1> SUFFICES ASSUME NEW q \in Runs, NEW p \in Before[q],
                    outcome[p] = "ok", job[p].op = "upload",
                    outcome[q] \in {"ok", "notFound"},
                    NEW d \in ToSet(job[p].debs),
                    AsksFor(job[q], job[p], d), ~Retracted(p, d),
                    NEW e, e = Entry(d, Codename(p))
             PROVE  \E i \in DOMAIN kept[q] : {k \in DOMAIN kept[q] : kept[q][k] = e} = {i}
  BY DEF QueriesSeeAcknowledged
<1> DEFINE arch == Placement(job[p], d)
           n == <<job[p].component, arch, "Packages">>
<1>1. p \in Runs /\ job[p] \in Jobs /\ kept[q] \in Packages /\ Codename(p) \in Codenames
  BY RepositoryAssumption, CodenameType, JobType DEF TypeOK
<1>2. n \in IndexNames
  <2>1. arch \in Archs /\ job[p].component \in Components
    BY <1>1, JobFacts DEF KeepInv, RunKeeps, Places, IsJob
  <2>2. "Packages" \in ToSet(Forms)
    BY DEF Forms, ToSet
  <2>3. QED
    BY <2>1, <2>2 DEF IndexNames
<1>3. e \in AllEntries /\ e.name = d.name /\ e.version = d.version
  BY <1>1 DEF AllEntries, Entry
<1>4. Promises(p, n, e)
  BY <1>1 DEF Promises
<1>5. Expects(q, n, e) /\ Asked(q, n, e) /\ job[q].op \in {"list", "show", "exists"}
  BY <1>1, <1>3, <1>4 DEF Expects, Asked, AsksFor, Codename
<1>6. Answers(q)
  BY DEF AnswersInv
<1>7. Found(q, n, e)
  BY <1>2, <1>3, <1>5, <1>6 DEF Answers, Stages
<1>8. CASE job[q].op = "list"
  <2>1. e \in ToSet(kept[q]) /\ Distinct(kept[q])
    BY <1>6, <1>7, <1>8 DEF Found, Answers
  <2>2. PICK i \in DOMAIN kept[q] : kept[q][i] = e
    BY <2>1 DEF ToSet
  <2>3. \A k \in DOMAIN kept[q] : kept[q][k] = e => k = i
    BY <2>1, <2>2 DEF Distinct, Identical, SamePackage
  <2>4. QED
    BY <2>2, <2>3
<1>9. CASE job[q].op \in {"show", "exists"}
  <2>1. kept[q] = <<e>>
    BY <1>7, <1>9 DEF Found
  <2>2. DOMAIN kept[q] = {1} /\ kept[q][1] = e
    BY <2>1
  <2>3. QED
    BY <2>2
<1>10. QED
  BY <1>5, <1>8, <1>9

\* list, show and exists take no lock and read one index after the other while
\* commands publish. Still, a query that was started after an upload succeeded
\* reports the packages that it asks for, each one once, as long as every
\* command that changes indexes takes the lock and none of its calls is applied
\* after it has lost it.
THEOREM QueriesAnswer ==
  ASSUME ChangesUnderLock, Fenced
  PROVE  Spec => []QueriesSeeAcknowledged
<1>1. Init => TypeInv /\ OwnInv /\ ArchsInv /\ AnswersInv
  BY InitType, InitOwned, InitArchs, InitAnswers
<1>2. /\ TypeInv /\ Shape /\ KeepInv /\ OwnInv /\ ArchsInv /\ AnswersInv
      /\ [Next]_vars
      => (TypeInv /\ OwnInv /\ ArchsInv /\ AnswersInv)'
  BY NextType, NextOwned, NextArchs, NextAnswers DEF QueryHypotheses
<1>3. TypeInv /\ KeepInv /\ AnswersInv => QueriesSeeAcknowledged
  BY AnswersImply DEF TypeInv
<1>4. QED
  BY <1>1, <1>2, <1>3, ShapeHolds, KeepInvHolds, PTL DEF Spec

---------------------------------------------------------------------------
(* Bodies that clean leaves *)

\* The commands that change indexes or sweep the pool take the lock of the one
\* codename they concern, and uploads do not replace bodies.
SweepsUnderLock ==
  \A j \in Jobs :
    /\ j.op = "clean" => j.lock
    /\ j.op = "copy" => j.source[1] = j.codename
    /\ j.op = "upload" => j.failIfExists /\ ~j.skipUpload

\* The run is one that may change the indexes or the pool of its codename.
Rewriting(p) == Changing(p) \/ job[p].op = "clean"

\* The entry has its body in the pool of the codename.
Backed(c, e) == e.filename[1] = c /\ InPool(e)

\* So have all entries of a list.
AllBacked(c, packages) == \A e \in ToSet(packages) : Backed(c, e)

\* What the plain indexes of a codename list.
PlainEntries(c) ==
  UNION {ToSet(PackagesOf(index[c][n])) : n \in {m \in IndexNames : m[3] = "Packages"}}

\* The entries of the plain indexes have their bodies; those of the compressed
\* ones may have lost them to clean, after a run that died in between.
PlainBacked == \A c \in Codenames : \A e \in PlainEntries(c) : Backed(c, e)

\* What a run has read, selected or decided on has its bodies.
HoldsBacked(p) ==
  LET c == Codename(p)
  IN  /\ pc[p] = "manifests" => \A m \in ToSet(manifests[p]) : AllBacked(c, m.packages)
      /\ job[p].op = "copy" /\ pc[p] \in {"release", "manifests"}
           => AllBacked(c, kept[p])
      /\ pc[p] = "packages" =>
           \A a \in Pending(p) : \A e \in ToSet(a.body) :
             e.filename[1] = c /\ (InPool(e) \/ e \in ToSet(work[p]))
      /\ pc[p] \in {"byHash", "canonical"} =>
           \A a \in Pending(p) : AllBacked(c, a.body)
      /\ pc[p] = "packages" /\ work[p] # <<>> => job[p].op = "upload"

\* clean has found what the indexes list referenced, or has the index still to
\* read; it deletes no body that they list.
Spares(p) ==
  LET c == Codename(p)
  IN  /\ pc[p] = "scan" =>
           \A n \in IndexNames :
             n[3] = "Packages" /\ index[c][n] # NoObject =>
               \/ <<c, n>> \in ToSet(todo[p])
               \/ \A e \in ToSet(index[c][n]) : e.filename \in refs[p]
      /\ pc[p] = "sweep" =>
           \A k \in ToSet(work[p]) : k[1] = c /\ \A e \in PlainEntries(c) : e.filename # k

\* What a run that rewrites its codename relies on.
RunSwept(p) ==
  /\ Changing(p) => HoldsBacked(p)
  /\ job[p].op = "clean" => Spares(p)

\* The inductive invariant.
SweepInv == PlainBacked /\ \A p \in Runs : RunSwept(p)
\* What the arguments below start from.
SweepHypotheses ==
  /\ ChangesUnderLock /\ SweepsUnderLock
  /\ TypeInv /\ Shape /\ WorksUnderLock /\ KeepInv /\ SweepInv

---------------------------------------------------------------------------
(* What a step leaves alone *)

\* Nothing happens to a run in a step of another one.
Lone(p) ==
  /\ job' = job
  /\ \A q \in Runs \ {p} :
       /\ pc'[q] = pc[q] /\ outcome'[q] = outcome[q] /\ rel'[q] = rel[q]
       /\ batches'[q] = batches[q] /\ at'[q] = at[q] /\ work'[q] = work[q]
       /\ manifests'[q] = manifests[q] /\ todo'[q] = todo[q]
       /\ kept'[q] = kept[q] /\ refs'[q] = refs[q]

\* Every step is one of a single run.
LEMMA StepLone ==
  ASSUME TypeOK, Shape, NEW p \in Runs, Proceed(p) \/ Disturb(p)
  PROVE  Lone(p)
<1> USE DEF store, memory, reading
<1>1. /\ rel \in [Runs -> Releases] /\ batches \in [Runs -> Seq(Seq(Artifact))]
      /\ at \in [Runs -> Nat \ {0}] /\ DOMAIN work = Runs
      /\ manifests \in [Runs -> Seq(Manifest)] /\ refs \in [Runs -> SUBSET PoolKeys]
  BY DEF TypeOK
<1>2. Single(p)
  BY StepSingle
<1>3. /\ rel' = rel \/ \E x : rel' = [rel EXCEPT ![p] = x]
      /\ batches' = batches \/ \E x : batches' = [batches EXCEPT ![p] = x]
      /\ at' = at \/ \E x : at' = [at EXCEPT ![p] = x]
      /\ work' = work \/ \E x : work' = [work EXCEPT ![p] = x]
      /\ manifests' = manifests \/ \E x : manifests' = [manifests EXCEPT ![p] = x]
      /\ refs' = refs \/ \E x : refs' = [refs EXCEPT ![p] = x]
  <2>1. CASE DecideUpload(p) \/ DecideCopy(p) \/ DecideDelete(p) \/ DecideVerify(p)
    <3>1. /\ \E op : Decide(p, op)
          /\ \/ \E changed, uploads : Prepare(p, changed, uploads)
             \/ PrepareRelease(p)
             \/ \E how : Nothing(p, how)
      BY <2>1 DEF DecideUpload, DecideCopy, DecideDelete, DecideVerify
    <3>2. UNCHANGED <<at, refs>>
          /\ manifests' = [manifests EXCEPT ![p] = <<>>]
      BY <3>1 DEF Decide
    <3>3. /\ rel' = rel \/ \E x : rel' = [rel EXCEPT ![p] = x]
          /\ batches' = batches \/ \E x : batches' = [batches EXCEPT ![p] = x]
          /\ work' = work \/ \E x : work' = [work EXCEPT ![p] = x]
      BY <3>1 DEF Prepare, PrepareRelease, Nothing
    <3>4. QED
      BY <3>2, <3>3
  <2>2. CASE Publish(p) /\ UNCHANGED reading
    <3>1. UNCHANGED <<rel, manifests, refs>>
      BY <2>2 DEF Publish, PutPackage, PackagesDone, PutByHash, ByHashDone, PutCanonical,
         CanonicalDone, Sign, DeleteReleaseGpg, DeleteInRelease, PutRelease,
         PutReleaseGpg, PutInRelease
    <3>2. /\ batches' = batches \/ \E x : batches' = [batches EXCEPT ![p] = x]
          /\ at' = at \/ \E x : at' = [at EXCEPT ![p] = x]
          /\ work' = work \/ \E x : work' = [work EXCEPT ![p] = x]
      BY <2>2 DEF Publish, PutPackage, PackagesDone, PutByHash, ByHashDone, PutCanonical,
         CanonicalDone, Sign, DeleteReleaseGpg, DeleteInRelease, PutRelease,
         PutReleaseGpg, PutInRelease
    <3>3. QED
      BY <3>1, <3>2
  <2>3. CASE Disturb(p)
    BY <2>3 DEF Disturb, GiveUp, UnlockFails, SigningFails, SignFails, StoreFails, Crash
  <2>4. CASE \/ Start(p) \/ TakeLock(p) \/ Unlock(p) \/ Answer(p) \/ SweepDone(p)
             \/ RetrieveSource(p) \/ ListManifest(p) \/ LookUp(p)
             \/ ListIndexes(p) \/ ScanIndex(p) \/ ListPool(p) \/ DeletePoolObject(p)
    BY <2>4 DEF Start, TakeLock, Unlock, Answer, SweepDone, RetrieveSource, ListManifest,
         LookUp, ListIndexes, ScanIndex, ListPool, DeletePoolObject
  <2>5. CASE \/ RetrieveRelease(p) \/ RetrieveManifest(p) \/ HeadPackage(p) \/ HeadsDone(p)
    BY <2>5 DEF RetrieveRelease, RetrieveManifest, HeadPackage, HeadsDone
  <2>6. QED
    BY <2>1, <2>2, <2>3, <2>4, <2>5 DEF Proceed
<1>4. ASSUME NEW q \in Runs \ {p}
      PROVE  /\ rel'[q] = rel[q] /\ batches'[q] = batches[q] /\ at'[q] = at[q]
             /\ work'[q] = work[q] /\ manifests'[q] = manifests[q] /\ refs'[q] = refs[q]
  <2>1. rel'[q] = rel[q] /\ batches'[q] = batches[q] /\ at'[q] = at[q]
    BY <1>1, <1>3
  <2>2. work'[q] = work[q] /\ manifests'[q] = manifests[q] /\ refs'[q] = refs[q]
    BY <1>1, <1>3
  <2>3. QED
    BY <2>1, <2>2
<1>5. QED
  BY <1>2, <1>4 DEF Lone, Single

\* Two runs never rewrite one codename at the same time.
LEMMA OneRewrites ==
  ASSUME ChangesUnderLock, SweepsUnderLock, TypeOK, WorksUnderLock,
         NEW p \in Runs, NEW q \in Runs, p # q,
         Rewriting(p), Rewriting(q), pc[p] \in Working, pc[q] \in Working
  PROVE  Codename(p) # Codename(q)
<1>1. ASSUME NEW r \in Runs, Rewriting(r) PROVE job[r].lock
  <2>1. job[r] \in JobsOf[r] /\ job[r] \in Jobs
    BY JobType DEF TypeOK
  <2>2. QED
    BY <1>1, <2>1 DEF ChangesUnderLock, SweepsUnderLock, Rewriting, Changing
<1>2. lockfile[Codename(p)] = p /\ lockfile[Codename(q)] = q
  BY <1>1 DEF WorksUnderLock, Working
<1>3. QED
  BY <1>2

\* A body that is there stays, unless clean deletes it.
BodiesKept(p) ==
  \A e : InPool(e) =>
    \/ InPool(e)'
    \/ pc[p] = "sweep" /\ work[p] # <<>> /\ e.filename = Head(work[p])

\* The step stores no plain index, but one of its own codename, under the lock,
\* whose entries have their bodies.
IndexesKept(p) ==
  \A c \in Codenames, n \in IndexNames :
    \/ index'[c][n] = index[c][n]
    \/ /\ c = Codename(p) /\ Changing(p) /\ pc[p] \in Working
       /\ AllBacked(c, PackagesOf(index[c][n]))'

\* What another run leaves alone of the codename.
Undisturbed(p, q) ==
  /\ \A c, n : c = Codename(q) /\ n \in IndexNames => index'[c][n] = index[c][n]
  /\ \A e : Backed(Codename(q), e) => InPool(e)'

\* A run that rewrites a codename sees no other one change it.
LEMMA OthersUndisturbed ==
  ASSUME SweepHypotheses, NEW p \in Runs, BodiesKept(p), IndexesKept(p),
         NEW q \in Runs, q # p, Rewriting(q), pc[q] \in Working
  PROVE  Undisturbed(p, q)
<1>1. TypeOK /\ WorksUnderLock /\ ChangesUnderLock /\ SweepsUnderLock
  BY DEF SweepHypotheses, TypeInv
<1>2. RunOK(p) /\ RunSwept(p) /\ Codename(q) \in Codenames
  BY CodenameType DEF SweepHypotheses, TypeInv, RunsOK, SweepInv
<1>3. ASSUME Rewriting(p), pc[p] \in Working PROVE Codename(p) # Codename(q)
  BY <1>1, <1>3, OneRewrites
<1>4. \A c, n : c = Codename(q) /\ n \in IndexNames => index'[c][n] = index[c][n]
  BY <1>2, <1>3 DEF IndexesKept, Rewriting
<1>5. ASSUME NEW e, Backed(Codename(q), e) PROVE InPool(e)'
  <2>1. CASE pc[p] = "sweep" /\ work[p] # <<>> /\ e.filename = Head(work[p])
    <3>1. job[p].op = "clean"
      BY <1>2, <2>1 DEF RunOK
    <3>2. Codename(p) # Codename(q)
      BY <1>3, <2>1, <3>1 DEF Rewriting, Working, Labels
    <3>3. work[p] \in Seq(PoolKeys)
      BY <1>1, <2>1 DEF TypeOK
    <3>4. Head(work[p]) \in ToSet(work[p])
      BY <2>1, <3>3, HeadTail
    <3>5. Head(work[p])[1] = Codename(p)
      BY <1>2, <2>1, <3>1, <3>4 DEF RunSwept, Spares
    <3>6. QED
      BY <1>5, <2>1, <3>2, <3>5 DEF Backed
  <2>2. QED
    BY <1>5, <2>1 DEF BodiesKept, Backed
<1>6. QED
  BY <1>4, <1>5 DEF Undisturbed

\* The runs that do not take the step keep their invariant.
LEMMA OthersSwept ==
  ASSUME SweepHypotheses, NEW p \in Runs, Lone(p), BodiesKept(p), IndexesKept(p),
         NEW q \in Runs, q # p
  PROVE  RunSwept(q)'
<1>1. /\ job' = job /\ pc'[q] = pc[q] /\ work'[q] = work[q] /\ manifests'[q] = manifests[q]
      /\ todo'[q] = todo[q] /\ kept'[q] = kept[q] /\ refs'[q] = refs[q]
      /\ batches'[q] = batches[q]
  BY DEF Lone
<1>2. Codename(q)' = Codename(q) /\ Pending(q)' = Pending(q) /\ (Changing(q)' <=> Changing(q))
  BY <1>1 DEF Codename, Pending, Changing
<1>3. RunSwept(q)
  BY DEF SweepHypotheses, SweepInv
<1>4. ASSUME Changing(q) PROVE HoldsBacked(q)'
  <2>1. HoldsBacked(q)
    BY <1>3, <1>4 DEF RunSwept
  <2>2. CASE pc[q] \in Working
    <3>1. \A e : Backed(Codename(q), e) => InPool(e)'
      BY <1>4, <2>2, OthersUndisturbed DEF Undisturbed, Rewriting
    <3>2. \A c, e : c = Codename(q) /\ Backed(c, e) => Backed(c, e)'
      BY <3>1 DEF Backed
    <3>3. \A c, packages : c = Codename(q) /\ AllBacked(c, packages) => AllBacked(c, packages)'
      BY <3>2 DEF AllBacked
    <3>4. pc'[q] = "manifests" => \A c, m : c = Codename(q) /\ m \in ToSet(manifests'[q])
                                    => AllBacked(c, m.packages)'
      BY <1>1, <2>1, <3>3 DEF HoldsBacked
    <3>5. job'[q].op = "copy" /\ pc'[q] \in {"release", "manifests"}
            => \A c : c = Codename(q) => AllBacked(c, kept[q])'
      BY <1>1, <2>1, <3>3 DEF HoldsBacked
    <3>6. pc'[q] = "packages" =>
            \A a \in Pending(q) : \A e \in ToSet(a.body) :
              e.filename[1] = Codename(q) /\ (InPool(e)' \/ e \in ToSet(work[q]))
      BY <1>1, <2>1, <3>1 DEF HoldsBacked, Backed
    <3>7. pc'[q] \in {"byHash", "canonical"} =>
            \A a \in Pending(q) : \A c : c = Codename(q) => AllBacked(c, a.body)'
      BY <1>1, <2>1, <3>3 DEF HoldsBacked
    <3>8. pc'[q] = "packages" /\ work'[q] # <<>> => job'[q].op = "upload"
      BY <1>1, <2>1 DEF HoldsBacked
    <3>9. QED
      BY <1>1, <1>2, <3>4, <3>5, <3>6, <3>7, <3>8 DEF HoldsBacked, AllBacked, Backed
  <2>3. CASE pc[q] \notin Working
    <3>1. pc'[q] \notin {"manifests", "release", "packages", "byHash", "canonical"}
      BY <1>1, <2>3 DEF Working, Labels
    <3>2. QED
      BY <3>1 DEF HoldsBacked
  <2>4. QED
    BY <2>2, <2>3
<1>5. ASSUME job[q].op = "clean" PROVE Spares(q)'
  <2>1. Spares(q)
    BY <1>3, <1>5 DEF RunSwept
  <2>2. CASE pc[q] \in {"scan", "sweep"}
    <3>1. \A c, n : c = Codename(q) /\ n \in IndexNames => index'[c][n] = index[c][n]
      BY <1>5, <2>2, OthersUndisturbed DEF Undisturbed, Rewriting, Working, Labels
    <3>2. pc[q] = "sweep" =>
            \A c, e : c = Codename(q) /\ e \in PlainEntries(c)' =>
              \A k \in ToSet(work[q]) : e.filename # k
      BY <2>1, <3>1 DEF Spares, PlainEntries
    <3>3. QED
      BY <1>1, <1>2, <2>1, <3>1, <3>2 DEF Spares
  <2>3. QED
    BY <1>1, <2>2 DEF Spares
<1>6. QED
  BY <1>1, <1>2, <1>4, <1>5 DEF RunSwept

\* The step keeps the invariant when its run does.
LEMMA StepSwept ==
  ASSUME SweepHypotheses, NEW p \in Runs, Lone(p), BodiesKept(p), IndexesKept(p),
         RunSwept(p)'
  PROVE  SweepInv'
<1>1. PlainBacked /\ RunSwept(p) /\ RunOK(p) /\ TypeOK
  BY DEF SweepHypotheses, SweepInv, TypeInv, RunsOK
<1>2. ASSUME NEW c \in Codenames, NEW e, e \in PlainEntries(c)'
      PROVE  Backed(c, e)'
  <2>1. PICK n \in IndexNames : n[3] = "Packages" /\ e \in ToSet(PackagesOf(index[c][n]))'
    BY <1>2 DEF PlainEntries
  <2>2. CASE index'[c][n] = index[c][n]
    <3>1. e \in PlainEntries(c)
      <4>1. e \in ToSet(PackagesOf(index[c][n]))
        BY <2>1, <2>2
      <4>2. QED
        BY <2>1, <4>1 DEF PlainEntries
    <3>2. Backed(c, e)
      BY <1>1, <3>1 DEF PlainBacked
    <3>3. ~(pc[p] = "sweep" /\ work[p] # <<>> /\ e.filename = Head(work[p]))
      <4>1. SUFFICES ASSUME pc[p] = "sweep" /\ work[p] # <<>> /\ e.filename = Head(work[p])
                     PROVE  FALSE
        OBVIOUS
      <4>2. job[p].op = "clean"
        BY <1>1, <4>1 DEF RunOK
      <4>3. work[p] \in Seq(PoolKeys)
        BY <1>1, <4>1 DEF TypeOK
      <4>4. Head(work[p]) \in ToSet(work[p])
        BY <4>1, <4>3, HeadTail
      <4>5. /\ Head(work[p])[1] = Codename(p)
            /\ \A f \in PlainEntries(Codename(p)) : f.filename # Head(work[p])
        BY <1>1, <4>1, <4>2, <4>4 DEF RunSwept, Spares
      <4>6. c = Codename(p)
        BY <3>2, <4>1, <4>5 DEF Backed
      <4>7. QED
        BY <3>1, <4>1, <4>5, <4>6
    <3>4. InPool(e)'
      BY <3>2, <3>3 DEF BodiesKept, Backed
    <3>5. QED
      BY <3>2, <3>4 DEF Backed
  <2>3. CASE index'[c][n] # index[c][n]
    <3>1. AllBacked(c, PackagesOf(index[c][n]))'
      BY <2>3 DEF IndexesKept
    <3>2. QED
      BY <2>1, <3>1 DEF AllBacked
  <2>4. QED
    BY <2>2, <2>3
<1>3. PlainBacked'
  BY <1>2 DEF PlainBacked
<1>4. \A q \in Runs : RunSwept(q)'
  BY OthersSwept
<1>5. QED
  BY <1>3, <1>4 DEF SweepInv

\* An upload does not replace the bodies that are there.
LEMMA PutPackageBodies ==
  ASSUME SweepHypotheses, NEW p \in Runs, PutPackage(p)
  PROVE  BodiesKept(p)
<1>1. /\ TypeOK /\ SweepsUnderLock /\ RunSwept(p) /\ RunKeeps(p)
      /\ pc[p] = "packages" /\ work[p] # <<>>
  BY DEF SweepHypotheses, TypeInv, SweepInv, KeepInv, PutPackage
<1>2. Changing(p)
  BY <1>1 DEF RunKeeps, WritingLabels
<1>3. job[p].op = "upload"
  BY <1>1, <1>2 DEF RunSwept, HoldsBacked
<1>4. job[p].failIfExists
  <2>1. job[p] \in Jobs
    BY <1>1, JobType
  <2>2. QED
    BY <1>1, <1>3, <2>1 DEF SweepsUnderLock
<1> DEFINE e == Head(work[p])
<1>5. \/ pool' = pool
      \/ /\ pool' = [pool EXCEPT ![e.filename] = e.sum]
         /\ pool[e.filename] \in {NoObject, e.sum}
  BY <1>4 DEF PutPackage, Refused
<1>6. \A k \in PoolKeys : pool[k] # NoObject => pool'[k] = pool[k]
  BY <1>1, <1>5 DEF TypeOK
<1>7. QED
  BY <1>6 DEF BodiesKept, InPool

\* No body is lost but to clean.
LEMMA StepBodies ==
  ASSUME SweepHypotheses, NEW p \in Runs, Proceed(p) \/ Disturb(p)
  PROVE  BodiesKept(p)
<1>1. TypeOK
  BY DEF SweepHypotheses, TypeInv
<1>2. CASE PutPackage(p)
  BY <1>2, PutPackageBodies
<1>3. CASE DeletePoolObject(p)
  <2>1. \A k \in PoolKeys : k # Head(work[p]) => pool'[k] = pool[k]
    BY <1>1, <1>3 DEF TypeOK, DeletePoolObject
  <2>2. QED
    BY <1>3, <2>1 DEF BodiesKept, InPool, DeletePoolObject
<1>4. CASE ~PutPackage(p) /\ ~DeletePoolObject(p)
  <2>1. pool' = pool
    BY <1>4, Zenon DEF Proceed, Disturb, store, Start, TakeLock, Unlock, RetrieveSource,
       RetrieveRelease, RetrieveManifest, HeadPackage, HeadsDone, ListManifest, Answer,
       LookUp, DecideUpload, DecideCopy, DecideDelete, DecideVerify, Decide, Publish,
       PackagesDone, PutByHash, ByHashDone, PutCanonical, CanonicalDone, Sign,
       DeleteReleaseGpg, DeleteInRelease, PutRelease, PutReleaseGpg, PutInRelease,
       ListIndexes, ScanIndex, ListPool, SweepDone, GiveUp, UnlockFails, SigningFails,
       SignFails, StoreFails, Crash
  <2>2. QED
    BY <2>1 DEF BodiesKept, InPool
<1>5. QED
  BY <1>2, <1>3, <1>4

\* No index is written but by the run whose codename it is in, with entries that
\* have their bodies.
LEMMA StepIndexes ==
  ASSUME SweepHypotheses, NEW p \in Runs, Proceed(p) \/ Disturb(p)
  PROVE  IndexesKept(p)
<1>1. TypeOK /\ RunSwept(p) /\ RunKeeps(p) /\ RunOK(p)
  BY DEF SweepHypotheses, TypeInv, SweepInv, KeepInv, RunsOK
<1>2. CASE PutCanonical(p)
  <2>1. Changing(p) /\ pc[p] = "canonical" /\ batches[p] # <<>> /\ ArtifactsLeft(p)
    BY <1>1, <1>2 DEF RunKeeps, PutCanonical, WritingLabels, RunOK
  <2>2. DEFINE a == Batch(p)[at[p]]
  <2>3. a \in Pending(p) /\ a.name \in IndexNames /\ a.body \in Packages
    <3>1. a.name \in IndexNames /\ a.body \in Packages
      BY <1>1, <2>1, ArtifactType
    <3>2. batches[p] \in Seq(Seq(Artifact)) /\ at[p] \in Nat \ {0}
      BY <1>1 DEF TypeOK
    <3>3. Batch(p) = batches[p][1] /\ 1 \in DOMAIN batches[p]
      BY <2>1, <3>2 DEF Batch
    <3>4. at[p] \in DOMAIN batches[p][1]
      <4>1. batches[p][1] \in Seq(Artifact)
        BY <3>2, <3>3
      <4>2. QED
        BY <2>1, <3>2, <3>3, <4>1 DEF ArtifactsLeft
    <3>5. a \in ToSet(batches[p][1])
      BY <3>3, <3>4 DEF ToSet
    <3>6. QED
      BY <3>1, <3>3, <3>5 DEF Pending
  <2>4. AllBacked(Codename(p), a.body) /\ a.body # NoObject
    <3>1. AllBacked(Codename(p), a.body)
      BY <1>1, <2>1, <2>3 DEF RunSwept, HoldsBacked
    <3>2. QED
      BY <2>3, <3>1, ObjectsAssumption
  <2>5. ASSUME NEW c \in Codenames, NEW n \in IndexNames, index'[c][n] # index[c][n]
        PROVE  c = Codename(p) /\ index'[c][n] = a.body
    <3>1. index' = [index EXCEPT ![Codename(p)][a.name] = a.body]
      BY <1>2 DEF PutCanonical
    <3>2. QED
      BY <1>1, <2>5, <3>1 DEF TypeOK
  <2>6. UNCHANGED pool
    BY <1>2 DEF PutCanonical
  <2>7. ASSUME NEW c \in Codenames, NEW n \in IndexNames, index'[c][n] # index[c][n]
        PROVE  AllBacked(c, PackagesOf(index[c][n]))'
    BY <2>4, <2>5, <2>6, <2>7 DEF AllBacked, Backed, InPool, PackagesOf
  <2>8. pc[p] \in Working
    BY <2>1 DEF Working, Labels
  <2>9. QED
    BY <2>1, <2>5, <2>7, <2>8 DEF IndexesKept
<1>3. CASE ~PutCanonical(p)
  <2>1. index' = index
    BY <1>3, Zenon DEF Proceed, Disturb, store, Start, TakeLock, Unlock, RetrieveSource,
       RetrieveRelease, RetrieveManifest, HeadPackage, HeadsDone, ListManifest, Answer,
       LookUp, DecideUpload, DecideCopy, DecideDelete, DecideVerify, Decide, Publish,
       PutPackage, PackagesDone, PutByHash, ByHashDone, CanonicalDone, Sign,
       DeleteReleaseGpg, DeleteInRelease, PutRelease, PutReleaseGpg, PutInRelease,
       ListIndexes, ScanIndex, ListPool, DeletePoolObject, SweepDone, GiveUp, UnlockFails,
       SigningFails, SignFails, StoreFails, Crash
  <2>2. QED
    BY <2>1 DEF IndexesKept
<1>4. QED
  BY <1>2, <1>3

---------------------------------------------------------------------------
(* What the run that takes the step holds *)

\* Where a run holds nothing that the invariant is about.
LEMMA RestSwept ==
  ASSUME job' = job, NEW p \in Runs,
         pc'[p] \notin {"manifests", "packages", "byHash", "canonical", "scan", "sweep"},
         pc'[p] = "release" => job[p].op # "copy"
  PROVE  RunSwept(p)'
  BY DEF RunSwept, HoldsBacked, Spares

\* Queries and verify hold nothing of it either.
LEMMA QuerySwept ==
  ASSUME job' = job, NEW p \in Runs, ~Rewriting(p)
  PROVE  RunSwept(p)'
  BY DEF RunSwept, Rewriting, Changing

\* The indexes that clean has listed are all that it has to look at.
LEMMA ListIndexesSwept ==
  ASSUME SweepHypotheses, NEW p \in Runs, ListIndexes(p)
  PROVE  RunSwept(p)'
<1> DEFINE S == {k \in Codenames \X IndexNames :
                   k[2][3] = "Packages" /\ index[k[1]][k[2]] # NoObject}
<1>1. TypeOK /\ RunOK(p) /\ Codename(p) \in Codenames
  BY CodenameType DEF SweepHypotheses, TypeInv, RunsOK
<1>2. IsFiniteSet(S)
  <2>1. IsFiniteSet(Codenames \X IndexNames)
    BY IndexNamesFinite, RepositoryAssumption, FS_Product
  <2>2. S \subseteq Codenames \X IndexNames
    OBVIOUS
  <2> HIDE DEF S
  <2>3. QED
    BY <2>1, <2>2, FS_Subset
<1>3. /\ job[p].op = "clean" /\ pc'[p] = "scan" /\ job' = job
      /\ todo'[p] = SetToSeq(S) /\ UNCHANGED index
  BY <1>1 DEF ListIndexes, InListOrder, Goto, TypeOK, store, memory, RunOK
<1>4. ToSet(todo'[p]) = S
  <2> HIDE DEF S
  <2>1. QED
    BY <1>2, <1>3, SetToSeqFacts
<1>5. \A c, n : c = Codename(p) /\ n \in IndexNames /\ n[3] = "Packages"
                  /\ index[c][n] # NoObject => <<c, n>> \in S
  BY <1>1
<1> HIDE DEF S
<1>6. Codename(p)' = Codename(p)
  BY <1>3 DEF Codename
<1>7. Spares(p)'
  BY <1>3, <1>4, <1>5, <1>6 DEF Spares
<1>8. QED
  BY <1>3, <1>7 DEF RunSwept, Changing

\* What the next index lists is referenced.
LEMMA ScanIndexSwept ==
  ASSUME SweepHypotheses, NEW p \in Runs, ScanIndex(p)
  PROVE  RunSwept(p)'
<1>1. TypeOK /\ RunOK(p) /\ RunSwept(p) /\ Codename(p) \in Codenames
  BY CodenameType DEF SweepHypotheses, TypeInv, RunsOK, SweepInv
<1>2. /\ job[p].op = "clean" /\ pc[p] = "scan" /\ pc' = pc /\ job' = job
      /\ todo[p] # <<>> /\ todo[p] \in Seq(Codenames \X IndexNames)
      /\ todo'[p] = Tail(todo[p]) /\ UNCHANGED index
  BY <1>1 DEF ScanIndex, TypeOK, store, memory, RunOK
<1> DEFINE k == Head(todo[p])
<1>3. refs'[p] = refs[p] \cup {e.filename : e \in ToSet(index[k[1]][k[2]])}
  BY <1>1 DEF ScanIndex, TypeOK
<1>4. ToSet(todo[p]) = {k} \cup ToSet(todo'[p])
  BY <1>2, HeadTail
<1>5. Spares(p)
  BY <1>1, <1>2 DEF RunSwept
<1>6. ASSUME NEW c, NEW n \in IndexNames, c = Codename(p), n[3] = "Packages",
             index[c][n] # NoObject
      PROVE  \/ <<c, n>> \in ToSet(todo'[p])
             \/ \A e \in ToSet(index[c][n]) : e.filename \in refs'[p]
  <2>1. CASE <<c, n>> = k
    BY <1>3, <2>1
  <2>2. CASE <<c, n>> # k
    <3>1. \/ <<c, n>> \in ToSet(todo[p])
          \/ \A e \in ToSet(index[c][n]) : e.filename \in refs[p]
      BY <1>2, <1>5, <1>6 DEF Spares
    <3>2. QED
      BY <1>3, <1>4, <2>2, <3>1
  <2>3. QED
    BY <2>1, <2>2
<1>7. Codename(p)' = Codename(p)
  BY <1>2 DEF Codename
<1>8. Spares(p)'
  BY <1>2, <1>6, <1>7 DEF Spares
<1>9. QED
  BY <1>2, <1>8 DEF RunSwept, Changing

\* When every index was looked at, none lists a key that is going to be deleted.
LEMMA ListPoolSwept ==
  ASSUME SweepHypotheses, NEW p \in Runs, ListPool(p)
  PROVE  RunSwept(p)'
<1> DEFINE S == {k \in PoolKeys : /\ k[1] = Codename(p)
                                  /\ pool[k] # NoObject
                                  /\ k \notin refs[p]}
<1>1. TypeOK /\ RunOK(p) /\ RunSwept(p)
  BY DEF SweepHypotheses, TypeInv, RunsOK, SweepInv
<1>2. IsFiniteSet(S)
  <2>1. IsFiniteSet(PoolKeys)
    BY RepositoryAssumption, FS_Product DEF PoolKeys
  <2>2. S \subseteq PoolKeys
    OBVIOUS
  <2> HIDE DEF S
  <2>3. QED
    BY <2>1, <2>2, FS_Subset
<1>3. /\ job[p].op = "clean" /\ pc[p] = "scan" /\ pc'[p] = "sweep" /\ job' = job
      /\ todo[p] = <<>> /\ work'[p] = SetToSeq(S) /\ UNCHANGED index
  BY <1>1 DEF ListPool, InListOrder, Goto, TypeOK, store, reading, RunOK
<1>4. ToSet(work'[p]) = S
  <2> HIDE DEF S
  <2>1. QED
    BY <1>2, <1>3, SetToSeqFacts
<1>5. ToSet(todo[p]) = {} /\ ToSet(<<>>) = {}
  BY <1>3 DEF ToSet
<1>6. ASSUME NEW c, NEW e, c = Codename(p), e \in PlainEntries(c)
      PROVE  e.filename \in refs[p]
  <2>1. PICK n \in IndexNames : n[3] = "Packages" /\ e \in ToSet(PackagesOf(index[c][n]))
    BY <1>6 DEF PlainEntries
  <2>2. index[c][n] # NoObject /\ e \in ToSet(index[c][n])
    BY <1>5, <2>1 DEF PackagesOf
  <2>3. Spares(p)
    BY <1>1, <1>3 DEF RunSwept
  <2>4. QED
    BY <1>3, <1>5, <1>6, <2>1, <2>2, <2>3 DEF Spares
<1>7. \A c : PlainEntries(c)' = PlainEntries(c)
  BY <1>3 DEF PlainEntries
<1>8. Codename(p)' = Codename(p)
  BY <1>3 DEF Codename
<1>9. \A k \in ToSet(work'[p]) :
        k[1] = Codename(p) /\ \A e \in PlainEntries(Codename(p)) : e.filename # k
  BY <1>4, <1>6
<1> HIDE DEF S
<1>10. Spares(p)'
  BY <1>3, <1>7, <1>8, <1>9 DEF Spares
<1>11. QED
  BY <1>3, <1>10 DEF RunSwept, Changing

\* The keys that are left are the ones that may be deleted.
LEMMA DeletePoolObjectSwept ==
  ASSUME SweepHypotheses, NEW p \in Runs, DeletePoolObject(p)
  PROVE  RunSwept(p)'
<1>1. TypeOK /\ RunOK(p) /\ RunSwept(p)
  BY DEF SweepHypotheses, TypeInv, RunsOK, SweepInv
<1>2. /\ job[p].op = "clean" /\ pc[p] = "sweep" /\ pc' = pc /\ job' = job
      /\ work[p] # <<>> /\ work[p] \in Seq(PoolKeys)
      /\ work'[p] = Tail(work[p]) /\ UNCHANGED index
  BY <1>1 DEF DeletePoolObject, TypeOK, RunOK
<1>3. ToSet(work'[p]) \subseteq ToSet(work[p])
  BY <1>2, HeadTail
<1>4. Spares(p)
  BY <1>1, <1>2 DEF RunSwept
<1>5. \A c : PlainEntries(c)' = PlainEntries(c)
  BY <1>2 DEF PlainEntries
<1>6. Codename(p)' = Codename(p)
  BY <1>2 DEF Codename
<1>7. Spares(p)'
  BY <1>2, <1>3, <1>4, <1>5, <1>6 DEF Spares
<1>8. QED
  BY <1>2, <1>7 DEF RunSwept, Changing

\* What the plain index of the codename lists has its bodies.
LEMMA IndexBacked ==
  ASSUME PlainBacked, NEW c \in Codenames, NEW n \in IndexNames, n[3] = "Packages",
         NEW packages, ToSet(packages) \subseteq ToSet(PackagesOf(index[c][n]))
  PROVE  AllBacked(c, packages)
  BY DEF PlainBacked, PlainEntries, AllBacked

\* With the pool and the codename, what has its bodies stays as it is.
LEMMA BackedSame ==
  ASSUME UNCHANGED <<pool, job>>
  PROVE  /\ \A q : Codename(q)' = Codename(q) /\ (Changing(q)' <=> Changing(q))
         /\ \A c, packages : AllBacked(c, packages)' <=> AllBacked(c, packages)
         /\ \A e : InPool(e)' <=> InPool(e)
  BY DEF Codename, Changing, AllBacked, Backed, InPool

\* copy selects from an index of its own codename.
LEMMA RetrieveSourceSwept ==
  ASSUME SweepHypotheses, NEW p \in Runs, RetrieveSource(p)
  PROVE  RunSwept(p)'
<1>1. /\ TypeOK /\ RunOK(p) /\ PlainBacked /\ SweepsUnderLock
      /\ Codename(p) \in Codenames /\ job[p] \in Jobs
  BY CodenameType, JobType DEF SweepHypotheses, TypeInv, RunsOK, SweepInv
<1> DEFINE j == job[p]
           n == <<j.source[2], j.arch, "Packages">>
           packages == PackagesOf(index[j.source[1]][n])
<1>2. /\ j.op = "copy" /\ pc'[p] = "release" /\ UNCHANGED <<pool, job>>
      /\ kept'[p] = Selected(j, packages)
  BY <1>1 DEF RetrieveSource, Goto, TypeOK, store, memory, RunOK
<1>3. j.source[1] = Codename(p)
  BY <1>1, <1>2 DEF SweepsUnderLock, Codename
<1>4. n \in IndexNames
  BY <1>1, <1>2, JobFacts, PlainName DEF IsJob
<1>5. packages \in Packages
  BY <1>1, <1>3, <1>4, IndexType
<1>6. ToSet(Selected(j, packages)) \subseteq ToSet(packages)
  BY <1>5, KeptOf DEF Selected
<1>7. \A c : c = Codename(p) => AllBacked(c, Selected(j, packages))
  BY <1>1, <1>3, <1>4, <1>6, IndexBacked
<1>8. \A c : c = Codename(p) => AllBacked(c, kept[p])'
  BY <1>2, <1>7, BackedSame
<1>9. HoldsBacked(p)'
  BY <1>2, <1>8, BackedSame DEF HoldsBacked
<1>10. QED
  BY <1>2, <1>9 DEF RunSwept

\* No manifest is in memory yet; what copy selected stays.
LEMMA RetrieveReleaseSwept ==
  ASSUME SweepHypotheses, NEW p \in Runs, RetrieveRelease(p)
  PROVE  RunSwept(p)'
<1>1. TypeOK /\ RunOK(p) /\ RunSwept(p)
  BY DEF SweepHypotheses, TypeInv, RunsOK, SweepInv
<1>2. /\ pc[p] = "release" /\ pc'[p] = "manifests" /\ UNCHANGED <<pool, job>>
      /\ manifests'[p] = <<>> /\ kept' = kept
  BY <1>1 DEF RetrieveRelease, Goto, TypeOK, store, RunOK
<1>3. ToSet(<<>>) = {}
  BY DEF ToSet
<1>4. ASSUME Changing(p) PROVE HoldsBacked(p)'
  <2>1. job[p].op = "copy" => \A c : c = Codename(p) => AllBacked(c, kept[p])'
    BY <1>1, <1>2, <1>4, BackedSame DEF RunSwept, HoldsBacked
  <2>2. \A c, m : m \in ToSet(manifests'[p]) => AllBacked(c, m.packages)'
    BY <1>2, <1>3
  <2>3. QED
    BY <1>2, <2>1, <2>2, BackedSame DEF HoldsBacked
<1>5. QED
  BY <1>2, <1>4, BackedSame DEF RunSwept, Spares

\* A manifest that is read, or what delete leaves of it.
LEMMA RetrieveManifestSwept ==
  ASSUME SweepHypotheses, NEW p \in Runs, RetrieveManifest(p)
  PROVE  RunSwept(p)'
<1>1. /\ TypeOK /\ RunOK(p) /\ RunSwept(p) /\ PlainBacked
      /\ Codename(p) \in Codenames /\ job[p] \in Jobs /\ job[p] \in JobsOf[p]
  BY CodenameType, JobType DEF SweepHypotheses, TypeInv, TypeOK, RunsOK, SweepInv
<1>2. job[p].op # "verify" /\ job[p].op # "clean"
  BY <1>1 DEF SweepHypotheses, ChangesUnderLock, RetrieveManifest, RunOK
<1> DEFINE j == job[p]
           n == <<j.component, Head(todo[p]), "Packages">>
           packages == PackagesOf(index[j.codename][n])
           left == IF j.op = "delete"
                   THEN DeletePackage(packages, j.name, j.all, j.versions) ELSE packages
           new == [component |-> j.component, arch |-> Head(todo[p]), packages |-> left]
<1>3. /\ pc[p] = "manifests" /\ pc' = pc /\ todo[p] # <<>>
      /\ UNCHANGED <<pool, job, kept>>
      /\ manifests'[p] \in {manifests[p], Append(manifests[p], new)}
  BY <1>1, <1>2 DEF RetrieveManifest, TypeOK, store
<1>4. n \in IndexNames
  <2>1. todo[p] \in Seq(Archs)
    BY <1>1, <1>2 DEF RunOK
  <2>2. Head(todo[p]) \in Archs
    BY <1>3, <2>1
  <2>3. QED
    BY <1>1, <2>2, JobFacts, PlainName
<1>5. ToSet(left) \subseteq ToSet(packages)
  <2>1. packages \in Packages
    BY <1>1, <1>4, IndexType DEF Codename
  <2>2. ToSet(DeletePackage(packages, j.name, j.all, j.versions)) \subseteq ToSet(packages)
    BY <2>1, KeptOf DEF DeletePackage
  <2>3. QED
    BY <2>2
<1>6. AllBacked(Codename(p), left)
  BY <1>1, <1>4, <1>5, IndexBacked DEF Codename
<1>7. ASSUME Changing(p) PROVE HoldsBacked(p)'
  <2>1. HoldsBacked(p)
    BY <1>1, <1>7 DEF RunSwept
  <2>2. ASSUME NEW m \in ToSet(manifests'[p]) PROVE AllBacked(Codename(p), m.packages)
    <3>1. manifests[p] \in Seq(Manifest)
      BY <1>1 DEF TypeOK
    <3>2. ToSet(Append(manifests[p], new)) = ToSet(manifests[p]) \cup {new}
      BY <3>1, AppendRange
    <3>3. m \in ToSet(manifests[p]) \/ m = new
      BY <1>3, <2>2, <3>2
    <3>4. QED
      BY <1>3, <1>6, <2>1, <3>3 DEF HoldsBacked
  <2>3. \A c, m : c = Codename(p) /\ m \in ToSet(manifests'[p]) => AllBacked(c, m.packages)'
    BY <1>3, <2>2, BackedSame
  <2>4. job[p].op = "copy" => \A c : c = Codename(p) => AllBacked(c, kept[p])'
    BY <1>3, <2>1, BackedSame DEF HoldsBacked
  <2>5. QED
    BY <1>3, <2>3, <2>4, BackedSame DEF HoldsBacked
<1>8. QED
  BY <1>2, <1>3, <1>7, BackedSame DEF RunSwept

\* The body that is put is that of an entry; the others are there, or still to
\* be put.
LEMMA PutPackageSwept ==
  ASSUME SweepHypotheses, NEW p \in Runs, PutPackage(p)
  PROVE  RunSwept(p)'
<1>1. TypeOK /\ RunOK(p) /\ RunSwept(p) /\ RunKeeps(p)
  BY DEF SweepHypotheses, TypeInv, RunsOK, SweepInv, KeepInv
<1>2. /\ pc[p] = "packages" /\ work[p] # <<>> /\ UNCHANGED <<job, batches>>
      /\ Changing(p) /\ HoldsBacked(p) /\ work[p] \in Packages
  <2>1. Changing(p)
    BY <1>1 DEF RunKeeps, PutPackage, WritingLabels
  <2>2. QED
    BY <1>1, <2>1 DEF PutPackage, RunSwept, TypeOK, Changing
<1>3. CASE Refused(p, Head(work[p]))
  <2>1. pc'[p] \in {"unlock", "ended"}
    BY <1>1, <1>3 DEF PutPackage, Finish, Goto, TypeOK
  <2>2. QED
    BY <1>2, <2>1, RestSwept
<1>4. CASE ~Refused(p, Head(work[p]))
  <2> DEFINE e == Head(work[p])
  <2>1. /\ pool' = [pool EXCEPT ![e.filename] = e.sum]
        /\ work' = [work EXCEPT ![p] = Tail(@)] /\ pc' = pc
    BY <1>4 DEF PutPackage
  <2>2. ToSet(work[p]) = {e} \cup ToSet(work'[p]) /\ e \in AllEntries
    <3>1. ToSet(work[p]) = {e} \cup ToSet(Tail(work[p])) /\ e \in AllEntries
      BY <1>2, HeadTail DEF Packages
    <3>2. work'[p] = Tail(work[p])
      BY <1>1, <2>1 DEF TypeOK
    <3>3. QED
      BY <3>1, <3>2
  <2>3. \A f : f = e => InPool(f)'
    <3>1. e.filename \in PoolKeys /\ e.sum # NoObject
      BY <2>2, EntryFacts
    <3>2. pool'[e.filename] = e.sum
      BY <1>1, <2>1, <3>1 DEF TypeOK
    <3>3. QED
      BY <3>1, <3>2 DEF InPool
  <2>4. ASSUME NEW f, InPool(f) PROVE InPool(f)'
    <3>1. BodiesKept(p)
      BY PutPackageBodies
    <3>2. QED
      BY <1>2, <2>4, <3>1 DEF BodiesKept
  <2>5. ASSUME NEW a \in Pending(p), NEW f \in ToSet(a.body)
        PROVE  f.filename[1] = Codename(p) /\ (InPool(f)' \/ f \in ToSet(work'[p]))
    <3>1. f.filename[1] = Codename(p) /\ (InPool(f) \/ f \in ToSet(work[p]))
      BY <1>2 DEF HoldsBacked
    <3>2. CASE f = e
      <4>1. InPool(f)'
        BY <2>3, <3>2
      <4>2. QED
        BY <3>1, <4>1
    <3>3. CASE f # e
      BY <2>2, <2>4, <3>1, <3>3
    <3>4. QED
      BY <3>2, <3>3
  <2>6. /\ Codename(p)' = Codename(p) /\ Pending(p)' = Pending(p)
    BY <1>2 DEF Codename, Pending
  <2>7. pc'[p] = "packages" /\ job[p].op = "upload"
    BY <1>2, <2>1 DEF HoldsBacked
  <2>8. HoldsBacked(p)'
    BY <1>2, <2>5, <2>6, <2>7 DEF HoldsBacked
  <2>9. QED
    BY <1>2, <2>7, <2>8 DEF RunSwept
<1>5. QED
  BY <1>3, <1>4

\* After the last body, what is pending has its bodies, and stays so.
LEMMA IndexesSwept ==
  ASSUME SweepHypotheses, NEW p \in Runs,
         PackagesDone(p) \/ PutByHash(p) \/ ByHashDone(p) \/ PutCanonical(p)
           \/ CanonicalDone(p)
  PROVE  RunSwept(p)'
<1> USE DEF Goto, store, memory
<1>1. /\ TypeOK /\ RunOK(p) /\ RunSwept(p) /\ RunKeeps(p)
      /\ batches \in [Runs -> Seq(Seq(Artifact))] /\ pc \in [Runs -> Labels]
  BY DEF SweepHypotheses, TypeInv, TypeOK, RunsOK, SweepInv, KeepInv
<1>2. /\ pc[p] \in {"packages", "byHash", "canonical"} /\ UNCHANGED <<pool, job>>
      /\ pc'[p] \in {"byHash", "canonical", "sign", "deleteGpg"}
      /\ pc[p] = "packages" => work[p] = <<>>
  BY <1>1 DEF PackagesDone, PutByHash, ByHashDone, PutCanonical, CanonicalDone, AfterIndexes
<1>3. Changing(p) /\ HoldsBacked(p)
  BY <1>1, <1>2 DEF RunKeeps, WritingLabels, RunSwept
<1>4. Pending(p)' \subseteq Pending(p)
  <2>1. CASE CanonicalDone(p)
    <3>1. batches'[p] = Tail(batches[p]) /\ batches[p] # <<>>
      BY <1>1, <2>1 DEF CanonicalDone, RunOK
    <3>2. \A k \in DOMAIN Tail(batches[p]) :
            k + 1 \in DOMAIN batches[p] /\ Tail(batches[p])[k] = batches[p][k + 1]
      BY <1>1, <3>1
    <3>3. QED
      BY <3>1, <3>2 DEF Pending
  <2>2. CASE PackagesDone(p) \/ PutByHash(p) \/ ByHashDone(p) \/ PutCanonical(p)
    <3>1. batches' = batches
      BY <2>2 DEF PackagesDone, PutByHash, ByHashDone, PutCanonical
    <3>2. QED
      BY <3>1 DEF Pending
  <2>3. QED
    BY <2>1, <2>2
<1>5. \A a \in Pending(p) : AllBacked(Codename(p), a.body)
  <2>1. ToSet(<<>>) = {}
    BY DEF ToSet
  <2>2. QED
    BY <1>2, <1>3, <2>1 DEF HoldsBacked, AllBacked, Backed
<1>6. \A c, a : c = Codename(p) /\ a \in Pending(p)' => AllBacked(c, a.body)'
  BY <1>2, <1>4, <1>5, BackedSame
<1>7. HoldsBacked(p)'
  BY <1>2, <1>6, BackedSame DEF HoldsBacked
<1>8. QED
  BY <1>2, <1>7 DEF RunSwept, Spares

\* What a command decides to publish has its bodies, or brings them.
LEMMA DecideSwept ==
  ASSUME SweepHypotheses, NEW p \in Runs,
         DecideUpload(p) \/ DecideCopy(p) \/ DecideDelete(p) \/ DecideVerify(p)
  PROVE  RunSwept(p)'
<1>1. /\ TypeInv /\ TypeOK /\ RunSwept(p) /\ RunKeeps(p) /\ job[p] \in Jobs
      /\ job[p] \in JobsOf[p] /\ manifests[p] \in Seq(Manifest)
  BY JobType DEF SweepHypotheses, TypeInv, TypeOK, SweepInv, KeepInv
<1>2. pc[p] = "manifests" /\ job' = job /\ pool' = pool /\ Changing(p)
  <2>1. job[p].op # "verify"
    BY <1>1 DEF SweepHypotheses, ChangesUnderLock
  <2>2. QED
    BY <2>1 DEF DecideUpload, DecideCopy, DecideDelete, DecideVerify, Decide, store, Changing
<1>3. HoldsBacked(p) /\ PlacesRead(p)
  BY <1>1, <1>2 DEF RunSwept, RunKeeps
<1>4. job[p].op = "upload" => ~job[p].skipUpload
  BY <1>1 DEF SweepHypotheses, SweepsUnderLock
<1>5. ASSUME NEW changed \in Seq(Manifest), NEW uploads \in Packages,
             Prepare(p, changed, uploads), Brings(p, changed, uploads)
      PROVE  RunSwept(p)'
  <2>1. pc'[p] = "packages" /\ work'[p] = uploads
    BY <1>1, <1>5 DEF Prepare, Goto, TypeOK
  <2>2. ASSUME NEW m \in ToSet(changed), NEW e \in ToSet(m.packages)
        PROVE  e.filename[1] = Codename(p) /\ (InPool(e) \/ e \in ToSet(uploads))
    <3>1. job[p].op = "copy" => AllBacked(Codename(p), kept[p])
      BY <1>2, <1>3 DEF HoldsBacked
    <3>2. \A x \in ToSet(manifests[p]) : AllBacked(Codename(p), x.packages)
      BY <1>2, <1>3 DEF HoldsBacked
    <3>3. QED
      BY <1>5, <3>1, <3>2 DEF Brings, AllBacked, Backed
  <2>3. ASSUME NEW a \in Pending(p)', NEW e \in ToSet(a.body)
        PROVE  e.filename[1] = Codename(p) /\ (InPool(e) \/ e \in ToSet(uploads))
    <3>1. a.body = <<>> \/ \E m \in ToSet(changed) : a.body = m.packages
      BY <1>1, <1>5, PreparedBodies
    <3>2. ToSet(<<>>) = {}
      BY DEF ToSet
    <3>3. QED
      BY <2>2, <2>3, <3>1, <3>2
  <2>4. work'[p] # <<>> => job[p].op = "upload"
    BY <1>5, <2>1 DEF Brings
  <2>5. HoldsBacked(p)'
    BY <1>2, <2>1, <2>3, <2>4, BackedSame DEF HoldsBacked
  <2>6. QED
    BY <1>2, <2>1, <2>5 DEF RunSwept, Spares
<1>6. ASSUME NEW how, Nothing(p, how) PROVE RunSwept(p)'
  <2>1. pc'[p] \in {"unlock", "ended"}
    BY <1>1, <1>6 DEF Nothing, Finish, Goto, TypeOK
  <2>2. QED
    BY <1>2, <2>1, RestSwept
<1>7. job[p].op # "verify"
  BY <1>2 DEF Changing
<1>8. QED
  BY <1>1, <1>3, <1>4, <1>5, <1>6, <1>7, DecidesBring

---------------------------------------------------------------------------
(* The theorem on clean *)

\* Every step of a run keeps the invariant.
LEMMA RunsSwept ==
  ASSUME SweepHypotheses, NEW p \in Runs, Proceed(p) \/ Disturb(p)
  PROVE  SweepInv'
<1>1. /\ TypeOK /\ RunOK(p) /\ Shape /\ pc \in [Runs -> Labels]
  BY DEF SweepHypotheses, TypeInv, RunsOK, TypeOK
<1>2. Lone(p) /\ BodiesKept(p) /\ IndexesKept(p)
  BY <1>1, StepLone, StepBodies, StepIndexes
<1>3. job' = job
  BY <1>2 DEF Lone
<1>4. CASE \/ PutPackage(p)
           \/ PackagesDone(p) \/ PutByHash(p) \/ ByHashDone(p)
           \/ PutCanonical(p) \/ CanonicalDone(p)
           \/ DecideUpload(p) \/ DecideCopy(p) \/ DecideDelete(p) \/ DecideVerify(p)
           \/ RetrieveSource(p) \/ RetrieveRelease(p) \/ RetrieveManifest(p)
           \/ ListIndexes(p) \/ ScanIndex(p) \/ ListPool(p) \/ DeletePoolObject(p)
  <2>1. RunSwept(p)'
    BY <1>4, PutPackageSwept, IndexesSwept, DecideSwept, RetrieveSourceSwept,
       RetrieveReleaseSwept, RetrieveManifestSwept, ListIndexesSwept, ScanIndexSwept,
       ListPoolSwept, DeletePoolObjectSwept
  <2>2. QED
    BY <1>2, <2>1, StepSwept
<1>5. CASE ListManifest(p) \/ HeadPackage(p) \/ HeadsDone(p)
  <2>1. job[p].op \in {"list", "verify"}
    BY <1>1, <1>5 DEF ListManifest, HeadPackage, HeadsDone, RunOK
  <2>2. RunSwept(p)'
    BY <1>3, <2>1, QuerySwept DEF Rewriting, Changing
  <2>3. QED
    BY <1>2, <2>2, StepSwept
<1>6. CASE Start(p) \/ TakeLock(p)
  <2>1. pc'[p] = "lock" \/ pc'[p] = FirstRead(p)
    BY <1>1, <1>6 DEF Start, TakeLock, Goto
  <2>2. /\ FirstRead(p) \in {"source", "list", "lookup", "release"}
        /\ job[p].op = "copy" => FirstRead(p) = "source"
    BY FirstReadLabel DEF FirstRead
  <2>3. RunSwept(p)'
    BY <1>3, <2>1, <2>2, RestSwept
  <2>4. QED
    BY <1>2, <2>3, StepSwept
<1>7. CASE \/ GiveUp(p) \/ Unlock(p) \/ Answer(p) \/ LookUp(p) \/ SweepDone(p)
           \/ StoreFails(p) \/ UnlockFails(p) \/ SigningFails(p) \/ Crash(p)
           \/ Sign(p) \/ DeleteReleaseGpg(p) \/ DeleteInRelease(p)
           \/ PutRelease(p) \/ PutReleaseGpg(p) \/ PutInRelease(p)
  <2>1. pc'[p] \in {"unlock", "ended", "deleteInRelease", "putRelease", "putGpg",
                    "putInRelease"}
    BY <1>1, <1>7 DEF GiveUp, Unlock, Answer, LookUp, SweepDone, StoreFails, UnlockFails,
       SigningFails, SignFails, Crash, Sign, DeleteReleaseGpg, DeleteInRelease,
       PutRelease, PutReleaseGpg, PutInRelease, Finish, Goto
  <2>2. RunSwept(p)'
    BY <1>3, <2>1, RestSwept
  <2>3. QED
    BY <1>2, <2>2, StepSwept
<1>8. QED
  BY <1>4, <1>5, <1>6, <1>7 DEF Proceed, Disturb, Publish

\* Steps in which no run takes part.
LEMMA IdleSwept ==
  ASSUME SweepInv,
         UNCHANGED <<pool, index, pc, job, batches, work, manifests, todo, kept, refs>>
  PROVE  SweepInv'
<1>1. /\ \A c : PlainEntries(c)' = PlainEntries(c)
      /\ \A p : Codename(p)' = Codename(p) /\ Pending(p)' = Pending(p)
      /\ \A p : Changing(p)' <=> Changing(p)
  BY DEF PlainEntries, Codename, Pending, Changing
<1>2. PlainBacked'
  BY <1>1 DEF SweepInv, PlainBacked, Backed, InPool
<1>3. ASSUME NEW p \in Runs PROVE RunSwept(p)'
  <2>1. RunSwept(p)
    BY DEF SweepInv
  <2>2. HoldsBacked(p)' <=> HoldsBacked(p)
    BY <1>1 DEF HoldsBacked, AllBacked, Backed, InPool
  <2>3. Spares(p)' <=> Spares(p)
    BY <1>1 DEF Spares
  <2>4. QED
    BY <1>1, <2>1, <2>2, <2>3 DEF RunSwept
<1>4. QED
  BY <1>2, <1>3 DEF SweepInv

\* Nothing is stored yet.
LEMMA InitSwept == Init => SweepInv
<1> SUFFICES ASSUME Init PROVE SweepInv
  OBVIOUS
<1>1. ToSet(<<>>) = {}
  BY DEF ToSet
<1>2. \A c \in Codenames : PlainEntries(c) = {}
  BY <1>1 DEF Init, PlainEntries, PackagesOf
<1>3. \A p \in Runs : pc[p] = "start"
  BY DEF Init
<1>4. QED
  BY <1>2, <1>3 DEF SweepInv, PlainBacked, RunSwept, HoldsBacked, Spares

\* Every step keeps the invariant.
LEMMA NextSwept ==
  ASSUME Fenced, SweepHypotheses, [Next]_vars
  PROVE  SweepInv'
<1>1. SweepInv
  BY DEF SweepHypotheses
<1>2. \A p \in Runs : ~LateCall(p)
  BY DEF LateCall, Fenced
<1>3. ASSUME NEW c \in Codenames, BreakLock(c) PROVE SweepInv'
  BY <1>1, <1>3, IdleSwept DEF BreakLock, memory, reading
<1>4. CASE UNCHANGED vars
  BY <1>1, <1>4, IdleSwept DEF vars, store, memory, reading
<1>5. QED
  BY <1>2, <1>3, <1>4, RunsSwept DEF Next, Terminated

\* The invariant holds when the commands that change indexes or sweep the pool
\* take the lock.
LEMMA SweepInvHolds ==
  ASSUME ChangesUnderLock, SweepsUnderLock, Fenced
  PROVE  Spec => []SweepInv
<1>1. Init => TypeInv /\ SweepInv
  BY InitType, InitSwept
<1>2. TypeInv /\ Shape /\ WorksUnderLock /\ KeepInv /\ SweepInv /\ [Next]_vars
        => (TypeInv /\ SweepInv)'
  BY NextType, NextSwept DEF SweepHypotheses
<1>3. QED
  BY <1>1, <1>2, ShapeHolds, LockDiscipline, KeepInvHolds, PTL DEF Spec

\* What the plain indexes list can be retrieved.
LEMMA SweepImplies == ASSUME SweepInv PROVE IndexedPackagesExist
<1> SUFFICES ASSUME NEW c \in Codenames, NEW n \in IndexNames, n[3] = "Packages",
                    index[c][n] # NoObject, NEW e \in ToSet(index[c][n])
             PROVE  Retrievable(c, e)
  BY DEF IndexedPackagesExist
<1>1. e \in PlainEntries(c)
  BY DEF PlainEntries, PackagesOf
<1>2. QED
  BY <1>1 DEF SweepInv, PlainBacked, Backed, InPool, Retrievable

\* clean deletes nothing that an index of its codename lists or is about to: it
\* reads all plain indexes before it lists the pool, and the lock keeps everyone
\* else from writing an index or a body in between, whatever ran before it and
\* however it ended. Bodies stay unreplaced as uploads are given
\* --fail-if-exists.
THEOREM CleanSpares ==
  ASSUME ChangesUnderLock, SweepsUnderLock, Fenced
  PROVE  Spec => []IndexedPackagesExist
<1>1. SweepInv => IndexedPackagesExist
  BY SweepImplies
<1>2. QED
  BY <1>1, SweepInvHolds, PTL

---------------------------------------------------------------------------
(* What an upload puts right *)

\* The indexes of the component that the command is about.
Component(p) == {n \in IndexNames : n[1] = job[p].component}

\* What is listed of the index is what it contains, and has its bodies.
Whole(p, n, listed) ==
  listed # NoObject =>
    listed = index[Codename(p)][n] /\ AllBacked(Codename(p), listed)

\* An upload reads every index of its component that its Release lists.
ReadsAll(p) ==
  pc[p] = "manifests" =>
    /\ \A arch \in ToSet(rel[p].archs) :
         arch \in ToSet(todo[p]) \/ \E m \in ToSet(manifests[p]) : m.arch = arch
    /\ \A m \in ToSet(manifests[p]) : m.packages = ReadPackages(p, m.arch)

\* And writes what it makes of it.
WritesAll(p) ==
  /\ pc[p] \in Indexing =>
       /\ \A i \in DOMAIN Batch(p) : rel[p].files[Batch(p)[i].name] = Batch(p)[i].body
       /\ \A n \in Component(p) : Unwritten(p, n) \/ Whole(p, n, rel[p].files[n])
  /\ pc[p] \in Indexed \cup {"putGpg", "putInRelease"} =>
       \A n \in Component(p) : Whole(p, n, rel[p].files[n])

\* The Release it stores lists the same.
ListsAll(p) ==
  /\ pc[p] \in {"putGpg", "putInRelease"} =>
       release[Codename(p)] # NoObject /\ release[Codename(p)].files = rel[p].files
  /\ pc[p] = "unlock" /\ outcome[p] = "ok" =>
       /\ release[Codename(p)] # NoObject
       /\ \A n \in Component(p) : Whole(p, n, Contents(Codename(p))[n])

\* What an upload does with its component.
RunHeals(p) == job[p].op = "upload" => ReadsAll(p) /\ WritesAll(p) /\ ListsAll(p)

\* The inductive invariant.
HealInv == \A p \in Runs : RunHeals(p)

\* What the arguments below start from.
HealHypotheses == SweepHypotheses /\ ArchsInv /\ HealInv

\* The step stores no Release but that of its own codename, under the lock.
ReleasesKept(p) ==
  \A c \in Codenames :
    \/ release'[c] = release[c]
    \/ c = Codename(p) /\ Changing(p) /\ pc[p] \in Working

\* No Release is stored but by the run whose codename it is in.
LEMMA StepReleases ==
  ASSUME TypeOK, KeepInv, NEW p \in Runs, Proceed(p) \/ Disturb(p)
  PROVE  ReleasesKept(p)
<1>1. CASE PutRelease(p)
  <2>1. pc[p] = "putRelease" /\ release' = [release EXCEPT ![Codename(p)] = Rendered(p)]
    BY <1>1 DEF PutRelease
  <2>2. Changing(p)
    BY <2>1 DEF KeepInv, RunKeeps, WritingLabels
  <2>3. \A c \in Codenames : c # Codename(p) => release'[c] = release[c]
    BY <2>1 DEF TypeOK
  <2>4. QED
    BY <2>1, <2>2, <2>3 DEF ReleasesKept, Working, Labels
<1>2. CASE ~PutRelease(p)
  <2>1. release' = release
    BY <1>2, Zenon DEF Proceed, Disturb, store, Start, TakeLock, Unlock, RetrieveSource,
       RetrieveRelease, RetrieveManifest, HeadPackage, HeadsDone, ListManifest, Answer,
       LookUp, DecideUpload, DecideCopy, DecideDelete, DecideVerify, Decide, Publish,
       PutPackage, PackagesDone, PutByHash, ByHashDone, PutCanonical, CanonicalDone, Sign,
       DeleteReleaseGpg, DeleteInRelease, PutReleaseGpg, PutInRelease,
       ListIndexes, ScanIndex, ListPool, DeletePoolObject, SweepDone, GiveUp, UnlockFails,
       SigningFails, SignFails, StoreFails, Crash
  <2>2. QED
    BY <2>1 DEF ReleasesKept
<1>3. QED
  BY <1>1, <1>2

\* The uploads that do not take the step keep their invariant.
LEMMA OthersHeal ==
  ASSUME HealHypotheses, NEW p \in Runs, Lone(p), BodiesKept(p), IndexesKept(p),
         ReleasesKept(p), NEW q \in Runs, q # p
  PROVE  RunHeals(q)'
<1>1. /\ job' = job /\ pc'[q] = pc[q] /\ outcome'[q] = outcome[q] /\ rel'[q] = rel[q]
      /\ batches'[q] = batches[q] /\ at'[q] = at[q] /\ manifests'[q] = manifests[q]
      /\ todo'[q] = todo[q]
  BY DEF Lone
<1>2. /\ TypeOK /\ WorksUnderLock /\ ChangesUnderLock /\ SweepsUnderLock
      /\ RunHeals(q) /\ SweepHypotheses
      /\ Codename(q) \in Codenames /\ job[q] \in Jobs
  BY CodenameType, JobType DEF HealHypotheses, SweepHypotheses, TypeInv, HealInv
<1>3. SUFFICES ASSUME job[q].op = "upload"
               PROVE  ReadsAll(q)' /\ WritesAll(q)' /\ ListsAll(q)'
  BY <1>1 DEF RunHeals
<1>4. ReadsAll(q) /\ WritesAll(q) /\ ListsAll(q)
  BY <1>2, <1>3 DEF RunHeals
<1>5. CASE pc[q] \notin Working
  <2>1. pc'[q] \notin {"manifests", "unlock", "putGpg", "putInRelease"} \cup Indexing
                       \cup Indexed
    BY <1>1, <1>5 DEF Working, Labels, Indexing, Indexed
  <2>2. QED
    BY <2>1 DEF ReadsAll, WritesAll, ListsAll
<1>6. CASE pc[q] \in Working
  <2>1. Undisturbed(p, q)
    BY <1>2, <1>3, <1>6, OthersUndisturbed DEF Rewriting, Changing
  <2>2. \A c : c = Codename(q) => release'[c] = release[c]
    <3>1. ASSUME Changing(p), pc[p] \in Working PROVE Codename(p) # Codename(q)
      BY <1>2, <1>3, <1>6, <3>1, OneRewrites DEF Rewriting, Changing
    <3>2. QED
      BY <1>2, <3>1 DEF ReleasesKept
  <2>3. ASSUME NEW n \in IndexNames, NEW listed, Whole(q, n, listed)
        PROVE  Whole(q, n, listed)'
    BY <1>1, <2>1, <2>3 DEF Whole, Undisturbed, AllBacked, Backed, Codename
  <2>4. \A n : Unwritten(q, n)' <=> Unwritten(q, n)
    BY <1>1 DEF Unwritten, Batch
  <2>5. Component(q)' = Component(q) /\ Component(q) \subseteq IndexNames
        /\ Batch(q)' = Batch(q)
    BY <1>1 DEF Component, Batch
  <2>6. ReadsAll(q)'
    <3>1. ASSUME NEW m \in ToSet(manifests[q]) PROVE ReadPackages(q, m.arch)' = ReadPackages(q, m.arch)
      <4>1. m.arch \in Archs
        <5>1. manifests[q] \in Seq(Manifest)
          BY <1>2 DEF TypeOK
        <5>2. m \in Manifest
          BY <5>1 DEF ToSet
        <5>3. QED
          BY <5>2 DEF Manifest
      <4>2. <<job[q].component, m.arch, "Packages">> \in IndexNames
        BY <1>2, <4>1, JobFacts, PlainName
      <4>3. QED
        BY <1>1, <2>1, <4>2 DEF ReadPackages, Undisturbed, Codename
    <3>2. QED
      BY <1>1, <1>4, <3>1 DEF ReadsAll
  <2>7. WritesAll(q)'
    BY <1>1, <1>4, <2>3, <2>4, <2>5 DEF WritesAll
  <2>8. ListsAll(q)'
    <3>1. \A c : c = Codename(q) => Contents(c)' = Contents(c)
      BY <2>2 DEF Contents
    <3>2. Codename(q)' = Codename(q)
      BY <1>1 DEF Codename
    <3>3. Contents(Codename(q))' = Contents(Codename(q))
      BY <2>2, <3>2 DEF Contents
    <3>4. QED
      BY <1>1, <1>4, <2>2, <2>3, <2>5, <3>2, <3>3 DEF ListsAll
  <2>9. QED
    BY <2>6, <2>7, <2>8
<1>7. QED
  BY <1>5, <1>6
---------------------------------------------------------------------------
(* What the upload that takes the step has *)

\* Where an upload has nothing that the invariant is about.
LEMMA RestHeals ==
  ASSUME job' = job, NEW p \in Runs,
         pc'[p] \notin {"manifests", "putGpg", "putInRelease"} \cup Indexing \cup Indexed,
         pc'[p] = "unlock" => outcome'[p] # "ok" \/ job[p].op # "upload"
  PROVE  RunHeals(p)'
  BY DEF RunHeals, ReadsAll, WritesAll, ListsAll

\* It is going to read what its Release lists.
LEMMA RetrieveReleaseHeals ==
  ASSUME HealHypotheses, NEW p \in Runs, RetrieveRelease(p)
  PROVE  RunHeals(p)'
<1> DEFINE r == Retrieved(release[Codename(p)], job[p].byHash)
<1>1. /\ TypeOK /\ RunOK(p) /\ Codename(p) \in Codenames /\ job[p] \in Jobs
  BY CodenameType, JobType DEF HealHypotheses, SweepHypotheses, TypeInv, RunsOK
<1>2. /\ pc[p] = "release" /\ pc'[p] = "manifests" /\ job' = job
      /\ rel'[p] = r /\ todo'[p] = ArchsToRead(job[p], r.archs)
      /\ manifests'[p] = <<>>
  <2>1. manifests[p] = <<>>
    BY <1>1 DEF RetrieveRelease, RunOK
  <2>2. QED
    BY <1>1, <2>1 DEF RetrieveRelease, Goto, TypeOK
<1>3. r.archs \in Seq(Archs)
  <2>1. r \in Releases
    BY <1>1, RetrievedType DEF TypeOK
  <2>2. QED
    BY <2>1 DEF Releases
<1> HIDE DEF r
<1>4. ToSet(r.archs) \subseteq ToSet(UploadArchs(job[p], r.archs))
  BY <1>1, <1>3, UploadArchsFacts
<1>5. ToSet(<<>>) = {}
  BY DEF ToSet
<1>6. job[p].op = "upload" => ReadsAll(p)'
  BY <1>2, <1>4, <1>5 DEF ReadsAll, ArchsToRead
<1>7. QED
  BY <1>2, <1>6 DEF RunHeals, WritesAll, ListsAll, Indexing, Indexed

\* The next manifest is that of the index.
LEMMA RetrieveManifestHeals ==
  ASSUME HealHypotheses, NEW p \in Runs, RetrieveManifest(p)
  PROVE  RunHeals(p)'
<1>1. TypeOK /\ RunOK(p) /\ RunHeals(p)
  BY DEF HealHypotheses, SweepHypotheses, TypeInv, RunsOK, HealInv
<1> DEFINE arch == Head(todo[p])
           new == [component |-> job[p].component, arch |-> arch,
                   packages |-> ReadPackages(p, arch)]
<1>2. pc[p] = "manifests" /\ job' = job /\ index' = index /\ rel' = rel
      /\ todo[p] # <<>> /\ todo'[p] = Tail(todo[p])
  BY <1>1 DEF RetrieveManifest, TypeOK, store
<1>3. SUFFICES ASSUME job[p].op = "upload"
               PROVE  RunHeals(p)'
  BY <1>2 DEF RunHeals
<1>4. /\ pc' = pc /\ manifests'[p] = Append(manifests[p], new)
  BY <1>1, <1>3 DEF RetrieveManifest, ReadPackages, TypeOK
<1>5. todo[p] \in Seq(Archs) /\ manifests[p] \in Seq(Manifest)
  BY <1>1, <1>3 DEF RunOK, TypeOK
<1>6. ToSet(todo[p]) = {arch} \cup ToSet(todo'[p])
  BY <1>2, <1>5, HeadTail
<1>7. ToSet(manifests'[p]) = ToSet(manifests[p]) \cup {new}
  BY <1>4, <1>5, AppendRange
<1>8. new.arch = arch /\ new.packages = ReadPackages(p, arch)
  OBVIOUS
<1>9. \A a : ReadPackages(p, a)' = ReadPackages(p, a)
  BY <1>2 DEF ReadPackages
<1>10. ReadsAll(p)
  BY <1>1, <1>3 DEF RunHeals
<1> HIDE DEF new, arch
<1>11. ReadsAll(p)'
  <2>1. ASSUME NEW a \in ToSet(rel[p].archs)
        PROVE  a \in ToSet(todo'[p]) \/ \E m \in ToSet(manifests'[p]) : m.arch = a
    BY <1>2, <1>6, <1>7, <1>8, <1>10 DEF ReadsAll
  <2>2. ASSUME NEW m \in ToSet(manifests'[p]) PROVE m.packages = ReadPackages(p, m.arch)
    BY <1>2, <1>7, <1>8, <1>10 DEF ReadsAll
  <2>3. QED
    BY <1>2, <1>9, <2>1, <2>2 DEF ReadsAll
<1>12. QED
  BY <1>2, <1>4, <1>11 DEF RunHeals, WritesAll, ListsAll, Indexing, Indexed
\* What it publishes is what its Release lists, and it lists nothing of the
\* component that it does not publish.
LEMMA DecideHeals ==
  ASSUME HealHypotheses, NEW p \in Runs, DecideUpload(p)
  PROVE  RunHeals(p)'
<1>1. /\ TypeOK /\ RunHeals(p) /\ RunKeeps(p) /\ KnowsArchs(rel[p])
      /\ rel[p] \in Releases /\ manifests[p] \in Seq(Manifest)
  BY DEF HealHypotheses, SweepHypotheses, TypeInv, TypeOK, HealInv, KeepInv, ArchsInv
<1>2. /\ pc[p] = "manifests" /\ todo[p] = <<>> /\ job[p].op = "upload" /\ job' = job
  BY DEF DecideUpload, Decide
<1>3. ReadsAll(p)
  BY <1>1, <1>2 DEF RunHeals
<1>4. \A m \in ToSet(manifests[p]) :
        m.component = job[p].component /\ m.packages = ReadPackages(p, m.arch)
  BY <1>1, <1>2, <1>3 DEF RunKeeps, ReadsAll
<1>5. CASE Nothing(p, "error")
  <2>1. pc'[p] \in {"unlock", "ended"} /\ outcome'[p] = "error"
    BY <1>1, <1>5 DEF Nothing, Finish, Goto, TypeOK
  <2>2. QED
    BY <1>2, <2>1, RestHeals DEF Indexing, Indexed
<1>6. ASSUME NEW changed \in Seq(Manifest), NEW uploads,
             Prepare(p, changed, uploads), Agree(changed),
             \A m \in ToSet(manifests[p]) : \E x \in ToSet(changed) :
               x.component = m.component /\ x.arch = m.arch
      PROVE  RunHeals(p)'
  <2> DEFINE updated == UpdateManifests(rel[p], changed)
             missing == MissingManifests(updated)
             final == UpdateManifests(updated, missing)
             all == changed \o missing
             artifacts == Artifacts(all)
  <2>1. rel'[p] = final /\ batches'[p] = <<artifacts>> /\ pc'[p] = "packages"
    BY <1>1, <1>6 DEF Prepare, Goto, TypeOK
  <2>2. \A a \in ToSet(artifacts) : final.files[a.name] = a.body
    BY <1>1, <1>6, PreparedLists
  <2>3. Publishes(rel[p], rel'[p], Pending(p)')
    BY <1>1, <1>6, PreparePublishes
  <2>4. all \in Seq(Manifest) /\ ToSet(changed) \subseteq ToSet(all)
    <3>1. missing \in Seq(Manifest)
      BY <1>1, UpdateManifestsType, MissingManifestsType
    <3> HIDE DEF missing
    <3>2. QED
      BY <3>1, ConcatRange
  <2> HIDE DEF updated, missing, final, all
  <2>5. ASSUME NEW m \in ToSet(all), NEW f \in ToSet(Forms)
        PROVE  [name |-> <<m.component, m.arch, f>>, body |-> m.packages]
                 \in ToSet(artifacts)
    BY <2>4, ArtifactsFacts
  <2> HIDE DEF artifacts
  <2>6. Batch(p)' = artifacts /\ Pending(p)' = ToSet(artifacts)
    BY <2>1 DEF Batch, Pending
  <2>7. ASSUME NEW n, NEW a \in ToSet(artifacts), a.name = n PROVE Unwritten(p, n)'
    BY <2>1, <2>6, <2>7 DEF Unwritten, ToSet
  <2>8. ASSUME NEW n \in Component(p)
        PROVE  Unwritten(p, n)' \/ rel'[p].files[n] = NoObject
    <3>1. n \in IndexNames /\ n[1] = job[p].component
      BY DEF Component
    <3>2. CASE \E m \in ToSet(manifests[p]) : m.arch = n[2]
      <4>1. PICK x \in ToSet(changed) : x.component = n[1] /\ x.arch = n[2]
        BY <1>4, <1>6, <3>1, <3>2
      <4>2. n[3] \in ToSet(Forms) /\ n = <<n[1], n[2], n[3]>>
        BY <3>1 DEF IndexNames
      <4>3. [name |-> n, body |-> x.packages] \in ToSet(artifacts)
        BY <2>4, <2>5, <4>1, <4>2
      <4>4. QED
        BY <2>7, <4>3
    <3>3. CASE ~\E m \in ToSet(manifests[p]) : m.arch = n[2]
      <4>1. ToSet(<<>>) = {}
        BY DEF ToSet
      <4>2. n[2] \notin ToSet(rel[p].archs)
        BY <1>2, <1>3, <3>3, <4>1 DEF ReadsAll
      <4>3. rel[p].files[n] = NoObject
        BY <1>1, <3>1, <4>2 DEF KnowsArchs
      <4>4. QED
        BY <2>3, <2>6, <2>7, <3>1, <4>3 DEF Publishes
    <3>4. QED
      BY <3>2, <3>3
  <2>9. \A i \in DOMAIN Batch(p)' : rel'[p].files[Batch(p)'[i].name] = Batch(p)'[i].body
    BY <2>1, <2>2, <2>6 DEF ToSet
  <2>10. Component(p)' = Component(p)
    BY <1>2 DEF Component
  <2>11. \A n \in Component(p)' : Unwritten(p, n)' \/ Whole(p, n, rel[p].files[n])'
    BY <2>8, <2>10 DEF Whole
  <2>12. WritesAll(p)'
    BY <2>1, <2>9, <2>11 DEF WritesAll, Indexed
  <2>13. QED
    BY <2>1, <2>12 DEF RunHeals, ReadsAll, ListsAll
<1>7. QED
  BY <1>1, <1>4, <1>5, <1>6, UploadAgrees
\* What is whole stays so until another index is written under its name.
LEMMA WholeStays ==
  ASSUME job' = job, NEW p \in Runs, BodiesKept(p), pc[p] # "sweep", NEW n, NEW listed,
         \A c : c = Codename(p) => index'[c][n] = index[c][n], Whole(p, n, listed)
  PROVE  Whole(p, n, listed)'
<1>1. Codename(p)' = Codename(p)
  BY DEF Codename
<1>2. CASE listed # NoObject
  <2>1. listed = index[Codename(p)][n] /\ AllBacked(Codename(p), listed)
    BY <1>2 DEF Whole
  <2>2. \A c : c = Codename(p) => AllBacked(c, listed)'
    BY <2>1 DEF AllBacked, Backed, BodiesKept
  <2>3. QED
    BY <1>1, <2>1, <2>2 DEF Whole
<1>3. QED
  BY <1>2 DEF Whole

\* Bodies and by-hash indexes change nothing of what is still to be written.
LEMMA BodiesHeal ==
  ASSUME HealHypotheses, NEW p \in Runs, UNCHANGED reading, BodiesKept(p),
         PutPackage(p) \/ PackagesDone(p) \/ PutByHash(p) \/ ByHashDone(p)
  PROVE  RunHeals(p)'
<1> USE DEF Goto, store, memory, reading
<1>1. /\ TypeOK /\ RunKeeps(p) /\ RunHeals(p) /\ pc \in [Runs -> Labels]
      /\ batches \in [Runs -> Seq(Seq(Artifact))] /\ at \in [Runs -> Nat \ {0}]
  BY DEF HealHypotheses, SweepHypotheses, TypeInv, TypeOK, KeepInv, HealInv
<1>2. /\ pc[p] \in {"packages", "byHash"}
      /\ UNCHANGED <<index, job, rel, batches>>
  BY DEF PutPackage, PackagesDone, PutByHash, ByHashDone
<1>3. Len(batches[p]) = 1
  BY <1>1, <1>2 DEF RunKeeps, Indexing
<1>4. batches[p] # <<>> /\ Batch(p) \in Seq(Artifact)
  <2>1. batches[p] \in Seq(Seq(Artifact))
    BY <1>1
  <2>2. batches[p] # <<>>
    BY <1>3, EmptySeq
  <2>3. QED
    BY <2>1, <2>2 DEF Batch
<1>5. \/ pc'[p] \in {"unlock", "ended"} /\ outcome'[p] = "error"
      \/ pc'[p] \in {"packages", "byHash"}
      \/ pc'[p] = "canonical" /\ at'[p] = 1
  BY <1>1, <1>2, <1>4 DEF PutPackage, PackagesDone, PutByHash, ByHashDone, Finish, TypeOK
<1>6. CASE pc'[p] \in {"unlock", "ended"}
  BY <1>2, <1>5, <1>6, RestHeals DEF Indexing, Indexed
<1>7. CASE pc'[p] \in Indexing
  <2> SUFFICES ASSUME job[p].op = "upload" PROVE RunHeals(p)'
    BY <1>2 DEF RunHeals
  <2>1. WritesAll(p)
    BY <1>1 DEF RunHeals
  <2>2. Batch(p)' = Batch(p) /\ Component(p)' = Component(p)
    BY <1>2 DEF Batch, Component
  <2>3. \A n : Unwritten(p, n) => Unwritten(p, n)'
    <3>1. \A i \in DOMAIN Batch(p) : i >= 1
      BY <1>4
    <3>2. QED
      BY <1>5, <1>7, <2>2, <3>1 DEF Unwritten, Indexing
  <2>4. \A n, listed : Whole(p, n, listed) => Whole(p, n, listed)'
    BY <1>2, WholeStays
  <2>5. WritesAll(p)'
    BY <1>2, <1>7, <2>1, <2>2, <2>3, <2>4 DEF WritesAll, Indexing, Indexed
  <2>6. QED
    BY <1>7, <2>5 DEF RunHeals, ReadsAll, ListsAll, Indexing
<1>8. QED
  BY <1>5, <1>6, <1>7 DEF Indexing

\* An index that is written is whole.
LEMMA PutCanonicalHeals ==
  ASSUME HealHypotheses, NEW p \in Runs, UNCHANGED reading, PutCanonical(p)
  PROVE  RunHeals(p)'
<1> USE DEF Goto, store, memory, reading
<1> DEFINE c == Codename(p)
           a == Batch(p)[at[p]]
<1>1. /\ TypeOK /\ RunKeeps(p) /\ RunHeals(p) /\ RunOK(p) /\ RunSwept(p)
      /\ c \in Codenames
      /\ batches \in [Runs -> Seq(Seq(Artifact))] /\ at \in [Runs -> Nat \ {0}]
      /\ index \in [Codenames -> [IndexNames -> {NoObject} \cup Packages]]
  BY CodenameType
  DEF HealHypotheses, SweepHypotheses, TypeInv, TypeOK, RunsOK, KeepInv, HealInv, SweepInv
<1>2. /\ pc[p] = "canonical" /\ ArtifactsLeft(p)
      /\ index' = [index EXCEPT ![c][a.name] = a.body]
      /\ at' = [at EXCEPT ![p] = @ + 1]
      /\ UNCHANGED <<pool, pc, job, rel, batches>>
  BY DEF PutCanonical
<1>3. Changing(p) /\ HoldsBacked(p) /\ batches[p] # <<>>
  BY <1>1, <1>2 DEF RunKeeps, RunSwept, WritingLabels, RunOK
<1>4. a.name \in IndexNames
  BY <1>1, <1>2, <1>3, ArtifactType
<1>5. Batch(p) \in Seq(Artifact) /\ at[p] \in DOMAIN Batch(p)
  <2>1. Batch(p) \in Seq(Artifact)
    BY <1>1, <1>3 DEF Batch
  <2>2. QED
    BY <1>1, <1>2, <2>1 DEF ArtifactsLeft
<1>6. AllBacked(c, a.body)
  <2>1. 1 \in DOMAIN batches[p] /\ Batch(p) = batches[p][1]
    <3>1. batches[p] \in Seq(Seq(Artifact))
      BY <1>1
    <3>2. QED
      BY <1>3, <3>1 DEF Batch
  <2>2. a \in Pending(p)
    BY <1>5, <2>1 DEF Pending, ToSet
  <2>3. QED
    BY <1>2, <1>3, <2>2 DEF HoldsBacked
<1>7. SUFFICES ASSUME job[p].op = "upload" PROVE RunHeals(p)'
  BY <1>2 DEF RunHeals
<1>8. WritesAll(p)
  BY <1>1, <1>7 DEF RunHeals
<1>9. rel[p].files[a.name] = a.body
  BY <1>2, <1>5, <1>8 DEF WritesAll, Indexing
<1> HIDE DEF a
<1>10. /\ index'[c][a.name] = a.body
       /\ \A n \in IndexNames \ {a.name} : index'[c][n] = index[c][n]
  BY <1>1, <1>2, <1>4
<1>11. /\ Batch(p)' = Batch(p) /\ Component(p)' = Component(p)
       /\ Codename(p)' = c /\ at'[p] = at[p] + 1
       /\ Component(p) \subseteq IndexNames
  BY <1>1, <1>2 DEF Batch, Component, Codename
<1>12. ASSUME NEW n \in Component(p)
       PROVE  Unwritten(p, n)' \/ Whole(p, n, rel[p].files[n])'
  <2>1. CASE n = a.name
    <3>1. \A d, listed : d = c /\ listed = a.body => AllBacked(d, listed)'
      BY <1>2, <1>6 DEF AllBacked, Backed, InPool
    <3>2. rel'[p].files[n] = a.body
      BY <1>2, <1>9, <2>1
    <3>3. QED
      BY <1>10, <1>11, <2>1, <3>1, <3>2 DEF Whole
  <2>2. CASE n # a.name /\ Whole(p, n, rel[p].files[n])
    <3>1. \A d : d = c => index'[d][n] = index[d][n]
      BY <1>10, <1>11, <2>2
    <3>2. BodiesKept(p)
      BY <1>2 DEF BodiesKept, InPool
    <3>3. \A listed : Whole(p, n, listed) => Whole(p, n, listed)'
      BY <1>2, <3>1, <3>2, WholeStays
    <3>4. QED
      BY <1>2, <2>2, <3>3
  <2>3. CASE n # a.name /\ Unwritten(p, n)
    <3>1. PICK i \in DOMAIN Batch(p) : Batch(p)[i].name = n /\ i >= at[p]
      BY <1>2, <2>3 DEF Unwritten
    <3>2. i # at[p]
      BY <2>3, <3>1 DEF a
    <3>3. i \in Nat /\ at[p] \in Nat
      BY <1>1, <1>5
    <3>4. i >= at[p] + 1
      BY <3>1, <3>2, <3>3
    <3>5. QED
      BY <1>11, <3>1, <3>4 DEF Unwritten
  <2>4. QED
    BY <1>2, <1>8, <2>1, <2>2, <2>3 DEF WritesAll, Indexing
<1>13. WritesAll(p)'
  BY <1>2, <1>8, <1>11, <1>12 DEF WritesAll, Indexing, Indexed
<1>14. QED
  BY <1>2, <1>13 DEF RunHeals, ReadsAll, ListsAll
\* After the last one every index is.
LEMMA CanonicalDoneHeals ==
  ASSUME HealHypotheses, NEW p \in Runs, UNCHANGED reading, CanonicalDone(p)
  PROVE  RunHeals(p)'
<1> USE DEF Goto, store, memory, reading
<1>1. /\ TypeOK /\ RunKeeps(p) /\ RunHeals(p) /\ RunOK(p) /\ pc \in [Runs -> Labels]
      /\ batches \in [Runs -> Seq(Seq(Artifact))] /\ at \in [Runs -> Nat \ {0}]
  BY DEF HealHypotheses, SweepHypotheses, TypeInv, TypeOK, RunsOK, KeepInv, HealInv
<1>2. /\ pc[p] = "canonical" /\ ~ArtifactsLeft(p)
      /\ batches' = [batches EXCEPT ![p] = Tail(@)]
      /\ UNCHANGED <<pool, index, job, rel>>
  BY DEF CanonicalDone
<1>3. Len(batches[p]) = 1 /\ batches[p] # <<>>
  BY <1>1, <1>2 DEF RunKeeps, Indexing, RunOK
<1>4. batches'[p] = <<>>
  <2>1. batches[p] \in Seq(Seq(Artifact))
    BY <1>1
  <2>2. Tail(batches[p]) \in Seq(Seq(Artifact)) /\ Len(Tail(batches[p])) = 0
    BY <1>3, <2>1, HeadTailProperties
  <2>3. Tail(batches[p]) = <<>>
    BY <2>2, EmptySeq
  <2>4. QED
    BY <1>1, <1>2, <2>3
<1>5. pc'[p] \in {"sign", "deleteGpg"}
  BY <1>1, <1>4 DEF CanonicalDone, AfterIndexes
<1>6. \A n : ~Unwritten(p, n)
  <2>1. Batch(p) \in Seq(Artifact)
    BY <1>1, <1>3 DEF Batch
  <2>2. \A i \in DOMAIN Batch(p) : ~(i >= at[p])
    BY <1>1, <1>2, <2>1 DEF ArtifactsLeft
  <2>3. QED
    BY <1>2, <2>2 DEF Unwritten
<1>7. BodiesKept(p)
  BY <1>2 DEF BodiesKept, InPool
<1>8. \A n, listed : Whole(p, n, listed) => Whole(p, n, listed)'
  BY <1>2, <1>7, WholeStays
<1>9. Component(p)' = Component(p)
  BY <1>2 DEF Component
<1>10. job[p].op = "upload" => WritesAll(p)'
  BY <1>1, <1>2, <1>5, <1>6, <1>8, <1>9 DEF RunHeals, WritesAll, Indexing, Indexed
<1>11. QED
  BY <1>2, <1>5, <1>10 DEF RunHeals, ReadsAll, ListsAll

\* Signing stores nothing that it is about; the Release that is stored lists the
\* indexes, and still does when the signatures are there.
LEMMA ReleaseHeals ==
  ASSUME HealHypotheses, NEW p \in Runs, UNCHANGED reading,
         \/ Sign(p) \/ DeleteReleaseGpg(p) \/ DeleteInRelease(p)
         \/ PutRelease(p) \/ PutReleaseGpg(p) \/ PutInRelease(p)
  PROVE  RunHeals(p)'
<1> USE DEF Goto, store, memory, reading
<1> DEFINE c == Codename(p)
           S == {"putGpg", "putInRelease"}
<1>1. /\ TypeOK /\ RunHeals(p) /\ pc \in [Runs -> Labels] /\ c \in Codenames
      /\ release \in [Codenames -> {NoObject} \cup Releases]
      /\ Rendered(p) \in Releases /\ rel[p] \in Releases
  BY CodenameType, RenderedType
  DEF HealHypotheses, SweepHypotheses, TypeInv, TypeOK, HealInv
<1>2. UNCHANGED <<pool, index, job, rel>>
  BY DEF Sign, DeleteReleaseGpg, DeleteInRelease, PutRelease, PutReleaseGpg, PutInRelease
<1>3. /\ pc[p] \in Indexed \cup {"deleteGpg"} \cup S
      /\ pc'[p] \in {"deleteInRelease", "putRelease", "unlock", "ended"} \cup S
      /\ pc[p] \in S => pc'[p] \notin Indexed
  BY <1>1 DEF Sign, DeleteReleaseGpg, DeleteInRelease, PutRelease, PutReleaseGpg,
     PutInRelease, Finish, Indexed
<1>4. SUFFICES ASSUME job[p].op = "upload" PROVE RunHeals(p)'
  BY <1>2 DEF RunHeals
<1>5. WritesAll(p) /\ ListsAll(p)
  BY <1>1, <1>4 DEF RunHeals
<1>6. \A n \in Component(p) : Whole(p, n, rel[p].files[n])
  BY <1>3, <1>5 DEF WritesAll, Indexed
<1>7. BodiesKept(p)
  BY <1>2 DEF BodiesKept, InPool
<1>8. \A n, listed : Whole(p, n, listed) => Whole(p, n, listed)'
  BY <1>2, <1>3, <1>7, WholeStays DEF Indexed
<1>9. Component(p)' = Component(p) /\ Codename(p)' = c
  BY <1>2 DEF Component, Codename
<1>10. WritesAll(p)'
  BY <1>2, <1>3, <1>6, <1>8, <1>9 DEF WritesAll, Indexing, Indexed
<1>11. ASSUME \/ pc'[p] \in S
              \/ pc'[p] = "unlock" /\ outcome'[p] = "ok"
       PROVE  \A d : d = c => release'[d] # NoObject /\ release'[d].files = rel[p].files
  <2>1. CASE PutRelease(p)
    <3>1. release'[c] = Rendered(p)
      BY <1>1, <2>1 DEF PutRelease
    <3>2. Rendered(p).files = rel[p].files
      BY <1>1 DEF Rendered, Releases
    <3>3. QED
      BY <1>1, <3>1, <3>2, ObjectsAssumption
  <2>2. CASE ~PutRelease(p)
    <3>1. release' = release
      BY <2>2 DEF Sign, DeleteReleaseGpg, DeleteInRelease, PutReleaseGpg, PutInRelease
    <3>2. pc[p] \in S
      BY <1>1, <1>11, <2>2 DEF Sign, DeleteReleaseGpg, DeleteInRelease, PutReleaseGpg,
         PutInRelease, Finish
    <3>3. QED
      BY <1>5, <3>1, <3>2 DEF ListsAll
  <2>3. QED
    BY <2>1, <2>2
<1>12. ListsAll(p)'
  <2>1. ASSUME pc'[p] = "unlock" /\ outcome'[p] = "ok", NEW n \in Component(p)
        PROVE  \A d : d = c => Contents(d)'[n] = rel[p].files[n]
    BY <1>11, <2>1 DEF Contents
  <2>2. QED
    BY <1>2, <1>6, <1>8, <1>9, <1>11, <2>1 DEF ListsAll
<1>13. QED
  BY <1>2, <1>3, <1>10, <1>12 DEF RunHeals, ReadsAll
---------------------------------------------------------------------------
(* The theorem on repair *)

\* Every step of a run keeps the invariant.
LEMMA RunsHeal ==
  ASSUME HealHypotheses, NEW p \in Runs, Proceed(p) \/ Disturb(p)
  PROVE  HealInv'
<1>1. /\ SweepHypotheses /\ TypeOK /\ RunOK(p) /\ Shape /\ KeepInv
      /\ pc \in [Runs -> Labels]
  BY DEF HealHypotheses, SweepHypotheses, TypeInv, RunsOK, TypeOK
<1>2. Lone(p) /\ BodiesKept(p) /\ IndexesKept(p) /\ ReleasesKept(p)
  BY <1>1, StepLone, StepBodies, StepIndexes, StepReleases
<1>3. job' = job
  BY <1>2 DEF Lone
<1>4. CASE \/ RetrieveRelease(p) \/ RetrieveManifest(p) \/ DecideUpload(p)
           \/ Publish(p) /\ UNCHANGED reading
  BY <1>2, <1>4, RetrieveReleaseHeals, RetrieveManifestHeals, DecideHeals, BodiesHeal,
     PutCanonicalHeals, CanonicalDoneHeals, ReleaseHeals, OthersHeal DEF Publish, HealInv
<1>5. CASE \/ RetrieveSource(p) \/ HeadPackage(p) \/ HeadsDone(p)
           \/ ListManifest(p) \/ Answer(p) \/ LookUp(p)
           \/ DecideCopy(p) \/ DecideDelete(p) \/ DecideVerify(p)
           \/ ListIndexes(p) \/ ScanIndex(p) \/ ListPool(p)
           \/ DeletePoolObject(p) \/ SweepDone(p)
  <2>1. job[p].op # "upload"
    BY <1>1, <1>5 DEF RetrieveSource, HeadPackage, HeadsDone, ListManifest, Answer, LookUp,
       DecideCopy, DecideDelete, DecideVerify, Decide, ListIndexes, ScanIndex, ListPool,
       DeletePoolObject, SweepDone, RunOK
  <2>2. RunHeals(p)'
    BY <1>3, <2>1 DEF RunHeals
  <2>3. QED
    <3>1. ASSUME NEW q \in Runs, q # p PROVE RunHeals(q)'
      BY ONLY HealHypotheses, p \in Runs, <1>2, <3>1, OthersHeal, Zenon
    <3>2. QED
      BY <2>2, <3>1 DEF HealInv
<1>6. CASE \/ Start(p) \/ TakeLock(p) \/ Unlock(p) \/ GiveUp(p)
           \/ StoreFails(p) \/ UnlockFails(p) \/ SigningFails(p) \/ Crash(p)
  <2>1. /\ pc'[p] \in {"lock", "source", "list", "lookup", "release", "unlock", "ended"}
        /\ pc'[p] = "unlock" => outcome'[p] # "ok"
    BY <1>1, <1>6, FirstReadLabel DEF Start, TakeLock, Unlock, GiveUp, StoreFails,
       UnlockFails, SigningFails, SignFails, Crash, Finish, Goto, TypeOK
  <2>2. RunHeals(p)'
    BY <1>3, <2>1, RestHeals DEF Indexing, Indexed
  <2>3. QED
    <3>1. ASSUME NEW q \in Runs, q # p PROVE RunHeals(q)'
      BY ONLY HealHypotheses, p \in Runs, <1>2, <3>1, OthersHeal, Zenon
    <3>2. QED
      BY <2>2, <3>1 DEF HealInv
<1>7. QED
  BY <1>4, <1>5, <1>6 DEF Proceed, Disturb

\* Steps in which no run takes part.
LEMMA IdleHeals ==
  ASSUME HealInv,
         UNCHANGED <<pool, index, release, pc, outcome, job, rel, batches, at, manifests,
                     todo>>
  PROVE  HealInv'
<1> SUFFICES ASSUME NEW p \in Runs PROVE RunHeals(p)'
  BY DEF HealInv
<1>1. RunHeals(p)
  BY DEF HealInv
<1>2. /\ Component(p)' = Component(p) /\ Codename(p)' = Codename(p)
      /\ Batch(p)' = Batch(p) /\ \A c : Contents(c)' = Contents(c)
      /\ \A arch : ReadPackages(p, arch)' = ReadPackages(p, arch)
  BY DEF Component, Codename, Batch, Contents, ReadPackages
<1>3. /\ \A n, listed : Whole(p, n, listed)' <=> Whole(p, n, listed)
      /\ \A n : Unwritten(p, n)' <=> Unwritten(p, n)
  BY <1>2 DEF Whole, AllBacked, Backed, InPool, Unwritten
<1>4. ReadsAll(p)' <=> ReadsAll(p)
  BY <1>2 DEF ReadsAll
<1>5. WritesAll(p)' <=> WritesAll(p)
  BY <1>2, <1>3 DEF WritesAll
<1>6. ListsAll(p)' <=> ListsAll(p)
  BY <1>2, <1>3 DEF ListsAll
<1>7. QED
  BY <1>1, <1>4, <1>5, <1>6 DEF RunHeals

\* Nothing is read yet.
LEMMA InitHeals == Init => HealInv
  BY DEF Init, HealInv, RunHeals, ReadsAll, WritesAll, ListsAll, Indexing, Indexed

\* Every step keeps the invariant.
LEMMA NextHeals ==
  ASSUME Fenced, HealHypotheses, [Next]_vars
  PROVE  HealInv'
<1>1. HealInv
  BY DEF HealHypotheses
<1>2. \A p \in Runs : ~LateCall(p)
  BY DEF LateCall, Fenced
<1>3. ASSUME NEW c \in Codenames, BreakLock(c) PROVE HealInv'
  BY <1>1, <1>3, IdleHeals DEF BreakLock, memory, reading
<1>4. CASE UNCHANGED vars
  BY <1>1, <1>4, IdleHeals DEF vars, store, memory, reading
<1>5. QED
  BY <1>2, <1>3, <1>4, RunsHeal DEF Next, Terminated

\* What the Release lists after an upload is whole.
LEMMA HealImplies ==
  ASSUME HealInv PROVE UploadHeals
<1> SUFFICES ASSUME NEW p \in Runs, pc[p] = "unlock", outcome[p] = "ok",
                    job[p].op = "upload",
                    NEW n \in IndexNames, n[1] = job[p].component,
                    release[Codename(p)].files[n] # NoObject
             PROVE  /\ release[Codename(p)].files[n] = index[Codename(p)][n]
                    /\ \A e \in ToSet(index[Codename(p)][n]) : Retrievable(Codename(p), e)
  BY DEF UploadHeals
<1> DEFINE c == Codename(p)
<1>1. Whole(p, n, Contents(c)[n])
  BY DEF HealInv, RunHeals, ListsAll, Component
<1>2. Contents(c)[n] = release[c].files[n]
  BY DEF HealInv, RunHeals, ListsAll, Contents
<1>3. QED
  BY <1>1, <1>2 DEF Whole, AllBacked, Backed, InPool, Retrievable
\* An upload that succeeds puts its component right, whatever it found there: it
\* reads every index of the component that its Release lists, publishes each of
\* them in both forms, and stores the Release last, so that runs that died in
\* the middle of their publication, and clean after them, leave nothing for it
\* to pass on.
THEOREM UploadsHeal ==
  ASSUME ChangesUnderLock, SweepsUnderLock, Fenced
  PROVE  Spec => []UploadHeals
<1>1. Init => TypeInv /\ ArchsInv /\ HealInv
  BY InitType, InitArchs, InitHeals
<1>2. /\ TypeInv /\ Shape /\ WorksUnderLock /\ KeepInv /\ SweepInv /\ ArchsInv /\ HealInv
      /\ [Next]_vars
      => (TypeInv /\ ArchsInv /\ HealInv)'
  BY NextType, NextArchs, NextHeals DEF HealHypotheses, SweepHypotheses
<1>3. HealInv => UploadHeals
  BY HealImplies
<1>4. QED
  BY <1>1, <1>2, <1>3, ShapeHolds, LockDiscipline, KeepInvHolds, SweepInvHolds,
     PTL DEF Spec
=============================================================================
