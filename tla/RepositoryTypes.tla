--------------------------- MODULE RepositoryTypes ---------------------------
(***************************************************************************)
(* Type correctness of Repository, for any commands and any failures.      *)
(* TypeOK alone is not inductive: what a run may hold depends on its       *)
(* command and on where it is, which RunOK states. Every lemma named       *)
(* ...Type is about one group of steps, or about one operator.             *)
(***************************************************************************)
EXTENDS RepositoryProperties, ManifestProofs, FunctionTheorems

\* What the command line accepts.
LEMMA JobFacts ==
  ASSUME NEW j \in Jobs
  PROVE  /\ IsJob(j)
         /\ j.codename \in Codenames /\ j.component \in Components
         /\ j.source[1] \in Codenames /\ j.source[2] \in Components
         /\ j.debs \in Seq(ToSet(j.debs))
<1>1. IsJob(j)
  BY RepositoryAssumption DEF Jobs
<1>2. /\ j.codename \in Codenames /\ j.component \in Components
      /\ j.source \in Codenames \X Components
      /\ j.debs \in Seq(ToSet(j.debs))
  BY <1>1 DEF IsJob
<1>3. QED
  BY <1>1, <1>2

\* An entry has a body, which goes to a pool key.
LEMMA EntryFacts ==
  ASSUME NEW e \in AllEntries
  PROVE  e.filename \in PoolKeys /\ e.sum # NoObject
<1>1. PICK j \in Jobs : \E d \in ToSet(j.debs), c \in Codenames : e = Entry(d, c)
  BY DEF AllEntries
<1>2. \A d \in ToSet(j.debs) : d.file \in Files /\ d.sum # NoObject
  BY JobFacts DEF IsJob
<1>3. QED
  BY <1>1, <1>2 DEF Entry, PoolKeys

\* The entries of an upload in a manifest are entries.
LEMMA EntriesType ==
  ASSUME NEW j \in Jobs, NEW arch
  PROVE  Entries(j, arch) \in Packages
<1> DEFINE debs == KeepOnly(j.debs, {d \in ToSet(j.debs) : Placement(j, d) = arch})
<1>1. debs \in Seq(ToSet(j.debs))
  BY JobFacts, KeepOnlyFacts
<1>2. Entries(j, arch) = [i \in DOMAIN debs |-> Entry(debs[i], j.codename)]
  BY DEF Entries
<1> HIDE DEF debs
<1>3. \A i \in 1..Len(debs) : Entry(debs[i], j.codename) \in AllEntries
  BY <1>1, JobFacts DEF AllEntries
<1>4. DOMAIN debs = 1..Len(debs) /\ Len(debs) \in Nat
  BY <1>1
<1>5. QED
  BY <1>2, <1>3, <1>4 DEF Packages

\* So are those of the manifest it adds them to.
LEMMA AddedType ==
  ASSUME NEW j \in Jobs, NEW m \in Manifest
  PROVE  Added(j, m).packages \in Packages
<1> DEFINE own == Entries(j, m.arch)
           everywhere == IF m.arch = "all" THEN <<>> ELSE Entries(j, "all")
<1>1. own \in Packages /\ everywhere \in Packages
  BY EntriesType DEF Packages
<1>2. own \o everywhere \in Packages /\ m.packages \in Packages
  BY <1>1 DEF Manifest, Packages
<1>3. Added(j, m) = AddAll(m.packages, own \o everywhere, j.preserve, j.failIfExists)
  BY DEF Added
<1> HIDE DEF own, everywhere
<1>4. AddAll(m.packages, own \o everywhere, j.preserve, j.failIfExists)
        \in Additions(AllEntries)
  BY <1>2, AddAllFacts DEF Packages
<1>5. QED
  BY <1>3, <1>4 DEF Additions, Packages

\* And those whose bodies it uploads.
LEMMA UploadsType ==
  ASSUME NEW j \in Jobs, NEW ms \in Seq(Manifest)
  PROVE  Uploads(j, ms) \in Packages
<1> DEFINE seqs == [i \in DOMAIN ms |-> Entries(j, ms[i].arch)]
<1>1. DOMAIN ms = 1..Len(ms) /\ Len(ms) \in Nat
  OBVIOUS
<1>2. \A i \in 1..Len(ms) : Entries(j, ms[i].arch) \in Seq(AllEntries)
  BY EntriesType DEF Packages
<1>3. seqs \in Seq(Seq(AllEntries))
  BY <1>1, <1>2
<1>4. FlattenSeq(seqs) \in Seq(AllEntries)
  BY <1>3, FlattenFacts
<1>5. QED
  BY <1>4 DEF Uploads, Packages

\* copy, show and exists select from what they read.
LEMMA SelectedType ==
  ASSUME NEW j, NEW packages \in Packages
  PROVE  Selected(j, packages) \in Packages
  BY KeepOnlyFacts DEF Selected, Packages

\* A missing index reads as an empty manifest.
LEMMA PackagesOfType ==
  ASSUME NEW stored \in {NoObject} \cup Packages
  PROVE  PackagesOf(stored) \in Packages
  BY DEF PackagesOf, Packages

\* The default architectures are architectures.
LEMMA StandardArchsType == StandardArchs \in Seq(Archs)
  BY RepositoryAssumption

\* When a function on 1..n is a sequence.
LEMMA SequenceType ==
  ASSUME NEW n \in Nat, NEW S, NEW f,
         f = [i \in 1..n |-> f[i]], \A i \in 1..n : f[i] \in S
  PROVE  f \in Seq(S)
  OBVIOUS

\* Commands read manifests of architectures that exist.
LEMMA ArchsToReadType ==
  ASSUME NEW j \in Jobs, NEW archs \in Seq(Archs)
  PROVE  ArchsToRead(j, archs) \in Seq(Archs)
<1>1. UploadArchs(j, archs) \in Seq(Archs)
  <2> DEFINE placed == Placed(j)
             places == [i \in DOMAIN placed |-> Placement(j, placed[i])]
  <2>1. /\ placed \in Seq(ToSet(j.debs))
        /\ ToSet(placed) = ToSet(j.debs) \cap {d \in ToSet(j.debs) : ~Misplaced(j, d)}
    BY JobFacts, KeepOnlyFacts DEF Placed
  <2>2. UploadArchs(j, archs) = ReadArchs(archs, places)
    BY DEF UploadArchs
  <2> HIDE DEF placed
  <2>3. DOMAIN placed = 1..Len(placed) /\ Len(placed) \in Nat
    BY <2>1
  <2>4. ASSUME NEW i \in 1..Len(placed) PROVE Placement(j, placed[i]) \in Archs
    <3>1. placed[i] \in ToSet(j.debs) /\ ~Misplaced(j, placed[i])
      BY <2>1, <2>3 DEF ToSet
    <3>2. QED
      BY <3>1, JobFacts DEF Misplaced, Placement, IsJob
  <2>5. places \in Seq(Archs)
    BY <2>3, <2>4
  <2> HIDE DEF places
  <2>6. QED
    BY <2>2, <2>5, ReadArchsFacts, StandardArchsType
<1>2. KeepOnly(archs, {j.arch}) \in Seq(Archs)
  BY KeepOnlyFacts
<1>3. j.arch \in Archs => <<j.arch>> \in Seq(Archs)
  OBVIOUS
<1>4. j.op \in {"delete", "copy"} => j.arch \in Archs
  BY JobFacts DEF IsJob
<1>5. QED
  BY <1>1, <1>2, <1>3, <1>4 DEF ArchsToRead

---------------------------------------------------------------------------

\* A new Release is a Release.
LEMMA NewReleaseType == ASSUME NEW b \in BOOLEAN PROVE NewRelease(b) \in Releases
  BY DEF NewRelease, Releases

\* The fields of a Release.
LEMMA ReleaseType ==
  ASSUME NEW cs \in Seq(Components), NEW as \in Seq(Archs), NEW b \in BOOLEAN,
         NEW files \in [IndexNames -> {NoObject} \cup Packages],
         NEW d \in {NoObject} \cup Runs
  PROVE  [components |-> cs, archs |-> as, byHash |-> b, files |-> files,
          date |-> d] \in Releases
  BY DEF Releases

\* What RetrieveRelease returns is a Release.
LEMMA RetrievedType ==
  ASSUME NEW stored \in {NoObject} \cup Releases, NEW option
  PROVE  Retrieved(stored, option) \in Releases
<1>1. CASE stored = NoObject
  BY <1>1, NewReleaseType DEF Retrieved
<1>2. CASE stored # NoObject
  BY <1>2 DEF Retrieved, Releases
<1>3. QED
  BY <1>1, <1>2

\* A Release with updated manifests is a Release.
LEMMA UpdateManifestsType ==
  ASSUME NEW r \in Releases, NEW ms \in Seq(Manifest)
  PROVE  UpdateManifests(r, ms) \in Releases
<1> DEFINE cs == [i \in DOMAIN ms |-> ms[i].component]
           as == [i \in DOMAIN ms |-> ms[i].arch]
           Listed(n) == {i \in DOMAIN ms : Lists(ms[i], n)}
           files == [n \in IndexNames |->
                       IF Listed(n) = {} THEN r.files[n]
                       ELSE ms[CHOOSE i \in Listed(n) : TRUE].packages]
<1>1. /\ DOMAIN ms = 1..Len(ms) /\ Len(ms) \in Nat
      /\ \A i \in 1..Len(ms) : /\ ms[i].component \in Components
                               /\ ms[i].arch \in Archs
                               /\ ms[i].packages \in Packages
  <2>1. \A m \in Manifest : /\ m.component \in Components /\ m.arch \in Archs
                            /\ m.packages \in Packages
    BY DEF Manifest
  <2>2. DOMAIN ms = 1..Len(ms) /\ Len(ms) \in Nat
            /\ \A i \in 1..Len(ms) : ms[i] \in Manifest
    OBVIOUS
  <2>3. QED
    BY <2>1, <2>2
<1>2. cs \in Seq(Components) /\ as \in Seq(Archs)
  BY <1>1
<1>3. /\ r.components \in Seq(Components) /\ r.archs \in Seq(Archs)
      /\ r.byHash \in BOOLEAN /\ r.date \in {NoObject} \cup Runs
      /\ r.files \in [IndexNames -> {NoObject} \cup Packages]
  BY DEF Releases
<1>4. files \in [IndexNames -> {NoObject} \cup Packages]
  <2>1. ASSUME NEW n \in IndexNames, Listed(n) # {}
        PROVE  ms[CHOOSE i \in Listed(n) : TRUE].packages \in Packages
    <3>1. (CHOOSE i \in Listed(n) : TRUE) \in DOMAIN ms
      BY <2>1
    <3>2. QED
      BY <1>1, <3>1
  <2> HIDE DEF Listed
  <2>2. QED
    BY <1>3, <2>1
<1>5. UpdateManifests(r, ms) =
        [components |-> AppendAllUnique(r.components, cs),
         archs |-> AppendAllUnique(r.archs, as),
         byHash |-> r.byHash, files |-> files, date |-> r.date]
  BY DEF UpdateManifests
<1> HIDE DEF cs, as, files
<1>6. /\ AppendAllUnique(r.components, cs) \in Seq(Components)
      /\ AppendAllUnique(r.archs, as) \in Seq(Archs)
  BY <1>2, <1>3, AppendAllUniqueFacts
<1>7. [components |-> AppendAllUnique(r.components, cs),
       archs |-> AppendAllUnique(r.archs, as),
       byHash |-> r.byHash, files |-> files, date |-> r.date] \in Releases
  BY ONLY <1>3, <1>4, <1>6, ReleaseType
<1>8. QED
  BY ONLY <1>5, <1>7

\* The empty manifests that a Release lacks are manifests.
LEMMA MissingManifestsType ==
  ASSUME NEW r \in Releases
  PROVE  MissingManifests(r) \in Seq(Manifest)
<1> DEFINE empty == [i \in DOMAIN r.components |->
                       [k \in DOMAIN StandardArchs |->
                          [component |-> r.components[i],
                           arch      |-> StandardArchs[k],
                           packages  |-> <<>>]]]
           candidates == FlattenSeq(empty)
           S == {m \in ToSet(candidates) :
                   /\ Contains(r.archs, m.arch)
                   /\ r.files[<<m.component, m.arch, "Packages">>] = NoObject}
<1>1. r.components \in Seq(Components) /\ StandardArchs \in Seq(Archs)
  BY StandardArchsType DEF Releases
<1>2. \A i \in DOMAIN r.components, k \in DOMAIN StandardArchs :
        [component |-> r.components[i], arch |-> StandardArchs[k],
         packages  |-> <<>>] \in Manifest
  BY <1>1 DEF Manifest, Packages
<1>3. /\ DOMAIN r.components = 1..Len(r.components) /\ Len(r.components) \in Nat
      /\ DOMAIN StandardArchs = 1..Len(StandardArchs) /\ Len(StandardArchs) \in Nat
  BY <1>1
<1>4. empty \in Seq(Seq(Manifest))
  <2>1. \A i \in 1..Len(r.components) : empty[i] \in Seq(Manifest)
    BY <1>2, <1>3
  <2>2. empty = [i \in 1..Len(r.components) |-> empty[i]]
    BY <1>3
  <2> HIDE DEF empty
  <2>3. QED
    BY <1>3, <2>1, <2>2, SequenceType
<1>5. MissingManifests(r) = KeepOnly(candidates, S)
  BY DEF MissingManifests
<1> HIDE DEF empty
<1>6. candidates \in Seq(Manifest)
  BY <1>4, FlattenFacts
<1> HIDE DEF S, candidates
<1>7. QED
  BY <1>5, <1>6, KeepOnlyFacts

\* A manifest has two artifacts, the plain index and the compressed one.
LEMMA ArtifactsType ==
  ASSUME NEW ms \in Seq(Manifest)
  PROVE  /\ Artifacts(ms) \in Seq(Artifact)
         /\ Len(Artifacts(ms)) = 2 * Len(ms)
<1> DEFINE artifact(i) ==
      LET m == ms[(i + 1) \div 2]
      IN  [name |-> <<m.component, m.arch, Forms[2 - (i % 2)]>>, body |-> m.packages]
<1>1. Len(ms) \in Nat /\ \A i \in 1..Len(ms) : ms[i] \in Manifest
  OBVIOUS
<1>2. ASSUME NEW i \in 1..(2 * Len(ms)) PROVE artifact(i) \in Artifact
  <2>1. (i + 1) \div 2 \in 1..Len(ms) /\ 2 - (i % 2) \in {1, 2}
    BY <1>1
  <2>2. ms[(i + 1) \div 2] \in Manifest
    BY <1>1, <2>1
  <2>3. Forms[2 - (i % 2)] \in ToSet(Forms)
    BY <2>1 DEF Forms, ToSet
  <2>4. QED
    BY <2>2, <2>3 DEF Manifest, Artifact, IndexNames
<1>3. Artifacts(ms) = [i \in 1..(2 * Len(ms)) |-> artifact(i)]
  BY DEF Artifacts
<1> HIDE DEF artifact
<1>4. QED
  BY <1>1, <1>2, <1>3

---------------------------------------------------------------------------
(* The types of the state *)

\* Where a run may be, by its command and by what it holds in memory. Clean
\* holds pool keys and indexes where other commands hold entries and
\* architectures, copy reads one manifest, and a call is left behind only by
\* a run that is over.
RunOK(p) ==
  LET op == job[p].op
  IN  /\ op = "clean" => pc[p] \in {"start", "lock", "list", "scan", "sweep",
                                   "unlock", "ended"}
      /\ pc[p] \in {"list", "scan", "sweep"} => op = "clean"
      /\ pc[p] = "source" => op = "copy"
      /\ pc[p] = "lookup" => op \in {"show", "exists"}
      /\ pc[p] = "heads" => op = "verify" /\ manifests[p] # <<>>
      /\ pc[p] \in {"start", "lock", "source", "release"} => manifests[p] = <<>>
      /\ op = "copy" /\ pc[p] = "manifests"
           => Len(todo[p]) + Len(manifests[p]) = 1
      /\ pc[p] \in {"byHash", "canonical"} => batches[p] # <<>>
      /\ late[p] # "none" => op # "clean" /\ pc[p] \in {"unlock", "ended"}
      /\ late[p] \in {"byHash", "canonical"} => batches[p] # <<>>
      /\ todo[p] \in IF op = "clean" THEN Seq(Codenames \X IndexNames) ELSE Seq(Archs)
      /\ op = "clean" => \A k \in ToSet(todo[p]) : index[k[1]][k[2]] \in Packages

\* So are all of the runs.
RunsOK == \A p \in Runs : RunOK(p)

\* The inductive invariant.
TypeInv == TypeOK /\ RunsOK

\* No other run takes part in the step.
Private(p) ==
  \A q \in Runs \ {p} :
    /\ pc'[q] = pc[q] /\ job'[q] = job[q] /\ batches'[q] = batches[q]
    /\ manifests'[q] = manifests[q] /\ todo'[q] = todo[q] /\ late'[q] = late[q]

\* An index that exists is never removed.
IndexesStay ==
  \A c \in Codenames, n \in IndexNames :
    index[c][n] \in Packages => index'[c][n] \in Packages

\* Runs that take no part in the step stay where they may be.
LEMMA OthersOK ==
  ASSUME TypeInv, NEW p \in Runs, Private(p), IndexesStay, RunOK(p)'
  PROVE  RunsOK'
<1> SUFFICES ASSUME NEW q \in Runs, q # p PROVE RunOK(q)'
  BY DEF RunsOK
<1>1. RunOK(q)
  BY DEF TypeInv, RunsOK
<1>2. /\ pc'[q] = pc[q] /\ job'[q] = job[q] /\ batches'[q] = batches[q]
      /\ manifests'[q] = manifests[q] /\ todo'[q] = todo[q] /\ late'[q] = late[q]
  BY DEF Private
<1>3. ASSUME job[q].op = "clean", NEW k \in ToSet(todo[q])
      PROVE  index'[k[1]][k[2]] \in Packages
  <2>1. todo[q] \in Seq(Codenames \X IndexNames) /\ index[k[1]][k[2]] \in Packages
    BY <1>1, <1>3 DEF RunOK
  <2>2. k \in Codenames \X IndexNames
    BY <2>1, <1>3 DEF ToSet
  <2>3. QED
    BY <2>1, <2>2 DEF IndexesStay
<1>4. QED
  BY <1>1, <1>2, <1>3 DEF RunOK

\* A run has one of the commands of the instance.
LEMMA JobType == ASSUME TypeOK, NEW p \in Runs PROVE job[p] \in Jobs
<1>1. job[p] \in JobsOf[p]
  BY DEF TypeOK
<1>2. QED
  BY <1>1 DEF Jobs

\* A run works on a codename of the repository.
LEMMA CodenameType == ASSUME TypeOK, NEW p \in Runs PROVE Codename(p) \in Codenames
  BY JobType, JobFacts DEF Codename

\* While artifacts are left, the next one is an index and its contents.
LEMMA ArtifactType ==
  ASSUME TypeOK, NEW p \in Runs, batches[p] # <<>>, ArtifactsLeft(p)
  PROVE  LET a == Batch(p)[at[p]]
         IN  a.name \in IndexNames /\ a.body \in Packages
<1>1. batches[p] \in Seq(Seq(Artifact)) /\ at[p] \in Nat \ {0}
  BY DEF TypeOK
<1>2. Head(batches[p]) \in Seq(Artifact)
  BY <1>1
<1>3. Batch(p)[at[p]] \in Artifact
  BY <1>1, <1>2 DEF ArtifactsLeft, Batch
<1>4. QED
  BY <1>3 DEF Artifact

\* The name of a plain index.
LEMMA PlainName ==
  ASSUME NEW c \in Components, NEW a \in Archs
  PROVE  <<c, a, "Packages">> \in IndexNames
<1>1. "Packages" \in ToSet(Forms)
  BY DEF Forms, ToSet
<1>2. QED
  BY <1>1 DEF IndexNames

\* What is read under the name of an index is a list of packages.
LEMMA IndexType ==
  ASSUME TypeOK, NEW c \in Codenames, NEW n \in IndexNames
  PROVE  PackagesOf(index[c][n]) \in Packages
  BY PackagesOfType DEF TypeOK

\* What a run renders is a Release.
LEMMA RenderedType == ASSUME TypeOK, NEW p \in Runs PROVE Rendered(p) \in Releases
<1>1. rel[p] \in Releases
  BY DEF TypeOK
<1>2. QED
  BY <1>1 DEF Rendered, Releases

\* The steps that take and release the lock, and those that only end an
\* operation.
LEMMA LockType ==
  ASSUME TypeInv, NEW p \in Runs, UNCHANGED late,
         \/ Start(p) \/ TakeLock(p) \/ GiveUp(p) \/ Unlock(p) \/ UnlockFails(p)
         \/ SigningFails(p) \/ Answer(p) \/ SweepDone(p)
  PROVE  TypeInv'
<1> USE DEF Goto, store, memory, reading, Labels, Outcomes
<1>0. TypeOK /\ RunOK(p)
  BY DEF TypeInv, RunsOK
<1>1. CASE Start(p)
  <2>1. TypeOK'
    BY <1>0, <1>1 DEF TypeOK, RunOK, Start, FirstRead
  <2>2. RunOK(p)'
    BY <1>0, <1>1 DEF TypeOK, RunOK, Start, FirstRead
  <2>3. Private(p) /\ IndexesStay
    BY <1>0, <1>1 DEF TypeOK, Private, IndexesStay, Start, FirstRead
  <2>4. QED
    BY <2>1, <2>2, <2>3, OthersOK DEF TypeInv
<1>2. CASE TakeLock(p)
  <2>1. TypeOK'
    BY <1>0, CodenameType, <1>2 DEF TypeOK, RunOK, TakeLock, FirstRead, Codename
  <2>2. RunOK(p)'
    BY <1>0, CodenameType, <1>2 DEF TypeOK, RunOK, TakeLock, FirstRead, Codename
  <2>3. Private(p) /\ IndexesStay
    BY <1>0, <1>2 DEF TypeOK, Private, IndexesStay, TakeLock, FirstRead, Codename
  <2>4. QED
    BY <2>1, <2>2, <2>3, OthersOK DEF TypeInv
<1>3. CASE GiveUp(p)
  <2>1. TypeOK'
    <3>1. lockfile' \in [Codenames -> {NoObject} \cup Runs]
      BY <1>0, <1>3 DEF TypeOK, GiveUp
    <3>2. pc' \in [Runs -> Labels] /\ outcome' \in [Runs -> Outcomes]
      BY <1>0, <1>3 DEF TypeOK, GiveUp
    <3>3. pc[p] = "lock" /\ \A q \in Runs \ {p} : pc'[q] = pc[q]
      BY <1>0, <1>3 DEF TypeOK, GiveUp
    <3>4. pc'[p] = "ended"
      BY <1>0, <1>3 DEF TypeOK, GiveUp
    <3>5. QED
      BY <1>0, <1>3, <3>1, <3>2, <3>3, <3>4 DEF TypeOK, GiveUp
  <2>2. RunOK(p)'
    BY <1>0, CodenameType, <1>3 DEF TypeOK, RunOK, GiveUp, Codename
  <2>3. Private(p) /\ IndexesStay
    BY <1>0, <1>3 DEF TypeOK, Private, IndexesStay, GiveUp, Codename
  <2>4. QED
    BY <2>1, <2>2, <2>3, OthersOK DEF TypeInv
<1>4. CASE Unlock(p)
  <2>1. TypeOK'
    BY <1>0, CodenameType, <1>4 DEF TypeOK, RunOK, Unlock, Codename
  <2>2. RunOK(p)'
    BY <1>0, CodenameType, <1>4 DEF TypeOK, RunOK, Unlock, Codename
  <2>3. Private(p) /\ IndexesStay
    BY <1>0, <1>4 DEF TypeOK, Private, IndexesStay, Unlock, Codename
  <2>4. QED
    BY <2>1, <2>2, <2>3, OthersOK DEF TypeInv
<1>5. CASE UnlockFails(p)
  <2>1. TypeOK'
    BY <1>0, <1>5 DEF TypeOK, RunOK, UnlockFails
  <2>2. RunOK(p)'
    BY <1>0, <1>5 DEF TypeOK, RunOK, UnlockFails
  <2>3. Private(p) /\ IndexesStay
    BY <1>0, <1>5 DEF TypeOK, Private, IndexesStay, UnlockFails
  <2>4. QED
    BY <2>1, <2>2, <2>3, OthersOK DEF TypeInv
<1>6. CASE SigningFails(p)
  <2>1. TypeOK'
    BY <1>0, <1>6 DEF TypeOK, RunOK, SigningFails, SignFails, Finish
  <2>2. RunOK(p)'
    BY <1>0, <1>6 DEF TypeOK, RunOK, SigningFails, SignFails, Finish
  <2>3. Private(p) /\ IndexesStay
    BY <1>0, <1>6 DEF TypeOK, Private, IndexesStay, SigningFails, SignFails, Finish
  <2>4. QED
    BY <2>1, <2>2, <2>3, OthersOK DEF TypeInv
<1>7. CASE Answer(p)
  <2>1. TypeOK'
    BY <1>0, <1>7 DEF TypeOK, RunOK, Answer, Finish
  <2>2. RunOK(p)'
    BY <1>0, <1>7 DEF TypeOK, RunOK, Answer, Finish
  <2>3. Private(p) /\ IndexesStay
    BY <1>0, <1>7 DEF TypeOK, Private, IndexesStay, Answer, Finish
  <2>4. QED
    BY <2>1, <2>2, <2>3, OthersOK DEF TypeInv
<1>8. CASE SweepDone(p)
  <2>1. TypeOK'
    BY <1>0, <1>8 DEF TypeOK, RunOK, SweepDone, Finish
  <2>2. RunOK(p)'
    BY <1>0, <1>8 DEF TypeOK, RunOK, SweepDone, Finish
  <2>3. Private(p) /\ IndexesStay
    BY <1>0, <1>8 DEF TypeOK, Private, IndexesStay, SweepDone, Finish
  <2>4. QED
    BY <2>1, <2>2, <2>3, OthersOK DEF TypeInv
<1>9. QED
  BY <1>1, <1>2, <1>3, <1>4, <1>5, <1>6, <1>7, <1>8

\* The reads of copy and verify.
LEMMA ReadingType ==
  ASSUME TypeInv, NEW p \in Runs, UNCHANGED late,
         RetrieveSource(p) \/ HeadPackage(p) \/ HeadsDone(p)
  PROVE  TypeInv'
<1> USE DEF Goto, store, memory, reading, Labels, Outcomes
<1>0. TypeOK /\ RunOK(p)
  BY DEF TypeInv, RunsOK
<1>1. CASE RetrieveSource(p)
  <2>1. TypeOK'
    <3>1. PICK packages \in Packages :
            kept' = [kept EXCEPT ![p] = Selected(job[p], packages)]
      <4>1. /\ job[p].source[1] \in Codenames
            /\ <<job[p].source[2], job[p].arch, "Packages">> \in IndexNames
        BY <1>0, <1>1, JobType, JobFacts, PlainName DEF RunOK, RetrieveSource, IsJob
      <4>2. QED
        BY <1>0, <1>1, <4>1, IndexType DEF RetrieveSource
    <3>2. kept' \in [Runs -> Packages]
      BY <1>0, <3>1, SelectedType DEF TypeOK
    <3>3. QED
      BY <1>0, <1>1, <3>2 DEF TypeOK, RunOK, RetrieveSource
  <2>2. RunOK(p)'
    BY <1>0, JobType, JobFacts, SelectedType, PackagesOfType, <1>1 DEF TypeOK, RunOK,
       RetrieveSource
  <2>3. Private(p) /\ IndexesStay
    BY <1>0, <1>1 DEF TypeOK, Private, IndexesStay, RetrieveSource
  <2>4. QED
    BY <2>1, <2>2, <2>3, OthersOK DEF TypeInv
<1>2. CASE HeadPackage(p)
  <2>1. TypeOK'
    <3>1. job[p].op = "verify"
      BY <1>0, <1>2 DEF RunOK, HeadPackage
    <3>2. work[p] \in Packages /\ work[p] # <<>>
      BY <1>0, <1>2, <3>1 DEF TypeOK, HeadPackage
    <3>3. Head(work[p]) \in AllEntries /\ Tail(work[p]) \in Packages
      BY ONLY <3>2 DEF Packages
    <3>4. kept' \in [Runs -> Packages]
      BY <1>0, <1>2, <3>3 DEF TypeOK, HeadPackage, Packages
    <3>5. QED
      BY <1>0, <1>2, <3>1, <3>3, <3>4 DEF TypeOK, HeadPackage
  <2>2. RunOK(p)'
    BY <1>0, <1>2 DEF RunOK, HeadPackage
  <2>3. Private(p) /\ IndexesStay
    BY <1>0, <1>2 DEF TypeOK, Private, IndexesStay, HeadPackage, Packages
  <2>4. QED
    BY <2>1, <2>2, <2>3, OthersOK DEF TypeInv
<1>3. CASE HeadsDone(p)
  <2>1. TypeOK'
    <3>1. manifests[p] \in Seq(Manifest) /\ manifests[p] # <<>> /\ kept[p] \in Packages
      BY <1>0, <1>3 DEF TypeOK, RunOK, HeadsDone
    <3>2. Last(manifests[p]) \in Manifest /\ Front(manifests[p]) \in Seq(Manifest)
      BY <3>1 DEF Last, Front
    <3>3. [Last(manifests[p]) EXCEPT !.packages = kept[p]] \in Manifest
      BY <3>1, <3>2 DEF Manifest
    <3>4. \E ms \in Seq(Manifest) : manifests' = [manifests EXCEPT ![p] = ms]
      <4> DEFINE m == [Last(manifests[p]) EXCEPT !.packages = kept[p]]
      <4>1. Append(Front(manifests[p]), m) \in Seq(Manifest)
        BY <3>2, <3>3
      <4>2. manifests' \in {[manifests EXCEPT ![p] = Front(manifests[p])],
                            [manifests EXCEPT ![p] = Append(Front(manifests[p]), m)]}
        BY <1>3 DEF HeadsDone
      <4>3. QED
        BY <3>2, <4>1, <4>2
    <3>5. <<>> \in Packages
      BY DEF Packages
    <3>6. manifests' \in [Runs -> Seq(Manifest)]
      BY <1>0, <3>4 DEF TypeOK
    <3>7. kept' \in [Runs -> Packages]
      BY <1>0, <1>3, <3>5 DEF TypeOK, HeadsDone
    <3>8. QED
      BY <1>0, <1>3, <3>6, <3>7 DEF TypeOK, RunOK, HeadsDone
  <2>2. RunOK(p)'
    BY <1>0, <1>3 DEF TypeOK, RunOK, HeadsDone
  <2>3. Private(p) /\ IndexesStay
    BY <1>0, <1>3 DEF TypeOK, Private, IndexesStay, HeadsDone
  <2>4. QED
    BY <2>1, <2>2, <2>3, OthersOK DEF TypeInv
<1>4. QED
  BY <1>1, <1>2, <1>3

\* The publication sequence.
LEMMA PublicationType ==
  ASSUME TypeInv, NEW p \in Runs, UNCHANGED <<late, reading>>,
         \/ PutPackage(p) \/ PackagesDone(p) \/ PutByHash(p) \/ ByHashDone(p)
         \/ PutCanonical(p) \/ CanonicalDone(p) \/ Sign(p)
         \/ DeleteReleaseGpg(p) \/ DeleteInRelease(p) \/ PutRelease(p)
         \/ PutReleaseGpg(p) \/ PutInRelease(p)
  PROVE  TypeInv'
<1> USE DEF Goto, store, memory, reading, Labels, Outcomes
<1>0. TypeOK /\ RunOK(p)
  BY DEF TypeInv, RunsOK
<1>1. CASE PutPackage(p)
  <2>1. TypeOK'
    <3> DEFINE e == Head(work[p])
    <3>1. job[p].op # "clean" /\ work[p] # <<>> /\ work[p] \in Packages
      BY <1>0, <1>1 DEF TypeOK, RunOK, PutPackage
    <3>2. e \in AllEntries /\ Tail(work[p]) \in Packages
      BY <3>1 DEF Packages
    <3>3. e.filename \in PoolKeys /\ e.sum \in {f.sum : f \in AllEntries}
      BY <3>2, EntryFacts
    <3> HIDE DEF e
    <3>4. pool' \in {pool, [pool EXCEPT ![e.filename] = e.sum]}
      BY <1>1 DEF PutPackage, e
    <3>5. pool' \in [PoolKeys -> {NoObject} \cup {f.sum : f \in AllEntries}]
      BY <1>0, <3>3, <3>4 DEF TypeOK
    <3>6. CASE Refused(p, Head(work[p]))
      BY <1>0, <1>1, <3>1, <3>5, <3>6 DEF TypeOK, PutPackage, Finish
    <3>7. CASE ~Refused(p, Head(work[p]))
      <4>1. /\ work' = [work EXCEPT ![p] = Tail(work[p])]
            /\ UNCHANGED <<pc, outcome>>
        BY <1>1, <3>7 DEF PutPackage
      <4>2. QED
        BY <1>0, <1>1, <3>1, <3>2, <3>5, <4>1 DEF TypeOK, PutPackage
    <3>8. QED
      BY <3>6, <3>7
  <2>2. RunOK(p)'
    BY <1>0, EntryFacts, <1>1 DEF TypeOK, RunOK, PutPackage, Finish, Packages
  <2>3. Private(p) /\ IndexesStay
    BY <1>0, <1>1 DEF TypeOK, Private, IndexesStay, PutPackage, Finish, Packages
  <2>4. QED
    BY <2>1, <2>2, <2>3, OthersOK DEF TypeInv
<1>2. CASE PackagesDone(p)
  <2>1. TypeOK'
    BY <1>0, <1>2 DEF TypeOK, RunOK, PackagesDone, AfterIndexes
  <2>2. RunOK(p)'
    BY <1>0, <1>2 DEF TypeOK, RunOK, PackagesDone, AfterIndexes
  <2>3. Private(p) /\ IndexesStay
    BY <1>0, <1>2 DEF TypeOK, Private, IndexesStay, PackagesDone, AfterIndexes
  <2>4. QED
    BY <2>1, <2>2, <2>3, OthersOK DEF TypeInv
<1>3. CASE PutByHash(p)
  <2>1. TypeOK'
    <3> DEFINE a == Batch(p)[at[p]]
               c == Codename(p)
    <3>1. a.name \in IndexNames /\ a.body \in Packages /\ c \in Codenames
      BY <1>0, <1>3, ArtifactType, CodenameType DEF PutByHash, RunOK
    <3>2. byHash' = [byHash EXCEPT ![c][a.name] = @ \cup {a.body}]
      BY <1>3 DEF PutByHash
    <3> HIDE DEF a, c
    <3>3. /\ DOMAIN byHash' = Codenames
          /\ \A d \in Codenames :
               /\ DOMAIN byHash'[d] = IndexNames
               /\ \A m \in IndexNames : \A body \in byHash'[d][m] : body \in Packages
      BY <1>0, <3>1, <3>2 DEF TypeOK
    <3>4. QED
      BY <1>0, <1>3, <3>3 DEF TypeOK, PutByHash
  <2>2. RunOK(p)'
    BY <1>0, CodenameType, <1>3 DEF TypeOK, RunOK, PutByHash, ArtifactsLeft, Batch
  <2>3. Private(p) /\ IndexesStay
    BY <1>0, <1>3 DEF TypeOK, Private, IndexesStay, PutByHash, ArtifactsLeft, Batch
  <2>4. QED
    BY <2>1, <2>2, <2>3, OthersOK DEF TypeInv
<1>4. CASE ByHashDone(p)
  <2>1. TypeOK'
    BY <1>0, <1>4 DEF TypeOK, RunOK, ByHashDone
  <2>2. RunOK(p)'
    BY <1>0, <1>4 DEF TypeOK, RunOK, ByHashDone
  <2>3. Private(p) /\ IndexesStay
    BY <1>0, <1>4 DEF TypeOK, Private, IndexesStay, ByHashDone
  <2>4. QED
    BY <2>1, <2>2, <2>3, OthersOK DEF TypeInv
<1>5. CASE PutCanonical(p)
  <2>0. /\ Codename(p) \in Codenames
        /\ \E m \in IndexNames, body \in Packages :
             index' = [index EXCEPT ![Codename(p)][m] = body]
    BY <1>0, <1>5, ArtifactType, CodenameType DEF PutCanonical, RunOK
  <2>1. TypeOK'
    <3>1. index' \in [Codenames -> [IndexNames -> {NoObject} \cup Packages]]
      BY <1>0, <2>0 DEF TypeOK
    <3>2. QED
      BY <1>0, <1>5, <3>1 DEF TypeOK, PutCanonical
  <2>2. RunOK(p)'
    BY <1>0, CodenameType, <1>5 DEF TypeOK, RunOK, PutCanonical, ArtifactsLeft, Batch
  <2>3. Private(p) /\ IndexesStay
    <3>1. IndexesStay
      BY <1>0, <2>0 DEF TypeOK, IndexesStay
    <3>2. Private(p)
      BY <1>0, <1>5 DEF TypeOK, Private, PutCanonical
    <3>3. QED
      BY <3>1, <3>2
  <2>4. QED
    BY <2>1, <2>2, <2>3, OthersOK DEF TypeInv
<1>6. CASE CanonicalDone(p)
  <2>1. TypeOK'
    <3>1. batches[p] # <<>>
      BY <1>0, <1>6 DEF RunOK, CanonicalDone
    <3>2. batches' \in [Runs -> Seq(Seq(Artifact))] /\ at' \in [Runs -> Nat \ {0}]
      BY <1>0, <1>6, <3>1 DEF TypeOK, CanonicalDone
    <3>3. pc' \in [Runs -> Labels] /\ pc'[p] # "sweep" /\ pc[p] # "sweep"
          /\ \A q \in Runs \ {p} : pc'[q] = pc[q]
      BY <1>0, <1>6 DEF TypeOK, CanonicalDone, AfterIndexes
    <3>4. QED
      BY <1>0, <1>6, <3>2, <3>3 DEF TypeOK, CanonicalDone
  <2>2. RunOK(p)'
    BY <1>0, <1>6 DEF TypeOK, RunOK, CanonicalDone, AfterIndexes
  <2>3. Private(p) /\ IndexesStay
    BY <1>0, <1>6 DEF TypeOK, Private, IndexesStay, CanonicalDone, AfterIndexes
  <2>4. QED
    BY <2>1, <2>2, <2>3, OthersOK DEF TypeInv
<1>7. CASE Sign(p)
  <2>1. TypeOK'
    BY <1>0, <1>7 DEF TypeOK, RunOK, Sign
  <2>2. RunOK(p)'
    BY <1>0, <1>7 DEF TypeOK, RunOK, Sign
  <2>3. Private(p) /\ IndexesStay
    BY <1>0, <1>7 DEF TypeOK, Private, IndexesStay, Sign
  <2>4. QED
    BY <2>1, <2>2, <2>3, OthersOK DEF TypeInv
<1>8. CASE DeleteReleaseGpg(p)
  <2>1. TypeOK'
    BY <1>0, CodenameType, <1>8 DEF TypeOK, RunOK, DeleteReleaseGpg
  <2>2. RunOK(p)'
    BY <1>0, CodenameType, <1>8 DEF TypeOK, RunOK, DeleteReleaseGpg
  <2>3. Private(p) /\ IndexesStay
    BY <1>0, <1>8 DEF TypeOK, Private, IndexesStay, DeleteReleaseGpg
  <2>4. QED
    BY <2>1, <2>2, <2>3, OthersOK DEF TypeInv
<1>9. CASE DeleteInRelease(p)
  <2>1. TypeOK'
    BY <1>0, CodenameType, <1>9 DEF TypeOK, RunOK, DeleteInRelease
  <2>2. RunOK(p)'
    BY <1>0, CodenameType, <1>9 DEF TypeOK, RunOK, DeleteInRelease
  <2>3. Private(p) /\ IndexesStay
    BY <1>0, <1>9 DEF TypeOK, Private, IndexesStay, DeleteInRelease
  <2>4. QED
    BY <2>1, <2>2, <2>3, OthersOK DEF TypeInv
<1>10. CASE PutRelease(p)
  <2>0. /\ \E label \in {"putGpg", "unlock", "ended"} : pc' = [pc EXCEPT ![p] = label]
        /\ outcome' \in {outcome, [outcome EXCEPT ![p] = "ok"]}
    BY <1>10 DEF PutRelease, Finish
  <2>1. TypeOK'
    <3>1. release' \in [Codenames -> {NoObject} \cup Releases]
      BY <1>0, <1>10, CodenameType, RenderedType DEF TypeOK, PutRelease
    <3>2. /\ pc' \in [Runs -> Labels]
          /\ outcome' \in [Runs -> Outcomes]
      <4>1. pc \in [Runs -> Labels] /\ outcome \in [Runs -> Outcomes]
        BY <1>0 DEF TypeOK
      <4>2. QED
        BY <2>0, <4>1
    <3>3. \A q \in Runs : pc'[q] = "sweep" => pc[q] = "sweep"
      BY <1>0, <2>0 DEF TypeOK
    <3>4. \A q \in Runs : pc[q] = "sweep" => pc'[q] = "sweep"
      BY <1>0, <1>10, <2>0 DEF TypeOK, PutRelease
    <3>5. QED
      BY <1>0, <1>10, <3>1, <3>2, <3>3, <3>4 DEF TypeOK, PutRelease
  <2>2. RunOK(p)'
    BY <1>0, <1>10, <2>0 DEF TypeOK, RunOK, PutRelease
  <2>3. Private(p) /\ IndexesStay
    BY <1>0, <1>10 DEF TypeOK, Private, IndexesStay, PutRelease, Finish
  <2>4. QED
    BY <2>1, <2>2, <2>3, OthersOK DEF TypeInv
<1>11. CASE PutReleaseGpg(p)
  <2>1. TypeOK'
    BY <1>0, CodenameType, RenderedType, <1>11 DEF TypeOK, RunOK, PutReleaseGpg
  <2>2. RunOK(p)'
    BY <1>0, CodenameType, RenderedType, <1>11 DEF TypeOK, RunOK, PutReleaseGpg
  <2>3. Private(p) /\ IndexesStay
    BY <1>0, <1>11 DEF TypeOK, Private, IndexesStay, PutReleaseGpg
  <2>4. QED
    BY <2>1, <2>2, <2>3, OthersOK DEF TypeInv
<1>12. CASE PutInRelease(p)
  <2>1. TypeOK'
    BY <1>0, CodenameType, RenderedType, <1>12 DEF TypeOK, RunOK, PutInRelease, Finish
  <2>2. RunOK(p)'
    BY <1>0, CodenameType, RenderedType, <1>12 DEF TypeOK, RunOK, PutInRelease, Finish
  <2>3. Private(p) /\ IndexesStay
    BY <1>0, <1>12 DEF TypeOK, Private, IndexesStay, PutInRelease, Finish
  <2>4. QED
    BY <2>1, <2>2, <2>3, OthersOK DEF TypeInv
<1>13. QED
  BY <1>1, <1>2, <1>3, <1>4, <1>5, <1>6, <1>7, <1>8, <1>9, <1>10, <1>11, <1>12

\* Get and ParseRelease.
LEMMA RetrieveReleaseType ==
  ASSUME TypeInv, NEW p \in Runs, RetrieveRelease(p), UNCHANGED late
  PROVE  TypeInv'
<1> USE DEF Goto, store, memory, reading
<1>0. TypeOK /\ RunOK(p)
  BY DEF TypeInv, RunsOK
<1> DEFINE r == Retrieved(release[Codename(p)], job[p].byHash)
           archs == ArchsToRead(job[p], r.archs)
<1>1. /\ rel' = [rel EXCEPT ![p] = r] /\ todo' = [todo EXCEPT ![p] = archs]
      /\ pc[p] = "release" /\ pc' = [pc EXCEPT ![p] = "manifests"]
      /\ UNCHANGED <<store, outcome, job, batches, at, work, manifests, kept, refs>>
  BY DEF RetrieveRelease
<1>2. r \in Releases
  BY <1>0, CodenameType, RetrievedType DEF TypeOK
<1>3. archs \in Seq(Archs)
  <2>1. r.archs \in Seq(Archs)
    BY <1>2 DEF Releases
  <2>2. QED
    BY <1>0, <2>1, JobType, ArchsToReadType
<1>4. job[p].op = "copy" => Len(archs) = 1
  BY DEF ArchsToRead
<1> HIDE DEF r, archs
<1>5. TypeOK'
  BY <1>0, <1>1, <1>2 DEF TypeOK, Labels
<1>6. RunOK(p)'
  <2>1. /\ pc'[p] = "manifests" /\ todo'[p] = archs /\ job' = job /\ late' = late
        /\ manifests' = manifests /\ late[p] = "none" /\ manifests[p] = <<>>
        /\ job[p].op # "clean"
    BY <1>0, <1>1 DEF TypeOK, RunOK
  <2>2. QED
    BY <1>3, <1>4, <2>1 DEF RunOK
<1>7. Private(p) /\ IndexesStay
  BY <1>0, <1>1 DEF TypeOK, RunOK, Private, IndexesStay
<1>8. QED
  BY <1>5, <1>6, <1>7, OthersOK DEF TypeInv

\* The manifest of the next architecture, with what delete and verify make of
\* it.
LEMMA RetrieveManifestType ==
  ASSUME TypeInv, NEW p \in Runs, RetrieveManifest(p), UNCHANGED late
  PROVE  TypeInv'
<1> USE DEF Goto, store, memory, reading
<1>0. TypeOK /\ RunOK(p)
  BY DEF TypeInv, RunsOK
<1> DEFINE j == job[p]
           arch == Head(todo[p])
           packages == PackagesOf(index[j.codename][<<j.component, arch, "Packages">>])
           left == IF j.op = "delete"
                   THEN DeletePackage(packages, j.name, j.all, j.versions)
                   ELSE packages
           m == [component |-> j.component, arch |-> arch, packages |-> left]
<1>1. /\ pc[p] = "manifests" /\ todo[p] # <<>>
      /\ manifests' = [manifests EXCEPT ![p] =
               IF j.op = "delete" /\ left = packages THEN @ ELSE Append(@, m)]
      /\ IF j.op = "verify"
         THEN pc' = [pc EXCEPT ![p] = "heads"] /\ work' = [work EXCEPT ![p] = packages]
         ELSE UNCHANGED <<pc, work>>
      /\ todo' = [todo EXCEPT ![p] = Tail(@)]
      /\ UNCHANGED <<store, outcome, job, rel, batches, at, kept, refs>>
  BY DEF RetrieveManifest
<1>2. j \in Jobs /\ j.op # "clean" /\ todo[p] \in Seq(Archs)
  BY <1>0, <1>1, JobType DEF RunOK
<1>3. arch \in Archs /\ Tail(todo[p]) \in Seq(Archs)
          /\ Len(Tail(todo[p])) = Len(todo[p]) - 1
  BY <1>1, <1>2
<1>4. packages \in Packages
  BY <1>0, <1>2, <1>3, JobFacts, PlainName, IndexType
<1>5. left \in Packages
  BY <1>4, KeepOnlyFacts DEF DeletePackage, Packages
<1>6. m \in Manifest
  BY <1>2, <1>3, <1>5, JobFacts DEF Manifest
<1>7. manifests[p] \in Seq(Manifest)
  BY <1>0 DEF TypeOK
<1> DEFINE ms == IF j.op = "delete" /\ left = packages THEN manifests[p]
                 ELSE Append(manifests[p], m)
<1>8. ms \in Seq(Manifest) /\
          (j.op # "delete" => ms # <<>> /\ Len(ms) = Len(manifests[p]) + 1)
  <2> HIDE DEF m, left, packages
  <2>1. \/ ms = manifests[p] /\ j.op = "delete"
        \/ ms = Append(manifests[p], m)
    OBVIOUS
  <2> HIDE DEF ms
  <2>2. /\ Append(manifests[p], m) \in Seq(Manifest)
        /\ Append(manifests[p], m) # <<>>
        /\ Len(Append(manifests[p], m)) = Len(manifests[p]) + 1
    BY <1>6, <1>7, AppendProperties
  <2>3. QED
    BY ONLY <1>7, <2>1, <2>2
<1>9. manifests' = [manifests EXCEPT ![p] = ms]
  BY <1>1
<1> HIDE DEF arch, packages, left, m, ms
<1>10. TypeOK'
  <2>1. manifests' \in [Runs -> Seq(Manifest)]
    BY <1>0, <1>8, <1>9 DEF TypeOK
  <2>2. pc' \in [Runs -> Labels]
    BY <1>0, <1>1 DEF TypeOK, Labels
  <2>3. /\ DOMAIN work' = Runs
        /\ \A q \in Runs : IF pc'[q] = "sweep" THEN work'[q] \in Seq(PoolKeys)
                            ELSE job[q].op = "clean" \/ work'[q] \in Packages
    BY <1>0, <1>1, <1>4 DEF TypeOK
  <2>4. QED
    BY <1>0, <1>1, <2>1, <2>2, <2>3 DEF TypeOK
<1>11. RunOK(p)'
  <2>1. /\ pc'[p] = (IF j.op = "verify" THEN "heads" ELSE "manifests")
        /\ todo'[p] = Tail(todo[p]) /\ manifests'[p] = ms
        /\ job' = job /\ late' = late /\ late[p] = "none"
    BY <1>0, <1>1, <1>9 DEF TypeOK, RunOK
  <2>2. j.op = "copy" => Len(Tail(todo[p])) + Len(ms) = 1
    <3>1. j.op = "copy" => Len(todo[p]) + Len(manifests[p]) = 1 /\ j.op # "delete"
      BY <1>0, <1>1 DEF RunOK
    <3>2. Len(todo[p]) \in Nat /\ Len(manifests[p]) \in Nat
      BY <1>2, <1>7
    <3>3. j.op = "copy" => Len(ms) = Len(manifests[p]) + 1
      BY <1>8, <3>1
    <3>4. Len(Tail(todo[p])) = Len(todo[p]) - 1
      BY <1>3
    <3>5. \A x, y \in Nat : x + y = 1 => (x - 1) + (y + 1) = 1
      OBVIOUS
    <3>6. ASSUME j.op = "copy" PROVE Len(Tail(todo[p])) + Len(ms) = 1
      BY ONLY <3>1, <3>2, <3>3, <3>4, <3>5, <3>6
    <3>7. QED
      BY <3>6
  <2>3. QED
    BY <1>2, <1>3, <1>8, <2>1, <2>2 DEF RunOK
<1>12. Private(p) /\ IndexesStay
  BY <1>0, <1>1 DEF TypeOK, RunOK, Private, IndexesStay
<1>13. QED
  BY <1>10, <1>11, <1>12, OthersOK DEF TypeInv

\* The reads of list, show and exists.
LEMMA QueryType ==
  ASSUME TypeInv, NEW p \in Runs, ListManifest(p) \/ LookUp(p), UNCHANGED late
  PROVE  TypeInv'
<1> USE DEF Goto, store, memory, reading
<1>0. TypeOK /\ RunOK(p)
  BY DEF TypeInv, RunsOK
<1>1. job[p] \in Jobs /\ Codename(p) \in Codenames /\ kept[p] \in Packages
  BY <1>0, JobType, CodenameType DEF TypeOK
<1>2. CASE ListManifest(p)
  <2> DEFINE n == <<job[p].component, Head(todo[p]), "Packages">>
             seen == Reported(kept[p], PackagesOf(index[Codename(p)][n]))
  <2>1. /\ todo[p] \in Seq(Archs) /\ todo[p] # <<>> /\ job[p].op = "list"
        /\ pc[p] = "manifests"
    BY <1>0, <1>2 DEF RunOK, ListManifest
  <2>2. Head(todo[p]) \in Archs /\ Tail(todo[p]) \in Seq(Archs)
    BY <2>1
  <2>3. n \in IndexNames
    BY <1>1, <2>2, JobFacts, PlainName
  <2>4. seen \in Packages
    <3>1. PackagesOf(index[Codename(p)][n]) \in Packages
      BY <1>0, <1>1, <2>3, IndexType
    <3>2. QED
      BY <1>1, <3>1, ReportedFacts DEF Packages
  <2>5. kept' = [kept EXCEPT ![p] = seen] /\ todo' = [todo EXCEPT ![p] = Tail(todo[p])]
        /\ UNCHANGED <<store, pc, outcome, memory, manifests, refs>>
    BY <1>2 DEF ListManifest
  <2> HIDE DEF seen
  <2>6. TypeOK'
    BY <1>0, <2>4, <2>5 DEF TypeOK
  <2>7. RunOK(p)'
    BY <1>0, <2>1, <2>2, <2>5 DEF TypeOK, RunOK
  <2>8. Private(p) /\ IndexesStay
    BY <1>0, <2>5 DEF TypeOK, Private, IndexesStay
  <2>9. QED
    BY <2>6, <2>7, <2>8, OthersOK DEF TypeInv
<1>3. CASE LookUp(p)
  <2> DEFINE n == <<job[p].component, job[p].arch, "Packages">>
             found == Selected(job[p], PackagesOf(index[Codename(p)][n]))
             answer == IF found = <<>> THEN found ELSE <<Head(found)>>
  <2>1. job[p].op \in {"show", "exists"} /\ pc[p] = "lookup"
    BY <1>0, <1>3 DEF RunOK, LookUp
  <2>2. n \in IndexNames
    BY <1>1, <2>1, JobFacts, PlainName DEF IsJob
  <2>3. found \in Packages
    BY <1>0, <1>1, <2>2, IndexType, SelectedType
  <2>4. answer \in Packages
    BY <2>3 DEF Packages
  <2>5. /\ kept' = [kept EXCEPT ![p] = answer]
        /\ \E label \in {"unlock", "ended"} : pc' = [pc EXCEPT ![p] = label]
        /\ \E how \in {"notFound", "ok"} : outcome' = [outcome EXCEPT ![p] = how]
        /\ UNCHANGED <<store, memory, manifests, todo, refs>>
    BY <1>3 DEF LookUp, Finish
  <2> HIDE DEF answer
  <2>6. TypeOK'
    BY <1>0, <2>1, <2>4, <2>5 DEF TypeOK, Labels, Outcomes
  <2>7. RunOK(p)'
    BY <1>0, <2>1, <2>5 DEF TypeOK, RunOK
  <2>8. Private(p) /\ IndexesStay
    BY <1>0, <2>5 DEF TypeOK, Private, IndexesStay
  <2>9. QED
    BY <2>6, <2>7, <2>8, OthersOK DEF TypeInv
<1>4. QED
  BY <1>2, <1>3

\* The choice of what to publish, whatever the command made of its manifests.
LEMMA DecidedType ==
  ASSUME TypeInv, NEW p \in Runs, NEW op, Decide(p, op), UNCHANGED late
  PROVE  /\ \A changed \in Seq(Manifest), uploads \in Packages :
               Prepare(p, changed, uploads) => TypeInv'
         /\ PrepareRelease(p) => TypeInv'
         /\ \A how \in {"ok", "error"} : Nothing(p, how) => TypeInv'
<1> USE DEF Goto, store
<1>0. TypeOK /\ RunOK(p)
  BY DEF TypeInv, RunsOK
<1>1. /\ pc[p] = "manifests" /\ late[p] = "none" /\ job[p].op # "clean"
      /\ manifests' = [manifests EXCEPT ![p] = <<>>]
      /\ kept' = [kept EXCEPT ![p] = <<>>]
      /\ UNCHANGED <<store, job, at, todo, refs, late>>
      /\ rel[p] \in Releases /\ work[p] \in Packages
  BY <1>0 DEF Decide, TypeOK, RunOK
<1>2. <<>> \in Seq(Manifest) /\ <<>> \in Packages
  BY DEF Packages
<1>3. ASSUME NEW r \in Releases, NEW published \in Seq(Seq(Artifact)),
             NEW uploads \in Packages,
             rel' = [rel EXCEPT ![p] = r], batches' = [batches EXCEPT ![p] = published],
             DOMAIN work' = Runs, work'[p] = uploads,
             \A q \in Runs \ {p} : work'[q] = work[q],
             pc' = [pc EXCEPT ![p] = "packages"], UNCHANGED outcome
      PROVE  TypeInv'
  <2>1. TypeOK'
    BY <1>0, <1>1, <1>2, <1>3 DEF TypeOK, Labels
  <2>2. RunOK(p)'
    BY <1>0, <1>1, <1>3 DEF TypeOK, RunOK
  <2>3. Private(p) /\ IndexesStay
    BY <1>0, <1>1, <1>3 DEF TypeOK, Private, IndexesStay
  <2>4. QED
    BY <2>1, <2>2, <2>3, OthersOK DEF TypeInv
<1>4. ASSUME NEW changed \in Seq(Manifest), NEW uploads \in Packages,
             Prepare(p, changed, uploads)
      PROVE  TypeInv'
  <2> DEFINE updated == UpdateManifests(rel[p], changed)
             missing == MissingManifests(updated)
             r == UpdateManifests(updated, missing)
             published == <<Artifacts(changed \o missing)>>
  <2>1. updated \in Releases
    BY <1>1, UpdateManifestsType
  <2>2. missing \in Seq(Manifest)
    BY <2>1, MissingManifestsType
  <2>3. r \in Releases
    BY <2>1, <2>2, UpdateManifestsType
  <2>4. published \in Seq(Seq(Artifact))
    <3>1. changed \o missing \in Seq(Manifest)
      BY <1>4, <2>2
    <3>2. Artifacts(changed \o missing) \in Seq(Artifact)
      BY <3>1, ArtifactsType
    <3>3. QED
      BY <3>2
  <2>5. /\ rel' = [rel EXCEPT ![p] = r] /\ batches' = [batches EXCEPT ![p] = published]
        /\ work' = [work EXCEPT ![p] = uploads]
        /\ pc' = [pc EXCEPT ![p] = "packages"] /\ UNCHANGED outcome
    BY <1>4 DEF Prepare
  <2> HIDE DEF r, published
  <2>6. DOMAIN work = Runs
    BY <1>0 DEF TypeOK
  <2>7. QED
    BY <1>3, <1>4, <2>3, <2>4, <2>5, <2>6
<1>5. ASSUME PrepareRelease(p) PROVE  TypeInv'
  <2> DEFINE missing == MissingManifests(rel[p])
             r == UpdateManifests(rel[p], missing)
             published == [i \in DOMAIN missing |-> Artifacts(<<missing[i]>>)]
  <2>1. missing \in Seq(Manifest)
    BY <1>1, MissingManifestsType
  <2>2. r \in Releases
    BY <1>1, <2>1, UpdateManifestsType
  <2>3. published \in Seq(Seq(Artifact))
    <3>1. DOMAIN missing = 1..Len(missing) /\ Len(missing) \in Nat
      BY <2>1
    <3>2. ASSUME NEW i \in 1..Len(missing) PROVE published[i] \in Seq(Artifact)
      <4>1. <<missing[i]>> \in Seq(Manifest)
        BY <2>1
      <4>2. QED
        BY <3>1, <4>1, ArtifactsType
    <3>3. published = [i \in 1..Len(missing) |-> published[i]]
      BY <3>1
    <3> HIDE DEF published, missing
    <3>4. QED
      BY <3>1, <3>2, <3>3, SequenceType
  <2>4. /\ rel' = [rel EXCEPT ![p] = r] /\ batches' = [batches EXCEPT ![p] = published]
        /\ pc' = [pc EXCEPT ![p] = "packages"] /\ UNCHANGED <<outcome, work>>
    BY <1>5 DEF PrepareRelease
  <2> HIDE DEF r, published
  <2>5. DOMAIN work = Runs
    BY <1>0 DEF TypeOK
  <2>6. QED
    BY <1>1, <1>3, <2>2, <2>3, <2>4, <2>5
<1>6. ASSUME NEW how \in {"ok", "error"}, Nothing(p, how) PROVE TypeInv'
  <2>0. /\ \E label \in {"unlock", "ended"} : pc' = [pc EXCEPT ![p] = label]
        /\ outcome' = [outcome EXCEPT ![p] = how] /\ UNCHANGED <<rel, batches, work>>
    BY <1>6 DEF Nothing, Finish
  <2>1. TypeOK'
    BY <1>0, <1>1, <1>2, <1>6, <2>0 DEF TypeOK, Labels, Outcomes
  <2>2. RunOK(p)'
    BY <1>0, <1>1, <2>0 DEF TypeOK, RunOK
  <2>3. Private(p) /\ IndexesStay
    BY <1>0, <1>1, <2>0 DEF TypeOK, Private, IndexesStay
  <2>4. QED
    BY <2>1, <2>2, <2>3, OthersOK DEF TypeInv
<1>7. QED
  BY <1>4, <1>5, <1>6

\* What each command decides on are manifests and entries.
LEMMA DecidesTyped ==
  ASSUME TypeInv, NEW p \in Runs,
         DecideUpload(p) \/ DecideCopy(p) \/ DecideDelete(p) \/ DecideVerify(p)
  PROVE  \E op : /\ Decide(p, op)
                 /\ \/ \E changed \in Seq(Manifest), uploads \in Packages :
                         Prepare(p, changed, uploads)
                    \/ PrepareRelease(p)
                    \/ \E how \in {"ok", "error"} : Nothing(p, how)
<1>0. TypeOK /\ RunOK(p)
  BY DEF TypeInv, RunsOK
<1>1. job[p] \in Jobs /\ manifests[p] \in Seq(Manifest) /\ kept[p] \in Packages
  BY <1>0, JobType DEF TypeOK
<1>2. CASE DecideUpload(p)
  <2> DEFINE j == job[p]
             ms == manifests[p]
             added == [i \in DOMAIN ms |-> Added(j, ms[i])]
             changed == [i \in DOMAIN ms |->
                           [ms[i] EXCEPT !.packages = added[i].packages]]
  <2>1. Decide(p, "upload")
    BY <1>2 DEF DecideUpload
  <2>2. DOMAIN ms = 1..Len(ms) /\ Len(ms) \in Nat
            /\ \A i \in 1..Len(ms) : ms[i] \in Manifest
    BY <1>1
  <2>3. ASSUME NEW i \in 1..Len(ms) PROVE changed[i] \in Manifest
    <3>1. ms[i] \in Manifest /\ added[i] = Added(j, ms[i])
      BY <2>2
    <3>2. added[i].packages \in Packages
      BY <1>1, <3>1, AddedType
    <3>3. changed[i] = [ms[i] EXCEPT !.packages = added[i].packages]
      BY <2>2
    <3> HIDE DEF changed, added
    <3>4. QED
      BY <3>1, <3>2, <3>3 DEF Manifest
  <2>4. changed \in Seq(Manifest)
    <3>1. changed = [i \in 1..Len(ms) |-> changed[i]]
      BY <2>2
    <3> HIDE DEF changed
    <3>2. QED
      BY <2>2, <2>3, <3>1, SequenceType
  <2>5. Uploads(j, ms) \in Packages
    BY <1>1, UploadsType
  <2>6. Nothing(p, "error") \/ Prepare(p, changed, Uploads(j, ms))
    BY <1>2 DEF DecideUpload
  <2> HIDE DEF changed, ms, j
  <2>7. QED
    BY <2>1, <2>4, <2>5, <2>6
<1>3. CASE DecideCopy(p)
  <2> DEFINE j == job[p]
             m == manifests[p][1]
             added == AddAll(m.packages, kept[p], j.preserve, j.failIfExists)
             changed == <<[m EXCEPT !.packages = added.packages]>>
  <2>1. Decide(p, "copy")
    BY <1>3 DEF DecideCopy
  <2>2. m \in Manifest
    <3>1. Len(todo[p]) + Len(manifests[p]) = 1 /\ todo[p] = <<>>
      BY <1>0, <2>1 DEF Decide, RunOK
    <3>2. Len(todo[p]) = 0
      BY <3>1
    <3>3. QED
      BY <1>1, <3>1, <3>2
  <2>3. added.packages \in Packages
    <3>1. m.packages \in Packages
      BY <2>2 DEF Manifest
    <3>2. added \in Additions(AllEntries)
      BY <1>1, <3>1, AddAllFacts DEF Packages
    <3>3. QED
      BY <3>2 DEF Additions, Packages
  <2>4. Nothing(p, "error") \/ Prepare(p, changed, <<>>)
    BY <1>3 DEF DecideCopy
  <2> HIDE DEF m, added
  <2>5. changed \in Seq(Manifest) /\ <<>> \in Packages
    BY <2>2, <2>3 DEF Manifest, Packages
  <2> HIDE DEF changed
  <2>6. QED
    BY <2>1, <2>4, <2>5
<1>4. CASE DecideDelete(p)
  <2>1. Decide(p, "delete") /\ (Nothing(p, "error") \/ Prepare(p, manifests[p], <<>>))
    BY <1>4 DEF DecideDelete
  <2>2. <<>> \in Packages
    BY DEF Packages
  <2>3. QED
    BY <1>1, <2>1, <2>2
<1>5. CASE DecideVerify(p)
  <2>1. /\ Decide(p, "verify")
        /\ Nothing(p, "ok") \/ Prepare(p, manifests[p], <<>>) \/ PrepareRelease(p)
    BY <1>5 DEF DecideVerify
  <2>2. <<>> \in Packages
    BY DEF Packages
  <2>3. QED
    BY <1>1, <2>1, <2>2
<1>6. QED
  BY <1>2, <1>3, <1>4, <1>5

\* The decisions of the commands.
LEMMA DecideType ==
  ASSUME TypeInv, NEW p \in Runs, UNCHANGED late,
         DecideUpload(p) \/ DecideCopy(p) \/ DecideDelete(p) \/ DecideVerify(p)
  PROVE  TypeInv'
  BY DecidesTyped, DecidedType

\* There are finitely many names of indexes.
LEMMA IndexNamesFinite == IsFiniteSet(IndexNames)
<1>1. IsFiniteSet(ToSet(Forms))
  <2>1. ToSet(Forms) = {"Packages", "Packages.gz"}
    BY DEF ToSet, Forms
  <2>2. QED
    <3>1. IsFiniteSet({"Packages"})
      BY FS_Singleton
    <3>2. IsFiniteSet({"Packages"} \cup {"Packages.gz"})
      BY <3>1, FS_AddElement
    <3>3. QED
      BY <2>1, <3>2
<1>2. QED
  <2>1. /\ IsFiniteSet(Components \X Archs) /\ IsFiniteSet(Archs \X ToSet(Forms))
    BY <1>1, RepositoryAssumption, FS_Product
  <2> DEFINE flat == [x \in (Components \X Archs) \X ToSet(Forms) |->
                         <<x[1][1], x[1][2], x[2]>>]
  <2>2. IsFiniteSet((Components \X Archs) \X ToSet(Forms))
    BY <1>1, <2>1, FS_Product
  <2>3. flat \in Surjection((Components \X Archs) \X ToSet(Forms), IndexNames)
    <3>1. flat \in [(Components \X Archs) \X ToSet(Forms) -> IndexNames]
      BY DEF IndexNames
    <3>2. \A n \in IndexNames :
            \E x \in (Components \X Archs) \X ToSet(Forms) : flat[x] = n
      <4> TAKE n \in IndexNames
      <4>1. <<<<n[1], n[2]>>, n[3]>> \in (Components \X Archs) \X ToSet(Forms)
            /\ n = <<n[1], n[2], n[3]>>
        BY DEF IndexNames
      <4>2. flat[<<<<n[1], n[2]>>, n[3]>>] = n
        BY <4>1
      <4>3. QED
        BY <4>1, <4>2
    <3>3. QED
      BY <3>1, <3>2, Fun_IsSurj
  <2> HIDE DEF flat
  <2>4. QED
    BY <2>2, <2>3, FS_Surjection

\* Listings and the sweep of clean.
LEMMA CleanType ==
  ASSUME TypeInv, NEW p \in Runs, UNCHANGED late,
         ListIndexes(p) \/ ScanIndex(p) \/ ListPool(p) \/ DeletePoolObject(p)
  PROVE  TypeInv'
<1> USE DEF Goto, store, memory, reading
<1>0. TypeOK /\ RunOK(p)
  BY DEF TypeInv, RunsOK
<1>1. job[p].op = "clean" /\ late[p] = "none"
  BY <1>0 DEF ListIndexes, ScanIndex, ListPool, DeletePoolObject, RunOK
<1>2. CASE ListIndexes(p)
  <2> DEFINE S == {k \in Codenames \X IndexNames :
                     k[2][3] = "Packages" /\ index[k[1]][k[2]] # NoObject}
             found == SetToSeq(S)
  <2>1. IsFiniteSet(S)
    <3>1. IsFiniteSet(Codenames \X IndexNames)
      BY IndexNamesFinite, RepositoryAssumption, FS_Product
    <3>2. S \subseteq Codenames \X IndexNames
      OBVIOUS
    <3> HIDE DEF S
    <3>3. QED
      BY <3>1, <3>2, FS_Subset
  <2>2. /\ pc[p] = "list" /\ todo' = [todo EXCEPT ![p] = found]
        /\ pc' = [pc EXCEPT ![p] = "scan"]
        /\ UNCHANGED <<store, outcome, memory, manifests, kept, refs>>
    BY <1>2 DEF ListIndexes, InListOrder
  <2> HIDE DEF found
  <2>3. found \in Seq(S) /\ ToSet(found) = S
    BY <2>1, SetToSeqFacts DEF found
  <2>4. found \in Seq(Codenames \X IndexNames)
    BY <2>3
  <2>5. \A k \in ToSet(found) : index[k[1]][k[2]] \in Packages
    BY <1>0, <2>3 DEF TypeOK
  <2> HIDE DEF S
  <2>6. TypeOK'
    BY <1>0, <1>1, <2>2 DEF TypeOK, Labels
  <2>7. RunOK(p)'
    <3>1. /\ pc'[p] = "scan" /\ todo'[p] = found /\ job' = job /\ late' = late
                 /\ index' = index
      BY <1>0, <2>2 DEF TypeOK
    <3>2. QED
      BY <1>1, <2>4, <2>5, <3>1 DEF RunOK
  <2>8. Private(p) /\ IndexesStay
    BY <1>0, <2>2 DEF TypeOK, Private, IndexesStay
  <2>9. QED
    BY <2>6, <2>7, <2>8, OthersOK DEF TypeInv
<1>3. CASE ScanIndex(p)
  <2> DEFINE k == Head(todo[p])
             found == {e.filename : e \in ToSet(index[k[1]][k[2]])}
  <2>1. /\ todo[p] \in Seq(Codenames \X IndexNames) /\ todo[p] # <<>>
        /\ \A x \in ToSet(todo[p]) : index[x[1]][x[2]] \in Packages
    BY <1>0, <1>1, <1>3 DEF RunOK, ScanIndex
  <2>2. /\ k \in ToSet(todo[p]) /\ Tail(todo[p]) \in Seq(Codenames \X IndexNames)
        /\ ToSet(Tail(todo[p])) \subseteq ToSet(todo[p])
    BY <2>1 DEF ToSet
  <2>3. found \subseteq PoolKeys
    <3>1. index[k[1]][k[2]] \in Seq(AllEntries)
      BY <2>1, <2>2 DEF Packages
    <3>2. ToSet(index[k[1]][k[2]]) \subseteq AllEntries
      BY <3>1 DEF ToSet
    <3>3. QED
      BY <3>2, EntryFacts
  <2>4. /\ pc[p] = "scan" /\ refs' = [refs EXCEPT ![p] = @ \cup found]
        /\ todo' = [todo EXCEPT ![p] = Tail(@)]
        /\ UNCHANGED <<store, pc, outcome, memory, manifests, kept>>
    BY <1>3 DEF ScanIndex
  <2> HIDE DEF k, found
  <2>5. TypeOK'
    BY <1>0, <1>1, <2>3, <2>4 DEF TypeOK
  <2>6. RunOK(p)'
    <3>1. /\ pc'[p] = "scan" /\ todo'[p] = Tail(todo[p]) /\ job' = job
                 /\ late' = late /\ index' = index
      BY <1>0, <2>4 DEF TypeOK
    <3>2. QED
      BY <1>1, <2>1, <2>2, <3>1 DEF RunOK
  <2>7. Private(p) /\ IndexesStay
    BY <1>0, <2>4 DEF TypeOK, Private, IndexesStay
  <2>8. QED
    BY <2>5, <2>6, <2>7, OthersOK DEF TypeInv
<1>4. CASE ListPool(p)
  <2> DEFINE S == {k \in PoolKeys : /\ k[1] = Codename(p)
                                   /\ pool[k] # NoObject
                                   /\ k \notin refs[p]}
             found == SetToSeq(S)
  <2>1. IsFiniteSet(S)
    <3>1. IsFiniteSet(PoolKeys)
      BY RepositoryAssumption, FS_Product DEF PoolKeys
    <3>2. S \subseteq PoolKeys
      OBVIOUS
    <3> HIDE DEF S
    <3>3. QED
      BY <3>1, <3>2, FS_Subset
  <2>2. /\ pc[p] = "scan" /\ work' = [work EXCEPT ![p] = found]
        /\ pc' = [pc EXCEPT ![p] = "sweep"]
        /\ UNCHANGED <<store, outcome, job, rel, batches, at, reading>>
    BY <1>4 DEF ListPool, InListOrder
  <2> HIDE DEF found
  <2>3. found \in Seq(S)
    BY <2>1, SetToSeqFacts DEF found
  <2>4. found \in Seq(PoolKeys)
    BY <2>3
  <2> HIDE DEF S
  <2>5. TypeOK'
    BY <1>0, <1>1, <2>2, <2>4 DEF TypeOK, Labels
  <2>6. RunOK(p)'
    BY <1>0, <1>1, <2>2 DEF TypeOK, RunOK
  <2>7. Private(p) /\ IndexesStay
    BY <1>0, <2>2 DEF TypeOK, Private, IndexesStay
  <2>8. QED
    BY <2>5, <2>6, <2>7, OthersOK DEF TypeInv
<1>5. CASE DeletePoolObject(p)
  <2>1. /\ pc[p] = "sweep" /\ work[p] # <<>> /\ work[p] \in Seq(PoolKeys)
        /\ Tail(work[p]) \in Seq(PoolKeys)
    BY <1>0, <1>5 DEF TypeOK, DeletePoolObject
  <2>2. /\ pool' = [pool EXCEPT ![Head(work[p])] = NoObject]
        /\ work' = [work EXCEPT ![p] = Tail(@)]
        /\ UNCHANGED <<byHash, index, release, releaseGpg, inRelease, lockfile,
                       pc, outcome, job, rel, batches, at, reading>>
    BY <1>5 DEF DeletePoolObject
  <2>3. TypeOK'
    BY <1>0, <2>1, <2>2 DEF TypeOK
  <2>4. RunOK(p)'
    BY <1>0, <1>1, <2>1, <2>2 DEF TypeOK, RunOK
  <2>5. Private(p) /\ IndexesStay
    BY <1>0, <2>2 DEF TypeOK, Private, IndexesStay
  <2>6. QED
    BY <2>3, <2>4, <2>5, OthersOK DEF TypeInv
<1>6. QED
  BY <1>2, <1>3, <1>4, <1>5

\* A store call fails, or the process dies, and a call may be left behind.
LEMMA FailureType ==
  ASSUME TypeInv, NEW p \in Runs, StoreFails(p) \/ Crash(p)
  PROVE  TypeInv'
<1> USE DEF Goto, store, memory, reading
<1>0. TypeOK /\ RunOK(p)
  BY DEF TypeInv, RunsOK
<1>1. /\ \E label \in {"unlock", "ended"} : pc' = [pc EXCEPT ![p] = label]
      /\ \E how \in {"error", "crashed"} : outcome' = [outcome EXCEPT ![p] = how]
      /\ LeavesCall(p)
      /\ UNCHANGED <<store, memory, reading>>
      /\ pc[p] \notin {"start", "ended"}
  BY DEF StoreFails, Crash, Finish
<1>2. late' \in {late, [late EXCEPT ![p] = pc[p]]}
  BY <1>1 DEF LeavesCall
<1>3. late' # late => pc[p] \in WritingLabels
  BY <1>1 DEF LeavesCall
<1>4. TypeOK'
  <2>1. pc' \in [Runs -> Labels] /\ outcome' \in [Runs -> Outcomes]
    BY <1>0, <1>1 DEF TypeOK, Labels, Outcomes
  <2>2. late' \in [Runs -> {"none"} \cup WritingLabels]
    BY <1>0, <1>2, <1>3 DEF TypeOK
  <2>3. \A q \in Runs : IF pc'[q] = "sweep" THEN work'[q] \in Seq(PoolKeys)
                        ELSE job'[q].op = "clean" \/ work'[q] \in Packages
    <3>1. pc[p] = "sweep" => job[p].op = "clean"
      BY <1>0 DEF RunOK
    <3>2. QED
      BY <1>0, <1>1, <3>1 DEF TypeOK
  <2>4. QED
    BY <1>0, <1>1, <2>1, <2>2, <2>3 DEF TypeOK
<1>5. RunOK(p)'
  <2>1. /\ pc'[p] \in {"unlock", "ended"}
        /\ late'[p] = late[p] \/ (late'[p] = pc[p] /\ pc[p] \in WritingLabels)
        /\ UNCHANGED <<job, manifests, todo, batches, index>>
    BY <1>0, <1>1, <1>2, <1>3 DEF TypeOK
  <2>2. QED
    BY <1>0, <2>1 DEF RunOK, WritingLabels
<1>6. Private(p) /\ IndexesStay
  BY <1>0, <1>1, <1>2 DEF TypeOK, Private, IndexesStay
<1>7. QED
  BY <1>4, <1>5, <1>6, OthersOK DEF TypeInv

\* A call that was left behind is applied.
LEMMA LateCallType ==
  ASSUME TypeInv, NEW p \in Runs, LateCall(p)
  PROVE  TypeInv'
<1> USE DEF memory, reading
<1>0. TypeOK /\ RunOK(p)
  BY DEF TypeInv, RunsOK
<1> DEFINE c == Codename(p)
           a == Batch(p)[at[p]]
           e == Head(work[p])
<1>1. /\ late[p] \in WritingLabels /\ pc[p] \in {"unlock", "ended"}
      /\ job[p].op # "clean" /\ c \in Codenames /\ work[p] \in Packages
  BY <1>0, CodenameType DEF LateCall, RunOK, TypeOK, WritingLabels
<1>2. pool' \in [PoolKeys -> {NoObject} \cup {f.sum : f \in AllEntries}]
  <2>1. CASE work[p] # <<>>
    <3>1. e \in AllEntries
      BY <1>1, <2>1 DEF Packages
    <3>2. e.filename \in PoolKeys /\ e.sum \in {f.sum : f \in AllEntries}
      BY <3>1, EntryFacts
    <3> HIDE DEF e
    <3>3. pool' = pool \/ pool' = [pool EXCEPT ![e.filename] = e.sum]
      BY DEF LateCall, e
    <3>4. QED
      BY <1>0, <3>2, <3>3 DEF TypeOK
  <2>2. CASE work[p] = <<>>
    BY <1>0, <2>2 DEF TypeOK, LateCall
  <2>3. QED
    BY <2>1, <2>2
<1>3. late[p] \in {"byHash", "canonical"} /\ ArtifactsLeft(p)
        => a.name \in IndexNames /\ a.body \in Packages
  BY <1>0, ArtifactType DEF RunOK
<1>4. /\ DOMAIN byHash' = Codenames
      /\ \A d \in Codenames :
           /\ DOMAIN byHash'[d] = IndexNames
           /\ \A m \in IndexNames : \A body \in byHash'[d][m] : body \in Packages
  <2>1. CASE late[p] = "byHash" /\ ArtifactsLeft(p)
    <3>1. a.name \in IndexNames /\ a.body \in Packages
      BY <1>3, <2>1
    <3>2. byHash' = byHash \/ byHash' = [byHash EXCEPT ![c][a.name] = @ \cup {a.body}]
      BY DEF LateCall
    <3>3. \E d \in Codenames, n \in IndexNames, body \in Packages :
            byHash' = byHash \/ byHash' = [byHash EXCEPT ![d][n] = @ \cup {body}]
      BY <1>1, <3>1, <3>2
    <3>4. /\ DOMAIN byHash = Codenames
          /\ \A d \in Codenames :
               /\ DOMAIN byHash[d] = IndexNames
               /\ \A m \in IndexNames : \A body \in byHash[d][m] : body \in Packages
      BY <1>0 DEF TypeOK
    <3>5. CASE byHash' = byHash
      BY <3>4, <3>5
    <3>6. CASE \E d \in Codenames, n \in IndexNames, body \in Packages :
                 byHash' = [byHash EXCEPT ![d][n] = @ \cup {body}]
      <4>1. PICK d \in Codenames, n \in IndexNames, body \in Packages :
              byHash' = [byHash EXCEPT ![d][n] = @ \cup {body}]
        BY <3>6
      <4>2. QED
        BY <3>4, <4>1
    <3>7. QED
      BY <3>3, <3>5, <3>6
  <2>2. CASE ~(late[p] = "byHash" /\ ArtifactsLeft(p))
    <3>1. byHash' = byHash
      BY <2>2 DEF LateCall
    <3>2. QED
      BY <1>0, <3>1 DEF TypeOK
  <2>3. QED
    BY <2>1, <2>2
<1>5. \/ index' = index
      \/ \E d \in Codenames, n \in IndexNames, body \in Packages :
           index' = [index EXCEPT ![d][n] = body]
  <2>1. CASE late[p] = "canonical" /\ ArtifactsLeft(p)
    <3>1. a.name \in IndexNames /\ a.body \in Packages
      BY <1>3, <2>1
    <3>2. index' = [index EXCEPT ![c][a.name] = a.body]
      BY <2>1 DEF LateCall
    <3>3. QED
      BY <1>1, <3>1, <3>2
  <2>2. CASE ~(late[p] = "canonical" /\ ArtifactsLeft(p))
    BY <2>2 DEF LateCall
  <2>3. QED
    BY <2>1, <2>2
<1>6. /\ release' \in {release, [release EXCEPT ![c] = Rendered(p)]}
      /\ releaseGpg' \in {releaseGpg, [releaseGpg EXCEPT ![c] = NoObject],
                          [releaseGpg EXCEPT ![c] = Rendered(p)]}
      /\ inRelease' \in {inRelease, [inRelease EXCEPT ![c] = NoObject],
                         [inRelease EXCEPT ![c] = Rendered(p)]}
  <2>1. release' \in {release, [release EXCEPT ![c] = Rendered(p)]}
    BY DEF LateCall
  <2>2. releaseGpg' \in {releaseGpg, [releaseGpg EXCEPT ![c] = NoObject],
                         [releaseGpg EXCEPT ![c] = Rendered(p)]}
    BY DEF LateCall
  <2>3. inRelease' \in {inRelease, [inRelease EXCEPT ![c] = NoObject],
                        [inRelease EXCEPT ![c] = Rendered(p)]}
    BY DEF LateCall
  <2>4. QED
    BY <2>1, <2>2, <2>3
<1>7. /\ late' = [late EXCEPT ![p] = "none"]
      /\ UNCHANGED <<lockfile, pc, outcome, memory, reading>>
  BY DEF LateCall
<1>8. Rendered(p) \in Releases
  BY <1>0, RenderedType
<1>9. TypeOK'
  <2>1. index' \in [Codenames -> [IndexNames -> {NoObject} \cup Packages]]
    <3>1. index \in [Codenames -> [IndexNames -> {NoObject} \cup Packages]]
      BY <1>0 DEF TypeOK
    <3>2. QED
      BY <1>5, <3>1
  <2>2. /\ release' \in [Codenames -> {NoObject} \cup Releases]
        /\ releaseGpg' \in [Codenames -> {NoObject} \cup Releases]
        /\ inRelease' \in [Codenames -> {NoObject} \cup Releases]
    <3>1. /\ release \in [Codenames -> {NoObject} \cup Releases]
          /\ releaseGpg \in [Codenames -> {NoObject} \cup Releases]
          /\ inRelease \in [Codenames -> {NoObject} \cup Releases]
      BY <1>0 DEF TypeOK
    <3>2. QED
      BY <1>6, <1>8, <3>1
  <2>3. late' \in [Runs -> {"none"} \cup WritingLabels]
    BY <1>0, <1>7 DEF TypeOK
  <2>4. QED
    BY <1>0, <1>2, <1>4, <1>7, <2>1, <2>2, <2>3 DEF TypeOK
<1>10. RunOK(p)'
  <2>1. /\ late'[p] = "none" /\ UNCHANGED <<pc, job, manifests, todo, batches>>
    BY <1>0, <1>7 DEF TypeOK
  <2>2. QED
    BY <1>0, <1>1, <2>1 DEF RunOK
<1>11. IndexesStay
  <2>1. index \in [Codenames -> [IndexNames -> {NoObject} \cup Packages]]
    BY <1>0 DEF TypeOK
  <2>2. QED
    BY <1>5, <2>1 DEF IndexesStay
<1>12. Private(p)
  BY <1>0, <1>7 DEF TypeOK, Private
<1>13. QED
  BY <1>9, <1>10, <1>11, <1>12, OthersOK DEF TypeInv

\* The operator removes a lockfile.
LEMMA BreakLockType ==
  ASSUME TypeInv, NEW c \in Codenames, BreakLock(c)
  PROVE  TypeInv'
<1> USE DEF memory, reading, BreakLock
<1>1. TypeOK'
  BY DEF TypeInv, TypeOK
<1>2. RunsOK'
  BY DEF TypeInv, RunsOK, RunOK
<1>3. QED
  BY <1>1, <1>2 DEF TypeInv

\* Nothing happens.
LEMMA StutterType ==
  ASSUME TypeInv, UNCHANGED vars
  PROVE  TypeInv'
<1> USE DEF vars, store, memory, reading
<1>1. TypeOK'
  BY DEF TypeInv, TypeOK
<1>2. RunsOK'
  BY DEF TypeInv, RunsOK, RunOK
<1>3. QED
  BY <1>1, <1>2 DEF TypeInv

---------------------------------------------------------------------------

\* The initial states are typed.
LEMMA InitType == Init => TypeInv
<1> SUFFICES ASSUME Init PROVE TypeInv
  OBVIOUS
<1>1. NewRelease(FALSE) \in Releases
  BY NewReleaseType
<1>2. /\ <<>> \in Packages /\ <<>> \in Seq(Manifest) /\ <<>> \in Seq(Seq(Artifact))
      /\ <<>> \in Seq(Archs) /\ <<>> \in Seq(Codenames \X IndexNames)
  BY DEF Packages
<1>3. TypeOK
  <2>1. /\ pool \in [PoolKeys -> {NoObject} \cup {e.sum : e \in AllEntries}]
        /\ DOMAIN byHash = Codenames
        /\ \A c \in Codenames :
             /\ DOMAIN byHash[c] = IndexNames
             /\ \A n \in IndexNames : \A body \in byHash[c][n] : body \in Packages
    BY DEF Init
  <2>2. /\ index \in [Codenames -> [IndexNames -> {NoObject} \cup Packages]]
        /\ release \in [Codenames -> {NoObject} \cup Releases]
        /\ releaseGpg \in [Codenames -> {NoObject} \cup Releases]
        /\ inRelease \in [Codenames -> {NoObject} \cup Releases]
        /\ lockfile \in [Codenames -> {NoObject} \cup Runs]
    BY DEF Init
  <2>3. pc \in [Runs -> Labels] /\ outcome \in [Runs -> Outcomes]
    BY DEF Init, Labels, Outcomes
  <2>4. \A p \in Runs : job[p] \in JobsOf[p]
    BY DEF Init
  <2>5. rel \in [Runs -> Releases] /\ batches \in [Runs -> Seq(Seq(Artifact))]
    BY <1>1, <1>2 DEF Init
  <2>6. at \in [Runs -> Nat \ {0}]
    BY DEF Init
  <2>7. /\ DOMAIN todo = Runs /\ DOMAIN work = Runs
        /\ \A p \in Runs : IF pc[p] = "sweep" THEN work[p] \in Seq(PoolKeys)
                           ELSE job[p].op = "clean" \/ work[p] \in Packages
        /\ manifests \in [Runs -> Seq(Manifest)]
        /\ kept \in [Runs -> Packages]
        /\ refs \in [Runs -> SUBSET PoolKeys]
        /\ late \in [Runs -> {"none"} \cup WritingLabels]
    BY <1>2 DEF Init
  <2>8. QED
    BY <2>1, <2>2, <2>3, <2>4, <2>5, <2>6, <2>7 DEF TypeOK
<1>4. RunsOK
  <2> SUFFICES ASSUME NEW p \in Runs PROVE RunOK(p)
    BY DEF RunsOK
  <2>1. /\ pc[p] = "start" /\ late[p] = "none" /\ todo[p] = <<>> /\ manifests[p] = <<>>
    BY DEF Init
  <2>2. ToSet(<<>>) = {}
    BY DEF ToSet
  <2>3. QED
    BY <1>2, <2>1, <2>2 DEF RunOK
<1>5. QED
  BY <1>3, <1>4 DEF TypeInv

\* So is what every step leads to.
LEMMA NextType == TypeInv /\ [Next]_vars => TypeInv'
<1> SUFFICES ASSUME TypeInv, [Next]_vars PROVE TypeInv'
  OBVIOUS
<1>1. ASSUME NEW p \in Runs, Proceed(p) PROVE TypeInv'
  <2>1. UNCHANGED late
    BY <1>1 DEF Proceed
  <2>2. CASE Start(p) \/ TakeLock(p) \/ Unlock(p) \/ Answer(p) \/ SweepDone(p)
    BY <2>1, <2>2, LockType
  <2>3. CASE RetrieveSource(p) \/ HeadPackage(p) \/ HeadsDone(p)
    BY <2>1, <2>3, ReadingType
  <2>4. CASE RetrieveRelease(p)
    BY <2>1, <2>4, RetrieveReleaseType
  <2>5. CASE RetrieveManifest(p)
    BY <2>1, <2>5, RetrieveManifestType
  <2>6. CASE ListManifest(p) \/ LookUp(p)
    BY <2>1, <2>6, QueryType
  <2>7. CASE DecideUpload(p) \/ DecideCopy(p) \/ DecideDelete(p) \/ DecideVerify(p)
    BY <2>1, <2>7, DecideType
  <2>8. CASE Publish(p) /\ UNCHANGED reading
    BY <2>1, <2>8, PublicationType DEF Publish
  <2>9. CASE ListIndexes(p) \/ ScanIndex(p) \/ ListPool(p) \/ DeletePoolObject(p)
    BY <2>1, <2>9, CleanType
  <2>10. QED
    BY <1>1, <2>2, <2>3, <2>4, <2>5, <2>6, <2>7, <2>8, <2>9 DEF Proceed
<1>2. ASSUME NEW p \in Runs, Disturb(p) PROVE TypeInv'
  <2>1. CASE (GiveUp(p) \/ UnlockFails(p) \/ SigningFails(p)) /\ UNCHANGED late
    BY <2>1, LockType
  <2>2. CASE StoreFails(p) \/ Crash(p)
    BY <2>2, FailureType
  <2>3. QED
    BY <1>2, <2>1, <2>2 DEF Disturb
<1>3. QED
  BY <1>1, <1>2, LateCallType, BreakLockType, StutterType DEF Next, Terminated

\* Type correctness of a repository under any commands, locked or not, and any
\* of the failures: in particular what a late call, a crash or clean leaves
\* behind is still what the next run can read.
THEOREM TypesHold == Spec => []TypeOK
<1>1. TypeInv => TypeOK
  BY DEF TypeInv
<1>2. QED
  BY InitType, NextType, <1>1, PTL DEF Spec
=============================================================================
