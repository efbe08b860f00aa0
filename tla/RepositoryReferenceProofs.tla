--------------------- MODULE RepositoryReferenceProofs ----------------------
(***************************************************************************)
(* What the objects of the store refer to is there, for any commands,      *)
(* locked or not, whatever fails, dies or is applied late. First the       *)
(* indexes that clients find by their hash: CanonicalByHash and            *)
(* ServedByHash. Then the bodies of packages, for commands that neither    *)
(* sweep the pool nor overwrite bodies: ListedPackagesExist and            *)
(* IndexedPackagesExist. The inductive invariants follow the entries from  *)
(* what a run reads over what it decides to what it publishes, or may      *)
(* still publish.                                                          *)
(***************************************************************************)
EXTENDS RepositoryTypes

\* Before RetrieveRelease, what the run has as Release is not what it will
\* publish.
Unsettled == {"start", "lock", "source", "release"}

\* A run that has its Release writes the component without by-hash objects.
Plain(component) ==
  \E q \in Runs : /\ pc[q] \notin Unsettled
                  /\ ~rel[q].byHash
                  /\ job[q].byHash # "on"
                  /\ component \in {job[q].component} \cup ToSet(rel[q].components)

\* The artifacts that the run has still to publish.
Pending(p) == UNION {ToSet(batches[p][k]) : k \in DOMAIN batches[p]}

\* The artifact of the current batch is stored under its hash.
Stored(p, i) ==
  LET a == Batch(p)[i]
  IN  a.body \in byHash[Codename(p)][a.name]

\* The steps of Release.Publish.
ReleaseLabels == {"sign", "deleteGpg", "deleteInRelease",
                  "putRelease", "putGpg", "putInRelease"}

\* What the store holds and serves is under its hash.
StoreHashed ==
  \A c \in Codenames, n \in IndexNames :
    /\ index[c][n] \in byHash[c][n] \cup {NoObject} \/ Plain(n[1])
    /\ \A r \in Served(c) : r.files[n] \in byHash[c][n] \cup {NoObject} \/ Plain(n[1])

\* So is what the Release in memory lists, unless it is still to be published.
ListedHashed(p) ==
  \A n \in IndexNames :
    \/ rel[p].files[n] \in byHash[Codename(p)][n] \cup {NoObject}
    \/ Plain(n[1])
    \/ [name |-> n, body |-> rel[p].files[n]] \in Pending(p)

\* The progress of a run through its batches.
BatchHashed(p) ==
  rel[p].byHash =>
    /\ pc[p] = "byHash" => \A i \in DOMAIN Batch(p) : i < at[p] => Stored(p, i)
    /\ pc[p] = "canonical" \/ late[p] = "canonical"
         => \A i \in DOMAIN Batch(p) : Stored(p, i)

\* What a run knows of its publication: before its Release is read and after its
\* last batch nothing is pending.
RunHashed(p) ==
  /\ pc[p] \in Unsettled \cup {"manifests", "heads"} => batches[p] = <<>>
  /\ pc[p] \in ReleaseLabels \/ late[p] \in ReleaseLabels => batches[p] = <<>>
  /\ pc[p] \in {"manifests", "heads"} \/ batches[p] # <<>>
       => rel[p].byHash \/ job[p].byHash # "on"
  /\ at[p] # 1 => pc[p] \in {"byHash", "canonical", "unlock", "ended"}
  /\ \A a \in Pending(p) : a.name[1] \in ToSet(rel[p].components)
  /\ BatchHashed(p)
  /\ ListedHashed(p)

\* The inductive invariant.
HashInv == StoreHashed /\ \A p \in Runs : RunHashed(p)

---------------------------------------------------------------------------
(* Artifacts and the Release that lists them *)

\* Each manifest is published in both forms, and nothing else is.
LEMMA ArtifactsFacts ==
  ASSUME NEW ms \in Seq(Manifest)
  PROVE  /\ \A m \in ToSet(ms), f \in ToSet(Forms) :
              [name |-> <<m.component, m.arch, f>>, body |-> m.packages]
                \in ToSet(Artifacts(ms))
         /\ \A a \in ToSet(Artifacts(ms)) :
              \E m \in ToSet(ms) : /\ a.name[1] = m.component /\ a.body = m.packages
                                   /\ Lists(m, a.name)
<1>1. Len(ms) \in Nat /\ DOMAIN ms = 1..Len(ms)
  OBVIOUS
<1>2. DOMAIN Artifacts(ms) = 1..(2 * Len(ms))
  BY DEF Artifacts
<1>0. \A k \in 1..(2 * Len(ms)) :
        Artifacts(ms)[k] =
          [name |-> <<ms[(k + 1) \div 2].component, ms[(k + 1) \div 2].arch,
                      Forms[2 - (k % 2)]>>,
           body |-> ms[(k + 1) \div 2].packages]
  BY DEF Artifacts
<1>3. ASSUME NEW m \in ToSet(ms), NEW f \in ToSet(Forms)
      PROVE  [name |-> <<m.component, m.arch, f>>, body |-> m.packages]
               \in ToSet(Artifacts(ms))
  <2>1. PICK i \in 1..Len(ms) : ms[i] = m
    BY <1>1 DEF ToSet
  <2>2. /\ 2 * i - 1 \in 1..(2 * Len(ms)) /\ 2 * i \in 1..(2 * Len(ms))
        /\ ((2 * i - 1) + 1) \div 2 = i /\ (2 * i + 1) \div 2 = i
        /\ (2 * i - 1) % 2 = 1 /\ (2 * i) % 2 = 0
    BY <1>1
  <2>3. Artifacts(ms)[2 * i - 1] =
          [name |-> <<m.component, m.arch, Forms[1]>>, body |-> m.packages]
    BY ONLY <1>0, <2>1, <2>2
  <2>4. Artifacts(ms)[2 * i] =
          [name |-> <<m.component, m.arch, Forms[2]>>, body |-> m.packages]
    BY ONLY <1>0, <2>1, <2>2
  <2>5. f = Forms[1] \/ f = Forms[2]
    BY DEF Forms, ToSet
  <2>6. QED
    BY <1>2, <2>2, <2>3, <2>4, <2>5 DEF ToSet
<1>4. ASSUME NEW a \in ToSet(Artifacts(ms))
      PROVE  \E m \in ToSet(ms) : /\ a.name[1] = m.component /\ a.body = m.packages
                                  /\ Lists(m, a.name)
  <2>1. PICK i \in 1..(2 * Len(ms)) : a = Artifacts(ms)[i]
    BY <1>2 DEF ToSet
  <2>2. (i + 1) \div 2 \in 1..Len(ms)
    BY <1>1
  <2>3. /\ a.name[1] = ms[(i + 1) \div 2].component
        /\ a.body = ms[(i + 1) \div 2].packages
        /\ Lists(ms[(i + 1) \div 2], a.name)
    BY <2>1 DEF Artifacts, Lists
  <2>4. QED
    BY <1>1, <2>2, <2>3 DEF ToSet
<1>5. QED
  BY <1>3, <1>4

\* UpdateManifest changes nothing but what its manifests are about.
LEMMA UpdateManifestsFacts ==
  ASSUME NEW r \in Releases, NEW ms \in Seq(Manifest)
  PROVE  LET u == UpdateManifests(r, ms)
         IN  /\ u.byHash = r.byHash
             /\ ToSet(u.components) = ToSet(r.components)
                                        \cup {m.component : m \in ToSet(ms)}
             /\ ToSet(u.archs) = ToSet(r.archs) \cup {m.arch : m \in ToSet(ms)}
             /\ \A n \in IndexNames :
                  \/ /\ u.files[n] = r.files[n]
                     /\ \A m \in ToSet(ms) : ~Lists(m, n)
                  \/ \E m \in ToSet(ms) : Lists(m, n) /\ u.files[n] = m.packages
<1> DEFINE cs == [i \in DOMAIN ms |-> ms[i].component]
           as == [i \in DOMAIN ms |-> ms[i].arch]
           Listed(n) == {i \in DOMAIN ms : Lists(ms[i], n)}
           u == UpdateManifests(r, ms)
<1>1. Len(ms) \in Nat /\ DOMAIN ms = 1..Len(ms)
          /\ \A i \in 1..Len(ms) : ms[i] \in Manifest
  OBVIOUS
<1>2. /\ r.components \in Seq(Components) /\ \A m \in Manifest : m.component \in Components
      /\ r.archs \in Seq(Archs) /\ \A m \in Manifest : m.arch \in Archs
  BY DEF Releases, Manifest
<1>3. cs \in Seq(Components) /\ as \in Seq(Archs)
  BY <1>1, <1>2
<1>4. /\ u.byHash = r.byHash
      /\ u.components = AppendAllUnique(r.components, cs)
      /\ u.archs = AppendAllUnique(r.archs, as)
      /\ \A n \in IndexNames :
           u.files[n] = IF Listed(n) = {} THEN r.files[n]
                        ELSE ms[CHOOSE i \in Listed(n) : TRUE].packages
  BY DEF UpdateManifests
<1>5. /\ ToSet(cs) = {m.component : m \in ToSet(ms)}
      /\ ToSet(as) = {m.arch : m \in ToSet(ms)}
  BY <1>1 DEF ToSet
<1>6. ASSUME NEW n \in IndexNames, Listed(n) # {}
      PROVE  \E m \in ToSet(ms) : Lists(m, n) /\ u.files[n] = m.packages
  <2>1. PICK i : i = (CHOOSE k \in Listed(n) : TRUE)
    OBVIOUS
  <2>2. i \in DOMAIN ms /\ Lists(ms[i], n)
    BY <1>6, <2>1
  <2>3. u.files[n] = ms[i].packages
    BY <1>4, <1>6, <2>1
  <2>4. QED
    BY <2>2, <2>3 DEF ToSet
<1>7. ASSUME NEW n \in IndexNames, Listed(n) = {}
      PROVE  \A m \in ToSet(ms) : ~Lists(m, n)
  BY <1>7 DEF ToSet
<1> HIDE DEF cs, as, Listed, u
<1>8. /\ ToSet(u.components) = ToSet(r.components) \cup ToSet(cs)
      /\ ToSet(u.archs) = ToSet(r.archs) \cup ToSet(as)
  <2>1. ToSet(u.components) = ToSet(r.components) \cup ToSet(cs)
    BY ONLY <1>2, <1>3, <1>4, r \in Releases, AppendAllUniqueFacts
  <2>2. r.archs \in Seq(Archs)
    BY <1>2
  <2>3. ToSet(AppendAllUnique(r.archs, as)) = ToSet(r.archs) \cup ToSet(as)
    <3>1. \A s, x \in Seq(Archs) : ToSet(AppendAllUnique(s, x)) = ToSet(s) \cup ToSet(x)
      BY ONLY AppendAllUniqueFacts
    <3>2. QED
      BY ONLY <1>3, <2>2, <3>1
  <2>4. QED
    BY <1>4, <2>1, <2>3
<1>9. \A n \in IndexNames :
        \/ /\ u.files[n] = r.files[n]
           /\ \A m \in ToSet(ms) : ~Lists(m, n)
        \/ \E m \in ToSet(ms) : Lists(m, n) /\ u.files[n] = m.packages
  BY <1>4, <1>6, <1>7
<1>10. /\ u.byHash = r.byHash
       /\ ToSet(u.components) = ToSet(r.components)
                                  \cup {m.component : m \in ToSet(ms)}
       /\ ToSet(u.archs) = ToSet(r.archs) \cup {m.arch : m \in ToSet(ms)}
       /\ \A n \in IndexNames :
            \/ /\ u.files[n] = r.files[n]
               /\ \A m \in ToSet(ms) : ~Lists(m, n)
            \/ \E m \in ToSet(ms) : Lists(m, n) /\ u.files[n] = m.packages
  BY <1>4, <1>5, <1>8, <1>9
<1>11. QED
  BY <1>10 DEF u

\* The second Release lists what the first one lists or the artifacts contain.
Publishes(r, s, artifacts) ==
  /\ s.byHash = r.byHash
  /\ ToSet(r.components) \subseteq ToSet(s.components)
  /\ \A a \in artifacts : a.name[1] \in ToSet(s.components)
  /\ \A n \in IndexNames :
       s.files[n] = r.files[n] \/ [name |-> n, body |-> s.files[n]] \in artifacts

\* The artifacts hold the indexes of the manifests.
Rendering(ms, artifacts) ==
  \A m \in ToSet(ms), f \in ToSet(Forms) :
    [name |-> <<m.component, m.arch, f>>, body |-> m.packages] \in artifacts

\* So it is with the manifests that enter the Release and their artifacts.
LEMMA UpdatePublishes ==
  ASSUME NEW r \in Releases, NEW ms \in Seq(Manifest), NEW artifacts,
         Rendering(ms, artifacts), NEW s, s = UpdateManifests(r, ms)
  PROVE  \A n \in IndexNames :
           s.files[n] = r.files[n] \/ [name |-> n, body |-> s.files[n]] \in artifacts
<1> SUFFICES ASSUME NEW n \in IndexNames, s.files[n] # r.files[n]
             PROVE  [name |-> n, body |-> s.files[n]] \in artifacts
  OBVIOUS
<1>1. PICK m \in ToSet(ms) : Lists(m, n) /\ s.files[n] = m.packages
  BY UpdateManifestsFacts
<1>2. n = <<m.component, m.arch, n[3]>> /\ n[3] \in ToSet(Forms)
  BY <1>1 DEF Lists, IndexNames
<1>3. QED
  BY <1>1, <1>2 DEF Rendering

\* The decision of upload, copy, delete and verify publishes what it lists.
LEMMA PreparePublishes ==
  ASSUME TypeOK, NEW p \in Runs, NEW changed \in Seq(Manifest), NEW uploads,
         Prepare(p, changed, uploads)
  PROVE  Publishes(rel[p], rel'[p], Pending(p)')
<1> DEFINE updated == UpdateManifests(rel[p], changed)
           missing == MissingManifests(updated)
           final == UpdateManifests(updated, missing)
           artifacts == ToSet(Artifacts(changed \o missing))
<1>1. rel[p] \in Releases /\ DOMAIN rel = Runs /\ DOMAIN batches = Runs
  BY DEF TypeOK
<1>2. updated \in Releases
  BY <1>1, UpdateManifestsType
<1>3. missing \in Seq(Manifest)
  BY <1>2, MissingManifestsType
<1>4. rel'[p] = final /\ batches'[p] = <<Artifacts(changed \o missing)>>
  BY <1>1 DEF Prepare
<1>5. Pending(p)' = artifacts
  BY <1>4 DEF Pending
<1>6. changed \o missing \in Seq(Manifest)
      /\ ToSet(changed \o missing) = ToSet(changed) \cup ToSet(missing)
  BY <1>3, ConcatRange
<1> HIDE DEF missing
<1>7. /\ updated.byHash = rel[p].byHash
      /\ ToSet(rel[p].components) \subseteq ToSet(updated.components)
      /\ \A m \in ToSet(changed) : m.component \in ToSet(updated.components)
  <2>1. /\ updated.byHash = rel[p].byHash
        /\ ToSet(updated.components) = ToSet(rel[p].components)
                                         \cup {m.component : m \in ToSet(changed)}
    BY <1>1, UpdateManifestsFacts
  <2> HIDE DEF updated
  <2>2. QED
    BY <2>1
<1> HIDE DEF updated
<1>8. /\ final.byHash = updated.byHash
      /\ ToSet(updated.components) \subseteq ToSet(final.components)
      /\ \A m \in ToSet(missing) : m.component \in ToSet(final.components)
  <2>1. /\ final.byHash = updated.byHash
        /\ ToSet(final.components) = ToSet(updated.components)
                                       \cup {m.component : m \in ToSet(missing)}
    BY <1>2, <1>3, UpdateManifestsFacts
  <2> HIDE DEF final
  <2>2. QED
    BY <2>1
<1>9. /\ \A m \in ToSet(changed \o missing), f \in ToSet(Forms) :
           [name |-> <<m.component, m.arch, f>>, body |-> m.packages] \in artifacts
      /\ \A a \in artifacts :
           \E m \in ToSet(changed \o missing) : a.name[1] = m.component
  BY <1>6, ArtifactsFacts
<1> HIDE DEF artifacts, final
<1>10. \A a \in artifacts : a.name[1] \in ToSet(final.components)
  BY <1>6, <1>7, <1>8, <1>9
<1>11. \A n \in IndexNames :
         updated.files[n] = rel[p].files[n]
           \/ [name |-> n, body |-> updated.files[n]] \in artifacts
  <2>1. Rendering(changed, artifacts)
    BY <1>6, <1>9 DEF Rendering
  <2>2. updated = UpdateManifests(rel[p], changed)
    BY DEF updated
  <2>3. QED
    BY ONLY <1>1, p \in Runs, changed \in Seq(Manifest), <2>1, <2>2, UpdatePublishes
<1>12. \A n \in IndexNames :
         final.files[n] = updated.files[n]
           \/ [name |-> n, body |-> final.files[n]] \in artifacts
  <2>1. Rendering(missing, artifacts)
    BY <1>6, <1>9 DEF Rendering
  <2>2. final = UpdateManifests(updated, missing)
    BY DEF final
  <2>3. QED
    BY ONLY <1>2, <1>3, <2>1, <2>2, UpdatePublishes
<1>13. QED
  BY <1>4, <1>5, <1>7, <1>8, <1>10, <1>11, <1>12 DEF Publishes

\* And so does the publication of the Release alone.
LEMMA PrepareReleasePublishes ==
  ASSUME TypeOK, NEW p \in Runs, PrepareRelease(p)
  PROVE  Publishes(rel[p], rel'[p], Pending(p)')
<1> DEFINE missing == MissingManifests(rel[p])
           final == UpdateManifests(rel[p], missing)
           artifacts == Pending(p)'
<1>1. rel[p] \in Releases /\ DOMAIN rel = Runs /\ DOMAIN batches = Runs
  BY DEF TypeOK
<1>2. missing \in Seq(Manifest)
  BY <1>1, MissingManifestsType
<1>3. /\ rel'[p] = final
      /\ batches'[p] = [i \in DOMAIN missing |-> Artifacts(<<missing[i]>>)]
  BY <1>1 DEF PrepareRelease
<1> HIDE DEF missing
<1>4. /\ final.byHash = rel[p].byHash
      /\ ToSet(rel[p].components) \subseteq ToSet(final.components)
      /\ \A m \in ToSet(missing) : m.component \in ToSet(final.components)
  BY <1>1, <1>2, UpdateManifestsFacts
<1>5. ASSUME NEW i \in DOMAIN missing
      PROVE  /\ <<missing[i]>> \in Seq(Manifest) /\ ToSet(<<missing[i]>>) = {missing[i]}
             /\ missing[i] \in ToSet(missing)
  BY <1>2 DEF ToSet
<1>6. ASSUME NEW m \in ToSet(missing), NEW f \in ToSet(Forms)
      PROVE  [name |-> <<m.component, m.arch, f>>, body |-> m.packages] \in artifacts
  <2>1. PICK i \in DOMAIN missing : m = missing[i]
    BY DEF ToSet
  <2>2. <<missing[i]>> \in Seq(Manifest) /\ m \in ToSet(<<missing[i]>>)
    BY <1>5, <2>1
  <2>3. \A x \in ToSet(<<missing[i]>>), g \in ToSet(Forms) :
          [name |-> <<x.component, x.arch, g>>, body |-> x.packages]
            \in ToSet(Artifacts(<<missing[i]>>))
    BY <2>2, ArtifactsFacts
  <2>4. QED
    BY <1>3, <2>1, <2>2, <2>3 DEF Pending
<1>7. ASSUME NEW a \in artifacts PROVE a.name[1] \in ToSet(final.components)
  <2>1. PICK i \in DOMAIN missing : a \in ToSet(Artifacts(<<missing[i]>>))
    BY <1>3 DEF Pending
  <2>2. a.name[1] = missing[i].component
    BY <1>5, <2>1, ArtifactsFacts
  <2>3. QED
    BY <1>4, <1>5, <2>2
<1> HIDE DEF artifacts, final
<1>8. \A n \in IndexNames :
        final.files[n] = rel[p].files[n]
          \/ [name |-> n, body |-> final.files[n]] \in artifacts
  <2>1. final = UpdateManifests(rel[p], missing)
    BY DEF final
  <2>2. Rendering(missing, artifacts)
    BY <1>6 DEF Rendering
  <2>3. QED
    BY <1>1, <1>2, <2>1, <2>2, UpdatePublishes
<1>9. Publishes(rel[p], final, artifacts)
  BY <1>4, <1>7, <1>8 DEF Publishes
<1>10. QED
  BY <1>3, <1>9 DEF artifacts

---------------------------------------------------------------------------
(* What a step keeps *)

\* Objects under their hash stay, and a run that has its Release keeps the way
\* it publishes.
Grows ==
  /\ \A c \in Codenames, n \in IndexNames : byHash[c][n] \subseteq byHash'[c][n]
  /\ job' = job
  /\ \A q \in Runs :
       pc[q] \notin Unsettled =>
         /\ pc'[q] \notin Unsettled
         /\ rel'[q].byHash = rel[q].byHash
         /\ ToSet(rel[q].components) \subseteq ToSet(rel'[q].components)

\* A component that is written without by-hash objects remains one.
LEMMA PlainStays ==
  ASSUME Grows, NEW component, Plain(component)
  PROVE  Plain(component)'
  BY DEF Grows, Plain

\* Nothing happens to a run in a step of another one.
Alone(p) ==
  \A q \in Runs \ {p} :
    /\ pc'[q] = pc[q] /\ rel'[q] = rel[q] /\ batches'[q] = batches[q]
    /\ at'[q] = at[q] /\ late'[q] = late[q]

\* The runs that do not take the step keep their invariant.
LEMMA OthersHashed ==
  ASSUME TypeOK, Grows, NEW p, Alone(p), NEW q \in Runs \ {p}, RunHashed(q),
         pc[q] \in {"byHash", "canonical"} \/ late[q] \in {"byHash", "canonical"}
           => batches[q] # <<>>
  PROVE  RunHashed(q)'
<1>1. /\ pc'[q] = pc[q] /\ rel'[q] = rel[q] /\ batches'[q] = batches[q]
      /\ at'[q] = at[q] /\ late'[q] = late[q] /\ job'[q] = job[q]
  BY DEF Alone, Grows
<1>2. Pending(q)' = Pending(q) /\ Batch(q)' = Batch(q) /\ Codename(q)' = Codename(q)
  BY <1>1 DEF Pending, Batch, Codename
<1>3. Codename(q) \in Codenames
  BY CodenameType
<1>4. \A i \in DOMAIN Batch(q) : Stored(q, i) /\ batches[q] # <<>> => Stored(q, i)'
  <2> SUFFICES ASSUME NEW i \in DOMAIN Batch(q), Stored(q, i), batches[q] # <<>>
               PROVE  Stored(q, i)'
    OBVIOUS
  <2>1. Batch(q)[i].name \in IndexNames
    <3>1. Batch(q) \in Seq(Artifact)
      BY DEF TypeOK, Batch
    <3>2. Batch(q)[i] \in Artifact
      BY <3>1
    <3>3. QED
      BY <3>2 DEF Artifact
  <2>2. QED
    BY <1>1, <1>2, <1>3, <2>1 DEF Stored, Grows
<1>5. BatchHashed(q)'
  BY <1>1, <1>2, <1>4 DEF RunHashed, BatchHashed
<1>6. ListedHashed(q)'
  <2> SUFFICES ASSUME NEW n \in IndexNames
               PROVE  \/ rel'[q].files[n] \in byHash'[Codename(q)][n] \cup {NoObject}
                      \/ Plain(n[1])'
                      \/ [name |-> n, body |-> rel'[q].files[n]] \in Pending(q)
    BY <1>2 DEF ListedHashed
  <2>1. \/ rel[q].files[n] \in byHash[Codename(q)][n] \cup {NoObject}
        \/ Plain(n[1])
        \/ [name |-> n, body |-> rel[q].files[n]] \in Pending(q)
    BY DEF RunHashed, ListedHashed
  <2>2. Plain(n[1]) => Plain(n[1])'
    BY PlainStays
  <2>3. QED
    BY <1>1, <1>3, <2>1, <2>2 DEF Grows
<1>7. QED
  BY <1>1, <1>2, <1>5, <1>6 DEF RunHashed

\* The store and the other runs are fine if what the step writes is.
LEMMA StepHashed ==
  ASSUME TypeInv, HashInv, Grows, NEW p \in Runs, Alone(p), RunHashed(p)',
         \A c \in Codenames, n \in IndexNames :
           /\ \/ index'[c][n] = index[c][n]
              \/ index'[c][n] \in byHash'[c][n] \/ Plain(n[1])'
           /\ \A r \in Served(c)' :
                \/ r \in Served(c)
                \/ r.files[n] \in byHash'[c][n] \cup {NoObject} \/ Plain(n[1])'
  PROVE  HashInv'
<1>1. \A n \in IndexNames : Plain(n[1]) => Plain(n[1])'
  BY PlainStays
<1>2. StoreHashed'
  <2> SUFFICES ASSUME NEW c \in Codenames, NEW n \in IndexNames
               PROVE  /\ index'[c][n] \in byHash'[c][n] \cup {NoObject} \/ Plain(n[1])'
                      /\ \A r \in Served(c)' :
                           \/ r.files[n] \in byHash'[c][n] \cup {NoObject}
                           \/ Plain(n[1])'
    BY DEF StoreHashed
  <2>1. /\ index[c][n] \in byHash[c][n] \cup {NoObject} \/ Plain(n[1])
        /\ \A r \in Served(c) : r.files[n] \in byHash[c][n] \cup {NoObject}
                               \/ Plain(n[1])
        /\ byHash[c][n] \subseteq byHash'[c][n]
    BY DEF HashInv, StoreHashed, Grows
  <2>2. QED
    BY <1>1, <2>1
<1>3. ASSUME NEW q \in Runs, q # p PROVE RunHashed(q)'
  <2>1. /\ TypeOK /\ RunHashed(q)
        /\ pc[q] \in {"byHash", "canonical"} \/ late[q] \in {"byHash", "canonical"}
             => batches[q] # <<>>
    BY DEF TypeInv, RunsOK, RunOK, HashInv
  <2>2. QED
    BY <1>3, <2>1, OthersHashed
<1>4. QED
  BY <1>2, <1>3 DEF HashInv

---------------------------------------------------------------------------
(* The steps *)

\* A move that publishes nothing.
QuietMove(p, label) ==
  \/ label = pc[p]
  \/ /\ label # "canonical"
     /\ label \in Unsettled => pc[p] \in Unsettled
     /\ label \in {"manifests", "heads"} => pc[p] \in {"manifests", "heads"}
     /\ label = "byHash" => batches[p] # <<>>
     /\ label \in ReleaseLabels => pc[p] \in ReleaseLabels \/ batches[p] = <<>>
     /\ at[p] # 1 => label \in {"unlock", "ended"}

\* The steps that change neither indexes nor what is listed.
Quiet(p) ==
  /\ \E label : pc' = [pc EXCEPT ![p] = label] /\ QuietMove(p, label)
  /\ \/ late' = late
     \/ late' = [late EXCEPT ![p] = pc[p]] /\ pc'[p] \notin Unsettled
  /\ UNCHANGED <<byHash, index, release, job, rel, batches, at>>
  /\ \A c \in Codenames : /\ releaseGpg'[c] \in {NoObject, releaseGpg[c]}
                          /\ inRelease'[c] \in {NoObject, inRelease[c]}

\* A step that neither stores indexes nor decides keeps the invariant.
LEMMA QuietHashed ==
  ASSUME TypeInv, HashInv, NEW p \in Runs, Quiet(p)
  PROVE  HashInv'
<1>1. PICK label : pc' = [pc EXCEPT ![p] = label] /\ QuietMove(p, label)
  BY DEF Quiet
<1>2. /\ pc \in [Runs -> Labels] /\ late \in [Runs -> {"none"} \cup WritingLabels]
      /\ RunHashed(p)
  BY DEF TypeInv, TypeOK, HashInv
<1>3. pc'[p] = label /\ \A q \in Runs \ {p} : pc'[q] = pc[q]
  BY <1>1, <1>2
<1>4. Alone(p)
  BY <1>2, <1>3 DEF Quiet, Alone
<1>5. Grows
  BY <1>1, <1>3 DEF Quiet, QuietMove, Grows
<1>6. /\ UNCHANGED <<byHash, index, job, rel, batches, at>>
      /\ late'[p] = late[p] \/ late'[p] = pc[p]
  BY <1>2 DEF Quiet
<1>7. RunHashed(p)'
  <2>1. Pending(p)' = Pending(p) /\ Batch(p)' = Batch(p) /\ Codename(p)' = Codename(p)
    BY <1>6 DEF Pending, Batch, Codename
  <2>2. \A i : Stored(p, i)' <=> Stored(p, i)
    BY <1>6, <2>1 DEF Stored
  <2>3. BatchHashed(p)'
    <3> SUFFICES ASSUME rel[p].byHash
                 PROVE  /\ label = "byHash" =>
                             \A i \in DOMAIN Batch(p) : i < at[p] => Stored(p, i)
                        /\ label = "canonical" \/ late'[p] = "canonical"
                            => \A i \in DOMAIN Batch(p) : Stored(p, i)
      BY <1>3, <1>6, <2>1, <2>2 DEF BatchHashed
    <3>1. BatchHashed(p)
      BY <1>2 DEF RunHashed
    <3>2. label = "byHash" /\ label # pc[p] => at[p] = 1 /\ batches[p] # <<>>
      BY <1>1 DEF QuietMove
    <3>3. ASSUME at[p] = 1, batches[p] # <<>>, NEW i \in DOMAIN Batch(p)
          PROVE  ~(i < at[p])
      <4>1. Batch(p) \in Seq(Artifact)
        BY <3>3 DEF TypeInv, TypeOK, Batch
      <4>2. i \in Nat \ {0}
        BY <3>3, <4>1
      <4>3. QED
        BY <3>3, <4>2
    <3>4. label = "canonical" => label = pc[p]
      BY <1>1 DEF QuietMove
    <3>5. QED
      BY <1>6, <3>1, <3>2, <3>3, <3>4 DEF BatchHashed
  <2>4. ListedHashed(p)'
    <3>1. \A n \in IndexNames : Plain(n[1]) => Plain(n[1])'
      BY <1>5, PlainStays
    <3>2. ListedHashed(p)
      BY <1>2 DEF RunHashed
    <3>3. QED
      BY <1>6, <2>1, <3>1, <3>2 DEF ListedHashed
  <2>5. QED
    BY <1>1, <1>2, <1>3, <1>6, <2>1, <2>3, <2>4 DEF RunHashed, QuietMove
<1>8. \A c \in Codenames : Served(c)' \subseteq Served(c)
  BY DEF Quiet, Served
<1>9. QED
  BY <1>4, <1>5, <1>6, <1>7, <1>8, StepHashed

\* Everything but the publication of artifacts and of Releases, and the choice
\* of what to publish.
LEMMA QuietStepsHashed ==
  ASSUME TypeInv, HashInv, NEW p \in Runs,
         \/ /\ UNCHANGED late
            /\ \/ Start(p) \/ TakeLock(p) \/ GiveUp(p) \/ Unlock(p) \/ UnlockFails(p)
               \/ SigningFails(p) \/ Answer(p) \/ SweepDone(p)
               \/ RetrieveSource(p) \/ RetrieveManifest(p) \/ HeadPackage(p)
               \/ HeadsDone(p)
               \/ ListManifest(p) \/ LookUp(p)
               \/ ListIndexes(p) \/ ScanIndex(p) \/ ListPool(p) \/ DeletePoolObject(p)
               \/ PutPackage(p) \/ PackagesDone(p) \/ Sign(p)
               \/ DeleteReleaseGpg(p) \/ DeleteInRelease(p)
         \/ StoreFails(p) \/ Crash(p)
  PROVE  HashInv'
<1> USE DEF Goto, store, memory, reading
<1>1. /\ pc \in [Runs -> Labels]
      /\ DOMAIN releaseGpg = Codenames /\ DOMAIN inRelease = Codenames
      /\ RunHashed(p) /\ RunOK(p)
  BY DEF TypeInv, TypeOK, HashInv, RunsOK
<1>2. pc' = pc => pc' = [pc EXCEPT ![p] = pc[p]]
  BY <1>1
<1>3. CASE /\ UNCHANGED late
           /\ \/ Start(p) \/ TakeLock(p) \/ GiveUp(p) \/ Unlock(p) \/ UnlockFails(p)
              \/ SigningFails(p) \/ Answer(p) \/ SweepDone(p)
  <2>1. UNCHANGED <<byHash, index, release, releaseGpg, inRelease, job, rel, batches,
            at, late>>
    BY <1>3 DEF Start, TakeLock, GiveUp, Unlock, UnlockFails, SigningFails, SignFails,
                Answer, SweepDone
  <2>2. \E label \in {"lock", "source", "list", "lookup", "release", "unlock",
            "ended"} :
          /\ pc' = [pc EXCEPT ![p] = label]
          /\ label \in Unsettled => pc[p] \in Unsettled
          /\ label = "list" \/ label = "lookup" => pc[p] \in Unsettled
    BY <1>3 DEF Start, TakeLock, GiveUp, Unlock, UnlockFails, SigningFails, SignFails,
                Answer, SweepDone, Finish, FirstRead, Unsettled
  <2>3. Quiet(p)
    BY <1>1, <2>1, <2>2 DEF Quiet, QuietMove, RunHashed, Unsettled, ReleaseLabels
  <2>4. QED
    BY <2>3, QuietHashed
<1>4. CASE /\ UNCHANGED late
           /\ \/ RetrieveSource(p) \/ RetrieveManifest(p) \/ HeadPackage(p)
              \/ HeadsDone(p)
              \/ ListManifest(p) \/ LookUp(p)
  <2>1. UNCHANGED <<byHash, index, release, releaseGpg, inRelease, job, rel, batches,
            at, late>>
    BY ONLY <1>4, Zenon DEF Goto, store, memory, reading, RetrieveSource,
       RetrieveManifest, HeadPackage, HeadsDone, ListManifest, LookUp
  <2>2. \/ pc' = pc
        \/ pc[p] = "source" /\ pc' = [pc EXCEPT ![p] = "release"]
        \/ /\ pc[p] \in {"manifests", "heads"}
           /\ \E label \in {"manifests", "heads"} : pc' = [pc EXCEPT ![p] = label]
        \/ /\ pc[p] = "lookup"
           /\ \E label \in {"unlock", "ended"} : pc' = [pc EXCEPT ![p] = label]
    BY <1>4 DEF RetrieveSource, RetrieveManifest, HeadPackage, HeadsDone, ListManifest,
                LookUp, Finish
  <2>3. at[p] # 1 => pc[p] \in {"byHash", "canonical", "unlock", "ended"}
    BY <1>1 DEF RunHashed
  <2>4. \E label : pc' = [pc EXCEPT ![p] = label] /\ QuietMove(p, label)
    BY <1>2, <2>2, <2>3 DEF QuietMove, Unsettled, ReleaseLabels
  <2>5. Quiet(p)
    BY <2>1, <2>4 DEF Quiet
  <2>6. QED
    BY <2>5, QuietHashed
<1>5. CASE /\ UNCHANGED late
           /\ \/ ListIndexes(p) \/ ScanIndex(p) \/ ListPool(p) \/ DeletePoolObject(p)
              \/ PutPackage(p) \/ PackagesDone(p) \/ Sign(p)
              \/ DeleteReleaseGpg(p) \/ DeleteInRelease(p)
  <2>1. UNCHANGED <<byHash, index, release, job, rel, batches, at, late>>
    BY <1>5, Zenon DEF ListIndexes, ScanIndex, ListPool, DeletePoolObject, PutPackage,
                PackagesDone, Sign, DeleteReleaseGpg, DeleteInRelease
  <2>2. \A c \in Codenames : /\ releaseGpg'[c] \in {NoObject, releaseGpg[c]}
                             /\ inRelease'[c] \in {NoObject, inRelease[c]}
    <3>1. CASE DeleteReleaseGpg(p) \/ DeleteInRelease(p)
      BY <1>1, <3>1 DEF DeleteReleaseGpg, DeleteInRelease
    <3>2. CASE \/ ListIndexes(p) \/ ScanIndex(p) \/ ListPool(p) \/ DeletePoolObject(p)
               \/ PutPackage(p) \/ PackagesDone(p) \/ Sign(p)
      <4>1. UNCHANGED <<releaseGpg, inRelease>>
        BY ONLY <3>2, Zenon DEF Goto, store, memory, reading, ListIndexes, ScanIndex,
           ListPool, DeletePoolObject, PutPackage, PackagesDone, Sign
      <4>2. QED
        BY <4>1
    <3>3. QED
      BY <1>5, <3>1, <3>2
  <2>3. \/ pc' = pc
        \/ pc[p] = "list" /\ pc' = [pc EXCEPT ![p] = "scan"]
        \/ pc[p] = "scan" /\ pc' = [pc EXCEPT ![p] = "sweep"]
        \/ /\ pc[p] = "packages"
           /\ \/ \E label \in {"unlock", "ended"} : pc' = [pc EXCEPT ![p] = label]
              \/ batches[p] # <<>> /\ pc' = [pc EXCEPT ![p] = "byHash"]
              \/ /\ batches[p] = <<>>
                 /\ \E label \in ReleaseLabels : pc' = [pc EXCEPT ![p] = label]
        \/ /\ pc[p] \in ReleaseLabels
           /\ \E label \in ReleaseLabels : pc' = [pc EXCEPT ![p] = label]
    BY <1>5 DEF ListIndexes, ScanIndex, ListPool, DeletePoolObject, PutPackage, Finish,
                PackagesDone, AfterIndexes, Sign, DeleteReleaseGpg, DeleteInRelease,
                ReleaseLabels
  <2>4. at[p] # 1 => pc[p] \in {"byHash", "canonical", "unlock", "ended"}
    BY <1>1 DEF RunHashed
  <2>5. \E label : pc' = [pc EXCEPT ![p] = label] /\ QuietMove(p, label)
    BY <1>2, <2>3, <2>4 DEF QuietMove, Unsettled, ReleaseLabels
  <2>6. Quiet(p)
    BY <2>1, <2>2, <2>5 DEF Quiet
  <2>7. QED
    BY <2>6, QuietHashed
<1>6. CASE StoreFails(p) \/ Crash(p)
  <2>1. UNCHANGED <<byHash, index, release, releaseGpg, inRelease, job, rel, batches,
            at>>
    BY <1>6 DEF StoreFails, Crash
  <2>2. /\ \E label \in {"unlock", "ended"} : pc' = [pc EXCEPT ![p] = label]
        /\ late' = late \/ late' = [late EXCEPT ![p] = pc[p]]
    BY <1>6 DEF StoreFails, Crash, Finish, LeavesCall
  <2>3. Quiet(p)
    BY <1>1, <2>1, <2>2 DEF Quiet, QuietMove, Unsettled, ReleaseLabels
  <2>4. QED
    BY <2>3, QuietHashed
<1>7. QED
  BY <1>3, <1>4, <1>5, <1>6

\* A Release that is retrieved is a served one, or new.
LEMMA RetrieveReleaseHashed ==
  ASSUME TypeInv, HashInv, NEW p \in Runs, RetrieveRelease(p), UNCHANGED late
  PROVE  HashInv'
<1> DEFINE c == Codename(p)
           r == Retrieved(release[c], job[p].byHash)
<1>1. /\ pc[p] = "release" /\ pc' = [pc EXCEPT ![p] = "manifests"]
      /\ rel' = [rel EXCEPT ![p] = r]
      /\ UNCHANGED <<byHash, index, release, releaseGpg, inRelease, job, batches, at,
             late>>
  BY DEF RetrieveRelease, Goto, store
<1>2. /\ pc \in [Runs -> Labels] /\ rel \in [Runs -> Releases]
      /\ RunHashed(p) /\ RunOK(p) /\ c \in Codenames
      /\ release[c] \in {NoObject} \cup Releases
  BY CodenameType DEF TypeInv, TypeOK, HashInv, RunsOK
<1>3. /\ r.byHash \/ job[p].byHash # "on"
      /\ \A n \in IndexNames :
           \/ r.files[n] = NoObject
           \/ release[c] \in Served(c) /\ r.files[n] = release[c].files[n]
  <2>1. CASE release[c] = NoObject
    BY <2>1 DEF Retrieved, NewRelease
  <2>2. CASE release[c] # NoObject
    <3>1. release[c] \in Releases /\ release[c] \in Served(c)
      BY <1>2, <2>2 DEF Served
    <3>2. r = release[c] \/ r = [release[c] EXCEPT !.byHash = (job[p].byHash = "on")]
      BY <2>2 DEF Retrieved
    <3>3. r.files = release[c].files
      BY <3>1, <3>2 DEF Releases
    <3>4. r.byHash \/ job[p].byHash # "on"
      BY <2>2, <3>1 DEF Retrieved, Releases
    <3>5. QED
      BY <3>1, <3>3, <3>4
  <2>3. QED
    BY <2>1, <2>2
<1> HIDE DEF r
<1>4. /\ pc'[p] = "manifests" /\ rel'[p] = r
      /\ \A q \in Runs \ {p} : pc'[q] = pc[q] /\ rel'[q] = rel[q]
  BY <1>1, <1>2
<1>5. Alone(p) /\ Grows
  BY <1>1, <1>4 DEF Alone, Grows, Unsettled
<1>6. /\ batches[p] = <<>> /\ at[p] = 1 /\ late[p] = "none"
  BY <1>1, <1>2 DEF RunHashed, RunOK, Unsettled
<1>7. Pending(p)' = {}
  <2>1. DOMAIN <<>> = {}
    OBVIOUS
  <2>2. QED
    BY <1>1, <1>6, <2>1 DEF Pending
<1>8. \A n \in IndexNames : r.files[n] \in byHash[c][n] \cup {NoObject} \/ Plain(n[1])
  BY <1>2, <1>3 DEF HashInv, StoreHashed
<1>9. ListedHashed(p)'
  <2>1. \A n \in IndexNames : Plain(n[1]) => Plain(n[1])'
    BY <1>5, PlainStays
  <2>2. QED
    BY <1>1, <1>4, <1>8, <2>1 DEF ListedHashed, Codename
<1>10. RunHashed(p)'
  BY <1>1, <1>3, <1>4, <1>6, <1>7, <1>9 DEF RunHashed, BatchHashed, Unsettled,
     ReleaseLabels
<1>11. \A d \in Codenames : Served(d)' = Served(d)
  BY <1>1 DEF Served
<1>12. QED
  BY <1>1, <1>5, <1>10, <1>11, StepHashed

\* What a command decides to publish is pending.
LEMMA DecidedHashed ==
  ASSUME TypeInv, HashInv, NEW p \in Runs, NEW op, Decide(p, op), UNCHANGED late,
         /\ Publishes(rel[p], rel'[p], Pending(p)')
         /\ rel' = [rel EXCEPT ![p] = rel'[p]]
         /\ batches' = [batches EXCEPT ![p] = batches'[p]]
         /\ pc' = [pc EXCEPT ![p] = "packages"]
  PROVE  HashInv'
<1>1. /\ pc[p] = "manifests"
      /\ UNCHANGED <<byHash, index, release, releaseGpg, inRelease, job, at, late>>
  BY DEF Decide, store
<1>2. /\ pc \in [Runs -> Labels] /\ rel \in [Runs -> Releases] /\ DOMAIN batches = Runs
      /\ RunHashed(p) /\ RunOK(p)
  BY DEF TypeInv, TypeOK, HashInv, RunsOK
<1>3. /\ pc'[p] = "packages"
      /\ \A q \in Runs \ {p} : pc'[q] = pc[q] /\ rel'[q] = rel[q]
  BY <1>2
<1>4. \A q \in Runs \ {p} : batches'[q] = batches[q]
  BY <1>2
<1>5. Alone(p)
  BY <1>1, <1>3, <1>4 DEF Alone
<1>6. Grows
  BY <1>1, <1>3 DEF Grows, Publishes, Unsettled
<1>7. /\ batches[p] = <<>> /\ at[p] = 1 /\ late[p] = "none"
      /\ rel[p].byHash \/ job[p].byHash # "on"
  BY <1>1, <1>2 DEF RunHashed, RunOK
<1>8. Pending(p) = {}
  <2>1. DOMAIN <<>> = {}
    OBVIOUS
  <2>2. QED
    BY <1>7, <2>1 DEF Pending
<1>9. ListedHashed(p)'
  <2>1. \A n \in IndexNames : Plain(n[1]) => Plain(n[1])'
    BY <1>6, PlainStays
  <2>2. ListedHashed(p)
    BY <1>2 DEF RunHashed
  <2>3. QED
    BY <1>1, <1>8, <2>1, <2>2 DEF ListedHashed, Publishes, Codename
<1>10. RunHashed(p)'
  BY <1>1, <1>3, <1>7, <1>9 DEF RunHashed, BatchHashed, Publishes, Unsettled,
     ReleaseLabels
<1>11. \A d \in Codenames : Served(d)' = Served(d)
  BY <1>1 DEF Served
<1>12. QED
  BY <1>1, <1>5, <1>6, <1>10, <1>11, StepHashed

\* A command that has nothing to do publishes nothing.
LEMMA NothingHashed ==
  ASSUME TypeInv, HashInv, NEW p \in Runs, NEW op, Decide(p, op), UNCHANGED late,
         NEW how, Nothing(p, how)
  PROVE  HashInv'
<1>1. UNCHANGED <<byHash, index, release, releaseGpg, inRelease, job, rel, batches,
          at, late>>
  BY DEF Decide, Nothing, store
<1>2. \E label \in {"unlock", "ended"} : pc' = [pc EXCEPT ![p] = label]
  BY DEF Nothing, Finish, Goto
<1>3. Quiet(p)
  BY <1>1, <1>2 DEF Quiet, QuietMove, Unsettled, ReleaseLabels
<1>4. QED
  BY <1>3, QuietHashed

\* The decisions of the commands keep the invariant.
LEMMA DecideHashed ==
  ASSUME TypeInv, HashInv, NEW p \in Runs, UNCHANGED late,
         DecideUpload(p) \/ DecideCopy(p) \/ DecideDelete(p) \/ DecideVerify(p)
  PROVE  HashInv'
<1>1. PICK op : /\ Decide(p, op)
                /\ \/ \E changed \in Seq(Manifest), uploads \in Packages :
                        Prepare(p, changed, uploads)
                   \/ PrepareRelease(p)
                   \/ \E how : Nothing(p, how)
  BY DecidesTyped
<1>2. CASE \E how : Nothing(p, how)
  BY <1>1, <1>2, NothingHashed
<1>3. TypeOK
  BY DEF TypeInv
<1>4. CASE \E changed \in Seq(Manifest), uploads \in Packages :
            Prepare(p, changed, uploads)
  <2>1. PICK changed \in Seq(Manifest), uploads \in Packages :
               Prepare(p, changed, uploads)
    BY <1>4
  <2>2. Publishes(rel[p], rel'[p], Pending(p)')
    BY <1>3, <2>1, PreparePublishes
  <2>3. /\ rel' = [rel EXCEPT ![p] = rel'[p]]
        /\ batches' = [batches EXCEPT ![p] = batches'[p]]
        /\ pc' = [pc EXCEPT ![p] = "packages"]
    BY <1>3, <2>1 DEF Prepare, TypeOK, Goto
  <2>4. QED
    BY <1>1, <2>2, <2>3, DecidedHashed
<1>5. CASE PrepareRelease(p)
  <2>2. Publishes(rel[p], rel'[p], Pending(p)')
    BY <1>3, <1>5, PrepareReleasePublishes
  <2>3. /\ rel' = [rel EXCEPT ![p] = rel'[p]]
        /\ batches' = [batches EXCEPT ![p] = batches'[p]]
        /\ pc' = [pc EXCEPT ![p] = "packages"]
    BY <1>3, <1>5 DEF PrepareRelease, TypeOK, Goto
  <2>4. QED
    BY <1>1, <2>2, <2>3, DecidedHashed
<1>6. QED
  BY <1>1, <1>2, <1>4, <1>5

\* The publication of the next artifact.
LEMMA ArtifactHashed ==
  ASSUME TypeInv, HashInv, NEW p \in Runs, UNCHANGED late,
         PutByHash(p) \/ ByHashDone(p) \/ PutCanonical(p)
  PROVE  HashInv'
<1> USE DEF Goto
<1> DEFINE c == Codename(p)
           a == Batch(p)[at[p]]
<1>1. /\ pc[p] \in {"byHash", "canonical"} /\ batches[p] # <<>>
      /\ RunHashed(p) /\ RunOK(p) /\ TypeOK /\ c \in Codenames
      /\ Batch(p) \in Seq(Artifact) /\ at[p] \in Nat \ {0} /\ late[p] = "none"
  <2>1. TypeOK /\ RunHashed(p) /\ RunOK(p) /\ c \in Codenames
    BY CodenameType DEF TypeInv, HashInv, RunsOK
  <2>2. pc[p] \in {"byHash", "canonical"} /\ batches[p] # <<>> /\ late[p] = "none"
    BY <2>1 DEF RunOK, PutByHash, ByHashDone, PutCanonical
  <2>3. Batch(p) \in Seq(Artifact) /\ at[p] \in Nat \ {0}
    BY <2>1, <2>2 DEF TypeOK, Batch
  <2>4. QED
    BY <2>1, <2>2, <2>3
<1>2. UNCHANGED <<release, releaseGpg, inRelease, job, rel, batches, late>>
  BY DEF PutByHash, ByHashDone, PutCanonical, store
<1>3. /\ pc' = pc \/ pc' = [pc EXCEPT ![p] = "canonical"]
      /\ at' = [at EXCEPT ![p] = at'[p]]
  BY <1>1 DEF PutByHash, ByHashDone, PutCanonical, TypeOK
<1>4. \A d \in Codenames, n \in IndexNames : byHash[d][n] \subseteq byHash'[d][n]
  <2>1. \/ byHash' = byHash
        \/ byHash' = [byHash EXCEPT ![c][a.name] = @ \cup {a.body}]
    BY DEF PutByHash, ByHashDone, PutCanonical, store
  <2>2. DOMAIN byHash = Codenames /\ \A d \in Codenames : DOMAIN byHash[d] = IndexNames
    BY <1>1 DEF TypeOK
  <2> HIDE DEF a, c
  <2>3. QED
    BY <2>1, <2>2
<1>5. /\ \A q \in Runs \ {p} : pc'[q] = pc[q] /\ at'[q] = at[q]
      /\ pc'[p] \in {pc[p], "canonical"}
  BY <1>1, <1>3 DEF TypeOK
<1>6. Alone(p) /\ Grows
  BY <1>1, <1>2, <1>4, <1>5 DEF Alone, Grows, Unsettled
<1>7. Pending(p)' = Pending(p) /\ Batch(p)' = Batch(p) /\ Codename(p)' = c
  BY <1>2 DEF Pending, Batch, Codename
<1>8. ListedHashed(p)'
  <2>1. \A n \in IndexNames : Plain(n[1]) => Plain(n[1])'
    BY <1>6, PlainStays
  <2>2. ListedHashed(p)
    BY <1>1 DEF RunHashed
  <2>3. QED
    BY <1>1, <1>2, <1>4, <1>7, <2>1, <2>2 DEF ListedHashed
<1>9. ASSUME NEW i \in DOMAIN Batch(p) PROVE Batch(p)[i].name \in IndexNames
  <2>1. Batch(p)[i] \in Artifact
    BY <1>1
  <2>2. QED
    BY <2>1 DEF Artifact
<1>10. ASSUME NEW i \in DOMAIN Batch(p), Stored(p, i) PROVE Stored(p, i)'
  BY <1>1, <1>4, <1>7, <1>9, <1>10 DEF Stored
<1>11. BatchHashed(p)'
  <2> SUFFICES ASSUME rel[p].byHash
               PROVE  /\ pc'[p] = "byHash" =>
                           \A i \in DOMAIN Batch(p) : i < at'[p] => Stored(p, i)'
                      /\ pc'[p] = "canonical"
                            => \A i \in DOMAIN Batch(p) : Stored(p, i)'
    BY <1>1, <1>2, <1>7 DEF BatchHashed
  <2>1. /\ pc[p] = "byHash" => \A i \in DOMAIN Batch(p) : i < at[p] => Stored(p, i)
        /\ pc[p] = "canonical" => \A i \in DOMAIN Batch(p) : Stored(p, i)
    BY <1>1 DEF RunHashed, BatchHashed
  <2>2. CASE PutByHash(p)
    <3>1. /\ pc' = pc /\ pc[p] = "byHash" /\ ArtifactsLeft(p)
          /\ byHash' = [byHash EXCEPT ![c][a.name] = @ \cup {a.body}]
          /\ at'[p] = at[p] + 1
      BY <1>1, <2>2 DEF PutByHash, TypeOK
    <3>2. at[p] \in DOMAIN Batch(p)
      BY <1>1, <3>1 DEF ArtifactsLeft
    <3>3. a.body \in byHash'[c][a.name]
      <4>1. DOMAIN byHash = Codenames
                /\ \A d \in Codenames : DOMAIN byHash[d] = IndexNames
        BY <1>1 DEF TypeOK
      <4>2. a.name \in IndexNames
        BY <1>9, <3>2
      <4>3. QED
        BY <1>1, <3>1, <4>1, <4>2
    <3>4. \A i : i = at[p] => Stored(p, i)'
      BY <1>7, <3>3 DEF Stored
    <3>5. QED
      BY <1>1, <1>10, <2>1, <3>1, <3>4
  <2>3. CASE ByHashDone(p)
    <3>1. /\ pc[p] = "byHash" /\ ~ArtifactsLeft(p) /\ pc'[p] = "canonical"
      BY <1>1, <2>3 DEF ByHashDone, TypeOK
    <3>2. \A i \in DOMAIN Batch(p) : i < at[p]
      BY <1>1, <3>1 DEF ArtifactsLeft
    <3>3. QED
      BY <1>10, <2>1, <3>1, <3>2
  <2>4. CASE PutCanonical(p)
    <3>1. pc[p] = "canonical" /\ pc' = pc
      BY <2>4 DEF PutCanonical
    <3>2. QED
      BY <1>10, <2>1, <3>1
  <2>5. QED
    BY <2>2, <2>3, <2>4
<1>12. RunHashed(p)'
  BY <1>1, <1>2, <1>5, <1>7, <1>8, <1>11 DEF RunHashed, Unsettled, ReleaseLabels
<1>13. ASSUME NEW d \in Codenames, NEW n \in IndexNames
       PROVE  \/ index'[d][n] = index[d][n]
              \/ index'[d][n] \in byHash'[d][n] \/ Plain(n[1])'
  <2>1. CASE PutByHash(p) \/ ByHashDone(p)
    BY <2>1 DEF PutByHash, ByHashDone, store
  <2>2. CASE PutCanonical(p)
    <3>1. /\ pc[p] = "canonical" /\ ArtifactsLeft(p)
          /\ index' = [index EXCEPT ![c][a.name] = a.body]
      BY <2>2 DEF PutCanonical
    <3>2. at[p] \in DOMAIN Batch(p) /\ a.name \in IndexNames
      BY <1>1, <1>9, <3>1 DEF ArtifactsLeft
    <3>3. CASE rel[p].byHash
      <4>1. Stored(p, at[p])
        BY <1>1, <3>1, <3>2, <3>3 DEF RunHashed, BatchHashed
      <4>2. a.body \in byHash'[c][a.name]
        BY <1>1, <1>4, <3>2, <4>1 DEF Stored
      <4>3. QED
        BY <1>1, <3>1, <3>2, <4>2 DEF TypeOK
    <3>4. CASE ~rel[p].byHash
      <4>1. a \in Pending(p)
        BY <1>1, <3>2 DEF Pending, Batch, ToSet, TypeOK
      <4>2. a.name[1] \in ToSet(rel[p].components) /\ job[p].byHash # "on"
        BY <1>1, <3>4, <4>1 DEF RunHashed
      <4>3. ASSUME NEW m \in IndexNames, m = a.name PROVE Plain(m[1])'
        <5>1. Plain(m[1])
          BY <3>1, <3>4, <4>2, <4>3 DEF Plain, Unsettled
        <5>2. QED
          BY <1>6, <5>1, PlainStays
      <4>4. n # a.name => index'[d][n] = index[d][n]
        BY <1>1, <3>1, <3>2 DEF TypeOK
      <4>5. QED
        BY <4>3, <4>4
    <3>5. QED
      BY <3>3, <3>4
  <2>3. QED
    BY <2>1, <2>2
<1>14. \A d \in Codenames : Served(d)' = Served(d)
  BY <1>2 DEF Served
<1>15. QED
  BY <1>6, <1>12, <1>13, <1>14, StepHashed

\* A batch that is published is no longer pending: its contents are under their
\* hash, or the run writes the component plainly.
LEMMA BatchDoneHashed ==
  ASSUME TypeInv, HashInv, NEW p \in Runs, UNCHANGED late, CanonicalDone(p)
  PROVE  HashInv'
<1>1. /\ pc[p] = "canonical" /\ batches[p] # <<>> /\ late[p] = "none"
      /\ RunHashed(p) /\ TypeOK
      /\ batches[p] \in Seq(Seq(Artifact)) /\ Codename(p) \in Codenames
  BY CodenameType DEF TypeInv, TypeOK, HashInv, RunsOK, RunOK, CanonicalDone
<1>2. /\ UNCHANGED <<byHash, index, release, releaseGpg, inRelease, job, rel, late>>
      /\ batches' = [batches EXCEPT ![p] = Tail(@)]
      /\ at' = [at EXCEPT ![p] = 1]
  BY DEF CanonicalDone, store
<1>3. /\ batches'[p] = Tail(batches[p]) /\ at'[p] = 1
      /\ \A q \in Runs \ {p} : batches'[q] = batches[q] /\ at'[q] = at[q]
  BY <1>1, <1>2 DEF TypeOK
<1>4. /\ pc'[p] = (IF batches'[p] = <<>> THEN AfterIndexes(p) ELSE "byHash")
      /\ \A q \in Runs \ {p} : pc'[q] = pc[q]
  BY <1>1, <1>3 DEF CanonicalDone, Goto, TypeOK
<1>5. Alone(p) /\ Grows
  BY <1>1, <1>2, <1>3, <1>4 DEF Alone, Grows, Unsettled, AfterIndexes
<1>6. Pending(p) = ToSet(Batch(p)) \cup Pending(p)'
  <2>1. /\ DOMAIN batches[p] = 1..Len(batches[p]) /\ Len(batches[p]) \in Nat \ {0}
        /\ DOMAIN Tail(batches[p]) = 1..(Len(batches[p]) - 1)
        /\ \A k \in 1..(Len(batches[p]) - 1) : Tail(batches[p])[k] = batches[p][k + 1]
        /\ Head(batches[p]) = batches[p][1]
    BY <1>1
  <2>2. ASSUME NEW a \in Pending(p) PROVE a \in ToSet(Batch(p)) \cup Pending(p)'
    <3>1. PICK k \in 1..Len(batches[p]) : a \in ToSet(batches[p][k])
      BY <2>1 DEF Pending
    <3>2. CASE k = 1
      BY <2>1, <3>1, <3>2 DEF Batch
    <3>3. CASE k # 1
      <4>1. k - 1 \in 1..(Len(batches[p]) - 1) /\ (k - 1) + 1 = k
        BY <2>1, <3>3
      <4>2. QED
        BY <1>3, <2>1, <3>1, <4>1 DEF Pending
    <3>4. QED
      BY <3>2, <3>3
  <2>3. ASSUME NEW a \in ToSet(Batch(p)) PROVE a \in Pending(p)
    BY <2>1, <2>3 DEF Batch, Pending
  <2>4. ASSUME NEW a \in Pending(p)' PROVE a \in Pending(p)
    <3>1. PICK k \in 1..(Len(batches[p]) - 1) : a \in ToSet(batches[p][k + 1])
      BY <1>3, <2>1 DEF Pending
    <3>2. k + 1 \in 1..Len(batches[p])
      BY <2>1
    <3>3. QED
      BY <2>1, <3>1, <3>2 DEF Pending
  <2>5. QED
    BY <2>2, <2>3, <2>4
<1>7. ASSUME NEW a \in ToSet(Batch(p))
      PROVE  a.body \in byHash[Codename(p)][a.name] \/ Plain(a.name[1])
  <2>1. PICK i \in DOMAIN Batch(p) : a = Batch(p)[i]
    BY DEF ToSet
  <2>2. CASE rel[p].byHash
    BY <1>1, <2>1, <2>2 DEF RunHashed, BatchHashed, Stored
  <2>3. CASE ~rel[p].byHash
    <3>1. a \in Pending(p)
      BY <1>6
    <3>2. QED
      BY <1>1, <2>3, <3>1 DEF RunHashed, Plain, Unsettled
  <2>4. QED
    BY <2>2, <2>3
<1>8. ListedHashed(p)'
  <2> SUFFICES ASSUME NEW n \in IndexNames
               PROVE  \/ rel[p].files[n] \in byHash[Codename(p)][n] \cup {NoObject}
                      \/ Plain(n[1])'
                      \/ [name |-> n, body |-> rel[p].files[n]] \in Pending(p)'
    BY <1>2 DEF ListedHashed, Codename
  <2>1. Plain(n[1]) => Plain(n[1])'
    BY <1>5, PlainStays
  <2>2. \/ rel[p].files[n] \in byHash[Codename(p)][n] \cup {NoObject}
        \/ Plain(n[1])
        \/ [name |-> n, body |-> rel[p].files[n]] \in Pending(p)
    BY <1>1 DEF RunHashed, ListedHashed
  <2>3. [name |-> n, body |-> rel[p].files[n]] \in ToSet(Batch(p)) =>
          rel[p].files[n] \in byHash[Codename(p)][n] \/ Plain(n[1])
    BY <1>7
  <2>4. QED
    BY <1>6, <2>1, <2>2, <2>3
<1>9. BatchHashed(p)'
  <2>1. batches'[p] # <<>> => Head(batches'[p]) \in Seq(Artifact)
    BY <1>1, <1>3
  <2>2. batches'[p] # <<>> => \A i \in DOMAIN Batch(p)' : ~(i < 1)
    BY <2>1 DEF Batch
  <2>3. /\ pc'[p] = "byHash" => batches'[p] # <<>>
        /\ pc'[p] # "canonical" /\ late'[p] # "canonical"
    BY <1>1, <1>2, <1>4 DEF AfterIndexes
  <2>4. QED
    BY <1>3, <2>2, <2>3 DEF BatchHashed
<1>10. RunHashed(p)'
  <2>1. /\ rel[p].byHash \/ job[p].byHash # "on"
        /\ \A a \in Pending(p)' : a.name[1] \in ToSet(rel[p].components)
    BY <1>1, <1>6 DEF RunHashed
  <2>2. /\ pc'[p] \notin Unsettled \cup {"manifests", "heads"}
        /\ pc'[p] \in ReleaseLabels => batches'[p] = <<>>
        /\ late'[p] \notin ReleaseLabels
    BY <1>1, <1>2, <1>4 DEF Unsettled, ReleaseLabels, AfterIndexes
  <2>3. QED
    BY <1>2, <1>3, <1>8, <1>9, <2>1, <2>2 DEF RunHashed
<1>11. \A d \in Codenames : Served(d)' = Served(d)
  BY <1>2 DEF Served
<1>12. QED
  BY <1>2, <1>5, <1>10, <1>11, StepHashed

\* The Release is stored, or signed, after all of its indexes.
LEMMA ReleaseHashed ==
  ASSUME TypeInv, HashInv, NEW p \in Runs, UNCHANGED late,
         PutRelease(p) \/ PutReleaseGpg(p) \/ PutInRelease(p)
  PROVE  HashInv'
<1>1. /\ pc[p] \in ReleaseLabels /\ RunHashed(p) /\ TypeOK /\ Codename(p) \in Codenames
  BY CodenameType DEF TypeInv, HashInv, ReleaseLabels, PutRelease, PutReleaseGpg,
     PutInRelease
<1>2. UNCHANGED <<byHash, index, job, rel, batches, at, late>>
  BY DEF PutRelease, PutReleaseGpg, PutInRelease, memory
<1>3. \E label \in {"putGpg", "putInRelease", "unlock", "ended"} :
        pc' = [pc EXCEPT ![p] = label]
  BY DEF PutRelease, PutReleaseGpg, PutInRelease, Finish, Goto
<1>4. /\ pc'[p] \in {"putGpg", "putInRelease", "unlock", "ended"}
      /\ \A q \in Runs \ {p} : pc'[q] = pc[q]
  BY <1>1, <1>3 DEF TypeOK
<1>5. Alone(p) /\ Grows
  BY <1>2, <1>4 DEF Alone, Grows, Unsettled
<1>6. /\ Pending(p)' = Pending(p) /\ Batch(p)' = Batch(p) /\ Codename(p)' = Codename(p)
      /\ Pending(p) = {}
  <2>1. batches[p] = <<>>
    BY <1>1 DEF RunHashed
  <2>2. DOMAIN <<>> = {}
    OBVIOUS
  <2>3. QED
    BY <1>2, <2>1, <2>2 DEF Pending, Batch, Codename
<1>7. \A n \in IndexNames :
        rel[p].files[n] \in byHash'[Codename(p)][n] \cup {NoObject} \/ Plain(n[1])'
  <2>1. \A n \in IndexNames : Plain(n[1]) => Plain(n[1])'
    BY <1>5, PlainStays
  <2>2. QED
    BY <1>1, <1>2, <1>6, <2>1 DEF RunHashed, ListedHashed
<1>8. RunHashed(p)'
  <2>1. ListedHashed(p)'
    BY <1>2, <1>6, <1>7 DEF ListedHashed
  <2>2. BatchHashed(p)'
    <3>1. \A i : Stored(p, i)' <=> Stored(p, i)
      BY <1>2, <1>6 DEF Stored
    <3>2. QED
      BY <1>1, <1>2, <1>4, <1>6, <3>1 DEF RunHashed, BatchHashed
  <2>3. QED
    BY <1>1, <1>2, <1>4, <1>6, <2>1, <2>2 DEF RunHashed, Unsettled, ReleaseLabels
<1>9. \A d \in Codenames : \A r \in Served(d)' :
        r \in Served(d) \/ (d = Codename(p) /\ r = Rendered(p))
  BY <1>1 DEF Served, PutRelease, PutReleaseGpg, PutInRelease, TypeOK
<1>10. Rendered(p).files = rel[p].files
  BY <1>1 DEF Rendered, TypeOK, Releases
<1>11. \A d \in Codenames, n \in IndexNames : \A r \in Served(d)' :
         r \in Served(d) \/ r.files[n] \in byHash'[d][n] \cup {NoObject} \/ Plain(n[1])'
  BY <1>7, <1>9, <1>10
<1>12. QED
  BY <1>2, <1>5, <1>8, <1>11, StepHashed

\* A call that is applied late publishes what its run was about to publish; that
\* was allowed when it was sent, and what allowed it has stayed.
LEMMA LateCallHashed ==
  ASSUME TypeInv, HashInv, NEW p \in Runs, LateCall(p)
  PROVE  HashInv'
<1> DEFINE c == Codename(p)
           a == Batch(p)[at[p]]
<1>1. /\ RunHashed(p) /\ RunOK(p) /\ TypeOK /\ c \in Codenames
      /\ late[p] \in WritingLabels /\ pc[p] \in {"unlock", "ended"}
  BY CodenameType DEF TypeInv, HashInv, RunsOK, LateCall, RunOK, WritingLabels
<1>2. /\ UNCHANGED <<pc, job, rel, batches, at>>
      /\ late' = [late EXCEPT ![p] = "none"]
  BY DEF LateCall, memory
<1>3. /\ byHash' = IF late[p] = "byHash" /\ rel[p].byHash /\ ArtifactsLeft(p)
                   THEN [byHash EXCEPT ![c][a.name] = @ \cup {a.body}]
                   ELSE byHash
      /\ index' = IF late[p] = "canonical" /\ ArtifactsLeft(p)
                  THEN [index EXCEPT ![c][a.name] = a.body]
                  ELSE index
  BY DEF LateCall
<1>4. /\ late'[p] = "none" /\ \A q \in Runs \ {p} : late'[q] = late[q]
  BY <1>1, <1>2 DEF TypeOK
<1>5. /\ DOMAIN byHash = Codenames /\ \A d \in Codenames : DOMAIN byHash[d] = IndexNames
      /\ DOMAIN index = Codenames /\ \A d \in Codenames : DOMAIN index[d] = IndexNames
  BY <1>1 DEF TypeOK
<1>6. \A d \in Codenames, n \in IndexNames : byHash[d][n] \subseteq byHash'[d][n]
  <2>1. \/ byHash' = byHash
        \/ byHash' = [byHash EXCEPT ![c][a.name] = @ \cup {a.body}]
    BY <1>3
  <2> HIDE DEF a, c
  <2>2. QED
    BY <1>5, <2>1
<1>7. Alone(p) /\ Grows
  BY <1>2, <1>4, <1>6 DEF Alone, Grows
<1>8. Pending(p)' = Pending(p) /\ Batch(p)' = Batch(p) /\ Codename(p)' = c
  BY <1>2 DEF Pending, Batch, Codename
<1>9. \A n \in IndexNames : Plain(n[1]) => Plain(n[1])'
  BY <1>7, PlainStays
<1>10. RunHashed(p)'
  <2>1. ListedHashed(p)'
    <3>1. ListedHashed(p)
      BY <1>1 DEF RunHashed
    <3>2. QED
      BY <1>1, <1>2, <1>6, <1>8, <1>9, <3>1 DEF ListedHashed
  <2>2. BatchHashed(p)'
    BY <1>1, <1>2, <1>4 DEF BatchHashed
  <2>3. QED
    BY <1>1, <1>2, <1>4, <1>8, <2>1, <2>2 DEF RunHashed, ReleaseLabels
<1>11. ASSUME NEW d \in Codenames, NEW n \in IndexNames
       PROVE  \/ index'[d][n] = index[d][n]
              \/ index'[d][n] \in byHash'[d][n] \/ Plain(n[1])'
  <2>1. CASE ~(late[p] = "canonical" /\ ArtifactsLeft(p))
    BY <1>3, <2>1
  <2>2. CASE late[p] = "canonical" /\ ArtifactsLeft(p)
    <3>1. batches[p] # <<>> /\ Batch(p) \in Seq(Artifact) /\ at[p] \in Nat \ {0}
      <4>1. batches[p] # <<>>
        BY <1>1, <2>2 DEF RunOK
      <4>2. QED
        BY <1>1, <4>1 DEF TypeOK, Batch
    <3>2. at[p] \in DOMAIN Batch(p)
      BY <2>2, <3>1 DEF ArtifactsLeft
    <3>3. a.name \in IndexNames
      <4>1. a \in Artifact
        BY <3>1, <3>2
      <4>2. QED
        BY <4>1 DEF Artifact
    <3>4. index' = [index EXCEPT ![c][a.name] = a.body] /\ byHash' = byHash
      BY <1>3, <2>2
    <3>5. CASE rel[p].byHash
      <4>1. Stored(p, at[p])
        BY <1>1, <2>2, <3>2, <3>5 DEF RunHashed, BatchHashed
      <4>2. a.body \in byHash[c][a.name]
        BY <4>1 DEF Stored
      <4>3. QED
        BY <1>1, <1>5, <3>3, <3>4, <4>2
    <3>6. CASE ~rel[p].byHash
      <4>1. a \in Pending(p)
        <5>1. 1 \in DOMAIN batches[p] /\ Batch(p) = batches[p][1]
          BY <1>1, <3>1 DEF TypeOK, Batch
        <5>2. QED
          BY <3>2, <5>1 DEF Pending, ToSet
      <4>2. a.name[1] \in ToSet(rel[p].components) /\ job[p].byHash # "on"
        BY <1>1, <3>1, <3>6, <4>1 DEF RunHashed
      <4>3. ASSUME NEW m \in IndexNames, m = a.name PROVE Plain(m[1])'
        <5>1. Plain(m[1])
          BY <1>1, <3>6, <4>2, <4>3 DEF Plain, Unsettled
        <5>2. QED
          BY <1>9, <5>1
      <4>4. n # a.name => index'[d][n] = index[d][n]
        BY <1>1, <1>5, <3>3, <3>4
      <4>5. QED
        BY <4>3, <4>4
    <3>7. QED
      BY <3>5, <3>6
  <2>3. QED
    BY <2>1, <2>2
<1>12. ASSUME NEW d \in Codenames, NEW n \in IndexNames, NEW r \in Served(d)'
       PROVE  r \in Served(d) \/ r.files[n] \in byHash'[d][n] \cup {NoObject}
                  \/ Plain(n[1])'
  <2>1. CASE late[p] \in {"putRelease", "putGpg", "putInRelease"}
    <3>1. batches[p] = <<>>
      BY <1>1, <2>1 DEF RunHashed, ReleaseLabels
    <3>2. Pending(p) = {}
      <4>1. DOMAIN <<>> = {}
        OBVIOUS
      <4>2. QED
        BY <3>1, <4>1 DEF Pending
    <3>3. rel[p].files[n] \in byHash'[c][n] \cup {NoObject} \/ Plain(n[1])'
      BY <1>1, <1>6, <1>9, <3>2 DEF RunHashed, ListedHashed
    <3>4. /\ \/ release' = release \/ release' = [release EXCEPT ![c] = Rendered(p)]
          /\ \/ releaseGpg' = releaseGpg
             \/ releaseGpg' = [releaseGpg EXCEPT ![c] = Rendered(p)]
          /\ \/ inRelease' = inRelease
             \/ inRelease' = [inRelease EXCEPT ![c] = Rendered(p)]
      BY <2>1 DEF LateCall
    <3>5. r \in Served(d) \/ (d = c /\ r = Rendered(p))
      BY <1>1, <3>4 DEF Served, TypeOK
    <3>6. Rendered(p).files = rel[p].files
      BY <1>1 DEF Rendered, TypeOK, Releases
    <3>7. QED
      BY <3>3, <3>5, <3>6
  <2>2. CASE late[p] \notin {"putRelease", "putGpg", "putInRelease"}
    <3>1. /\ release' = release
          /\ releaseGpg' \in {releaseGpg, [releaseGpg EXCEPT ![c] = NoObject]}
          /\ inRelease' \in {inRelease, [inRelease EXCEPT ![c] = NoObject]}
      BY <2>2 DEF LateCall
    <3>2. r \in Served(d)
      BY <1>1, <3>1 DEF Served, TypeOK
    <3>3. QED
      BY <3>2
  <2>3. QED
    BY <2>1, <2>2
<1>13. QED
  BY <1>7, <1>10, <1>11, <1>12, StepHashed

\* Steps in which no run takes part.
LEMMA IdleHashed ==
  ASSUME HashInv, UNCHANGED <<byHash, index, release, releaseGpg, inRelease,
                              pc, job, rel, batches, at, late>>
  PROVE  HashInv'
<1>1. \A m : Plain(m)' <=> Plain(m)
  BY DEF Plain
<1>2. StoreHashed'
  BY <1>1 DEF HashInv, StoreHashed, Served
<1>3. ASSUME NEW p \in Runs PROVE RunHashed(p)'
  <2>1. Pending(p)' = Pending(p) /\ Batch(p)' = Batch(p) /\ Codename(p)' = Codename(p)
    BY DEF Pending, Batch, Codename
  <2>2. \A i : Stored(p, i)' <=> Stored(p, i)
    BY <2>1 DEF Stored
  <2>3. BatchHashed(p)'
    BY <2>1, <2>2 DEF HashInv, RunHashed, BatchHashed
  <2>4. ListedHashed(p)'
    BY <1>1, <2>1 DEF HashInv, RunHashed, ListedHashed
  <2>5. QED
    BY <2>1, <2>3, <2>4 DEF HashInv, RunHashed
<1>4. QED
  BY <1>2, <1>3 DEF HashInv

---------------------------------------------------------------------------

\* At first nothing is stored or pending.
LEMMA InitHashed == Init => HashInv
<1> SUFFICES ASSUME Init PROVE HashInv
  OBVIOUS
<1>1. StoreHashed
  BY DEF Init, StoreHashed, Served
<1>2. ASSUME NEW p \in Runs PROVE RunHashed(p)
  <2>1. /\ pc[p] = "start" /\ batches[p] = <<>> /\ late[p] = "none" /\ at[p] = 1
        /\ \A n \in IndexNames : rel[p].files[n] = NoObject
    BY DEF Init, NewRelease
  <2>2. DOMAIN <<>> = {}
    OBVIOUS
  <2>3. Pending(p) = {}
    BY <2>1, <2>2 DEF Pending
  <2>4. QED
    BY <2>1, <2>3 DEF RunHashed, BatchHashed, ListedHashed, ReleaseLabels
<1>3. QED
  BY <1>1, <1>2 DEF HashInv

\* Every step keeps the invariant.
LEMMA NextHashed == TypeInv /\ HashInv /\ [Next]_vars => HashInv'
<1> SUFFICES ASSUME TypeInv, HashInv, [Next]_vars PROVE HashInv'
  OBVIOUS
<1>1. ASSUME NEW p \in Runs, Proceed(p) PROVE HashInv'
  <2>1. UNCHANGED late
    BY <1>1 DEF Proceed
  <2>2. CASE RetrieveRelease(p)
    BY <2>1, <2>2, RetrieveReleaseHashed
  <2>3. CASE DecideUpload(p) \/ DecideCopy(p) \/ DecideDelete(p) \/ DecideVerify(p)
    BY <2>1, <2>3, DecideHashed
  <2>4. CASE PutByHash(p) \/ ByHashDone(p) \/ PutCanonical(p)
    BY <2>1, <2>4, ArtifactHashed
  <2>5. CASE CanonicalDone(p)
    BY <2>1, <2>5, BatchDoneHashed
  <2>6. CASE PutRelease(p) \/ PutReleaseGpg(p) \/ PutInRelease(p)
    BY <2>1, <2>6, ReleaseHashed
  <2>7. CASE \/ Start(p) \/ TakeLock(p) \/ Unlock(p) \/ Answer(p) \/ SweepDone(p)
             \/ RetrieveSource(p) \/ RetrieveManifest(p) \/ HeadPackage(p)
             \/ HeadsDone(p)
             \/ ListManifest(p) \/ LookUp(p)
             \/ ListIndexes(p) \/ ScanIndex(p) \/ ListPool(p) \/ DeletePoolObject(p)
             \/ PutPackage(p) \/ PackagesDone(p) \/ Sign(p)
             \/ DeleteReleaseGpg(p) \/ DeleteInRelease(p)
    BY <2>1, <2>7, QuietStepsHashed
  <2>8. QED
    BY <1>1, <2>2, <2>3, <2>4, <2>5, <2>6, <2>7 DEF Proceed, Publish
<1>2. ASSUME NEW p \in Runs, Disturb(p) PROVE HashInv'
  BY <1>2, QuietStepsHashed DEF Disturb
<1>3. ASSUME NEW c \in Codenames, BreakLock(c) PROVE HashInv'
  BY <1>3, IdleHashed DEF BreakLock, memory
<1>4. CASE UNCHANGED vars
  BY <1>4, IdleHashed DEF vars, store, memory
<1>5. QED
  BY <1>1, <1>2, <1>3, <1>4, LateCallHashed DEF Next, Terminated

\* HashInv holds of every reachable state.
LEMMA HashInvHolds == Spec => []HashInv
<1>1. Init => TypeInv /\ HashInv
  BY InitType, InitHashed
<1>2. TypeInv /\ HashInv /\ [Next]_vars => (TypeInv /\ HashInv)'
  BY NextType, NextHashed
<1>3. QED
  BY <1>1, <1>2, PTL DEF Spec

\* "Immutable by-hash objects always precede canonical index names across the
\* complete update" (metadata_publish.go), however many runs publish at once,
\* locked or not, and whichever of them fail, die or are applied late.
THEOREM CanonicalByHashHolds == Spec => []CanonicalByHash
<1>1. \A component : Plain(component) => WrittenPlainly(component)
  BY DEF Plain, WrittenPlainly
<1>2. HashInv => CanonicalByHash
  BY <1>1 DEF HashInv, StoreHashed, CanonicalByHash
<1>3. QED
  BY <1>2, HashInvHolds, PTL

\* A client finds by hash whatever any Release it may hold lists.
THEOREM ServedByHashHolds == Spec => []ServedByHash
<1>1. \A component : Plain(component) => WrittenPlainly(component)
  BY DEF Plain, WrittenPlainly
<1>2. HashInv => ServedByHash
  BY <1>1 DEF HashInv, StoreHashed, ServedByHash
<1>3. QED
  BY <1>2, HashInvHolds, PTL

---------------------------------------------------------------------------
(* Package bodies *)

\* Without clean, uploads given --fail-if-exists that do upload their bodies.
\* These are the commands for which the ordering alone protects clients:
\* clean relies on the lock, and the others on the maintainer.
GuardedUploads ==
  \A j \in Jobs :
    /\ j.op # "clean"
    /\ j.op = "upload" => j.failIfExists /\ ~j.skipUpload

\* The body of the entry is in the pool, with its checksum.
InPool(e) ==
  /\ e.filename \in PoolKeys
  /\ pool[e.filename] # NoObject
  /\ pool[e.filename] = e.sum

\* So are those of all the entries of an index.
Held(packages) == \A e \in ToSet(packages) : InPool(e)

\* The entries that the run is going to publish: in its Release, in its batches.
Announced(p) ==
  (UNION {ToSet(PackagesOf(rel[p].files[n])) : n \in IndexNames})
    \cup (UNION {ToSet(a.body) : a \in Pending(p)})

\* Between the reads of a run and its decision, and after its last body, what
\* it announces is in the pool.
Committed == {"manifests", "heads", "byHash", "canonical"} \cup ReleaseLabels

\* What the store holds and serves is in the pool.
StoreBacked ==
  \A c \in Codenames, n \in IndexNames :
    /\ Held(PackagesOf(index[c][n]))
    /\ \A r \in Served(c) : Held(PackagesOf(r.files[n]))

\* What a run has read, and what it is about to upload.
ReadBacked(p) ==
  /\ \A m \in ToSet(manifests[p]) : Held(m.packages)
  /\ Held(kept[p])
  /\ pc[p] = "heads" => Held(work[p])
  /\ work[p] # <<>> => pc[p] \in {"heads", "packages", "unlock", "ended"}
  /\ work[p] # <<>> /\ (pc[p] = "packages" \/ late[p] = "packages")
       => job[p].failIfExists

\* An upload reads a manifest for each of the packages it can place, so the
\* "all" packages, that enter every manifest, are uploaded for one of them.
PlacesRead(p) ==
  job[p].op = "upload" /\ pc[p] = "manifests" =>
    \A d \in ToSet(Placed(job[p])) :
      \/ Placement(job[p], d) \in ToSet(todo[p])
      \/ \E m \in ToSet(manifests[p]) : m.arch = Placement(job[p], d)

\* What a run announces is in the pool, or still to be uploaded.
AnnouncedBacked(p) ==
  /\ pc[p] \in Committed \/ late[p] \in Committed
       => \A e \in Announced(p) : InPool(e)
  /\ pc[p] = "packages"
       => \A e \in Announced(p) : InPool(e) \/ e \in ToSet(work[p])

\* All that a run relies on.
RunBacked(p) == ReadBacked(p) /\ PlacesRead(p) /\ AnnouncedBacked(p)

\* The inductive invariant.
PoolInv == StoreBacked /\ \A p \in Runs : RunBacked(p)

---------------------------------------------------------------------------
(* What a step keeps *)

\* A body that is in the pool stays there as it is.
BodiesStay == \A k \in PoolKeys : pool[k] # NoObject => pool'[k] = pool[k]

\* So an entry that has its body keeps it.
LEMMA HeldStays ==
  ASSUME BodiesStay, NEW e, InPool(e)
  PROVE  InPool(e)'
  BY DEF BodiesStay, InPool

\* And so do the entries of an index.
LEMMA AllHeldStay ==
  ASSUME BodiesStay, NEW packages, Held(packages)
  PROVE  \A e \in ToSet(packages) : InPool(e)'
  BY HeldStays DEF Held

\* Nothing happens to a run in a step of another one.
Apart(p) ==
  \A q \in Runs \ {p} :
    /\ pc'[q] = pc[q] /\ rel'[q] = rel[q] /\ batches'[q] = batches[q]
    /\ work'[q] = work[q] /\ late'[q] = late[q] /\ manifests'[q] = manifests[q]
    /\ todo'[q] = todo[q] /\ kept'[q] = kept[q]

\* What a run announces depends on its memory alone.
LEMMA AnnouncedSame ==
  ASSUME NEW q, rel'[q] = rel[q], batches'[q] = batches[q]
  PROVE  Announced(q)' = Announced(q)
<1>1. Pending(q)' = Pending(q)
  BY DEF Pending
<1>2. QED
  BY <1>1 DEF Announced

\* The other runs keep what they rely on.
LEMMA OthersBacked ==
  ASSUME BodiesStay, UNCHANGED job, NEW p, Apart(p), NEW q \in Runs \ {p}, RunBacked(q)
  PROVE  RunBacked(q)'
<1>1. /\ pc'[q] = pc[q] /\ rel'[q] = rel[q] /\ batches'[q] = batches[q]
      /\ work'[q] = work[q] /\ late'[q] = late[q] /\ manifests'[q] = manifests[q]
      /\ todo'[q] = todo[q] /\ kept'[q] = kept[q] /\ job'[q] = job[q]
  BY DEF Apart
<1>2. Announced(q)' = Announced(q)
  BY <1>1, AnnouncedSame
<1>3. \A e : InPool(e) => InPool(e)'
  BY HeldStays
<1>4. ReadBacked(q)'
  BY <1>1, <1>3 DEF RunBacked, ReadBacked, Held
<1>5. PlacesRead(q)'
  BY <1>1 DEF RunBacked, PlacesRead
<1>6. AnnouncedBacked(q)'
  BY <1>1, <1>2, <1>3 DEF RunBacked, AnnouncedBacked
<1>7. QED
  BY <1>4, <1>5, <1>6 DEF RunBacked

\* The store and the other runs are fine if what the step writes is.
LEMMA StepBacked ==
  ASSUME PoolInv, BodiesStay, UNCHANGED job, NEW p \in Runs, Apart(p), RunBacked(p)',
         \A c \in Codenames, n \in IndexNames :
           /\ \/ index'[c][n] = index[c][n]
              \/ \A e \in ToSet(PackagesOf(index'[c][n])) : InPool(e)'
           /\ \A r \in Served(c)' :
                \/ r \in Served(c)
                \/ \A e \in ToSet(PackagesOf(r.files[n])) : InPool(e)'
  PROVE  PoolInv'
<1>1. \A e : InPool(e) => InPool(e)'
  BY HeldStays
<1>2. StoreBacked'
  <2> SUFFICES ASSUME NEW c \in Codenames, NEW n \in IndexNames
               PROVE  /\ \A e \in ToSet(PackagesOf(index'[c][n])) : InPool(e)'
                      /\ \A r \in Served(c)' :
                           \A e \in ToSet(PackagesOf(r.files[n])) : InPool(e)'
    BY DEF StoreBacked, Held
  <2>1. /\ \A e \in ToSet(PackagesOf(index[c][n])) : InPool(e)
        /\ \A r \in Served(c) : \A e \in ToSet(PackagesOf(r.files[n])) : InPool(e)
    BY DEF PoolInv, StoreBacked, Held
  <2>2. QED
    BY <1>1, <2>1
<1>3. ASSUME NEW q \in Runs, q # p PROVE RunBacked(q)'
  <2>1. RunBacked(q)
    BY DEF PoolInv
  <2>2. QED
    BY <1>3, <2>1, OthersBacked
<1>4. QED
  BY <1>2, <1>3 DEF PoolInv

---------------------------------------------------------------------------
(* Steps that decide nothing new *)

\* A move after which a run relies on nothing more than before.
Retreats(p) ==
  /\ pc'[p] \in Committed =>
       pc[p] \in Committed \/ (pc[p] = "packages" /\ work[p] = <<>>)
  /\ pc'[p] \in {"heads", "packages", "manifests"} => pc'[p] = pc[p]
  /\ work[p] # <<>> => pc'[p] \in {"heads", "packages", "unlock", "ended"}
  /\ late'[p] \in {late[p], "none", pc[p]}

\* What a run may store: what it announces once it is committed.
Publishable(p, packages) ==
  /\ pc[p] \in Committed \/ late[p] \in Committed
  /\ ToSet(packages) \subseteq Announced(p)

\* Moves, puts of artifacts and of Releases, failures, and calls applied late.
LEMMA MoveBacked ==
  ASSUME PoolInv, BodiesStay, UNCHANGED job, NEW p \in Runs, Apart(p), Retreats(p),
         work'[p] = work[p], manifests'[p] = manifests[p], kept'[p] = kept[p],
         todo'[p] = todo[p], Announced(p)' \subseteq Announced(p),
         \A c \in Codenames, n \in IndexNames :
           /\ index'[c][n] = index[c][n] \/ Publishable(p, PackagesOf(index'[c][n]))
           /\ \A r \in Served(c)' :
                r \in Served(c) \/ Publishable(p, PackagesOf(r.files[n]))
  PROVE  PoolInv'
<1>1. \A e : InPool(e) => InPool(e)'
  BY HeldStays
<1>2. RunBacked(p)
  BY DEF PoolInv
<1>3. ReadBacked(p)'
  BY <1>1, <1>2 DEF RunBacked, ReadBacked, Held, Retreats, Committed, ReleaseLabels
<1>4. PlacesRead(p)'
  BY <1>2 DEF RunBacked, PlacesRead, Retreats
<1>5. DOMAIN <<>> = {}
  OBVIOUS
<1>6. work[p] = <<>> => ToSet(work[p]) = {}
  BY <1>5 DEF ToSet
<1>7. AnnouncedBacked(p)'
  BY <1>1, <1>2, <1>6 DEF RunBacked, AnnouncedBacked, Retreats, Committed, ReleaseLabels
<1>8. \A packages : Publishable(p, packages) => \A e \in ToSet(packages) : InPool(e)'
  BY <1>1, <1>2 DEF RunBacked, AnnouncedBacked, Publishable
<1>9. RunBacked(p)'
  BY <1>3, <1>4, <1>7 DEF RunBacked
<1>10. QED
  BY <1>8, <1>9, StepBacked

\* The steps that end something, and those of the lock.
LEMMA EndingsBacked ==
  ASSUME TypeInv, PoolInv, NEW p \in Runs,
         \/ /\ UNCHANGED late
            /\ \/ Start(p) \/ TakeLock(p) \/ GiveUp(p) \/ Unlock(p) \/ UnlockFails(p)
               \/ SigningFails(p) \/ Answer(p) \/ SweepDone(p)
         \/ StoreFails(p) \/ Crash(p)
  PROVE  PoolInv'
<1> USE DEF Goto, store, memory, reading
<1>1. pc \in [Runs -> Labels] /\ late \in [Runs -> {"none"} \cup WritingLabels]
  BY DEF TypeInv, TypeOK
<1>2. UNCHANGED <<pool, index, release, releaseGpg, inRelease, job, rel, batches,
                  work, manifests, kept, todo>>
  BY DEF Start, TakeLock, GiveUp, Unlock, UnlockFails, SigningFails, SignFails,
         Answer, SweepDone, StoreFails, Crash
<1>3. \/ \E label \in {"unlock", "ended"} : pc' = [pc EXCEPT ![p] = label]
      \/ /\ work[p] = <<>>
         /\ \E label \in {"lock", "source", "list", "lookup", "release"} :
              pc' = [pc EXCEPT ![p] = label]
  <2>1. CASE Start(p) \/ TakeLock(p)
    <3>1. pc[p] \in {"start", "lock"}
      BY <2>1 DEF Start, TakeLock
    <3>2. RunBacked(p)
      BY DEF PoolInv
    <3>3. work[p] = <<>>
      BY <3>1, <3>2 DEF RunBacked, ReadBacked
    <3>4. QED
      BY <2>1, <3>3 DEF Start, TakeLock, FirstRead
  <2>2. CASE ~(Start(p) \/ TakeLock(p))
    BY <2>2 DEF GiveUp, Unlock, UnlockFails, SigningFails, SignFails, Answer, SweepDone,
                StoreFails, Crash, Finish
  <2>3. QED
    BY <2>1, <2>2
<1>4. late' = late \/ late' = [late EXCEPT ![p] = pc[p]]
  BY DEF StoreFails, Crash, LeavesCall
<1>5. /\ \A q \in Runs \ {p} : pc'[q] = pc[q] /\ late'[q] = late[q]
      /\ late'[p] \in {late[p], pc[p]}
      /\ pc'[p] \in {"unlock", "ended", "lock", "source", "list", "lookup", "release"}
      /\ work[p] # <<>> => pc'[p] \in {"unlock", "ended"}
  BY <1>1, <1>3, <1>4
<1>6. Apart(p) /\ Retreats(p)
  BY <1>2, <1>5 DEF Apart, Retreats, Committed, ReleaseLabels
<1>7. BodiesStay /\ Announced(p)' = Announced(p)
  BY <1>2, AnnouncedSame DEF BodiesStay
<1>8. \A c \in Codenames : Served(c)' = Served(c)
  BY <1>2 DEF Served
<1>9. QED
  BY <1>2, <1>6, <1>7, <1>8, MoveBacked

\* The publication of indexes: what it stores is what the run announces.
LEMMA IndexesBacked ==
  ASSUME TypeInv, PoolInv, NEW p \in Runs, UNCHANGED <<reading, late>>,
         PackagesDone(p) \/ PutByHash(p) \/ ByHashDone(p) \/ PutCanonical(p)
           \/ CanonicalDone(p)
  PROVE  PoolInv'
<1> USE DEF Goto, store, memory
<1> DEFINE c == Codename(p)
           a == Batch(p)[at[p]]
<1>1. /\ pc \in [Runs -> Labels] /\ TypeOK /\ c \in Codenames
      /\ batches \in [Runs -> Seq(Seq(Artifact))] /\ RunOK(p) /\ RunBacked(p)
  BY CodenameType DEF TypeInv, TypeOK, RunsOK, PoolInv
<1>2. /\ UNCHANGED <<pool, release, releaseGpg, inRelease, job, rel, work,
                     manifests, kept, todo, late>>
      /\ \/ batches' = batches
         \/ pc[p] = "canonical" /\ batches' = [batches EXCEPT ![p] = Tail(@)]
  BY DEF PackagesDone, PutByHash, ByHashDone, PutCanonical, CanonicalDone, reading
<1>3. pc' = pc \/ \E label \in {"byHash", "canonical"} \cup ReleaseLabels :
                    pc' = [pc EXCEPT ![p] = label]
  BY DEF PackagesDone, PutByHash, ByHashDone, PutCanonical, CanonicalDone, AfterIndexes,
         ReleaseLabels
<1>4. /\ pc[p] \in {"packages", "byHash", "canonical"}
      /\ pc[p] = "packages" => work[p] = <<>>
  BY DEF PackagesDone, PutByHash, ByHashDone, PutCanonical, CanonicalDone
<1>5. work[p] # <<>> => pc[p] = "packages"
  BY <1>1, <1>4 DEF RunBacked, ReadBacked
<1>6. /\ \A q \in Runs \ {p} : pc'[q] = pc[q] /\ batches'[q] = batches[q]
      /\ pc'[p] \in {pc[p], "byHash", "canonical"} \cup ReleaseLabels
  BY <1>1, <1>2, <1>3
<1>7. Apart(p) /\ Retreats(p)
  BY <1>2, <1>4, <1>5, <1>6 DEF Apart, Retreats, Committed, ReleaseLabels
<1>8. Pending(p)' \subseteq Pending(p)
  <2>1. CASE batches' = batches
    BY <2>1 DEF Pending
  <2>2. CASE pc[p] = "canonical" /\ batches' = [batches EXCEPT ![p] = Tail(@)]
    <3>1. batches[p] \in Seq(Seq(Artifact)) /\ batches[p] # <<>>
             /\ batches'[p] = Tail(batches[p])
      BY <1>1, <2>2 DEF RunOK
    <3>2. \A k \in DOMAIN Tail(batches[p]) :
            k + 1 \in DOMAIN batches[p] /\ Tail(batches[p])[k] = batches[p][k + 1]
      BY <3>1
    <3>3. QED
      BY <3>1, <3>2 DEF Pending
  <2>3. QED
    BY <1>2, <2>1, <2>2
<1>9. BodiesStay /\ Announced(p)' \subseteq Announced(p)
  BY <1>2, <1>8 DEF BodiesStay, Announced
<1>10. \A d \in Codenames : Served(d)' = Served(d)
  BY <1>2 DEF Served
<1>11. ASSUME NEW d \in Codenames, NEW n \in IndexNames, index'[d][n] # index[d][n]
       PROVE  Publishable(p, PackagesOf(index'[d][n]))
  <2>1. /\ pc[p] = "canonical" /\ ArtifactsLeft(p)
        /\ index' = [index EXCEPT ![c][a.name] = a.body]
    BY <1>11 DEF PackagesDone, PutByHash, ByHashDone, PutCanonical, CanonicalDone
  <2>2. /\ batches[p] # <<>> /\ Batch(p) \in Seq(Artifact)
        /\ at[p] \in DOMAIN Batch(p) /\ Batch(p) = batches[p][1]
        /\ 1 \in DOMAIN batches[p]
    <3>1. batches[p] # <<>> /\ batches[p] \in Seq(Seq(Artifact)) /\ at[p] \in Nat \ {0}
      BY <1>1, <2>1 DEF RunOK, TypeOK
    <3>2. Head(batches[p]) \in Seq(Artifact) /\ Head(batches[p]) = batches[p][1]
            /\ 1 \in DOMAIN batches[p]
      BY <3>1
    <3>3. QED
      BY <2>1, <3>1, <3>2 DEF ArtifactsLeft, Batch
  <2>3. a \in Pending(p)
    BY <2>2 DEF Pending, ToSet
  <2>4. index'[d][n] = a.body
    BY <1>1, <1>11, <2>1 DEF TypeOK
  <2>5. a.body \in Packages
    BY <1>1, <2>1, <2>2, ArtifactType
  <2>6. DOMAIN <<>> = {}
    OBVIOUS
  <2>7. ToSet(PackagesOf(a.body)) \subseteq ToSet(a.body)
    BY <2>6 DEF PackagesOf, ToSet
  <2>8. QED
    BY <2>1, <2>3, <2>4, <2>7 DEF Publishable, Announced, Committed
<1>12. QED
  BY <1>2, <1>7, <1>9, <1>10, <1>11, MoveBacked

\* The publication of the Release.
LEMMA ReleaseBacked ==
  ASSUME TypeInv, PoolInv, NEW p \in Runs, UNCHANGED <<reading, late>>,
         Sign(p) \/ DeleteReleaseGpg(p) \/ DeleteInRelease(p)
           \/ PutRelease(p) \/ PutReleaseGpg(p) \/ PutInRelease(p)
  PROVE  PoolInv'
<1> USE DEF Goto, store, memory
<1> DEFINE c == Codename(p)
<1>1. pc \in [Runs -> Labels] /\ TypeOK /\ c \in Codenames /\ RunBacked(p)
  BY CodenameType DEF TypeInv, TypeOK, PoolInv
<1>2. UNCHANGED <<pool, index, job, rel, batches, work, manifests, kept, todo, late>>
  BY DEF Sign, DeleteReleaseGpg, DeleteInRelease, PutRelease, PutReleaseGpg, PutInRelease,
         reading
<1>3. /\ pc[p] \in ReleaseLabels
      /\ \E label \in {"unlock", "ended"} \cup ReleaseLabels :
           pc' = [pc EXCEPT ![p] = label]
  BY DEF Sign, DeleteReleaseGpg, DeleteInRelease, PutRelease, PutReleaseGpg, PutInRelease,
         ReleaseLabels, Finish
<1>4. work[p] = <<>>
  BY <1>1, <1>3 DEF RunBacked, ReadBacked, ReleaseLabels
<1>5. /\ \A q \in Runs \ {p} : pc'[q] = pc[q]
      /\ pc'[p] \in {"unlock", "ended"} \cup ReleaseLabels
  BY <1>1, <1>3
<1>6. Apart(p) /\ Retreats(p)
  BY <1>2, <1>3, <1>4, <1>5 DEF Apart, Retreats, Committed, ReleaseLabels
<1>7. BodiesStay /\ Announced(p)' = Announced(p)
  BY <1>2, AnnouncedSame DEF BodiesStay
<1>8. \A d \in Codenames : \A r \in Served(d)' :
        r \in Served(d) \/ (d = c /\ r = Rendered(p))
  BY <1>1 DEF Served, Sign, DeleteReleaseGpg, DeleteInRelease, PutRelease, PutReleaseGpg,
              PutInRelease, TypeOK
<1>9. Rendered(p).files = rel[p].files
  BY <1>1 DEF Rendered, TypeOK, Releases
<1>10. \A n \in IndexNames : Publishable(p, PackagesOf(Rendered(p).files[n]))
  BY <1>3, <1>9 DEF Publishable, Announced, Committed
<1>11. QED
  BY <1>2, <1>6, <1>7, <1>8, <1>10, MoveBacked

\* A body that is put replaces none that an entry relies on.
LEMMA PutBodiesStay ==
  ASSUME TypeOK, PoolInv, GuardedUploads, NEW p \in Runs, work[p] # <<>>,
         pc[p] = "packages" \/ late[p] = "packages",
         work[p] \in Packages, ~Refused(p, Head(work[p])),
         pool' = [pool EXCEPT ![Head(work[p]).filename] = Head(work[p]).sum]
  PROVE  BodiesStay /\ \A e : e = Head(work[p]) => InPool(e)'
<1> DEFINE e == Head(work[p])
<1>1. e \in AllEntries
  BY DEF Packages
<1>2. e.filename \in PoolKeys /\ e.sum # NoObject
  BY <1>1, EntryFacts
<1>3. RunBacked(p)
  BY DEF PoolInv
<1>4. job[p].failIfExists
  BY <1>3 DEF RunBacked, ReadBacked
<1>5. pool[e.filename] \in {NoObject, e.sum}
  BY <1>4 DEF Refused
<1> HIDE DEF e
<1>6. DOMAIN pool = PoolKeys /\ pool' = [pool EXCEPT ![e.filename] = e.sum]
  BY DEF TypeOK, e
<1>7. BodiesStay
  BY <1>5, <1>6 DEF BodiesStay
<1>8. pool'[e.filename] = e.sum
  BY <1>2, <1>6
<1>9. ASSUME NEW f, f = e PROVE InPool(f)'
  BY <1>2, <1>8, <1>9 DEF InPool
<1>10. QED
  BY <1>7, <1>9 DEF e

\* No command of the instance sweeps the pool.
LEMMA WorkType ==
  ASSUME TypeInv, GuardedUploads, NEW p \in Runs
  PROVE  /\ work[p] \in Packages /\ job[p] \in Jobs /\ job[p].op # "clean"
         /\ pc[p] \notin {"list", "scan", "sweep"}
<1>1. TypeOK /\ RunOK(p) /\ job[p] \in Jobs
  BY JobType DEF TypeInv, RunsOK
<1>2. job[p].op # "clean"
  BY <1>1 DEF GuardedUploads
<1>3. pc[p] \notin {"list", "scan", "sweep"}
  BY <1>1, <1>2 DEF RunOK
<1>4. IF pc[p] = "sweep" THEN work[p] \in Seq(PoolKeys)
                         ELSE job[p].op = "clean" \/ work[p] \in Packages
  BY <1>1 DEF TypeOK
<1>5. QED
  BY <1>1, <1>2, <1>3, <1>4

\* A sequence is its head and its tail.
LEMMA HeadTail ==
  ASSUME NEW T, NEW seq \in Seq(T), seq # <<>>
  PROVE  ToSet(seq) = {Head(seq)} \cup ToSet(Tail(seq))
<1>1. /\ Len(seq) \in Nat \ {0} /\ DOMAIN seq = 1..Len(seq) /\ Head(seq) = seq[1]
      /\ DOMAIN Tail(seq) = 1..(Len(seq) - 1)
      /\ \A i \in 1..(Len(seq) - 1) : Tail(seq)[i] = seq[i + 1]
  OBVIOUS
<1>2. ASSUME NEW x \in ToSet(seq) PROVE x \in {Head(seq)} \cup ToSet(Tail(seq))
  <2>1. PICK i \in 1..Len(seq) : x = seq[i]
    BY <1>1 DEF ToSet
  <2>2. i # 1 => i - 1 \in 1..(Len(seq) - 1) /\ (i - 1) + 1 = i
    BY <1>1
  <2>3. QED
    BY <1>1, <2>1, <2>2 DEF ToSet
<1>3. ASSUME NEW x \in {Head(seq)} \cup ToSet(Tail(seq)) PROVE x \in ToSet(seq)
  <2>1. CASE x = Head(seq)
    BY <1>1, <2>1 DEF ToSet
  <2>2. CASE x \in ToSet(Tail(seq))
    <3>1. PICK i \in 1..(Len(seq) - 1) : x = seq[i + 1]
      BY <1>1, <2>2 DEF ToSet
    <3>2. i + 1 \in 1..Len(seq)
      BY <1>1
    <3>3. QED
      BY <1>1, <3>1, <3>2 DEF ToSet
  <2>3. QED
    BY <1>3, <2>1, <2>2
<1>4. QED
  BY <1>2, <1>3

\* The next body is put, or refused because another one has its name.
LEMMA PutPackageBacked ==
  ASSUME TypeInv, PoolInv, GuardedUploads, NEW p \in Runs, UNCHANGED <<reading, late>>,
         PutPackage(p)
  PROVE  PoolInv'
<1> USE DEF Goto, reading
<1>1. /\ pc \in [Runs -> Labels] /\ TypeOK /\ RunOK(p) /\ RunBacked(p)
      /\ pc[p] = "packages" /\ work[p] # <<>> /\ work[p] \in Packages
      /\ DOMAIN work = Runs
  BY WorkType DEF TypeInv, TypeOK, RunsOK, PoolInv, PutPackage
<1>2. UNCHANGED <<index, release, releaseGpg, inRelease, job, rel, batches,
                  manifests, kept, todo, late>>
  BY DEF PutPackage
<1>3. \A d \in Codenames : Served(d)' = Served(d)
  BY <1>2 DEF Served
<1>4. Announced(p)' = Announced(p)
  BY <1>2, AnnouncedSame
<1>5. CASE Refused(p, Head(work[p]))
  <2>1. /\ UNCHANGED <<pool, work>>
        /\ \E label \in {"unlock", "ended"} : pc' = [pc EXCEPT ![p] = label]
    BY <1>5 DEF PutPackage, Finish
  <2>2. /\ \A q \in Runs \ {p} : pc'[q] = pc[q]
        /\ pc'[p] \in {"unlock", "ended"}
    BY <1>1, <2>1
  <2>3. Apart(p) /\ Retreats(p) /\ BodiesStay
    BY <1>2, <2>1, <2>2 DEF Apart, Retreats, BodiesStay, Committed, ReleaseLabels
  <2>4. QED
    BY <1>2, <1>3, <1>4, <2>1, <2>3, MoveBacked
<1>6. CASE ~Refused(p, Head(work[p]))
  <2>1. /\ pool' = [pool EXCEPT ![Head(work[p]).filename] = Head(work[p]).sum]
        /\ work' = [work EXCEPT ![p] = Tail(@)] /\ pc' = pc
    BY <1>6 DEF PutPackage
  <2>2. BodiesStay /\ \A e : e = Head(work[p]) => InPool(e)'
    BY <1>1, <1>6, <2>1, PutBodiesStay
  <2>3. work'[p] = Tail(work[p]) /\ \A q \in Runs \ {p} : work'[q] = work[q]
    BY <1>1, <2>1
  <2>4. Apart(p)
    BY <1>2, <2>1, <2>3 DEF Apart
  <2>5. \A e : InPool(e) => InPool(e)'
    BY <2>2, HeldStays
  <2>6. late[p] = "none"
    BY <1>1 DEF RunOK
  <2>7. ReadBacked(p)'
    BY <1>1, <1>2, <2>1, <2>5, <2>6 DEF RunBacked, ReadBacked, Held
  <2>8. PlacesRead(p)'
    BY <1>1, <2>1 DEF PlacesRead
  <2>9. ToSet(work[p]) = {Head(work[p])} \cup ToSet(work'[p])
    BY <1>1, <2>3, HeadTail DEF Packages
  <2>10. AnnouncedBacked(p)'
    <3>1. \A e \in Announced(p) : InPool(e) \/ e \in ToSet(work[p])
      BY <1>1 DEF RunBacked, AnnouncedBacked
    <3>2. \A e \in Announced(p) : InPool(e)' \/ e \in ToSet(work'[p])
      BY <2>2, <2>5, <2>9, <3>1
    <3>3. pc'[p] \notin Committed /\ late'[p] \notin Committed
      BY <1>1, <1>2, <2>1, <2>6 DEF Committed, ReleaseLabels
    <3>4. QED
      BY <1>4, <3>2, <3>3 DEF AnnouncedBacked
  <2>11. RunBacked(p)'
    BY <2>7, <2>8, <2>10 DEF RunBacked
  <2>12. QED
    BY <1>2, <1>3, <2>2, <2>4, <2>11, StepBacked
<1>7. QED
  BY <1>5, <1>6

\* A call that is applied late: the body it puts is one that may be put, and
\* what it publishes was committed when it was sent.
LEMMA LateCallBacked ==
  ASSUME TypeInv, PoolInv, GuardedUploads, NEW p \in Runs, LateCall(p)
  PROVE  PoolInv'
<1> DEFINE c == Codename(p)
           a == Batch(p)[at[p]]
<1>1. /\ RunOK(p) /\ TypeOK /\ c \in Codenames /\ RunBacked(p) /\ work[p] \in Packages
      /\ late \in [Runs -> {"none"} \cup WritingLabels] /\ late[p] \in WritingLabels
      /\ DOMAIN index = Codenames /\ \A d \in Codenames : DOMAIN index[d] = IndexNames
  BY CodenameType, WorkType DEF TypeInv, TypeOK, RunsOK, PoolInv, LateCall
<1>2. /\ UNCHANGED <<pc, job, rel, batches, work, manifests, kept, todo>>
      /\ late' = [late EXCEPT ![p] = "none"]
  BY DEF LateCall, memory, reading
<1>3. late'[p] = "none" /\ \A q \in Runs \ {p} : late'[q] = late[q]
  BY <1>1, <1>2
<1>4. pc[p] \in {"unlock", "ended"}
  BY <1>1 DEF RunOK, WritingLabels
<1>5. Apart(p) /\ Retreats(p)
  BY <1>2, <1>3, <1>4 DEF Apart, Retreats, Committed, ReleaseLabels
<1>6. BodiesStay
  <2>1. CASE late[p] = "packages" /\ work[p] # <<>> /\ ~Refused(p, Head(work[p]))
    <3>1. pool' = [pool EXCEPT ![Head(work[p]).filename] = Head(work[p]).sum]
      BY <2>1 DEF LateCall
    <3>2. QED
      BY <1>1, <2>1, <3>1, PutBodiesStay
  <2>2. CASE ~(late[p] = "packages" /\ work[p] # <<>> /\ ~Refused(p, Head(work[p])))
    BY <2>2 DEF LateCall, BodiesStay
  <2>3. QED
    BY <2>1, <2>2
<1>7. Announced(p)' = Announced(p)
  BY <1>2, AnnouncedSame
<1>8. ASSUME NEW d \in Codenames, NEW n \in IndexNames, index'[d][n] # index[d][n]
      PROVE  Publishable(p, PackagesOf(index'[d][n]))
  <2>1. /\ late[p] = "canonical" /\ ArtifactsLeft(p)
        /\ index' = [index EXCEPT ![c][a.name] = a.body]
    BY <1>8 DEF LateCall
  <2>2. /\ batches[p] # <<>> /\ Batch(p) \in Seq(Artifact)
        /\ at[p] \in DOMAIN Batch(p) /\ Batch(p) = batches[p][1]
        /\ 1 \in DOMAIN batches[p]
    <3>1. batches[p] # <<>> /\ batches[p] \in Seq(Seq(Artifact)) /\ at[p] \in Nat \ {0}
      BY <1>1, <2>1 DEF RunOK, TypeOK
    <3>2. Head(batches[p]) \in Seq(Artifact) /\ Head(batches[p]) = batches[p][1]
            /\ 1 \in DOMAIN batches[p]
      BY <3>1
    <3>3. QED
      BY <2>1, <3>1, <3>2 DEF ArtifactsLeft, Batch
  <2>3. a \in Pending(p)
    BY <2>2 DEF Pending, ToSet
  <2>4. index'[d][n] = a.body
    BY <1>1, <1>8, <2>1
  <2>5. DOMAIN <<>> = {}
    OBVIOUS
  <2>6. ToSet(PackagesOf(a.body)) \subseteq ToSet(a.body)
    BY <2>5 DEF PackagesOf, ToSet
  <2>7. QED
    BY <2>1, <2>3, <2>4, <2>6 DEF Publishable, Announced, Committed
<1>9. ASSUME NEW d \in Codenames, NEW n \in IndexNames, NEW r \in Served(d)'
      PROVE  r \in Served(d) \/ Publishable(p, PackagesOf(r.files[n]))
  <2>1. CASE late[p] \in {"putRelease", "putGpg", "putInRelease"}
    <3>1. /\ \/ release' = release \/ release' = [release EXCEPT ![c] = Rendered(p)]
          /\ \/ releaseGpg' = releaseGpg
             \/ releaseGpg' = [releaseGpg EXCEPT ![c] = Rendered(p)]
          /\ \/ inRelease' = inRelease
             \/ inRelease' = [inRelease EXCEPT ![c] = Rendered(p)]
      BY <2>1 DEF LateCall
    <3>2. r \in Served(d) \/ (d = c /\ r = Rendered(p))
      BY <1>1, <3>1 DEF Served, TypeOK
    <3>3. Rendered(p).files = rel[p].files
      BY <1>1 DEF Rendered, TypeOK, Releases
    <3>4. late[p] \in Committed
      BY <2>1 DEF Committed, ReleaseLabels
    <3>5. QED
      BY <3>2, <3>3, <3>4 DEF Publishable, Announced
  <2>2. CASE late[p] \notin {"putRelease", "putGpg", "putInRelease"}
    <3>1. /\ release' = release
          /\ releaseGpg' \in {releaseGpg, [releaseGpg EXCEPT ![c] = NoObject]}
          /\ inRelease' \in {inRelease, [inRelease EXCEPT ![c] = NoObject]}
      BY <2>2 DEF LateCall
    <3>2. r \in Served(d)
      BY <1>1, <3>1 DEF Served, TypeOK
    <3>3. QED
      BY <3>2
  <2>3. QED
    BY <2>1, <2>2
<1>10. QED
  BY <1>2, <1>5, <1>6, <1>7, <1>8, <1>9, MoveBacked

---------------------------------------------------------------------------
(* Reading *)

\* A step that only reads is fine if the run can rely on what it has read.
LEMMA ReadStepBacked ==
  ASSUME PoolInv, NEW p \in Runs, Apart(p), RunBacked(p)',
         UNCHANGED <<pool, index, release, releaseGpg, inRelease, job>>
  PROVE  PoolInv'
<1>1. BodiesStay
  BY DEF BodiesStay
<1>2. \A c \in Codenames : Served(c)' = Served(c)
  BY DEF Served
<1>3. QED
  BY <1>1, <1>2, StepBacked

\* Nothing that is left of an index is new.
LEMMA KeptOf ==
  ASSUME NEW packages \in Packages, NEW S
  PROVE  ToSet(KeepOnly(packages, S)) \subseteq ToSet(packages)
  BY KeepOnlyFacts DEF Packages

\* What is read under the name of an index is in the pool.
LEMMA IndexHeld ==
  ASSUME PoolInv, NEW c \in Codenames, NEW n \in IndexNames
  PROVE  \A e \in ToSet(PackagesOf(index[c][n])) : InPool(e)
  BY DEF PoolInv, StoreBacked, Held

\* Entries that are copied, or reported by a query, are those of an index.
LEMMA EntriesReadBacked ==
  ASSUME TypeInv, PoolInv, NEW p \in Runs, UNCHANGED late,
         RetrieveSource(p) \/ ListManifest(p) \/ LookUp(p)
  PROVE  PoolInv'
<1> USE DEF Goto, store, memory
<1> DEFINE j == job[p]
           c == IF j.op = "copy" THEN j.source[1] ELSE Codename(p)
           n == CASE j.op = "copy" -> <<j.source[2], j.arch, "Packages">>
                  [] j.op = "list" -> <<j.component, Head(todo[p]), "Packages">>
                  [] OTHER -> <<j.component, j.arch, "Packages">>
           packages == PackagesOf(index[c][n])
<1>1. /\ pc \in [Runs -> Labels] /\ TypeOK /\ RunOK(p) /\ RunBacked(p)
      /\ kept \in [Runs -> Packages] /\ DOMAIN todo = Runs /\ job[p] \in Jobs
  BY JobType DEF TypeInv, TypeOK, RunsOK, PoolInv
<1>2. /\ UNCHANGED <<pool, index, release, releaseGpg, inRelease, job, rel, batches,
                     work, manifests, late>>
      /\ \/ pc' = pc
         \/ \E label \in {"release", "unlock", "ended"} : pc' = [pc EXCEPT ![p] = label]
      /\ \/ todo' = todo
         \/ job[p].op = "list" /\ todo' = [todo EXCEPT ![p] = Tail(@)]
  BY DEF RetrieveSource, ListManifest, LookUp, Finish
<1>3. /\ RetrieveSource(p) => pc[p] = "source" /\ j.op = "copy"
      /\ ListManifest(p) => j.op = "list" /\ todo[p] # <<>> /\ pc[p] = "manifests"
      /\ LookUp(p) => pc[p] = "lookup" /\ j.op \in {"show", "exists"}
  BY <1>1 DEF RetrieveSource, ListManifest, LookUp, RunOK
<1>4. c \in Codenames /\ n \in IndexNames
  <2>1. CASE j.op = "list"
    <3>1. Head(todo[p]) \in Archs
      <4>1. ListManifest(p)
        BY <1>3, <2>1
      <4>2. todo[p] \in Seq(Archs) /\ todo[p] # <<>>
        BY <1>1, <1>3, <2>1, <4>1 DEF RunOK
      <4>3. QED
        BY <4>2
    <3>2. QED
      BY <1>1, <2>1, <3>1, PlainName, CodenameType, JobFacts
  <2>2. CASE j.op # "list"
    <3>1. j.arch \in Archs
      <4>1. j.op \in {"copy", "show", "exists"}
        BY <1>3, <2>2
      <4>2. QED
        BY <1>1, <4>1, JobFacts DEF IsJob
    <3>2. QED
      BY <1>1, <2>2, <3>1, PlainName, CodenameType, JobFacts
  <2>3. QED
    BY <2>1, <2>2
<1>5. /\ \A e \in ToSet(packages) : InPool(e)
      /\ packages \in Packages
  <2> HIDE DEF n, c
  <2>1. \A e \in ToSet(packages) : InPool(e)
    BY <1>1, <1>4, IndexHeld
  <2>2. packages \in Packages
    <3>1. \A x \in Codenames, y \in IndexNames : PackagesOf(index[x][y]) \in Packages
      BY <1>1, IndexType
    <3>2. QED
      BY ONLY <1>4, <3>1, Zenon
  <2>3. QED
    BY <2>1, <2>2
<1>6. \E read : /\ kept' = [kept EXCEPT ![p] = read]
               /\ ToSet(read) \subseteq ToSet(kept[p]) \cup ToSet(packages)
  <2>1. CASE RetrieveSource(p)
    <3>1. kept' = [kept EXCEPT ![p] = Selected(j, packages)]
      BY <1>3, <2>1, Zenon DEF RetrieveSource
    <3>2. ToSet(Selected(j, packages)) \subseteq ToSet(packages)
      <4> HIDE DEF packages
      <4>1. QED
        BY ONLY <1>5, KeptOf, Zenon DEF Selected
    <3>3. QED
      BY <3>1, <3>2
  <2>2. CASE ListManifest(p)
    <3>1. kept' = [kept EXCEPT ![p] = Reported(@, packages)]
      BY <1>3, <2>2 DEF ListManifest
    <3>2. ToSet(Reported(kept[p], packages)) \subseteq ToSet(kept[p]) \cup ToSet(packages)
      <4>1. kept[p] \in Seq(AllEntries) /\ packages \in Seq(AllEntries)
        BY <1>1, <1>5 DEF Packages
      <4> HIDE DEF packages
      <4>2. QED
        BY <4>1, ReportedFacts
    <3>3. QED
      BY <3>1, <3>2
  <2>3. CASE LookUp(p)
    <3> DEFINE found == Selected(j, packages)
    <3>1. kept' = [kept EXCEPT ![p] = IF found = <<>> THEN found ELSE <<Head(found)>>]
      BY <1>3, <2>3, Zenon DEF LookUp
    <3>2. found \in Packages /\ ToSet(found) \subseteq ToSet(packages)
      <4> HIDE DEF packages
      <4>1. QED
        BY ONLY <1>5, KeptOf, SelectedType, Zenon DEF Selected
    <3> HIDE DEF found
    <3>3. found # <<>> => ToSet(<<Head(found)>>) \subseteq ToSet(found)
      <4>1. ASSUME found # <<>> PROVE Head(found) \in ToSet(found)
        BY <3>2, <4>1, HeadTail DEF Packages
      <4>2. ToSet(<<Head(found)>>) = {Head(found)}
        BY DEF ToSet
      <4>3. QED
        BY <4>1, <4>2
    <3>4. QED
      BY <3>1, <3>2, <3>3
  <2>4. QED
    BY <2>1, <2>2, <2>3
<1> HIDE DEF packages, n, c
<1>7. /\ \A e \in ToSet(kept'[p]) : InPool(e)
      /\ \A q \in Runs \ {p} : kept'[q] = kept[q]
  <2>1. \A e \in ToSet(kept[p]) : InPool(e)
    BY <1>1 DEF RunBacked, ReadBacked, Held
  <2>2. QED
    BY <1>1, <1>5, <1>6, <2>1
<1>8. /\ pc'[p] \in {pc[p], "release", "unlock", "ended"}
      /\ \A q \in Runs \ {p} : pc'[q] = pc[q] /\ todo'[q] = todo[q]
  BY <1>1, <1>2
<1>9. Apart(p)
  BY <1>2, <1>7, <1>8 DEF Apart
<1>10. \A e : InPool(e)' <=> InPool(e)
  BY <1>2 DEF InPool
<1>11. work[p] = <<>>
  BY <1>1, <1>3 DEF RunBacked, ReadBacked
<1>12. ReadBacked(p)'
  BY <1>1, <1>2, <1>3, <1>7, <1>8, <1>10, <1>11 DEF RunBacked, ReadBacked, Held
<1>13. PlacesRead(p)'
  BY <1>2, <1>3, <1>8 DEF PlacesRead
<1>14. AnnouncedBacked(p)'
  <2>1. Announced(p)' = Announced(p)
    BY <1>2, AnnouncedSame
  <2>2. AnnouncedBacked(p)
    BY <1>1 DEF RunBacked
  <2>3. pc'[p] \in Committed => pc[p] \in Committed
    BY <1>8 DEF Committed, ReleaseLabels
  <2>4. pc'[p] # "packages"
    BY <1>3, <1>8
  <2>5. QED
    BY <1>2, <1>10, <2>1, <2>2, <2>3, <2>4 DEF AnnouncedBacked
<1>15. RunBacked(p)'
  BY <1>12, <1>13, <1>14 DEF RunBacked
<1>16. QED
  BY <1>2, <1>9, <1>15, ReadStepBacked

\* An upload reads the manifests of its Release and those of all packages that
\* it can place.
LEMMA UploadArchsFacts ==
  ASSUME NEW j \in Jobs, NEW archs \in Seq(Archs)
  PROVE  /\ ToSet(archs) \subseteq ToSet(UploadArchs(j, archs))
         /\ \A d \in ToSet(Placed(j)) : Placement(j, d) \in ToSet(UploadArchs(j, archs))
<1> DEFINE placed == Placed(j)
           places == [i \in DOMAIN placed |-> Placement(j, placed[i])]
<1>1. /\ placed \in Seq(ToSet(j.debs))
      /\ ToSet(placed) = ToSet(j.debs) \cap {x \in ToSet(j.debs) : ~Misplaced(j, x)}
  BY JobFacts, KeepOnlyFacts DEF Placed
<1>2. UploadArchs(j, archs) = ReadArchs(archs, places)
  BY DEF UploadArchs
<1> HIDE DEF placed
<1>3. DOMAIN placed = 1..Len(placed) /\ Len(placed) \in Nat
  BY <1>1
<1>4. ASSUME NEW i \in 1..Len(placed) PROVE Placement(j, placed[i]) \in Archs
  <2>1. placed[i] \in ToSet(j.debs) /\ ~Misplaced(j, placed[i])
    BY <1>1, <1>3 DEF ToSet
  <2>2. QED
    BY <2>1, JobFacts DEF Misplaced, Placement, IsJob
<1>5. places \in Seq(Archs)
  BY <1>3, <1>4
<1>6. \A d \in ToSet(Placed(j)) : Placement(j, d) \in ToSet(places)
  BY DEF placed, ToSet
<1> HIDE DEF places
<1>7. ToSet(archs) \cup ToSet(places) \subseteq ToSet(ReadArchs(archs, places))
  BY <1>5, ReadArchsFacts, StandardArchsType
<1>8. QED
  BY <1>2, <1>6, <1>7

\* The Release that is retrieved lists what is in the pool, or nothing.
LEMMA RetrieveReleaseBacked ==
  ASSUME TypeInv, HashInv, PoolInv, NEW p \in Runs, UNCHANGED late, RetrieveRelease(p)
  PROVE  PoolInv'
<1> DEFINE c == Codename(p)
           r == Retrieved(release[c], job[p].byHash)
<1>1. /\ pc[p] = "release" /\ pc' = [pc EXCEPT ![p] = "manifests"]
      /\ rel' = [rel EXCEPT ![p] = r]
      /\ todo' = [todo EXCEPT ![p] = ArchsToRead(job[p], r.archs)]
      /\ UNCHANGED <<pool, index, release, releaseGpg, inRelease, job, batches, work,
                     manifests, kept, late>>
  BY DEF RetrieveRelease, Goto, store
<1>2. /\ pc \in [Runs -> Labels] /\ rel \in [Runs -> Releases] /\ DOMAIN todo = Runs
      /\ RunHashed(p) /\ RunOK(p) /\ RunBacked(p) /\ c \in Codenames
      /\ release[c] \in {NoObject} \cup Releases /\ job[p] \in Jobs
  BY CodenameType, JobType DEF TypeInv, TypeOK, HashInv, RunsOK, PoolInv
<1>3. \A n \in IndexNames :
        \/ r.files[n] = NoObject
        \/ release[c] \in Served(c) /\ r.files[n] = release[c].files[n]
  <2>1. CASE release[c] = NoObject
    BY <2>1 DEF Retrieved, NewRelease
  <2>2. CASE release[c] # NoObject
    <3>1. release[c] \in Releases /\ release[c] \in Served(c)
      BY <1>2, <2>2 DEF Served
    <3>2. r = release[c] \/ r = [release[c] EXCEPT !.byHash = (job[p].byHash = "on")]
      BY <2>2 DEF Retrieved
    <3>3. r.files = release[c].files
      BY <3>1, <3>2 DEF Releases
    <3>4. QED
      BY <3>1, <3>3
  <2>3. QED
    BY <2>1, <2>2
<1>4. r \in Releases
  BY <1>2, RetrievedType
<1> HIDE DEF r
<1>5. /\ pc'[p] = "manifests" /\ rel'[p] = r
      /\ todo'[p] = ArchsToRead(job[p], r.archs)
      /\ \A q \in Runs \ {p} : pc'[q] = pc[q] /\ rel'[q] = rel[q] /\ todo'[q] = todo[q]
  BY <1>1, <1>2
<1>6. Apart(p)
  BY <1>1, <1>5 DEF Apart
<1>7. DOMAIN <<>> = {}
  OBVIOUS
<1>8. Pending(p)' = {}
  <2>1. batches[p] = <<>>
    BY <1>1, <1>2 DEF RunHashed, Unsettled
  <2>2. QED
    BY <1>1, <1>7, <2>1 DEF Pending
<1>9. \A e : InPool(e)' <=> InPool(e)
  BY <1>1 DEF InPool
<1>10. \A e \in Announced(p)' : InPool(e)
  <2>1. ASSUME NEW n \in IndexNames, NEW e \in ToSet(PackagesOf(r.files[n]))
        PROVE  InPool(e)
    <3>1. CASE r.files[n] = NoObject
      BY <1>7, <2>1, <3>1 DEF PackagesOf, ToSet
    <3>2. CASE r.files[n] # NoObject
      BY <1>2, <1>3, <2>1, <3>2 DEF PoolInv, StoreBacked, Held
    <3>3. QED
      BY <3>1, <3>2
  <2>2. QED
    BY <1>5, <1>8, <2>1 DEF Announced
<1>11. ReadBacked(p)'
  BY <1>1, <1>2, <1>5, <1>9 DEF RunBacked, ReadBacked, Held
<1>12. PlacesRead(p)'
  <2> SUFFICES ASSUME job[p].op = "upload", NEW d \in ToSet(Placed(job[p]))
               PROVE  Placement(job[p], d) \in ToSet(todo'[p])
    BY <1>1 DEF PlacesRead
  <2>1. r.archs \in Seq(Archs)
    BY <1>4 DEF Releases
  <2>2. ArchsToRead(job[p], r.archs) = UploadArchs(job[p], r.archs)
    BY DEF ArchsToRead
  <2>3. QED
    BY <1>2, <1>5, <2>1, <2>2, UploadArchsFacts
<1>13. AnnouncedBacked(p)'
  BY <1>5, <1>9, <1>10 DEF AnnouncedBacked
<1>14. RunBacked(p)'
  BY <1>11, <1>12, <1>13 DEF RunBacked
<1>15. QED
  BY <1>1, <1>6, <1>14, ReadStepBacked

\* A manifest that is read, or what delete leaves of it.
LEMMA RetrieveManifestBacked ==
  ASSUME TypeInv, PoolInv, NEW p \in Runs, UNCHANGED late, RetrieveManifest(p)
  PROVE  PoolInv'
<1> USE DEF Goto, store
<1> DEFINE j == job[p]
           arch == Head(todo[p])
           packages == PackagesOf(index[j.codename][<<j.component, arch, "Packages">>])
           left == IF j.op = "delete"
                   THEN DeletePackage(packages, j.name, j.all, j.versions)
                   ELSE packages
           m == [component |-> j.component, arch |-> arch, packages |-> left]
<1>1. /\ pc \in [Runs -> Labels] /\ TypeOK /\ RunOK(p) /\ RunBacked(p)
      /\ manifests \in [Runs -> Seq(Manifest)] /\ DOMAIN todo = Runs /\ j \in Jobs
      /\ DOMAIN work = Runs
      /\ pc[p] = "manifests" /\ todo[p] # <<>>
  BY JobType DEF TypeInv, TypeOK, RunsOK, PoolInv, RetrieveManifest
<1>2. /\ UNCHANGED <<pool, index, release, releaseGpg, inRelease, job, rel, batches,
                     kept, late>>
      /\ todo' = [todo EXCEPT ![p] = Tail(@)]
      /\ \/ pc' = pc /\ work' = work
         \/ /\ pc' = [pc EXCEPT ![p] = "heads"]
            /\ work' = [work EXCEPT ![p] = packages] /\ j.op = "verify"
      /\ manifests' = [manifests EXCEPT ![p] =
                         IF j.op = "delete" /\ left = packages THEN @ ELSE Append(@, m)]
  BY DEF RetrieveManifest
<1>3. todo[p] \in Seq(Archs)
  <2>1. j.op # "clean"
    BY <1>1 DEF RunOK
  <2>2. QED
    BY <1>1, <2>1 DEF RunOK
<1>4. arch \in Archs
  BY <1>1, <1>3
<1>5. /\ \A e \in ToSet(packages) : InPool(e)
      /\ packages \in Packages
  <2>1. <<j.component, arch, "Packages">> \in IndexNames /\ j.codename \in Codenames
    BY <1>1, <1>4, PlainName, JobFacts
  <2>2. QED
    BY <1>1, <2>1, IndexHeld, IndexType
<1>6. ToSet(left) \subseteq ToSet(packages) /\ left \in Packages
  BY <1>5, KeptOf, KeepOnlyFacts DEF DeletePackage, Packages
<1>7. m \in Manifest /\ m.packages = left /\ m.arch = arch
  BY <1>1, <1>4, <1>6, JobFacts DEF Manifest
<1> HIDE DEF packages, left, m, arch
<1>8. /\ ToSet(manifests'[p]) \subseteq ToSet(manifests[p]) \cup {m}
      /\ j.op = "upload" => ToSet(manifests'[p]) = ToSet(manifests[p]) \cup {m}
      /\ \A q \in Runs \ {p} : manifests'[q] = manifests[q]
  <2>1. ToSet(Append(manifests[p], m)) = ToSet(manifests[p]) \cup {m}
    BY <1>1, AppendRange
  <2>2. \/ manifests'[p] = manifests[p] /\ j.op = "delete"
        \/ manifests'[p] = Append(manifests[p], m)
    BY <1>1, <1>2
  <2>3. QED
    BY <1>1, <1>2, <2>1, <2>2
<1>9. /\ \/ pc'[p] = "manifests" /\ work'[p] = work[p]
         \/ pc'[p] = "heads" /\ work'[p] = packages /\ j.op = "verify"
      /\ \A q \in Runs \ {p} : pc'[q] = pc[q] /\ work'[q] = work[q] /\ todo'[q] = todo[q]
      /\ todo'[p] = Tail(todo[p])
  BY <1>1, <1>2
<1>10. Apart(p)
  BY <1>2, <1>8, <1>9 DEF Apart
<1>11. \A e : InPool(e)' <=> InPool(e)
  BY <1>2 DEF InPool
<1>12. \A x \in ToSet(manifests'[p]) : \A e \in ToSet(x.packages) : InPool(e)
  BY <1>1, <1>5, <1>6, <1>7, <1>8 DEF RunBacked, ReadBacked, Held
<1>13. work[p] = <<>>
  BY <1>1 DEF RunBacked, ReadBacked
<1>14. ReadBacked(p)'
  <2>1. Held(kept[p])
    BY <1>1 DEF RunBacked, ReadBacked
  <2>2. late[p] # "packages"
    BY <1>1 DEF RunOK
  <2>3. QED
    BY <1>2, <1>5, <1>9, <1>11, <1>12, <1>13, <2>1, <2>2 DEF ReadBacked, Held
<1>15. PlacesRead(p)'
  <2> SUFFICES ASSUME j.op = "upload", NEW d \in ToSet(Placed(j))
               PROVE  \/ Placement(j, d) \in ToSet(todo'[p])
                      \/ \E x \in ToSet(manifests'[p]) : x.arch = Placement(j, d)
    BY <1>2 DEF PlacesRead
  <2>1. \/ Placement(j, d) \in ToSet(todo[p])
        \/ \E x \in ToSet(manifests[p]) : x.arch = Placement(j, d)
    BY <1>1 DEF RunBacked, PlacesRead
  <2>2. ToSet(todo[p]) = {arch} \cup ToSet(todo'[p])
    BY <1>1, <1>3, <1>9, HeadTail DEF arch
  <2>3. QED
    BY <1>7, <1>8, <2>1, <2>2
<1>16. AnnouncedBacked(p)'
  <2>1. Announced(p)' = Announced(p)
    BY <1>2, AnnouncedSame
  <2>2. \A e \in Announced(p) : InPool(e)
    BY <1>1 DEF RunBacked, AnnouncedBacked, Committed
  <2>3. QED
    BY <1>9, <1>11, <2>1, <2>2 DEF AnnouncedBacked
<1>17. RunBacked(p)'
  BY <1>14, <1>15, <1>16 DEF RunBacked
<1>18. QED
  BY <1>2, <1>10, <1>17, ReadStepBacked

\* verify takes an entry over to what it retains.
LEMMA HeadPackageBacked ==
  ASSUME TypeInv, PoolInv, GuardedUploads, NEW p \in Runs, UNCHANGED late, HeadPackage(p)
  PROVE  PoolInv'
<1> USE DEF store
<1>1. /\ TypeOK /\ RunOK(p) /\ RunBacked(p) /\ DOMAIN work = Runs
      /\ kept \in [Runs -> Packages] /\ work[p] \in Packages
      /\ pc[p] = "heads" /\ work[p] # <<>>
  BY WorkType DEF TypeInv, TypeOK, RunsOK, PoolInv, HeadPackage
<1>2. /\ UNCHANGED <<pool, index, release, releaseGpg, inRelease, job, rel, batches,
                     pc, manifests, todo, late>>
      /\ work' = [work EXCEPT ![p] = Tail(@)]
      /\ \/ kept' = [kept EXCEPT ![p] = kept[p]]
         \/ kept' = [kept EXCEPT ![p] = Append(kept[p], Head(work[p]))]
  BY <1>1 DEF HeadPackage
<1>3. /\ work'[p] = Tail(work[p])
      /\ kept'[p] = kept[p] \/ kept'[p] = Append(kept[p], Head(work[p]))
      /\ \A q \in Runs \ {p} : work'[q] = work[q] /\ kept'[q] = kept[q]
  BY <1>1, <1>2
<1>4. Apart(p)
  BY <1>2, <1>3 DEF Apart
<1>5. \A e : InPool(e)' <=> InPool(e)
  BY <1>2 DEF InPool
<1>6. ToSet(work[p]) = {Head(work[p])} \cup ToSet(work'[p])
  BY <1>1, <1>3, HeadTail DEF Packages
<1>7. \A e \in ToSet(work[p]) : InPool(e)
  BY <1>1 DEF RunBacked, ReadBacked, Held
<1>8. \A e \in ToSet(kept'[p]) : InPool(e)
  <2>1. ToSet(Append(kept[p], Head(work[p]))) = ToSet(kept[p]) \cup {Head(work[p])}
    <3>1. kept[p] \in Seq(AllEntries)
      BY <1>1 DEF Packages
    <3>2. QED
      BY <3>1, AppendRange
  <2>2. \A e \in ToSet(kept[p]) : InPool(e)
    BY <1>1 DEF RunBacked, ReadBacked, Held
  <2>3. QED
    BY <1>3, <1>6, <1>7, <2>1, <2>2
<1>9. ReadBacked(p)'
  <2>1. late[p] # "packages"
    BY <1>1 DEF RunOK
  <2>2. \A m \in ToSet(manifests[p]) : Held(m.packages)
    BY <1>1 DEF RunBacked, ReadBacked
  <2>3. QED
    BY <1>1, <1>2, <1>5, <1>6, <1>7, <1>8, <2>1, <2>2 DEF ReadBacked, Held
<1>10. PlacesRead(p)'
  BY <1>1, <1>2 DEF PlacesRead
<1>11. AnnouncedBacked(p)'
  <2>1. Announced(p)' = Announced(p)
    BY <1>2, AnnouncedSame
  <2>2. QED
    BY <1>1, <1>2, <1>5, <2>1 DEF RunBacked, AnnouncedBacked
<1>12. RunBacked(p)'
  BY <1>9, <1>10, <1>11 DEF RunBacked
<1>13. QED
  BY <1>2, <1>4, <1>12, ReadStepBacked

\* The retained entries replace those of the manifest.
LEMMA HeadsDoneBacked ==
  ASSUME TypeInv, PoolInv, NEW p \in Runs, UNCHANGED late, HeadsDone(p)
  PROVE  PoolInv'
<1> USE DEF store, memory, Goto
<1> DEFINE ms == manifests[p]
           m == [Last(ms) EXCEPT !.packages = kept[p]]
<1>1. /\ pc \in [Runs -> Labels] /\ TypeOK /\ RunOK(p) /\ RunBacked(p)
      /\ kept \in [Runs -> Packages] /\ manifests \in [Runs -> Seq(Manifest)]
      /\ pc[p] = "heads" /\ work[p] = <<>> /\ job[p].op = "verify"
      /\ manifests[p] # <<>>
  BY DEF TypeInv, TypeOK, RunsOK, RunOK, PoolInv, HeadsDone
<1>2. /\ UNCHANGED <<pool, index, release, releaseGpg, inRelease, job, rel, batches,
                     work, todo, late>>
      /\ kept' = [kept EXCEPT ![p] = <<>>]
      /\ pc' = [pc EXCEPT ![p] = "manifests"]
      /\ \/ manifests' = [manifests EXCEPT ![p] = Front(ms)]
         \/ manifests' = [manifests EXCEPT ![p] = Append(Front(ms), m)]
  BY DEF HeadsDone
<1>3. /\ Front(ms) \in Seq(Manifest) /\ ToSet(Front(ms)) \subseteq ToSet(ms)
      /\ Last(ms) \in Manifest
  <2>1. ms \in Seq(Manifest) /\ Len(ms) \in Nat \ {0} /\ DOMAIN ms = 1..Len(ms)
    BY <1>1
  <2>2. /\ Front(ms) \in Seq(Manifest) /\ Last(ms) \in Manifest
        /\ DOMAIN Front(ms) = 1..(Len(ms) - 1)
        /\ \A i \in 1..(Len(ms) - 1) : Front(ms)[i] = ms[i]
    BY <2>1 DEF Front, Last
  <2> HIDE DEF ms
  <2>3. \A i \in 1..(Len(ms) - 1) : i \in DOMAIN ms
    BY <2>1
  <2>4. QED
    BY <2>2, <2>3 DEF ToSet
<1>4. m.packages = kept[p]
  BY <1>3 DEF Manifest
<1> HIDE DEF m
<1>5. ToSet(Append(Front(ms), m)) = ToSet(Front(ms)) \cup {m}
  BY <1>3, AppendRange
<1> HIDE DEF ms
<1>6. /\ ToSet(manifests'[p]) \subseteq ToSet(ms) \cup {m} /\ kept'[p] = <<>>
      /\ pc'[p] = "manifests"
      /\ \A q \in Runs \ {p} :
           pc'[q] = pc[q] /\ kept'[q] = kept[q] /\ manifests'[q] = manifests[q]
  BY <1>1, <1>2, <1>3, <1>5
<1>7. Apart(p)
  BY <1>2, <1>6 DEF Apart
<1>8. \A e : InPool(e)' <=> InPool(e)
  BY <1>2 DEF InPool
<1>9. \A x \in ToSet(manifests'[p]) : \A e \in ToSet(x.packages) : InPool(e)
  BY <1>1, <1>4, <1>6 DEF RunBacked, ReadBacked, Held, ms
<1>10. ToSet(kept'[p]) = {}
  <2>1. DOMAIN <<>> = {}
    OBVIOUS
  <2>2. QED
    BY <1>6, <2>1 DEF ToSet
<1>11. ReadBacked(p)'
  BY <1>1, <1>2, <1>6, <1>8, <1>9, <1>10 DEF ReadBacked, Held
<1>12. PlacesRead(p)'
  BY <1>1, <1>2 DEF PlacesRead
<1>13. AnnouncedBacked(p)'
  <2>1. Announced(p)' = Announced(p)
    BY <1>2, AnnouncedSame
  <2>2. \A e \in Announced(p) : InPool(e)
    BY <1>1 DEF RunBacked, AnnouncedBacked, Committed
  <2>3. QED
    BY <1>6, <1>8, <2>1, <2>2 DEF AnnouncedBacked
<1>14. RunBacked(p)'
  BY <1>11, <1>12, <1>13 DEF RunBacked
<1>15. QED
  BY <1>2, <1>7, <1>14, ReadStepBacked

---------------------------------------------------------------------------
(* Deciding *)

\* The entries of an upload for an architecture are those of its packages
\* placed there.
LEMMA EntriesRange ==
  ASSUME NEW j \in Jobs, NEW arch
  PROVE  ToSet(Entries(j, arch)) =
           {Entry(d, j.codename) : d \in {x \in ToSet(j.debs) : Placement(j, x) = arch}}
<1> DEFINE S == {d \in ToSet(j.debs) : Placement(j, d) = arch}
           debs == KeepOnly(j.debs, S)
<1>1. debs \in Seq(ToSet(j.debs)) /\ ToSet(debs) = ToSet(j.debs) \cap S
  BY JobFacts, KeepOnlyFacts
<1>2. Entries(j, arch) = [i \in DOMAIN debs |-> Entry(debs[i], j.codename)]
  BY DEF Entries
<1>3. ToSet(debs) = S
  BY <1>1
<1> HIDE DEF debs, S
<1>4. ToSet(Entries(j, arch)) = {Entry(d, j.codename) : d \in ToSet(debs)}
  BY <1>2 DEF ToSet
<1>5. QED
  BY <1>3, <1>4 DEF S

\* A manifest gets the entries for its architecture and those for "all".
LEMMA AddedFacts ==
  ASSUME NEW j \in Jobs, NEW m \in Manifest
  PROVE  ToSet(Added(j, m).packages) \subseteq
           ToSet(m.packages) \cup ToSet(Entries(j, m.arch)) \cup ToSet(Entries(j, "all"))
<1> DEFINE own == Entries(j, m.arch)
           everywhere == IF m.arch = "all" THEN <<>> ELSE Entries(j, "all")
           new == own \o everywhere
<1>1. /\ own \in Seq(AllEntries) /\ everywhere \in Seq(AllEntries)
      /\ m.packages \in Seq(AllEntries)
  BY EntriesType DEF Manifest, Packages
<1>2. Added(j, m) = AddAll(m.packages, new, j.preserve, j.failIfExists)
  BY DEF Added
<1>3. ToSet(everywhere) \subseteq ToSet(Entries(j, "all"))
  <2>1. DOMAIN <<>> = {}
    OBVIOUS
  <2>2. QED
    BY <2>1 DEF ToSet
<1> HIDE DEF own, everywhere
<1>4. new \in Seq(AllEntries) /\ ToSet(new) = ToSet(own) \cup ToSet(everywhere)
  BY <1>1, ConcatRange
<1> HIDE DEF new
<1>5. ToSet(Added(j, m).packages) \subseteq ToSet(m.packages) \cup ToSet(new)
  BY <1>1, <1>2, <1>4, AddAllRange
<1>6. QED
  BY <1>3, <1>4, <1>5 DEF own

\* What an upload adds for the architecture of a manifest, it uploads.
LEMMA UploadsFacts ==
  ASSUME NEW j \in Jobs, ~j.skipUpload, NEW ms \in Seq(Manifest), NEW m \in ToSet(ms)
  PROVE  ToSet(Entries(j, m.arch)) \subseteq ToSet(Uploads(j, ms))
<1> DEFINE seqs == [i \in DOMAIN ms |-> Entries(j, ms[i].arch)]
<1>1. DOMAIN ms = 1..Len(ms) /\ Len(ms) \in Nat
  OBVIOUS
<1>2. \A i \in 1..Len(ms) : Entries(j, ms[i].arch) \in Seq(AllEntries)
  BY EntriesType DEF Packages
<1>3. seqs \in Seq(Seq(AllEntries))
  BY <1>1, <1>2
<1>4. PICK i \in DOMAIN ms : m = ms[i]
  BY DEF ToSet
<1>5. i \in DOMAIN seqs /\ seqs[i] = Entries(j, m.arch)
  BY <1>4
<1>6. Uploads(j, ms) = FlattenSeq(seqs)
  BY DEF Uploads
<1> HIDE DEF seqs
<1>7. ToSet(FlattenSeq(seqs)) = UNION {ToSet(seqs[k]) : k \in DOMAIN seqs}
  BY <1>3, FlattenFacts
<1>8. QED
  BY <1>5, <1>6, <1>7

\* The bodies of an upload go to the pool of its codename.
LEMMA UploadsPool ==
  ASSUME NEW j \in Jobs, NEW ms \in Seq(Manifest)
  PROVE  \A e \in ToSet(Uploads(j, ms)) : e.filename[1] = j.codename
<1>1. CASE j.skipUpload
  <2>1. ToSet(<<>>) = {}
    BY DEF ToSet
  <2>2. QED
    BY <1>1, <2>1 DEF Uploads
<1>2. CASE ~j.skipUpload
  <2> DEFINE seqs == [i \in DOMAIN ms |-> Entries(j, ms[i].arch)]
  <2>1. seqs \in Seq(Packages)
    <3>1. DOMAIN ms = 1..Len(ms) /\ Len(ms) \in Nat
      OBVIOUS
    <3>2. \A i \in 1..Len(ms) : seqs[i] \in Packages
      BY <3>1, EntriesType
    <3>3. seqs = [i \in 1..Len(ms) |-> seqs[i]]
      BY <3>1
    <3> HIDE DEF seqs
    <3>4. QED
      BY <3>1, <3>2, <3>3, SequenceType
  <2>2. Uploads(j, ms) = FlattenSeq(seqs)
    BY <1>2 DEF Uploads
  <2>3. \A i \in DOMAIN seqs : \A e \in ToSet(seqs[i]) : e.filename[1] = j.codename
    BY EntriesRange DEF Entry
  <2> HIDE DEF seqs
  <2>4. ToSet(FlattenSeq(seqs)) = UNION {ToSet(seqs[i]) : i \in DOMAIN seqs}
    BY <2>1, FlattenFacts DEF Packages
  <2>5. QED
    BY <2>2, <2>3, <2>4
<1>3. QED
  BY <1>1, <1>2

\* The empty manifests that enter a Release are empty.
LEMMA MissingManifestsFacts ==
  ASSUME NEW r \in Releases, NEW m \in ToSet(MissingManifests(r))
  PROVE  /\ m.packages = <<>>
         /\ r.files[<<m.component, m.arch, "Packages">>] = NoObject
<1> DEFINE empty == [i \in DOMAIN r.components |->
                       [k \in DOMAIN StandardArchs |->
                          [component |-> r.components[i],
                           arch      |-> StandardArchs[k],
                           packages  |-> <<>>]]]
           candidates == FlattenSeq(empty)
           S == {x \in ToSet(candidates) :
                   /\ Contains(r.archs, x.arch)
                   /\ r.files[<<x.component, x.arch, "Packages">>] = NoObject}
           Empty == {x \in Manifest : x.packages = <<>>}
<1>1. r.components \in Seq(Components) /\ StandardArchs \in Seq(Archs)
  BY StandardArchsType DEF Releases
<1>2. \A i \in DOMAIN r.components, k \in DOMAIN StandardArchs :
        [component |-> r.components[i], arch |-> StandardArchs[k],
         packages  |-> <<>>] \in Empty
  BY <1>1 DEF Manifest, Packages
<1>3. /\ DOMAIN r.components = 1..Len(r.components) /\ Len(r.components) \in Nat
      /\ DOMAIN StandardArchs = 1..Len(StandardArchs) /\ Len(StandardArchs) \in Nat
  BY <1>1
<1> HIDE DEF Empty
<1>4. empty \in Seq(Seq(Empty))
  <2>1. \A i \in 1..Len(r.components) : empty[i] \in Seq(Empty)
    BY <1>2, <1>3
  <2>2. empty = [i \in 1..Len(r.components) |-> empty[i]]
    BY <1>3
  <2> HIDE DEF empty
  <2>3. QED
    BY <1>3, <2>1, <2>2, SequenceType
<1>5. MissingManifests(r) = KeepOnly(candidates, S)
  BY DEF MissingManifests
<1> HIDE DEF empty
<1>6. candidates \in Seq(Empty)
  BY <1>4, FlattenFacts
<1>7. \A x \in S : r.files[<<x.component, x.arch, "Packages">>] = NoObject
  OBVIOUS
<1> HIDE DEF S, candidates
<1>8. /\ KeepOnly(candidates, S) \in Seq(Empty)
      /\ ToSet(KeepOnly(candidates, S)) = ToSet(candidates) \cap S
  BY <1>6, KeepOnlyFacts
<1>9. m \in Empty /\ m \in S
  BY <1>5, <1>8 DEF ToSet
<1>10. QED
  BY <1>7, <1>9 DEF Empty

\* What a run puts into the manifests is what it has read, or what it uploads.
Brings(p, changed, uploads) ==
  /\ \A m \in ToSet(changed) : \A e \in ToSet(m.packages) :
       \/ \E x \in ToSet(manifests[p]) : e \in ToSet(x.packages)
       \/ job[p].op = "copy" /\ e \in ToSet(kept[p])
       \/ e \in ToSet(uploads)
  /\ \A e \in ToSet(uploads) : e.filename[1] = Codename(p)
  /\ uploads # <<>> => job[p].op = "upload"

\* The packages of an upload that is not refused: for each manifest they enter,
\* "all" packages included, their bodies are uploaded.
LEMMA UploadBrings ==
  ASSUME TypeOK, NEW p \in Runs, Decide(p, "upload"), PlacesRead(p), ~job[p].skipUpload,
         \A i \in DOMAIN job[p].debs : ~Misplaced(job[p], job[p].debs[i]),
         NEW m \in ToSet(manifests[p])
  PROVE  ToSet(Added(job[p], m).packages)
           \subseteq ToSet(m.packages) \cup ToSet(Uploads(job[p], manifests[p]))
<1> DEFINE j == job[p]
           ms == manifests[p]
<1>1. /\ j \in Jobs /\ ms \in Seq(Manifest) /\ m \in Manifest
      /\ pc[p] = "manifests" /\ todo[p] = <<>> /\ j.op = "upload"
  <2>1. j \in Jobs /\ ms \in Seq(Manifest)
    BY JobType DEF TypeOK
  <2>2. m \in Manifest
    BY <2>1 DEF ToSet
  <2>3. pc[p] = "manifests" /\ todo[p] = <<>> /\ j.op = "upload"
    BY DEF Decide
  <2>4. QED
    BY <2>1, <2>2, <2>3
<1>2. \A x \in ToSet(ms) : ToSet(Entries(j, x.arch)) \subseteq ToSet(Uploads(j, ms))
  BY <1>1, UploadsFacts
<1>3. ASSUME NEW e \in ToSet(Entries(j, "all"))
      PROVE  e \in ToSet(Uploads(j, ms))
  <2>1. PICK d \in ToSet(j.debs) : Placement(j, d) = "all"
    BY <1>1, <1>3, EntriesRange
  <2>2. d \in ToSet(Placed(j))
    <3>1. ~Misplaced(j, d)
      BY DEF ToSet
    <3>2. ToSet(Placed(j)) = ToSet(j.debs) \cap {x \in ToSet(j.debs) : ~Misplaced(j, x)}
      BY <1>1, JobFacts, KeepOnlyFacts DEF Placed
    <3>3. QED
      BY <3>1, <3>2
  <2>3. ToSet(todo[p]) = {}
    <3>1. DOMAIN <<>> = {}
      OBVIOUS
    <3>2. QED
      BY <1>1, <3>1 DEF ToSet
  <2>4. PICK x \in ToSet(ms) : x.arch = "all"
    BY <1>1, <2>1, <2>2, <2>3 DEF PlacesRead
  <2>5. QED
    BY <1>2, <2>4
<1>4. ToSet(Added(j, m).packages) \subseteq
        ToSet(m.packages) \cup ToSet(Entries(j, m.arch)) \cup ToSet(Entries(j, "all"))
  BY <1>1, AddedFacts
<1>5. QED
  BY <1>2, <1>3, <1>4

\* Every decision publishes what its run has read, or uploads.
LEMMA DecidesBring ==
  ASSUME TypeInv, NEW p \in Runs, PlacesRead(p),
         job[p].op = "upload" => ~job[p].skipUpload,
         DecideUpload(p) \/ DecideCopy(p) \/ DecideDelete(p) \/ DecideVerify(p)
  PROVE  \E op : /\ Decide(p, op)
                 /\ \/ \E changed \in Seq(Manifest), uploads \in Packages :
                         Prepare(p, changed, uploads) /\ Brings(p, changed, uploads)
                    \/ job[p].op = "verify" /\ PrepareRelease(p)
                    \/ \E how \in {"ok", "error"} : Nothing(p, how)
<1>0. TypeOK /\ RunOK(p)
  BY DEF TypeInv, RunsOK
<1>1. job[p] \in Jobs /\ manifests[p] \in Seq(Manifest) /\ kept[p] \in Packages
  BY <1>0, JobType DEF TypeOK
<1>2. <<>> \in Packages /\ ToSet(<<>>) = {} /\ Brings(p, manifests[p], <<>>)
  <2>1. <<>> \in Packages /\ ToSet(<<>>) = {}
    BY DEF Packages, ToSet
  <2>2. QED
    BY <2>1 DEF Brings
<1>3. CASE DecideUpload(p)
  <2> DEFINE j == job[p]
             ms == manifests[p]
             added == [i \in DOMAIN ms |-> Added(j, ms[i])]
             changed == [i \in DOMAIN ms |->
                           [ms[i] EXCEPT !.packages = added[i].packages]]
             uploads == Uploads(j, ms)
  <2>1. /\ Decide(p, "upload")
        /\ \/ Nothing(p, "error")
           \/ /\ Prepare(p, changed, uploads)
              /\ \A i \in DOMAIN j.debs : ~Misplaced(j, j.debs[i])
    BY <1>3 DEF DecideUpload
  <2>2. DOMAIN ms = 1..Len(ms) /\ Len(ms) \in Nat
            /\ \A i \in 1..Len(ms) : ms[i] \in Manifest /\ ms[i] \in ToSet(ms)
    BY <1>1 DEF ToSet
  <2>3. ASSUME NEW i \in 1..Len(ms)
        PROVE  changed[i] \in Manifest /\ changed[i].packages = Added(j, ms[i]).packages
    <3>1. ms[i] \in Manifest /\ added[i] = Added(j, ms[i])
      BY <2>2
    <3>2. added[i].packages \in Packages
      BY <1>1, <3>1, AddedType
    <3>3. changed[i] = [ms[i] EXCEPT !.packages = added[i].packages]
      BY <2>2
    <3> HIDE DEF changed, added
    <3>4. QED
      BY <3>1, <3>2, <3>3 DEF Manifest
  <2>4. changed \in Seq(Manifest) /\ DOMAIN changed = 1..Len(ms)
    <3>1. changed = [i \in 1..Len(ms) |-> changed[i]]
      BY <2>2
    <3> HIDE DEF changed
    <3>2. QED
      BY <2>2, <2>3, <3>1, SequenceType
  <2>5. uploads \in Packages
    BY <1>1, UploadsType
  <2>6. j.op = "upload" /\ ~j.skipUpload
    BY <2>1 DEF Decide
  <2> HIDE DEF changed
  <2>7. ASSUME Prepare(p, changed, uploads),
               \A i \in DOMAIN j.debs : ~Misplaced(j, j.debs[i])
        PROVE  Brings(p, changed, uploads)
    <3>1. \A m \in ToSet(ms) : ToSet(Added(j, m).packages)
                                 \subseteq ToSet(m.packages) \cup ToSet(uploads)
      BY <1>0, <2>1, <2>6, <2>7, UploadBrings
    <3>2. ASSUME NEW x \in ToSet(changed)
          PROVE  \E m \in ToSet(ms) : x.packages = Added(j, m).packages
      <4>1. PICK i \in 1..Len(ms) : x = changed[i]
        BY <2>4 DEF ToSet
      <4>2. QED
        BY <2>2, <2>3, <4>1
    <3> HIDE DEF j, ms, uploads
    <3>3. \A x \in ToSet(changed) : \A e \in ToSet(x.packages) :
            (\E m \in ToSet(ms) : e \in ToSet(m.packages)) \/ e \in ToSet(uploads)
      BY <3>1, <3>2
    <3>4. QED
      BY <1>1, <2>6, <3>3, UploadsPool DEF Brings, Codename, j, ms, uploads
  <2> HIDE DEF ms, uploads
  <2>8. QED
    BY <2>1, <2>4, <2>5, <2>7
<1>4. CASE DecideCopy(p)
  <2> DEFINE j == job[p]
             m == manifests[p][1]
             added == AddAll(m.packages, kept[p], j.preserve, j.failIfExists)
             copied == [m EXCEPT !.packages = added.packages]
  <2>1. Decide(p, "copy")
    BY <1>4 DEF DecideCopy
  <2>2. m \in Manifest /\ m \in ToSet(manifests[p])
    <3>1. Len(todo[p]) + Len(manifests[p]) = 1 /\ todo[p] = <<>>
      BY <1>0, <2>1 DEF Decide, RunOK
    <3>2. Len(todo[p]) = 0
      BY <3>1
    <3>3. 1 \in DOMAIN manifests[p]
      BY <1>1, <3>1, <3>2
    <3>4. QED
      BY <1>1, <3>3 DEF ToSet
  <2>3. /\ added.packages \in Packages
        /\ ToSet(added.packages) \subseteq ToSet(m.packages) \cup ToSet(kept[p])
    <3>1. m.packages \in Packages
      BY <2>2 DEF Manifest
    <3>2. /\ added.packages \in Seq(AllEntries)
          /\ ToSet(added.packages) \subseteq ToSet(m.packages) \cup ToSet(kept[p])
      BY <1>1, <3>1, AddAllRange DEF Packages
    <3>3. QED
      BY <3>2 DEF Packages
  <2>4. Nothing(p, "error") \/ Prepare(p, <<copied>>, <<>>)
    BY <1>4 DEF DecideCopy
  <2> HIDE DEF m, added
  <2>5. copied \in Manifest /\ copied.packages = added.packages
    BY <2>2, <2>3 DEF Manifest
  <2> HIDE DEF copied
  <2>6. <<copied>> \in Seq(Manifest) /\ Brings(p, <<copied>>, <<>>)
    <3>1. ToSet(<<copied>>) = {copied}
      BY DEF ToSet
    <3>2. QED
      BY <1>2, <2>1, <2>2, <2>3, <2>5, <3>1 DEF Brings, Decide
  <2>7. QED
    BY <1>2, <2>1, <2>4, <2>6
<1>5. CASE DecideDelete(p)
  <2>1. Decide(p, "delete") /\ (Nothing(p, "error") \/ Prepare(p, manifests[p], <<>>))
    BY <1>5 DEF DecideDelete
  <2>2. QED
    BY <1>1, <1>2, <2>1
<1>6. CASE DecideVerify(p)
  <2>1. /\ Decide(p, "verify")
        /\ Nothing(p, "ok") \/ Prepare(p, manifests[p], <<>>) \/ PrepareRelease(p)
    BY <1>6 DEF DecideVerify
  <2>2. job[p].op = "verify"
    BY <2>1 DEF Decide
  <2>3. QED
    BY <1>1, <1>2, <2>1, <2>2
<1>7. QED
  BY <1>3, <1>4, <1>5, <1>6

\* What a decision puts into the manifests has its body in the pool or is about
\* to be uploaded, by a command that does not overwrite.
Sourced(p, changed, uploads) ==
  /\ \A m \in ToSet(changed) :
       \A e \in ToSet(m.packages) : InPool(e) \/ e \in ToSet(uploads)
  /\ uploads # <<>> => job[p].failIfExists

\* Every decision publishes entries that are in the pool or about to be.
LEMMA DecidesSourced ==
  ASSUME TypeInv, PoolInv, GuardedUploads, NEW p \in Runs,
         DecideUpload(p) \/ DecideCopy(p) \/ DecideDelete(p) \/ DecideVerify(p)
  PROVE  \E op : /\ Decide(p, op)
                 /\ \/ \E changed \in Seq(Manifest), uploads \in Packages :
                         Prepare(p, changed, uploads) /\ Sourced(p, changed, uploads)
                    \/ PrepareRelease(p)
                    \/ \E how \in {"ok", "error"} : Nothing(p, how)
<1>1. RunBacked(p) /\ job[p] \in Jobs
  BY JobType DEF TypeInv, PoolInv
<1>2. job[p].op = "upload" => job[p].failIfExists /\ ~job[p].skipUpload
  BY <1>1 DEF GuardedUploads
<1>3. \A changed, uploads : Brings(p, changed, uploads) => Sourced(p, changed, uploads)
  BY <1>1, <1>2 DEF Brings, Sourced, RunBacked, ReadBacked, Held
<1>4. QED
  BY <1>1, <1>2, <1>3, DecidesBring DEF RunBacked

\* What a decision publishes: the changed manifests, and empty ones.
LEMMA PreparedBodies ==
  ASSUME TypeOK, NEW p \in Runs, NEW changed \in Seq(Manifest), NEW uploads,
         Prepare(p, changed, uploads)
  PROVE  \A a \in Pending(p)' :
           a.body = <<>> \/ \E m \in ToSet(changed) : a.body = m.packages
<1> DEFINE updated == UpdateManifests(rel[p], changed)
           missing == MissingManifests(updated)
<1>1. rel[p] \in Releases /\ DOMAIN batches = Runs
  BY DEF TypeOK
<1>2. updated \in Releases
  BY <1>1, UpdateManifestsType
<1> HIDE DEF updated
<1>3. missing \in Seq(Manifest) /\ \A m \in ToSet(missing) : m.packages = <<>>
  BY <1>2, MissingManifestsType, MissingManifestsFacts
<1>4. batches'[p] = <<Artifacts(changed \o missing)>>
  BY <1>1 DEF Prepare, updated
<1>5. Pending(p)' = ToSet(Artifacts(changed \o missing))
  BY <1>4 DEF Pending
<1> HIDE DEF missing
<1>6. changed \o missing \in Seq(Manifest)
      /\ ToSet(changed \o missing) = ToSet(changed) \cup ToSet(missing)
  BY <1>3, ConcatRange
<1>7. \A a \in ToSet(Artifacts(changed \o missing)) :
        \E m \in ToSet(changed \o missing) : a.body = m.packages
  BY <1>6, ArtifactsFacts
<1>8. QED
  BY <1>3, <1>5, <1>6, <1>7

\* Release.Publish alone publishes empty manifests.
LEMMA PreparedReleaseBodies ==
  ASSUME TypeOK, NEW p \in Runs, PrepareRelease(p)
  PROVE  \A a \in Pending(p)' : a.body = <<>>
<1> DEFINE missing == MissingManifests(rel[p])
<1>1. rel[p] \in Releases /\ DOMAIN batches = Runs
  BY DEF TypeOK
<1>2. missing \in Seq(Manifest) /\ \A m \in ToSet(missing) : m.packages = <<>>
  BY <1>1, MissingManifestsType, MissingManifestsFacts
<1>3. batches'[p] = [i \in DOMAIN missing |-> Artifacts(<<missing[i]>>)]
  BY <1>1 DEF PrepareRelease
<1> HIDE DEF missing
<1> SUFFICES ASSUME NEW a \in Pending(p)' PROVE a.body = <<>>
  OBVIOUS
<1>4. PICK i \in DOMAIN missing : a \in ToSet(Artifacts(<<missing[i]>>))
  BY <1>3 DEF Pending
<1>5. /\ <<missing[i]>> \in Seq(Manifest) /\ ToSet(<<missing[i]>>) = {missing[i]}
      /\ missing[i] \in ToSet(missing)
  BY <1>2 DEF ToSet
<1>6. a.body = missing[i].packages
  BY <1>4, <1>5, ArtifactsFacts
<1>7. QED
  BY <1>2, <1>5, <1>6

\* A run that has decided relies on what it is about to upload.
LEMMA PreparedBacked ==
  ASSUME TypeInv, PoolInv, NEW p \in Runs, NEW op, Decide(p, op), UNCHANGED late,
         NEW uploads, uploads # <<>> => job[p].failIfExists,
         Publishes(rel[p], rel'[p], Pending(p)'),
         \A a \in Pending(p)' : \A e \in ToSet(a.body) : InPool(e) \/ e \in ToSet(uploads),
         pc' = [pc EXCEPT ![p] = "packages"], work'[p] = uploads,
         \A q \in Runs \ {p} : work'[q] = work[q] /\ rel'[q] = rel[q]
                                 /\ batches'[q] = batches[q]
  PROVE  PoolInv'
<1> USE DEF store
<1>1. /\ TypeOK /\ RunOK(p) /\ RunBacked(p) /\ pc \in [Runs -> Labels]
      /\ DOMAIN manifests = Runs /\ DOMAIN kept = Runs
  BY DEF TypeInv, TypeOK, RunsOK, PoolInv
<1>2. /\ pc[p] = "manifests" /\ late[p] = "none"
      /\ manifests' = [manifests EXCEPT ![p] = <<>>]
      /\ kept' = [kept EXCEPT ![p] = <<>>]
      /\ UNCHANGED <<pool, index, release, releaseGpg, inRelease, job, todo, late>>
  BY <1>1 DEF Decide, RunOK
<1>3. /\ pc'[p] = "packages" /\ manifests'[p] = <<>> /\ kept'[p] = <<>>
      /\ \A q \in Runs \ {p} :
           pc'[q] = pc[q] /\ manifests'[q] = manifests[q] /\ kept'[q] = kept[q]
  BY <1>1, <1>2
<1>4. Apart(p)
  BY <1>2, <1>3 DEF Apart
<1>5. \A e : InPool(e)' <=> InPool(e)
  BY <1>2 DEF InPool
<1>6. ToSet(<<>>) = {}
  <2>1. DOMAIN <<>> = {}
    OBVIOUS
  <2>2. QED
    BY <2>1 DEF ToSet
<1>7. ReadBacked(p)'
  BY <1>2, <1>3, <1>6 DEF ReadBacked, Held
<1>8. PlacesRead(p)'
  BY <1>3 DEF PlacesRead
<1>9. ASSUME NEW n \in IndexNames, NEW e \in ToSet(PackagesOf(rel'[p].files[n]))
      PROVE  InPool(e) \/ e \in ToSet(uploads)
  <2> DEFINE a == [name |-> n, body |-> rel'[p].files[n]]
  <2>1. rel'[p].files[n] = rel[p].files[n] \/ a \in Pending(p)'
    BY DEF Publishes
  <2>2. CASE rel'[p].files[n] = rel[p].files[n]
    <3>1. e \in Announced(p)
      BY <1>9, <2>2 DEF Announced
    <3>2. QED
      BY <1>1, <1>2, <3>1 DEF RunBacked, AnnouncedBacked, Committed
  <2>3. CASE a \in Pending(p)'
    <3>1. a.body = rel'[p].files[n]
      OBVIOUS
    <3>2. e \in ToSet(rel'[p].files[n])
      BY <1>6, <1>9 DEF PackagesOf
    <3> HIDE DEF a
    <3>3. QED
      BY <2>3, <3>1, <3>2
  <2>4. QED
    BY <2>1, <2>2, <2>3
<1>10. \A e \in Announced(p)' : InPool(e) \/ e \in ToSet(uploads)
  BY <1>9 DEF Announced
<1>11. AnnouncedBacked(p)'
  <2>1. pc'[p] \notin Committed /\ late'[p] \notin Committed
    BY <1>2, <1>3 DEF Committed, ReleaseLabels
  <2>2. QED
    BY <1>5, <1>10, <2>1 DEF AnnouncedBacked
<1>12. RunBacked(p)'
  BY <1>7, <1>8, <1>11 DEF RunBacked
<1>13. QED
  BY <1>2, <1>4, <1>12, ReadStepBacked

\* A command that has nothing to do relies on nothing.
LEMMA NothingBacked ==
  ASSUME TypeInv, PoolInv, NEW p \in Runs, NEW op, Decide(p, op), UNCHANGED late,
         NEW how, Nothing(p, how)
  PROVE  PoolInv'
<1> USE DEF store
<1>1. /\ TypeOK /\ RunOK(p) /\ RunBacked(p) /\ pc \in [Runs -> Labels]
      /\ DOMAIN manifests = Runs /\ DOMAIN kept = Runs
  BY DEF TypeInv, TypeOK, RunsOK, PoolInv
<1>2. /\ pc[p] = "manifests" /\ late[p] = "none"
      /\ manifests' = [manifests EXCEPT ![p] = <<>>]
      /\ kept' = [kept EXCEPT ![p] = <<>>]
      /\ UNCHANGED <<pool, index, release, releaseGpg, inRelease, job, todo, late,
                     rel, batches, work>>
      /\ \E label \in {"unlock", "ended"} : pc' = [pc EXCEPT ![p] = label]
  BY <1>1 DEF Decide, RunOK, Nothing, Finish, Goto
<1>3. /\ pc'[p] \in {"unlock", "ended"} /\ manifests'[p] = <<>> /\ kept'[p] = <<>>
      /\ \A q \in Runs \ {p} :
           pc'[q] = pc[q] /\ manifests'[q] = manifests[q] /\ kept'[q] = kept[q]
  BY <1>1, <1>2
<1>4. Apart(p)
  BY <1>2, <1>3 DEF Apart
<1>5. ToSet(<<>>) = {}
  <2>1. DOMAIN <<>> = {}
    OBVIOUS
  <2>2. QED
    BY <2>1 DEF ToSet
<1>6. ReadBacked(p)'
  BY <1>2, <1>3, <1>5 DEF ReadBacked, Held
<1>7. PlacesRead(p)'
  BY <1>3 DEF PlacesRead
<1>8. AnnouncedBacked(p)'
  BY <1>2, <1>3 DEF AnnouncedBacked, Committed, ReleaseLabels
<1>9. RunBacked(p)'
  BY <1>6, <1>7, <1>8 DEF RunBacked
<1>10. QED
  BY <1>2, <1>4, <1>9, ReadStepBacked

\* The decisions of the commands.
LEMMA DecideBacked ==
  ASSUME TypeInv, PoolInv, GuardedUploads, NEW p \in Runs, UNCHANGED late,
         DecideUpload(p) \/ DecideCopy(p) \/ DecideDelete(p) \/ DecideVerify(p)
  PROVE  PoolInv'
<1>1. TypeOK /\ RunBacked(p) /\ DOMAIN work = Runs /\ DOMAIN rel = Runs
        /\ DOMAIN batches = Runs
  BY DEF TypeInv, TypeOK, PoolInv
<1>2. PICK op : /\ Decide(p, op)
                /\ \/ \E changed \in Seq(Manifest), uploads \in Packages :
                        Prepare(p, changed, uploads) /\ Sourced(p, changed, uploads)
                   \/ PrepareRelease(p)
                   \/ \E how \in {"ok", "error"} : Nothing(p, how)
  BY DecidesSourced
<1>3. ToSet(<<>>) = {}
  <2>1. DOMAIN <<>> = {}
    OBVIOUS
  <2>2. QED
    BY <2>1 DEF ToSet
<1>4. ASSUME NEW changed \in Seq(Manifest), NEW uploads \in Packages,
             Prepare(p, changed, uploads), Sourced(p, changed, uploads)
      PROVE  PoolInv'
  <2>1. Publishes(rel[p], rel'[p], Pending(p)')
    BY <1>1, <1>4, PreparePublishes
  <2>2. \A a \in Pending(p)' :
          a.body = <<>> \/ \E m \in ToSet(changed) : a.body = m.packages
    BY <1>1, <1>4, PreparedBodies
  <2>3. \A a \in Pending(p)' : \A e \in ToSet(a.body) : InPool(e) \/ e \in ToSet(uploads)
    BY <1>3, <1>4, <2>2 DEF Sourced
  <2>4. /\ pc' = [pc EXCEPT ![p] = "packages"] /\ work'[p] = uploads
        /\ \A q \in Runs \ {p} : work'[q] = work[q] /\ rel'[q] = rel[q]
                                   /\ batches'[q] = batches[q]
    BY <1>1, <1>4 DEF Prepare, Goto
  <2>5. uploads # <<>> => job[p].failIfExists
    BY <1>4 DEF Sourced
  <2>6. QED
    BY <1>2, <2>1, <2>3, <2>4, <2>5, PreparedBacked
<1>5. ASSUME PrepareRelease(p) PROVE PoolInv'
  <2>1. Publishes(rel[p], rel'[p], Pending(p)')
    BY <1>1, <1>5, PrepareReleasePublishes
  <2>2. \A a \in Pending(p)' : a.body = <<>>
    BY <1>1, <1>5, PreparedReleaseBodies
  <2>3. pc[p] = "manifests"
    BY <1>2 DEF Decide
  <2>4. /\ pc' = [pc EXCEPT ![p] = "packages"] /\ work'[p] = <<>>
        /\ \A q \in Runs \ {p} : work'[q] = work[q] /\ rel'[q] = rel[q]
                                   /\ batches'[q] = batches[q]
    <3>1. work[p] = <<>>
      BY <1>1, <2>3 DEF RunBacked, ReadBacked
    <3>2. QED
      BY <1>1, <1>5, <3>1 DEF PrepareRelease, Goto
  <2>5. \A a \in Pending(p)' : \A e \in ToSet(a.body) : InPool(e) \/ e \in ToSet(<<>>)
    BY <1>3, <2>2
  <2>6. QED
    BY <1>2, <2>1, <2>4, <2>5, PreparedBacked
<1>6. QED
  BY <1>2, <1>4, <1>5, NothingBacked

---------------------------------------------------------------------------
(* The invariant holds of every reachable state *)

\* Steps in which no run takes part.
LEMMA IdleBacked ==
  ASSUME PoolInv, UNCHANGED <<pool, index, release, releaseGpg, inRelease, pc, job,
                              rel, batches, work, manifests, todo, kept, late>>
  PROVE  PoolInv'
<1>1. \A e : InPool(e)' <=> InPool(e)
  BY DEF InPool
<1>2. StoreBacked'
  BY <1>1 DEF PoolInv, StoreBacked, Held, Served
<1>3. ASSUME NEW p \in Runs PROVE RunBacked(p)'
  <2>1. Announced(p)' = Announced(p)
    BY AnnouncedSame
  <2>2. RunBacked(p)
    BY DEF PoolInv
  <2>3. ReadBacked(p)'
    BY <1>1, <2>2 DEF RunBacked, ReadBacked, Held
  <2>4. PlacesRead(p)'
    BY <2>2 DEF RunBacked, PlacesRead
  <2>5. AnnouncedBacked(p)'
    BY <1>1, <2>1, <2>2 DEF RunBacked, AnnouncedBacked
  <2>6. QED
    BY <2>3, <2>4, <2>5 DEF RunBacked
<1>4. QED
  BY <1>2, <1>3 DEF PoolInv

\* At first nothing is stored or announced.
LEMMA InitBacked == Init => PoolInv
<1> SUFFICES ASSUME Init PROVE PoolInv
  OBVIOUS
<1>1. DOMAIN <<>> = {}
  OBVIOUS
<1>2. ToSet(<<>>) = {} /\ ToSet(PackagesOf(NoObject)) = {}
  BY <1>1 DEF ToSet, PackagesOf
<1>3. StoreBacked
  BY <1>2 DEF Init, StoreBacked, Held, Served
<1>4. ASSUME NEW p \in Runs PROVE RunBacked(p)
  <2>1. /\ pc[p] = "start" /\ batches[p] = <<>> /\ late[p] = "none" /\ work[p] = <<>>
        /\ manifests[p] = <<>> /\ kept[p] = <<>>
    BY DEF Init
  <2>2. QED
    BY <1>2, <2>1 DEF RunBacked, ReadBacked, PlacesRead, AnnouncedBacked, Held,
                      Committed, ReleaseLabels
<1>5. QED
  BY <1>3, <1>4 DEF PoolInv

\* Every step keeps the invariant.
LEMMA NextBacked ==
  GuardedUploads /\ TypeInv /\ HashInv /\ PoolInv /\ [Next]_vars => PoolInv'
<1> SUFFICES ASSUME GuardedUploads, TypeInv, HashInv, PoolInv, [Next]_vars PROVE PoolInv'
  OBVIOUS
<1>1. ASSUME NEW p \in Runs, Proceed(p) PROVE PoolInv'
  <2>1. UNCHANGED late
    BY <1>1 DEF Proceed
  <2>2. CASE Start(p) \/ TakeLock(p) \/ Unlock(p) \/ Answer(p) \/ SweepDone(p)
    BY <2>1, <2>2, EndingsBacked
  <2>3. CASE RetrieveSource(p) \/ ListManifest(p) \/ LookUp(p)
    BY <2>1, <2>3, EntriesReadBacked
  <2>4. CASE RetrieveRelease(p)
    BY <2>1, <2>4, RetrieveReleaseBacked
  <2>5. CASE RetrieveManifest(p)
    BY <2>1, <2>5, RetrieveManifestBacked
  <2>6. CASE HeadPackage(p) \/ HeadsDone(p)
    BY <2>1, <2>6, HeadPackageBacked, HeadsDoneBacked
  <2>7. CASE DecideUpload(p) \/ DecideCopy(p) \/ DecideDelete(p) \/ DecideVerify(p)
    BY <2>1, <2>7, DecideBacked
  <2>8. CASE UNCHANGED reading /\ PutPackage(p)
    BY <2>1, <2>8, PutPackageBacked
  <2>9. CASE /\ UNCHANGED reading
             /\ \/ PackagesDone(p) \/ PutByHash(p) \/ ByHashDone(p)
                \/ PutCanonical(p) \/ CanonicalDone(p)
    BY <2>1, <2>9, IndexesBacked
  <2>10. CASE /\ UNCHANGED reading
              /\ \/ Sign(p) \/ DeleteReleaseGpg(p) \/ DeleteInRelease(p)
                 \/ PutRelease(p) \/ PutReleaseGpg(p) \/ PutInRelease(p)
    BY <2>1, <2>10, ReleaseBacked
  <2>11. ~(ListIndexes(p) \/ ScanIndex(p) \/ ListPool(p) \/ DeletePoolObject(p))
    BY WorkType DEF ListIndexes, ScanIndex, ListPool, DeletePoolObject
  <2>12. QED
    BY <1>1, <2>2, <2>3, <2>4, <2>5, <2>6, <2>7, <2>8, <2>9, <2>10, <2>11
       DEF Proceed, Publish
<1>2. ASSUME NEW p \in Runs, Disturb(p) PROVE PoolInv'
  BY <1>2, EndingsBacked DEF Disturb
<1>3. ASSUME NEW c \in Codenames, BreakLock(c) PROVE PoolInv'
  BY <1>3, IdleBacked DEF BreakLock, memory, reading
<1>4. CASE UNCHANGED vars
  BY <1>4, IdleBacked DEF vars, store, memory, reading
<1>5. QED
  BY <1>1, <1>2, <1>3, <1>4, LateCallBacked DEF Next, Terminated

\* PoolInv holds of every reachable state.
LEMMA PoolInvHolds == ASSUME GuardedUploads PROVE Spec => []PoolInv
<1>1. Init => TypeInv /\ HashInv /\ PoolInv
  BY InitType, InitHashed, InitBacked
<1>2. TypeInv /\ HashInv /\ PoolInv /\ [Next]_vars => (TypeInv /\ HashInv /\ PoolInv)'
  BY NextType, NextHashed, NextBacked
<1>3. QED
  BY <1>1, <1>2, PTL DEF Spec

\* An entry that has its body can be retrieved.
LEMMA HeldRetrievable ==
  ASSUME NEW c, NEW packages, packages # NoObject, Held(PackagesOf(packages))
  PROVE  \A e \in ToSet(packages) : Retrievable(c, e)
  BY DEF Held, PackagesOf, InPool, Retrievable

\* A client that follows a served Release finds every body it lists, with the
\* checksum it lists: metadata_publish.go and Upload put bodies before indexes
\* and indexes before the Release, and that order is enough, with or without
\* the lock, as long as no command sweeps the pool or replaces bodies.
THEOREM ListedPackagesHeld ==
  ASSUME GuardedUploads PROVE Spec => []ListedPackagesExist
<1>1. PoolInv => ListedPackagesExist
  BY HeldRetrievable DEF PoolInv, StoreBacked, ListedPackagesExist
<1>2. QED
  BY <1>1, PoolInvHolds, PTL

\* And so does a client that starts at a canonical Packages index.
THEOREM IndexedPackagesHeld ==
  ASSUME GuardedUploads PROVE Spec => []IndexedPackagesExist
<1>1. PoolInv => IndexedPackagesExist
  BY HeldRetrievable DEF PoolInv, StoreBacked, IndexedPackagesExist
<1>2. QED
  BY <1>1, PoolInvHolds, PTL
=============================================================================
