------------------------ MODULE RepositoryProperties ------------------------
(***************************************************************************)
(* What deb-s3 owes the clients and the maintainers of a repository. The   *)
(* clients read InRelease (or Release and Release.gpg), then the indexes   *)
(* it lists, then package bodies, at any time and under no lock.           *)
(***************************************************************************)
EXTENDS Repository

Jobs == UNION {JobsOf[p] : p \in Runs}

AllEntries ==
  {Entry(d, c) : d \in UNION {ToSet(j.debs) : j \in Jobs}, c \in Codenames}

Packages == Seq(AllEntries)

Releases ==
  [components : Seq(Components), archs : Seq(Archs), byHash : BOOLEAN,
   files : [IndexNames -> {NoObject} \cup Packages], date : {NoObject} \cup Runs]

\* Neither an index nor a Release is taken for an object that does not exist.
ASSUME ObjectsAssumption == NoObject \notin Packages \cup Releases

Manifest == [component : Components, arch : Archs, packages : Packages]

Artifact == [name : IndexNames, body : Packages]

TypeOK ==
  /\ pool \in [PoolKeys -> {NoObject} \cup {e.sum : e \in AllEntries}]
  /\ DOMAIN byHash = Codenames
  /\ \A c \in Codenames :
       /\ DOMAIN byHash[c] = IndexNames
       /\ \A n \in IndexNames : \A body \in byHash[c][n] : body \in Packages
  /\ index \in [Codenames -> [IndexNames -> {NoObject} \cup Packages]]
  /\ release \in [Codenames -> {NoObject} \cup Releases]
  /\ releaseGpg \in [Codenames -> {NoObject} \cup Releases]
  /\ inRelease \in [Codenames -> {NoObject} \cup Releases]
  /\ lockfile \in [Codenames -> {NoObject} \cup Runs]
  /\ pc \in [Runs -> Labels]
  /\ outcome \in [Runs -> Outcomes]
  /\ \A p \in Runs : job[p] \in JobsOf[p]
  /\ rel \in [Runs -> Releases]
  /\ batches \in [Runs -> Seq(Seq(Artifact))]
  /\ at \in [Runs -> Nat \ {0}]
  /\ DOMAIN todo = Runs /\ DOMAIN work = Runs
  /\ \A p \in Runs : IF pc[p] = "sweep" THEN work[p] \in Seq(PoolKeys)
                                        ELSE job[p].op = "clean" \/ work[p] \in Packages
  /\ manifests \in [Runs -> Seq(Manifest)]
  /\ kept \in [Runs -> Packages]
  /\ refs \in [Runs -> SUBSET PoolKeys]
  /\ late \in [Runs -> {"none"} \cup WritingLabels]

---------------------------------------------------------------------------
(* The lock *)

\* A run with --lock works on its codename only while the lockfile in the
\* store is its own: from Acquire to Release no other run takes the lock, and
\* the operator only removes what ended runs left.
WorksUnderLock ==
  \A p \in Runs :
    job[p].lock /\ pc[p] \notin {"start", "lock", "ended"}
      => lockfile[Codename(p)] = p

\* Every command that is started ends: the runs ahead of it release the lock,
\* give up waiting, or die and have their lock removed.
EveryRunEnds == \A p \in Runs : pc[p] = "lock" ~> pc[p] = "ended"

---------------------------------------------------------------------------
(* What clients see *)

\* The Releases a client may hold: whatever Release and InRelease contain.
Served(c) == {release[c], inRelease[c], releaseGpg[c]} \ {NoObject}

\* Some run writes the indexes of the component without by-hash objects.
WrittenPlainly(component) ==
  \E q \in Runs : /\ ~rel[q].byHash
                  /\ job[q].byHash # "on"
                  /\ component \in {job[q].component} \cup ToSet(rel[q].components)

\* "Immutable by-hash objects always precede canonical index names across the
\* complete update" (metadata_publish.go): in a component that every run
\* publishes by hash, the contents of every canonical index are stored under
\* their hash. With or without locks, whatever fails, dies or is applied late.
CanonicalByHash ==
  \A c \in Codenames, n \in IndexNames :
    index[c][n] \in byHash[c][n] \cup {NoObject} \/ WrittenPlainly(n[1])

\* So a client that follows Acquire-By-Hash from any Release it may hold finds
\* every index that Release lists, even while others publish.
ServedByHash ==
  \A c \in Codenames, n \in IndexNames : \A r \in Served(c) :
    r.files[n] \in byHash[c][n] \cup {NoObject} \/ WrittenPlainly(n[1])

\* The body of an entry is in the pool with the checksum the entry lists.
Retrievable(c, entry) == pool[entry.filename] = entry.sum

\* A client that follows a served Release through its indexes finds every
\* package body it lists, with the checksum it lists: bodies are uploaded
\* before the indexes and removed only after the Release stopped listing them.
ListedPackagesExist ==
  \A c \in Codenames, n \in IndexNames :
    \A r \in Served(c) :
      r.files[n] = NoObject \/ \A e \in ToSet(r.files[n]) : Retrievable(c, e)

\* Every entry of a canonical Packages index has its body in the pool: clean
\* deletes nothing that an index still lists, whatever ran before it and
\* however it ended.
IndexedPackagesExist ==
  \A c \in Codenames, n \in IndexNames :
    n[3] = "Packages" /\ index[c][n] # NoObject
      => \A e \in ToSet(index[c][n]) : Retrievable(c, e)

\* The signatures describe the Release beside them or are absent: always when
\* it was published without --sign, and once its publication succeeded when it
\* was published with it. A signed publication alone has a window in between.
SignaturesMatch ==
  \A c \in Codenames :
    release[c] # NoObject =>
      LET writer == release[c].date
      IN  ~job[writer].sign \/ outcome[writer] = "ok"
            => {releaseGpg[c], inRelease[c]} \subseteq {NoObject, release[c]}

\* While nobody holds the lock, the Release lists exactly what the canonical
\* indexes contain, plain and compressed, if every publication succeeded.
ReleaseMatchesIndexes ==
  \A c \in Codenames :
    lockfile[c] = NoObject /\ release[c] # NoObject
      => release[c].files = index[c]

\* Commands that take the lock of their codename, and do not fail, are atomic:
\* what the Release lists changes as if each command ran alone, at the moment
\* its Release is stored, on what was listed just before.
Atomic ==
  INSTANCE AtomicRepository WITH
    listed <- [c \in Codenames |->
                 IF release[c] = NoObject
                 THEN [n \in IndexNames |-> NoObject] ELSE release[c].files],
    jobs <- job,
    committed <- {p \in Runs : outcome[p] = "ok" \/ pc[p] \in {"putGpg", "putInRelease"}}

ImplementsAtomic == Atomic!Spec

---------------------------------------------------------------------------
(* What maintainers rely on *)

\* Under the lock, an upload that succeeded leaves its component coherent: what
\* the Release lists is what the indexes contain, plain and compressed alike,
\* and every body is there; even when runs before it died in the middle of
\* their publication and clean swept the pool by the plain indexes they left.
UploadHeals ==
  \A p \in Runs :
    pc[p] = "unlock" /\ outcome[p] = "ok" /\ job[p].op = "upload" =>
      LET c == Codename(p)
      IN  \A n \in {m \in IndexNames : m[1] = job[p].component} :
            release[c].files[n] # NoObject =>
              /\ release[c].files[n] = index[c][n]
              /\ \A e \in ToSet(index[c][n]) : Retrievable(c, e)

\* Whether something else may take the package out of the indexes or replace it
\* there: another run, or another package of the same upload. An entry that was
\* uploaded without its body is what verify --fix-manifests takes out.
Retracted(p, d) ==
  \/ \E q \in Runs \ {p} :
       \/ job[q].op \in {"delete", "copy"} /\ job[q].name = d.name
       \/ job[q].op = "upload" /\ \E other \in ToSet(job[q].debs) : other.name = d.name
       \/ job[q].op = "verify" /\ job[q].fix /\ job[p].skipUpload
  \/ \E other \in ToSet(job[p].debs) \ {d} : other.name = d.name

\* An upload that succeeded is not undone by anything that happens later,
\* concurrently or in a run that failed: unless another run deletes or
\* replaces the package, or takes out an entry that never had a body, the
\* indexes and the Release go on listing it.
AcknowledgedUploads ==
  \A p \in Runs :
    outcome[p] = "ok" /\ job[p].op = "upload" =>
      \A d \in ToSet(job[p].debs) : \A form \in ToSet(Forms) :
        LET n == <<job[p].component, Placement(job[p], d), form>>
            e == Entry(d, Codename(p))
        IN  \/ Retracted(p, d)
            \/ /\ e \in ToSet(index[Codename(p)][n])
               /\ e \in ToSet(release[Codename(p)].files[n])

\* Whether the query asks for the package: by its name and version, or for all
\* of its architecture.
AsksFor(query, upload, d) ==
  /\ query.codename = upload.codename
  /\ query.component = upload.component
  /\ \/ query.op = "list" /\ query.arch \in {"", Placement(upload, d)}
     \/ /\ query.op \in {"show", "exists"}
        /\ query.arch = Placement(upload, d)
        /\ query.name = d.name
        /\ d.version \in query.versions

\* list, show and exists take no lock and read index after index while others
\* publish; still, a query that was started after an upload succeeded reports
\* its package, and reports it once.
QueriesSeeAcknowledged ==
  \A q \in Runs : \A p \in Before[q] :
    /\ outcome[p] = "ok" /\ job[p].op = "upload"
    /\ outcome[q] \in {"ok", "notFound"}
    => \A d \in ToSet(job[p].debs) :
         AsksFor(job[q], job[p], d) /\ ~Retracted(p, d) =>
           \E i \in DOMAIN kept[q] :
             {k \in DOMAIN kept[q] : kept[q][k] = Entry(d, Codename(p))} = {i}

\* docs/SIGNING.md: "If signing or verification fails, nothing new is
\* published", so no index lists a package of an upload that could not sign.
UnsignedUploadPublishesNothing ==
  \A p \in Runs :
    outcome[p] = "unsigned" /\ job[p].op = "upload" =>
      \A n \in IndexNames :
        LET stored == index[Codename(p)][n]
        IN  stored = NoObject \/
              {Entry(d, Codename(p)) : d \in ToSet(job[p].debs)} \cap ToSet(stored) = {}
=============================================================================
