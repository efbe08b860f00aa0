---------------------------- MODULE Publication ----------------------------
(***************************************************************************)
(* The object store of one repository and the publication sequence that    *)
(* upload, copy, delete and verify share: package bodies, then by-hash     *)
(* indexes, then canonical indexes, then the signatures and the Release.   *)
(* One action is one call on the store. A run is one invocation of deb-s3; *)
(* runs interleave between any two of their calls.                         *)
(*                                                                         *)
(* A store Put is one atomic step, as in storage.MemoryStore; the lockfile *)
(* is taken and released in one step each, RepositoryLock has the calls.   *)
(***************************************************************************)
EXTENDS Manifests

CONSTANTS Runs,       \* the invocations of deb-s3
          Codenames,  \* the codenames of the repository
          Files       \* the base names of package files

\* The store.
VARIABLES pool,        \* [pool key -> checksum of the package body]
          byHash,      \* [codename -> [index name -> set of stored contents]]
          index,       \* [codename -> [index name -> canonical contents]]
          release,     \* [codename -> Release]
          releaseGpg,  \* [codename -> the Release that Release.gpg signs]
          inRelease,   \* [codename -> the Release that InRelease holds]
          lockfile     \* [codename -> the run that wrote the lockfile]

\* The runs.
VARIABLES pc,       \* the next call of each run
          job,      \* the command and its options
          outcome,  \* how the run ended
          rel,      \* the Release in memory
          batches,  \* artifacts to publish; each batch by-hash before canonical
          at,       \* the next artifact of the first batch
          work      \* packages to upload or to look up, or pool keys to delete

store == <<pool, byHash, index, release, releaseGpg, inRelease, lockfile>>
memory == <<job, rel, batches, at, work>>

PoolKeys == Codenames \X Files

Goto(p, label) == pc' = [pc EXCEPT ![p] = label]

\* The codename a command changes and locks; for copy its destination.
Codename(p) == job[p].codename

\* withRepositoryLock: a run with --lock goes on to release the lock.
Finish(p, how) ==
  /\ outcome' = [outcome EXCEPT ![p] = how]
  /\ Goto(p, IF job[p].lock THEN "unlock" ELSE "ended")

\* Store.Put of a body with FailIfExists: a conflict when another body is stored
\* under the key; an identical one is success.
Refused(p, entry) ==
  job[p].failIfExists /\ pool[entry.filename] \notin {NoObject, entry.sum}

\* Mutant: a body already in the pool is overwritten whatever the flags say.
PutPackageOver(p) ==
  /\ pc[p] = "packages"
  /\ work[p] # <<>>
  /\ LET e == Head(work[p])
     IN  pool' = [pool EXCEPT ![e.filename] = e.sum]
  /\ work' = [work EXCEPT ![p] = Tail(@)]
  /\ UNCHANGED <<byHash, index, release, releaseGpg, inRelease, lockfile,
                 pc, job, outcome, rel, batches, at>>

\* Manifest.PublishPackages: Put of the next body.
PutPackage(p) ==
  /\ pc[p] = "packages"
  /\ work[p] # <<>>
  /\ LET e == Head(work[p])
     IN  IF Refused(p, e)
         THEN /\ Finish(p, "error")
              /\ UNCHANGED <<pool, work>>
         ELSE /\ pool' = [pool EXCEPT ![e.filename] = e.sum]
              /\ work' = [work EXCEPT ![p] = Tail(@)]
              /\ UNCHANGED <<pc, outcome>>
  /\ UNCHANGED <<byHash, index, release, releaseGpg, inRelease, lockfile,
                 job, rel, batches, at>>

\* Where the publication of indexes ends: Sign, or the removal of signatures.
AfterIndexes(p) == IF job[p].sign THEN "sign" ELSE "deleteGpg"

\* Mutant: the indexes do not wait for the package bodies.
PackagesDoneEarly(p) ==
  /\ pc[p] = "packages"
  /\ Goto(p, IF batches[p] = <<>> THEN AfterIndexes(p) ELSE "byHash")
  /\ UNCHANGED <<store, memory, outcome>>

PackagesDone(p) ==
  /\ pc[p] = "packages"
  /\ work[p] = <<>>
  /\ Goto(p, IF batches[p] = <<>> THEN AfterIndexes(p) ELSE "byHash")
  /\ UNCHANGED <<store, memory, outcome>>

\* The artifacts that are published together.
Batch(p) == Head(batches[p])

\* Mutant: the loop over the artifacts stops one short.
ArtifactsLeftButOne(p) == at[p] < Len(Batch(p))

ArtifactsLeft(p) == at[p] <= Len(Batch(p))

\* Manifest.PublishByHash: the contents under their hash, created once.
PutByHash(p) ==
  /\ pc[p] = "byHash"
  /\ rel[p].byHash
  /\ ArtifactsLeft(p)
  /\ LET a == Batch(p)[at[p]]
     IN  byHash' = [byHash EXCEPT ![Codename(p)][a.name] = @ \cup {a.body}]
  /\ at' = [at EXCEPT ![p] = @ + 1]
  /\ UNCHANGED <<pool, index, release, releaseGpg, inRelease, lockfile,
                 pc, job, outcome, rel, batches, work>>

\* Mutant: canonical names do not wait for all of the by-hash objects.
ByHashDoneEarly(p) ==
  /\ pc[p] = "byHash"
  /\ at' = [at EXCEPT ![p] = 1]
  /\ Goto(p, "canonical")
  /\ UNCHANGED <<store, job, outcome, rel, batches, work>>

\* Mutant: the artifacts are counted from zero.
ByHashDoneAtZero(p) ==
  /\ pc[p] = "byHash"
  /\ ~rel[p].byHash \/ ~ArtifactsLeft(p)
  /\ at' = [at EXCEPT ![p] = 0]
  /\ Goto(p, "canonical")
  /\ UNCHANGED <<store, job, outcome, rel, batches, work>>

ByHashDone(p) ==
  /\ pc[p] = "byHash"
  /\ ~rel[p].byHash \/ ~ArtifactsLeft(p)
  /\ at' = [at EXCEPT ![p] = 1]
  /\ Goto(p, "canonical")
  /\ UNCHANGED <<store, job, outcome, rel, batches, work>>

\* Manifest.PublishCanonical: the contents under their canonical name.
PutCanonical(p) ==
  /\ pc[p] = "canonical"
  /\ ArtifactsLeft(p)
  /\ LET a == Batch(p)[at[p]]
     IN  index' = [index EXCEPT ![Codename(p)][a.name] = a.body]
  /\ at' = [at EXCEPT ![p] = @ + 1]
  /\ UNCHANGED <<pool, byHash, release, releaseGpg, inRelease, lockfile,
                 pc, job, outcome, rel, batches, work>>

\* Mutant: the batch that was published is not taken off the list.
CanonicalDoneAgain(p) ==
  /\ pc[p] = "canonical"
  /\ ~ArtifactsLeft(p)
  /\ at' = [at EXCEPT ![p] = 1]
  /\ Goto(p, IF batches[p] = <<>> THEN AfterIndexes(p) ELSE "byHash")
  /\ UNCHANGED <<store, job, outcome, rel, batches, work>>

CanonicalDone(p) ==
  /\ pc[p] = "canonical"
  /\ ~ArtifactsLeft(p)
  /\ batches' = [batches EXCEPT ![p] = Tail(@)]
  /\ at' = [at EXCEPT ![p] = 1]
  /\ Goto(p, IF batches'[p] = <<>> THEN AfterIndexes(p) ELSE "byHash")
  /\ UNCHANGED <<store, job, outcome, rel, work>>

---------------------------------------------------------------------------
(* Release.Publish *)

\* Render and Signer.Sign; both signatures exist before Release is stored.
Sign(p) ==
  /\ pc[p] = "sign"
  /\ Goto(p, "putRelease")
  /\ UNCHANGED <<store, memory, outcome>>

\* gpg fails, or its output does not verify.
SignFails(p) ==
  /\ pc[p] = "sign"
  /\ Finish(p, "unsigned")
  /\ UNCHANGED <<store, memory>>

\* Mutant: a stale InRelease is left in place.
DeleteReleaseGpgOnly(p) ==
  /\ pc[p] = "deleteGpg"
  /\ releaseGpg' = [releaseGpg EXCEPT ![Codename(p)] = NoObject]
  /\ Goto(p, "putRelease")
  /\ UNCHANGED <<pool, byHash, index, release, inRelease, lockfile, memory, outcome>>

\* Without a signer the stale signatures go first, Release.gpg before InRelease.
DeleteReleaseGpg(p) ==
  /\ pc[p] = "deleteGpg"
  /\ releaseGpg' = [releaseGpg EXCEPT ![Codename(p)] = NoObject]
  /\ Goto(p, "deleteInRelease")
  /\ UNCHANGED <<pool, byHash, index, release, inRelease, lockfile, memory, outcome>>

DeleteInRelease(p) ==
  /\ pc[p] = "deleteInRelease"
  /\ inRelease' = [inRelease EXCEPT ![Codename(p)] = NoObject]
  /\ Goto(p, "putRelease")
  /\ UNCHANGED <<pool, byHash, index, release, releaseGpg, lockfile, memory, outcome>>

\* What Render wrote: the Release in memory, dated by this run.
Rendered(p) == [rel[p] EXCEPT !.date = p]

PutRelease(p) ==
  /\ pc[p] = "putRelease"
  /\ release' = [release EXCEPT ![Codename(p)] = Rendered(p)]
  /\ IF job[p].sign
     THEN Goto(p, "putGpg") /\ UNCHANGED outcome
     ELSE Finish(p, "ok")
  /\ UNCHANGED <<pool, byHash, index, releaseGpg, inRelease, lockfile, memory>>

PutReleaseGpg(p) ==
  /\ pc[p] = "putGpg"
  /\ releaseGpg' = [releaseGpg EXCEPT ![Codename(p)] = Rendered(p)]
  /\ Goto(p, "putInRelease")
  /\ UNCHANGED <<pool, byHash, index, release, inRelease, lockfile, memory, outcome>>

PutInRelease(p) ==
  /\ pc[p] = "putInRelease"
  /\ inRelease' = [inRelease EXCEPT ![Codename(p)] = Rendered(p)]
  /\ Finish(p, "ok")
  /\ UNCHANGED <<pool, byHash, index, release, releaseGpg, lockfile, memory>>

Publish(p) ==
  \/ PutPackage(p) \/ PackagesDone(p)
  \/ PutByHash(p) \/ ByHashDone(p)
  \/ PutCanonical(p) \/ CanonicalDone(p)
  \/ Sign(p)
  \/ DeleteReleaseGpg(p) \/ DeleteInRelease(p)
  \/ PutRelease(p) \/ PutReleaseGpg(p) \/ PutInRelease(p)
=============================================================================
