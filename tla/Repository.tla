----------------------------- MODULE Repository -----------------------------
(***************************************************************************)
(* The commands of deb-s3, each as a run of single calls on the shared     *)
(* object store: upload, copy, delete, verify and clean, under the         *)
(* advisory lock of one codename or without it, and the queries list, show *)
(* and exists, which read what the others write.                           *)
(*                                                                         *)
(* What a run computes between two calls (parsing, Manifest.Add, the       *)
(* choice of what to write) touches no shared state, so it is part of the  *)
(* step that follows the last read.                                        *)
(***************************************************************************)
EXTENDS Publication, Commands

CONSTANTS JobsOf,  \* [run -> the commands it may be]
          Before,  \* [run -> the runs that have ended before it is started]
          Faults   \* the failures that may happen

\* A command as the command line accepts it.
IsJob(j) ==
  /\ j.op \in {"upload", "copy", "delete", "verify", "clean",
               "list", "show", "exists"}
  /\ j.codename \in Codenames /\ j.component \in Components
  /\ j.source \in Codenames \X Components
  /\ j.arch \in Archs \cup {""}
  /\ j.op \in {"copy", "delete", "show", "exists"} => j.arch # ""
  /\ j.op = "upload" => j.debs # <<>>
  /\ j.op \in {"show", "exists"} => ~j.all /\ \E v \in j.versions : j.versions = {v}
  /\ j.debs \in Seq(ToSet(j.debs))
  /\ \A d \in ToSet(j.debs) :
       d.file \in Files /\ d.arch \in Archs \cup {""} /\ d.sum # NoObject
  /\ j.byHash \in {"on", "off", "unset"}

ASSUME RepositoryAssumption ==
  /\ NoObject \notin Runs
  /\ Before \in [Runs -> SUBSET Runs]
  /\ Faults \subseteq {"store", "sign", "crash", "timeout", "late"}
  /\ \A p \in Runs : \A j \in JobsOf[p] : IsJob(j)
  /\ StandardArchs \in Seq(Archs) /\ "" \notin Archs
  /\ \A S \in {Codenames, Components, Archs, Files} : IsFiniteSet(S)

VARIABLES manifests,  \* the manifests in memory
          todo,       \* the architectures or indexes still to read
          kept,       \* the entries copy selected, verify retains, or a
                      \* query reports
          refs,       \* the pool keys that clean found referenced
          late        \* the call that may yet be applied although its run
                      \* was told that it failed, or is gone

reading == <<manifests, todo, kept, refs>>
vars == <<store, pc, outcome, memory, reading, late>>

Outcomes == {"none", "ok", "error", "notFound", "unsigned", "gaveUp", "crashed"}

Labels == {"start", "lock", "source", "release", "manifests", "heads",
           "packages", "byHash", "canonical", "sign", "deleteGpg",
           "deleteInRelease", "putRelease", "putGpg", "putInRelease",
           "list", "scan", "sweep", "lookup", "unlock", "ended"}

\* The labels of publication whose call changes the store.
WritingLabels == {"packages", "byHash", "canonical", "deleteGpg",
                  "deleteInRelease", "putRelease", "putGpg", "putInRelease"}

Init ==
  /\ pool = [k \in PoolKeys |-> NoObject]
  /\ byHash = [c \in Codenames |-> [n \in IndexNames |-> {}]]
  /\ index = [c \in Codenames |-> [n \in IndexNames |-> NoObject]]
  /\ release = [c \in Codenames |-> NoObject]
  /\ releaseGpg = [c \in Codenames |-> NoObject]
  /\ inRelease = [c \in Codenames |-> NoObject]
  /\ lockfile = [c \in Codenames |-> NoObject]
  /\ job \in {j \in [Runs -> UNION {JobsOf[p] : p \in Runs}] :
                \A p \in Runs : j[p] \in JobsOf[p]}
  /\ pc = [p \in Runs |-> "start"]
  /\ outcome = [p \in Runs |-> "none"]
  /\ rel = [p \in Runs |-> NewRelease(FALSE)]
  /\ batches = [p \in Runs |-> <<>>]
  /\ at = [p \in Runs |-> 1]
  /\ work = [p \in Runs |-> <<>>]
  /\ manifests = [p \in Runs |-> <<>>]
  /\ todo = [p \in Runs |-> <<>>]
  /\ kept = [p \in Runs |-> <<>>]
  /\ refs = [p \in Runs |-> {}]
  /\ late = [p \in Runs |-> "none"]

---------------------------------------------------------------------------
(* withRepositoryLock *)

FirstRead(p) ==
  CASE job[p].op = "copy"  -> "source"
    [] job[p].op = "clean" -> "list"
    [] job[p].op \in {"show", "exists"} -> "lookup"
    [] OTHER               -> "release"

\* The command is started; without --lock it begins to work at once.
Start(p) ==
  /\ pc[p] = "start"
  /\ \A q \in Before[p] : pc[q] = "ended"
  /\ Goto(p, IF job[p].lock THEN "lock" ELSE FirstRead(p))
  /\ UNCHANGED <<store, outcome, memory, reading>>

\* Mutant: Acquire overwrites the lock of another run.
TakeLockHeld(p) ==
  /\ pc[p] = "lock"
  /\ lockfile' = [lockfile EXCEPT ![Codename(p)] = p]
  /\ Goto(p, FirstRead(p))
  /\ UNCHANGED <<pool, byHash, index, release, releaseGpg, inRelease,
                 outcome, memory, reading>>

\* Acquire succeeds.
TakeLock(p) ==
  /\ pc[p] = "lock"
  /\ lockfile[Codename(p)] = NoObject
  /\ lockfile' = [lockfile EXCEPT ![Codename(p)] = p]
  /\ Goto(p, FirstRead(p))
  /\ UNCHANGED <<pool, byHash, index, release, releaseGpg, inRelease,
                 outcome, memory, reading>>

\* Acquire fails: --lock-timeout or a store error, possibly after the lockfile
\* was created.
GiveUp(p) ==
  /\ Faults \cap {"timeout", "store"} # {}
  /\ pc[p] = "lock"
  /\ Goto(p, "ended")
  /\ outcome' = [outcome EXCEPT ![p] = "gaveUp"]
  /\ \/ UNCHANGED lockfile
     \/ /\ lockfile[Codename(p)] = NoObject
        /\ lockfile' = [lockfile EXCEPT ![Codename(p)] = p]
  /\ UNCHANGED <<pool, byHash, index, release, releaseGpg, inRelease,
                 memory, reading>>

\* Handle.Release, whatever became of the operation.
Unlock(p) ==
  /\ pc[p] = "unlock"
  /\ lockfile' = [lockfile EXCEPT ![Codename(p)] = IF @ = p THEN NoObject ELSE @]
  /\ Goto(p, "ended")
  /\ UNCHANGED <<pool, byHash, index, release, releaseGpg, inRelease,
                 outcome, memory, reading>>

---------------------------------------------------------------------------
(* Reading *)

\* Manage.Copy reads the source manifest and selects the versions to copy.
RetrieveSource(p) ==
  /\ pc[p] = "source"
  /\ LET j == job[p]
         source == <<j.source[2], j.arch, "Packages">>
     IN  kept' = [kept EXCEPT ![p] =
                    Selected(j, PackagesOf(index[j.source[1]][source]))]
  /\ Goto(p, "release")
  /\ UNCHANGED <<store, outcome, memory, manifests, todo, refs>>

\* The stored Release, or a new one; --by-hash and --no-by-hash override what
\* it says, absent flags do not.
Retrieved(stored, option) ==
  CASE stored = NoObject -> NewRelease(option = "on")
    [] stored # NoObject /\ option = "unset" -> stored
    [] OTHER -> [stored EXCEPT !.byHash = (option = "on")]

\* RetrieveRelease: Get and ParseRelease.
RetrieveRelease(p) ==
  /\ pc[p] = "release"
  /\ LET retrieved == Retrieved(release[Codename(p)], job[p].byHash)
     IN  /\ rel' = [rel EXCEPT ![p] = retrieved]
         /\ todo' = [todo EXCEPT ![p] = ArchsToRead(job[p], retrieved.archs)]
  /\ Goto(p, "manifests")
  /\ UNCHANGED <<store, outcome, job, batches, at, work, manifests, kept, refs>>

\* RetrieveManifest for the next architecture. Delete removes the selected
\* versions and drops a manifest that had none; verify goes on to look up the
\* packages of the manifest.
RetrieveManifest(p) ==
  /\ pc[p] = "manifests"
  /\ todo[p] # <<>>
  /\ job[p].op # "list"
  /\ LET j == job[p]
         arch == Head(todo[p])
         packages ==
           PackagesOf(index[j.codename][<<j.component, arch, "Packages">>])
         left == IF j.op = "delete"
                 THEN DeletePackage(packages, j.name, j.all, j.versions)
                 ELSE packages
     IN  /\ manifests' = [manifests EXCEPT ![p] =
               IF j.op = "delete" /\ left = packages THEN @
               ELSE Append(@, [component |-> j.component, arch |-> arch,
                               packages |-> left])]
         /\ IF j.op = "verify"
            THEN Goto(p, "heads") /\ work' = [work EXCEPT ![p] = packages]
            ELSE UNCHANGED <<pc, work>>
  /\ todo' = [todo EXCEPT ![p] = Tail(@)]
  /\ UNCHANGED <<store, outcome, job, rel, batches, at, kept, refs>>

\* Verify looks up the body of the next package; --fix-manifests retains the
\* entries whose body exists.
HeadPackage(p) ==
  /\ pc[p] = "heads"
  /\ work[p] # <<>>
  /\ LET e == Head(work[p])
     IN  kept' = [kept EXCEPT ![p] =
                    IF pool[e.filename] # NoObject \/ ~job[p].fix
                    THEN Append(@, e) ELSE @]
  /\ work' = [work EXCEPT ![p] = Tail(@)]
  /\ UNCHANGED <<store, pc, outcome, job, rel, batches, at, manifests, todo, refs>>

\* A manifest that lost no entry is not published again.
HeadsDone(p) ==
  /\ pc[p] = "heads"
  /\ work[p] = <<>>
  /\ LET m == Last(manifests[p])
     IN  manifests' = [manifests EXCEPT ![p] =
                         IF kept[p] = m.packages THEN Front(@)
                         ELSE Append(Front(@), [m EXCEPT !.packages = kept[p]])]
  /\ kept' = [kept EXCEPT ![p] = <<>>]
  /\ Goto(p, "manifests")
  /\ UNCHANGED <<store, outcome, memory, todo, refs>>

---------------------------------------------------------------------------
(* Queries *)

\* Repository.List: Get of the manifest of the next architecture.
ListManifest(p) ==
  /\ pc[p] = "manifests"
  /\ todo[p] # <<>>
  /\ job[p].op = "list"
  /\ LET n == <<job[p].component, Head(todo[p]), "Packages">>
     IN  kept' = [kept EXCEPT ![p] = Reported(@, PackagesOf(index[Codename(p)][n]))]
  /\ todo' = [todo EXCEPT ![p] = Tail(@)]
  /\ UNCHANGED <<store, pc, outcome, memory, manifests, refs>>

\* What was kept is what list prints.
Answer(p) ==
  /\ pc[p] = "manifests"
  /\ todo[p] = <<>>
  /\ job[p].op = "list"
  /\ Finish(p, "ok")
  /\ UNCHANGED <<store, memory, reading>>

\* Repository.Show and Repository.Exists read one manifest. show stops at the
\* first match and fails without one; exists says whether there is one.
LookUp(p) ==
  /\ pc[p] = "lookup"
  /\ LET n == <<job[p].component, job[p].arch, "Packages">>
         found == Selected(job[p], PackagesOf(index[Codename(p)][n]))
     IN  /\ kept' = [kept EXCEPT ![p] = IF found = <<>> THEN found ELSE <<Head(found)>>]
         /\ Finish(p, IF job[p].op = "show" /\ found = <<>>
                      THEN "notFound" ELSE "ok")
  /\ UNCHANGED <<store, memory, manifests, todo, refs>>

---------------------------------------------------------------------------
(* What to publish *)

\* Mutant: the empty manifests enter the Release but are not published.
PrepareChanged(p, changed, uploads) ==
  LET updated == UpdateManifests(rel[p], changed)
  IN  /\ rel' = [rel EXCEPT ![p] = UpdateManifests(updated, MissingManifests(updated))]
      /\ batches' = [batches EXCEPT ![p] = <<Artifacts(changed)>>]
      /\ work' = [work EXCEPT ![p] = uploads]
      /\ Goto(p, "packages")
      /\ UNCHANGED outcome

\* prepare of Upload and PublishMetadata: the changed manifests and the empty
\* ones that are missing enter the Release, and are published in one batch.
Prepare(p, changed, uploads) ==
  LET updated == UpdateManifests(rel[p], changed)
      missing == MissingManifests(updated)
  IN  /\ rel' = [rel EXCEPT ![p] = UpdateManifests(updated, missing)]
      /\ batches' = [batches EXCEPT ![p] = <<Artifacts(changed \o missing)>>]
      /\ work' = [work EXCEPT ![p] = uploads]
      /\ Goto(p, "packages")
      /\ UNCHANGED outcome

\* Release.Publish alone: ValidateOtherManifests publishes the missing
\* manifests one after the other.
PrepareRelease(p) ==
  LET missing == MissingManifests(rel[p])
  IN  /\ rel' = [rel EXCEPT ![p] = UpdateManifests(@, missing)]
      /\ batches' = [batches EXCEPT ![p] =
                       [i \in DOMAIN missing |-> Artifacts(<<missing[i]>>)]]
      /\ Goto(p, "packages")
      /\ UNCHANGED <<outcome, work>>

\* The command ends without having written anything.
Nothing(p, how) == Finish(p, how) /\ UNCHANGED <<rel, batches, work>>

Decide(p, op) ==
  /\ pc[p] = "manifests"
  /\ todo[p] = <<>>
  /\ job[p].op = op
  /\ manifests' = [manifests EXCEPT ![p] = <<>>]
  /\ kept' = [kept EXCEPT ![p] = <<>>]
  /\ UNCHANGED <<store, job, at, todo, refs>>

\* upload.Upload after its last read: a misplaced or conflicting package is an
\* error before anything is written.
DecideUpload(p) ==
  /\ Decide(p, "upload")
  /\ LET j == job[p]
         ms == manifests[p]
         added == [i \in DOMAIN ms |-> Added(j, ms[i])]
     IN  IF \/ \E i \in DOMAIN j.debs : Misplaced(j, j.debs[i])
            \/ \E i \in DOMAIN ms : ~added[i].ok
         THEN Nothing(p, "error")
         ELSE Prepare(p, [i \in DOMAIN ms |->
                            [ms[i] EXCEPT !.packages = added[i].packages]],
                      Uploads(j, ms))

\* Manage.Copy: the selected entries enter the destination manifest and keep
\* the pool keys they have, so no body is copied.
DecideCopy(p) ==
  /\ Decide(p, "copy")
  /\ LET j == job[p]
         m == manifests[p][1]
         added == AddAll(m.packages, kept[p], j.preserve, j.failIfExists)
     IN  IF kept[p] = <<>> \/ ~added.ok
         THEN Nothing(p, "error")
         ELSE Prepare(p, <<[m EXCEPT !.packages = added.packages]>>, <<>>)

\* Manage.Delete: ErrNoPackagesDeleted when no manifest changed.
DecideDelete(p) ==
  /\ Decide(p, "delete")
  /\ IF manifests[p] = <<>>
     THEN Nothing(p, "error")
     ELSE Prepare(p, manifests[p], <<>>)

\* Maintenance.Verify: repaired manifests are published; without any, a
\* signing key still has the Release published again.
DecideVerify(p) ==
  /\ Decide(p, "verify")
  /\ CASE manifests[p] # <<>> -> Prepare(p, manifests[p], <<>>)
       [] manifests[p] = <<>> /\ job[p].sign -> PrepareRelease(p)
       [] OTHER -> Nothing(p, "ok")

---------------------------------------------------------------------------
(* Maintenance.Clean *)

\* A listing yields its keys in one fixed order.
InListOrder(keys) == SetToSeq(keys)

\* List of dists/: the Packages index of every codename.
ListIndexes(p) ==
  /\ pc[p] = "list"
  /\ todo' = [todo EXCEPT ![p] =
        InListOrder({k \in Codenames \X IndexNames :
                    k[2][3] = "Packages" /\ index[k[1]][k[2]] # NoObject})]
  /\ Goto(p, "scan")
  /\ UNCHANGED <<store, outcome, memory, manifests, kept, refs>>

\* Get of the next index; its entries are referenced.
ScanIndex(p) ==
  /\ pc[p] = "scan"
  /\ todo[p] # <<>>
  /\ LET k == Head(todo[p])
     IN  refs' = [refs EXCEPT ![p] =
                    @ \cup {e.filename : e \in ToSet(index[k[1]][k[2]])}]
  /\ todo' = [todo EXCEPT ![p] = Tail(@)]
  /\ UNCHANGED <<store, pc, outcome, memory, manifests, kept>>

\* Mutant: the pool is swept before every index was read.
ListPoolEarly(p) ==
  /\ pc[p] = "scan"
  /\ work' = [work EXCEPT ![p] =
        InListOrder({k \in PoolKeys : /\ k[1] = Codename(p)
                                   /\ pool[k] # NoObject
                                   /\ k \notin refs[p]})]
  /\ Goto(p, "sweep")
  /\ UNCHANGED <<store, outcome, job, rel, batches, at, reading>>

\* List of pool/<codename>/ after the last index was read.
ListPool(p) ==
  /\ pc[p] = "scan"
  /\ todo[p] = <<>>
  /\ work' = [work EXCEPT ![p] =
        InListOrder({k \in PoolKeys : /\ k[1] = Codename(p)
                                   /\ pool[k] # NoObject
                                   /\ k \notin refs[p]})]
  /\ Goto(p, "sweep")
  /\ UNCHANGED <<store, outcome, job, rel, batches, at, reading>>

DeletePoolObject(p) ==
  /\ pc[p] = "sweep"
  /\ work[p] # <<>>
  /\ pool' = [pool EXCEPT ![Head(work[p])] = NoObject]
  /\ work' = [work EXCEPT ![p] = Tail(@)]
  /\ UNCHANGED <<byHash, index, release, releaseGpg, inRelease, lockfile,
                 pc, outcome, job, rel, batches, at, reading>>

SweepDone(p) ==
  /\ pc[p] = "sweep"
  /\ work[p] = <<>>
  /\ Finish(p, "ok")
  /\ UNCHANGED <<store, memory, reading>>

---------------------------------------------------------------------------
(* Failures *)

\* The run does not learn whether its last call arrives: the request of a call
\* that was cancelled, ran into an error, or whose process died, may be under
\* way when the lock is released or removed, and nothing fences it.
LeavesCall(p) ==
  \/ UNCHANGED late
  \/ /\ "late" \in Faults
     /\ pc[p] \in WritingLabels
     /\ late' = [late EXCEPT ![p] = pc[p]]

\* A store call fails. A call that was applied although it reported an error
\* is the call followed by the failure of the next one.
StoreFails(p) ==
  /\ "store" \in Faults
  /\ pc[p] \notin {"start", "lock", "sign", "unlock", "ended"}
  /\ Finish(p, "error")
  /\ LeavesCall(p)
  /\ UNCHANGED <<store, memory, reading>>

\* Handle.Release fails: the lockfile stays.
UnlockFails(p) ==
  /\ "store" \in Faults
  /\ pc[p] = "unlock"
  /\ Goto(p, "ended")
  /\ outcome' = [outcome EXCEPT ![p] = "error"]
  /\ UNCHANGED <<store, memory, reading>>

SigningFails(p) ==
  /\ "sign" \in Faults
  /\ SignFails(p)
  /\ UNCHANGED reading

\* The process dies between two calls; its lockfile stays.
Crash(p) ==
  /\ "crash" \in Faults
  /\ pc[p] \notin {"start", "ended"}
  /\ Goto(p, "ended")
  /\ outcome' = [outcome EXCEPT ![p] = "crashed"]
  /\ LeavesCall(p)
  /\ UNCHANGED <<store, memory, reading>>

\* The request that was under way is applied after all, to the store as it is
\* now: If-None-Match still protects a body, nothing protects the metadata.
LateCall(p) ==
  /\ "late" \in Faults
  /\ late[p] \in WritingLabels
  /\ LET c == Codename(p)
         Sent(label) == late[p] = label
         Artifact == Batch(p)[at[p]]
     IN  /\ pool' = IF Sent("packages") /\ work[p] # <<>> /\ ~Refused(p, Head(work[p]))
                    THEN [pool EXCEPT ![Head(work[p]).filename] = Head(work[p]).sum]
                    ELSE pool
         /\ byHash' = IF Sent("byHash") /\ rel[p].byHash /\ ArtifactsLeft(p)
                      THEN [byHash EXCEPT ![c][Artifact.name] = @ \cup {Artifact.body}]
                      ELSE byHash
         /\ index' = IF Sent("canonical") /\ ArtifactsLeft(p)
                     THEN [index EXCEPT ![c][Artifact.name] = Artifact.body]
                     ELSE index
         /\ release' = IF Sent("putRelease")
                       THEN [release EXCEPT ![c] = Rendered(p)] ELSE release
         /\ releaseGpg' = CASE Sent("deleteGpg") -> [releaseGpg EXCEPT ![c] = NoObject]
                            [] Sent("putGpg") -> [releaseGpg EXCEPT ![c] = Rendered(p)]
                            [] OTHER -> releaseGpg
         /\ inRelease' = CASE Sent("deleteInRelease") -> [inRelease EXCEPT ![c] = NoObject]
                           [] Sent("putInRelease") -> [inRelease EXCEPT ![c] = Rendered(p)]
                           [] OTHER -> inRelease
  /\ late' = [late EXCEPT ![p] = "none"]
  /\ UNCHANGED <<lockfile, pc, outcome, memory, reading>>

\* The operator removes the lockfile of a run that no longer exists.
BreakLock(c) ==
  /\ lockfile[c] # NoObject
  /\ pc[lockfile[c]] = "ended"
  /\ lockfile' = [lockfile EXCEPT ![c] = NoObject]
  /\ UNCHANGED <<pool, byHash, index, release, releaseGpg, inRelease,
                 pc, outcome, memory, reading, late>>

Terminated ==
  /\ \A p \in Runs : pc[p] = "ended"
  /\ UNCHANGED vars

\* The steps of the program.
Proceed(p) ==
  /\ UNCHANGED late
  /\ \/ Start(p) \/ TakeLock(p) \/ Unlock(p)
     \/ RetrieveSource(p) \/ RetrieveRelease(p) \/ RetrieveManifest(p)
     \/ HeadPackage(p) \/ HeadsDone(p)
     \/ ListManifest(p) \/ Answer(p) \/ LookUp(p)
     \/ DecideUpload(p) \/ DecideCopy(p) \/ DecideDelete(p) \/ DecideVerify(p)
     \/ Publish(p) /\ UNCHANGED reading
     \/ ListIndexes(p) \/ ScanIndex(p) \/ ListPool(p)
     \/ DeletePoolObject(p) \/ SweepDone(p)

Disturb(p) ==
  \/ (GiveUp(p) \/ UnlockFails(p) \/ SigningFails(p)) /\ UNCHANGED late
  \/ StoreFails(p) \/ Crash(p)

Next ==
  \/ \E p \in Runs : Proceed(p) \/ Disturb(p) \/ LateCall(p)
  \/ \E c \in Codenames : BreakLock(c)
  \/ Terminated

Spec == Init /\ [][Next]_vars

\* Started commands keep running, and stale locks are removed eventually.
Fairness ==
  /\ \A p \in Runs : WF_vars(Proceed(p))
  /\ \A c \in Codenames : WF_vars(BreakLock(c))

FairSpec == Spec /\ Fairness
=============================================================================
