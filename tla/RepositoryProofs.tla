-------------------------- MODULE RepositoryProofs --------------------------
(***************************************************************************)
(* What holds of a repository for any set of runs, commands, packages and  *)
(* failures when every command takes the lock of its codename. Without     *)
(* failures the Release then lists what the indexes contain, and the       *)
(* commands are atomic: Repository implements AtomicRepository.            *)
(***************************************************************************)
EXTENDS RepositoryReferenceProofs

\* Every command is given --lock.
AllLocked == \A p \in Runs : \A j \in JobsOf[p] : j.lock

\* No call is applied after its run has lost the lock.
Fenced == "late" \notin Faults

\* A Release is a record with a date, whatever else it holds.
IsRelease(r) == "date" \in DOMAIN r /\ r = [field \in DOMAIN r |-> r[field]]

\* As much of the types as the arguments below rest on.
Shape ==
  /\ pc \in [Runs -> Labels]
  /\ outcome \in [Runs -> Outcomes]
  /\ lockfile \in [Codenames -> {NoObject} \cup Runs]
  /\ job = [p \in Runs |-> job[p]]
  /\ \A p \in Runs : job[p] \in JobsOf[p]
  /\ rel = [p \in Runs |-> rel[p]]
  /\ \A p \in Runs : IsRelease(rel[p])
  /\ release = [c \in Codenames |-> release[c]]
  /\ \A c \in Codenames : release[c] # NoObject => IsRelease(release[c])
  /\ releaseGpg = [c \in Codenames |-> releaseGpg[c]]
  /\ inRelease = [c \in Codenames |-> inRelease[c]]

\* Between the acquisition of the lock and its release.
Working == Labels \ {"start", "lock", "ended"}

\* The labels from the removal of stale signatures to the last signature.
Signing == {"sign", "deleteInRelease", "putRelease", "putGpg", "putInRelease"}

\* The steps that store or remove a Release or a signature.
Storing(p) ==
  \/ DeleteReleaseGpg(p) \/ DeleteInRelease(p)
  \/ PutRelease(p) \/ PutReleaseGpg(p) \/ PutInRelease(p)

\* What any other step of a run may do to the state the arguments are about.
Steady(p) ==
  /\ UNCHANGED <<job, release, releaseGpg, inRelease>>
  /\ rel' = [q \in Runs |-> rel'[q]]
  /\ IsRelease(rel'[p])
  /\ \E label \in Labels : pc' = [pc EXCEPT ![p] = label]
  /\ \E how \in Outcomes : outcome' = [outcome EXCEPT ![p] = how]
  /\ \A q \in Runs \ {p} : rel'[q] = rel[q]
  /\ pc[p] # "ended"
  /\ pc'[p] \in Signing =>
       \/ pc[p] = "sign" /\ pc'[p] = "putRelease"
       \/ pc'[p] = "sign" /\ job[p].sign
  /\ pc[p] \in {"putGpg", "putInRelease", "unlock"} => pc'[p] \in {"unlock", "ended"}
  /\ outcome'[p] # outcome[p] => pc'[p] \in {"unlock", "ended"}
  /\ outcome'[p] = "ok" /\ outcome[p] # "ok" => pc[p] \in {"manifests", "sweep", "lookup"}
  /\ \/ /\ lockfile' = lockfile
        /\ pc'[p] \in Working => pc[p] \in Working \/ ~job[p].lock
     \/ /\ pc[p] = "lock"
        /\ lockfile[Codename(p)] = NoObject
        /\ lockfile' = [lockfile EXCEPT ![Codename(p)] = p]
     \/ /\ pc[p] = "unlock"
        /\ pc'[p] = "ended"
        /\ lockfile' = [lockfile EXCEPT ![Codename(p)] =
                          IF @ = p THEN NoObject ELSE @]

\* A Release that is updated or created anew keeps its record shape.
LEMMA UpdateIsRelease ==
  ASSUME NEW r, NEW ms
  PROVE  IsRelease(UpdateManifests(r, ms))
  BY DEF IsRelease, UpdateManifests

\* A new Release has the shape of one.
LEMMA NewIsRelease == ASSUME NEW b PROVE IsRelease(NewRelease(b))
  BY DEF IsRelease, NewRelease

\* --by-hash and --no-by-hash keep that shape.
LEMMA OverrideIsRelease ==
  ASSUME NEW r, IsRelease(r), NEW b
  PROVE  IsRelease([r EXCEPT !.byHash = b])
  BY DEF IsRelease

\* Every run has a command of its own, on a codename of the repository.
LEMMA CodenameOf ==
  ASSUME Shape, NEW p \in Runs
  PROVE  Codename(p) \in Codenames
  BY RepositoryAssumption DEF Shape, Codename, IsJob

\* A lockfile that is absent belongs to no run.
LEMMA NotARun == NoObject \notin Runs
  BY RepositoryAssumption

\* A command that finishes goes to its unlock, or ends.
LEMMA FinishLabels ==
  ASSUME NEW p \in Runs, NEW how \in Outcomes, Finish(p, how)
  PROVE  /\ \E label \in {"unlock", "ended"} : pc' = [pc EXCEPT ![p] = label]
         /\ outcome' = [outcome EXCEPT ![p] = how]
  BY DEF Finish, Goto

\* The first read of a command is one of the four.
LEMMA FirstReadLabel ==
  ASSUME NEW p \in Runs PROVE FirstRead(p) \in {"source", "list", "lookup", "release"}
  BY DEF FirstRead

---------------------------------------------------------------------------

\* Preparing a publication: the Release changes in memory only.
LEMMA PrepareIsSteady ==
  ASSUME Shape, NEW p \in Runs, NEW changed, NEW uploads,
         pc[p] = "manifests", Prepare(p, changed, uploads),
         UNCHANGED <<store, job>>
  PROVE  Steady(p)
<1>1. IsRelease(rel'[p]) /\ rel' = [q \in Runs |-> rel'[q]]
      /\ \A q \in Runs \ {p} : rel'[q] = rel[q]
  <2>1. PICK r : rel' = [rel EXCEPT ![p] = r] /\ IsRelease(r)
    BY UpdateIsRelease DEF Prepare
  <2>2. QED
    BY <2>1 DEF Shape
<1>2. QED
  BY <1>1 DEF Steady, Prepare, Goto, Shape, store, Labels, Outcomes, Working, Signing

\* Publishing the Release alone moves to the publication and stores nothing.
LEMMA PrepareReleaseIsSteady ==
  ASSUME Shape, NEW p \in Runs, pc[p] = "manifests", PrepareRelease(p),
         UNCHANGED <<store, job>>
  PROVE  Steady(p)
<1>1. IsRelease(rel'[p]) /\ rel' = [q \in Runs |-> rel'[q]]
      /\ \A q \in Runs \ {p} : rel'[q] = rel[q]
  <2>1. PICK r : rel' = [rel EXCEPT ![p] = r] /\ IsRelease(r)
    BY UpdateIsRelease DEF PrepareRelease
  <2>2. QED
    BY <2>1 DEF Shape
<1>2. QED
  BY <1>1 DEF Steady, PrepareRelease, Goto, Shape, store, Labels, Outcomes,
              Working, Signing

\* A command that has nothing to do ends and stores nothing.
LEMMA NothingIsSteady ==
  ASSUME Shape, NEW p \in Runs, NEW how \in Outcomes, pc[p] = "manifests",
         Nothing(p, how), UNCHANGED <<store, job>>
  PROVE  Steady(p)
<1>1. Finish(p, how) /\ UNCHANGED rel
  BY DEF Nothing
<1>2. QED
  BY <1>1, FinishLabels
  DEF Steady, Shape, store, Labels, Outcomes, Working, Signing

\* Every step of a run other than the five that store or remove a Release or
\* a signature is steady.
LEMMA SteadySteps ==
  ASSUME Shape, NEW p \in Runs, Proceed(p) \/ Disturb(p), ~Storing(p)
  PROVE  Steady(p)
<1> USE DEF Shape, store, memory, reading, Labels, Outcomes, Working, Signing
<1>1. CASE Start(p)
  BY <1>1, FirstReadLabel DEF Steady, Start, Goto
<1>2. CASE TakeLock(p)
  BY <1>2, FirstReadLabel DEF Steady, TakeLock, Goto
<1>3. CASE Unlock(p)
  BY <1>3 DEF Steady, Unlock, Goto
<1>4. CASE RetrieveSource(p)
  BY <1>4 DEF Steady, RetrieveSource, Goto
<1>5. CASE RetrieveRelease(p)
  <2>1. PICK r : rel' = [rel EXCEPT ![p] = r] /\ IsRelease(r)
    BY <1>5, OverrideIsRelease, NewIsRelease, CodenameOf DEF RetrieveRelease, Retrieved
  <2>2. /\ pc[p] = "release"
        /\ Goto(p, "manifests")
        /\ UNCHANGED <<store, outcome, job>>
    BY <1>5 DEF RetrieveRelease
  <2>3. QED
    BY <2>1, <2>2 DEF Steady, Goto
<1>6. CASE RetrieveManifest(p)
  BY <1>6 DEF Steady, RetrieveManifest, Goto
<1>7. CASE HeadPackage(p)
  BY <1>7 DEF Steady, HeadPackage
<1>8. CASE HeadsDone(p)
  BY <1>8 DEF Steady, HeadsDone, Goto
<1>9. CASE DecideUpload(p)
  BY <1>9, PrepareIsSteady, NothingIsSteady DEF DecideUpload, Decide
<1>10. CASE DecideCopy(p)
  BY <1>10, PrepareIsSteady, NothingIsSteady DEF DecideCopy, Decide
<1>11. CASE DecideDelete(p)
  BY <1>11, PrepareIsSteady, NothingIsSteady DEF DecideDelete, Decide
<1>12. CASE DecideVerify(p)
  BY <1>12, PrepareIsSteady, PrepareReleaseIsSteady, NothingIsSteady
  DEF DecideVerify, Decide
<1>13. CASE Publish(p) /\ UNCHANGED reading
  <2>1. CASE PutPackage(p)
    BY <2>1, FinishLabels DEF Steady, PutPackage
  <2>2. CASE PackagesDone(p)
    BY <2>2 DEF Steady, PackagesDone, AfterIndexes, Goto
  <2>3. CASE PutByHash(p)
    BY <2>3 DEF Steady, PutByHash
  <2>4. CASE ByHashDone(p)
    BY <2>4 DEF Steady, ByHashDone, Goto
  <2>5. CASE PutCanonical(p)
    BY <2>5 DEF Steady, PutCanonical
  <2>6. CASE CanonicalDone(p)
    BY <2>6 DEF Steady, CanonicalDone, AfterIndexes, Goto
  <2>7. CASE Sign(p)
    BY <2>7 DEF Steady, Sign, Goto
  <2>8. QED
    BY <1>13, <2>1, <2>2, <2>3, <2>4, <2>5, <2>6, <2>7 DEF Publish, Storing
<1>14. CASE ListIndexes(p)
  BY <1>14 DEF Steady, ListIndexes, Goto
<1>15. CASE ScanIndex(p)
  BY <1>15 DEF Steady, ScanIndex
<1>16. CASE ListPool(p)
  BY <1>16 DEF Steady, ListPool, Goto
<1>17. CASE DeletePoolObject(p)
  BY <1>17 DEF Steady, DeletePoolObject
<1>18. CASE SweepDone(p)
  BY <1>18, FinishLabels DEF Steady, SweepDone
<1>19. CASE GiveUp(p)
  BY <1>19 DEF Steady, GiveUp, Goto
<1>20. CASE StoreFails(p)
  BY <1>20, FinishLabels DEF Steady, StoreFails
<1>21. CASE UnlockFails(p)
  BY <1>21 DEF Steady, UnlockFails, Goto
<1>22. CASE SigningFails(p)
  BY <1>22, FinishLabels DEF Steady, SigningFails, SignFails
<1>23. CASE Crash(p)
  BY <1>23 DEF Steady, Crash, Goto
<1>24. CASE ListManifest(p)
  BY <1>24 DEF Steady, ListManifest
<1>25. CASE Answer(p)
  BY <1>25, FinishLabels DEF Steady, Answer
<1>26. CASE LookUp(p)
  <2>1. PICK how \in {"notFound", "ok"} : Finish(p, how)
    BY <1>26 DEF LookUp
  <2>2. pc[p] = "lookup" /\ UNCHANGED <<store, memory>>
    BY <1>26 DEF LookUp
  <2>3. QED
    BY <2>1, <2>2, FinishLabels DEF Steady
<1>27. QED
  BY <1>1, <1>2, <1>3, <1>4, <1>5, <1>6, <1>7, <1>8, <1>9, <1>10, <1>11,
     <1>12, <1>13, <1>14, <1>15, <1>16, <1>17, <1>18, <1>19, <1>20, <1>21,
     <1>22, <1>23, <1>24, <1>25, <1>26 DEF Proceed, Disturb

\* What the five steps that store or remove a Release or a signature share.
LEMMA StoringSteps ==
  ASSUME Shape, NEW p \in Runs, Storing(p)
  PROVE  /\ UNCHANGED <<job, rel, lockfile>>
         /\ pc[p] \in Signing \cup {"deleteGpg"}
         /\ \E label \in Signing \cup {"unlock", "ended"} :
              pc' = [pc EXCEPT ![p] = label]
         /\ outcome' = outcome \/ outcome' = [outcome EXCEPT ![p] = "ok"]
  BY DEF Storing, DeleteReleaseGpg, DeleteInRelease, PutRelease, PutReleaseGpg,
         PutInRelease, Finish, Goto, memory, Signing, Shape, Labels

\* The Release that is put is the one in memory, under the name of the run.
LEMMA RenderedFacts ==
  ASSUME Shape, NEW p \in Runs
  PROVE  IsRelease(Rendered(p)) /\ Rendered(p).date = p
  BY DEF Shape, IsRelease, Rendered

---------------------------------------------------------------------------
(* The shape and the lock discipline *)

\* The initial states have the shape.
LEMMA InitShape == ASSUME Init PROVE Shape
<1>1. \A p \in Runs : IsRelease(rel[p])
  BY NewIsRelease DEF Init
<1>2. QED
  BY <1>1 DEF Init, Shape, Labels, Outcomes

\* Every step keeps the shape.
LEMMA NextShape == ASSUME Shape, [Next]_vars PROVE Shape'
<1>1. CASE UNCHANGED vars
  BY <1>1 DEF Shape, vars, store, memory, reading, IsRelease
<1>2. ASSUME NEW p \in Runs, Proceed(p) \/ Disturb(p), ~Storing(p)
      PROVE  Shape'
  <2>1. Steady(p)
    BY <1>2, SteadySteps
  <2>2. \A q \in Runs : IsRelease(rel'[q])
    BY <2>1 DEF Steady, Shape
  <2>3. lockfile' \in [Codenames -> {NoObject} \cup Runs]
    BY <2>1 DEF Steady, Shape
  <2>4. QED
    <3>1. pc' \in [Runs -> Labels]
      BY <2>1 DEF Steady, Shape
    <3>2. outcome' \in [Runs -> Outcomes]
      BY <2>1 DEF Steady, Shape
    <3>3. /\ rel' = [q \in Runs |-> rel'[q]]
          /\ UNCHANGED <<job, release, releaseGpg, inRelease>>
      BY <2>1 DEF Steady
    <3>4. QED
      BY <2>2, <2>3, <3>1, <3>2, <3>3 DEF Shape
<1>3. ASSUME NEW p \in Runs, Storing(p)
      PROVE  Shape'
  <2>1. /\ pc' \in [Runs -> Labels]
        /\ outcome' \in [Runs -> Outcomes]
        /\ UNCHANGED <<job, rel, lockfile>>
    BY <1>3, StoringSteps DEF Shape, Signing, Labels, Outcomes
  <2>2. /\ release' = [c \in Codenames |-> release'[c]]
        /\ \A c \in Codenames : release'[c] # NoObject => IsRelease(release'[c])
        /\ releaseGpg' = [c \in Codenames |-> releaseGpg'[c]]
        /\ inRelease' = [c \in Codenames |-> inRelease'[c]]
    BY <1>3, RenderedFacts, CodenameOf
    DEF Storing, Shape, DeleteReleaseGpg, DeleteInRelease, PutRelease,
        PutReleaseGpg, PutInRelease
  <2>3. QED
    BY <2>1, <2>2 DEF Shape
<1>4. ASSUME NEW c \in Codenames, BreakLock(c)
      PROVE  Shape'
  BY <1>4 DEF Shape, BreakLock, memory
<1>5. ASSUME NEW p \in Runs, LateCall(p)
      PROVE  Shape'
  <2>1. UNCHANGED <<pc, outcome, lockfile, job, rel>>
    BY <1>5 DEF LateCall, memory
  <2>2. /\ release' \in {release, [release EXCEPT ![Codename(p)] = Rendered(p)]}
        /\ \/ releaseGpg' = releaseGpg
           \/ \E r : releaseGpg' = [releaseGpg EXCEPT ![Codename(p)] = r]
        /\ \/ inRelease' = inRelease
           \/ \E r : inRelease' = [inRelease EXCEPT ![Codename(p)] = r]
    <3>1. releaseGpg' \in {releaseGpg, [releaseGpg EXCEPT ![Codename(p)] = NoObject],
                           [releaseGpg EXCEPT ![Codename(p)] = Rendered(p)]}
      BY <1>5 DEF LateCall
    <3>2. inRelease' \in {inRelease, [inRelease EXCEPT ![Codename(p)] = NoObject],
                          [inRelease EXCEPT ![Codename(p)] = Rendered(p)]}
      BY <1>5 DEF LateCall
    <3>3. release' \in {release, [release EXCEPT ![Codename(p)] = Rendered(p)]}
      BY <1>5 DEF LateCall
    <3>4. QED
      BY <3>1, <3>2, <3>3
  <2>3. /\ release' = [c \in Codenames |-> release'[c]]
        /\ \A c \in Codenames : release'[c] # NoObject => IsRelease(release'[c])
    BY <2>2, RenderedFacts DEF Shape
  <2>4. /\ releaseGpg' = [c \in Codenames |-> releaseGpg'[c]]
        /\ inRelease' = [c \in Codenames |-> inRelease'[c]]
    BY <2>2 DEF Shape
  <2>5. QED
    BY <2>1, <2>3, <2>4 DEF Shape
<1>6. QED
  BY <1>1, <1>2, <1>3, <1>4, <1>5 DEF Next, Terminated

\* The shape holds of every reachable state.
THEOREM ShapeHolds == Spec => []Shape
<1>1. Init => Shape
  BY InitShape
<1>2. Shape /\ [Next]_vars => Shape'
  BY NextShape
<1>3. QED
  BY <1>1, <1>2, PTL DEF Spec

\* Every step keeps the order of the lock.
LEMMA NextWorksUnderLock ==
  ASSUME Shape, WorksUnderLock, [Next]_vars
  PROVE  WorksUnderLock'
<1> USE DEF WorksUnderLock, Codename
<1>1. CASE UNCHANGED vars
  BY <1>1 DEF vars, store, memory
<1>2. ASSUME NEW p \in Runs, Proceed(p) \/ Disturb(p), ~Storing(p)
      PROVE  WorksUnderLock'
  <2>1. Steady(p)
    BY <1>2, SteadySteps
  <2> SUFFICES ASSUME NEW q \in Runs, job'[q].lock,
                      pc'[q] \notin {"start", "lock", "ended"}
               PROVE  lockfile'[job'[q].codename] = q
    OBVIOUS
  <2>2. pc'[q] \in Working
    BY <2>1 DEF Steady, Shape, Working
  <2>3. CASE /\ lockfile' = lockfile
             /\ pc'[p] \in Working => pc[p] \in Working \/ ~job[p].lock
    BY <2>1, <2>2, <2>3 DEF Steady, Shape, Working
  <2>4. CASE /\ pc[p] = "lock"
             /\ lockfile[Codename(p)] = NoObject
             /\ lockfile' = [lockfile EXCEPT ![Codename(p)] = p]
    BY <2>1, <2>2, <2>4, CodenameOf, NotARun DEF Steady, Shape, Working
  <2>5. CASE /\ pc[p] = "unlock"
             /\ pc'[p] = "ended"
             /\ lockfile' = [lockfile EXCEPT ![Codename(p)] =
                               IF @ = p THEN NoObject ELSE @]
    BY <2>1, <2>2, <2>5, CodenameOf DEF Steady, Shape, Working
  <2>6. QED
    BY <2>1, <2>3, <2>4, <2>5 DEF Steady
<1>3. ASSUME NEW p \in Runs, Storing(p)
      PROVE  WorksUnderLock'
  BY <1>3, StoringSteps DEF Shape, Signing
<1>4. ASSUME NEW c \in Codenames, BreakLock(c)
      PROVE  WorksUnderLock'
  BY <1>4, NotARun DEF BreakLock, memory, Shape
<1>5. ASSUME NEW p \in Runs, LateCall(p)
      PROVE  WorksUnderLock'
  BY <1>5 DEF LateCall, memory
<1>6. QED
  BY <1>1, <1>2, <1>3, <1>4, <1>5 DEF Next, Terminated

\* withRepositoryLock: whatever the other runs do, fail to do or leave behind,
\* a run with --lock works on its codename only while the lockfile is its own.
THEOREM LockDiscipline == Spec => []WorksUnderLock
<1>1. Init => WorksUnderLock
  BY DEF Init, WorksUnderLock
<1>2. Shape /\ WorksUnderLock /\ [Next]_vars => WorksUnderLock'
  BY NextWorksUnderLock
<1>3. QED
  BY <1>1, <1>2, ShapeHolds, PTL DEF Spec

---------------------------------------------------------------------------
(* The signatures *)

\* The labels of a run whose Release is stored.
Written == {"putGpg", "putInRelease", "unlock", "ended"}

\* How far a run is in Release.Publish determines what it has stored so far.
Progress ==
  \A p \in Runs :
    LET c == Codename(p)
    IN  /\ pc[p] \in {"sign", "putGpg", "putInRelease"} => job[p].sign
        /\ pc[p] = "deleteInRelease" => releaseGpg[c] = NoObject
        /\ pc[p] = "putRelease" /\ ~job[p].sign
             => releaseGpg[c] = NoObject /\ inRelease[c] = NoObject
        /\ pc[p] \in {"putGpg", "putInRelease"} => release[c] = Rendered(p)
        /\ pc[p] = "putInRelease" => releaseGpg[c] = Rendered(p)
        /\ outcome[p] # "none" => pc[p] \in {"unlock", "ended"}

\* Every stored Release was written by a run that got that far.
WriterKnown ==
  \A c \in Codenames :
    release[c] # NoObject =>
      /\ release[c].date \in Runs
      /\ Codename(release[c].date) = c
      /\ pc[release[c].date] \in Written

\* The inductive invariant of the signatures.
SignaturesInv == Progress /\ WriterKnown /\ SignaturesMatch

\* Two runs never work on one codename at the same time.
LEMMA OneAtATime ==
  ASSUME AllLocked, Shape, WorksUnderLock, NEW p \in Runs, NEW q \in Runs,
         pc[p] \in Working, pc[q] \in Working, Codename(p) = Codename(q)
  PROVE  p = q
  BY DEF AllLocked, Shape, WorksUnderLock, Working, Codename

\* A step that leaves Releases and signatures alone keeps the invariant.
LEMMA SteadySignatures ==
  ASSUME Shape, SignaturesInv, NEW p \in Runs, Steady(p)
  PROVE  SignaturesInv'
<1> USE DEF SignaturesInv
<1>1. Progress'
  <2> SUFFICES ASSUME NEW q \in Runs
      PROVE
        LET c == Codename(q)
        IN  /\ pc'[q] \in {"sign", "putGpg", "putInRelease"} => job[q].sign
            /\ pc'[q] = "deleteInRelease" => releaseGpg[c] = NoObject
            /\ pc'[q] = "putRelease" /\ ~job[q].sign
                 => releaseGpg[c] = NoObject /\ inRelease[c] = NoObject
            /\ pc'[q] \in {"putGpg", "putInRelease"}
                 => release[c] = [rel'[q] EXCEPT !.date = q]
            /\ pc'[q] = "putInRelease"
                 => releaseGpg[c] = [rel'[q] EXCEPT !.date = q]
            /\ outcome'[q] # "none" => pc'[q] \in {"unlock", "ended"}
    BY DEF Progress, Steady, Codename, Rendered
  <2>1. CASE q = p
    BY <2>1 DEF Steady, Progress, Shape, Signing, Labels, Outcomes
  <2>2. CASE q # p
    <3>1. pc'[q] = pc[q] /\ outcome'[q] = outcome[q] /\ rel'[q] = rel[q]
      BY <2>2 DEF Steady, Shape
    <3>2. QED
      BY <3>1 DEF Progress, Rendered
  <2>3. QED
    BY <2>1, <2>2
<1>2. WriterKnown'
  BY DEF WriterKnown, Steady, Shape, Written, Codename
<1>3. SignaturesMatch'
  BY DEF SignaturesMatch, WriterKnown, Steady, Shape, Written, Outcomes
<1>4. QED
  BY <1>1, <1>2, <1>3

\* Every step keeps the invariant of the signatures.
LEMMA NextSignatures ==
  ASSUME AllLocked, Fenced, Shape, WorksUnderLock, SignaturesInv, [Next]_vars
  PROVE  SignaturesInv'
<1>1. CASE UNCHANGED vars
  BY <1>1 DEF SignaturesInv, Progress, WriterKnown, SignaturesMatch, vars, store,
              memory, Codename, Rendered
<1>2. ASSUME NEW p \in Runs, Proceed(p) \/ Disturb(p), ~Storing(p)
      PROVE  SignaturesInv'
  BY <1>2, SteadySteps, SteadySignatures
<1>3. ASSUME NEW p \in Runs, Storing(p)
      PROVE  SignaturesInv'
  <2> DEFINE c == Codename(p)
  <2>1. /\ c \in Codenames
        /\ UNCHANGED <<job, rel, lockfile>>
        /\ pc[p] \in Working
        /\ \A q \in Runs \ {p} : pc'[q] = pc[q] /\ outcome'[q] = outcome[q]
    BY <1>3, CodenameOf, StoringSteps DEF Shape, Signing, Working, Labels
  <2>2. \A q \in Runs \ {p} : pc[q] \in Working => Codename(q) # c
    BY <2>1, OneAtATime
  <2>3. /\ \A d \in Codenames \ {c} : /\ release'[d] = release[d]
                                     /\ releaseGpg'[d] = releaseGpg[d]
                                     /\ inRelease'[d] = inRelease[d]
    BY <1>3, <2>1
    DEF Shape, Storing, DeleteReleaseGpg, DeleteInRelease, PutRelease,
        PutReleaseGpg, PutInRelease
  <2>4. /\ outcome[p] = "none"
        /\ IsRelease(Rendered(p)) /\ Rendered(p).date = p
    BY <2>1, <1>3, RenderedFacts
    DEF SignaturesInv, Progress, Shape, Storing, DeleteReleaseGpg,
        DeleteInRelease, PutRelease, PutReleaseGpg, PutInRelease
  \* What the step does to p and to its codename.
  <2> DEFINE Own == /\ pc'[p] \in {"sign", "putGpg", "putInRelease"} => job[p].sign
                    /\ pc'[p] = "deleteInRelease" => releaseGpg'[c] = NoObject
                    /\ pc'[p] = "putRelease" /\ ~job[p].sign
                         => releaseGpg'[c] = NoObject /\ inRelease'[c] = NoObject
                    /\ pc'[p] \in {"putGpg", "putInRelease"}
                         => release'[c] = Rendered(p)
                    /\ pc'[p] = "putInRelease" => releaseGpg'[c] = Rendered(p)
                    /\ outcome'[p] # "none" => pc'[p] \in {"unlock", "ended"}
                    /\ release'[c] # NoObject =>
                         /\ release'[c].date \in Runs
                         /\ Codename(release'[c].date) = c
                         /\ pc'[release'[c].date] \in Written
                         /\ ~job[release'[c].date].sign
                              \/ outcome'[release'[c].date] = "ok"
                             => {releaseGpg'[c], inRelease'[c]}
                                  \subseteq {NoObject, release'[c]}
  <2>5. ASSUME Own PROVE SignaturesInv'
    <3>1. Progress'
      <4> SUFFICES ASSUME NEW q \in Runs
          PROVE
            LET b == Codename(q)
            IN  /\ pc'[q] \in {"sign", "putGpg", "putInRelease"} => job[q].sign
                /\ pc'[q] = "deleteInRelease" => releaseGpg'[b] = NoObject
                /\ pc'[q] = "putRelease" /\ ~job[q].sign
                     => releaseGpg'[b] = NoObject /\ inRelease'[b] = NoObject
                /\ pc'[q] \in {"putGpg", "putInRelease"} => release'[b] = Rendered(q)
                /\ pc'[q] = "putInRelease" => releaseGpg'[b] = Rendered(q)
                /\ outcome'[q] # "none" => pc'[q] \in {"unlock", "ended"}
        BY <2>1 DEF Progress, Codename, Rendered
      <4>1. CASE q = p
        BY <4>1, <2>5
      <4>2. CASE q # p
        <5>1. pc'[q] = pc[q] /\ outcome'[q] = outcome[q] /\ Codename(q) \in Codenames
          BY <4>2, <2>1, CodenameOf
        <5>2. CASE Codename(q) # c
          BY <5>1, <5>2, <2>3 DEF SignaturesInv, Progress
        <5>3. CASE pc[q] \notin Working
          BY <5>1, <5>3 DEF SignaturesInv, Progress, Working, Labels
        <5>4. QED
          BY <5>2, <5>3, <4>2, <2>2
      <4>3. QED
        BY <4>1, <4>2
    <3>2. WriterKnown'
      <4> SUFFICES ASSUME NEW d \in Codenames, release'[d] # NoObject
                   PROVE  /\ release'[d].date \in Runs
                          /\ Codename(release'[d].date) = d
                          /\ pc'[release'[d].date] \in Written
        BY <2>1 DEF WriterKnown, Codename
      <4>1. CASE d = c
        BY <4>1, <2>5
      <4>2. CASE d # c
        <5>1. release'[d] = release[d]
          BY <4>2, <2>3
        <5>2. /\ release[d].date \in Runs
              /\ Codename(release[d].date) = d
              /\ pc[release[d].date] \in Written
          BY <5>1 DEF SignaturesInv, WriterKnown
        <5>3. pc[p] \in Written => pc'[p] \in Written
          BY <1>3, StoringSteps
          DEF Storing, DeleteReleaseGpg, DeleteInRelease, PutRelease, PutReleaseGpg,
              PutInRelease, Finish, Goto, Written, Shape
        <5>4. QED
          BY <5>1, <5>2, <5>3, <2>1
      <4>3. QED
        BY <4>1, <4>2
    <3>3. SignaturesMatch'
      <4> SUFFICES ASSUME NEW d \in Codenames, release'[d] # NoObject,
                          \/ ~job[release'[d].date].sign
                          \/ outcome'[release'[d].date] = "ok"
                   PROVE  {releaseGpg'[d], inRelease'[d]}
                            \subseteq {NoObject, release'[d]}
        BY <2>1 DEF SignaturesMatch
      <4>1. CASE d = c
        BY <4>1, <2>5
      <4>2. CASE d # c
        <5>1. release[d] # NoObject /\ Codename(release[d].date) = d
              /\ release[d].date \in Runs
          BY <4>2, <2>3 DEF SignaturesInv, WriterKnown
        <5>2. release[d].date # p
          BY <5>1, <4>2
        <5>3. QED
          BY <5>1, <5>2, <4>2, <2>1, <2>3 DEF SignaturesInv, SignaturesMatch
      <4>3. QED
        BY <4>1, <4>2
    <3>4. QED
      BY <3>1, <3>2, <3>3 DEF SignaturesInv
  <2>6. Own
    <3>1. CASE DeleteReleaseGpg(p)
      BY <3>1, <2>1, <2>4
      DEF DeleteReleaseGpg, Goto, Shape, SignaturesInv, WriterKnown, Written,
          SignaturesMatch
    <3>2. CASE DeleteInRelease(p)
      BY <3>2, <2>1, <2>4
      DEF DeleteInRelease, Goto, Shape, SignaturesInv, WriterKnown, Written,
          SignaturesMatch, Progress
    <3>3. CASE PutRelease(p)
      BY <3>3, <2>1, <2>4
      DEF PutRelease, Finish, Goto, Shape, SignaturesInv, Progress, Written,
          AllLocked, Codename
    <3>4. CASE PutReleaseGpg(p)
      <4>1. job[p].sign /\ release[c] = Rendered(p)
        BY <3>4 DEF PutReleaseGpg, SignaturesInv, Progress
      <4>2. /\ pc'[p] = "putInRelease"
            /\ release' = release /\ outcome' = outcome
            /\ releaseGpg'[c] = Rendered(p)
        BY <3>4, <2>1 DEF PutReleaseGpg, Goto, Shape
      <4>3. QED
        BY <4>1, <4>2, <2>4 DEF Written
    <3>5. CASE PutInRelease(p)
      <4>1. release[c] = Rendered(p) /\ releaseGpg[c] = Rendered(p)
        BY <3>5 DEF PutInRelease, SignaturesInv, Progress
      <4>2. /\ pc'[p] \in {"unlock", "ended"}
            /\ release' = release /\ releaseGpg' = releaseGpg
            /\ inRelease'[c] = Rendered(p)
        BY <3>5, <2>1 DEF PutInRelease, Finish, Goto, Shape
      <4>3. QED
        BY <4>1, <4>2, <2>4 DEF Written
    <3>6. QED
      BY <1>3, <3>1, <3>2, <3>3, <3>4, <3>5 DEF Storing
  <2>7. QED
    BY <2>5, <2>6
<1>4. ASSUME NEW c \in Codenames, BreakLock(c)
      PROVE  SignaturesInv'
  BY <1>4 DEF SignaturesInv, Progress, WriterKnown, SignaturesMatch, BreakLock,
              memory, Codename, Rendered
<1>5. \A p \in Runs : ~LateCall(p)
  BY DEF LateCall, Fenced
<1>6. QED
  BY <1>1, <1>2, <1>3, <1>4, <1>5 DEF Next, Terminated

\* Release.Publish: when every command takes the lock and no call is applied
\* late, the signatures next to a Release that was published without --sign, or
\* whose signed publication succeeded, sign that Release or are absent, whatever
\* else failed.
THEOREM SignaturesDescribeRelease ==
  ASSUME AllLocked, Fenced
  PROVE  Spec => []SignaturesMatch
<1>1. Init => SignaturesInv
  BY DEF Init, SignaturesInv, Progress, WriterKnown, SignaturesMatch
<1>2. Shape /\ WorksUnderLock /\ SignaturesInv /\ [Next]_vars => SignaturesInv'
  BY NextSignatures
<1>3. SignaturesInv => SignaturesMatch
  BY DEF SignaturesInv
<1>4. QED
  BY <1>1, <1>2, <1>3, ShapeHolds, LockDiscipline, PTL DEF Spec

---------------------------------------------------------------------------
(* The indexes and the Release that lists them *)

\* The run changes indexes.
Changing(p) == job[p].op \in {"upload", "copy", "delete"}

\* Every command that changes indexes takes the lock, which verify cannot.
ChangesUnderLock ==
  \A p \in Runs : \A j \in JobsOf[p] :
    /\ j.op \in {"upload", "copy", "delete"} => j.lock
    /\ j.op # "verify"

\* The store does not fail, gpg signs, and no run dies.
Untroubled == Faults \subseteq {"timeout"}

\* The labels of a run with indexes to publish, and those after them.
Indexing == {"packages", "byHash", "canonical"}
Indexed == {"sign", "deleteGpg", "deleteInRelease", "putRelease"}

\* The indexes are ahead of the Release that lists them.
Ahead == Indexed \cup {"canonical"}

\* What the stored Release lists.
Contents(c) ==
  IF release[c] = NoObject THEN [n \in IndexNames |-> NoObject] ELSE release[c].files

\* While no run is between the two, the Release lists what the indexes contain.
StoreMatches ==
  \A c \in Codenames :
    (\A p \in Runs : Codename(p) = c => pc[p] \notin Ahead) =>
      \A n \in IndexNames : index[c][n] = Contents(c)[n]

\* What a command has in memory of an index.
ReadPackages(p, arch) ==
  LET j == job[p]
      packages == PackagesOf(index[j.codename][<<j.component, arch, "Packages">>])
  IN  IF j.op = "delete"
      THEN DeletePackage(packages, j.name, j.all, j.versions) ELSE packages

\* The canonical index is among those the run has still to write.
Unwritten(p, n) ==
  \E i \in DOMAIN Batch(p) :
    Batch(p)[i].name = n /\ (pc[p] = "canonical" => i >= at[p])

\* The Release in memory lists what the index contains.
ListsIndex(p, n) == rel[p].files[n] = index[Codename(p)][n]

\* The manifests in memory are those of the indexes.
ReadMatches(p) ==
  Changing(p) /\ pc[p] = "manifests" =>
    /\ \A n \in IndexNames : ListsIndex(p, n)
    /\ \A m \in ToSet(manifests[p]) :
         m.component = job[p].component /\ m.packages = ReadPackages(p, m.arch)

\* The Release in memory lists the artifacts of the batch, and for the rest what
\* the indexes contain.
BatchMatches(p) ==
  pc[p] \in Indexing =>
    /\ Len(batches[p]) = 1
    /\ \A i \in DOMAIN Batch(p) : rel[p].files[Batch(p)[i].name] = Batch(p)[i].body
    /\ \A n \in IndexNames : ListsIndex(p, n) \/ Unwritten(p, n)

\* How far the run is determines what its Release lists.
RunMatches(p) ==
  /\ pc[p] \in WritingLabels \cup {"sign"} => Changing(p)
  /\ ReadMatches(p)
  /\ BatchMatches(p)
  /\ pc[p] \in Indexed => \A n \in IndexNames : ListsIndex(p, n)

\* The inductive invariant.
MatchInv == StoreMatches /\ \A p \in Runs : RunMatches(p)

\* What the arguments below start from.
MatchHypotheses == ChangesUnderLock /\ TypeInv /\ WorksUnderLock /\ MatchInv

\* Two runs never change the indexes of one codename at the same time.
LEMMA OneChange ==
  ASSUME ChangesUnderLock, TypeOK, WorksUnderLock, NEW p \in Runs, NEW q \in Runs, p # q,
         Changing(p), Changing(q), pc[p] \in Working, pc[q] \in Working
  PROVE  Codename(p) # Codename(q)
<1>1. job[p] \in JobsOf[p] /\ job[q] \in JobsOf[q]
  BY DEF TypeOK
<1>2. job[p].lock /\ job[q].lock
  BY <1>1 DEF ChangesUnderLock, Changing
<1>3. lockfile[Codename(p)] = p /\ lockfile[Codename(q)] = q
  BY <1>2 DEF WorksUnderLock, Working
<1>4. QED
  BY <1>3

\* Nothing happens to a run in a step of another one.
Aside(p) ==
  /\ job' = job
  /\ \A q \in Runs \ {p} :
       /\ pc'[q] = pc[q] /\ rel'[q] = rel[q] /\ batches'[q] = batches[q]
       /\ at'[q] = at[q] /\ manifests'[q] = manifests[q]

\* The step changes nothing but its own codename, and that only while it holds
\* the lock.
Keeps(p) ==
  /\ \A d \in Codenames \ {Codename(p)} :
       index'[d] = index[d] /\ release'[d] = release[d]
  /\ \/ index'[Codename(p)] = index[Codename(p)]
     \/ Changing(p) /\ pc[p] \in Working

\* The runs that do not take the step keep their invariant.
LEMMA OthersMatch ==
  ASSUME MatchHypotheses, NEW p \in Runs, Aside(p), Keeps(p), NEW q \in Runs, q # p
  PROVE  RunMatches(q)'
<1>1. /\ pc'[q] = pc[q] /\ rel'[q] = rel[q] /\ batches'[q] = batches[q]
      /\ at'[q] = at[q] /\ manifests'[q] = manifests[q] /\ job'[q] = job[q]
  BY DEF Aside
<1>2. /\ Codename(q)' = Codename(q) /\ Changing(q)' = Changing(q)
      /\ Batch(q)' = Batch(q)
  BY <1>1 DEF Codename, Changing, Batch
<1>3. RunMatches(q) /\ TypeOK
  BY DEF MatchHypotheses, MatchInv, TypeInv
<1>4. Codename(q) \in Codenames /\ Codename(p) \in Codenames
  BY <1>3, CodenameType
<1>5. CASE Changing(q) /\ pc[q] \in Working
  <2>1. index'[Codename(q)] = index[Codename(q)]
    BY <1>3, <1>4, <1>5, OneChange DEF Keeps, MatchHypotheses
  <2>2. \A n : ListsIndex(q, n)' <=> ListsIndex(q, n)
    BY <1>1, <1>2, <2>1 DEF ListsIndex
  <2>3. \A n : Unwritten(q, n)' <=> Unwritten(q, n)
    BY <1>1, <1>2 DEF Unwritten
  <2>4. \A arch : ReadPackages(q, arch)' = ReadPackages(q, arch)
    BY <1>1, <2>1 DEF ReadPackages, Codename
  <2>5. ReadMatches(q)'
    BY <1>1, <1>2, <1>3, <2>2, <2>4 DEF RunMatches, ReadMatches
  <2>6. BatchMatches(q)'
    BY <1>1, <1>2, <1>3, <2>2, <2>3 DEF RunMatches, BatchMatches
  <2>7. QED
    BY <1>1, <1>2, <1>3, <2>2, <2>5, <2>6 DEF RunMatches
<1>6. CASE ~(Changing(q) /\ pc[q] \in Working)
  <2>1. pc[q] \notin WritingLabels \cup {"sign"}
        /\ ~(Changing(q) /\ pc[q] = "manifests")
    BY <1>3, <1>6 DEF RunMatches, WritingLabels, Working, Labels
  <2>2. QED
    BY <1>1, <1>2, <2>1
    DEF RunMatches, ReadMatches, BatchMatches, WritingLabels, Indexing, Indexed
<1>7. QED
  BY <1>5, <1>6

\* A step keeps the invariant when it leaves the store alone, or leaves the
\* indexes ahead of the Release, or makes the Release list them.
LEMMA StepMatches ==
  ASSUME MatchHypotheses, NEW p \in Runs, Aside(p), Keeps(p), RunMatches(p)',
         \/ pc'[p] \in Ahead
         \/ /\ pc[p] \notin Ahead
            /\ index'[Codename(p)] = index[Codename(p)]
            /\ release'[Codename(p)] = release[Codename(p)]
         \/ \A c \in Codenames, n \in IndexNames :
              c = Codename(p) => index'[c][n] = Contents(c)'[n]
  PROVE  MatchInv'
<1>1. \A q \in Runs : RunMatches(q)'
  BY OthersMatch
<1>2. \A q \in Runs : Codename(q)' = Codename(q)
  BY DEF Aside, Codename
<1>3. StoreMatches'
  <2> SUFFICES ASSUME NEW c \in Codenames,
                      \A q \in Runs : Codename(q)' = c => pc'[q] \notin Ahead,
                      NEW n \in IndexNames
               PROVE  index'[c][n] = Contents(c)'[n]
    BY DEF StoreMatches
  <2>1. \A q \in Runs \ {p} : Codename(q) = c => pc[q] \notin Ahead
    BY <1>2 DEF Aside
  <2>2. CASE c # Codename(p)
    <3>1. index[c][n] = Contents(c)[n]
      BY <2>1, <2>2 DEF MatchHypotheses, MatchInv, StoreMatches
    <3>2. index'[c] = index[c] /\ release'[c] = release[c]
      BY <2>2 DEF Keeps
    <3>3. QED
      BY <3>1, <3>2 DEF Contents
  <2>3. CASE c = Codename(p)
    <3>1. pc'[p] \notin Ahead
      BY <1>2, <2>3
    <3>2. CASE /\ pc[p] \notin Ahead
               /\ index'[c] = index[c] /\ release'[c] = release[c]
      <4>1. index[c][n] = Contents(c)[n]
        BY <2>1, <3>2 DEF MatchHypotheses, MatchInv, StoreMatches
      <4>2. QED
        BY <3>2, <4>1 DEF Contents
    <3>3. CASE \A d \in Codenames, m \in IndexNames :
                 d = Codename(p) => index'[d][m] = Contents(d)'[m]
      BY <2>3, <3>3
    <3>4. QED
      BY <2>3, <3>1, <3>2, <3>3
  <2>4. QED
    BY <2>2, <2>3
<1>4. QED
  BY <1>1, <1>3 DEF MatchInv

---------------------------------------------------------------------------
(* The steps *)

\* A step outside the publication of indexes keeps the invariant.
LEMMA RestMatches ==
  ASSUME MatchHypotheses, NEW p \in Runs, Aside(p), UNCHANGED <<index, release>>,
         pc[p] \notin Ahead, pc'[p] \notin Indexing \cup Indexed,
         pc'[p] = "manifests" => ~Changing(p),
         pc'[p] \in WritingLabels => Changing(p)
  PROVE  MatchInv'
<1>1. Changing(p)' = Changing(p)
  BY DEF Changing, Aside
<1>2. RunMatches(p)'
  BY <1>1 DEF RunMatches, ReadMatches, BatchMatches, Indexing, Indexed, WritingLabels
<1>3. QED
  BY <1>2, StepMatches DEF Keeps

\* So do the steps of the lock, of queries and of clean, and reads that precede
\* the Release.
LEMMA RestingMatches ==
  ASSUME MatchHypotheses, NEW p \in Runs,
         \/ Start(p) \/ TakeLock(p) \/ GiveUp(p) \/ Unlock(p)
         \/ RetrieveSource(p) \/ HeadPackage(p) \/ HeadsDone(p)
         \/ ListManifest(p) \/ Answer(p) \/ LookUp(p)
         \/ ListIndexes(p) \/ ScanIndex(p) \/ ListPool(p)
         \/ DeletePoolObject(p) \/ SweepDone(p)
  PROVE  MatchInv'
<1> USE DEF Goto, store, memory, reading
<1>1. /\ pc \in [Runs -> Labels] /\ RunOK(p) /\ RunMatches(p)
      /\ job[p] \in JobsOf[p]
  BY DEF MatchHypotheses, TypeInv, TypeOK, RunsOK, MatchInv
<1>2. pc[p] # "heads"
  BY <1>1 DEF RunOK, MatchHypotheses, ChangesUnderLock
<1>3. CASE \/ Start(p) \/ TakeLock(p) \/ GiveUp(p) \/ Unlock(p)
           \/ RetrieveSource(p) \/ Answer(p) \/ LookUp(p)
           \/ ListIndexes(p) \/ ListPool(p) \/ SweepDone(p)
  <2>1. UNCHANGED <<index, release, job, rel, batches, at, manifests>>
    BY <1>3 DEF Start, TakeLock, GiveUp, Unlock, RetrieveSource, Answer, LookUp,
                ListIndexes, ListPool, SweepDone
  <2>2. \E label \in {"lock", "source", "list", "lookup", "release", "scan", "sweep",
                      "unlock", "ended"} : pc' = [pc EXCEPT ![p] = label]
    BY <1>3 DEF Start, FirstRead, TakeLock, GiveUp, Unlock, RetrieveSource, Answer,
                LookUp, ListIndexes, ListPool, SweepDone, Finish
  <2>3. pc[p] \notin Ahead
    BY <1>3 DEF Start, TakeLock, GiveUp, Unlock, RetrieveSource, Answer, LookUp,
                ListIndexes, ListPool, SweepDone, Ahead, Indexed
  <2>4. Aside(p) /\ pc'[p] \notin Indexing \cup Indexed \cup WritingLabels \cup {"manifests"}
    BY <1>1, <2>1, <2>2 DEF Aside, Indexing, Indexed, WritingLabels
  <2>5. QED
    BY <2>1, <2>3, <2>4, RestMatches
<1>4. CASE ListManifest(p) \/ ScanIndex(p) \/ DeletePoolObject(p)
  <2>1. UNCHANGED <<index, release, job, rel, batches, at, manifests, pc>>
    BY <1>4, Zenon DEF ListManifest, ScanIndex, DeletePoolObject
  <2>2. /\ pc[p] \in {"manifests", "scan", "sweep"}
        /\ pc[p] = "manifests" => job[p].op = "list"
    BY <1>4 DEF ListManifest, ScanIndex, DeletePoolObject
  <2>3. Aside(p) /\ (pc[p] = "manifests" => ~Changing(p))
    BY <2>1, <2>2 DEF Aside, Changing
  <2>4. QED
    <3>1. pc[p] \notin Ahead /\ pc'[p] \notin Indexing \cup Indexed \cup WritingLabels
      BY <2>1, <2>2 DEF Ahead, Indexing, Indexed, WritingLabels
    <3>2. QED
      BY <2>1, <2>3, <3>1, RestMatches
<1>5. ~HeadPackage(p) /\ ~HeadsDone(p)
  BY <1>2 DEF HeadPackage, HeadsDone
<1>6. QED
  BY <1>3, <1>4, <1>5

\* The Release that is retrieved lists what the indexes contain: whoever changed
\* them has stored its own.
LEMMA RetrieveReleaseMatches ==
  ASSUME MatchHypotheses, NEW p \in Runs, RetrieveRelease(p)
  PROVE  MatchInv'
<1> DEFINE c == Codename(p)
           r == Retrieved(release[c], job[p].byHash)
<1>1. /\ TypeOK /\ RunOK(p) /\ c \in Codenames /\ pc \in [Runs -> Labels]
      /\ rel \in [Runs -> Releases] /\ release[c] \in {NoObject} \cup Releases
  BY CodenameType DEF MatchHypotheses, TypeInv, TypeOK, RunsOK
<1>2. /\ pc[p] = "release" /\ pc' = [pc EXCEPT ![p] = "manifests"]
      /\ rel' = [rel EXCEPT ![p] = r]
      /\ UNCHANGED <<index, release, job, batches, at, manifests>>
  BY DEF RetrieveRelease, Goto, store
<1>3. /\ Aside(p) /\ pc'[p] = "manifests" /\ rel'[p] = r
      /\ Changing(p)' = Changing(p)
  BY <1>1, <1>2 DEF Aside, Changing
<1>4. \A n \in IndexNames : r.files[n] = Contents(c)[n]
  BY <1>1 DEF Retrieved, NewRelease, Contents, Releases
<1>5. ASSUME Changing(p)
      PROVE  \A n \in IndexNames : r.files[n] = index[c][n]
  <2>1. ASSUME NEW q \in Runs, Codename(q) = c PROVE pc[q] \notin Ahead
    <3>1. SUFFICES ASSUME pc[q] \in Ahead PROVE FALSE
      OBVIOUS
    <3>2. Changing(q)
      BY <3>1 DEF MatchHypotheses, MatchInv, RunMatches, Ahead, Indexed, WritingLabels
    <3>3. p # q /\ pc[p] \in Working /\ pc[q] \in Working
      BY <1>2, <3>1 DEF Ahead, Indexed, Working, Labels
    <3>4. QED
      BY <1>1, <1>5, <2>1, <3>2, <3>3, OneChange DEF MatchHypotheses
  <2>2. QED
    BY <1>1, <1>4, <2>1 DEF MatchHypotheses, MatchInv, StoreMatches
<1>6. manifests'[p] = <<>>
  BY <1>1, <1>2 DEF RunOK
<1>7. RunMatches(p)'
  <2>1. Codename(p)' = c
    BY <1>2 DEF Codename
  <2>2. \A m \in ToSet(manifests'[p]) : FALSE
    BY <1>6 DEF ToSet
  <2>3. Changing(p) => \A n \in IndexNames : ListsIndex(p, n)'
    BY <1>2, <1>3, <1>5, <2>1 DEF ListsIndex
  <2>4. ReadMatches(p)'
    BY <1>3, <2>2, <2>3 DEF ReadMatches
  <2>5. QED
    BY <1>3, <2>4 DEF RunMatches, BatchMatches, WritingLabels, Indexing, Indexed
<1>8. QED
  BY <1>2, <1>3, <1>7, StepMatches DEF Keeps, Ahead, Indexed

\* A manifest in memory is that of the index under the lock.
LEMMA RetrieveManifestMatches ==
  ASSUME MatchHypotheses, NEW p \in Runs, RetrieveManifest(p)
  PROVE  MatchInv'
<1> DEFINE j == job[p]
           c == Codename(p)
           arch == Head(todo[p])
           packages == PackagesOf(index[j.codename][<<j.component, arch, "Packages">>])
           left == IF j.op = "delete"
                   THEN DeletePackage(packages, j.name, j.all, j.versions)
                   ELSE packages
           m == [component |-> j.component, arch |-> arch, packages |-> left]
<1>1. /\ pc[p] = "manifests" /\ RunOK(p) /\ RunMatches(p)
      /\ job[p] \in JobsOf[p] /\ pc \in [Runs -> Labels]
      /\ manifests \in [Runs -> Seq(Manifest)]
  BY DEF MatchHypotheses, TypeInv, TypeOK, RunsOK, MatchInv, RetrieveManifest
<1>2. j.op # "verify"
  BY <1>1 DEF MatchHypotheses, ChangesUnderLock
<1>3. /\ UNCHANGED <<pc, index, release, job, rel, batches, at>>
      /\ manifests' = [manifests EXCEPT ![p] =
                         IF j.op = "delete" /\ left = packages THEN @ ELSE Append(@, m)]
  BY <1>2 DEF RetrieveManifest, store
<1>4. left = ReadPackages(p, arch)
  BY DEF ReadPackages
<1>5. /\ Aside(p) /\ Changing(p)' = Changing(p) /\ Codename(p)' = c
      /\ manifests'[p] \in {manifests[p], Append(manifests[p], m)}
  BY <1>1, <1>3 DEF Aside, Changing, Codename
<1>6. m.component = j.component /\ m.arch = arch /\ m.packages = left
  OBVIOUS
<1> HIDE DEF m, left, packages
<1>7. \A x \in ToSet(manifests'[p]) : x \in ToSet(manifests[p]) \/ x = m
  <2>1. manifests[p] \in Seq(Manifest)
    BY <1>1
  <2>2. ToSet(Append(manifests[p], m)) = ToSet(manifests[p]) \cup {m}
    BY <2>1, AppendRange
  <2>3. QED
    BY <1>5, <2>2
<1>8. \A a : ReadPackages(p, a)' = ReadPackages(p, a)
  BY <1>3 DEF ReadPackages
<1>9. ReadMatches(p)'
  <2>1. \A n : ListsIndex(p, n)' <=> ListsIndex(p, n)
    BY <1>3, <1>5 DEF ListsIndex
  <2> SUFFICES ASSUME Changing(p)
               PROVE  /\ \A n \in IndexNames : ListsIndex(p, n)
                      /\ \A x \in ToSet(manifests'[p]) :
                           /\ x.component = j.component
                           /\ x.packages = ReadPackages(p, x.arch)
    BY <1>3, <1>5, <1>8, <2>1 DEF ReadMatches
  <2>2. QED
    BY <1>1, <1>4, <1>6, <1>7 DEF RunMatches, ReadMatches
<1>10. RunMatches(p)'
  BY <1>1, <1>3, <1>9 DEF RunMatches, BatchMatches, WritingLabels, Indexing, Indexed
<1>11. QED
  BY <1>1, <1>3, <1>5, <1>10, StepMatches DEF Keeps, Ahead, Indexed

\* Manifests for the same index agree.
Agree(ms) ==
  \A m \in ToSet(ms), x \in ToSet(ms) :
    m.component = x.component /\ m.arch = x.arch => m.packages = x.packages

\* The manifests that enter a Release and its missing ones agree with what it
\* lists then.
LEMMA PreparedLists ==
  ASSUME NEW r \in Releases, NEW changed \in Seq(Manifest), Agree(changed)
  PROVE  LET updated == UpdateManifests(r, changed)
             missing == MissingManifests(updated)
             final == UpdateManifests(updated, missing)
         IN  \A a \in ToSet(Artifacts(changed \o missing)) : final.files[a.name] = a.body
<1> DEFINE updated == UpdateManifests(r, changed)
           missing == MissingManifests(updated)
           final == UpdateManifests(updated, missing)
<1>1. updated \in Releases
  BY UpdateManifestsType
<1>2. \A n \in IndexNames :
        \/ /\ updated.files[n] = r.files[n]
           /\ \A m \in ToSet(changed) : ~Lists(m, n)
        \/ \E m \in ToSet(changed) : Lists(m, n) /\ updated.files[n] = m.packages
  BY UpdateManifestsFacts
<1> HIDE DEF updated
<1>3. /\ missing \in Seq(Manifest)
      /\ \A m \in ToSet(missing) :
           /\ m.packages = <<>>
           /\ updated.files[<<m.component, m.arch, "Packages">>] = NoObject
  BY <1>1, MissingManifestsType, MissingManifestsFacts
<1> HIDE DEF missing
<1>4. \A n \in IndexNames :
        \/ /\ final.files[n] = updated.files[n]
           /\ \A m \in ToSet(missing) : ~Lists(m, n)
        \/ \E m \in ToSet(missing) : Lists(m, n) /\ final.files[n] = m.packages
  BY <1>1, <1>3, UpdateManifestsFacts
<1> HIDE DEF final
<1>5. changed \o missing \in Seq(Manifest)
      /\ ToSet(changed \o missing) = ToSet(changed) \cup ToSet(missing)
  BY <1>3, ConcatRange
<1>6. ASSUME NEW a \in ToSet(Artifacts(changed \o missing))
      PROVE  final.files[a.name] = a.body
  <2>1. a.name \in IndexNames
    <3>1. Artifacts(changed \o missing) \in Seq(Artifact)
      BY <1>5, ArtifactsType
    <3>2. a \in Artifact
      BY <3>1 DEF ToSet
    <3>3. QED
      BY <3>2 DEF Artifact
  <2>2. PICK m \in ToSet(changed) \cup ToSet(missing) :
          Lists(m, a.name) /\ a.body = m.packages
    BY <1>5, ArtifactsFacts
  <2>3. CASE \E x \in ToSet(missing) : Lists(x, a.name)
    <3>1. PICK x \in ToSet(missing) : Lists(x, a.name)
      BY <2>3
    <3>2. final.files[a.name] = <<>>
      BY <1>3, <1>4, <2>1, <3>1
    <3>3. m \notin ToSet(changed)
      <4>1. SUFFICES ASSUME m \in ToSet(changed) PROVE FALSE
        OBVIOUS
      <4> DEFINE plain == <<x.component, x.arch, "Packages">>
      <4>2. x \in Manifest
        BY <1>3, <3>1 DEF ToSet
      <4>3. plain \in IndexNames
        BY <4>2, PlainName DEF Manifest
      <4>4. Lists(m, plain)
        BY <2>2, <3>1 DEF Lists
      <4>5. PICK y \in ToSet(changed) : updated.files[plain] = y.packages
        BY <1>2, <4>1, <4>3, <4>4
      <4>6. y.packages \in Packages
        <5>1. y \in Manifest
          BY <4>5 DEF ToSet
        <5>2. QED
          BY <5>1 DEF Manifest
      <4>7. updated.files[plain] = NoObject
        BY <1>3, <3>1
      <4>8. QED
        BY <4>5, <4>6, <4>7, ObjectsAssumption
    <3>4. QED
      BY <1>3, <2>2, <3>2, <3>3
  <2>4. CASE \A x \in ToSet(missing) : ~Lists(x, a.name)
    <3>1. m \in ToSet(changed) /\ final.files[a.name] = updated.files[a.name]
      BY <1>4, <2>1, <2>2, <2>4
    <3>2. PICK y \in ToSet(changed) :
            Lists(y, a.name) /\ updated.files[a.name] = y.packages
      BY <1>2, <2>1, <2>2, <3>1
    <3>3. y.packages = m.packages
      BY <2>2, <3>1, <3>2 DEF Agree, Lists
    <3>4. QED
      BY <2>2, <3>1, <3>2, <3>3
  <2>5. QED
    BY <2>3, <2>4
<1>7. QED
  BY <1>6 DEF final, missing, updated

\* The manifests that an upload has changed agree when those it read are the ones
\* of the indexes; there is one for each that it read.
LEMMA UploadAgrees ==
  ASSUME TypeOK, NEW p \in Runs, DecideUpload(p),
         \A m \in ToSet(manifests[p]) :
           m.component = job[p].component /\ m.packages = ReadPackages(p, m.arch)
  PROVE  \/ Nothing(p, "error")
         \/ \E changed \in Seq(Manifest) : \E uploads :
              /\ Prepare(p, changed, uploads)
              /\ Agree(changed)
              /\ \A m \in ToSet(manifests[p]) : \E x \in ToSet(changed) :
                   x.component = m.component /\ x.arch = m.arch
<1> DEFINE j == job[p]
           ms == manifests[p]
           added == [i \in DOMAIN ms |-> Added(j, ms[i])]
           changed == [i \in DOMAIN ms |->
                         [ms[i] EXCEPT !.packages = added[i].packages]]
           uploads == Uploads(j, ms)
<1>1. j \in Jobs /\ ms \in Seq(Manifest)
  BY JobType DEF TypeOK
<1>2. Nothing(p, "error") \/ Prepare(p, changed, uploads)
  BY DEF DecideUpload
<1>3. DOMAIN ms = 1..Len(ms) /\ Len(ms) \in Nat
        /\ \A i \in 1..Len(ms) : ms[i] \in Manifest /\ ms[i] \in ToSet(ms)
  BY <1>1 DEF ToSet
<1>4. ASSUME NEW i \in 1..Len(ms)
      PROVE  /\ changed[i] \in Manifest
             /\ changed[i].packages = Added(j, ms[i]).packages
             /\ changed[i].arch = ms[i].arch
             /\ changed[i].component = ms[i].component
  <2>1. ms[i] \in Manifest /\ added[i] = Added(j, ms[i])
    BY <1>3
  <2>2. added[i].packages \in Packages
    BY <1>1, <2>1, AddedType
  <2>3. changed[i] = [ms[i] EXCEPT !.packages = added[i].packages]
    BY <1>3
  <2> HIDE DEF changed, added
  <2>4. QED
    BY <2>1, <2>2, <2>3 DEF Manifest
<1>5. changed \in Seq(Manifest) /\ DOMAIN changed = 1..Len(ms)
  <2>1. changed = [i \in 1..Len(ms) |-> changed[i]]
    BY <1>3
  <2> HIDE DEF changed
  <2>2. QED
    BY <1>3, <1>4, <2>1, SequenceType
<1> HIDE DEF changed, uploads
<1>6. ASSUME NEW i \in 1..Len(ms), NEW k \in 1..Len(ms), ms[i].arch = ms[k].arch
      PROVE  ms[i] = ms[k]
  <2>1. /\ ms[i] \in Manifest /\ ms[k] \in Manifest
        /\ ms[i].component = ms[k].component /\ ms[i].packages = ms[k].packages
    BY <1>3, <1>6
  <2>2. QED
    BY <1>6, <2>1 DEF Manifest
<1>7. Agree(changed)
  <2> SUFFICES ASSUME NEW m \in ToSet(changed), NEW x \in ToSet(changed),
                      m.arch = x.arch
               PROVE  m.packages = x.packages
    BY DEF Agree
  <2>1. PICK i \in 1..Len(ms), k \in 1..Len(ms) : m = changed[i] /\ x = changed[k]
    BY <1>5 DEF ToSet
  <2>2. ms[i] = ms[k]
    BY <1>4, <1>6, <2>1
  <2>3. QED
    BY <1>4, <2>1, <2>2
<1>8. ASSUME NEW m \in ToSet(ms)
      PROVE  \E x \in ToSet(changed) : x.component = m.component /\ x.arch = m.arch
  <2>1. PICK i \in 1..Len(ms) : m = ms[i]
    BY <1>3 DEF ToSet
  <2>2. changed[i] \in ToSet(changed)
    BY <1>5, <2>1 DEF ToSet
  <2>3. QED
    BY <1>4, <2>1, <2>2
<1>9. QED
  BY <1>2, <1>5, <1>7, <1>8

\* The manifests that a command has changed agree: each is made of what was read
\* of its index, in the same way.
LEMMA DecidesAgree ==
  ASSUME MatchHypotheses, NEW p \in Runs,
         DecideUpload(p) \/ DecideCopy(p) \/ DecideDelete(p) \/ DecideVerify(p)
  PROVE  /\ Changing(p)
         /\ \E op : Decide(p, op)
         /\ \/ \E changed \in Seq(Manifest) : \E uploads :
                 Prepare(p, changed, uploads) /\ Agree(changed)
            \/ \E how : Nothing(p, how)
<1>1. /\ TypeOK /\ RunOK(p) /\ RunMatches(p) /\ job[p] \in JobsOf[p]
      /\ pc[p] = "manifests" /\ todo[p] = <<>>
  BY DEF MatchHypotheses, TypeInv, TypeOK, RunsOK, MatchInv, DecideUpload, DecideCopy,
         DecideDelete, DecideVerify, Decide
<1>2. job[p] \in Jobs /\ manifests[p] \in Seq(Manifest) /\ kept[p] \in Packages
  BY <1>1, JobType DEF TypeOK
<1>3. ~DecideVerify(p)
  BY <1>1 DEF DecideVerify, Decide, MatchHypotheses, ChangesUnderLock
<1>4. Changing(p)
  BY <1>3 DEF Changing, DecideUpload, DecideCopy, DecideDelete, Decide
<1>5. \A m \in ToSet(manifests[p]) :
        m.component = job[p].component /\ m.packages = ReadPackages(p, m.arch)
  BY <1>1, <1>4 DEF RunMatches, ReadMatches
<1>6. \A m \in ToSet(manifests[p]), x \in ToSet(manifests[p]) :
        m.arch = x.arch => m = x
  <2> SUFFICES ASSUME NEW m \in ToSet(manifests[p]), NEW x \in ToSet(manifests[p]),
                      m.arch = x.arch
               PROVE  m = x
    OBVIOUS
  <2>1. m \in Manifest /\ x \in Manifest
    BY <1>2 DEF ToSet
  <2>2. m.component = x.component /\ m.packages = x.packages
    BY <1>5
  <2>3. QED
    BY <2>1, <2>2 DEF Manifest
<1>7. CASE DecideUpload(p)
  <2>1. Decide(p, "upload")
    BY <1>7 DEF DecideUpload
  <2>2. QED
    BY <1>1, <1>4, <1>5, <1>7, <2>1, UploadAgrees
<1>8. CASE DecideCopy(p)
  <2> DEFINE j == job[p]
             m == manifests[p][1]
             added == AddAll(m.packages, kept[p], j.preserve, j.failIfExists)
             copied == [m EXCEPT !.packages = added.packages]
  <2>1. Decide(p, "copy") /\ (Nothing(p, "error") \/ Prepare(p, <<copied>>, <<>>))
    BY <1>8 DEF DecideCopy
  <2>2. m \in Manifest
    <3>1. Len(todo[p]) + Len(manifests[p]) = 1 /\ todo[p] = <<>>
      BY <1>1, <2>1 DEF Decide, RunOK
    <3>2. Len(todo[p]) = 0
      BY <3>1
    <3>3. QED
      BY <1>2, <3>1, <3>2
  <2>3. added.packages \in Packages
    BY <1>2, <2>2, AddAllRange DEF Manifest, Packages
  <2> HIDE DEF m, added
  <2>4. copied \in Manifest
    BY <2>2, <2>3 DEF Manifest
  <2> HIDE DEF copied
  <2>5. <<copied>> \in Seq(Manifest) /\ ToSet(<<copied>>) = {copied}
    BY <2>4 DEF ToSet
  <2>6. Agree(<<copied>>)
    BY <2>5 DEF Agree
  <2>7. QED
    BY <1>4, <2>1, <2>5, <2>6
<1>9. CASE DecideDelete(p)
  <2>1. Decide(p, "delete") /\ (Nothing(p, "error") \/ Prepare(p, manifests[p], <<>>))
    BY <1>9 DEF DecideDelete
  <2>2. Agree(manifests[p])
    BY <1>6 DEF Agree
  <2>3. QED
    BY <1>2, <1>4, <2>1, <2>2
<1>10. QED
  BY <1>3, <1>7, <1>8, <1>9

\* What is published of a decision leaves nothing that the Release in memory
\* lists, and the indexes lack, out.
LEMMA DecideMatches ==
  ASSUME MatchHypotheses, NEW p \in Runs,
         DecideUpload(p) \/ DecideCopy(p) \/ DecideDelete(p) \/ DecideVerify(p)
  PROVE  MatchInv'
<1> DEFINE c == Codename(p)
<1>1. /\ TypeOK /\ RunMatches(p) /\ pc \in [Runs -> Labels] /\ rel \in [Runs -> Releases]
      /\ DOMAIN batches = Runs /\ DOMAIN manifests = Runs
  BY DEF MatchHypotheses, TypeInv, TypeOK, MatchInv
<1>2. /\ Changing(p) /\ pc[p] = "manifests"
      /\ UNCHANGED <<index, release, job, at>>
      /\ manifests' = [manifests EXCEPT ![p] = <<>>]
  BY DecidesAgree DEF Decide, store
<1>3. CASE \E how : Nothing(p, how)
  <2>1. \E label \in {"unlock", "ended"} : pc' = [pc EXCEPT ![p] = label]
    BY <1>3 DEF Nothing, Finish, Goto
  <2>2. Aside(p)
    BY <1>1, <1>2, <1>3, <2>1 DEF Nothing, Aside
  <2>3. QED
    BY <1>1, <1>2, <2>1, <2>2, RestMatches DEF Ahead, Indexing, Indexed, WritingLabels
<1>4. ASSUME NEW changed \in Seq(Manifest), NEW uploads,
             Prepare(p, changed, uploads), Agree(changed)
      PROVE  MatchInv'
  <2> DEFINE updated == UpdateManifests(rel[p], changed)
             missing == MissingManifests(updated)
             final == UpdateManifests(updated, missing)
             artifacts == Artifacts(changed \o missing)
  <2>1. /\ rel' = [rel EXCEPT ![p] = final]
        /\ batches' = [batches EXCEPT ![p] = <<artifacts>>]
        /\ pc' = [pc EXCEPT ![p] = "packages"]
    BY <1>4 DEF Prepare, Goto
  <2>2. \A a \in ToSet(artifacts) : final.files[a.name] = a.body
    BY <1>1, <1>4, PreparedLists
  <2>3. Publishes(rel[p], rel'[p], Pending(p)')
    BY <1>1, <1>4, PreparePublishes
  <2> HIDE DEF updated, missing, final, artifacts
  <2>4. /\ rel'[p] = final /\ batches'[p] = <<artifacts>> /\ pc'[p] = "packages"
        /\ Aside(p) /\ Changing(p)' = Changing(p) /\ Codename(p)' = c
    BY <1>1, <1>2, <2>1 DEF Aside, Changing, Codename
  <2>5. /\ Len(batches'[p]) = 1 /\ Batch(p)' = artifacts
        /\ Pending(p)' = ToSet(artifacts)
    BY <2>4 DEF Batch, Pending
  <2>6. ASSUME NEW n \in IndexNames PROVE ListsIndex(p, n)' \/ Unwritten(p, n)'
    <3>1. CASE rel'[p].files[n] = rel[p].files[n]
      BY <1>1, <1>2, <2>4, <3>1 DEF RunMatches, ReadMatches, ListsIndex
    <3>2. CASE [name |-> n, body |-> rel'[p].files[n]] \in ToSet(artifacts)
      <4>1. PICK i \in DOMAIN artifacts : artifacts[i].name = n
        BY <3>2 DEF ToSet
      <4>2. QED
        BY <2>4, <2>5, <4>1 DEF Unwritten
    <3>3. QED
      BY <2>3, <2>5, <3>1, <3>2 DEF Publishes
  <2>7. \A i \in DOMAIN artifacts : final.files[artifacts[i].name] = artifacts[i].body
    BY <2>2 DEF ToSet
  <2>8. BatchMatches(p)'
    BY <2>4, <2>5, <2>6, <2>7 DEF BatchMatches
  <2>9. RunMatches(p)'
    BY <1>2, <2>4, <2>8 DEF RunMatches, ReadMatches, Indexed
  <2>10. QED
    BY <1>2, <2>4, <2>9, StepMatches DEF Keeps, Ahead, Indexed
<1>5. QED
  BY <1>3, <1>4, DecidesAgree

\* Until the first canonical index is written, what the batch says still stands.
LEMMA BeforeCanonical ==
  ASSUME MatchHypotheses, NEW p \in Runs, UNCHANGED reading,
         PutPackage(p) \/ PackagesDone(p) \/ PutByHash(p) \/ ByHashDone(p)
  PROVE  MatchInv'
<1> USE DEF Goto, store, memory, reading
<1>1. /\ TypeOK /\ RunMatches(p) /\ pc \in [Runs -> Labels]
      /\ batches \in [Runs -> Seq(Seq(Artifact))] /\ at \in [Runs -> Nat \ {0}]
  BY DEF MatchHypotheses, TypeInv, TypeOK, MatchInv
<1>2. /\ pc[p] \in {"packages", "byHash"}
      /\ UNCHANGED <<index, release, job, rel, batches, manifests>>
      /\ at' = at \/ \E i : at' = [at EXCEPT ![p] = i]
  BY DEF PutPackage, PackagesDone, PutByHash, ByHashDone
<1>3. /\ Changing(p) /\ BatchMatches(p) /\ Len(batches[p]) = 1
  BY <1>1, <1>2 DEF RunMatches, BatchMatches, WritingLabels, Indexing
<1>4. batches[p] # <<>> /\ Batch(p) \in Seq(Artifact)
  <2>1. batches[p] \in Seq(Seq(Artifact))
    BY <1>1
  <2>2. batches[p] # <<>>
    BY <1>3, EmptySeq
  <2>3. QED
    BY <2>1, <2>2 DEF Batch
<1>5. \/ \E label \in {"unlock", "ended"} : pc' = [pc EXCEPT ![p] = label]
      \/ \E label \in {"packages", "byHash"} : pc' = [pc EXCEPT ![p] = label]
      \/ pc' = [pc EXCEPT ![p] = "canonical"] /\ at' = [at EXCEPT ![p] = 1]
  <2>1. pc' = pc => \E label \in {"packages", "byHash"} : pc' = [pc EXCEPT ![p] = label]
    BY <1>1, <1>2
  <2>2. QED
    BY <1>4, <2>1 DEF PutPackage, PackagesDone, PutByHash, ByHashDone, Finish
<1>6. /\ Aside(p) /\ Changing(p)' = Changing(p) /\ Batch(p)' = Batch(p)
      /\ Codename(p)' = Codename(p)
      /\ \/ pc'[p] \in {"unlock", "ended", "packages", "byHash"}
         \/ pc'[p] = "canonical" /\ at'[p] = 1
  BY <1>1, <1>2, <1>5 DEF Aside, Changing, Batch, Codename
<1>7. CASE pc'[p] \in {"unlock", "ended"}
  BY <1>2, <1>6, <1>7, RestMatches DEF Ahead, Indexing, Indexed, WritingLabels
<1>8. CASE pc'[p] \in Indexing
  <2>1. \A n \in IndexNames : ListsIndex(p, n)' \/ Unwritten(p, n)'
    <3>1. \A i \in DOMAIN Batch(p) : i >= 1
      BY <1>4
    <3>2. \A n : Unwritten(p, n) => Unwritten(p, n)'
      BY <1>6, <1>8, <3>1 DEF Unwritten, Indexing
    <3>3. \A n : ListsIndex(p, n) => ListsIndex(p, n)'
      BY <1>2, <1>6 DEF ListsIndex
    <3>4. QED
      BY <1>2, <1>3, <3>2, <3>3 DEF BatchMatches, Indexing
  <2>2. BatchMatches(p)'
    BY <1>2, <1>3, <1>6, <2>1 DEF BatchMatches, Indexing
  <2>3. RunMatches(p)'
    BY <1>3, <1>6, <1>8, <2>2 DEF RunMatches, ReadMatches, Indexing, Indexed
  <2>4. QED
    BY <1>2, <1>6, <2>3, StepMatches DEF Keeps, Ahead, Indexed
<1>9. QED
  BY <1>6, <1>7, <1>8 DEF Indexing

\* A canonical index becomes what the Release in memory lists.
LEMMA PutCanonicalMatches ==
  ASSUME MatchHypotheses, NEW p \in Runs, UNCHANGED reading, PutCanonical(p)
  PROVE  MatchInv'
<1> USE DEF Goto, store, memory, reading
<1> DEFINE c == Codename(p)
           a == Batch(p)[at[p]]
<1>1. /\ TypeOK /\ RunMatches(p) /\ RunOK(p) /\ c \in Codenames
      /\ batches \in [Runs -> Seq(Seq(Artifact))] /\ at \in [Runs -> Nat \ {0}]
      /\ index \in [Codenames -> [IndexNames -> {NoObject} \cup Packages]]
  BY CodenameType DEF MatchHypotheses, TypeInv, TypeOK, RunsOK, MatchInv
<1>2. /\ pc[p] = "canonical" /\ ArtifactsLeft(p)
      /\ index' = [index EXCEPT ![c][a.name] = a.body]
      /\ at' = [at EXCEPT ![p] = @ + 1]
      /\ UNCHANGED <<pc, release, job, rel, batches, manifests>>
  BY DEF PutCanonical
<1>3. Changing(p) /\ BatchMatches(p) /\ batches[p] # <<>>
  BY <1>1, <1>2 DEF RunMatches, WritingLabels, RunOK
<1>4. a.name \in IndexNames
  BY <1>1, <1>2, <1>3, ArtifactType
<1>5. Batch(p) \in Seq(Artifact) /\ at[p] \in DOMAIN Batch(p)
  <2>1. Batch(p) \in Seq(Artifact)
    BY <1>1, <1>3 DEF Batch
  <2>2. QED
    BY <1>1, <1>2, <2>1 DEF ArtifactsLeft
<1>6. rel[p].files[a.name] = a.body
  BY <1>2, <1>3, <1>5 DEF BatchMatches, Indexing
<1> HIDE DEF a
<1>7. /\ index'[c][a.name] = a.body
      /\ \A n \in IndexNames \ {a.name} : index'[c][n] = index[c][n]
      /\ \A d \in Codenames \ {c} : index'[d] = index[d]
  BY <1>1, <1>2, <1>4
<1>8. /\ Aside(p) /\ Changing(p)' = Changing(p) /\ Batch(p)' = Batch(p)
      /\ Codename(p)' = c /\ at'[p] = at[p] + 1 /\ rel' = rel /\ pc' = pc
  BY <1>1, <1>2 DEF Aside, Changing, Batch, Codename
<1>9. ASSUME NEW n \in IndexNames PROVE ListsIndex(p, n)' \/ Unwritten(p, n)'
  <2>1. CASE n = a.name
    BY <1>6, <1>7, <1>8, <2>1 DEF ListsIndex
  <2>2. CASE n # a.name /\ ListsIndex(p, n)
    BY <1>7, <1>8, <2>2 DEF ListsIndex
  <2>3. CASE n # a.name /\ Unwritten(p, n)
    <3>1. PICK i \in DOMAIN Batch(p) : Batch(p)[i].name = n /\ i >= at[p]
      BY <1>2, <2>3 DEF Unwritten
    <3>2. i # at[p]
      BY <2>3, <3>1 DEF a
    <3>3. i \in Nat /\ at[p] \in Nat
      BY <1>1, <1>5
    <3>4. i >= at[p] + 1
      BY <3>1, <3>2, <3>3
    <3>5. QED
      BY <1>8, <3>1, <3>4 DEF Unwritten
  <2>4. QED
    BY <1>2, <1>3, <2>1, <2>2, <2>3 DEF BatchMatches, Indexing
<1>10. BatchMatches(p)'
  BY <1>2, <1>3, <1>8, <1>9 DEF BatchMatches
<1>11. RunMatches(p)'
  BY <1>2, <1>3, <1>8, <1>10 DEF RunMatches, ReadMatches, Indexed
<1>12. Keeps(p)
  BY <1>2, <1>3, <1>7 DEF Keeps, Working, Labels
<1>13. QED
  BY <1>2, <1>8, <1>11, <1>12, StepMatches DEF Ahead

\* After the last one the Release in memory lists what the indexes contain.
LEMMA CanonicalDoneMatches ==
  ASSUME MatchHypotheses, NEW p \in Runs, UNCHANGED reading, CanonicalDone(p)
  PROVE  MatchInv'
<1> USE DEF Goto, store, memory, reading
<1>1. /\ TypeOK /\ RunMatches(p) /\ RunOK(p) /\ pc \in [Runs -> Labels]
      /\ batches \in [Runs -> Seq(Seq(Artifact))] /\ at \in [Runs -> Nat \ {0}]
  BY DEF MatchHypotheses, TypeInv, TypeOK, RunsOK, MatchInv
<1>2. /\ pc[p] = "canonical" /\ ~ArtifactsLeft(p)
      /\ batches' = [batches EXCEPT ![p] = Tail(@)]
      /\ at' = [at EXCEPT ![p] = 1]
      /\ UNCHANGED <<index, release, job, rel, manifests>>
  BY DEF CanonicalDone
<1>3. Changing(p) /\ BatchMatches(p) /\ Len(batches[p]) = 1 /\ batches[p] # <<>>
  BY <1>1, <1>2 DEF RunMatches, BatchMatches, WritingLabels, Indexing, RunOK
<1>4. batches'[p] = <<>>
  <2>1. batches[p] \in Seq(Seq(Artifact))
    BY <1>1
  <2>2. Tail(batches[p]) \in Seq(Seq(Artifact)) /\ Len(Tail(batches[p])) = 0
    BY <1>3, <2>1, HeadTailProperties
  <2>3. Tail(batches[p]) = <<>>
    BY <2>2, EmptySeq
  <2>4. QED
    BY <1>1, <1>2, <2>3
<1>5. /\ pc'[p] \in {"sign", "deleteGpg"}
      /\ \A q \in Runs \ {p} : pc'[q] = pc[q]
  BY <1>1, <1>4 DEF CanonicalDone, AfterIndexes
<1>6. Aside(p) /\ Changing(p)' = Changing(p) /\ Codename(p)' = Codename(p)
  BY <1>1, <1>2, <1>5 DEF Aside, Changing, Codename
<1>7. \A i \in DOMAIN Batch(p) : ~(i >= at[p])
  <2>1. Batch(p) \in Seq(Artifact)
    BY <1>1, <1>3 DEF Batch
  <2>2. QED
    BY <1>1, <1>2, <2>1 DEF ArtifactsLeft
<1>8. \A n \in IndexNames : ListsIndex(p, n)'
  <2>1. \A n \in IndexNames : ListsIndex(p, n)
    BY <1>2, <1>3, <1>7 DEF BatchMatches, Indexing, Unwritten
  <2>2. QED
    BY <1>2, <1>6, <2>1 DEF ListsIndex
<1>9. RunMatches(p)'
  BY <1>3, <1>5, <1>6, <1>8 DEF RunMatches, ReadMatches, BatchMatches, Indexing
<1>10. QED
  BY <1>2, <1>5, <1>6, <1>9, StepMatches DEF Keeps, Ahead, Indexed

\* Signing and the removal of signatures change neither.
LEMMA SigningMatches ==
  ASSUME MatchHypotheses, NEW p \in Runs, UNCHANGED reading,
         \/ Sign(p) \/ DeleteReleaseGpg(p) \/ DeleteInRelease(p)
         \/ PutReleaseGpg(p) \/ PutInRelease(p)
  PROVE  MatchInv'
<1> USE DEF Goto, store, memory, reading
<1>1. /\ TypeOK /\ RunMatches(p) /\ pc \in [Runs -> Labels]
  BY DEF MatchHypotheses, TypeInv, TypeOK, MatchInv
<1>2. UNCHANGED <<index, release, job, rel, batches, at, manifests>>
  BY DEF Sign, DeleteReleaseGpg, DeleteInRelease, PutReleaseGpg, PutInRelease
<1>3. \/ /\ pc[p] \in {"sign", "deleteGpg", "deleteInRelease"}
         /\ \E label \in {"deleteInRelease", "putRelease"} :
              pc' = [pc EXCEPT ![p] = label]
      \/ /\ pc[p] \in {"putGpg", "putInRelease"}
         /\ \E label \in {"putInRelease", "unlock", "ended"} :
              pc' = [pc EXCEPT ![p] = label]
  BY DEF Sign, DeleteReleaseGpg, DeleteInRelease, PutReleaseGpg, PutInRelease, Finish
<1>4. /\ Aside(p) /\ Changing(p)' = Changing(p) /\ Codename(p)' = Codename(p)
      /\ Changing(p)
  BY <1>1, <1>2, <1>3 DEF Aside, Changing, Codename, RunMatches, WritingLabels
<1>5. CASE pc[p] \in {"putGpg", "putInRelease"}
  BY <1>1, <1>2, <1>3, <1>4, <1>5, RestMatches DEF Ahead, Indexing, Indexed
<1>6. CASE pc[p] \in {"sign", "deleteGpg", "deleteInRelease"}
  <2>1. pc'[p] \in {"deleteInRelease", "putRelease"}
    BY <1>1, <1>3, <1>6
  <2>2. \A n \in IndexNames : ListsIndex(p, n)'
    BY <1>1, <1>2, <1>4, <1>6 DEF RunMatches, Indexed, ListsIndex
  <2>3. RunMatches(p)'
    BY <1>4, <2>1, <2>2 DEF RunMatches, ReadMatches, BatchMatches, Indexing
  <2>4. QED
    BY <1>2, <1>4, <2>1, <2>3, StepMatches DEF Keeps, Ahead, Indexed
<1>7. QED
  BY <1>3, <1>5, <1>6

\* The Release that is stored lists what the indexes contain.
LEMMA PutReleaseMatches ==
  ASSUME MatchHypotheses, NEW p \in Runs, UNCHANGED reading, PutRelease(p)
  PROVE  MatchInv'
<1> USE DEF Goto, store, memory, reading
<1> DEFINE c == Codename(p)
<1>1. /\ TypeOK /\ RunMatches(p) /\ pc \in [Runs -> Labels] /\ c \in Codenames
      /\ release \in [Codenames -> {NoObject} \cup Releases]
      /\ Rendered(p) \in Releases /\ rel[p] \in Releases
  BY CodenameType, RenderedType DEF MatchHypotheses, TypeInv, TypeOK, MatchInv
<1>2. /\ pc[p] = "putRelease"
      /\ release' = [release EXCEPT ![c] = Rendered(p)]
      /\ UNCHANGED <<index, job, rel, batches, at, manifests>>
      /\ \E label \in {"putGpg", "unlock", "ended"} : pc' = [pc EXCEPT ![p] = label]
  BY DEF PutRelease, Finish
<1>3. /\ Aside(p) /\ Changing(p)' = Changing(p) /\ Changing(p)
      /\ pc'[p] \in {"putGpg", "unlock", "ended"}
  BY <1>1, <1>2 DEF Aside, Changing, RunMatches, WritingLabels
<1>4. /\ release'[c] = Rendered(p)
      /\ \A d \in Codenames \ {c} : release'[d] = release[d]
  BY <1>1, <1>2
<1>5. Rendered(p).files = rel[p].files
  BY <1>1 DEF Rendered, Releases
<1>6. ASSUME NEW d \in Codenames, NEW n \in IndexNames, d = c
      PROVE  index'[d][n] = Contents(d)'[n]
  <2>1. rel[p].files[n] = index[c][n]
    BY <1>1, <1>2 DEF RunMatches, Indexed, ListsIndex
  <2>2. Contents(d)'[n] = Rendered(p).files[n]
    BY <1>1, <1>4, <1>6, ObjectsAssumption DEF Contents
  <2>3. QED
    BY <1>2, <1>5, <1>6, <2>1, <2>2
<1>7. RunMatches(p)'
  BY <1>3 DEF RunMatches, ReadMatches, BatchMatches, Indexing, Indexed
<1>8. Keeps(p)
  BY <1>2, <1>4 DEF Keeps
<1>9. QED
  BY <1>3, <1>6, <1>7, <1>8, StepMatches

---------------------------------------------------------------------------
(* The theorem *)

\* Steps that change nothing of what the invariant is about keep it.
LEMMA IdleMatches ==
  ASSUME MatchInv, UNCHANGED <<index, release, pc, job, rel, batches, at, manifests>>
  PROVE  MatchInv'
<1>1. StoreMatches'
  BY DEF MatchInv, StoreMatches, Contents, Codename
<1>2. ASSUME NEW p \in Runs PROVE RunMatches(p)'
  <2>1. RunMatches(p)
    BY DEF MatchInv
  <2>2. /\ Codename(p)' = Codename(p) /\ Changing(p)' = Changing(p)
        /\ Batch(p)' = Batch(p)
    BY DEF Codename, Changing, Batch
  <2>3. /\ \A n : ListsIndex(p, n)' <=> ListsIndex(p, n)
        /\ \A n : Unwritten(p, n)' <=> Unwritten(p, n)
        /\ \A arch : ReadPackages(p, arch)' = ReadPackages(p, arch)
    BY <2>2 DEF ListsIndex, Unwritten, ReadPackages
  <2>4. ReadMatches(p)'
    BY <2>1, <2>2, <2>3 DEF RunMatches, ReadMatches
  <2>5. BatchMatches(p)'
    BY <2>1, <2>2, <2>3 DEF RunMatches, BatchMatches
  <2>6. QED
    BY <2>1, <2>2, <2>3, <2>4, <2>5 DEF RunMatches
<1>3. QED
  BY <1>1, <1>2 DEF MatchInv

\* The invariant holds initially: nothing is stored and nothing listed.
LEMMA InitMatches == Init => MatchInv
<1> SUFFICES ASSUME Init PROVE MatchInv
  OBVIOUS
<1>1. StoreMatches
  BY DEF Init, StoreMatches, Contents
<1>2. ASSUME NEW p \in Runs PROVE RunMatches(p)
  BY DEF Init, RunMatches, ReadMatches, BatchMatches, WritingLabels, Indexing, Indexed
<1>3. QED
  BY <1>1, <1>2 DEF MatchInv

\* Every step keeps the invariant.
LEMMA NextMatches ==
  ASSUME Untroubled, MatchHypotheses, [Next]_vars
  PROVE  MatchInv'
<1>1. MatchInv
  BY DEF MatchHypotheses
<1>2. ASSUME NEW p \in Runs, Proceed(p) PROVE MatchInv'
  <2>1. CASE Publish(p) /\ UNCHANGED reading
    BY <2>1, BeforeCanonical, PutCanonicalMatches, CanonicalDoneMatches,
       SigningMatches, PutReleaseMatches DEF Publish
  <2>2. CASE DecideUpload(p) \/ DecideCopy(p) \/ DecideDelete(p) \/ DecideVerify(p)
    BY <2>2, DecideMatches
  <2>3. CASE RetrieveRelease(p) \/ RetrieveManifest(p)
    BY <2>3, RetrieveReleaseMatches, RetrieveManifestMatches
  <2>4. QED
    BY <1>2, <2>1, <2>2, <2>3, RestingMatches DEF Proceed
<1>3. ASSUME NEW p \in Runs, Disturb(p) PROVE MatchInv'
  <2>1. GiveUp(p)
    BY <1>3 DEF Disturb, UnlockFails, SigningFails, StoreFails, Crash, Untroubled
  <2>2. QED
    BY <2>1, RestingMatches
<1>4. \A p \in Runs : ~LateCall(p)
  BY DEF LateCall, Untroubled
<1>5. ASSUME NEW c \in Codenames, BreakLock(c) PROVE MatchInv'
  BY <1>1, <1>5, IdleMatches DEF BreakLock, memory, reading
<1>6. CASE UNCHANGED vars
  BY <1>1, <1>6, IdleMatches DEF vars, store, memory, reading
<1>7. QED
  BY <1>2, <1>3, <1>4, <1>5, <1>6 DEF Next, Terminated

\* While nobody holds the lock, no run is between the indexes and the Release.
LEMMA MatchImplies ==
  ASSUME MatchHypotheses PROVE ReleaseMatchesIndexes
<1> SUFFICES ASSUME NEW c \in Codenames, lockfile[c] = NoObject, release[c] # NoObject
             PROVE  release[c].files = index[c]
  BY DEF ReleaseMatchesIndexes
<1>1. TypeOK /\ StoreMatches
  BY DEF MatchHypotheses, TypeInv, MatchInv
<1>2. ASSUME NEW p \in Runs, Codename(p) = c PROVE pc[p] \notin Ahead
  <2>1. SUFFICES ASSUME pc[p] \in Ahead PROVE FALSE
    OBVIOUS
  <2>2. Changing(p) /\ job[p] \in JobsOf[p]
    BY <1>1, <2>1 DEF MatchHypotheses, MatchInv, RunMatches, Ahead, Indexed,
       WritingLabels, TypeOK
  <2>3. job[p].lock
    BY <2>2 DEF MatchHypotheses, ChangesUnderLock, Changing
  <2>4. lockfile[c] = p
    BY <1>2, <2>1, <2>3 DEF MatchHypotheses, WorksUnderLock, Ahead, Indexed
  <2>5. QED
    BY <2>4, RepositoryAssumption
<1>3. \A n \in IndexNames : index[c][n] = release[c].files[n]
  BY <1>1, <1>2 DEF StoreMatches, Contents
<1>4. /\ index[c] \in [IndexNames -> {NoObject} \cup Packages]
      /\ release[c].files \in [IndexNames -> {NoObject} \cup Packages]
  BY <1>1 DEF TypeOK, Releases
<1>5. QED
  BY <1>3, <1>4

\* When every command that changes indexes takes the lock and none fails in the
\* middle of its publication, the Release lists exactly what the canonical
\* indexes contain whenever nobody holds the lock: whatever manifests the
\* commands changed, and whichever they added for the standard architectures.
THEOREM ReleaseListsIndexes ==
  ASSUME ChangesUnderLock, Untroubled
  PROVE  Spec => []ReleaseMatchesIndexes
<1>1. Init => TypeInv /\ MatchInv
  BY InitType, InitMatches
<1>2. TypeInv /\ WorksUnderLock /\ MatchInv /\ [Next]_vars => (TypeInv /\ MatchInv)'
  BY NextType, NextMatches DEF MatchHypotheses
<1>3. TypeInv /\ WorksUnderLock /\ MatchInv => ReleaseMatchesIndexes
  BY MatchImplies DEF MatchHypotheses
<1>4. QED
  BY <1>1, <1>2, <1>3, LockDiscipline, PTL DEF Spec

---------------------------------------------------------------------------
(* The commands are atomic *)

\* AtomicRepository works out commands as Repository does.
LEMMA SameCommands ==
  /\ Atomic!IndexNames = IndexNames
  /\ \A s : Atomic!ToSet(s) = ToSet(s)
  /\ \A stored : Atomic!PackagesOf(stored) = PackagesOf(stored)
  /\ \A j, d : Atomic!Placement(j, d) = Placement(j, d)
  /\ \A j, d : Atomic!Misplaced(j, d) <=> Misplaced(j, d)
  /\ \A j, packages : Atomic!Selected(j, packages) = Selected(j, packages)
  /\ \A j, m : Atomic!Added(j, m) = Added(j, m)
  /\ \A packages, entries, preserve, failIfExists :
       Atomic!AddAll(packages, entries, preserve, failIfExists)
         = AddAll(packages, entries, preserve, failIfExists)
  /\ \A packages, name, all, versions :
       Atomic!DeletePackage(packages, name, all, versions)
         = DeletePackage(packages, name, all, versions)
<1> USE DEF Atomic!ToSet, ToSet, Atomic!KeepOnly, KeepOnly, Atomic!AppendIf, AppendIf,
            Atomic!FoldLeft, FoldLeft, Atomic!MapThenFoldSet, MapThenFoldSet,
            Atomic!Max, Max
<1>1. Atomic!IndexNames = IndexNames
  BY DEF Atomic!IndexNames, IndexNames, Atomic!Forms, Forms
<1>2. \A s : Atomic!ToSet(s) = ToSet(s)
  OBVIOUS
<1>3. \A stored : Atomic!PackagesOf(stored) = PackagesOf(stored)
  BY DEF Atomic!PackagesOf, PackagesOf
<1>4. \A j, d : Atomic!Placement(j, d) = Placement(j, d)
  BY DEF Atomic!Placement, Placement
<1>5. \A j, d : Atomic!Misplaced(j, d) <=> Misplaced(j, d)
  BY DEF Atomic!Misplaced, Misplaced, Atomic!Placement, Placement
<1>6. \A j, packages : Atomic!Selected(j, packages) = Selected(j, packages)
  BY DEF Atomic!Selected, Selected
<1>7. \A packages, entries, preserve, failIfExists :
        Atomic!AddAll(packages, entries, preserve, failIfExists)
          = AddAll(packages, entries, preserve, failIfExists)
  BY DEF Atomic!AddAll, AddAll, Atomic!AddNext, AddNext, Atomic!Add, Add,
         Atomic!Replaces, Replaces, Atomic!Conflicts, Conflicts,
         Atomic!SamePackage, SamePackage
<1>8. \A j, m : Atomic!Added(j, m) = Added(j, m)
  <2>1. \A j, a : Atomic!Entries(j, a) = Entries(j, a)
    BY DEF Atomic!Entries, Entries, Atomic!Entry, Entry, Atomic!Placement, Placement
  <2>2. QED
    BY ONLY <1>7, <2>1 DEF Atomic!Added, Added
<1>9. \A packages, name, all, versions :
        Atomic!DeletePackage(packages, name, all, versions)
          = DeletePackage(packages, name, all, versions)
  BY DEF Atomic!DeletePackage, DeletePackage, Atomic!Spellings, Spellings
<1>10. QED
  BY ONLY <1>1, <1>2, <1>3, <1>4, <1>5, <1>6, <1>7, <1>8, <1>9

\* An empty manifest enters a Release for every standard architecture it has that
\* one of its components lists no index for, and for no other.
LEMMA MissingManifestsRange ==
  ASSUME NEW r \in Releases
  PROVE  ToSet(MissingManifests(r)) =
           {m \in [component : ToSet(r.components),
                   arch : ToSet(StandardArchs) \cap ToSet(r.archs), packages : {<<>>}] :
              r.files[<<m.component, m.arch, "Packages">>] = NoObject}
<1> DEFINE empty == [i \in DOMAIN r.components |->
                       [k \in DOMAIN StandardArchs |->
                          [component |-> r.components[i],
                           arch      |-> StandardArchs[k],
                           packages  |-> <<>>]]]
           candidates == FlattenSeq(empty)
           S == {m \in ToSet(candidates) :
                   /\ Contains(r.archs, m.arch)
                   /\ r.files[<<m.component, m.arch, "Packages">>] = NoObject}
           All == [component : ToSet(r.components), arch : ToSet(StandardArchs),
                   packages : {<<>>}]
<1>1. r.components \in Seq(Components) /\ StandardArchs \in Seq(Archs)
  BY StandardArchsType DEF Releases
<1>2. /\ DOMAIN r.components = 1..Len(r.components) /\ Len(r.components) \in Nat
      /\ DOMAIN StandardArchs = 1..Len(StandardArchs) /\ Len(StandardArchs) \in Nat
  BY <1>1
<1>3. \A i \in DOMAIN r.components, k \in DOMAIN StandardArchs :
        [component |-> r.components[i], arch |-> StandardArchs[k],
         packages  |-> <<>>] \in All
  BY DEF ToSet
<1>4. empty \in Seq(Seq(All))
  <2> HIDE DEF All
  <2>1. \A i \in 1..Len(r.components) : empty[i] \in Seq(All)
    BY <1>2, <1>3
  <2>2. empty = [i \in 1..Len(r.components) |-> empty[i]]
    BY <1>2
  <2> HIDE DEF empty
  <2>3. QED
    BY <1>2, <2>1, <2>2, SequenceType
<1>5. /\ candidates \in Seq(All)
      /\ ToSet(candidates) = UNION {ToSet(empty[i]) : i \in DOMAIN empty}
  <2> HIDE DEF All, empty
  <2>1. QED
    BY <1>4, FlattenFacts
<1>6. ASSUME NEW m \in All PROVE m \in ToSet(candidates)
  <2>1. PICK i \in DOMAIN r.components, k \in DOMAIN StandardArchs :
          m.component = r.components[i] /\ m.arch = StandardArchs[k]
    BY DEF ToSet
  <2>2. m = [component |-> r.components[i], arch |-> StandardArchs[k], packages |-> <<>>]
    BY <2>1
  <2>3. m = empty[i][k] /\ i \in DOMAIN empty /\ k \in DOMAIN empty[i]
    BY <2>2
  <2>4. m \in ToSet(empty[i])
    BY <2>3 DEF ToSet
  <2> HIDE DEF empty
  <2>5. QED
    BY <1>5, <2>3, <2>4
<1>7. ToSet(candidates) = All
  <2> HIDE DEF All, candidates
  <2>1. QED
    BY <1>5, <1>6 DEF ToSet
<1>8. ToSet(MissingManifests(r)) = S
  <2>1. MissingManifests(r) = KeepOnly(candidates, S)
    BY DEF MissingManifests
  <2>2. S \subseteq ToSet(candidates)
    OBVIOUS
  <2> HIDE DEF S, candidates, empty, All
  <2>3. ToSet(KeepOnly(candidates, S)) = ToSet(candidates) \cap S
    BY <1>5, KeepOnlyFacts
  <2>4. QED
    BY <2>1, <2>2, <2>3
<1>9. \A a : Contains(r.archs, a) <=> a \in ToSet(r.archs)
  <2>1. r.archs \in Seq(Archs)
    BY DEF Releases
  <2>2. QED
    BY ONLY <2>1, ContainsRange
<1> HIDE DEF candidates
<1>10. QED
  BY <1>7, <1>8, <1>9

\* The components and architectures of a Release are those of the indexes it
\* lists, and it lists an index in both forms or in none.
Coherent(r) ==
  /\ ToSet(r.components) = Atomic!ComponentsOf(r.files)
  /\ ToSet(r.archs) = Atomic!ArchsOf(r.files)
  /\ \A n, m \in IndexNames :
       n[1] = m[1] /\ n[2] = m[2] => (r.files[n] = NoObject <=> r.files[m] = NoObject)

\* What they are.
LEMMA ListedNames ==
  ASSUME NEW files
  PROVE  /\ \A c : c \in Atomic!ComponentsOf(files)
                     <=> \E n \in IndexNames : files[n] # NoObject /\ n[1] = c
         /\ \A a : a \in Atomic!ArchsOf(files)
                     <=> \E n \in IndexNames : files[n] # NoObject /\ n[2] = a
BY SameCommands DEF Atomic!ComponentsOf, Atomic!ArchsOf

\* A new Release lists nothing.
LEMMA NewCoherent == ASSUME NEW b PROVE Coherent(NewRelease(b))
<1> DEFINE r == NewRelease(b)
<1>1. r.components = <<>> /\ r.archs = <<>> /\ \A n \in IndexNames : r.files[n] = NoObject
  BY DEF NewRelease
<1>2. ToSet(<<>>) = {}
  BY DEF ToSet
<1> HIDE DEF r
<1>3. Atomic!ComponentsOf(r.files) = {} /\ Atomic!ArchsOf(r.files) = {}
  BY <1>1, ListedNames
<1>4. Coherent(r)
  BY <1>1, <1>2, <1>3 DEF Coherent
<1>5. QED
  BY <1>4 DEF r

\* The Release with the manifests that a command has changed and the empty ones
\* that were missing.
Final(r, changed) ==
  LET updated == UpdateManifests(r, changed)
  IN  UpdateManifests(updated, MissingManifests(updated))

\* Together they rewrite what the Release listed as AtomicRepository says.
LEMMA RewriteAgrees ==
  ASSUME NEW r \in Releases, Coherent(r), NEW j,
         NEW changed \in Seq(Manifest), changed # <<>>, NEW contents,
         DOMAIN contents = {m.arch : m \in ToSet(changed)},
         \A m \in ToSet(changed) :
           m.component = j.component /\ m.packages = contents[m.arch]
  PROVE  /\ Final(r, changed).files = Atomic!Rewrite(j, r.files, contents)
         /\ Coherent(Final(r, changed))
<1> DEFINE updated == UpdateManifests(r, changed)
           missing == MissingManifests(updated)
           final == UpdateManifests(updated, missing)
           C == Atomic!ComponentsOf(r.files) \cup {j.component}
           A == Atomic!ArchsOf(r.files) \cup DOMAIN contents
           Plain0(n) == <<n[1], n[2], "Packages">>
           Rewritten(n) == n[1] = j.component /\ n[2] \in DOMAIN contents
           Filled(n) == /\ ~Rewritten(n) /\ r.files[n] = NoObject
                        /\ n[1] \in C /\ n[2] \in A \cap ToSet(StandardArchs)
<1>1. \A m \in ToSet(changed) : m \in Manifest
  BY DEF ToSet
<1>2. /\ \A m \in ToSet(changed) : m.component \in Components /\ m.arch \in Archs
                                   /\ m.packages \in Packages
      /\ \A a \in DOMAIN contents : contents[a] # NoObject
  BY <1>1, ObjectsAssumption DEF Manifest
<1>3. NoObject # <<>>
  <2>1. <<>> \in Packages
    BY DEF Packages
  <2>2. QED
    BY <2>1, ObjectsAssumption
<1>4. PICK first : first \in ToSet(changed)
  BY ONLY changed \in Seq(Manifest), changed # <<>>, SomeElement
<1>5. \A n \in IndexNames : /\ n[1] \in Components /\ n[2] \in Archs
                            /\ Plain0(n) \in IndexNames
  BY PlainName DEF IndexNames
<1>6. /\ updated \in Releases
      /\ ToSet(updated.components) = C
      /\ ToSet(updated.archs) = A
      /\ \A n \in IndexNames :
           \/ /\ updated.files[n] = r.files[n]
              /\ \A m \in ToSet(changed) : ~Lists(m, n)
           \/ \E m \in ToSet(changed) : Lists(m, n) /\ updated.files[n] = m.packages
  <2>1. /\ updated \in Releases
        /\ ToSet(updated.components) = ToSet(r.components)
                                         \cup {m.component : m \in ToSet(changed)}
        /\ ToSet(updated.archs) = ToSet(r.archs) \cup {m.arch : m \in ToSet(changed)}
        /\ \A n \in IndexNames :
             \/ /\ updated.files[n] = r.files[n]
                /\ \A m \in ToSet(changed) : ~Lists(m, n)
             \/ \E m \in ToSet(changed) : Lists(m, n) /\ updated.files[n] = m.packages
    BY UpdateManifestsType, UpdateManifestsFacts
  <2>2. {m.component : m \in ToSet(changed)} = {j.component}
    BY <1>4
  <2> HIDE DEF updated
  <2>3. QED
    BY <2>1, <2>2 DEF Coherent
<1> HIDE DEF updated
<1>7. \A n \in IndexNames :
        updated.files[n] = IF Rewritten(n) THEN contents[n[2]] ELSE r.files[n]
  <2>1. \A n \in IndexNames :
          Rewritten(n) <=> \E m \in ToSet(changed) : Lists(m, n)
    BY DEF Lists
  <2>2. \A n \in IndexNames : \A m \in ToSet(changed) :
          Lists(m, n) => m.packages = contents[n[2]]
    BY DEF Lists
  <2> HIDE DEF Rewritten
  <2>3. QED
    BY <1>6, <2>1, <2>2
<1>8. \A n \in IndexNames :
        updated.files[Plain0(n)] = NoObject <=> ~Rewritten(n) /\ r.files[n] = NoObject
  <2> SUFFICES ASSUME NEW n \in IndexNames
               PROVE  updated.files[Plain0(n)] = NoObject
                        <=> ~Rewritten(n) /\ r.files[n] = NoObject
    OBVIOUS
  <2> DEFINE m == Plain0(n)
  <2>1. m \in IndexNames /\ m[1] = n[1] /\ m[2] = n[2]
    BY <1>5
  <2>2. r.files[m] = NoObject <=> r.files[n] = NoObject
    BY <2>1 DEF Coherent
  <2>3. updated.files[m] = IF Rewritten(n) THEN contents[n[2]] ELSE r.files[m]
    BY <1>7, <2>1
  <2>4. QED
    BY <1>2, <2>2, <2>3
<1>9. /\ missing \in Seq(Manifest)
      /\ ToSet(missing) =
           {m \in [component : C, arch : ToSet(StandardArchs) \cap A, packages : {<<>>}] :
              updated.files[<<m.component, m.arch, "Packages">>] = NoObject}
  BY <1>6, MissingManifestsType, MissingManifestsRange
<1> HIDE DEF missing, C, A
<1>10. \A n \in IndexNames : (\E m \in ToSet(missing) : Lists(m, n)) <=> Filled(n)
  <2> SUFFICES ASSUME NEW n \in IndexNames
               PROVE  (\E m \in ToSet(missing) : Lists(m, n)) <=> Filled(n)
    OBVIOUS
  <2>1. ASSUME NEW m \in ToSet(missing), Lists(m, n) PROVE Filled(n)
    <3>1. /\ m.component = n[1] /\ m.arch = n[2]
          /\ m.component \in C /\ m.arch \in ToSet(StandardArchs) \cap A
          /\ updated.files[<<m.component, m.arch, "Packages">>] = NoObject
      BY <1>9, <2>1 DEF Lists
    <3>2. QED
      BY <1>8, <3>1
  <2>2. ASSUME Filled(n) PROVE \E m \in ToSet(missing) : Lists(m, n)
    <3> DEFINE m == [component |-> n[1], arch |-> n[2], packages |-> <<>>]
    <3>1. updated.files[<<m.component, m.arch, "Packages">>] = NoObject
      BY <1>8, <2>2
    <3>2. m \in ToSet(missing)
      BY <1>9, <2>2, <3>1
    <3>3. QED
      BY <3>2 DEF Lists
  <2>3. QED
    BY <2>1, <2>2
<1>11. /\ final \in Releases
       /\ ToSet(final.components) = C
       /\ ToSet(final.archs) = A
       /\ \A n \in IndexNames :
            \/ /\ final.files[n] = updated.files[n]
               /\ \A m \in ToSet(missing) : ~Lists(m, n)
            \/ \E m \in ToSet(missing) : Lists(m, n) /\ final.files[n] = m.packages
  <2>1. /\ final \in Releases
        /\ ToSet(final.components) = ToSet(updated.components)
                                       \cup {m.component : m \in ToSet(missing)}
        /\ ToSet(final.archs) = ToSet(updated.archs) \cup {m.arch : m \in ToSet(missing)}
        /\ \A n \in IndexNames :
             \/ /\ final.files[n] = updated.files[n]
                /\ \A m \in ToSet(missing) : ~Lists(m, n)
             \/ \E m \in ToSet(missing) : Lists(m, n) /\ final.files[n] = m.packages
    BY <1>6, <1>9, UpdateManifestsType, UpdateManifestsFacts
  <2>2. \A m \in ToSet(missing) : m.component \in C /\ m.arch \in A
    BY <1>9
  <2> HIDE DEF final
  <2>3. QED
    BY <1>6, <2>1, <2>2
<1> HIDE DEF final
<1>12. \A n \in IndexNames :
         final.files[n] = IF Rewritten(n) THEN contents[n[2]]
                          ELSE IF Filled(n) THEN <<>> ELSE r.files[n]
  <2>1. \A m \in ToSet(missing) : m.packages = <<>>
    BY <1>9
  <2>2. \A n \in IndexNames : Filled(n) => ~Rewritten(n)
    OBVIOUS
  <2> HIDE DEF Filled, Rewritten
  <2>3. QED
    BY <1>7, <1>10, <1>11, <2>1, <2>2
<1>13. final.files = Atomic!Rewrite(j, r.files, contents)
  <2>1. Atomic!Rewrite(j, r.files, contents) =
          [n \in IndexNames |->
             IF Rewritten(n) THEN contents[n[2]]
             ELSE IF r.files[n] = NoObject /\ n[1] \in C
                     /\ n[2] \in A \cap ToSet(StandardArchs)
                  THEN <<>> ELSE r.files[n]]
    BY SameCommands DEF Atomic!Rewrite, C, A
  <2>2. final.files = [n \in IndexNames |-> final.files[n]]
    BY <1>11 DEF Releases
  <2>3. \A n \in IndexNames :
          final.files[n] = IF Rewritten(n) THEN contents[n[2]]
             ELSE IF r.files[n] = NoObject /\ n[1] \in C
                     /\ n[2] \in A \cap ToSet(StandardArchs)
                  THEN <<>> ELSE r.files[n]
    BY <1>12
  <2> HIDE DEF Filled, Rewritten
  <2>4. QED
    BY <2>1, <2>2, <2>3
<1>14. \A n \in IndexNames :
         final.files[n] = NoObject <=>
           r.files[n] = NoObject /\ ~Rewritten(n) /\ ~Filled(n)
  BY <1>2, <1>3, <1>12
<1>15. \A x : x \in C <=> \E n \in IndexNames : final.files[n] # NoObject /\ n[1] = x
  <2>1. ASSUME NEW x \in C
        PROVE  \E n \in IndexNames : final.files[n] # NoObject /\ n[1] = x
    <3>1. CASE x \in Atomic!ComponentsOf(r.files)
      BY <1>14, <3>1, ListedNames
    <3>2. CASE x = j.component
      <4> DEFINE n == <<first.component, first.arch, "Packages">>
      <4>1. n \in IndexNames
        BY <1>2, <1>4, PlainName
      <4>2. n[1] = x /\ Rewritten(n)
        BY <1>4, <3>2
      <4>3. QED
        BY <1>14, <4>1, <4>2
    <3>3. QED
      BY <3>1, <3>2 DEF C
  <2>2. ASSUME NEW n \in IndexNames, final.files[n] # NoObject PROVE n[1] \in C
    <3>1. r.files[n] # NoObject => n[1] \in Atomic!ComponentsOf(r.files)
      BY ListedNames
    <3>2. QED
      BY <1>14, <2>2, <3>1 DEF C
  <2>3. QED
    BY <2>1, <2>2
<1>16. \A x : x \in A <=> \E n \in IndexNames : final.files[n] # NoObject /\ n[2] = x
  <2>1. ASSUME NEW x \in A
        PROVE  \E n \in IndexNames : final.files[n] # NoObject /\ n[2] = x
    <3>1. CASE x \in Atomic!ArchsOf(r.files)
      BY <1>14, <3>1, ListedNames
    <3>2. CASE x \in DOMAIN contents
      <4>1. PICK m \in ToSet(changed) : m.arch = x
        BY <3>2
      <4> DEFINE n == <<m.component, m.arch, "Packages">>
      <4>2. n \in IndexNames
        BY <1>2, <4>1, PlainName
      <4>3. n[2] = x /\ Rewritten(n)
        BY <3>2, <4>1
      <4>4. QED
        BY <1>14, <4>2, <4>3
    <3>3. QED
      BY <3>1, <3>2 DEF A
  <2>2. ASSUME NEW n \in IndexNames, final.files[n] # NoObject PROVE n[2] \in A
    <3>1. r.files[n] # NoObject => n[2] \in Atomic!ArchsOf(r.files)
      BY ListedNames
    <3>2. QED
      BY <1>14, <2>2, <3>1 DEF A
  <2>3. QED
    BY <2>1, <2>2
<1>17. \A n, m \in IndexNames :
         n[1] = m[1] /\ n[2] = m[2] =>
           (final.files[n] = NoObject <=> final.files[m] = NoObject)
  <2>1. \A n, m \in IndexNames :
          n[1] = m[1] /\ n[2] = m[2] => (r.files[n] = NoObject <=> r.files[m] = NoObject)
    BY DEF Coherent
  <2>2. QED
    BY <1>14, <2>1
<1>18. Coherent(final)
  <2>1. C = Atomic!ComponentsOf(final.files) /\ A = Atomic!ArchsOf(final.files)
    <3> DEFINE listedC == Atomic!ComponentsOf(final.files)
               listedA == Atomic!ArchsOf(final.files)
    <3>1. (\A x : x \in C <=> x \in listedC) /\ (\A x : x \in A <=> x \in listedA)
      BY <1>15, <1>16, ListedNames
    <3> HIDE DEF listedC, listedA
    <3>2. C = listedC /\ A = listedA
      BY <3>1
    <3>3. QED
      BY <3>2 DEF listedC, listedA
  <2>2. QED
    BY <1>11, <1>17, <2>1 DEF Coherent
<1>19. QED
  BY <1>13, <1>18 DEF Final, final, missing, updated

\* Every codename lists the same.
Everywhere(here) == [c \in Codenames |-> here]

\* What a command has in memory of an index of here, and which ones it keeps.
Got(j, here, a) ==
  [component |-> j.component, arch |-> a,
   packages |-> IF j.op = "delete" THEN Atomic!Left(j, here, a)
                                   ELSE Atomic!Manifest(j, here, a).packages]

Wanted(j, here, a) ==
  j.op = "delete" => Atomic!Left(j, here, a) # Atomic!Manifest(j, here, a).packages

\* A command has read the indexes of here that it reads with the Release r,
\* but for those that are left.
Planned(j, here, r, ms, left) ==
  LET planned == ToSet(ArchsToRead(j, r.archs))
  IN  /\ r.files = here
      /\ ToSet(left) \subseteq planned
      /\ \A m \in ToSet(ms) :
           /\ m = Got(j, here, m.arch)
           /\ m.arch \in planned
           /\ Wanted(j, here, m.arch)
      /\ \A a \in planned \ ToSet(left) :
           Wanted(j, here, a) => \E m \in ToSet(ms) : m.arch = a

\* files is what the command makes of here, and it may.
Lawful(j, here, files) ==
  \/ /\ j.op = "upload"
     /\ ~Atomic!UploadRefused(j, here)
     /\ files = Atomic!UploadEffect(j, here)
  \/ /\ j.op = "copy"
     /\ ~Atomic!CopyRefused(j, Everywhere(here))
     /\ files = Atomic!CopyEffect(j, Everywhere(here))
  \/ /\ j.op = "delete"
     /\ Atomic!Shrinking(j, here) # {}
     /\ files = Atomic!DeleteEffect(j, here)

\* No sequence, no elements.
LEMMA NoElements == ToSet(<<>>) = {}
BY DEF ToSet

\* delete changes what AtomicRepository changes.
LEMMA DeleteIsLawful ==
  ASSUME NEW j \in Jobs, j.op = "delete", NEW r \in Releases, Coherent(r),
         NEW ms \in Seq(Manifest), ms # <<>>, Planned(j, r.files, r, ms, <<>>)
  PROVE  Lawful(j, r.files, Final(r, ms).files) /\ Coherent(Final(r, ms))
<1> DEFINE here == r.files
           planned == ToSet(ArchsToRead(j, r.archs))
           contents == [a \in Atomic!Shrinking(j, here) |-> Atomic!Left(j, here, a)]
<1>1. \A m \in ToSet(ms) : /\ m = Got(j, here, m.arch) /\ m.arch \in planned
                           /\ Wanted(j, here, m.arch)
  BY DEF Planned
<1>2. \A a \in planned : Wanted(j, here, a) => \E m \in ToSet(ms) : m.arch = a
  BY NoElements DEF Planned
<1>3. planned = IF j.arch = "all" THEN Atomic!ArchsOf(here) ELSE {j.arch}
  BY DEF ArchsToRead, Coherent, ToSet
<1>4. \A a : a \in Atomic!Shrinking(j, here) <=> a \in planned /\ Wanted(j, here, a)
  BY <1>3 DEF Atomic!Shrinking, Wanted
<1> HIDE DEF planned
<1>5. Atomic!Shrinking(j, here) = {m.arch : m \in ToSet(ms)}
  BY <1>1, <1>2, <1>4
<1>6. \A m \in ToSet(ms) : m.component = j.component /\ m.packages = contents[m.arch]
  BY <1>1, <1>5 DEF Got
<1>7. DOMAIN contents = {m.arch : m \in ToSet(ms)}
  BY <1>5
<1>8. Atomic!Shrinking(j, here) # {}
  <2>1. \E m : m \in ToSet(ms)
    BY ONLY ms \in Seq(Manifest), ms # <<>>, SomeElement
  <2>2. QED
    BY <1>5, <2>1
<1>9. contents = [a \in Atomic!Shrinking(j, here) |-> Atomic!Left(j, here, a)]
  OBVIOUS
<1> HIDE DEF contents, here
<1>10. /\ Final(r, ms).files = Atomic!Rewrite(j, r.files, contents)
       /\ Coherent(Final(r, ms))
  BY <1>6, <1>7, RewriteAgrees
<1>11. QED
  BY <1>8, <1>9, <1>10 DEF Lawful, Atomic!DeleteEffect, here

\* copy adds to the index of its destination what AtomicRepository adds.
LEMMA CopyIsLawful ==
  ASSUME NEW j \in Jobs, j.op = "copy", j.source[1] = j.codename,
         NEW r \in Releases, Coherent(r),
         NEW m \in Manifest, Planned(j, r.files, r, <<m>>, <<>>),
         NEW source \in Packages, source = Atomic!CopySource(j, Everywhere(r.files)),
         NEW added, added = AddAll(m.packages, source, j.preserve, j.failIfExists),
         source # <<>>, added.ok,
         NEW changed, changed = <<[m EXCEPT !.packages = added.packages]>>
  PROVE  Lawful(j, r.files, Final(r, changed).files) /\ Coherent(Final(r, changed))
<1> DEFINE here == r.files
           all == Everywhere(here)
           x == [m EXCEPT !.packages = added.packages]
           contents == [a \in {j.arch} |-> Atomic!Copied(j, all).packages]
<1>1. ToSet(<<m>>) = {m} /\ ToSet(<<x>>) = {x}
  BY DEF ToSet
<1>2. m = Got(j, here, m.arch) /\ m.arch \in ToSet(ArchsToRead(j, r.archs))
  BY <1>1 DEF Planned
<1>3. m.arch = j.arch
  BY <1>2 DEF ArchsToRead, ToSet
<1>4. j.codename \in Codenames /\ all[j.codename] = here
  BY JobFacts DEF Everywhere
<1>5. m.component = j.component /\ m.packages = Atomic!Manifest(j, here, j.arch).packages
  BY <1>2, <1>3 DEF Got
<1>6. Atomic!Copied(j, all) = added
  BY <1>4, <1>5, SameCommands DEF Atomic!Copied
<1>7. added.packages \in Packages
  BY <1>5, AddAllRange DEF Manifest, Packages
<1>8. x \in Manifest /\ x.component = j.component /\ x.arch = j.arch
      /\ x.packages = added.packages
  BY <1>3, <1>5, <1>7 DEF Manifest
<1>9. /\ changed \in Seq(Manifest) /\ changed # <<>> /\ ToSet(changed) = {x}
  <2>1. changed = <<x>>
    OBVIOUS
  <2> HIDE DEF x
  <2>2. QED
    BY <1>1, <1>8, <2>1
<1>10. DOMAIN contents = {y.arch : y \in ToSet(changed)}
       /\ \A y \in ToSet(changed) : y.component = j.component
                                    /\ y.packages = contents[y.arch]
  <2>1. {y.arch : y \in ToSet(changed)} = {j.arch}
    BY ONLY <1>8, <1>9
  <2>2. DOMAIN contents = {j.arch} /\ contents[j.arch] = added.packages
    BY <1>6
  <2> HIDE DEF contents, x
  <2>3. QED
    BY ONLY <1>8, <1>9, <2>1, <2>2
<1>11. contents = [a \in {j.arch} |-> Atomic!Copied(j, all).packages]
  OBVIOUS
<1> HIDE DEF contents, x
<1>12. /\ Final(r, changed).files = Atomic!Rewrite(j, r.files, contents)
       /\ Coherent(Final(r, changed))
  BY ONLY r \in Releases, Coherent(r), <1>9, <1>10, RewriteAgrees
<1>13. ~Atomic!CopyRefused(j, all)
  <2>1. Atomic!CopySource(j, all) # <<>>
    OBVIOUS
  <2>2. Atomic!Copied(j, all).ok
    BY <1>6
  <2> HIDE DEF all
  <2>3. QED
    BY <2>1, <2>2 DEF Atomic!CopyRefused
<1>14. QED
  BY <1>4, <1>11, <1>12, <1>13 DEF Lawful, Atomic!CopyEffect

\* upload reads, and so writes, the architectures that AtomicRepository says.
LEMMA UploadReads ==
  ASSUME NEW j \in Jobs, j.op = "upload", \A d \in ToSet(j.debs) : ~Misplaced(j, d),
         NEW r \in Releases, Coherent(r)
  PROVE  ToSet(ArchsToRead(j, r.archs)) = Atomic!Written(j, r.files)
<1> DEFINE placements == [i \in DOMAIN j.debs |-> Placement(j, j.debs[i])]
<1>1. /\ j.debs \in Seq(ToSet(j.debs)) /\ j.debs # <<>> /\ j.arch \in Archs \cup {""}
      /\ \A d \in ToSet(j.debs) : d.arch \in Archs \cup {""}
  BY JobFacts DEF IsJob
<1>2. Len(j.debs) \in Nat \ {0} /\ DOMAIN j.debs = 1..Len(j.debs)
      /\ \A i \in 1..Len(j.debs) : j.debs[i] \in ToSet(j.debs)
  <2>1. \A T : \A v \in Seq(T) :
          v # <<>> => DOMAIN v = 1..Len(v) /\ Len(v) \in Nat \ {0}
    OBVIOUS
  <2>2. DOMAIN j.debs = 1..Len(j.debs) /\ Len(j.debs) \in Nat \ {0}
    BY <1>1, <2>1
  <2>3. QED
    BY <2>2 DEF ToSet
<1>3. Placed(j) = j.debs
  <2> DEFINE S == {d \in ToSet(j.debs) : ~Misplaced(j, d)}
  <2>1. ToSet(j.debs) \subseteq S
    OBVIOUS
  <2>2. Placed(j) = KeepOnly(j.debs, S)
    BY DEF Placed
  <2> HIDE DEF S
  <2>3. QED
    BY <1>1, <2>1, <2>2, KeepOnlyAll
<1>4. \A d \in ToSet(j.debs) : Placement(j, d) \in Archs
  BY <1>1 DEF Misplaced, Placement
<1>5. /\ placements \in Seq(Archs) /\ placements # <<>>
      /\ placements[1] = Placement(j, j.debs[1])
      /\ ToSet(placements) = {Placement(j, d) : d \in ToSet(j.debs)}
  <2>1. \A i \in 1..Len(j.debs) : placements[i] \in Archs
    BY <1>2, <1>4
  <2>2. /\ placements = [i \in 1..Len(j.debs) |-> placements[i]]
        /\ \A i \in 1..Len(j.debs) : placements[i] = Placement(j, j.debs[i])
    BY <1>2
  <2> HIDE DEF placements
  <2>3. placements \in Seq(Archs) /\ DOMAIN placements = 1..Len(j.debs)
    BY <1>2, <2>1, <2>2, SequenceType
  <2>4. ToSet(placements) = {Placement(j, d) : d \in ToSet(j.debs)}
    <3>1. /\ ToSet(placements) = {placements[i] : i \in 1..Len(j.debs)}
          /\ ToSet(j.debs) = {j.debs[i] : i \in 1..Len(j.debs)}
      BY <1>2, <2>3 DEF ToSet
    <3>2. {placements[i] : i \in 1..Len(j.debs)}
            = {Placement(j, j.debs[i]) : i \in 1..Len(j.debs)}
      BY ONLY <2>2
    <3>3. {Placement(j, d) : d \in ToSet(j.debs)}
            = {Placement(j, j.debs[i]) : i \in 1..Len(j.debs)}
      BY ONLY <3>1
    <3>4. QED
      BY ONLY <3>1, <3>2, <3>3
  <2>5. placements # <<>>
    <3>1. Placement(j, j.debs[1]) \in ToSet(placements)
      BY <1>2, <2>4
    <3>2. QED
      BY <3>1, NoElements
  <2>6. placements[1] = Placement(j, j.debs[1])
    <3>1. 1 \in 1..Len(j.debs)
      BY <1>2
    <3>2. QED
      BY <2>2, <3>1, Zenon
  <2>7. QED
    BY <2>3, <2>4, <2>5, <2>6
<1>6. ArchsToRead(j, r.archs) = ReadArchs(r.archs, placements)
  BY <1>3 DEF ArchsToRead, UploadArchs
<1>7. r.archs \in Seq(Archs) /\ (r.archs = <<>> <=> Atomic!ArchsOf(r.files) = {})
  <2>1. r.archs \in Seq(Archs)
    BY DEF Releases
  <2>2. r.archs # <<>> => r.archs[1] \in ToSet(r.archs)
    BY <2>1 DEF ToSet
  <2>3. QED
    BY <2>1, <2>2, NoElements DEF Coherent
<1> HIDE DEF placements
<1>8. ToSet(ReadArchs(r.archs, placements)) =
        ToSet(r.archs) \cup ToSet(placements)
          \cup (IF r.archs = <<>> /\ placements[1] = "all"
                THEN ToSet(StandardArchs) ELSE {})
  BY <1>5, <1>7, StandardArchsType, ReadArchsRange
<1>9. Atomic!Written(j, r.files) =
        Atomic!ArchsOf(r.files) \cup {Placement(j, d) : d \in ToSet(j.debs)}
          \cup (IF Atomic!ArchsOf(r.files) = {} /\ Placement(j, j.debs[1]) = "all"
                THEN ToSet(StandardArchs) ELSE {})
  BY SameCommands DEF Atomic!Written
<1>10. QED
  BY <1>5, <1>6, <1>7, <1>8, <1>9 DEF Coherent

\* upload makes of each of them what AtomicRepository makes of it.
LEMMA UploadIsLawful ==
  ASSUME NEW j \in Jobs, j.op = "upload", \A d \in ToSet(j.debs) : ~Misplaced(j, d),
         NEW r \in Releases, Coherent(r),
         NEW ms \in Seq(Manifest), Planned(j, r.files, r, ms, <<>>),
         \A m \in ToSet(ms) : Added(j, m).ok,
         NEW changed \in Seq(Manifest), DOMAIN changed = DOMAIN ms,
         \A i \in DOMAIN ms :
           changed[i] = [ms[i] EXCEPT !.packages = Added(j, ms[i]).packages]
  PROVE  Lawful(j, r.files, Final(r, changed).files) /\ Coherent(Final(r, changed))
<1> DEFINE here == r.files
           written == Atomic!Written(j, here)
           contents == [a \in written |-> Atomic!Uploaded(j, here, a).packages]
<1>1. \A m \in ToSet(ms) :
        /\ m.arch \in written
        /\ m = Atomic!Manifest(j, here, m.arch)
        /\ Atomic!Uploaded(j, here, m.arch) = Added(j, m)
  <2>1. \A m \in ToSet(ms) : m = Got(j, here, m.arch) /\ m.arch \in written
    BY UploadReads DEF Planned
  <2>2. \A a : Got(j, here, a) = Atomic!Manifest(j, here, a)
    BY DEF Got, Atomic!Manifest
  <2> HIDE DEF written
  <2>3. \A m \in ToSet(ms) : m = Atomic!Manifest(j, here, m.arch)
    BY <2>1, <2>2
  <2>4. QED
    BY <2>1, <2>3, SameCommands DEF Atomic!Uploaded
<1>2. \A a \in written : \E m \in ToSet(ms) : m.arch = a
  BY UploadReads, NoElements DEF Planned, Wanted
<1>3. written # {}
  <2>1. j.debs \in Seq(ToSet(j.debs)) /\ j.debs # <<>>
    BY JobFacts DEF IsJob
  <2>2. j.debs[1] \in ToSet(j.debs)
    <3>1. 1 \in DOMAIN j.debs
      BY <2>1
    <3>2. QED
      BY <3>1 DEF ToSet
  <2>3. Placement(j, j.debs[1]) \in written
    BY <2>2, SameCommands DEF Atomic!Written
  <2>4. QED
    BY <2>3
<1> HIDE DEF written
<1>4. ASSUME NEW i \in DOMAIN ms
      PROVE  /\ ms[i] \in ToSet(ms)
             /\ changed[i].component = j.component
             /\ changed[i].arch = ms[i].arch
             /\ changed[i].packages = Added(j, ms[i]).packages
  <2>1. ms[i] \in Manifest /\ ms[i] \in ToSet(ms)
    BY DEF ToSet
  <2>2. \A a : Atomic!Manifest(j, here, a).component = j.component
    BY DEF Atomic!Manifest
  <2>3. ms[i].component = j.component
    BY <1>1, <2>1, <2>2
  <2>4. QED
    BY <2>1, <2>3 DEF Manifest
<1>5. ASSUME NEW y \in ToSet(changed)
      PROVE  /\ y.arch \in written /\ y.component = j.component
             /\ y.packages = Atomic!Uploaded(j, here, y.arch).packages
  <2>1. PICK i \in DOMAIN ms : y = changed[i]
    BY DEF ToSet
  <2>2. QED
    BY <1>1, <1>4, <2>1
<1>6. ASSUME NEW a \in written PROVE \E y \in ToSet(changed) : y.arch = a
  <2>1. PICK m \in ToSet(ms) : m.arch = a
    BY <1>2
  <2>2. PICK i \in DOMAIN ms : m = ms[i]
    BY DEF ToSet
  <2>3. changed[i] \in ToSet(changed)
    BY DEF ToSet
  <2>4. QED
    BY <1>4, <2>1, <2>2, <2>3
<1>7. written = {y.arch : y \in ToSet(changed)}
  BY <1>5, <1>6
<1>8. changed # <<>>
  BY <1>3, <1>7, NoElements
<1>9. DOMAIN contents = {y.arch : y \in ToSet(changed)}
      /\ \A y \in ToSet(changed) : y.component = j.component
                                   /\ y.packages = contents[y.arch]
  BY <1>5, <1>7
<1>10. contents = [a \in written |-> Atomic!Uploaded(j, here, a).packages]
  OBVIOUS
<1> HIDE DEF contents
<1>11. /\ Final(r, changed).files = Atomic!Rewrite(j, r.files, contents)
       /\ Coherent(Final(r, changed))
  BY ONLY r \in Releases, Coherent(r), changed \in Seq(Manifest), <1>8, <1>9,
     RewriteAgrees
<1>12. ~Atomic!UploadRefused(j, here)
  <2>1. \A d \in ToSet(j.debs) : ~Misplaced(j, d)
    OBVIOUS
  <2>2. \A a \in written : Atomic!Uploaded(j, here, a).ok
    BY <1>1, <1>2
  <2>3. QED
    BY <2>1, <2>2, SameCommands DEF Atomic!UploadRefused, written
<1>13. QED
  BY <1>10, <1>11, <1>12 DEF Lawful, Atomic!UploadEffect, written

\* copy stays within the codename whose lock it holds.
CopiesInside ==
  \A p \in Runs : \A j \in JobsOf[p] : j.op = "copy" => j.source[1] = j.codename

\* What is known of a run, given what its codename lists: what it has read, and
\* after its decision that this is the effect of its command.
RunAtomic(p) ==
  LET here == Contents(Codename(p))
  IN  /\ Coherent(rel[p])
      /\ pc[p] \notin {"unlock", "ended"} => outcome[p] = "none"
      /\ Changing(p) /\ pc[p] = "manifests" =>
           Planned(job[p], here, rel[p], manifests[p], todo[p])
      /\ job[p].op = "copy" /\ pc[p] \in {"release", "manifests"} =>
           kept[p] = Atomic!CopySource(job[p], Everywhere(here))
      /\ pc[p] \in Indexing \cup Indexed => Lawful(job[p], here, rel[p].files)

\* The inductive invariant.
AtomicInv ==
  /\ \A c \in Codenames : release[c] # NoObject => Coherent(release[c])
  /\ \A p \in Runs : RunAtomic(p)

AtomicHypotheses == CopiesInside /\ MatchHypotheses /\ AtomicInv

\* The step is one of p, and stores at most the Release of p.
Solo(p) ==
  /\ job' = job
  /\ \A q \in Runs \ {p} :
       /\ pc'[q] = pc[q] /\ outcome'[q] = outcome[q] /\ rel'[q] = rel[q]
       /\ manifests'[q] = manifests[q] /\ todo'[q] = todo[q] /\ kept'[q] = kept[q]
  /\ \/ release' = release
     \/ PutRelease(p) /\ release' = [release EXCEPT ![Codename(p)] = Rendered(p)]

\* So are all steps of a run.
LEMMA SoloSteps ==
  ASSUME TypeOK, NEW p \in Runs, Proceed(p) \/ GiveUp(p)
  PROVE  Solo(p)
<1> USE DEF Goto, store, memory, reading
<1>1. /\ pc \in [Runs -> Labels] /\ outcome \in [Runs -> Outcomes]
      /\ rel \in [Runs -> Releases] /\ manifests \in [Runs -> Seq(Manifest)]
      /\ DOMAIN todo = Runs /\ kept \in [Runs -> Packages]
  BY DEF TypeOK
<1>2. CASE Start(p) \/ TakeLock(p) \/ GiveUp(p) \/ Unlock(p)
  BY <1>1, <1>2 DEF Start, TakeLock, GiveUp, Unlock, Solo
<1>3. CASE RetrieveSource(p) \/ RetrieveRelease(p) \/ RetrieveManifest(p)
  BY <1>1, <1>3 DEF RetrieveSource, RetrieveRelease, RetrieveManifest, Solo
<1>4. CASE HeadPackage(p) \/ HeadsDone(p)
  BY <1>1, <1>4 DEF HeadPackage, HeadsDone, Solo
<1>5. CASE ListManifest(p) \/ Answer(p) \/ LookUp(p)
  BY <1>1, <1>5 DEF ListManifest, Answer, LookUp, Finish, Solo
<1>6. CASE DecideUpload(p) \/ DecideCopy(p) \/ DecideDelete(p) \/ DecideVerify(p)
  <2>1. \/ \E changed, uploads : Prepare(p, changed, uploads)
        \/ PrepareRelease(p) \/ \E how : Nothing(p, how)
    BY <1>6 DEF DecideUpload, DecideCopy, DecideDelete, DecideVerify
  <2>2. \E op : Decide(p, op)
    BY <1>6 DEF DecideUpload, DecideCopy, DecideDelete, DecideVerify
  <2>3. /\ UNCHANGED <<job, release, todo>>
        /\ manifests' = [manifests EXCEPT ![p] = <<>>]
        /\ kept' = [kept EXCEPT ![p] = <<>>]
    BY <2>2 DEF Decide
  <2>4. /\ \E x : pc' = [pc EXCEPT ![p] = x]
        /\ rel' = rel \/ \E x : rel' = [rel EXCEPT ![p] = x]
        /\ outcome' = outcome \/ \E x : outcome' = [outcome EXCEPT ![p] = x]
    BY <2>1 DEF Prepare, PrepareRelease, Nothing, Finish
  <2>5. QED
    BY <1>1, <2>3, <2>4 DEF Solo
<1>7. CASE Publish(p) /\ UNCHANGED reading
  <2>1. CASE PutPackage(p) \/ PackagesDone(p)
    BY <1>1, <1>7, <2>1 DEF PutPackage, PackagesDone, Finish, Solo
  <2>2. CASE PutByHash(p) \/ ByHashDone(p) \/ PutCanonical(p) \/ CanonicalDone(p)
    BY <1>1, <1>7, <2>2 DEF PutByHash, ByHashDone, PutCanonical, CanonicalDone, Solo
  <2>3. CASE Sign(p) \/ DeleteReleaseGpg(p) \/ DeleteInRelease(p)
    BY <1>1, <1>7, <2>3 DEF Sign, DeleteReleaseGpg, DeleteInRelease, Solo
  <2>4. CASE PutReleaseGpg(p) \/ PutInRelease(p)
    BY <1>1, <1>7, <2>4 DEF PutReleaseGpg, PutInRelease, Finish, Solo
  <2>5. CASE PutRelease(p)
    <3>1. /\ UNCHANGED <<job, rel, manifests, todo, kept>>
          /\ release' = [release EXCEPT ![Codename(p)] = Rendered(p)]
          /\ \E x : pc' = [pc EXCEPT ![p] = x]
          /\ outcome' = outcome \/ \E x : outcome' = [outcome EXCEPT ![p] = x]
      BY <1>7, <2>5 DEF PutRelease, Finish
    <3>2. QED
      BY <1>1, <2>5, <3>1 DEF Solo
  <2>6. QED
    BY <1>7, <2>1, <2>2, <2>3, <2>4, <2>5 DEF Publish
<1>8. CASE \/ ListIndexes(p) \/ ScanIndex(p) \/ ListPool(p)
           \/ DeletePoolObject(p) \/ SweepDone(p)
  BY <1>1, <1>8 DEF ListIndexes, ScanIndex, ListPool, DeletePoolObject, SweepDone,
                    Finish, Solo
<1>9. QED
  BY <1>2, <1>3, <1>4, <1>5, <1>6, <1>7, <1>8 DEF Proceed

\* The other runs keep what is known of them: who stores a Release is alone in
\* its codename.
LEMMA OthersAtomic ==
  ASSUME AtomicHypotheses, NEW p \in Runs, Solo(p), NEW q \in Runs, q # p
  PROVE  RunAtomic(q)'
<1>1. /\ pc'[q] = pc[q] /\ outcome'[q] = outcome[q] /\ rel'[q] = rel[q]
      /\ manifests'[q] = manifests[q] /\ todo'[q] = todo[q] /\ kept'[q] = kept[q]
      /\ job'[q] = job[q]
  BY DEF Solo
<1>2. /\ TypeOK /\ RunAtomic(q) /\ RunMatches(q) /\ RunMatches(p)
      /\ Codename(p) \in Codenames /\ Codename(q) \in Codenames
  BY CodenameType DEF AtomicHypotheses, MatchHypotheses, TypeInv, AtomicInv, MatchInv
<1>3. Codename(q)' = Codename(q) /\ Changing(q)' = Changing(q)
  BY <1>1 DEF Codename, Changing
<1>4. CASE release'[Codename(q)] = release[Codename(q)]
  <2>1. Contents(Codename(q))' = Contents(Codename(q))
    BY <1>3, <1>4 DEF Contents
  <2>2. QED
    BY <1>1, <1>2, <1>3, <2>1 DEF RunAtomic
<1>5. CASE release'[Codename(q)] # release[Codename(q)]
  <2>1. pc[p] = "putRelease" /\ Codename(p) = Codename(q)
    <3>1. PutRelease(p) /\ release' = [release EXCEPT ![Codename(p)] = Rendered(p)]
      BY <1>5 DEF Solo
    <3>2. release \in [Codenames -> {NoObject} \cup Releases]
      BY <1>2 DEF TypeOK
    <3>3. QED
      BY <1>2, <1>5, <3>1, <3>2 DEF PutRelease
  <2>2. Changing(p) /\ pc[p] \in Working
    BY <1>2, <2>1 DEF RunMatches, WritingLabels, Working, Labels
  <2>3. ~(Changing(q) /\ pc[q] \in Working)
    BY <1>2, <2>1, <2>2, OneChange DEF AtomicHypotheses, MatchHypotheses
  <2>4. pc[q] \notin WritingLabels \cup {"sign"}
    BY <1>2, <2>3 DEF RunMatches, WritingLabels, Working, Labels
  <2>5. /\ ~(Changing(q) /\ pc[q] = "manifests")
        /\ ~(job[q].op = "copy" /\ pc[q] \in {"release", "manifests"})
        /\ pc[q] \notin Indexing \cup Indexed
    BY <2>3, <2>4 DEF Changing, Working, Labels, WritingLabels, Indexing, Indexed
  <2>6. QED
    BY <1>1, <1>2, <1>3, <2>5 DEF RunAtomic
<1>6. QED
  BY <1>4, <1>5

---------------------------------------------------------------------------
(* Each step of a run takes effect, or changes nothing *)

\* While a run that changes a codename reads it, its indexes are those that its
\* Release lists.
LEMMA IndexListed ==
  ASSUME MatchHypotheses, NEW p \in Runs, Changing(p),
         pc[p] \in {"source", "release", "manifests"}
  PROVE  index[Codename(p)] = Contents(Codename(p))
<1> DEFINE c == Codename(p)
           here == Contents(c)
<1>1. /\ TypeOK /\ c \in Codenames /\ pc[p] \in Working
      /\ index[c] \in [IndexNames -> {NoObject} \cup Packages]
      /\ release[c] \in {NoObject} \cup Releases
  BY CodenameType DEF MatchHypotheses, TypeInv, TypeOK, Working, Labels
<1>2. ASSUME NEW q \in Runs, Codename(q) = c PROVE pc[q] \notin Ahead
  <2>1. SUFFICES ASSUME pc[q] \in Ahead PROVE FALSE
    OBVIOUS
  <2>2. Changing(q)
    BY <2>1 DEF MatchHypotheses, MatchInv, RunMatches, Ahead, Indexed, WritingLabels
  <2>3. p # q /\ pc[q] \in Working
    BY <2>1 DEF Ahead, Indexed, Working, Labels
  <2>4. QED
    BY <1>1, <1>2, <2>2, <2>3, OneChange DEF MatchHypotheses
<1>3. \A n \in IndexNames : index[c][n] = here[n]
  BY <1>1, <1>2 DEF MatchHypotheses, MatchInv, StoreMatches
<1>4. here = [n \in IndexNames |-> here[n]]
  BY <1>1 DEF Contents, Releases
<1>5. index[c] = [n \in IndexNames |-> index[c][n]]
  BY <1>1
<1> HIDE DEF here, c
<1>6. index[c] = here
  BY <1>3, <1>4, <1>5
<1>7. QED
  BY <1>6 DEF here, c

\* The command has taken effect.
Done(p) == outcome[p] = "ok" \/ pc[p] \in {"putGpg", "putInRelease"}

\* The step changes nothing that AtomicRepository speaks of.
Stutters(p) == release' = release /\ (Done(p)' <=> Done(p))

\* With the step the command takes effect.
Commits(p) ==
  /\ ~Done(p) /\ Done(p)'
  /\ \/ job[p].op \in {"clean", "list", "show", "exists"} /\ release' = release
     \/ /\ Lawful(job[p], Contents(Codename(p)), Rendered(p).files)
        /\ release' = [release EXCEPT ![Codename(p)] = Rendered(p)]

\* What is to be shown of each step.
AtomicStep(p) ==
  /\ RunAtomic(p)'
  /\ Stutters(p) \/ Commits(p)
  /\ \A c \in Codenames : release'[c] # NoObject => Coherent(release'[c])

\* The Releases stay coherent while none is stored.
LEMMA SameReleases ==
  ASSUME AtomicHypotheses, release' = release
  PROVE  \A c \in Codenames : release'[c] # NoObject => Coherent(release'[c])
BY DEF AtomicHypotheses, AtomicInv

\* A step outside reading and publication.
LEMMA OutsideIsAtomic ==
  ASSUME AtomicHypotheses, NEW p \in Runs, job' = job, rel'[p] = rel[p],
         pc'[p] \notin {"unlock", "ended"} => outcome'[p] = "none",
         Changing(p) => pc'[p] # "manifests",
         job[p].op = "copy" => pc'[p] # "release",
         pc'[p] \notin Indexing \cup Indexed
  PROVE  RunAtomic(p)'
<1>1. Changing(p)' = Changing(p) /\ Coherent(rel[p])
  BY DEF Changing, AtomicHypotheses, AtomicInv, RunAtomic
<1>2. job[p].op = "copy" => Changing(p)
  BY DEF Changing
<1>3. QED
  BY <1>1, <1>2 DEF RunAtomic

\* verify does not take the lock.
LEMMA NoRepair ==
  ASSUME AtomicHypotheses, NEW p \in Runs
  PROVE  /\ job[p].op # "verify"
         /\ ~HeadPackage(p) /\ ~HeadsDone(p) /\ ~DecideVerify(p)
<1>1. job[p] \in JobsOf[p] /\ RunOK(p)
  BY DEF AtomicHypotheses, MatchHypotheses, TypeInv, TypeOK, RunsOK
<1>2. job[p].op # "verify"
  BY <1>1 DEF AtomicHypotheses, MatchHypotheses, ChangesUnderLock
<1>3. QED
  BY <1>1, <1>2 DEF RunOK, HeadPackage, HeadsDone, DecideVerify, Decide

\* The steps of the lock, of queries and of clean, and those that precede the
\* reads: a query, or clean, that succeeds takes effect without a change.
LEMMA RestingAtomic ==
  ASSUME AtomicHypotheses, NEW p \in Runs, Solo(p),
         \/ Start(p) \/ TakeLock(p) \/ GiveUp(p) \/ Unlock(p)
         \/ ListManifest(p) \/ Answer(p) \/ LookUp(p)
         \/ ListIndexes(p) \/ ScanIndex(p) \/ ListPool(p)
         \/ DeletePoolObject(p) \/ SweepDone(p)
  PROVE  AtomicStep(p)
<1> USE DEF Goto, store, memory, reading
<1>1. /\ pc \in [Runs -> Labels] /\ outcome \in [Runs -> Outcomes]
      /\ RunOK(p) /\ RunAtomic(p) /\ job[p] \in JobsOf[p]
  BY DEF AtomicHypotheses, MatchHypotheses, TypeInv, TypeOK, RunsOK, AtomicInv
<1>2. pc[p] \notin {"unlock", "ended"} => outcome[p] = "none"
  BY <1>1 DEF RunAtomic
<1>3. job[p].op \in {"upload", "copy", "delete"} => job[p].lock
  BY <1>1 DEF AtomicHypotheses, MatchHypotheses, ChangesUnderLock
<1>4. UNCHANGED <<job, rel, release>>
  BY DEF Start, TakeLock, GiveUp, Unlock, ListManifest, Answer, LookUp, ListIndexes,
         ScanIndex, ListPool, DeletePoolObject, SweepDone
<1>5. CASE Start(p) \/ TakeLock(p)
  <2>1. /\ pc[p] \in {"start", "lock"} /\ outcome' = outcome
        /\ pc'[p] \in {"lock", "source", "list", "lookup", "release"}
        /\ pc'[p] = "release" => job[p].op # "copy"
    BY <1>1, <1>5 DEF Start, TakeLock, FirstRead
  <2>2. RunAtomic(p)'
    BY <1>2, <1>4, <2>1, OutsideIsAtomic DEF Indexing, Indexed
  <2>3. Stutters(p)
    BY <1>4, <2>1 DEF Stutters, Done
  <2>4. QED
    BY <1>4, <2>2, <2>3, SameReleases DEF AtomicStep
<1>6. CASE GiveUp(p) \/ Unlock(p)
  <2>1. /\ pc[p] \in {"lock", "unlock"} /\ pc'[p] = "ended"
        /\ outcome'[p] # outcome[p] => pc[p] = "lock" /\ outcome'[p] = "gaveUp"
    BY <1>1, <1>6 DEF GiveUp, Unlock
  <2>0. outcome'[p] = "ok" <=> outcome[p] = "ok"
    BY <1>2, <2>1
  <2>2. RunAtomic(p)'
    BY <1>4, <2>1, OutsideIsAtomic DEF Indexing, Indexed
  <2>3. Stutters(p)
    <3>1. /\ pc[p] \notin {"putGpg", "putInRelease"}
          /\ pc'[p] \notin {"putGpg", "putInRelease"}
      BY ONLY <2>1
    <3>2. QED
      BY ONLY <1>4, <2>0, <3>1 DEF Stutters, Done
  <2>4. QED
    BY <1>4, <2>2, <2>3, SameReleases DEF AtomicStep
<1>7. CASE ListManifest(p) \/ ListIndexes(p) \/ ScanIndex(p) \/ ListPool(p)
           \/ DeletePoolObject(p)
  <2>1. /\ pc[p] \in {"manifests", "list", "scan", "sweep"} /\ outcome' = outcome
        /\ pc'[p] \in {"manifests", "scan", "sweep"}
        /\ pc'[p] = "manifests" => job[p].op = "list"
    BY <1>1, <1>7 DEF ListManifest, ListIndexes, ScanIndex, ListPool, DeletePoolObject
  <2>2. RunAtomic(p)'
    BY <1>2, <1>4, <2>1, OutsideIsAtomic DEF Indexing, Indexed, Changing
  <2>3. Stutters(p)
    BY <1>4, <2>1 DEF Stutters, Done
  <2>4. QED
    BY <1>4, <2>2, <2>3, SameReleases DEF AtomicStep
<1>8. CASE Answer(p) \/ LookUp(p) \/ SweepDone(p)
  <2>1. /\ pc[p] \in {"manifests", "lookup", "sweep"}
        /\ pc'[p] \in {"unlock", "ended"} /\ outcome'[p] \in {"ok", "notFound"}
        /\ job[p].op \in {"clean", "list", "show", "exists"}
    BY <1>1, <1>8 DEF Answer, LookUp, SweepDone, Finish, RunOK
  <2>2. RunAtomic(p)'
    BY <1>4, <2>1, OutsideIsAtomic DEF Indexing, Indexed
  <2>3. Stutters(p) \/ Commits(p)
    BY <1>2, <1>4, <2>1 DEF Stutters, Commits, Done
  <2>4. QED
    BY <1>4, <2>2, <2>3, SameReleases DEF AtomicStep
<1>9. QED
  BY <1>5, <1>6, <1>7, <1>8

\* copy stays within its codename, so what it selects is what the Release lists.
LEMMA RetrieveSourceAtomic ==
  ASSUME AtomicHypotheses, NEW p \in Runs, Solo(p), RetrieveSource(p)
  PROVE  AtomicStep(p)
<1> DEFINE c == Codename(p)
           here == Contents(c)
           j == job[p]
<1>1. /\ pc \in [Runs -> Labels] /\ kept \in [Runs -> Packages]
      /\ RunOK(p) /\ RunAtomic(p) /\ job[p] \in JobsOf[p] /\ c \in Codenames
  BY CodenameType
  DEF AtomicHypotheses, MatchHypotheses, TypeInv, TypeOK, RunsOK, AtomicInv
<1>2. /\ pc[p] = "source" /\ pc'[p] = "release"
      /\ UNCHANGED <<job, rel, release, outcome>>
      /\ kept'[p] = Selected(j, PackagesOf(index[j.source[1]]
                                              [<<j.source[2], j.arch, "Packages">>]))
  BY <1>1 DEF RetrieveSource, Goto, store, memory
<1>3. j.op = "copy" /\ outcome[p] = "none"
  BY <1>1, <1>2 DEF RunOK, RunAtomic
<1>4. j.source[1] = c
  BY <1>1, <1>3 DEF AtomicHypotheses, CopiesInside, Codename
<1>5. index[c] = here
  BY <1>2, <1>3, IndexListed DEF AtomicHypotheses, Changing
<1>6. kept'[p] = Atomic!CopySource(j, Everywhere(here))
  <2>1. Everywhere(here)[j.source[1]] = here
    BY <1>1, <1>4 DEF Everywhere
  <2> HIDE DEF here, c
  <2>2. QED
    BY <1>2, <1>4, <1>5, <2>1, SameCommands DEF Atomic!CopySource
<1>7. Contents(Codename(p))' = here
  BY <1>2 DEF Codename, Contents
<1>8. RunAtomic(p)'
  <2>1. Coherent(rel[p])
    BY <1>1 DEF RunAtomic
  <2> HIDE DEF here
  <2>2. QED
    BY <1>2, <1>3, <1>6, <1>7, <2>1 DEF RunAtomic, Indexing, Indexed
<1>9. Stutters(p)
  BY <1>2 DEF Stutters, Done
<1>10. QED
  BY <1>2, <1>8, <1>9, SameReleases DEF AtomicStep

\* A Release that is retrieved lists what is stored, and no manifest is read yet.
LEMMA RetrieveReleaseAtomic ==
  ASSUME AtomicHypotheses, NEW p \in Runs, Solo(p), RetrieveRelease(p)
  PROVE  AtomicStep(p)
<1> DEFINE c == Codename(p)
           here == Contents(c)
           stored == release[c]
           r == Retrieved(stored, job[p].byHash)
<1>1. /\ pc \in [Runs -> Labels] /\ rel \in [Runs -> Releases] /\ DOMAIN todo = Runs
      /\ RunOK(p) /\ RunAtomic(p) /\ job[p] \in JobsOf[p] /\ c \in Codenames
      /\ stored \in {NoObject} \cup Releases /\ (stored # NoObject => Coherent(stored))
  BY CodenameType
  DEF AtomicHypotheses, MatchHypotheses, TypeInv, TypeOK, RunsOK, AtomicInv
<1>2. /\ pc[p] = "release" /\ pc'[p] = "manifests"
      /\ UNCHANGED <<job, release, outcome, manifests, kept>>
      /\ rel'[p] = r /\ todo'[p] = ArchsToRead(job[p], r.archs)
  BY <1>1 DEF RetrieveRelease, Goto, store
<1>3. manifests'[p] = <<>> /\ outcome[p] = "none"
  BY <1>1, <1>2 DEF RunOK, RunAtomic
<1>4. /\ Codename(p)' = c /\ Contents(Codename(p))' = here
      /\ Changing(p)' = Changing(p)
  BY <1>2 DEF Codename, Contents, Changing
<1>5. Coherent(r) /\ r.files = here
  <2>1. CASE stored = NoObject
    BY <2>1, NewCoherent DEF Retrieved, NewRelease, Contents
  <2>2. CASE stored # NoObject
    <3>1. /\ r.components = stored.components /\ r.archs = stored.archs
          /\ r.files = stored.files
      BY <1>1, <2>2 DEF Retrieved, Releases
    <3> HIDE DEF r
    <3>2. QED
      BY <1>1, <2>2, <3>1 DEF Coherent, Contents
  <2>3. QED
    BY <2>1, <2>2
<1>6. Planned(job[p], here, r, <<>>, ArchsToRead(job[p], r.archs))
  <2> HIDE DEF r, here
  <2>1. QED
    BY <1>5, NoElements DEF Planned
<1>7. RunAtomic(p)'
  <2>1. job[p].op = "copy" => kept[p] = Atomic!CopySource(job[p], Everywhere(here))
    BY <1>1, <1>2 DEF RunAtomic
  <2> HIDE DEF r, here, c
  <2>2. QED
    BY <1>2, <1>3, <1>4, <1>5, <1>6, <2>1 DEF RunAtomic, Indexing, Indexed
<1>8. Stutters(p)
  BY <1>2 DEF Stutters, Done
<1>9. QED
  BY <1>2, <1>7, <1>8, SameReleases DEF AtomicStep

\* One more index is read: what is planned is read but for the rest.
LEMMA ReadOneMore ==
  ASSUME NEW j \in Jobs, j.op # "list", NEW here, NEW r, NEW ms \in Seq(Manifest),
         NEW left \in Seq(Archs), left # <<>>, Planned(j, here, r, ms, left),
         NEW m \in Manifest, m = Got(j, here, Head(left)),
         NEW ms1, ms1 = IF Wanted(j, here, Head(left)) THEN Append(ms, m) ELSE ms
  PROVE  Planned(j, here, r, ms1, Tail(left))
<1> DEFINE planned == ToSet(ArchsToRead(j, r.archs))
<1>1. /\ r.files = here
      /\ ToSet(left) \subseteq planned
      /\ \A x \in ToSet(ms) : /\ x = Got(j, here, x.arch)
                              /\ x.arch \in planned
                              /\ Wanted(j, here, x.arch)
      /\ \A a \in planned \ ToSet(left) :
           Wanted(j, here, a) => \E x \in ToSet(ms) : x.arch = a
  BY DEF Planned
<1>2. ToSet(left) = {Head(left)} \cup ToSet(Tail(left))
  BY HeadTail
<1>3. m.arch = Head(left)
  BY DEF Got
<1>4. ToSet(ms1) = IF Wanted(j, here, Head(left)) THEN ToSet(ms) \cup {m} ELSE ToSet(ms)
  BY AppendRange
<1> HIDE DEF planned
<1>5. ToSet(Tail(left)) \subseteq planned
  BY <1>1, <1>2
<1>6. ASSUME NEW x \in ToSet(ms1)
      PROVE  x = Got(j, here, x.arch) /\ x.arch \in planned /\ Wanted(j, here, x.arch)
  BY <1>1, <1>2, <1>3, <1>4
<1>7. ASSUME NEW a \in planned \ ToSet(Tail(left)), Wanted(j, here, a)
      PROVE  \E x \in ToSet(ms1) : x.arch = a
  <2>1. CASE a = Head(left)
    BY <1>3, <1>4, <1>7, <2>1
  <2>2. CASE a # Head(left)
    <3>1. a \in planned \ ToSet(left)
      BY <1>2, <2>2
    <3>2. PICK x \in ToSet(ms) : x.arch = a
      BY <1>1, <1>7, <3>1
    <3>3. x \in ToSet(ms1)
      BY <1>4, <3>2
    <3>4. QED
      BY <3>2, <3>3
  <2>3. QED
    BY <2>1, <2>2
<1>8. QED
  BY <1>1, <1>5, <1>6, <1>7 DEF Planned, planned

\* What is read is what the Release lists.
LEMMA RetrieveManifestAtomic ==
  ASSUME AtomicHypotheses, NEW p \in Runs, Solo(p), RetrieveManifest(p)
  PROVE  AtomicStep(p)
<1> DEFINE c == Codename(p)
           here == Contents(c)
           j == job[p]
           arch == Head(todo[p])
           packages == PackagesOf(index[j.codename][<<j.component, arch, "Packages">>])
           left == IF j.op = "delete"
                   THEN DeletePackage(packages, j.name, j.all, j.versions)
                   ELSE packages
           m == [component |-> j.component, arch |-> arch, packages |-> left]
<1>1. /\ pc \in [Runs -> Labels] /\ DOMAIN todo = Runs
      /\ manifests \in [Runs -> Seq(Manifest)]
      /\ RunOK(p) /\ RunAtomic(p) /\ job[p] \in JobsOf[p] /\ j \in Jobs
      /\ TypeOK /\ c \in Codenames
  BY CodenameType, JobType
  DEF AtomicHypotheses, MatchHypotheses, TypeInv, TypeOK, RunsOK, AtomicInv
<1>2. /\ pc[p] = "manifests" /\ todo[p] # <<>> /\ j.op \notin {"list", "verify", "clean"}
  BY <1>1, NoRepair DEF RetrieveManifest, RunOK
<1>3. /\ UNCHANGED <<pc, job, rel, release, outcome, kept>>
      /\ manifests'[p] = IF j.op = "delete" /\ left = packages THEN manifests[p]
                         ELSE Append(manifests[p], m)
      /\ todo'[p] = Tail(todo[p])
  BY <1>1, <1>2 DEF RetrieveManifest, store
<1>4. outcome[p] = "none" /\ todo[p] \in Seq(Archs)
  BY <1>1, <1>2 DEF RunOK, RunAtomic
<1>5. Stutters(p)
  BY <1>3 DEF Stutters, Done
<1>6. CASE ~Changing(p)
  <2>1. RunAtomic(p)'
    BY <1>2, <1>3, <1>4, <1>6, OutsideIsAtomic DEF Changing, Indexing, Indexed
  <2>2. QED
    BY <1>3, <1>5, <2>1, SameReleases DEF AtomicStep
<1>7. CASE Changing(p)
  <2>1. index[c] = here
    BY <1>2, <1>7, IndexListed DEF AtomicHypotheses
  <2>2. arch \in Archs
    BY <1>2, <1>4
  <2>3. /\ packages = Atomic!Manifest(j, here, arch).packages
        /\ packages \in Packages
    <3>1. index[j.codename] = here
      BY <2>1 DEF Codename
    <3>2. <<j.component, arch, "Packages">> \in IndexNames
      BY <1>1, <2>2, JobFacts, PlainName
    <3>3. packages \in Packages
      BY <1>1, <3>2, IndexType DEF Codename
    <3> HIDE DEF here, arch
    <3>4. QED
      BY <3>1, <3>3, SameCommands DEF Atomic!Manifest
  <2>4. /\ m = Got(j, here, arch)
        /\ Wanted(j, here, arch) <=> ~(j.op = "delete" /\ left = packages)
    <3>1. Atomic!Left(j, here, arch) = DeletePackage(packages, j.name, j.all, j.versions)
      BY <2>3, SameCommands DEF Atomic!Left
    <3> HIDE DEF here, arch, packages
    <3>2. QED
      BY <2>3, <3>1 DEF Got, Wanted
  <2>5. m \in Manifest
    <3>1. left \in Packages
      BY <2>3, KeepOnlyFacts DEF DeletePackage, Packages
    <3> HIDE DEF left, arch
    <3>2. QED
      BY <1>1, <2>2, <3>1, JobFacts DEF Manifest
  <2>6. Planned(j, here, rel[p], manifests[p], todo[p])
    BY <1>1, <1>2, <1>7 DEF RunAtomic
  <2>7. Planned(j, here, rel[p], manifests'[p], todo'[p])
    <3>1. manifests'[p] = IF Wanted(j, here, arch) THEN Append(manifests[p], m)
                          ELSE manifests[p]
      BY <1>3, <2>4
    <3>2. manifests[p] \in Seq(Manifest)
      BY <1>1
    <3>3. todo[p] \in Seq(Archs) /\ todo[p] # <<>> /\ j \in Jobs /\ j.op # "list"
      BY <1>1, <1>2, <1>4
    <3>4. m \in Manifest /\ m = Got(j, here, Head(todo[p]))
      BY <2>4, <2>5
    <3> HIDE DEF here, m, j
    <3>5. Planned(j, here, rel[p], manifests'[p], Tail(todo[p]))
      BY ONLY <2>6, <3>1, <3>2, <3>3, <3>4, ReadOneMore
    <3>6. QED
      BY <1>3, <3>5
  <2>8. /\ Codename(p)' = c /\ Contents(Codename(p))' = here
        /\ Changing(p)' = Changing(p)
    BY <1>3 DEF Codename, Contents, Changing
  <2>9. RunAtomic(p)'
    <3>1. /\ Coherent(rel[p])
          /\ j.op = "copy" => kept[p] = Atomic!CopySource(j, Everywhere(here))
      BY <1>1, <1>2 DEF RunAtomic
    <3> HIDE DEF here
    <3>2. QED
      BY <1>2, <1>3, <1>4, <2>7, <2>8, <3>1 DEF RunAtomic, Indexing, Indexed
  <2>10. QED
    BY <1>3, <1>5, <2>9, SameReleases DEF AtomicStep
<1>8. QED
  BY <1>6, <1>7

\* Before its decision a command has read what it planned to read.
LEMMA AllRead ==
  ASSUME AtomicHypotheses, NEW p \in Runs, NEW op \in {"upload", "copy", "delete"},
         Decide(p, op)
  PROVE  /\ rel[p] \in Releases /\ Coherent(rel[p]) /\ manifests[p] \in Seq(Manifest)
         /\ rel[p].files = Contents(Codename(p))
         /\ Planned(job[p], rel[p].files, rel[p], manifests[p], <<>>)
         /\ job[p] \in Jobs /\ job[p] \in JobsOf[p] /\ outcome[p] = "none"
<1>1. /\ pc[p] = "manifests" /\ todo[p] = <<>> /\ job[p].op = op
  BY DEF Decide
<1>2. /\ TypeOK /\ RunAtomic(p) /\ job[p] \in JobsOf[p] /\ rel[p] \in Releases
      /\ manifests[p] \in Seq(Manifest)
  BY DEF AtomicHypotheses, MatchHypotheses, TypeInv, TypeOK, AtomicInv
<1>3. /\ Coherent(rel[p]) /\ outcome[p] = "none"
      /\ Planned(job[p], Contents(Codename(p)), rel[p], manifests[p], <<>>)
  BY <1>1, <1>2 DEF RunAtomic, Changing
<1>4. rel[p].files = Contents(Codename(p))
  BY <1>3 DEF Planned
<1>5. QED
  BY <1>2, <1>3, <1>4, JobType

\* A command that prepares its effect publishes what it may.
LEMMA PreparedAtomic ==
  ASSUME AtomicHypotheses, NEW p \in Runs, NEW op \in {"upload", "copy", "delete"},
         Decide(p, op), NEW changed, NEW uploads, Prepare(p, changed, uploads),
         /\ Lawful(job[p], rel[p].files, Final(rel[p], changed).files)
         /\ Coherent(Final(rel[p], changed))
  PROVE  AtomicStep(p)
<1> DEFINE r == Final(rel[p], changed)
           here == Contents(Codename(p))
<1>1. /\ pc \in [Runs -> Labels] /\ rel \in [Runs -> Releases]
  BY DEF AtomicHypotheses, MatchHypotheses, TypeInv, TypeOK
<1>2. /\ pc[p] = "manifests" /\ pc'[p] = "packages" /\ rel'[p] = r
      /\ UNCHANGED <<job, release, outcome>>
  BY <1>1 DEF Decide, Prepare, Goto, store, Final
<1>3. rel[p].files = here /\ outcome[p] = "none"
  BY AllRead
<1>4. Codename(p)' = Codename(p) /\ Contents(Codename(p))' = here
  BY <1>2 DEF Codename, Contents
<1>5. RunAtomic(p)'
  <2> HIDE DEF r, here
  <2>1. Lawful(job[p], here, r.files) /\ Coherent(r)
    BY <1>3 DEF r
  <2>2. QED
    BY <1>2, <1>3, <1>4, <2>1 DEF RunAtomic
<1>6. Stutters(p)
  BY <1>2 DEF Stutters, Done
<1>7. QED
  BY <1>2, <1>5, <1>6, SameReleases DEF AtomicStep

\* A command that is refused changes nothing.
LEMMA NothingAtomic ==
  ASSUME AtomicHypotheses, NEW p \in Runs, NEW op \in {"upload", "copy", "delete"},
         Decide(p, op), Nothing(p, "error")
  PROVE  AtomicStep(p)
<1>1. /\ pc \in [Runs -> Labels] /\ outcome \in [Runs -> Outcomes]
  BY DEF AtomicHypotheses, MatchHypotheses, TypeInv, TypeOK
<1>2. /\ pc[p] = "manifests" /\ pc'[p] \in {"unlock", "ended"} /\ outcome'[p] = "error"
      /\ UNCHANGED <<job, release, rel>>
  BY <1>1 DEF Decide, Nothing, Finish, Goto, store
<1>3. outcome[p] = "none"
  BY AllRead
<1>4. RunAtomic(p)'
  BY <1>2, OutsideIsAtomic DEF Indexing, Indexed
<1>5. Stutters(p)
  BY <1>2, <1>3 DEF Stutters, Done
<1>6. QED
  BY <1>2, <1>4, <1>5, SameReleases DEF AtomicStep

\* An upload that is not refused prepares what AtomicRepository makes of it.
LEMMA DecideUploadAtomic ==
  ASSUME AtomicHypotheses, NEW p \in Runs, DecideUpload(p)
  PROVE  AtomicStep(p)
<1> DEFINE j == job[p]
           ms == manifests[p]
           added == [i \in DOMAIN ms |-> Added(j, ms[i])]
           changed == [i \in DOMAIN ms |-> [ms[i] EXCEPT !.packages = added[i].packages]]
           refused == \/ \E i \in DOMAIN j.debs : Misplaced(j, j.debs[i])
                      \/ \E i \in DOMAIN ms : ~added[i].ok
<1>1. /\ Decide(p, "upload") /\ j.op = "upload"
      /\ refused => Nothing(p, "error")
      /\ ~refused => Prepare(p, changed, Uploads(j, ms))
  BY DEF DecideUpload, Decide
<1>2. CASE refused
  BY <1>1, <1>2, NothingAtomic
<1>3. CASE ~refused
  <2>1. /\ rel[p] \in Releases /\ Coherent(rel[p]) /\ ms \in Seq(Manifest)
        /\ Planned(j, rel[p].files, rel[p], ms, <<>>) /\ j \in Jobs
    BY <1>1, AllRead
  <2>2. /\ \A d \in ToSet(j.debs) : ~Misplaced(j, d)
        /\ \A m \in ToSet(ms) : Added(j, m).ok
    BY <1>3 DEF ToSet
  <2>3. \A i \in DOMAIN ms :
          /\ ms[i] \in Manifest
          /\ changed[i] = [ms[i] EXCEPT !.packages = Added(j, ms[i]).packages]
    BY <2>1
  <2>4. DOMAIN changed = DOMAIN ms
    OBVIOUS
  <2>5. changed \in Seq(Manifest)
    <3>1. ASSUME NEW i \in DOMAIN ms PROVE changed[i] \in Manifest
      <4>1. Added(j, ms[i]).packages \in Packages
        BY <2>1, <2>3, AddedType
      <4>2. QED
        BY <2>3, <4>1 DEF Manifest
    <3>2. Len(ms) \in Nat /\ DOMAIN ms = 1..Len(ms)
      BY <2>1
    <3>3. changed = [i \in 1..Len(ms) |-> changed[i]]
      BY <3>2
    <3> HIDE DEF changed
    <3>4. QED
      BY <3>1, <3>2, <3>3, SequenceType
  <2> HIDE DEF changed, added, refused
  <2>6. /\ Lawful(j, rel[p].files, Final(rel[p], changed).files)
        /\ Coherent(Final(rel[p], changed))
    <3>1. /\ j.op = "upload"
          /\ \A i \in DOMAIN ms :
               changed[i] = [ms[i] EXCEPT !.packages = Added(j, ms[i]).packages]
      BY <1>1, <2>3
    <3> HIDE DEF j, ms
    <3>2. QED
      BY ONLY <2>1, <2>2, <2>4, <2>5, <3>1, UploadIsLawful
  <2>7. Prepare(p, changed, Uploads(j, ms))
    BY <1>1, <1>3
  <2>8. QED
    BY <1>1, <2>6, <2>7, PreparedAtomic
<1>4. QED
  BY <1>2, <1>3

\* So does a copy of entries that were selected, and added.
LEMMA DecideCopyAtomic ==
  ASSUME AtomicHypotheses, NEW p \in Runs, DecideCopy(p)
  PROVE  AtomicStep(p)
<1> DEFINE j == job[p]
           m == manifests[p][1]
           added == AddAll(m.packages, kept[p], j.preserve, j.failIfExists)
           refused == kept[p] = <<>> \/ ~added.ok
           changed == <<[m EXCEPT !.packages = added.packages]>>
<1>1. /\ Decide(p, "copy") /\ j.op = "copy" /\ pc[p] = "manifests" /\ todo[p] = <<>>
      /\ refused => Nothing(p, "error")
      /\ ~refused => Prepare(p, changed, <<>>)
  BY DEF DecideCopy, Decide
<1>2. CASE refused
  BY <1>1, <1>2, NothingAtomic
<1>3. CASE ~refused
  <2>1. /\ rel[p] \in Releases /\ Coherent(rel[p]) /\ manifests[p] \in Seq(Manifest)
        /\ Planned(j, rel[p].files, rel[p], manifests[p], <<>>) /\ j \in Jobs
        /\ rel[p].files = Contents(Codename(p)) /\ j \in JobsOf[p]
    BY <1>1, AllRead
  <2>2. /\ Len(manifests[p]) = 1 /\ kept[p] \in Packages
        /\ kept[p] = Atomic!CopySource(j, Everywhere(rel[p].files))
    <3>1. RunOK(p) /\ RunAtomic(p) /\ kept[p] \in Packages
      BY DEF AtomicHypotheses, MatchHypotheses, TypeInv, TypeOK, RunsOK, AtomicInv
    <3>2. Len(todo[p]) = 0
      BY <1>1
    <3>3. Len(manifests[p]) \in Nat
      BY <2>1
    <3>4. Len(manifests[p]) = 1
      BY <1>1, <3>1, <3>2, <3>3 DEF RunOK
    <3>5. QED
      BY <1>1, <2>1, <3>1, <3>4 DEF RunAtomic
  <2>3. m \in Manifest /\ manifests[p] = <<m>>
    BY <2>1, <2>2
  <2>4. j.source[1] = j.codename
    BY <1>1, <2>1 DEF AtomicHypotheses, CopiesInside
  <2>5. kept[p] # <<>> /\ added.ok
    BY <1>3
  <2>6. /\ added = AddAll(m.packages, kept[p], j.preserve, j.failIfExists)
        /\ changed = <<[m EXCEPT !.packages = added.packages]>>
    OBVIOUS
  <2>7. Planned(j, rel[p].files, rel[p], <<m>>, <<>>)
    BY <2>1, <2>3
  <2> HIDE DEF changed, added, refused, m
  <2>8. /\ Lawful(j, rel[p].files, Final(rel[p], changed).files)
        /\ Coherent(Final(rel[p], changed))
    <3> HIDE DEF j
    <3>1. QED
      BY ONLY <1>1, <2>1, <2>2, <2>3, <2>4, <2>5, <2>6, <2>7, CopyIsLawful
  <2>9. Prepare(p, changed, <<>>)
    BY <1>1, <1>3
  <2>10. QED
    BY <1>1, <2>8, <2>9, PreparedAtomic
<1>4. QED
  BY <1>2, <1>3

\* And a delete that found something.
LEMMA DecideDeleteAtomic ==
  ASSUME AtomicHypotheses, NEW p \in Runs, DecideDelete(p)
  PROVE  AtomicStep(p)
<1>1. Decide(p, "delete") /\ job[p].op = "delete"
  BY DEF DecideDelete, Decide
<1>2. CASE manifests[p] = <<>>
  BY <1>1, <1>2, NothingAtomic DEF DecideDelete
<1>3. CASE manifests[p] # <<>>
  <2>1. Prepare(p, manifests[p], <<>>)
    BY <1>3 DEF DecideDelete
  <2>2. /\ Lawful(job[p], rel[p].files, Final(rel[p], manifests[p]).files)
        /\ Coherent(Final(rel[p], manifests[p]))
    BY <1>1, <1>3, AllRead, DeleteIsLawful
  <2>3. QED
    BY <1>1, <2>1, <2>2, PreparedAtomic
<1>4. QED
  BY <1>2, <1>3

\* Publication up to the Release changes nothing that the Release in memory
\* rests on.
LEMMA PublishingAtomic ==
  ASSUME AtomicHypotheses, NEW p \in Runs, Solo(p),
         \/ PutPackage(p) \/ PackagesDone(p)
         \/ PutByHash(p) \/ ByHashDone(p) \/ PutCanonical(p) \/ CanonicalDone(p)
         \/ Sign(p) \/ DeleteReleaseGpg(p) \/ DeleteInRelease(p)
  PROVE  AtomicStep(p)
<1> USE DEF Goto, store, memory
<1>1. /\ pc \in [Runs -> Labels] /\ outcome \in [Runs -> Outcomes] /\ RunAtomic(p)
  BY DEF AtomicHypotheses, MatchHypotheses, TypeInv, TypeOK, AtomicInv
<1>2. /\ UNCHANGED <<job, rel, release>> /\ pc[p] \in Indexing \cup Indexed
      /\ \/ pc'[p] \in Indexing \cup Indexed /\ outcome' = outcome
         \/ pc'[p] \in {"unlock", "ended"} /\ outcome'[p] = "error"
  <2>1. CASE PutPackage(p)
    <3>1. UNCHANGED <<job, rel, release>> /\ pc[p] = "packages"
      BY <2>1 DEF PutPackage
    <3>2. \/ pc'[p] = pc[p] /\ outcome' = outcome
          \/ pc'[p] \in {"unlock", "ended"} /\ outcome'[p] = "error"
      BY ONLY <1>1, p \in Runs, <2>1 DEF PutPackage, Finish, Goto, store, memory
    <3>3. QED
      BY ONLY <3>1, <3>2 DEF Indexing
  <2>2. CASE PackagesDone(p) \/ PutByHash(p) \/ ByHashDone(p) \/ PutCanonical(p)
    BY <1>1, <2>2
    DEF PackagesDone, AfterIndexes, PutByHash, ByHashDone, PutCanonical, Indexing, Indexed
  <2>3. CASE CanonicalDone(p)
    BY <1>1, <2>3 DEF CanonicalDone, AfterIndexes, Indexing, Indexed
  <2>4. CASE Sign(p) \/ DeleteReleaseGpg(p) \/ DeleteInRelease(p)
    BY <1>1, <2>4 DEF Sign, DeleteReleaseGpg, DeleteInRelease, Indexed
  <2>5. QED
    BY <2>1, <2>2, <2>3, <2>4
<1>3. outcome[p] = "none"
  BY <1>1, <1>2 DEF RunAtomic, Indexing, Indexed
<1>4. /\ Coherent(rel[p])
      /\ Lawful(job[p], Contents(Codename(p)), rel[p].files)
  BY <1>1, <1>2 DEF RunAtomic
<1>5. Codename(p)' = Codename(p) /\ Contents(Codename(p))' = Contents(Codename(p))
  BY <1>2 DEF Codename, Contents
<1>6. RunAtomic(p)'
  BY <1>2, <1>3, <1>4, <1>5 DEF RunAtomic, Indexing, Indexed
<1>7. Stutters(p)
  BY <1>2, <1>3 DEF Stutters, Done, Indexing, Indexed
<1>8. QED
  BY <1>2, <1>6, <1>7, SameReleases DEF AtomicStep

\* The Release that is stored is the effect of the command, which is complete
\* with it.
LEMMA PutReleaseAtomic ==
  ASSUME AtomicHypotheses, NEW p \in Runs, PutRelease(p)
  PROVE  AtomicStep(p)
<1> DEFINE r == Rendered(p)
<1>1. /\ pc \in [Runs -> Labels] /\ outcome \in [Runs -> Outcomes] /\ RunAtomic(p)
      /\ rel \in [Runs -> Releases] /\ release \in [Codenames -> {NoObject} \cup Releases]
      /\ \A c \in Codenames : release[c] # NoObject => Coherent(release[c])
  BY DEF AtomicHypotheses, MatchHypotheses, TypeInv, TypeOK, AtomicInv
<1>2. /\ pc[p] = "putRelease" /\ UNCHANGED <<job, rel>>
      /\ release' = [release EXCEPT ![Codename(p)] = r]
      /\ \/ pc'[p] = "putGpg" /\ outcome' = outcome
         \/ pc'[p] \in {"unlock", "ended"} /\ outcome'[p] = "ok"
  BY <1>1 DEF PutRelease, Finish, Goto, memory
<1>3. /\ outcome[p] = "none" /\ Coherent(rel[p])
      /\ Lawful(job[p], Contents(Codename(p)), rel[p].files)
  BY <1>1, <1>2 DEF RunAtomic, Indexed
<1>4. /\ r.components = rel[p].components /\ r.archs = rel[p].archs
      /\ r.files = rel[p].files
  BY <1>1 DEF Rendered, Releases
<1> HIDE DEF r
<1>5. Coherent(r) /\ Lawful(job[p], Contents(Codename(p)), r.files)
  BY <1>3, <1>4 DEF Coherent
<1>6. \A c \in Codenames : release'[c] # NoObject => Coherent(release'[c])
  BY <1>1, <1>2, <1>5
<1>7. RunAtomic(p)'
  BY <1>2, <1>3, OutsideIsAtomic DEF Indexing, Indexed
<1>8. Commits(p)
  BY <1>2, <1>3, <1>5 DEF Commits, Done, r
<1>9. QED
  BY <1>6, <1>7, <1>8 DEF AtomicStep

\* What signs it changes nothing more.
LEMMA SigningAtomic ==
  ASSUME AtomicHypotheses, NEW p \in Runs, PutReleaseGpg(p) \/ PutInRelease(p)
  PROVE  AtomicStep(p)
<1>1. /\ pc \in [Runs -> Labels] /\ outcome \in [Runs -> Outcomes] /\ RunAtomic(p)
  BY DEF AtomicHypotheses, MatchHypotheses, TypeInv, TypeOK, AtomicInv
<1>2. /\ pc[p] \in {"putGpg", "putInRelease"} /\ UNCHANGED <<job, rel, release>>
      /\ \/ pc'[p] = "putInRelease" /\ outcome' = outcome
         \/ pc'[p] \in {"unlock", "ended"} /\ outcome'[p] = "ok"
  BY <1>1 DEF PutReleaseGpg, PutInRelease, Finish, Goto, memory
<1>3. outcome[p] = "none"
  BY <1>1, <1>2 DEF RunAtomic
<1>4. RunAtomic(p)'
  BY <1>2, <1>3, OutsideIsAtomic DEF Indexing, Indexed
<1>5. Stutters(p)
  BY <1>2 DEF Stutters, Done
<1>6. QED
  BY <1>2, <1>4, <1>5, SameReleases DEF AtomicStep

\* Every step of a run that is not disturbed.
LEMMA ProceedAtomic ==
  ASSUME AtomicHypotheses, NEW p \in Runs, Solo(p), Proceed(p) \/ GiveUp(p)
  PROVE  AtomicStep(p)
<1>1. ~HeadPackage(p) /\ ~HeadsDone(p) /\ ~DecideVerify(p)
  BY NoRepair
<1>2. CASE Publish(p)
  BY <1>2, PublishingAtomic, PutReleaseAtomic, SigningAtomic DEF Publish
<1>3. CASE ~Publish(p)
  BY <1>1, <1>3, RestingAtomic, RetrieveSourceAtomic, RetrieveReleaseAtomic,
     RetrieveManifestAtomic, DecideUploadAtomic, DecideCopyAtomic, DecideDeleteAtomic
  DEF Proceed
<1>4. QED
  BY <1>2, <1>3

\* A step that keeps what the invariant is about.
LEMMA IdleAtomic ==
  ASSUME AtomicInv, UNCHANGED <<release, pc, job, outcome, rel, manifests, todo, kept>>
  PROVE  AtomicInv'
BY DEF AtomicInv, RunAtomic, Codename, Contents, Changing

\* Every step of the program keeps the invariant.
LEMMA NextAtomic ==
  ASSUME AtomicHypotheses, Untroubled, [Next]_vars
  PROVE  /\ AtomicInv'
         /\ \/ \E p \in Runs : Solo(p) /\ AtomicStep(p)
            \/ UNCHANGED <<release, pc, job, outcome>>
<1> USE DEF store, memory, reading
<1>1. TypeOK /\ AtomicInv
  BY DEF AtomicHypotheses, MatchHypotheses, TypeInv
<1>2. CASE \/ UNCHANGED vars \/ Terminated \/ \E c \in Codenames : BreakLock(c)
  <2>1. UNCHANGED <<release, pc, job, outcome, rel, manifests, todo, kept>>
    BY <1>2 DEF vars, Terminated, BreakLock
  <2>2. QED
    BY <1>1, <2>1, IdleAtomic
<1>3. ASSUME NEW p \in Runs, Proceed(p) \/ Disturb(p) \/ LateCall(p)
      PROVE  AtomicInv' /\ Solo(p) /\ AtomicStep(p)
  <2>1. Proceed(p) \/ GiveUp(p)
    BY <1>3 DEF Untroubled, Disturb, UnlockFails, SigningFails, StoreFails, Crash,
                LateCall
  <2>2. Solo(p)
    BY <1>1, <2>1, SoloSteps
  <2>3. AtomicStep(p)
    BY <2>1, <2>2, ProceedAtomic
  <2>4. \A q \in Runs : RunAtomic(q)'
    BY <2>2, <2>3, OthersAtomic DEF AtomicStep
  <2>5. QED
    BY <2>2, <2>3, <2>4 DEF AtomicInv, AtomicStep
<1>4. QED
  BY <1>2, <1>3 DEF Next

\* Initially no command has begun.
LEMMA InitAtomic == Init => AtomicInv /\ Atomic!Init
<1> SUFFICES ASSUME Init PROVE AtomicInv /\ Atomic!Init
  OBVIOUS
<1>1. \A p \in Runs : RunAtomic(p)
  BY NewCoherent DEF Init, RunAtomic, Indexing, Indexed
<1>2. \A c \in Codenames : release[c] = NoObject
  BY DEF Init
<1>3. Atomic!Init
  <2>1. {p \in Runs : outcome[p] = "ok" \/ pc[p] \in {"putGpg", "putInRelease"}} = {}
    BY DEF Init
  <2>2. \A p \in Runs : job[p] \in JobsOf[p]
    BY DEF Init
  <2>3. QED
    BY <1>2, <2>1, <2>2, SameCommands DEF Atomic!Init, Atomic!Empty
<1>4. QED
  BY <1>1, <1>2, <1>3 DEF AtomicInv

---------------------------------------------------------------------------
(* The refinement *)

\* What copy does rests on its codename alone when its source is there.
LEMMA SameCopy ==
  ASSUME NEW j, j.source[1] = j.codename, NEW all, NEW other,
         other[j.codename] = all[j.codename]
  PROVE  /\ Atomic!CopyRefused(j, other) <=> Atomic!CopyRefused(j, all)
         /\ Atomic!CopyEffect(j, other) = Atomic!CopyEffect(j, all)
<1>1. Atomic!CopySource(j, other) = Atomic!CopySource(j, all)
  BY DEF Atomic!CopySource
<1>2. Atomic!Copied(j, other) = Atomic!Copied(j, all)
  BY <1>1 DEF Atomic!Copied
<1>3. QED
  BY <1>1, <1>2 DEF Atomic!CopyRefused, Atomic!CopyEffect

\* The state of AtomicRepository.
Listed == [c \in Codenames |-> Contents(c)]
TookEffect == {p \in Runs : Done(p)}

\* Without a change of them AtomicRepository stutters.
LEMMA AtomicStutters ==
  ASSUME UNCHANGED <<Listed, job, TookEffect>>
  PROVE  UNCHANGED Atomic!atomicVars
BY DEF Atomic!atomicVars, Listed, Contents, TookEffect, Done

\* What a command makes of what is listed.
Effect(p) ==
  \/ /\ job[p].op = "upload"
     /\ ~Atomic!UploadRefused(job[p], Listed[Codename(p)])
     /\ Listed' = [Listed EXCEPT ![Codename(p)] = Atomic!UploadEffect(job[p], @)]
  \/ /\ job[p].op = "copy"
     /\ ~Atomic!CopyRefused(job[p], Listed)
     /\ Listed' = [Listed EXCEPT ![Codename(p)] = Atomic!CopyEffect(job[p], Listed)]
  \/ /\ job[p].op = "delete"
     /\ Atomic!Shrinking(job[p], Listed[Codename(p)]) # {}
     /\ Listed' = [Listed EXCEPT ![Codename(p)] = Atomic!DeleteEffect(job[p], @)]
  \/ /\ job[p].op \in {"clean", "list", "show", "exists"}
     /\ Listed' = Listed

\* It is that of AtomicRepository.
LEMMA AtomicCommits ==
  ASSUME NEW p \in Runs, p \notin TookEffect, TookEffect' = TookEffect \cup {p},
         job' = job, Effect(p)
  PROVE  Atomic!Commit(p)
BY DEF Atomic!Commit, Effect, Listed, Contents, TookEffect, Done, Codename

\* A step of a run is a command that takes effect, or changes nothing.
LEMMA StepImplements ==
  ASSUME AtomicHypotheses, NEW p \in Runs, Solo(p), AtomicStep(p)
  PROVE  Atomic!Commit(p) \/ UNCHANGED Atomic!atomicVars
<1> DEFINE c == Codename(p)
           j == job[p]
           r == Rendered(p)
<1>1. /\ TypeOK /\ j \in JobsOf[p] /\ c \in Codenames
      /\ release \in [Codenames -> {NoObject} \cup Releases]
  BY CodenameType DEF AtomicHypotheses, MatchHypotheses, TypeInv, TypeOK
<1>2. \A q \in Runs \ {p} : Done(q)' <=> Done(q)
  BY DEF Solo, Done
<1>3. job' = job
  BY DEF Solo
<1>4. ASSUME release' = release PROVE Listed' = Listed
  BY <1>4 DEF Listed, Contents
<1>5. CASE Stutters(p)
  <2>1. TookEffect' = TookEffect
    <3>1. \A q \in Runs : Done(q)' <=> Done(q)
      BY <1>2, <1>5 DEF Stutters
    <3>2. QED
      BY <3>1 DEF TookEffect
  <2>2. QED
    BY <1>3, <1>4, <1>5, <2>1, AtomicStutters DEF Stutters
<1>6. CASE Commits(p)
  <2>1. p \notin TookEffect /\ TookEffect' = TookEffect \cup {p}
    <3>1. \A q \in Runs : Done(q)' <=> Done(q) \/ q = p
      BY <1>2, <1>6 DEF Commits
    <3>2. QED
      BY <1>6, <3>1 DEF TookEffect, Commits
  <2>2. CASE j.op \in {"clean", "list", "show", "exists"} /\ release' = release
    <3>1. Effect(p)
      BY <1>4, <2>2 DEF Effect
    <3>2. QED
      BY <1>3, <2>1, <3>1, AtomicCommits
  <2>3. CASE /\ Lawful(j, Contents(c), r.files)
             /\ release' = [release EXCEPT ![c] = r]
    <3>1. Listed[c] = Contents(c) /\ c = j.codename
      BY <1>1 DEF Listed, Codename
    <3>2. Listed' = [Listed EXCEPT ![c] = r.files]
      <4>1. r # NoObject
        BY <1>1, RenderedType, ObjectsAssumption
      <4>2. \A d \in Codenames :
              Contents(d)' = IF d = c THEN r.files ELSE Contents(d)
        BY <1>1, <2>3, <4>1 DEF Contents
      <4> HIDE DEF r, c
      <4>3. QED
        BY <4>2 DEF Listed
    <3>3. j.op = "copy" =>
            /\ Atomic!CopyRefused(j, Listed)
                 <=> Atomic!CopyRefused(j, Everywhere(Contents(c)))
            /\ Atomic!CopyEffect(j, Listed)
                 = Atomic!CopyEffect(j, Everywhere(Contents(c)))
      <4>1. Everywhere(Contents(c))[j.codename] = Listed[j.codename]
        BY <1>1, <3>1 DEF Everywhere
      <4>2. j.op = "copy" => j.source[1] = j.codename
        BY <1>1 DEF AtomicHypotheses, CopiesInside
      <4> HIDE DEF j, c
      <4>3. QED
        BY <4>1, <4>2, SameCopy
    <3>4. Effect(p)
      <4> HIDE DEF r
      <4>1. QED
        BY <2>3, <3>1, <3>2, <3>3 DEF Lawful, Effect
    <3>5. QED
      BY <1>3, <2>1, <3>4, AtomicCommits
  <2>4. QED
    BY <1>6, <2>2, <2>3 DEF Commits
<1>7. QED
  BY <1>5, <1>6 DEF AtomicStep

\* Every step of the program is one of AtomicRepository, or stutters.
LEMMA NextImplements ==
  ASSUME AtomicHypotheses, Untroubled, [Next]_vars
  PROVE  AtomicInv' /\ [Atomic!Next]_(Atomic!atomicVars)
<1>1. CASE UNCHANGED <<release, pc, job, outcome>>
  <2>1. UNCHANGED <<Listed, job, TookEffect>>
    BY <1>1 DEF Listed, Contents, TookEffect, Done
  <2>2. QED
    BY <2>1, AtomicStutters, NextAtomic
<1>2. ASSUME NEW p \in Runs, Solo(p) /\ AtomicStep(p)
      PROVE  [Atomic!Next]_(Atomic!atomicVars)
  BY <1>2, StepImplements DEF Atomic!Next
<1>3. QED
  BY <1>1, <1>2, NextAtomic

\* Commands that take the lock of their codename, and do not fail, are atomic:
\* upload, copy and delete read the Release and the indexes call by call, work
\* out their effect and store it call by call, while others do the same, and
\* still the Release changes as if each had run alone.
THEOREM CommandsAreAtomic ==
  ASSUME ChangesUnderLock, Untroubled, CopiesInside
  PROVE  Spec => ImplementsAtomic
<1>1. Init => TypeInv /\ MatchInv /\ AtomicInv /\ Atomic!Init
  BY InitType, InitMatches, InitAtomic
<1>2. TypeInv /\ WorksUnderLock /\ MatchInv /\ AtomicInv /\ [Next]_vars
      => (TypeInv /\ MatchInv /\ AtomicInv)' /\ [Atomic!Next]_(Atomic!atomicVars)
  BY NextType, NextMatches, NextImplements DEF AtomicHypotheses, MatchHypotheses
<1>3. QED
  BY <1>1, <1>2, LockDiscipline, PTL DEF Spec, ImplementsAtomic, Atomic!Spec
=============================================================================
