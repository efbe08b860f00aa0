------------------------ MODULE RepositoryLockProofs ------------------------
(***************************************************************************)
(* What the lock protocol guarantees for any number of runs, any attempt   *)
(* bound, with or without deadlines, lost replies and dying processes.     *)
(***************************************************************************)
EXTENDS RepositoryLock, TLAPS

\* The variables keep their types: every call of the protocol moves a run
\* between the labels of Acquire and Release and stores a run or nothing.
THEOREM TypeCorrect == Spec => []TypeOK
<1>1. Init => TypeOK
  BY LockAssumption DEF Init, TypeOK, AttemptOK
<1>2. TypeOK /\ [Next]_vars => TypeOK'
  <2> SUFFICES ASSUME TypeOK, [Next]_vars PROVE TypeOK'
    OBVIOUS
  <2> USE LockAssumption DEF TypeOK, AttemptOK, Acquiring, Releasing, Ended
  <2>1. CASE UNCHANGED vars
    BY <2>1 DEF vars
  <2>2. CASE BreakLock
    BY <2>2 DEF BreakLock
  <2>3. CASE Terminated
    BY <2>3 DEF Terminated, vars
  <2>4. ASSUME NEW p \in Runs,
               Start(p) \/ Proceed(p) \/ Expire(p) \/ Disturb(p)
        PROVE  TypeOK'
    <3>1. CASE Start(p)
      BY <3>1 DEF Start, Goto
    <3>2. CASE PutHead(p)
      BY <3>2 DEF PutHead, Due, Goto
    <3>3. CASE Create(p)
      BY <3>3 DEF Create, Due, Goto
    <3>4. CASE ReadETag(p)
      BY <3>4 DEF ReadETag, Due, Goto
    <3>5. CASE ReadCurrent(p)
      BY <3>5 DEF ReadCurrent, Due, Goto, CountAttempt
    <3>6. CASE Retry(p)
      BY <3>6 DEF Retry, Due, Goto, CountAttempt
    <3>7. CASE TimedOut(p)
      BY <3>7 DEF TimedOut, Goto
    <3>8. CASE OperationEnds(p)
      BY <3>8 DEF OperationEnds, Goto
    <3>9. CASE ReleaseGet(p)
      BY <3>9 DEF ReleaseGet, Goto
    <3>10. CASE ReleaseDelete(p)
      BY <3>10 DEF ReleaseDelete, Goto
    <3>11. CASE Expire(p)
      BY <3>11 DEF Expire
    <3>12. CASE CreateReplyLost(p)
      BY <3>12 DEF CreateReplyLost, Goto
    <3>13. CASE StoreError(p)
      BY <3>13 DEF StoreError, Goto
    <3>14. CASE DeleteReplyLost(p)
      BY <3>14 DEF DeleteReplyLost, Goto
    <3>15. CASE Crash(p)
      BY <3>15 DEF Crash, Goto
    <3>16. QED
      BY <2>4, <3>1, <3>2, <3>3, <3>4, <3>5, <3>6, <3>7, <3>8, <3>9, <3>10,
         <3>11, <3>12, <3>13, <3>14, <3>15 DEF Proceed, Disturb
  <2>5. QED
    BY <2>1, <2>2, <2>3, <2>4 DEF Next
<1>3. QED
  BY <1>1, <1>2, PTL DEF Spec

---------------------------------------------------------------------------

\* A step of one run on the lockfile either leaves it alone, creates it where
\* there was none, or removes it; only the run that owns it by its ETag does
\* the last. It also leaves the labels of the other runs alone.
LEMMA RunStep ==
  ASSUME TypeOK, NEW p \in Runs,
         Start(p) \/ Proceed(p) \/ Expire(p) \/ Disturb(p)
  PROVE  /\ \A q \in Runs \ {p} : pc'[q] = pc[q] /\ etag'[q] = etag[q]
         /\ \/ lockfile' = lockfile
            \/ pc[p] = "create" /\ lockfile = NoObject /\ lockfile' = p
            \/ /\ pc[p] = "relDelete" /\ pc'[p] \in Ended
               /\ lockfile = etag[p] /\ lockfile' = NoObject
<1> USE DEF TypeOK, Ended
<1>1. CASE Start(p)
  BY <1>1 DEF Start, Goto
<1>2. CASE PutHead(p)
  BY <1>2 DEF PutHead, Due, Goto
<1>3. CASE Create(p)
  BY <1>3 DEF Create, Due, Goto
<1>4. CASE ReadETag(p)
  BY <1>4 DEF ReadETag, Due, Goto
<1>5. CASE ReadCurrent(p)
  BY <1>5 DEF ReadCurrent, Due, Goto
<1>6. CASE Retry(p)
  BY <1>6 DEF Retry, Due, Goto
<1>7. CASE TimedOut(p)
  BY <1>7 DEF TimedOut, Goto
<1>8. CASE OperationEnds(p)
  BY <1>8 DEF OperationEnds, Goto
<1>9. CASE ReleaseGet(p)
  BY <1>9 DEF ReleaseGet, Goto
<1>10. CASE ReleaseDelete(p)
  BY <1>10 DEF ReleaseDelete, Goto
<1>11. CASE Expire(p)
  BY <1>11 DEF Expire
<1>12. CASE CreateReplyLost(p)
  BY <1>12 DEF CreateReplyLost, Goto
<1>13. CASE StoreError(p)
  BY <1>13 DEF StoreError, Goto
<1>14. CASE DeleteReplyLost(p)
  BY <1>14 DEF DeleteReplyLost, Goto
<1>15. CASE Crash(p)
  BY <1>15 DEF Crash, Goto
<1>16. QED
  BY <1>1, <1>2, <1>3, <1>4, <1>5, <1>6, <1>7, <1>8, <1>9, <1>10, <1>11,
     <1>12, <1>13, <1>14, <1>15 DEF Proceed, Disturb

\* The run that moves satisfies GrantedOwnsLockfile after its step: it enters
\* the granted labels only by creating the lockfile or by finding its own.
LEMMA MoverOwnsLockfile ==
  ASSUME TypeOK, GrantedOwnsLockfile, NEW p \in Runs,
         Start(p) \/ Proceed(p) \/ Expire(p) \/ Disturb(p)
  PROVE  pc'[p] \in Granted => lockfile' = p
<1> USE DEF TypeOK, GrantedOwnsLockfile, Granted, Releasing, Ended
<1>1. CASE Start(p)
  BY <1>1 DEF Start, Goto
<1>2. CASE PutHead(p)
  BY <1>2 DEF PutHead, Due, Goto
<1>3. CASE Create(p)
  BY <1>3 DEF Create, Due, Goto
<1>4. CASE ReadETag(p)
  BY <1>4 DEF ReadETag, Due, Goto
<1>5. CASE ReadCurrent(p)
  BY <1>5 DEF ReadCurrent, Due, Goto
<1>6. CASE Retry(p)
  BY <1>6 DEF Retry, Due, Goto
<1>7. CASE TimedOut(p)
  BY <1>7 DEF TimedOut, Goto
<1>8. CASE OperationEnds(p)
  BY <1>8 DEF OperationEnds, Goto
<1>9. CASE ReleaseGet(p)
  BY <1>9 DEF ReleaseGet, Goto
<1>10. CASE ReleaseDelete(p)
  BY <1>10 DEF ReleaseDelete, Goto
<1>11. CASE Expire(p)
  BY <1>11 DEF Expire
<1>12. CASE CreateReplyLost(p)
  BY <1>12 DEF CreateReplyLost, Goto
<1>13. CASE StoreError(p)
  BY <1>13 DEF StoreError, Goto
<1>14. CASE DeleteReplyLost(p)
  BY <1>14 DEF DeleteReplyLost, Goto
<1>15. CASE Crash(p)
  BY <1>15 DEF Crash, Goto
<1>16. QED
  BY <1>1, <1>2, <1>3, <1>4, <1>5, <1>6, <1>7, <1>8, <1>9, <1>10, <1>11,
     <1>12, <1>13, <1>14, <1>15 DEF Proceed, Disturb

\* As long as nobody removes a lock in use, a run that was granted the lock
\* owns the lockfile until it deletes it.
THEOREM GrantIsExclusive ==
  ASSUME Operator # "careless"
  PROVE  Spec => []GrantedOwnsLockfile
<1>1. Init => GrantedOwnsLockfile
  BY DEF Init, GrantedOwnsLockfile, Granted, Releasing
<1>2. TypeOK /\ GrantedOwnsLockfile /\ [Next]_vars => GrantedOwnsLockfile'
  <2> SUFFICES ASSUME TypeOK, GrantedOwnsLockfile, [Next]_vars,
                      NEW q \in Runs, pc'[q] \in Granted
               PROVE  lockfile' = q
    BY DEF GrantedOwnsLockfile
  <2>1. CASE UNCHANGED vars
    BY <2>1 DEF vars, GrantedOwnsLockfile
  <2>2. CASE BreakLock
    BY <2>2, LockAssumption
    DEF BreakLock, GrantedOwnsLockfile, Granted, Releasing, Ended
  <2>3. CASE Terminated
    BY <2>3 DEF Terminated, vars, GrantedOwnsLockfile
  <2>4. ASSUME NEW p \in Runs,
               Start(p) \/ Proceed(p) \/ Expire(p) \/ Disturb(p)
        PROVE  lockfile' = q
    <3>1. CASE q = p
      BY <2>4, <3>1, MoverOwnsLockfile
    <3>2. CASE q # p
      <4>1. pc[q] \in Granted /\ lockfile = q
        BY <2>4, <3>2, RunStep DEF GrantedOwnsLockfile
      <4>2. pc[p] = "relDelete" => lockfile = p
        BY DEF GrantedOwnsLockfile, Granted, Releasing
      <4>3. lockfile' = lockfile
        BY <2>4, <3>2, <4>1, <4>2, RunStep, LockAssumption
      <4>4. QED
        BY <4>1, <4>3
    <3>3. QED
      BY <3>1, <3>2
  <2>5. QED
    BY <2>1, <2>2, <2>3, <2>4 DEF Next
<1>3. QED
  BY <1>1, <1>2, TypeCorrect, PTL DEF Spec

\* No two runs execute their locked operations at the same time.
THEOREM Exclusion ==
  ASSUME Operator # "careless"
  PROVE  Spec => []MutualExclusion
<1>1. GrantedOwnsLockfile => MutualExclusion
  BY DEF GrantedOwnsLockfile, MutualExclusion, Granted
<1>2. QED
  BY <1>1, GrantIsExclusive, PTL

---------------------------------------------------------------------------

\* The strengthening behind ReleaseRemovesOnlyOwnLock: a handle holds its own
\* ETag or belongs to a run whose lockfile was removed by hand, and Release
\* asks for the delete only with the first kind.
HandleETag ==
  \A p \in Runs :
    /\ pc[p] \in {"held", "relGet"} => etag[p] = p \/ lockfile # p
    /\ pc[p] = "relDelete" => etag[p] = p

\* HandleETag survives every step of the run it is about.
LEMMA MoverHandleETag ==
  ASSUME TypeOK, HandleETag, NEW p \in Runs,
         Start(p) \/ Proceed(p) \/ Expire(p) \/ Disturb(p)
  PROVE  /\ pc'[p] \in {"held", "relGet"} => etag'[p] = p \/ lockfile' # p
         /\ pc'[p] = "relDelete" => etag'[p] = p
<1> USE DEF TypeOK, HandleETag, Releasing, Ended
<1>1. CASE Start(p)
  BY <1>1 DEF Start, Goto
<1>2. CASE PutHead(p)
  BY <1>2 DEF PutHead, Due, Goto
<1>3. CASE Create(p)
  BY <1>3 DEF Create, Due, Goto
<1>4. CASE ReadETag(p)
  BY <1>4 DEF ReadETag, Due, Goto
<1>5. CASE ReadCurrent(p)
  BY <1>5 DEF ReadCurrent, Due, Goto
<1>6. CASE Retry(p)
  BY <1>6 DEF Retry, Due, Goto
<1>7. CASE TimedOut(p)
  BY <1>7 DEF TimedOut, Goto
<1>8. CASE OperationEnds(p)
  BY <1>8 DEF OperationEnds, Goto
<1>9. CASE ReleaseGet(p)
  BY <1>9 DEF ReleaseGet, Goto
<1>10. CASE ReleaseDelete(p)
  BY <1>10 DEF ReleaseDelete, Goto
<1>11. CASE Expire(p)
  BY <1>11 DEF Expire
<1>12. CASE CreateReplyLost(p)
  BY <1>12 DEF CreateReplyLost, Goto
<1>13. CASE StoreError(p)
  BY <1>13 DEF StoreError, Goto
<1>14. CASE DeleteReplyLost(p)
  BY <1>14 DEF DeleteReplyLost, Goto
<1>15. CASE Crash(p)
  BY <1>15 DEF Crash, Goto
<1>16. QED
  BY <1>1, <1>2, <1>3, <1>4, <1>5, <1>6, <1>7, <1>8, <1>9, <1>10, <1>11,
     <1>12, <1>13, <1>14, <1>15 DEF Proceed, Disturb

\* Every step keeps the ETags that the handles hold.
LEMMA NextHandleETag ==
  ASSUME TypeOK, HandleETag, [Next]_vars
  PROVE  HandleETag'
<1> SUFFICES ASSUME NEW q \in Runs
             PROVE  /\ pc'[q] \in {"held", "relGet"}
                         => etag'[q] = q \/ lockfile' # q
                    /\ pc'[q] = "relDelete" => etag'[q] = q
  BY DEF HandleETag
<1>1. CASE UNCHANGED vars
  BY <1>1 DEF vars, HandleETag
<1>2. CASE BreakLock
  BY <1>2, LockAssumption DEF BreakLock, HandleETag
<1>3. CASE Terminated
  BY <1>3 DEF Terminated, vars, HandleETag
<1>4. ASSUME NEW p \in Runs,
             Start(p) \/ Proceed(p) \/ Expire(p) \/ Disturb(p)
      PROVE  /\ pc'[q] \in {"held", "relGet"}
                  => etag'[q] = q \/ lockfile' # q
             /\ pc'[q] = "relDelete" => etag'[q] = q
  <2>1. CASE q = p
    BY <1>4, <2>1, MoverHandleETag
  <2>2. CASE q # p
    BY <1>4, <2>2, RunStep, LockAssumption DEF HandleETag
  <2>3. QED
    BY <2>1, <2>2
<1>5. QED
  BY <1>1, <1>2, <1>3, <1>4 DEF Next

\* Whatever the operator does, Release deletes its own lock or nothing.
THEOREM ReleaseIsSafe == Spec => ReleaseRemovesOnlyOwnLock
<1>1. Init => HandleETag
  BY DEF Init, HandleETag
<1>2. TypeOK /\ HandleETag /\ [Next]_vars => HandleETag'
  BY NextHandleETag
<1>3. TypeOK /\ HandleETag /\ [Next]_vars =>
        [\A p \in Runs :
           pc[p] = "relDelete" /\ pc'[p] # pc[p] /\ lockfile' # lockfile
             => lockfile = p]_vars
  <2> SUFFICES ASSUME TypeOK, HandleETag, Next, NEW p \in Runs,
                      pc[p] = "relDelete", pc'[p] # pc[p], lockfile' # lockfile
               PROVE  lockfile = p
    BY DEF vars
  <2>1. ASSUME NEW q \in Runs,
               Start(q) \/ Proceed(q) \/ Expire(q) \/ Disturb(q)
        PROVE  lockfile = p
    <3>1. q = p
      BY <2>1, RunStep
    <3>2. lockfile = etag[p]
      BY <2>1, <3>1, RunStep
    <3>3. QED
      BY <3>2 DEF HandleETag
  <2>2. QED
    BY <2>1 DEF Next, BreakLock, Terminated, vars
<1>4. QED
  BY <1>1, <1>2, <1>3, TypeCorrect, PTL DEF Spec, ReleaseRemovesOnlyOwnLock
---------------------------------------------------------------------------
(* When Acquire and Release do not leave the lock behind. *)

\* Neither a deadline nor an error can come between the creation of the lock
\* and the return of Acquire.
Undisturbed == ~TimeoutSet /\ StoreFaults \subseteq {"deleteReply"}

\* What keeps the lock from being left behind: a run that asks for it, or has
\* returned, wrote no lockfile that is still there.
NoLeak ==
  \A p \in Runs :
    /\ ~expired[p]
    /\ pc[p] \in {"idle", "try", "create", "current", "wait",
                  "released", "notOwner", "gaveUp"} => lockfile # p

\* NoLeak survives every step of the run it is about.
LEMMA MoverLeaksNothing ==
  ASSUME Undisturbed, TypeOK, HandleETag, NoLeak, NEW p \in Runs,
         Start(p) \/ Proceed(p) \/ Expire(p) \/ Disturb(p)
  PROVE  /\ ~expired'[p]
         /\ pc'[p] \in {"idle", "try", "create", "current", "wait",
                        "released", "notOwner", "gaveUp"} => lockfile' # p
<1> USE LockAssumption
    DEF Undisturbed, TypeOK, HandleETag, NoLeak, Acquiring, Releasing, Ended
<1>1. CASE Start(p)
  BY <1>1 DEF Start, Goto
<1>2. CASE PutHead(p)
  BY <1>2 DEF PutHead, Due, Goto
<1>3. CASE Create(p)
  BY <1>3 DEF Create, Due, Goto
<1>4. CASE ReadETag(p)
  BY <1>4 DEF ReadETag, Due, Goto
<1>5. CASE ReadCurrent(p)
  BY <1>5 DEF ReadCurrent, Due, Goto
<1>6. CASE Retry(p)
  BY <1>6 DEF Retry, Due, Goto
<1>7. CASE TimedOut(p)
  BY <1>7 DEF TimedOut
<1>8. CASE OperationEnds(p)
  BY <1>8 DEF OperationEnds, Goto
<1>9. CASE ReleaseGet(p)
  BY <1>9 DEF ReleaseGet, Goto
<1>10. CASE ReleaseDelete(p)
  BY <1>10 DEF ReleaseDelete, Goto
<1>11. CASE Expire(p)
  BY <1>11 DEF Expire
<1>12. CASE CreateReplyLost(p)
  BY <1>12 DEF CreateReplyLost, Goto
<1>13. CASE StoreError(p)
  BY <1>13 DEF StoreError
<1>14. CASE DeleteReplyLost(p)
  BY <1>14 DEF DeleteReplyLost, Goto
<1>15. CASE Crash(p)
  BY <1>15 DEF Crash, Goto
<1>16. QED
  BY <1>1, <1>2, <1>3, <1>4, <1>5, <1>6, <1>7, <1>8, <1>9, <1>10, <1>11,
     <1>12, <1>13, <1>14, <1>15 DEF Proceed, Disturb

\* No other step changes the deadline of a run.
LEMMA DeadlineOfOthers ==
  ASSUME TypeOK, NEW p \in Runs,
         Start(p) \/ Proceed(p) \/ Expire(p) \/ Disturb(p)
  PROVE  \A q \in Runs \ {p} : expired'[q] = expired[q]
  BY DEF TypeOK, Proceed, Disturb, Start, PutHead, Create, ReadETag, ReadCurrent,
         Retry, TimedOut, OperationEnds, ReleaseGet, ReleaseDelete, Expire,
         CreateReplyLost, StoreError, DeleteReplyLost, Crash

\* Acquire and Release leave a lock behind only when a process dies, as long as
\* --lock-timeout is not given and no call fails; a lost reply to the delete
\* and an operator who removes locks in use make no difference.
THEOREM NothingLeaked ==
  ASSUME Undisturbed
  PROVE  Spec => []LockNotLeaked
<1>1. Init => HandleETag /\ NoLeak
  BY LockAssumption DEF Init, HandleETag, NoLeak
<1>2. TypeOK /\ HandleETag /\ NoLeak /\ [Next]_vars => NoLeak'
  <2> SUFFICES ASSUME TypeOK, HandleETag, NoLeak, [Next]_vars, NEW q \in Runs
               PROVE  /\ ~expired'[q]
                      /\ pc'[q] \in {"idle", "try", "create", "current", "wait",
                                     "released", "notOwner", "gaveUp"}
                           => lockfile' # q
    BY DEF NoLeak
  <2>1. CASE UNCHANGED vars
    BY <2>1 DEF vars, NoLeak
  <2>2. CASE BreakLock
    BY <2>2, LockAssumption DEF BreakLock, NoLeak
  <2>3. CASE Terminated
    BY <2>3 DEF Terminated, vars, NoLeak
  <2>4. ASSUME NEW p \in Runs,
               Start(p) \/ Proceed(p) \/ Expire(p) \/ Disturb(p)
        PROVE  /\ ~expired'[q]
               /\ pc'[q] \in {"idle", "try", "create", "current", "wait",
                              "released", "notOwner", "gaveUp"}
                    => lockfile' # q
    <3>1. CASE q = p
      BY <2>4, <3>1, MoverLeaksNothing
    <3>2. CASE q # p
      BY <2>4, <3>2, RunStep, DeadlineOfOthers, LockAssumption DEF NoLeak
    <3>3. QED
      BY <3>1, <3>2
  <2>5. QED
    BY <2>1, <2>2, <2>3, <2>4 DEF Next
<1>3. TypeOK /\ HandleETag /\ [Next]_vars => HandleETag'
  BY NextHandleETag
<1>4. NoLeak => LockNotLeaked
  BY DEF NoLeak, LockNotLeaked
<1>5. QED
  BY <1>1, <1>2, <1>3, <1>4, TypeCorrect, PTL DEF Spec

---------------------------------------------------------------------------
(* The protocol implements LockService. *)

\* The labels of a run that has started and not ended.
Active == Acquiring \cup {"held"} \cup Releasing

\* A run that has not started wrote no lockfile.
IdleOwnsNothing == \A p \in Runs : pc[p] = "idle" => lockfile # p

\* Every step of a run asks for the lock, is internal, is granted the lock,
\* gives it back, or ends and leaves the lockfile, at most with its own put.
LEMMA StepKinds ==
  ASSUME TypeOK, GrantedOwnsLockfile, NEW p \in Runs,
         Start(p) \/ Proceed(p) \/ Expire(p) \/ Disturb(p)
  PROVE  \/ pc[p] = "idle" /\ pc'[p] \in Active /\ lockfile' = lockfile
         \/ pc[p] \in Active /\ pc'[p] \in Active /\ lockfile' = lockfile
         \/ /\ pc[p] \in Active /\ pc'[p] \in Active
            /\ lockfile = NoObject /\ lockfile' = p
         \/ /\ pc[p] \in Active /\ pc'[p] \in Ended
            /\ lockfile = p /\ lockfile' = NoObject
         \/ /\ pc[p] \in Active /\ pc'[p] \in Ended
            /\ \/ lockfile' = lockfile
               \/ lockfile = NoObject /\ lockfile' = p
<1> USE DEF TypeOK, GrantedOwnsLockfile, Granted, Active, Acquiring, Releasing, Ended
<1>1. CASE Start(p)
  BY <1>1 DEF Start, Goto
<1>2. CASE PutHead(p)
  BY <1>2 DEF PutHead, Due, Goto
<1>3. CASE Create(p)
  BY <1>3 DEF Create, Due, Goto
<1>4. CASE ReadETag(p)
  BY <1>4 DEF ReadETag, Due, Goto
<1>5. CASE ReadCurrent(p)
  BY <1>5 DEF ReadCurrent, Due, Goto
<1>6. CASE Retry(p)
  BY <1>6 DEF Retry, Due, Goto
<1>7. CASE TimedOut(p)
  BY <1>7 DEF TimedOut, Goto
<1>8. CASE OperationEnds(p)
  BY <1>8 DEF OperationEnds, Goto
<1>9. CASE ReleaseGet(p)
  BY <1>9 DEF ReleaseGet, Goto
<1>10. CASE ReleaseDelete(p)
  BY <1>10 DEF ReleaseDelete, Goto
<1>11. CASE Expire(p)
  BY <1>11 DEF Expire
<1>12. CASE CreateReplyLost(p)
  BY <1>12 DEF CreateReplyLost, Goto
<1>13. CASE StoreError(p)
  BY <1>13 DEF StoreError, Goto
<1>14. CASE DeleteReplyLost(p)
  BY <1>14 DEF DeleteReplyLost, Goto
<1>15. CASE Crash(p)
  BY <1>15 DEF Crash, Goto
<1>16. QED
  BY <1>1, <1>2, <1>3, <1>4, <1>5, <1>6, <1>7, <1>8, <1>9, <1>10, <1>11,
     <1>12, <1>13, <1>14, <1>15 DEF Proceed, Disturb

\* What the abstract state of a run is at its labels.
LEMMA StateOf ==
  ASSUME TypeOK, NEW p \in Runs
  PROVE  /\ pc[p] = "idle" => ServiceState[p] = "idle"
         /\ pc[p] \in Ended => ServiceState[p] = "ended"
         /\ pc[p] \in Active /\ lockfile = p => ServiceState[p] = "holding"
         /\ pc[p] \in Active /\ lockfile # p => ServiceState[p] = "waiting"
  BY DEF TypeOK, ServiceState, RunState, Active, Acquiring, Releasing, Ended

\* A step of one run changes the abstract state of that run at most.
LEMMA OtherStates ==
  ASSUME TypeOK, NEW p \in Runs,
         \A q \in Runs \ {p} : pc'[q] = pc[q],
         lockfile' = lockfile \/ {lockfile, lockfile'} = {NoObject, p}
  PROVE  ServiceState' = [ServiceState EXCEPT ![p] = ServiceState'[p]]
<1>1. \A q \in Runs \ {p} : ServiceState'[q] = ServiceState[q]
  BY LockAssumption DEF ServiceState, RunState, TypeOK
<1>2. QED
  BY <1>1 DEF ServiceState

\* A step of one run is a step of LockService, or changes nothing there.
LEMMA RunImplements ==
  ASSUME TypeOK, TypeOK', GrantedOwnsLockfile, IdleOwnsNothing, NEW p \in Runs,
         Start(p) \/ Proceed(p) \/ Expire(p) \/ Disturb(p)
  PROVE  [Service!Next]_(Service!lockVars)
<1>1. ServiceState' = [ServiceState EXCEPT ![p] = ServiceState'[p]]
  BY RunStep, StepKinds, OtherStates
<1> DEFINE now == ServiceState[p]
           next == ServiceState'[p]
<1>2. \/ now = "idle" /\ next = "waiting" /\ lockfile' = lockfile
      \/ now = next /\ lockfile' = lockfile
      \/ now = "waiting" /\ next = "holding" /\ lockfile = NoObject /\ lockfile' = p
      \/ now = "holding" /\ next = "ended" /\ lockfile = p /\ lockfile' = NoObject
      \/ /\ now \in {"waiting", "holding"} /\ next = "ended"
         /\ \/ lockfile' = lockfile
            \/ now = "waiting" /\ lockfile = NoObject /\ lockfile' = p
  <2>1. /\ pc'[p] \in Ended => next = "ended"
        /\ pc'[p] \in Active /\ lockfile' = p => next = "holding"
        /\ pc'[p] \in Active /\ lockfile' # p => next = "waiting"
    BY DEF TypeOK, ServiceState, RunState, Active, Acquiring, Releasing, Ended
  <2>2. QED
    BY <2>1, StateOf, StepKinds, LockAssumption DEF IdleOwnsNothing
<1>3. CASE now = "idle" /\ next = "waiting" /\ lockfile' = lockfile
  BY <1>1, <1>3 DEF Service!Next, Service!Request, Service!Move
<1>4. CASE now = next /\ lockfile' = lockfile
  <2>1. ServiceState' = ServiceState
    BY <1>1, <1>4 DEF ServiceState
  <2>2. QED
    BY <1>4, <2>1 DEF Service!lockVars
<1>5. CASE now = "waiting" /\ next = "holding" /\ lockfile = NoObject /\ lockfile' = p
  BY <1>1, <1>5 DEF Service!Next, Service!Grant, Service!Move
<1>6. CASE now = "holding" /\ next = "ended" /\ lockfile = p /\ lockfile' = NoObject
  BY <1>1, <1>6 DEF Service!Next, Service!Release, Service!Move
<1>7. CASE /\ now \in {"waiting", "holding"} /\ next = "ended"
           /\ \/ lockfile' = lockfile
              \/ now = "waiting" /\ lockfile = NoObject /\ lockfile' = p
  <2>1. Service!Abandon(p)
    BY <1>1, <1>7 DEF Service!Abandon, Service!Move
  <2>2. QED
    BY <2>1 DEF Service!Next
<1>8. QED
  BY <1>2, <1>3, <1>4, <1>5, <1>6, <1>7

\* A lock that a careful operator removes belongs to a run that has ended.
LEMMA BreakImplements ==
  ASSUME TypeOK, Operator # "careless", BreakLock
  PROVE  Service!Break
<1>1. lockfile \in Runs /\ pc[lockfile] \in Ended /\ lockfile' = NoObject /\ pc' = pc
  BY LockAssumption DEF BreakLock, TypeOK
<1>2. \A q \in Runs : pc[q] \in Ended => ServiceState'[q] = ServiceState[q]
  BY <1>1 DEF ServiceState, RunState, Ended
<1>3. \A q \in Runs \ {lockfile} : ServiceState'[q] = ServiceState[q]
  BY <1>1, LockAssumption DEF ServiceState, RunState
<1>4. ServiceState' = ServiceState
  BY <1>1, <1>2, <1>3 DEF ServiceState
<1>5. QED
  BY <1>1, <1>4, StateOf, LockAssumption DEF Service!Break, TypeOK

\* The lock protocol, with its deadlines, lost replies and dying processes, is
\* a LockService, as long as nobody removes a lock in use.
THEOREM LockRefinement ==
  ASSUME Operator # "careless"
  PROVE  Spec => ImplementsLockService
<1>1. Init => IdleOwnsNothing
  BY LockAssumption DEF Init, IdleOwnsNothing
<1>2. TypeOK /\ GrantedOwnsLockfile /\ IdleOwnsNothing /\ [Next]_vars
        => IdleOwnsNothing'
  <2> SUFFICES ASSUME TypeOK, GrantedOwnsLockfile, IdleOwnsNothing, [Next]_vars
               PROVE  IdleOwnsNothing'
    OBVIOUS
  <2>1. ASSUME NEW p \in Runs,
               Start(p) \/ Proceed(p) \/ Expire(p) \/ Disturb(p)
        PROVE  IdleOwnsNothing'
    BY <2>1, RunStep, StepKinds, LockAssumption
    DEF IdleOwnsNothing, Active, Acquiring, Releasing, Ended
  <2>2. CASE UNCHANGED vars \/ BreakLock \/ Terminated
    BY <2>2, LockAssumption DEF IdleOwnsNothing, vars, BreakLock, Terminated
  <2>3. QED
    BY <2>1, <2>2 DEF Next
<1>3. Init => Service!Init
  <2>1. ASSUME Init, NEW p \in Runs PROVE RunState(p) = "idle"
    <3>1. pc[p] = "idle"
      BY <2>1 DEF Init
    <3>2. QED
      BY <3>1 DEF RunState, Ended
  <2>2. QED
    BY <2>1 DEF Init, Service!Init, ServiceState
<1>4. TypeOK /\ TypeOK' /\ GrantedOwnsLockfile /\ IdleOwnsNothing /\ [Next]_vars
        => [Service!Next]_(Service!lockVars)
  <2> SUFFICES ASSUME TypeOK, TypeOK', GrantedOwnsLockfile, IdleOwnsNothing,
                      [Next]_vars
               PROVE  [Service!Next]_(Service!lockVars)
    OBVIOUS
  <2>1. ASSUME NEW p \in Runs,
               Start(p) \/ Proceed(p) \/ Expire(p) \/ Disturb(p)
        PROVE  [Service!Next]_(Service!lockVars)
    BY <2>1, RunImplements
  <2>2. CASE BreakLock
    BY <2>2, BreakImplements DEF Service!Next
  <2>3. CASE UNCHANGED vars \/ Terminated
    BY <2>3 DEF vars, Terminated, Service!lockVars, ServiceState, RunState
  <2>4. QED
    BY <2>1, <2>2, <2>3 DEF Next
<1>5. QED
  BY <1>1, <1>2, <1>3, <1>4, TypeCorrect, GrantIsExclusive, PTL
  DEF Spec, ImplementsLockService, Service!Spec
=============================================================================
