--------------------------- MODULE RepositoryLock ---------------------------
(***************************************************************************)
(* The lockfile protocol of internal/lock, one action per call on the      *)
(* object store. A lock is the object dists/<codename>/lockfile; its body  *)
(* carries a random token, so the body, its MD5 and its ETag all identify  *)
(* the run that wrote it and the model writes the run itself for all of    *)
(* them.                                                                   *)
(*                                                                         *)
(* Manager.Acquire loops over a conditional Put, which S3Store.Put makes   *)
(* of a Head and a PutObject with If-None-Match: *; on success it reads    *)
(* the ETag with a Head, on a conflict it reads the current owner, waits   *)
(* and tries again. Handle.Release reads the object, compares the token    *)
(* and deletes it with If-Match.                                           *)
(***************************************************************************)
EXTENDS Naturals

CONSTANTS Runs,         \* one element per invocation of deb-s3 with --lock
          NoObject,     \* the lockfile does not exist
          MaxAttempts,  \* Options.MaxAttempts; 0 stands for lock.Unlimited
          TimeoutSet,   \* Options.Timeout > 0 (--lock-timeout)
          StoreFaults,  \* calls that fail, replies that are lost
          Operator      \* who removes a lockfile by hand

ASSUME LockAssumption ==
  /\ NoObject \notin Runs
  /\ MaxAttempts \in Nat
  /\ TimeoutSet \in BOOLEAN
  /\ StoreFaults \subseteq {"call", "createReply", "deleteReply"}
  /\ Operator \in {"absent", "careful", "careless"}

VARIABLES lockfile,  \* the stored object: the run that wrote it, or NoObject
          pc,        \* where each run is in Acquire and Release
          etag,      \* Handle.etag of each run
          attempt,   \* the loop counter of Acquire, when MaxAttempts bounds it
          expired    \* whether the context deadline of Acquire has passed

vars == <<lockfile, pc, etag, attempt, expired>>

Acquiring == {"try", "create", "etag", "current", "wait"}
Releasing == {"relGet", "relDelete"}
Ended == {"released", "notOwner", "releaseFailed", "gaveUp", "crashed"}

\* The counter of a bounded loop never passes MaxAttempts; the last attempt
\* does not wait.
AttemptOK ==
  \A p \in Runs :
    /\ attempt[p] \in 1..(IF MaxAttempts = 0 THEN 1 ELSE MaxAttempts)
    /\ pc[p] = "wait" => attempt[p] # MaxAttempts

TypeOK ==
  /\ lockfile \in Runs \cup {NoObject}
  /\ pc \in [Runs -> {"idle", "held"} \cup Acquiring \cup Releasing \cup Ended]
  /\ etag \in [Runs -> Runs \cup {NoObject}]
  /\ attempt \in [Runs -> Nat] /\ AttemptOK
  /\ expired \in [Runs -> BOOLEAN]

Init ==
  /\ lockfile = NoObject
  /\ pc = [p \in Runs |-> "idle"]
  /\ etag = [p \in Runs |-> NoObject]
  /\ attempt = [p \in Runs |-> 1]
  /\ expired = [p \in Runs |-> FALSE]

Goto(p, label) == pc' = [pc EXCEPT ![p] = label]

\* The call of p that is due at label can complete: an expired deadline
\* aborts a store request and a wait alike.
Due(p, label) == pc[p] = label /\ ~expired[p]

---------------------------------------------------------------------------
(* Acquire *)

Start(p) ==
  /\ pc[p] = "idle"
  /\ Goto(p, "try")
  /\ UNCHANGED <<lockfile, etag, attempt, expired>>

\* Mutant: Put takes any stored body for its own.
PutHeadWithoutSum(p) ==
  /\ Due(p, "try")
  /\ Goto(p, IF lockfile = NoObject THEN "create" ELSE "etag")
  /\ UNCHANGED <<lockfile, etag, attempt, expired>>

\* The Head inside Put: an identical body already stored is success, another
\* body is the conflict of a CreateOnly put, none leads to PutObject.
PutHead(p) ==
  /\ Due(p, "try")
  /\ Goto(p, CASE lockfile = NoObject -> "create"
               [] lockfile = p        -> "etag"
               [] OTHER               -> "current")
  /\ UNCHANGED <<lockfile, etag, attempt, expired>>

\* Mutant: PutObject without If-None-Match.
CreateOverwrites(p) ==
  /\ Due(p, "create")
  /\ lockfile' = p
  /\ Goto(p, "etag")
  /\ UNCHANGED <<etag, attempt, expired>>

\* PutObject with If-None-Match: *; 412 is mapped to ErrConflict.
Create(p) ==
  /\ Due(p, "create")
  /\ IF lockfile = NoObject
     THEN lockfile' = p /\ Goto(p, "etag")
     ELSE UNCHANGED lockfile /\ Goto(p, "current")
  /\ UNCHANGED <<etag, attempt, expired>>

\* PutObject is applied but its reply does not arrive. Acquire sees an error
\* or, when the SDK repeats the request, the conflict with its own lock.
CreateReplyLost(p) ==
  /\ pc[p] = "create"
  /\ lockfile = NoObject
  /\ lockfile' = p
  /\ \/ ("createReply" \in StoreFaults \/ expired[p]) /\ Goto(p, "gaveUp")
     \/ "createReply" \in StoreFaults /\ ~expired[p] /\ Goto(p, "current")
  /\ UNCHANGED <<etag, attempt, expired>>

\* Mutant: the ETag of the new lock is not kept in the handle.
ReadNoETag(p) ==
  /\ Due(p, "etag")
  /\ Goto(p, IF lockfile = NoObject THEN "gaveUp" ELSE "held")
  /\ UNCHANGED <<lockfile, etag, attempt, expired>>

\* The Head that reads the ETag of the new lock; an error ends Acquire.
ReadETag(p) ==
  /\ Due(p, "etag")
  /\ IF lockfile = NoObject
     THEN UNCHANGED etag /\ Goto(p, "gaveUp")
     ELSE etag' = [etag EXCEPT ![p] = lockfile] /\ Goto(p, "held")
  /\ UNCHANGED <<lockfile, attempt, expired>>

\* Mutant: unlimited attempts are counted down like bounded ones.
CountDown(p) == attempt' = [attempt EXCEPT ![p] = @ - 1]

\* Mutant: the loop does not count.
CountNothing(p) == UNCHANGED attempt

CountAttempt(p) ==
  attempt' = IF MaxAttempts = 0 THEN attempt ELSE [attempt EXCEPT ![p] = @ + 1]

\* After a conflict: read the owner for the report, stop at the last attempt,
\* try again at once when the lock has gone, otherwise wait.
ReadCurrent(p) ==
  /\ Due(p, "current")
  /\ \/ /\ attempt[p] = MaxAttempts
        /\ Goto(p, "gaveUp")
        /\ UNCHANGED attempt
     \/ /\ attempt[p] # MaxAttempts
        /\ lockfile = NoObject
        /\ Goto(p, "try")
        /\ CountAttempt(p)
     \/ /\ attempt[p] # MaxAttempts
        /\ lockfile # NoObject
        /\ Goto(p, "wait")
        /\ UNCHANGED attempt
  /\ UNCHANGED <<lockfile, etag, expired>>

\* The backoff timer fires.
Retry(p) ==
  /\ Due(p, "wait")
  /\ Goto(p, "try")
  /\ CountAttempt(p)
  /\ UNCHANGED <<lockfile, etag, expired>>

\* The deadline of --lock-timeout passes while Acquire runs.
Expire(p) ==
  /\ TimeoutSet
  /\ pc[p] \in Acquiring
  /\ ~expired[p]
  /\ expired' = [expired EXCEPT ![p] = TRUE]
  /\ UNCHANGED <<lockfile, pc, etag, attempt>>

\* Mutant: the backoff wait does not watch the context.
TimedOutInCalls(p) ==
  /\ expired[p]
  /\ pc[p] \in Acquiring \ {"wait"}
  /\ Goto(p, "gaveUp")
  /\ UNCHANGED <<lockfile, etag, attempt, expired>>

\* Acquire returns the timeout, wherever it is; nothing is undone.
TimedOut(p) ==
  /\ expired[p]
  /\ pc[p] \in Acquiring
  /\ Goto(p, "gaveUp")
  /\ UNCHANGED <<lockfile, etag, attempt, expired>>

\* A store call of Acquire or Release fails without effect.
StoreError(p) ==
  /\ "call" \in StoreFaults
  /\ \/ pc[p] \in Acquiring \ {"wait"} /\ Goto(p, "gaveUp")
     \/ pc[p] \in Releasing /\ Goto(p, "releaseFailed")
  /\ UNCHANGED <<lockfile, etag, attempt, expired>>

---------------------------------------------------------------------------
(* The operation and Release *)

\* The locked operation returns, with or without an error.
OperationEnds(p) ==
  /\ pc[p] = "held"
  /\ Goto(p, "relGet")
  /\ UNCHANGED <<lockfile, etag, attempt, expired>>

\* Release reads the object and compares the token.
ReleaseGet(p) ==
  /\ pc[p] = "relGet"
  /\ Goto(p, CASE lockfile = NoObject -> "released"
               [] lockfile = p        -> "relDelete"
               [] OTHER               -> "notOwner")
  /\ UNCHANGED <<lockfile, etag, attempt, expired>>

\* Mutant: Delete in place of DeleteIfMatch.
DeleteUnconditionally(p) ==
  /\ pc[p] = "relDelete"
  /\ lockfile' = NoObject
  /\ Goto(p, "released")
  /\ UNCHANGED <<etag, attempt, expired>>

\* DeleteIfMatch with the ETag kept in the handle.
ReleaseDelete(p) ==
  /\ pc[p] = "relDelete"
  /\ \/ /\ lockfile \in {NoObject, etag[p]}
        /\ lockfile' = NoObject
        /\ Goto(p, "released")
     \/ /\ lockfile \notin {NoObject, etag[p]}
        /\ UNCHANGED lockfile
        /\ Goto(p, "notOwner")
  /\ UNCHANGED <<etag, attempt, expired>>

\* The delete is applied but its reply is lost: Release reports the error, or
\* what the repeated request finds (nothing, or a lock taken since).
DeleteReplyLost(p) ==
  /\ "deleteReply" \in StoreFaults
  /\ pc[p] = "relDelete"
  /\ lockfile # NoObject
  /\ lockfile = etag[p]
  /\ lockfile' = NoObject
  /\ \E outcome \in {"released", "notOwner", "releaseFailed"} : Goto(p, outcome)
  /\ UNCHANGED <<etag, attempt, expired>>

---------------------------------------------------------------------------
(* Processes that die, and the operator *)

\* The process dies; a PutObject that was under way may still be applied.
Crash(p) ==
  /\ pc[p] \notin Ended \cup {"idle"}
  /\ Goto(p, "crashed")
  /\ \/ UNCHANGED lockfile
     \/ pc[p] = "create" /\ lockfile = NoObject /\ lockfile' = p
  /\ UNCHANGED <<etag, attempt, expired>>

\* The operator removes the lockfile; a careful one has checked that its
\* owner no longer runs (docs/LOCKING.md).
BreakLock ==
  /\ Operator # "absent"
  /\ lockfile # NoObject
  /\ Operator = "careful" => pc[lockfile] \in Ended
  /\ lockfile' = NoObject
  /\ UNCHANGED <<pc, etag, attempt, expired>>

\* Every run has ended and no stale lock is left to remove.
Terminated ==
  /\ \A p \in Runs : pc[p] \in Ended
  /\ UNCHANGED vars

\* What the program itself does next in a started run.
Proceed(p) ==
  \/ PutHead(p) \/ Create(p) \/ ReadETag(p) \/ ReadCurrent(p) \/ Retry(p)
  \/ TimedOut(p) \/ OperationEnds(p) \/ ReleaseGet(p) \/ ReleaseDelete(p)

Disturb(p) ==
  CreateReplyLost(p) \/ StoreError(p) \/ DeleteReplyLost(p) \/ Crash(p)

Next ==
  \/ \E p \in Runs : Start(p) \/ Proceed(p) \/ Expire(p) \/ Disturb(p)
  \/ BreakLock
  \/ Terminated

Spec == Init /\ [][Next]_vars

\* A started run keeps running and clocks advance. Only where neither attempts
\* nor --lock-timeout bound the wait, a careful operator is expected to get
\* round to removing a stale lock.
Fairness ==
  /\ \A p \in Runs : WF_vars(Proceed(p)) /\ WF_vars(Expire(p))
  /\ WF_vars(MaxAttempts = 0 /\ ~TimeoutSet /\ Operator = "careful" /\ BreakLock)

FairSpec == Spec /\ Fairness

---------------------------------------------------------------------------
(* Properties *)

\* The labels at which a run relies on the lock it was granted.
Granted == {"etag", "held"} \cup Releasing

\* A run that was granted the lock finds its own lockfile in the store until
\* it deletes it, whatever the other runs, lost replies, dying processes and
\* a careful operator do: nobody overwrites, steals or releases it.
GrantedOwnsLockfile == \A p \in Runs : pc[p] \in Granted => lockfile = p

\* No two runs execute their locked operations at the same time.
MutualExclusion ==
  \A p, q \in Runs : pc[p] = "held" /\ pc[q] = "held" => p = q

\* Even after a careless operator removed a lock in use, Release deletes the
\* lock of its own run or nothing: the token comparison and If-Match together
\* cover a lock that changed hands between Release's two calls, and an ETag
\* that Acquire read from somebody else's lock.
ReleaseRemovesOnlyOwnLock ==
  [][\A p \in Runs :
       pc[p] = "relDelete" /\ pc'[p] # pc[p] /\ lockfile' # lockfile
         => lockfile = p]_vars

\* A run that ended by returning, with or without an error of Acquire, has not
\* left its lock behind. Only a process that died does, or one whose Release
\* failed and reported it ("releaseFailed").
LockNotLeaked ==
  \A p \in Runs : pc[p] \in {"released", "notOwner", "gaveUp"} => lockfile # p

\* Every run that asked for the lock comes to an end: the waiting is bounded
\* by the other runs, by --lock-timeout, by MaxAttempts or by the operator.
EveryRunEnds == \A p \in Runs : pc[p] = "try" ~> pc[p] \in Ended

\* The protocol implements LockService: the lockfile is the abstract holder,
\* and a run holds the lock from the PutObject that created the lockfile to
\* the delete that removes it.
RunState(p) ==
  CASE pc[p] = "idle"  -> "idle"
    [] pc[p] \in Ended -> "ended"
    [] pc[p] \notin Ended \cup {"idle"} /\ lockfile = p -> "holding"
    [] OTHER           -> "waiting"

ServiceState == [p \in Runs |-> RunState(p)]

Service == INSTANCE LockService
             WITH Nobody <- NoObject, holder <- lockfile, state <- ServiceState

ImplementsLockService == Service!Spec
=============================================================================
