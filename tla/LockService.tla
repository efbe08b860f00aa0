---------------------------- MODULE LockService ----------------------------
(***************************************************************************)
(* What the lockfile of one codename promises to the runs of deb-s3 that   *)
(* ask for it (docs/LOCKING.md, the exported API of internal/lock): at     *)
(* most one live run works under the lock, a run that ends gives the lock  *)
(* back or leaves it behind, and a lock that was left behind is only ever  *)
(* removed by an operator who checked that its owner is gone.              *)
(* RepositoryLock implements this specification call by call; Repository   *)
(* uses it once per codename.                                              *)
(***************************************************************************)
CONSTANTS Runs,    \* one element per invocation of deb-s3
          Nobody   \* the lock is free; not one of Runs

VARIABLES holder,  \* the run named by the lock, or Nobody
          state    \* how far each run is

lockVars == <<holder, state>>

LockTypeOK ==
  /\ holder \in Runs \cup {Nobody}
  /\ state \in [Runs -> {"idle", "waiting", "holding", "ended"}]

Init ==
  /\ holder = Nobody
  /\ state = [p \in Runs |-> "idle"]

Move(p, from, to) ==
  /\ state[p] = from
  /\ state' = [state EXCEPT ![p] = to]

\* A run starts to ask for the lock.
Request(p) ==
  /\ Move(p, "idle", "waiting")
  /\ UNCHANGED holder

\* The lock is granted only when it is free.
Grant(p) ==
  /\ holder = Nobody
  /\ Move(p, "waiting", "holding")
  /\ holder' = p

\* The holder ends and gives the lock back.
Release(p) ==
  /\ holder = p
  /\ Move(p, "holding", "ended")
  /\ holder' = Nobody

\* A run ends without giving anything back: it stopped waiting, its process
\* died, or its last request failed. It may leave the lock it holds, or the
\* lock that its request was just granted.
Abandon(p) ==
  /\ \E from \in {"idle", "waiting", "holding"} : Move(p, from, "ended")
  /\ \/ UNCHANGED holder
     \/ state[p] = "waiting" /\ holder = Nobody /\ holder' = p

\* The operator removes a lock whose owner has ended.
Break ==
  /\ holder # Nobody
  /\ state[holder] = "ended"
  /\ holder' = Nobody
  /\ UNCHANGED state

Next ==
  \/ \E p \in Runs : Request(p) \/ Grant(p) \/ Release(p) \/ Abandon(p)
  \/ Break

Spec == Init /\ [][Next]_lockVars
=============================================================================
