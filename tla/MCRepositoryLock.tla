-------------------------- MODULE MCRepositoryLock --------------------------
(***************************************************************************)
(* Instances of RepositoryLock for TLC: two or three runs of deb-s3 that   *)
(* contend for the lock of one codename.                                   *)
(***************************************************************************)
EXTENDS RepositoryLock

CONSTANTS r1, r2, r3

TwoRuns == {r1, r2}
ThreeRuns == {r1, r2, r3}
=============================================================================
