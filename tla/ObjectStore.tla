---------------------------- MODULE ObjectStore ----------------------------
(***************************************************************************)
(* What a caller of storage.Store may rely on when the store is S3: what   *)
(* MemoryStore does, with the leeway listed here.                          *)
(*                                                                         *)
(* - A call may take effect more than once before it returns (Perform is   *)
(*   not limited to one time), because a request whose reply was lost is   *)
(*   repeated.                                                             *)
(* - It may fail with or without an effect.                                *)
(* - A guarded call may be refused because of an identical object, not     *)
(*   only because of a different one.                                      *)
(* - Copy looks at its source before it looks at its destination, and Put  *)
(*   and Copy write although the destination has become identical meanwhile.*)
(* - The conditional delete of a missing object may be reported either way.*)
(***************************************************************************)
EXTENDS MemoryStore

VARIABLE seen  \* [client -> the source of a copy as it was when looked at]

storeVars == <<objects, call, answer, seen>>

Init ==
  /\ call = [c \in Clients |-> NoObject]
  /\ answer = [c \in Clients |-> "none"]
  /\ seen = [c \in Clients |-> NoObject]

Fail(c) ==
  /\ call[c] # NoObject
  /\ Answer(c, "error")
  /\ UNCHANGED <<objects, call>>

Refuse(c) ==
  /\ Calling(c, "put") \/ Calling(c, "copy")
  /\ call[c].guarded
  /\ Exists(call[c].key)
  /\ Answer(c, "conflict")
  /\ UNCHANGED <<objects, call>>

Look(c) ==
  /\ Calling(c, "copy")
  /\ seen' = [seen EXCEPT ![c] = objects[call[c].source]]
  /\ UNCHANGED <<objects, call, answer>>

\* A Put that writes over an identical object.
PutAgain(c) ==
  /\ Calling(c, "put")
  /\ ~call[c].guarded
  /\ objects' = [objects EXCEPT ![call[c].key] = Stored(call[c].body)]
  /\ Answer(c, "ok")
  /\ UNCHANGED call

\* A copy that writes over an object it need not replace.
CopyAgain(c) ==
  /\ Calling(c, "copy")
  /\ Exists(call[c].source)
  /\ ~Mismatch(c, objects[call[c].source])
  /\ Exists(call[c].key) => ~call[c].guarded
  /\ objects' = [objects EXCEPT ![call[c].key] =
                   Stored(objects[call[c].source].body)]
  /\ Answer(c, "ok")
  /\ UNCHANGED call

DeleteNothing(c) ==
  /\ Calling(c, "deleteIfMatch")
  /\ ~Exists(call[c].key)
  /\ \E a \in {"ok", "notFound", "conflict"} : Answer(c, a)
  /\ UNCHANGED <<objects, call>>

Finish(c) == Return(c) /\ seen' = [seen EXCEPT ![c] = NoObject]

Next ==
  \E c \in Clients :
    \/ /\ \/ Begin(c) \/ Perform(c)
          \/ Fail(c) \/ Refuse(c) \/ PutAgain(c) \/ CopyAgain(c) \/ DeleteNothing(c)
          \/ CopyKeeps(c, seen[c])
       /\ UNCHANGED seen
    \/ Look(c)
    \/ Finish(c)

Spec == Init /\ [][Next]_storeVars
=============================================================================
