---------------------------- MODULE MemoryStore ----------------------------
(***************************************************************************)
(* storage.MemoryStore, the store the tests of deb-s3 run against: every   *)
(* call takes effect at one instant, under a mutex.                        *)
(*                                                                         *)
(* An object has a body and a tag. The tag stands for the digest objectMD5 *)
(* finds (the md5 metadata, or else the ETag) and for the ETag: for        *)
(* whatever deb-s3 stores, both are the digest of the body.                *)
(*                                                                         *)
(* A call is a record [op, key, body, source, etag, guarded]. guarded      *)
(* stands for FailIfExists or CreateOnly, which Put and Copy treat alike;  *)
(* a field that the operation does not use is NoObject or FALSE.           *)
(***************************************************************************)
EXTENDS Naturals

CONSTANTS Clients,  \* the processes that use the store
          Keys,     \* the object keys, numbered in the order of a listing
          Calls,    \* the calls they make
          NoObject

VARIABLES objects,  \* [key -> object, or NoObject]
          call,     \* [client -> its call, or NoObject between two calls]
          answer    \* [client -> the answer to its call, or "none" so far]

Stored(body) == [body |-> body, tag |-> body]

Answer(c, a) == answer' = [answer EXCEPT ![c] = a]

\* The call of a client is still to be answered and has this operation.
Calling(c, op) == call[c] # NoObject /\ call[c].op = op

Exists(k) == objects[k] # NoObject

Begin(c) ==
  /\ call[c] = NoObject
  /\ \E request \in Calls : call' = [call EXCEPT ![c] = request]
  /\ UNCHANGED <<objects, answer>>

Return(c) ==
  /\ call[c] # NoObject
  /\ answer[c] # "none"
  /\ call' = [call EXCEPT ![c] = NoObject]
  /\ Answer(c, "none")
  /\ UNCHANGED objects

---------------------------------------------------------------------------

\* An identical object is left alone, a different one is a conflict for a
\* guarded Put and is replaced by an unguarded one.
PutKeeps(c) ==
  /\ Calling(c, "put")
  /\ Exists(call[c].key)
  /\ objects[call[c].key].tag = call[c].body
  /\ Answer(c, "ok")
  /\ UNCHANGED <<objects, call>>

PutConflicts(c) ==
  /\ Calling(c, "put")
  /\ Exists(call[c].key)
  /\ objects[call[c].key].tag # call[c].body
  /\ call[c].guarded
  /\ Answer(c, "conflict")
  /\ UNCHANGED <<objects, call>>

PutWrites(c) ==
  /\ Calling(c, "put")
  /\ \/ ~Exists(call[c].key)
     \/ ~call[c].guarded /\ objects[call[c].key].tag # call[c].body
  /\ objects' = [objects EXCEPT ![call[c].key] = Stored(call[c].body)]
  /\ Answer(c, "ok")
  /\ UNCHANGED call

\* The source must exist and have the ETag that was asked for, if one was.
Mismatch(c, source) ==
  call[c].etag # NoObject /\ source.tag # call[c].etag

CopyRefused(c) ==
  /\ Calling(c, "copy")
  /\ \/ ~Exists(call[c].source) /\ Answer(c, "notFound")
     \/ /\ Exists(call[c].source)
        /\ Mismatch(c, objects[call[c].source])
        /\ Answer(c, "conflict")
  /\ UNCHANGED <<objects, call>>

CopyKeeps(c, source) ==
  /\ Calling(c, "copy")
  /\ source # NoObject
  /\ ~Mismatch(c, source)
  /\ Exists(call[c].key)
  /\ objects[call[c].key].tag = source.tag
  /\ Answer(c, "ok")
  /\ UNCHANGED <<objects, call>>

CopyWrites(c) ==
  /\ Calling(c, "copy")
  /\ Exists(call[c].source)
  /\ ~Mismatch(c, objects[call[c].source])
  /\ \/ ~Exists(call[c].key)
     \/ /\ ~call[c].guarded
        /\ objects[call[c].key].tag # objects[call[c].source].tag
  /\ objects' = [objects EXCEPT ![call[c].key] = objects[call[c].source]]
  /\ Answer(c, "ok")
  /\ UNCHANGED call

CopyConflicts(c) ==
  /\ Calling(c, "copy")
  /\ Exists(call[c].source)
  /\ Exists(call[c].key)
  /\ objects[call[c].key].tag # objects[call[c].source].tag
  /\ call[c].guarded
  /\ Answer(c, "conflict")
  /\ UNCHANGED <<objects, call>>

Delete(c) ==
  /\ Calling(c, "delete")
  /\ objects' = [objects EXCEPT ![call[c].key] = NoObject]
  /\ Answer(c, "ok")
  /\ UNCHANGED call

DeleteIfMatch(c) ==
  /\ Calling(c, "deleteIfMatch")
  /\ LET k == call[c].key
     IN  \/ /\ ~Exists(k)
            /\ Answer(c, "notFound")
            /\ UNCHANGED objects
         \/ /\ Exists(k)
            /\ objects[k].tag # call[c].etag
            /\ Answer(c, "conflict")
            /\ UNCHANGED objects
         \/ /\ Exists(k)
            /\ objects[k].tag = call[c].etag
            /\ objects' = [objects EXCEPT ![k] = NoObject]
            /\ Answer(c, "ok")
  /\ UNCHANGED call

\* Get and Head.
Read(c) ==
  /\ Calling(c, "get")
  /\ Answer(c, IF Exists(call[c].key) THEN "ok" ELSE "notFound")
  /\ UNCHANGED <<objects, call>>

List(c) ==
  /\ Calling(c, "list")
  /\ Answer(c, "ok")
  /\ UNCHANGED <<objects, call>>

\* A call takes effect.
Perform(c) ==
  \/ PutKeeps(c) \/ PutConflicts(c) \/ PutWrites(c)
  \/ CopyRefused(c) \/ CopyWrites(c) \/ CopyConflicts(c)
  \/ Calling(c, "copy") /\ CopyKeeps(c, objects[call[c].source])
  \/ Delete(c) \/ DeleteIfMatch(c) \/ Read(c) \/ List(c)
=============================================================================
