----------------------------- MODULE MCS3Store -----------------------------
(***************************************************************************)
(* Two clients of one bucket for TLC: both put, copy and delete one object,*)
(* the second one also lists while the first one changes the listing.      *)
(***************************************************************************)
EXTENDS S3Store, TLC

CONSTANTS c1, c2, x, y

Call(op, key) ==
  [op |-> op, key |-> key, body |-> NoObject, source |-> NoObject,
   etag |-> NoObject, guarded |-> FALSE]

Put(key, body, guarded) ==
  [Call("put", key) EXCEPT !.body = body, !.guarded = guarded]
Copy(source, key, etag, guarded) ==
  [Call("copy", key) EXCEPT !.source = source, !.etag = etag, !.guarded = guarded]
DeleteIf(key, etag) == [Call("deleteIfMatch", key) EXCEPT !.etag = etag]

MCCallsOf ==
  c1 :> {Put(1, x, TRUE), Put(1, y, FALSE), Copy(2, 1, x, TRUE),
         Call("delete", 1), DeleteIf(1, x)} @@
  c2 :> {Put(1, x, TRUE), Put(2, y, FALSE), Copy(1, 2, NoObject, FALSE),
         Call("get", 1), Call("list", NoObject)}

MCCalls == UNION {MCCallsOf[c] : c \in Clients}
=============================================================================
