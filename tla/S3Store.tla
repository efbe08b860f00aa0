------------------------------ MODULE S3Store ------------------------------
(***************************************************************************)
(* storage.S3Store: the calls of the store interface as requests to a      *)
(* bucket that other processes change between any two of them. Put is a    *)
(* HeadObject and a PutObject, Copy two HeadObjects and a CopyObject, List *)
(* one ListObjectsV2 per page. The bucket handles one request at a time,   *)
(* conditions included. The SDK repeats a request whose reply it does not  *)
(* get.                                                                    *)
(***************************************************************************)
EXTENDS FiniteSetsExt, Naturals

CONSTANTS Clients, Keys, Bodies, Calls, NoObject,
          CallsOf,      \* [client -> the calls it makes]
          Foreign,      \* the ETag of an object that was stored in parts
          PageSize,     \* keys on a page of a listing
          MaxAttempts,  \* requests the SDK sends for one call
          Faults        \* the failures that may happen

ASSUME StoreAssumption ==
  /\ Keys \subseteq Nat \ {0}
  /\ NoObject \notin Keys \cup Bodies \cup {Foreign}
  /\ NoObject \notin Calls
  /\ Foreign \notin Bodies
  /\ CallsOf \in [Clients -> SUBSET Calls]
  /\ \A k \in Calls : /\ k.op = "put" => k.body \in Bodies
                      /\ k.op = "copy" => k.source \in Keys
  /\ PageSize \in Nat \ {0}
  /\ MaxAttempts \in Nat \ {0}
  /\ Faults \subseteq {"lost", "error", "token"}

VARIABLES objects,  \* [key -> object, or NoObject]: the bucket
          call,     \* [client -> its call, or NoObject]
          pc,       \* [client -> the request it makes next]
          seen,     \* [client -> the source of a copy when it was looked at]
          attempt,  \* [client -> how often the request was sent]
          reply,    \* [client -> the reply to the last request served]
          answer,   \* [client -> what the call returns]
          listed,   \* [client -> the keys on the pages received]
          token     \* [client -> the continuation token: the last key, or 0]

\* History: the keys that have been there since a List began, and those that
\* have been there at any moment since then.
VARIABLES steady, ever

vars == <<objects, call, pc, seen, attempt, reply, answer, listed, token,
          steady, ever>>

Stored(body) == [body |-> body, tag |-> body]

Objects == [body : Bodies, tag : Bodies \cup {Foreign}]

Labels == {"idle", "source", "head", "request", "reply", "page", "return"}

Replies == {"none", "ok", "conflict", "notFound", "error"}

TypeOK ==
  /\ objects \in [Keys -> Objects \cup {NoObject}]
  /\ call \in [Clients -> Calls \cup {NoObject}]
  /\ pc \in [Clients -> Labels]
  /\ seen \in [Clients -> Objects \cup {NoObject}]
  /\ attempt \in [Clients -> 1..MaxAttempts]
  /\ reply \in [Clients -> Replies]
  /\ answer \in [Clients -> Replies]
  /\ listed \in [Clients -> SUBSET Keys]
  /\ token \in [Clients -> Keys \cup {0}]
  /\ steady \in [Clients -> SUBSET Keys]
  /\ ever \in [Clients -> SUBSET Keys]

\* The bucket holds what deb-s3 stored and perhaps objects of other tools.
Init ==
  /\ objects \in [Keys -> {NoObject} \cup {Stored(b) : b \in Bodies}
                            \cup {[body |-> b, tag |-> Foreign] : b \in Bodies}]
  /\ call = [c \in Clients |-> NoObject]
  /\ pc = [c \in Clients |-> "idle"]
  /\ seen = [c \in Clients |-> NoObject]
  /\ attempt = [c \in Clients |-> 1]
  /\ reply = [c \in Clients |-> "none"]
  /\ answer = [c \in Clients |-> "none"]
  /\ listed = [c \in Clients |-> {}]
  /\ token = [c \in Clients |-> 0]
  /\ steady = [c \in Clients |-> {}]
  /\ ever = [c \in Clients |-> {}]

---------------------------------------------------------------------------

Goto(c, label) == pc' = [pc EXCEPT ![c] = label]

\* The call returns without a further request.
Answer(c, a) == answer' = [answer EXCEPT ![c] = a] /\ Goto(c, "return")

At(c, label, op) == pc[c] = label /\ call[c].op = op

Exists(k) == objects[k] # NoObject

FirstRequest(op) ==
  CASE op = "put"  -> "head"
    [] op = "copy" -> "source"
    [] op = "list" -> "page"
    [] OTHER       -> "request"

Begin(c) ==
  /\ pc[c] = "idle"
  /\ \E k \in CallsOf[c] : /\ call' = [call EXCEPT ![c] = k]
                           /\ Goto(c, FirstRequest(k.op))
  /\ UNCHANGED <<objects, seen, attempt, reply, answer, listed, token>>

Return(c) ==
  /\ pc[c] = "return"
  /\ Goto(c, "idle")
  /\ call' = [call EXCEPT ![c] = NoObject]
  /\ seen' = [seen EXCEPT ![c] = NoObject]
  /\ attempt' = [attempt EXCEPT ![c] = 1]
  /\ reply' = [reply EXCEPT ![c] = "none"]
  /\ answer' = [answer EXCEPT ![c] = "none"]
  /\ listed' = [listed EXCEPT ![c] = {}]
  /\ token' = [token EXCEPT ![c] = 0]
  /\ UNCHANGED objects

\* Copy: the HeadObject of the source, and the check of --source ETag.
HeadSource(c) ==
  /\ At(c, "source", "copy")
  /\ LET o == objects[call[c].source]
     IN  \/ o = NoObject /\ Answer(c, "notFound") /\ UNCHANGED seen
         \/ /\ o # NoObject
            /\ call[c].etag \notin {NoObject, o.tag}
            /\ Answer(c, "conflict")
            /\ UNCHANGED seen
         \/ /\ o # NoObject
            /\ call[c].etag \in {NoObject, o.tag}
            /\ seen' = [seen EXCEPT ![c] = o]
            /\ Goto(c, "head")
            /\ UNCHANGED answer
  /\ UNCHANGED <<objects, call, attempt, reply, listed, token>>

\* The digest the object at the destination would have to have.
Digest(c) == IF call[c].op = "put" THEN call[c].body ELSE seen[c].tag

\* Put and Copy: the HeadObject of the destination. An identical object ends
\* the call, a different one ends a guarded call.
Head(c) ==
  /\ pc[c] = "head"
  /\ LET o == objects[call[c].key]
     IN  IF o # NoObject /\ o.tag = Digest(c)
         THEN Answer(c, "ok")
         ELSE IF o # NoObject /\ call[c].guarded
         THEN Answer(c, "conflict")
         ELSE Goto(c, "request") /\ UNCHANGED answer
  /\ UNCHANGED <<objects, call, seen, attempt, reply, listed, token>>

---------------------------------------------------------------------------
(* Requests that the bucket serves *)

Reply(c, r) == reply' = [reply EXCEPT ![c] = r] /\ Goto(c, "reply")

Write(k, o) == objects' = [objects EXCEPT ![k] = o]

Unchanged(c) == UNCHANGED <<call, seen, attempt, answer, listed, token>>

\* Mutant: PutObject without If-None-Match.
ServePutAnyway(c) ==
  /\ At(c, "request", "put")
  /\ Write(call[c].key, Stored(call[c].body))
  /\ Reply(c, "ok")
  /\ Unchanged(c)

\* PutObject, with If-None-Match: * for a guarded call.
ServePut(c) ==
  /\ At(c, "request", "put")
  /\ IF call[c].guarded /\ Exists(call[c].key)
     THEN Reply(c, "conflict") /\ UNCHANGED objects
     ELSE Write(call[c].key, Stored(call[c].body)) /\ Reply(c, "ok")
  /\ Unchanged(c)

\* CopyObject, with x-amz-copy-source-if-match and If-None-Match.
ServeCopy(c) ==
  /\ At(c, "request", "copy")
  /\ LET o == objects[call[c].source]
     IN  \/ o = NoObject /\ Reply(c, "notFound") /\ UNCHANGED objects
         \/ /\ \/ o # NoObject /\ call[c].etag \notin {NoObject, o.tag}
               \/ call[c].guarded /\ Exists(call[c].key)
            /\ Reply(c, "conflict")
            /\ UNCHANGED objects
         \/ /\ o # NoObject
            /\ call[c].etag \in {NoObject, o.tag}
            /\ ~(call[c].guarded /\ Exists(call[c].key))
            /\ Write(call[c].key, Stored(o.body))
            /\ Reply(c, "ok")
  /\ Unchanged(c)

\* DeleteObject succeeds whether there is an object or not.
ServeDelete(c) ==
  /\ At(c, "request", "delete")
  /\ Write(call[c].key, NoObject)
  /\ Reply(c, "ok")
  /\ Unchanged(c)

\* DeleteObject with If-Match.
ServeDeleteIfMatch(c) ==
  /\ At(c, "request", "deleteIfMatch")
  /\ LET k == call[c].key
     IN  \/ /\ ~Exists(k)
            /\ \E r \in {"ok", "notFound", "conflict"} : Reply(c, r)
            /\ UNCHANGED objects
         \/ /\ Exists(k)
            /\ objects[k].tag # call[c].etag
            /\ Reply(c, "conflict")
            /\ UNCHANGED objects
         \/ /\ Exists(k)
            /\ objects[k].tag = call[c].etag
            /\ Write(k, NoObject)
            /\ Reply(c, "ok")
  /\ Unchanged(c)

\* GetObject or HeadObject.
ServeGet(c) ==
  /\ At(c, "request", "get")
  /\ Reply(c, IF Exists(call[c].key) THEN "ok" ELSE "notFound")
  /\ UNCHANGED objects
  /\ Unchanged(c)

Receive(c) ==
  /\ pc[c] = "reply"
  /\ Answer(c, reply[c])
  /\ UNCHANGED <<objects, call, seen, attempt, reply, listed, token>>

\* Mutant: the SDK repeats requests without limit.
RepeatForever(c) ==
  /\ "lost" \in Faults
  /\ pc[c] \in {"request", "reply"}
  /\ Goto(c, "request")
  /\ UNCHANGED <<objects, call, seen, attempt, reply, answer, listed, token>>

\* Mutant: one request more than the SDK is allowed.
RepeatOnceMore(c) ==
  /\ "lost" \in Faults
  /\ pc[c] \in {"request", "reply"}
  /\ attempt[c] <= MaxAttempts
  /\ attempt' = [attempt EXCEPT ![c] = @ + 1]
  /\ Goto(c, "request")
  /\ UNCHANGED <<objects, call, seen, reply, answer, listed, token>>

\* The request or its reply is lost and the SDK sends the request again.
Repeat(c) ==
  /\ "lost" \in Faults
  /\ pc[c] \in {"request", "reply"}
  /\ attempt[c] < MaxAttempts
  /\ attempt' = [attempt EXCEPT ![c] = @ + 1]
  /\ Goto(c, "request")
  /\ UNCHANGED <<objects, call, seen, reply, answer, listed, token>>

\* A request fails for good, applied or not.
GiveUp(c) ==
  /\ "error" \in Faults
  /\ pc[c] \in {"source", "head", "request", "reply", "page"}
  /\ Answer(c, "error")
  /\ UNCHANGED <<objects, call, seen, attempt, reply, listed, token>>

---------------------------------------------------------------------------
(* List *)

Present == {k \in Keys : Exists(k)}

\* The keys a page may still hold, and the page: the first PageSize of them.
Remaining(c) == {k \in Present : k > token[c]}

OnPage(c) ==
  {k \in Remaining(c) : Cardinality({l \in Remaining(c) : l < k}) < PageSize}

Truncated(c) == OnPage(c) # Remaining(c)

\* Mutant: the first page is taken for the whole listing.
FirstPageOnly(c) ==
  /\ At(c, "page", "list")
  /\ listed' = [listed EXCEPT ![c] = OnPage(c)]
  /\ Answer(c, "ok")
  /\ UNCHANGED <<objects, call, seen, attempt, reply, token>>

\* ListObjectsV2 until a page is not truncated; a truncated page without a
\* continuation token is an error.
NextPage(c) ==
  /\ At(c, "page", "list")
  /\ listed' = [listed EXCEPT ![c] = @ \cup OnPage(c)]
  /\ \/ ~Truncated(c) /\ Answer(c, "ok") /\ UNCHANGED token
     \/ /\ Truncated(c)
        /\ token' = [token EXCEPT ![c] = Max(OnPage(c))]
        /\ UNCHANGED <<pc, answer>>
     \/ /\ Truncated(c)
        /\ "token" \in Faults
        /\ Answer(c, "error")
        /\ UNCHANGED token
  /\ UNCHANGED <<objects, call, seen, attempt, reply>>

\* What the history variables record.
Observe ==
  LET Listing(c) == call'[c] # NoObject /\ call'[c].op = "list"
      Now == {k \in Keys : objects'[k] # NoObject}
  IN  /\ steady' = [c \in Clients |->
                      CASE Listing(c) /\ pc[c] = "idle" -> Now
                        [] Listing(c) /\ pc[c] # "idle" -> steady[c] \cap Now
                        [] OTHER -> {}]
      /\ ever' = [c \in Clients |->
                    CASE Listing(c) /\ pc[c] = "idle" -> Now
                      [] Listing(c) /\ pc[c] # "idle" -> ever[c] \cup Now
                      [] OTHER -> {}]

---------------------------------------------------------------------------

\* The program and the bucket.
Advance(c) ==
  \/ Return(c)
  \/ HeadSource(c) \/ Head(c)
  \/ ServePut(c) \/ ServeCopy(c) \/ ServeDelete(c) \/ ServeDeleteIfMatch(c)
  \/ ServeGet(c) \/ Receive(c) \/ NextPage(c)

Next ==
  /\ \E c \in Clients : Begin(c) \/ Advance(c) \/ Repeat(c) \/ GiveUp(c)
  /\ Observe

Spec == Init /\ [][Next]_vars

\* Requests are answered, or given up by the SDK.
FairSpec == Spec /\ \A c \in Clients : WF_vars(Advance(c) /\ Observe)

---------------------------------------------------------------------------

\* Request by request, beside other clients, with repeated requests and
\* failures, every call has the effect of one on an atomic store, with no
\* more leeway than ObjectStore lists: a guarded Put or Copy never replaces an
\* object, a conditional delete removes only the object it was meant for, and
\* no answer contradicts what was in the bucket.
Abstract ==
  INSTANCE ObjectStore WITH
    answer <- [c \in Clients |->
                 IF pc[c] = "return" THEN answer[c] ELSE reply[c]]

ImplementsObjectStore == Abstract!Spec

\* A listing that succeeds holds every key that was there from its first page
\* to its last, and none that was not there at some moment: clean deletes what
\* a listing of indexes does not lead to.
ListComplete ==
  \A c \in Clients :
    At(c, "return", "list") /\ answer[c] = "ok"
      => steady[c] \subseteq listed[c] /\ listed[c] \subseteq ever[c]

\* Every call returns, however often replies are lost.
EveryCallReturns == \A c \in Clients : pc[c] # "idle" ~> pc[c] = "idle"
=============================================================================
