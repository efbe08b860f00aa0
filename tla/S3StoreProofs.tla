--------------------------- MODULE S3StoreProofs ---------------------------
(***************************************************************************)
(* The calls of S3Store implement ObjectStore for any number of clients,   *)
(* keys and calls, with requests that are repeated or fail: each request   *)
(* the bucket serves is one of the atomic steps ObjectStore lists, and     *)
(* everything the client does in between is none.                          *)
(***************************************************************************)
EXTENDS S3Store, FiniteSetTheorems, WellFoundedInduction, TLAPS

\* As much of the types as the argument rests on.
Shape ==
  /\ pc \in [Clients -> Labels]
  /\ call \in [Clients -> Calls \cup {NoObject}]
  /\ reply \in [Clients -> Replies]
  /\ answer \in [Clients -> Replies]
  /\ seen = [c \in Clients |-> seen[c]]

\* What a client that is between two requests remembers of the first one.
Progress ==
  \A c \in Clients :
    /\ pc[c] = "idle" <=> call[c] = NoObject
    /\ pc[c] = "reply" => reply[c] # "none"
    /\ pc[c] = "return" => answer[c] # "none"
    /\ pc[c] = "head" => call[c].op \in {"put", "copy"}
    /\ pc[c] = "head" /\ call[c].op = "copy" =>
         seen[c] # NoObject /\ call[c].etag \in {NoObject, seen[c].tag}

\* The answer of a call as ObjectStore sees it: what the bucket replied, or
\* what the call is about to return.
Given == [c \in Clients |-> IF pc[c] = "return" THEN answer[c] ELSE reply[c]]

\* No client has a call in hand at first.
LEMMA InitInv == ASSUME Init PROVE Shape /\ Progress
  BY DEF Init, Shape, Progress, Labels, Replies

\* A step of one client leaves what the others remember alone.
LEMMA OwnStep ==
  ASSUME Shape, NEW c \in Clients,
         Begin(c) \/ Advance(c) \/ Repeat(c) \/ GiveUp(c)
  PROVE  \A d \in Clients \ {c} :
           /\ pc'[d] = pc[d] /\ call'[d] = call[d] /\ reply'[d] = reply[d]
           /\ answer'[d] = answer[d] /\ seen'[d] = seen[d]
<1> USE DEF Shape, Goto, Answer, Reply, Unchanged
<1>1. CASE Begin(c)
  BY <1>1 DEF Begin
<1>2. CASE Return(c)
  BY <1>2 DEF Return
<1>3. CASE HeadSource(c)
  BY <1>3 DEF HeadSource
<1>4. CASE Head(c)
  BY <1>4 DEF Head
<1>5. CASE ServePut(c)
  BY <1>5 DEF ServePut
<1>6. CASE ServeCopy(c)
  BY <1>6 DEF ServeCopy
<1>7. CASE ServeDelete(c)
  BY <1>7 DEF ServeDelete
<1>8. CASE ServeDeleteIfMatch(c)
  BY <1>8 DEF ServeDeleteIfMatch
<1>9. CASE ServeGet(c)
  BY <1>9 DEF ServeGet
<1>10. CASE Receive(c)
  BY <1>10 DEF Receive
<1>11. CASE NextPage(c)
  BY <1>11 DEF NextPage
<1>12. CASE Repeat(c)
  BY <1>12 DEF Repeat
<1>13. CASE GiveUp(c)
  BY <1>13 DEF GiveUp
<1>14. QED
  BY <1>1, <1>2, <1>3, <1>4, <1>5, <1>6, <1>7, <1>8, <1>9, <1>10, <1>11,
     <1>12, <1>13 DEF Advance

\* Progress of the client that moves.
ProgressOf(c) ==
  /\ pc[c] = "idle" <=> call[c] = NoObject
  /\ pc[c] = "reply" => reply[c] # "none"
  /\ pc[c] = "return" => answer[c] # "none"
  /\ pc[c] = "head" => call[c].op \in {"put", "copy"}
  /\ pc[c] = "head" /\ call[c].op = "copy" =>
       seen[c] # NoObject /\ call[c].etag \in {NoObject, seen[c].tag}

\* The client that moves keeps its record of where it is in step with its call.
LEMMA MoverInv ==
  ASSUME Shape, Progress, NEW c \in Clients,
         Begin(c) \/ Advance(c) \/ Repeat(c) \/ GiveUp(c)
  PROVE  Shape' /\ ProgressOf(c)'
<1> USE StoreAssumption
    DEF Shape, Progress, ProgressOf, Goto, Answer, Reply, Unchanged, Labels,
        Replies, At
<1>1. CASE Begin(c)
  <2>1. PICK k \in CallsOf[c] : call' = [call EXCEPT ![c] = k]
                                /\ Goto(c, FirstRequest(k.op))
    BY <1>1 DEF Begin
  <2>2. k \in Calls /\ k # NoObject
    BY <2>1
  <2>3. /\ FirstRequest(k.op) \in {"head", "source", "page", "request"}
        /\ FirstRequest(k.op) = "head" => k.op = "put"
    BY DEF FirstRequest
  <2>4. QED
    BY <1>1, <2>1, <2>2, <2>3 DEF Begin
<1>2. CASE Return(c)
  BY <1>2 DEF Return
<1>3. CASE HeadSource(c)
  BY <1>3 DEF HeadSource
<1>4. CASE Head(c)
  BY <1>4 DEF Head
<1>5. CASE ServePut(c)
  BY <1>5 DEF ServePut
<1>6. CASE ServeCopy(c)
  BY <1>6 DEF ServeCopy
<1>7. CASE ServeDelete(c)
  BY <1>7 DEF ServeDelete
<1>8. CASE ServeDeleteIfMatch(c)
  BY <1>8 DEF ServeDeleteIfMatch
<1>9. CASE ServeGet(c)
  BY <1>9 DEF ServeGet
<1>10. CASE Receive(c)
  BY <1>10 DEF Receive
<1>11. CASE NextPage(c)
  BY <1>11 DEF NextPage
<1>12. CASE Repeat(c)
  BY <1>12 DEF Repeat
<1>13. CASE GiveUp(c)
  BY <1>13 DEF GiveUp
<1>14. QED
  BY <1>1, <1>2, <1>3, <1>4, <1>5, <1>6, <1>7, <1>8, <1>9, <1>10, <1>11,
     <1>12, <1>13 DEF Advance

\* And so every step keeps Shape and Progress, for every client.
LEMMA NextInv ==
  ASSUME Shape, Progress, [Next]_vars
  PROVE  Shape' /\ Progress'
<1>1. CASE UNCHANGED vars
  BY <1>1 DEF vars, Shape, Progress
<1>2. ASSUME NEW c \in Clients,
             Begin(c) \/ Advance(c) \/ Repeat(c) \/ GiveUp(c)
      PROVE  Shape' /\ Progress'
  <2>1. Shape' /\ ProgressOf(c)'
    BY <1>2, MoverInv
  <2>2. \A d \in Clients \ {c} : ProgressOf(d)'
    BY <1>2, OwnStep DEF Progress, ProgressOf
  <2>3. QED
    BY <2>1, <2>2 DEF Progress, ProgressOf
<1>3. QED
  BY <1>1, <1>2 DEF Next

\* A client has a call exactly while it is not idle, never answers without an
\* answer, and copies what it saw at the source.
THEOREM InvHolds == Spec => [](Shape /\ Progress)
<1>1. Init => Shape /\ Progress
  BY InitInv
<1>2. Shape /\ Progress /\ [Next]_vars => (Shape /\ Progress)'
  BY NextInv
<1>3. QED
  BY <1>1, <1>2, PTL DEF Spec

---------------------------------------------------------------------------
(* Every step of a client is one of ObjectStore's, or none. *)

\* A step that moves one client gives at most one answer.
LEMMA OneAnswer ==
  ASSUME Shape, Shape', NEW c \in Clients,
         Begin(c) \/ Advance(c) \/ Repeat(c) \/ GiveUp(c)
  PROVE  /\ Abstract!Answer(c, Given'[c])
         /\ Given'[c] = Given[c] => Given' = Given
<1>1. \A d \in Clients \ {c} : Given'[d] = Given[d]
  BY OwnStep DEF Given
<1>2. QED
  BY <1>1 DEF Abstract!Answer, Given

\* The steps in which a client finds something out, or nothing.
LEMMA ClientSteps ==
  ASSUME Shape, Progress, Shape', NEW c \in Clients,
         \/ Begin(c) \/ Return(c) \/ HeadSource(c) \/ Head(c)
         \/ Receive(c) \/ NextPage(c) \/ Repeat(c) \/ GiveUp(c)
  PROVE  Abstract!Next \/ UNCHANGED <<objects, call, Given, seen>>
<1> USE DEF Goto, Answer, At, Abstract!Answer
<1>1. Abstract!Answer(c, Given'[c]) /\ (Given'[c] = Given[c] => Given' = Given)
  BY OneAnswer DEF Advance
<1>2. CASE Begin(c)
  <2>1. UNCHANGED <<objects, seen>> /\ Given'[c] = Given[c]
    BY <1>2 DEF Begin, Given, Shape, FirstRequest
  <2>2. call[c] = NoObject /\ \E k \in Calls : call' = [call EXCEPT ![c] = k]
    BY <1>2, StoreAssumption DEF Begin, Progress
  <2>3. Abstract!Begin(c)
    BY <1>1, <2>1, <2>2 DEF Abstract!Begin, Given
  <2>4. QED
    BY <2>1, <2>3 DEF Abstract!Next
<1>3. CASE Return(c)
  <2>1. /\ Given[c] # "none" /\ Given'[c] = "none" /\ call[c] # NoObject
    BY <1>3 DEF Return, Given, Shape, Progress
  <2>2. /\ call' = [call EXCEPT ![c] = NoObject]
        /\ seen' = [seen EXCEPT ![c] = NoObject]
        /\ UNCHANGED objects
    BY <1>3 DEF Return
  <2>3. Abstract!Finish(c)
    BY <1>1, <2>1, <2>2 DEF Abstract!Finish, Abstract!Return, Given
  <2>4. QED
    BY <2>3 DEF Abstract!Next
<1>4. CASE HeadSource(c)
  <2>1. /\ call[c] # NoObject /\ call[c].op = "copy" /\ UNCHANGED <<objects, call>>
    BY <1>4 DEF HeadSource, Progress
  <2>2. CASE seen' = [seen EXCEPT ![c] = objects[call[c].source]]
             /\ Goto(c, "head") /\ UNCHANGED answer
    <3>1. Given'[c] = Given[c]
      BY <1>4, <2>2 DEF HeadSource, Given, Shape
    <3>2. Abstract!Look(c)
      BY <1>1, <2>1, <2>2, <3>1 DEF Abstract!Look, Abstract!Calling, Given
    <3>3. QED
      BY <3>2 DEF Abstract!Next
  <2>3. CASE objects[call[c].source] = NoObject /\ Answer(c, "notFound")
             /\ UNCHANGED seen
    <3>1. Given'[c] = "notFound"
      BY <2>3 DEF Given, Shape
    <3>2. Abstract!CopyRefused(c)
      BY <1>1, <2>1, <2>3, <3>1
      DEF Abstract!CopyRefused, Abstract!Calling, Abstract!Exists, Given
    <3>3. QED
      BY <2>3, <3>2 DEF Abstract!Next, Abstract!Perform
  <2>4. CASE /\ objects[call[c].source] # NoObject
             /\ call[c].etag \notin {NoObject, objects[call[c].source].tag}
             /\ Answer(c, "conflict")
             /\ UNCHANGED seen
    <3>1. Given'[c] = "conflict"
      BY <2>4 DEF Given, Shape
    <3>2. Abstract!CopyRefused(c)
      BY <1>1, <2>1, <2>4, <3>1
      DEF Abstract!CopyRefused, Abstract!Calling, Abstract!Exists,
          Abstract!Mismatch, Given
    <3>3. QED
      BY <2>4, <3>2 DEF Abstract!Next, Abstract!Perform
  <2>5. QED
    BY <1>4, <2>2, <2>3, <2>4 DEF HeadSource
<1>5. CASE Head(c)
  <2> DEFINE o == objects[call[c].key]
  <2>1. /\ call[c] # NoObject /\ call[c].op \in {"put", "copy"}
        /\ UNCHANGED <<objects, call, seen, reply>>
    BY <1>5 DEF Head, Progress
  <2>2. CASE o # NoObject /\ o.tag = Digest(c) /\ Answer(c, "ok")
    <3>1. Given'[c] = "ok"
      BY <2>2 DEF Given, Shape
    <3>2. CASE call[c].op = "put"
      <4>1. Abstract!PutKeeps(c)
        BY <1>1, <2>1, <2>2, <3>1, <3>2
        DEF Digest, Abstract!PutKeeps, Abstract!Calling, Abstract!Exists, Given
      <4>2. QED
        BY <2>1, <4>1 DEF Abstract!Next, Abstract!Perform
    <3>3. CASE call[c].op = "copy"
      <4>1. Abstract!CopyKeeps(c, seen[c])
        BY <1>1, <1>5, <2>1, <2>2, <3>1, <3>3
        DEF Digest, Abstract!CopyKeeps, Abstract!Calling, Abstract!Exists,
            Abstract!Mismatch, Given, Head, Progress
      <4>2. QED
        BY <2>1, <4>1 DEF Abstract!Next
    <3>4. QED
      BY <2>1, <3>2, <3>3
  <2>3. CASE o # NoObject /\ call[c].guarded /\ Answer(c, "conflict")
    <3>1. Given'[c] = "conflict"
      BY <2>3 DEF Given, Shape
    <3>2. Abstract!Refuse(c)
      BY <1>1, <2>1, <2>3, <3>1
      DEF Abstract!Refuse, Abstract!Calling, Abstract!Exists, Given
    <3>3. QED
      BY <2>1, <3>2 DEF Abstract!Next
  <2>4. CASE Goto(c, "request") /\ UNCHANGED answer
    BY <1>1, <1>5, <2>1, <2>4 DEF Given, Shape, Head
  <2>5. QED
    BY <1>5, <2>2, <2>3, <2>4 DEF Head
<1>6. CASE Receive(c)
  BY <1>1, <1>6 DEF Receive, Given, Shape
<1>7. CASE NextPage(c)
  <2>1. /\ call[c] # NoObject /\ call[c].op = "list" /\ pc[c] = "page"
        /\ UNCHANGED <<objects, call, seen, reply>>
    BY <1>7 DEF NextPage, Progress
  <2>2. CASE Answer(c, "ok")
    <3>1. Given'[c] = "ok"
      BY <2>2 DEF Given, Shape
    <3>2. Abstract!List(c)
      BY <1>1, <2>1, <3>1 DEF Abstract!List, Abstract!Calling, Given
    <3>3. QED
      BY <2>1, <3>2 DEF Abstract!Next, Abstract!Perform
  <2>3. CASE Answer(c, "error")
    <3>1. Given'[c] = "error"
      BY <2>3 DEF Given, Shape
    <3>2. Abstract!Fail(c)
      BY <1>1, <2>1, <3>1 DEF Abstract!Fail, Given
    <3>3. QED
      BY <2>1, <3>2 DEF Abstract!Next
  <2>4. CASE UNCHANGED <<pc, answer>>
    BY <1>1, <2>1, <2>4 DEF Given
  <2>5. QED
    BY <1>7, <2>2, <2>3, <2>4 DEF NextPage
<1>8. CASE Repeat(c)
  BY <1>1, <1>8 DEF Repeat, Given, Shape
<1>9. CASE GiveUp(c)
  <2>1. /\ call[c] # NoObject
        /\ UNCHANGED <<objects, call, seen>>
        /\ Given'[c] = "error"
    BY <1>9 DEF GiveUp, Progress, Given, Shape
  <2>2. Abstract!Fail(c)
    BY <1>1, <2>1 DEF Abstract!Fail, Given
  <2>3. QED
    BY <2>1, <2>2 DEF Abstract!Next
<1>10. QED
  BY <1>2, <1>3, <1>4, <1>5, <1>6, <1>7, <1>8, <1>9

\* The requests that the bucket serves.
LEMMA BucketSteps ==
  ASSUME Shape, Progress, Shape', NEW c \in Clients,
         \/ ServePut(c) \/ ServeCopy(c) \/ ServeDelete(c)
         \/ ServeDeleteIfMatch(c) \/ ServeGet(c)
  PROVE  Abstract!Next
<1>1. Abstract!Answer(c, Given'[c])
  BY OneAnswer DEF Advance
<1>2. /\ pc[c] = "request" /\ call[c] # NoObject
      /\ UNCHANGED <<call, seen>>
      /\ pc' = [pc EXCEPT ![c] = "reply"]
  BY DEF ServePut, ServeCopy, ServeDelete, ServeDeleteIfMatch, ServeGet, At,
         Reply, Goto, Unchanged, Progress
<1>3. ASSUME NEW r, Reply(c, r)
      PROVE  Abstract!Answer(c, r)
  BY <1>1, <1>2, <1>3 DEF Reply, Given, Shape, Abstract!Answer
<1> USE DEF At, Write, Abstract!Answer, Abstract!Calling, Abstract!Exists, Exists
<1>4. CASE ServePut(c)
  <2>1. CASE call[c].guarded /\ Exists(call[c].key)
    <3>1. Abstract!Refuse(c)
      BY <1>2, <1>3, <1>4, <2>1 DEF ServePut, Abstract!Refuse, Given
    <3>2. QED
      BY <1>2, <3>1 DEF Abstract!Next
  <2>2. CASE call[c].guarded /\ ~Exists(call[c].key)
    <3>1. Abstract!PutWrites(c)
      BY <1>2, <1>3, <1>4, <2>2
      DEF ServePut, Abstract!PutWrites, Stored, Abstract!Stored, Given
    <3>2. QED
      BY <1>2, <3>1 DEF Abstract!Next, Abstract!Perform
  <2>3. CASE ~call[c].guarded
    <3>1. Abstract!PutAgain(c)
      BY <1>2, <1>3, <1>4, <2>3
      DEF ServePut, Abstract!PutAgain, Stored, Abstract!Stored, Given
    <3>2. QED
      BY <1>2, <3>1 DEF Abstract!Next
  <2>4. QED
    BY <2>1, <2>2, <2>3
<1>5. CASE ServeCopy(c)
  <2> DEFINE o == objects[call[c].source]
  <2>1. CASE o = NoObject /\ Reply(c, "notFound") /\ UNCHANGED objects
    <3>1. Abstract!CopyRefused(c)
      BY <1>2, <1>3, <1>5, <2>1 DEF ServeCopy, Abstract!CopyRefused, Given
    <3>2. QED
      BY <1>2, <3>1 DEF Abstract!Next, Abstract!Perform
  <2>2. CASE /\ o # NoObject /\ call[c].etag \notin {NoObject, o.tag}
             /\ Reply(c, "conflict") /\ UNCHANGED objects
    <3>1. Abstract!CopyRefused(c)
      BY <1>2, <1>3, <1>5, <2>2
      DEF ServeCopy, Abstract!CopyRefused, Abstract!Mismatch, Given
    <3>2. QED
      BY <1>2, <3>1 DEF Abstract!Next, Abstract!Perform
  <2>3. CASE /\ call[c].guarded /\ Exists(call[c].key)
             /\ Reply(c, "conflict") /\ UNCHANGED objects
    <3>1. Abstract!Refuse(c)
      BY <1>2, <1>3, <1>5, <2>3 DEF ServeCopy, Abstract!Refuse, Given
    <3>2. QED
      BY <1>2, <3>1 DEF Abstract!Next
  <2>4. CASE /\ o # NoObject
             /\ call[c].etag \in {NoObject, o.tag}
             /\ ~(call[c].guarded /\ Exists(call[c].key))
             /\ Write(call[c].key, Stored(o.body))
             /\ Reply(c, "ok")
    <3>1. Abstract!CopyAgain(c)
      BY <1>2, <1>3, <1>5, <2>4
      DEF ServeCopy, Abstract!CopyAgain, Abstract!Mismatch, Stored,
          Abstract!Stored, Given
    <3>2. QED
      BY <1>2, <3>1 DEF Abstract!Next
  <2>5. QED
    BY <1>5, <2>1, <2>2, <2>3, <2>4 DEF ServeCopy
<1>6. CASE ServeDelete(c)
  <2>1. Abstract!Delete(c)
    BY <1>2, <1>3, <1>6 DEF ServeDelete, Abstract!Delete, Given
  <2>2. QED
    BY <1>2, <2>1 DEF Abstract!Next, Abstract!Perform
<1>7. CASE ServeDeleteIfMatch(c)
  <2>1. CASE ~Exists(call[c].key)
    <3>1. Abstract!DeleteNothing(c)
      BY <1>2, <1>3, <1>7, <2>1 DEF ServeDeleteIfMatch, Abstract!DeleteNothing, Given
    <3>2. QED
      BY <1>2, <3>1 DEF Abstract!Next
  <2>2. CASE Exists(call[c].key)
    <3>1. Abstract!DeleteIfMatch(c)
      BY <1>2, <1>3, <1>7, <2>2 DEF ServeDeleteIfMatch, Abstract!DeleteIfMatch, Given
    <3>2. QED
      BY <1>2, <3>1 DEF Abstract!Next, Abstract!Perform
  <2>3. QED
    BY <2>1, <2>2
<1>8. CASE ServeGet(c)
  <2>1. Abstract!Read(c)
    BY <1>2, <1>3, <1>8 DEF ServeGet, Abstract!Read, Given
  <2>2. QED
    BY <1>2, <2>1 DEF Abstract!Next, Abstract!Perform
<1>9. QED
  BY <1>4, <1>5, <1>6, <1>7, <1>8

\* S3Store promises what ObjectStore lists, whatever clients do to the bucket
\* between two requests and whatever requests are repeated or fail.
THEOREM StoreRefinement == Spec => ImplementsObjectStore
<1>1. Init => Abstract!Init
  BY DEF Init, Abstract!Init
<1>2. Shape /\ Progress /\ Shape' /\ [Next]_vars => [Abstract!Next]_(Abstract!storeVars)
  <2> SUFFICES ASSUME Shape, Progress, Shape', [Next]_vars
               PROVE  Abstract!Next \/ UNCHANGED <<objects, call, Given, seen>>
    BY DEF Abstract!storeVars, Given
  <2>1. CASE UNCHANGED vars
    BY <2>1 DEF vars, Given
  <2>2. ASSUME NEW c \in Clients,
               Begin(c) \/ Advance(c) \/ Repeat(c) \/ GiveUp(c)
        PROVE  Abstract!Next \/ UNCHANGED <<objects, call, Given, seen>>
    BY <2>2, ClientSteps, BucketSteps DEF Advance
  <2>3. QED
    BY <2>1, <2>2 DEF Next
<1>3. QED
  BY <1>1, <1>2, InvHolds, PTL DEF Spec, ImplementsObjectStore, Abstract!Spec

---------------------------------------------------------------------------
(* Pages *)

\* A set of natural numbers has a least element.
LEMMA LeastNat ==
  ASSUME NEW S, S \subseteq Nat, S # {}
  PROVE  \E n \in S : \A m \in S : n <= m
<1> DEFINE R == {ss \in Nat \X Nat : ss[1] < ss[2]}
<1>1. IsWellFoundedOn(R, Nat)
  BY NatLessThanWellFounded DEF OpToRel
<1> HIDE DEF R
<1>2. PICK n \in S : \A m \in S : <<m, n>> \notin R
  BY <1>1, WFMin, Zenon
<1>3. ASSUME NEW m \in S PROVE n <= m
  <2>1. \A x, y \in Nat : x < y => <<x, y>> \in R
    BY DEF R
  <2>2. <<m, n>> \notin R
    BY <1>2
  <2>3. QED
    BY <2>1, <2>2
<1>4. QED
  BY <1>2, <1>3

\* A bounded set of natural numbers has a greatest element.
LEMMA GreatestNat ==
  ASSUME NEW S, S \subseteq Nat, S # {}, NEW b \in Nat, \A n \in S : n <= b
  PROVE  Max(S) \in S /\ \A n \in S : n <= Max(S)
<1> DEFINE Bounds == {u \in Nat : \A n \in S : n <= u}
<1>1. PICK u \in Bounds : \A v \in Bounds : u <= v
  <2>1. Bounds \subseteq Nat /\ Bounds # {}
    OBVIOUS
  <2> HIDE DEF Bounds
  <2>2. QED
    BY <2>1, LeastNat
<1>2. u \in S
  <2>1. SUFFICES ASSUME u \notin S PROVE FALSE
    OBVIOUS
  <2>2. \A n \in S : n <= u - 1
    BY <1>1, <2>1
  <2>3. u - 1 \in Bounds
    <3>1. PICK n : n \in S
      OBVIOUS
    <3>2. u \in Nat /\ n \in Nat /\ n <= u /\ n # u
      BY <1>1, <2>1, <3>1
    <3>3. u - 1 \in Nat
      BY <3>2
    <3>4. QED
      BY <2>2, <3>3
  <2>4. QED
    BY <1>1, <2>3
<1>3. \E x \in S : \A y \in S : x >= y
  BY <1>1, <1>2
<1>4. QED
  BY <1>3 DEF Max

\* Of two keys, fewer keys remain before the smaller one.
LEMMA FewerBefore ==
  ASSUME NEW c \in Clients, NEW k \in Remaining(c), NEW m \in Remaining(c), k <= m
  PROVE  /\ Cardinality({l \in Remaining(c) : l < k}) \in Nat
         /\ Cardinality({l \in Remaining(c) : l < m}) \in Nat
         /\ Cardinality({l \in Remaining(c) : l < k})
              <= Cardinality({l \in Remaining(c) : l < m})
<1> DEFINE Before(n) == {l \in Remaining(c) : l < n}
<1>1. Remaining(c) \subseteq Nat
  BY StoreAssumption DEF Remaining, Present
<1>2. Before(k) \subseteq Before(m) /\ Before(m) \subseteq 0..m /\ m \in Nat
  BY <1>1
<1>3. IsFiniteSet(0..m)
  BY <1>2, FS_Interval
<1> HIDE DEF Before
<1>4. IsFiniteSet(Before(m)) /\ IsFiniteSet(Before(k))
  BY <1>2, <1>3, FS_Subset
<1>5. Cardinality(Before(k)) <= Cardinality(Before(m))
  BY <1>2, <1>4, FS_Subset
<1>6. Cardinality(Before(k)) \in Nat /\ Cardinality(Before(m)) \in Nat
  BY <1>4, FS_CardinalityType
<1>7. QED
  BY <1>5, <1>6 DEF Before

\* A page is everything that remains up to its last key, and a page that is
\* not the last one has a last key.
LEMMA PageEnds ==
  ASSUME NEW c \in Clients, Truncated(c)
  PROVE  /\ Max(OnPage(c)) \in OnPage(c)
         /\ \A k \in Remaining(c) : k <= Max(OnPage(c)) => k \in OnPage(c)
<1>1. Remaining(c) \subseteq Nat /\ OnPage(c) \subseteq Remaining(c)
  BY StoreAssumption DEF Remaining, Present, OnPage
<1>2. PICK r \in Remaining(c) : r \notin OnPage(c)
  BY <1>1 DEF Truncated
<1>3. ~(Cardinality({l \in Remaining(c) : l < r}) < PageSize)
  BY <1>2 DEF OnPage
<1>4. ASSUME NEW k \in OnPage(c) PROVE k <= r
  <2>1. Cardinality({l \in Remaining(c) : l < k}) < PageSize
    BY DEF OnPage
  <2>2. CASE r <= k
    <3>1. k \in Remaining(c)
      BY <1>1
    <3>2. /\ Cardinality({l \in Remaining(c) : l < r}) \in Nat
          /\ Cardinality({l \in Remaining(c) : l < k}) \in Nat
          /\ Cardinality({l \in Remaining(c) : l < r})
               <= Cardinality({l \in Remaining(c) : l < k})
      BY <2>2, <3>1, FewerBefore
    <3>3. QED
      BY <1>3, <2>1, <3>2, StoreAssumption
  <2>3. QED
    BY <1>1, <2>2
<1>5. OnPage(c) # {}
  <2>1. PICK n \in Remaining(c) : \A m \in Remaining(c) : n <= m
    BY <1>1, <1>2, LeastNat
  <2>2. {l \in Remaining(c) : l < n} = {}
    BY <1>1, <2>1
  <2>3. Cardinality({l \in Remaining(c) : l < n}) = 0
    BY <2>2, FS_EmptySet
  <2>4. n \in OnPage(c)
    BY <2>3, StoreAssumption DEF OnPage
  <2>5. QED
    BY <2>4
<1>6. Max(OnPage(c)) \in OnPage(c)
  BY <1>1, <1>4, <1>5, GreatestNat
<1>7. ASSUME NEW k \in Remaining(c), k <= Max(OnPage(c)) PROVE k \in OnPage(c)
  <2>1. Cardinality({l \in Remaining(c) : l < Max(OnPage(c))}) < PageSize
    BY <1>6 DEF OnPage
  <2>2. Cardinality({l \in Remaining(c) : l < k}) < PageSize
    BY <1>1, <1>6, <1>7, <2>1, FewerBefore, StoreAssumption
  <2>3. QED
    BY <2>2 DEF OnPage
<1>8. QED
  BY <1>6, <1>7

---------------------------------------------------------------------------
(* The types *)

\* What the bucket holds and what the clients saw of it are objects.
LEMMA TypeStep ==
  ASSUME TypeOK, Shape, Progress, NEW c \in Clients,
         Begin(c) \/ Advance(c) \/ Repeat(c) \/ GiveUp(c), Observe
  PROVE  TypeOK'
<1> USE DEF Goto, Answer, Reply, Unchanged, Labels, Replies, At
<1>1. /\ steady' \in [Clients -> SUBSET Keys]
      /\ ever' \in [Clients -> SUBSET Keys]
  BY DEF TypeOK, Observe
<1>2. pc' \in [Clients -> Labels] /\ call' \in [Clients -> Calls \cup {NoObject}]
      /\ reply' \in [Clients -> Replies] /\ answer' \in [Clients -> Replies]
  BY MoverInv DEF Shape
<1>3. CASE Begin(c)
  BY <1>1, <1>2, <1>3 DEF Begin, TypeOK
<1>4. CASE Return(c)
  BY <1>1, <1>2, <1>4, StoreAssumption DEF Return, TypeOK
<1>5. CASE HeadSource(c)
  <2>1. call[c] \in Calls /\ call[c].op = "copy"
    BY <1>5 DEF HeadSource, Progress, TypeOK
  <2>2. objects[call[c].source] \in Objects \cup {NoObject}
    BY <2>1, StoreAssumption DEF TypeOK
  <2>3. QED
    BY <1>1, <1>2, <1>5, <2>2 DEF HeadSource, TypeOK
<1>6. CASE Head(c)
  BY <1>1, <1>2, <1>6 DEF Head, TypeOK
<1>7. CASE ServePut(c)
  <2>1. call[c] \in Calls /\ call[c].op = "put"
    BY <1>7 DEF ServePut, Progress, TypeOK
  <2>2. Stored(call[c].body) \in Objects
    BY <2>1, StoreAssumption DEF Stored, Objects
  <2>3. objects' \in [Keys -> Objects \cup {NoObject}]
    BY <1>7, <2>2 DEF ServePut, Write, TypeOK
  <2>4. QED
    BY <1>1, <1>2, <1>7, <2>3 DEF ServePut, TypeOK
<1>8. CASE ServeCopy(c)
  <2>1. call[c] \in Calls /\ call[c].op = "copy"
    BY <1>8 DEF ServeCopy, Progress, TypeOK
  <2>2. objects[call[c].source] \in Objects \cup {NoObject}
    BY <2>1, StoreAssumption DEF TypeOK
  <2>3. \A o \in Objects : Stored(o.body) \in Objects
    BY DEF Stored, Objects
  <2>4. objects' \in [Keys -> Objects \cup {NoObject}]
    BY <1>8, <2>2, <2>3 DEF ServeCopy, Write, TypeOK
  <2>5. QED
    BY <1>1, <1>2, <1>8, <2>4 DEF ServeCopy, TypeOK
<1>9. CASE ServeDelete(c)
  BY <1>1, <1>2, <1>9 DEF ServeDelete, Write, TypeOK
<1>10. CASE ServeDeleteIfMatch(c)
  <2>1. objects' \in [Keys -> Objects \cup {NoObject}]
    BY <1>10 DEF ServeDeleteIfMatch, Write, TypeOK
  <2>2. QED
    BY <1>1, <1>2, <1>10, <2>1 DEF ServeDeleteIfMatch, TypeOK
<1>11. CASE ServeGet(c)
  BY <1>1, <1>2, <1>11 DEF ServeGet, TypeOK
<1>12. CASE Receive(c)
  BY <1>1, <1>2, <1>12 DEF Receive, TypeOK
<1>13. CASE NextPage(c)
  <2>1. OnPage(c) \subseteq Keys
    BY DEF OnPage, Remaining, Present
  <2>2. Truncated(c) => Max(OnPage(c)) \in OnPage(c)
    BY PageEnds DEF TypeOK
  <2>3. token' \in [Clients -> Keys \cup {0}]
    BY <1>13, <2>1, <2>2 DEF NextPage, TypeOK
  <2>4. listed' \in [Clients -> SUBSET Keys]
    BY <1>13, <2>1 DEF NextPage, TypeOK
  <2>5. QED
    BY <1>1, <1>2, <1>13, <2>3, <2>4 DEF NextPage, TypeOK
<1>14. CASE Repeat(c)
  <2>1. attempt' \in [Clients -> 1..MaxAttempts]
    BY <1>14, StoreAssumption DEF Repeat, TypeOK
  <2>2. QED
    BY <1>1, <1>2, <1>14, <2>1 DEF Repeat, TypeOK
<1>15. CASE GiveUp(c)
  BY <1>1, <1>2, <1>15 DEF GiveUp, TypeOK
<1>16. QED
  BY <1>3, <1>4, <1>5, <1>6, <1>7, <1>8, <1>9, <1>10, <1>11, <1>12, <1>13,
     <1>14, <1>15 DEF Advance

\* The bucket and its clients keep their types, for any number of clients and
\* keys and any page size.
THEOREM StoreTypes == Spec => []TypeOK
<1>1. Init => TypeOK
  <2> SUFFICES ASSUME Init PROVE TypeOK
    OBVIOUS
  <2>1. \A b \in Bodies : Stored(b) \in Objects /\ [body |-> b, tag |-> Foreign] \in Objects
    BY DEF Stored, Objects
  <2> DEFINE First == {NoObject} \cup {Stored(b) : b \in Bodies}
                        \cup {[body |-> b, tag |-> Foreign] : b \in Bodies}
  <2>2. objects \in [Keys -> Objects \cup {NoObject}]
    <3>1. First \subseteq Objects \cup {NoObject}
      BY <2>1
    <3>2. objects \in [Keys -> First]
      BY DEF Init
    <3> HIDE DEF First
    <3>3. QED
      BY <3>1, <3>2
  <2>3. QED
    BY <2>2, StoreAssumption DEF Init, TypeOK, Labels, Replies
<1>2. TypeOK /\ Shape /\ Progress /\ [Next]_vars => TypeOK'
  <2>1. CASE UNCHANGED vars
    BY <2>1 DEF vars, TypeOK
  <2>2. QED
    BY <2>1, TypeStep DEF Next
<1>3. QED
  BY <1>1, <1>2, InvHolds, PTL DEF Spec

---------------------------------------------------------------------------
(* Listings *)

\* What client d has listed so far: everything up to its token that has been
\* there all along, and nothing that was never there.
Covered(d) ==
  /\ listed[d] \subseteq ever[d]
  /\ \A k \in steady[d] : k <= token[d] => k \in listed[d]

\* Only a listing asks for pages, and it does nothing else; it ends well only
\* when no key is left.
Paging(d) ==
  /\ pc[d] = "idle" => listed[d] = {} /\ token[d] = 0
  /\ pc[d] \in {"head", "request", "reply"} => call[d].op # "list"
  /\ pc[d] = "page" /\ call[d].op = "list" => Covered(d)
  /\ At(d, "return", "list") /\ answer[d] = "ok" =>
       steady[d] \subseteq listed[d] /\ listed[d] \subseteq ever[d]

Listings == \A d \in Clients : Paging(d)

\* While a listing goes on, what was there all along is what is still there,
\* and what was there at some moment includes what is there now.
LEMMA Observed ==
  ASSUME Observe, NEW d \in Clients,
         call'[d] # NoObject, call'[d].op = "list", pc[d] # "idle"
  PROVE  /\ steady'[d] = steady[d] \cap Present'
         /\ ever'[d] = ever[d] \cup Present'
  BY DEF Observe, Present, Exists

\* The steps of other clients do not change what a client has listed.
LEMMA OthersListings ==
  ASSUME TypeOK, Shape, Progress, Listings, NEW c \in Clients,
         Begin(c) \/ Advance(c) \/ Repeat(c) \/ GiveUp(c), Observe,
         NEW d \in Clients \ {c}
  PROVE  Paging(d)'
<1>1. /\ pc'[d] = pc[d] /\ call'[d] = call[d] /\ answer'[d] = answer[d]
  BY OwnStep
<1>2. listed'[d] = listed[d] /\ token'[d] = token[d]
  BY DEF TypeOK, Advance, Begin, Return, HeadSource, Head, ServePut, ServeCopy,
         ServeDelete, ServeDeleteIfMatch, ServeGet, Receive, NextPage, Repeat,
         GiveUp, Unchanged
<1>3. Paging(d)
  BY DEF Listings
<1>4. CASE pc[d] = "idle" \/ call[d].op # "list"
  BY <1>1, <1>2, <1>3, <1>4 DEF Paging, At
<1>5. CASE pc[d] # "idle" /\ call[d].op = "list"
  <2>1. steady'[d] \subseteq steady[d] /\ ever[d] \subseteq ever'[d]
    BY <1>1, <1>5, Observed DEF Progress
  <2>2. QED
    BY <1>1, <1>2, <1>3, <1>5, <2>1 DEF Paging, At, Covered
<1>6. QED
  BY <1>4, <1>5

\* A page adds the keys up to its last one, and the last page all there are.
LEMMA PageListings ==
  ASSUME TypeOK, Shape, Progress, Listings, NEW c \in Clients,
         NextPage(c), Observe
  PROVE  Paging(c)'
<1> DEFINE page == OnPage(c)
<1>1. /\ call'[c] = call[c] /\ call[c] # NoObject /\ call[c].op = "list"
      /\ pc[c] = "page" /\ objects' = objects
      /\ listed'[c] = listed[c] \cup page
  BY DEF NextPage, At, Progress, TypeOK
<1>2. /\ steady'[c] = steady[c] \cap Present
      /\ ever'[c] = ever[c] \cup Present
  BY <1>1, Observed DEF Present, Exists
<1>3. Covered(c)
  BY <1>1 DEF Listings, Paging
<1>4. page \subseteq Remaining(c) /\ Remaining(c) \subseteq Present
  BY DEF OnPage, Remaining
<1>5. listed'[c] \subseteq ever'[c]
  BY <1>1, <1>2, <1>3, <1>4 DEF Covered
<1>6. token[c] \in Nat /\ Present \subseteq Nat
  <2>1. token[c] \in Keys \cup {0} /\ Present \subseteq Keys
    BY DEF TypeOK, Present
  <2>2. Keys \subseteq Nat
    BY StoreAssumption
  <2>3. token[c] = 0 => token[c] \in Nat
    OBVIOUS
  <2>4. token[c] \in Keys => token[c] \in Nat
    BY <2>2, Zenon
  <2>5. Present \subseteq Nat
    BY <2>1, <2>2, Zenon
  <2>6. token[c] = 0 \/ token[c] \in Keys
    BY <2>1, Zenon
  <2>7. QED
    BY <2>3, <2>4, <2>5, <2>6, Zenon
<1>7. CASE ~Truncated(c) /\ Answer(c, "ok") /\ UNCHANGED token
  <2>1. pc'[c] = "return" /\ answer'[c] = "ok"
    BY <1>7 DEF Answer, Goto, Shape
  <2>2. steady'[c] \subseteq listed'[c]
    <3>1. ASSUME NEW k \in steady'[c] PROVE k \in listed'[c]
      <4>1. k \in steady[c] /\ k \in Present
        BY <1>2
      <4>2. CASE k <= token[c]
        BY <1>1, <1>3, <4>1, <4>2 DEF Covered
      <4>3. CASE k > token[c]
        BY <1>1, <1>7, <4>1, <4>3 DEF Truncated, Remaining
      <4>4. QED
        BY <1>6, <4>1, <4>2, <4>3
    <3>2. QED
      BY <3>1
  <2>3. QED
    BY <1>1, <1>5, <2>1, <2>2 DEF Paging, At
<1>8. CASE /\ Truncated(c)
           /\ token' = [token EXCEPT ![c] = Max(OnPage(c))]
           /\ UNCHANGED <<pc, answer>>
  <2>1. token'[c] = Max(page)
    BY <1>8 DEF TypeOK
  <2>2. /\ Max(page) \in page
        /\ \A k \in Remaining(c) : k <= Max(page) => k \in page
    BY <1>8, PageEnds
  <2>3. ASSUME NEW k \in steady'[c], k <= token'[c] PROVE k \in listed'[c]
    <3>1. k \in steady[c] /\ k \in Present
      BY <1>2
    <3>2. CASE k <= token[c]
      BY <1>1, <1>3, <3>1, <3>2 DEF Covered
    <3>3. CASE k > token[c]
      BY <1>1, <2>1, <2>2, <2>3, <3>1, <3>3 DEF Remaining
    <3>4. QED
      BY <1>6, <3>1, <3>2, <3>3
  <2>4. QED
    BY <1>1, <1>5, <1>8, <2>3 DEF Paging, At, Covered
<1>9. CASE Answer(c, "error")
  BY <1>1, <1>9 DEF Answer, Goto, Shape, Paging, At
<1>10. QED
  BY <1>7, <1>8, <1>9 DEF NextPage

\* A listing begins with nothing listed and makes no request but for pages.
LEMMA OwnListings ==
  ASSUME TypeOK, Shape, Progress, Listings, NEW c \in Clients,
         Begin(c) \/ Advance(c) \/ Repeat(c) \/ GiveUp(c), Observe
  PROVE  Paging(c)'
<1> USE DEF Goto, Answer, Reply, Unchanged, At, Shape
<1>1. Paging(c)
  BY DEF Listings
<1>2. CASE Begin(c)
  <2>1. PICK k \in CallsOf[c] : call' = [call EXCEPT ![c] = k]
                                /\ Goto(c, FirstRequest(k.op))
    BY <1>2 DEF Begin
  <2>2. pc'[c] = FirstRequest(k.op) /\ call'[c] = k
    BY <2>1
  <2>3. /\ FirstRequest(k.op) \in {"head", "source", "page", "request"}
        /\ FirstRequest(k.op) \in {"head", "request"} => k.op # "list"
    BY DEF FirstRequest
  <2>4. listed'[c] = {} /\ token'[c] = 0
    BY <1>1, <1>2 DEF Begin, Paging
  <2>5. steady'[c] \subseteq Nat \ {0}
    BY StoreAssumption DEF Observe, TypeOK
  <2>6. QED
    BY <2>2, <2>3, <2>4, <2>5 DEF Paging, Covered
<1>3. CASE Return(c)
  BY <1>3 DEF Return, Paging, TypeOK
<1>4. CASE HeadSource(c)
  BY <1>1, <1>4 DEF HeadSource, Paging
<1>5. CASE Head(c)
  BY <1>1, <1>5 DEF Head, Paging
<1>6. CASE \/ ServePut(c) \/ ServeCopy(c) \/ ServeDelete(c)
           \/ ServeDeleteIfMatch(c) \/ ServeGet(c)
  <2>1. pc[c] = "request" /\ pc'[c] = "reply" /\ call' = call
    BY <1>6 DEF ServePut, ServeCopy, ServeDelete, ServeDeleteIfMatch, ServeGet
  <2>2. QED
    BY <1>1, <2>1 DEF Paging
<1>7. CASE Receive(c)
  BY <1>1, <1>7 DEF Receive, Paging
<1>8. CASE NextPage(c)
  BY <1>8, PageListings
<1>9. CASE Repeat(c)
  BY <1>1, <1>9 DEF Repeat, Paging
<1>10. CASE GiveUp(c)
  BY <1>1, <1>10 DEF GiveUp, Paging
<1>11. QED
  BY <1>2, <1>3, <1>4, <1>5, <1>6, <1>7, <1>8, <1>9, <1>10 DEF Advance

\* A listing that succeeds holds every key that was there throughout, and none
\* that was never there, for any number of keys, clients and pages: the token
\* of a page stands for everything up to its last key.
THEOREM ListingsComplete == Spec => []ListComplete
<1>1. Init => Listings
  BY DEF Init, Listings, Paging, At
<1>2. TypeOK /\ Shape /\ Progress /\ Listings /\ [Next]_vars => Listings'
  <2> SUFFICES ASSUME TypeOK, Shape, Progress, Listings, [Next]_vars
               PROVE  Listings'
    OBVIOUS
  <2>1. CASE UNCHANGED vars
    BY <2>1 DEF vars, Listings, Paging, At, Covered
  <2>2. ASSUME NEW c \in Clients,
               Begin(c) \/ Advance(c) \/ Repeat(c) \/ GiveUp(c), Observe
        PROVE  Listings'
    <3>1. Paging(c)'
      BY <2>2, OwnListings
    <3>2. \A d \in Clients \ {c} : Paging(d)'
      BY <2>2, OthersListings
    <3>3. QED
      BY <3>1, <3>2 DEF Listings
  <2>3. QED
    BY <2>1, <2>2 DEF Next
<1>3. Listings => ListComplete
  BY DEF Listings, Paging, ListComplete
<1>4. QED
  BY <1>1, <1>2, <1>3, InvHolds, StoreTypes, PTL DEF Spec
=============================================================================
