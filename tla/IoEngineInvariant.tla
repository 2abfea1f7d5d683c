-------------------------- MODULE IoEngineInvariant --------------------------
(***************************************************************************)
(* The inductive invariant of the I/O engine, and its preservation by      *)
(* submit, cancel and the steps that answer a request.  Any number of      *)
(* requests, chunks, sources and queue depths, any mirrors and failures.   *)
(***************************************************************************)
EXTENDS IoEngine, FiniteSetTheorems, SequenceTheorems, TLAPS

\* Reads can fail: a source fails, or a keep-alive poke fills the backend's ring.
ReadsMayFail(c) == c.failing # {} \/ c.keepAlive

\* No caller cancels a request that a mirror may serve where reads can fail. finish
\* resets a failed mirror read without the lock, while the request may still be in
\* its queue: a cancel that comes then finds nothing issued, takes the request out
\* and answers it, and finish queues it again.
NoCancelOfRetried == \A c \in Configs : ReadsMayFail(c) => c.cancels \cap Mirrored = {}

-----------------------------------------------------------------------------
(* The inductive invariant *)

Fields == {"source", "routed", "primary", "mask", "chunkSrc", "charged", "next", "issued",
           "done", "failed", "srcErr"}
Settling == {"finish", "requeue", "callback", "settle"}

\* The parts of the state the argument is about have their types.
IoTypes ==
    /\ st \in [Reqs -> Stage]
    /\ calls \in [Reqs -> Nat]
    /\ disp = [pc |-> disp.pc, req |-> disp.req]
    /\ disp.pc \in Settling \cup {"loop", "exit"}
    /\ disp.pc \in Settling => disp.req \in Reqs
    /\ queue \in [Priority -> Seq(Reqs)]
    /\ p = [r \in Reqs |-> p[r]]
    /\ \A r \in Reqs :
          /\ p[r] = [k \in Fields |-> p[r][k]]
          /\ p[r].next \in 0 .. Chunks[r] /\ p[r].issued \in Nat /\ p[r].done \in Nat
    /\ IsFiniteSet(flying)

\* A queue holds live requests of its class, each once, and possibly settled ones
\* with nothing left to issue.
Belongs(r, c) ==
    Class[r] = c /\ (st[r] = "live" \/ (st[r] = "over" /\ FullyIssued(r)))

QueueSound ==
    \A c \in Priority :
       /\ \A i \in DOMAIN queue[c] : Belongs(queue[c][i], c)
       /\ \A i, j \in DOMAIN queue[c] : queue[c][i] = queue[c][j] => i = j

\* A chunk in flight belongs to a live request and was issued.
FlyingSound ==
    \A f \in flying :
       /\ f.req \in Reqs /\ st[f.req] = "live"
       /\ f.chunk \in 1 .. p[f.req].next

InFlight(r) == {f \in flying : f.req = r}

\* issued_chunks and done_chunks differ by the chunks in flight.
ChunksCounted ==
    \A r \in Reqs : p[r].issued = p[r].done + Cardinality(InFlight(r))

LiveReqs == {r \in Reqs : st[r] = "live"}

\* outstanding_requests_ counts the live requests.
OutstandingExact == outstanding = Cardinality(LiveReqs)

\* The callback has run once for the requests that are over and for the one
\* about to be settled, and for no other.
CalledOnce ==
    \A r \in Reqs :
       calls[r] = IF st[r] = "over" \/ (disp.pc = "settle" /\ disp.req = r) THEN 1 ELSE 0

\* The request being finished is live and none of its chunks is in flight; it is
\* reset only if a mirror served it.
SettlingSound ==
    disp.pc \in Settling =>
       /\ st[disp.req] = "live"
       /\ InFlight(disp.req) = {}
       /\ FullyIssued(disp.req) \/ (disp.pc = "requeue" /\ disp.req \in Mirrored)

\* Only a request every source holds is given a mirror.
MirroredOnly ==
    \A r \in Reqs : p[r].primary = TRUE \/ p[r].mask # {} => r \in Mirrored

\* Where reads cannot fail none has, and nothing is read twice.
NoneFailed ==
    /\ conf \in Configs
    /\ ~ReadsMayFail(conf) =>
          /\ poke = {} /\ disp.pc # "requeue"
          /\ \A f \in flying : ~f.refused
          /\ \A r \in Reqs : ~p[r].failed

IoInv ==
    /\ IoTypes
    /\ QueueSound
    /\ FlyingSound
    /\ ChunksCounted
    /\ OutstandingExact
    /\ CalledOnce
    /\ SettlingSound
    /\ MirroredOnly

-----------------------------------------------------------------------------
(* Steps that leave a request's progress alone *)

core == <<st, p, queue, flying, outstanding, calls, disp>>

\* The drives' health, the keep-alive, the watcher and time touch none of it.
LEMMA CoreKept ==
    ASSUME IoInv, UNCHANGED core
    PROVE  IoInv'
<1> USE DEF IoInv, core
<1>1. IoTypes'
  BY DEF IoTypes
<1>2. QueueSound'
  BY DEF QueueSound, Belongs, FullyIssued
<1>3. FlyingSound' /\ ChunksCounted'
  BY DEF FlyingSound, ChunksCounted, InFlight
<1>4. OutstandingExact' /\ CalledOnce' /\ MirroredOnly'
  BY DEF OutstandingExact, LiveReqs, CalledOnce, MirroredOnly
<1>5. SettlingSound'
  BY DEF SettlingSound, InFlight, FullyIssued
<1> QED BY <1>1, <1>2, <1>3, <1>4, <1>5

\* A new Pending has every field.
LEMMA BlankShape == Blank = [k \in Fields |-> Blank[k]]
BY ZenonT(30) DEF Blank, Fields

\* The live requests are finitely many, fewer than the counter can hold.
LEMMA LiveBound ==
    ASSUME IoInv
    PROVE  /\ IsFiniteSet(LiveReqs)
           /\ Cardinality(LiveReqs) \in Nat
           /\ Cardinality(LiveReqs) <= Cardinality(Reqs)
           /\ Cardinality(Reqs) \in Nat
<1>1. LiveReqs \in SUBSET Reqs
  BY DEF LiveReqs
<1> QED BY <1>1, FS_Subset, FS_CardinalityType, IoAssumption

\* What submit has not queued yet is in no queue, has no chunk in flight and is
\* not being finished; nor is a cancelled request.
LEMMA Unqueued ==
    ASSUME IoInv, NEW r \in Reqs, st[r] \notin {"live", "over"}
    PROVE  /\ \A c \in Priority : \A i \in DOMAIN queue[c] : queue[c][i] # r
           /\ InFlight(r) = {}
           /\ disp.pc \in Settling => disp.req # r
           /\ calls[r] = 0
<1> USE DEF IoInv
<1>1. \A c \in Priority : \A i \in DOMAIN queue[c] : queue[c][i] # r
  BY DEF QueueSound, Belongs
<1>2. InFlight(r) = {}
  BY DEF FlyingSound, InFlight
<1>3. disp.pc \in Settling => disp.req # r
  BY DEF SettlingSound
<1>4. calls[r] = 0
  BY <1>3 DEF CalledOnce, Settling
<1> QED BY <1>1, <1>2, <1>3, <1>4

\* A step of submit before the request is queued: the request moves on to s and
\* its Pending is v.
SubmitMove(r, v, s) ==
    /\ st[r] \in {"new", "routed"} /\ s \in {"routed", "striped", "refused"}
    /\ st' = [st EXCEPT ![r] = s]
    /\ p' = [p EXCEPT ![r] = v]
    /\ v = [k \in Fields |-> v[k]]
    /\ v.next \in 0 .. Chunks[r] /\ v.issued \in Nat /\ v.done = v.issued
    /\ v.primary = TRUE \/ v.mask # {} => r \in Mirrored
    /\ UNCHANGED <<queue, flying, outstanding, calls, disp>>

\* It disturbs nothing.
LEMMA SubmitMoves ==
    ASSUME IoInv, NEW r \in Reqs, NEW v, NEW s, SubmitMove(r, v, s)
    PROVE  IoInv'
<1> USE DEF IoInv, SubmitMove
<1>1. /\ \A c \in Priority : \A i \in DOMAIN queue[c] : queue[c][i] # r
      /\ InFlight(r) = {}
      /\ disp.pc \in Settling => disp.req # r
      /\ calls[r] = 0
  BY Unqueued
<1>2. p' = [q \in Reqs |-> IF q = r THEN v ELSE p[q]]
  BY ZenonT(30) DEF IoTypes
<1>3. st' = [q \in Reqs |-> IF q = r THEN s ELSE st[q]]
  BY ZenonT(30) DEF IoTypes
<1>4. IoTypes'
  <2>1. \A q \in Reqs :
           /\ p'[q] = [k \in Fields |-> p'[q][k]]
           /\ p'[q].next \in 0 .. Chunks[q] /\ p'[q].issued \in Nat /\ p'[q].done \in Nat
    BY <1>2 DEF IoTypes
  <2>2. p' = [q \in Reqs |-> p'[q]]
    BY ZenonT(30), <1>2
  <2>3. st' \in [Reqs -> Stage]
    BY DEF IoTypes, Stage
  <2> QED BY ZenonT(30), <2>1, <2>2, <2>3 DEF IoTypes
<1>5. \A q \in Reqs : q # r => FullyIssued(q)' = FullyIssued(q)
  BY <1>2 DEF FullyIssued
<1>6. QueueSound'
  BY <1>1, <1>3, <1>5 DEF QueueSound, Belongs, IoTypes
<1>7. FlyingSound'
  BY <1>1, <1>2, <1>3 DEF FlyingSound, InFlight
<1>8. ChunksCounted'
  <2>1. \A q \in Reqs : InFlight(q)' = InFlight(q)
    BY DEF InFlight
  <2>2. v.issued = v.done + Cardinality(InFlight(r))
    BY <1>1, FS_EmptySet
  <2> QED BY <1>2, <2>1, <2>2 DEF ChunksCounted
<1>9. OutstandingExact'
  <2>1. LiveReqs' = LiveReqs
    BY <1>3 DEF LiveReqs
  <2> QED BY <2>1 DEF OutstandingExact
<1>10. CalledOnce'
  BY <1>1, <1>3 DEF CalledOnce, Settling
<1>11. SettlingSound'
  BY <1>1, <1>3, <1>5 DEF SettlingSound, InFlight, IoTypes
<1>12. MirroredOnly'
  BY <1>2 DEF MirroredOnly
<1> QED BY ZenonT(30), <1>4, <1>6, <1>7, <1>8, <1>9, <1>10, <1>11, <1>12

\* submit up to the queue: routing, striping and the two rejections.
LEMMA SubmitKeeps ==
    ASSUME IoInv, NEW r \in Reqs,
           SubmitRoute(r) \/ SubmitNoDst(r) \/ SubmitReject(r) \/ SubmitStripe(r)
    PROVE  IoInv'
<1>1. /\ p[r] = [k \in Fields |-> p[r][k]] /\ p = [q \in Reqs |-> p[q]]
      /\ p[r].next \in 0 .. Chunks[r] /\ p[r].issued \in Nat
      /\ p[r].primary = TRUE \/ p[r].mask # {} => r \in Mirrored
  BY DEF IoInv, IoTypes, MirroredOnly
<1>2. st[r] \in {"new", "routed"} => p[r].done = p[r].issued
  <2>1. st[r] \in {"new", "routed"} => InFlight(r) = {}
    BY Unqueued
  <2>2. p[r].issued = p[r].done + Cardinality(InFlight(r)) /\ p[r].done \in Nat
    BY DEF IoInv, ChunksCounted, IoTypes
  <2> QED BY <2>1, <2>2, FS_EmptySet
<1>3. CASE SubmitRoute(r)
  <2>1. /\ st[r] = "new" /\ st' = [st EXCEPT ![r] = "routed"]
        /\ UNCHANGED <<queue, flying, outstanding, calls, disp>>
    BY <1>3 DEF SubmitRoute
  <2>2. CASE UNCHANGED p
    <3>1. p' = [p EXCEPT ![r] = p[r]]
      BY <1>1, <2>2
    <3>2. SubmitMove(r, p[r], "routed")
      BY ZenonT(30), <1>1, <1>2, <2>1, <3>1 DEF SubmitMove
    <3> QED BY <3>2, SubmitMoves
  <2>3. CASE \E mask : r \in Mirrored /\ p' = [p EXCEPT ![r] = [@ EXCEPT !.mask = mask]]
    <3>1. PICK mask : r \in Mirrored /\ p' = [p EXCEPT ![r] = [@ EXCEPT !.mask = mask]]
      BY ZenonT(30), <2>3
    <3> DEFINE v == [p[r] EXCEPT !.mask = mask]
    <3>2. /\ p' = [p EXCEPT ![r] = v] /\ v = [k \in Fields |-> v[k]]
          /\ v.next = p[r].next /\ v.issued = p[r].issued /\ v.done = p[r].done
      BY ZenonT(30), <1>1, <3>1 DEF Fields
    <3> HIDE DEF v
    <3>3. SubmitMove(r, v, "routed")
      BY ZenonT(30), <1>1, <1>2, <2>1, <3>1, <3>2 DEF SubmitMove
    <3> QED BY <3>3, SubmitMoves
  <2>4. CASE \E s : /\ r \in Mirrored
                    /\ p' = [p EXCEPT ![r] = [@ EXCEPT !.source = s, !.routed = TRUE,
                                                       !.primary = (s # 0)]]
    <3>1. PICK s : /\ r \in Mirrored
                   /\ p' = [p EXCEPT ![r] = [@ EXCEPT !.source = s, !.routed = TRUE,
                                                      !.primary = (s # 0)]]
      BY ZenonT(30), <2>4
    <3> DEFINE v == [p[r] EXCEPT !.source = s, !.routed = TRUE, !.primary = (s # 0)]
    <3>2. /\ p' = [p EXCEPT ![r] = v] /\ v = [k \in Fields |-> v[k]]
          /\ v.next = p[r].next /\ v.issued = p[r].issued /\ v.done = p[r].done
      BY ZenonT(30), <1>1, <3>1 DEF Fields
    <3> HIDE DEF v
    <3>3. SubmitMove(r, v, "routed")
      BY ZenonT(30), <1>1, <1>2, <2>1, <3>1, <3>2 DEF SubmitMove
    <3> QED BY <3>3, SubmitMoves
  <2> QED BY ZenonT(30), <1>3, <2>2, <2>3, <2>4 DEF SubmitRoute
<1>4. CASE SubmitReject(r)
  <2>1. /\ st[r] = "routed" /\ st' = [st EXCEPT ![r] = "refused"]
        /\ p' = [p EXCEPT ![r] = Blank]
        /\ UNCHANGED <<queue, flying, outstanding, calls, disp>>
    BY <1>4 DEF SubmitReject
  <2>2. /\ Blank.next \in 0 .. Chunks[r] /\ Blank.issued \in Nat /\ Blank.done = Blank.issued
        /\ Blank.primary # TRUE /\ Blank.mask = {}
    BY IoAssumption DEF Blank
  <2>3. SubmitMove(r, Blank, "refused")
    BY ZenonT(30), <2>1, <2>2, BlankShape DEF SubmitMove
  <2> QED BY <2>3, SubmitMoves
<1>5. CASE SubmitStripe(r)
  <2>1. /\ st[r] = "routed" /\ st' = [st EXCEPT ![r] = "striped"] /\ r \in Mirrored
        /\ UNCHANGED <<queue, flying, outstanding, calls, disp>>
    BY ZenonT(30), <1>1, <1>5 DEF SubmitStripe
  <2>2. PICK a, c, o : p' = [p EXCEPT ![r] = [@ EXCEPT !.mask = {}, !.chunkSrc = a,
                                                       !.charged = c, !.primary = o]]
    BY ZenonT(30), <1>5 DEF SubmitStripe
  <2> DEFINE v == [p[r] EXCEPT !.mask = {}, !.chunkSrc = a, !.charged = c, !.primary = o]
  <2>3. /\ p' = [p EXCEPT ![r] = v] /\ v = [k \in Fields |-> v[k]]
        /\ v.next = p[r].next /\ v.issued = p[r].issued /\ v.done = p[r].done
    BY ZenonT(30), <1>1, <2>2 DEF Fields
  <2> HIDE DEF v
  <2>4. SubmitMove(r, v, "striped")
    BY <1>1, <1>2, <2>1, <2>3 DEF SubmitMove
  <2> QED BY <2>4, SubmitMoves
<1>6. CASE SubmitNoDst(r)
  <2>1. /\ st[r] = "routed" /\ st' = [st EXCEPT ![r] = "refused"]
        /\ UNCHANGED <<p, queue, flying, outstanding, calls, disp>>
    BY <1>6 DEF SubmitNoDst
  <2>2. p' = [p EXCEPT ![r] = p[r]]
    BY <1>1, <2>1
  <2>3. SubmitMove(r, p[r], "refused")
    BY ZenonT(30), <1>1, <1>2, <2>1, <2>2 DEF SubmitMove
  <2> QED BY <2>3, SubmitMoves
<1> QED BY ZenonT(30), <1>3, <1>4, <1>5, <1>6

-----------------------------------------------------------------------------
(* Queueing and cancelling *)

\* A sequence without its nth element.
LEMMA CutOne ==
    ASSUME NEW S, NEW q \in Seq(S), NEW n \in 1 .. Len(q)
    PROVE  LET t == SubSeq(q, 1, n - 1) \o SubSeq(q, n + 1, Len(q))
           IN  /\ t \in Seq(S) /\ Len(t) = Len(q) - 1 /\ DOMAIN t = 1 .. Len(q) - 1
               /\ \A i \in 1 .. Len(q) - 1 : t[i] = IF i < n THEN q[i] ELSE q[i + 1]
<1> DEFINE a == SubSeq(q, 1, n - 1)
           b == SubSeq(q, n + 1, Len(q))
<1>1. PICK m \in Nat : m = Len(q)
  OBVIOUS
<1>2. n \in 1 .. m /\ \A i \in 1 .. m : q[i] \in S
  BY <1>1
<1>3. a \in Seq(S) /\ Len(a) = n - 1 /\ \A i \in 1 .. n - 1 : a[i] = q[i]
  <2>1. \A i \in 1 .. n - 1 : q[i] \in S
    BY <1>2
  <2>2. /\ a \in Seq(S) /\ Len(a) = IF 1 <= n - 1 THEN (n - 1) - 1 + 1 ELSE 0
        /\ \A i \in 1 .. (n - 1) - 1 + 1 : a[i] = q[1 + i - 1]
    BY <1>2, <2>1, SubSeqProperties
  <2> HIDE DEF a
  <2>3. (IF 1 <= n - 1 THEN (n - 1) - 1 + 1 ELSE 0) = n - 1
    BY <1>2
  <2>4. (n - 1) - 1 + 1 = n - 1 /\ \A i \in 1 .. n - 1 : 1 + i - 1 = i
    BY <1>2
  <2> QED BY <2>2, <2>3, <2>4
<1>4. b \in Seq(S) /\ Len(b) = m - n /\ \A i \in 1 .. m - n : b[i] = q[i + n]
  <2>1. \A i \in n + 1 .. m : q[i] \in S
    BY <1>2
  <2>2. /\ b \in Seq(S) /\ Len(b) = IF n + 1 <= m THEN m - (n + 1) + 1 ELSE 0
        /\ \A i \in 1 .. m - (n + 1) + 1 : b[i] = q[n + 1 + i - 1]
    BY <1>1, <1>2, <2>1, SubSeqProperties
  <2> HIDE DEF b
  <2>3. (IF n + 1 <= m THEN m - (n + 1) + 1 ELSE 0) = m - n
    BY <1>2
  <2>4. m - (n + 1) + 1 = m - n /\ \A i \in 1 .. m - n : n + 1 + i - 1 = i + n
    BY <1>2
  <2> QED BY <2>2, <2>3, <2>4
<1> HIDE DEF a, b
<1>5. /\ a \o b \in Seq(S) /\ Len(a \o b) = Len(a) + Len(b)
      /\ \A i \in 1 .. Len(a) + Len(b) :
            (a \o b)[i] = IF i <= Len(a) THEN a[i] ELSE b[i - Len(a)]
  BY ZenonT(30), <1>3, <1>4, ConcatProperties
<1>6. Len(a) + Len(b) = m - 1
  BY <1>2, <1>3, <1>4
<1>7. \A i \in 1 .. m - 1 : (a \o b)[i] = IF i < n THEN q[i] ELSE q[i + 1]
  <2> SUFFICES ASSUME NEW i \in 1 .. m - 1
               PROVE  (a \o b)[i] = IF i < n THEN q[i] ELSE q[i + 1]
    BY ZenonT(30)
  <2>1. (a \o b)[i] = IF i <= n - 1 THEN a[i] ELSE b[i - (n - 1)]
    BY <1>3, <1>5, <1>6
  <2>2. CASE i < n
    <3>1. i \in 1 .. n - 1 /\ i <= n - 1
      BY <1>2, <2>2
    <3> QED BY <1>3, <2>1, <2>2, <3>1
  <2>3. CASE i >= n
    <3>1. i - (n - 1) \in 1 .. m - n /\ (i - (n - 1)) + n = i + 1 /\ ~(i <= n - 1) /\ ~(i < n)
      BY <1>2, <2>3
    <3>2. (a \o b)[i] = b[i - (n - 1)]
      BY <2>1, <3>1
    <3>3. b[i - (n - 1)] = q[i + 1]
      BY <1>4, <3>1
    <3> QED BY <3>1, <3>2, <3>3
  <2>4. i < n \/ i >= n
    BY <1>2
  <2> QED BY ZenonT(30), <2>2, <2>3, <2>4
<1>8. a \o b = SubSeq(q, 1, n - 1) \o SubSeq(q, n + 1, Len(q))
  BY DEF a, b
<1>9. a \o b \in Seq(S) /\ Len(a \o b) = m - 1
  BY <1>5, <1>6
<1>10. DOMAIN (a \o b) = 1 .. m - 1
  BY <1>9
<1> QED BY ZenonT(30), <1>1, <1>7, <1>8, <1>9, <1>10

\* A queue without r: what is left keeps its order, and r is not among it.
LEMMA RemoveFrom ==
    ASSUME NEW q \in Seq(Reqs), NEW r,
           \A i, j \in DOMAIN q : q[i] = q[j] => i = j
    PROVE  /\ Remove(q, r) \in Seq(Reqs)
           /\ \A i \in DOMAIN Remove(q, r) :
                 \E j \in DOMAIN q : q[j] = Remove(q, r)[i] /\ q[j] # r
           /\ \A i, j \in DOMAIN Remove(q, r) : Remove(q, r)[i] = Remove(q, r)[j] => i = j
<1> DEFINE at == {i \in DOMAIN q : q[i] = r}
<1>1. CASE at = {}
  <2>1. Remove(q, r) = q
    BY <1>1 DEF Remove
  <2> QED BY <1>1, <2>1
<1>2. CASE at # {}
  <2> DEFINE n == CHOOSE i \in at : TRUE
             t == SubSeq(q, 1, n - 1) \o SubSeq(q, n + 1, Len(q))
  <2>1. n \in DOMAIN q /\ q[n] = r
    BY <1>2
  <2>2. Remove(q, r) = t
    BY ZenonT(30), <1>2 DEF Remove
  <2> HIDE DEF n
  <2>3. n \in 1 .. Len(q) /\ Len(q) \in Nat /\ DOMAIN q = 1 .. Len(q)
    BY <2>1
  <2>6. /\ t \in Seq(Reqs) /\ Len(t) = Len(q) - 1 /\ DOMAIN t = 1 .. Len(q) - 1
        /\ \A i \in 1 .. Len(q) - 1 : t[i] = IF i < n THEN q[i] ELSE q[i + 1]
    <3>1. n \in 1 .. Len(q)
      BY <2>3
    <3> QED BY <3>1, CutOne, Zenon
  <2> HIDE DEF t
  <2>7. \A i \in DOMAIN t : \E j \in DOMAIN q : q[j] = t[i] /\ j # n
    <3> SUFFICES ASSUME NEW i \in 1 .. Len(q) - 1 PROVE \E j \in DOMAIN q : q[j] = t[i] /\ j # n
      BY ZenonT(30), <2>6
    <3>1. CASE i < n
      <4>1. i \in DOMAIN q /\ i # n
        BY <2>3, <3>1
      <4> QED BY ZenonT(30), <2>6, <3>1, <4>1
    <3>2. CASE ~(i < n)
      <4>1. i + 1 \in DOMAIN q /\ i + 1 # n
        BY <2>3, <3>2
      <4> QED BY ZenonT(30), <2>6, <3>2, <4>1
    <3> QED BY <3>1, <3>2
  <2>8. \A i, j \in DOMAIN t : t[i] = t[j] => i = j
    BY SMTT(30), <2>3, <2>6
  <2> QED BY <2>1, <2>2, <2>3, <2>6, <2>7, <2>8
<1> QED BY <1>1, <1>2

\* What a step must show of the queues it leaves.
LEMMA QueueMoves ==
    ASSUME \A c \in Priority :
              /\ \A i \in DOMAIN queue'[c] : \E q \in Reqs : q = queue'[c][i] /\ Belongs(q, c)'
              /\ \A i, j \in DOMAIN queue'[c] : queue'[c][i] = queue'[c][j] => i = j
    PROVE  QueueSound'
BY DEF QueueSound, Belongs, FullyIssued

\* A small count does not wrap.
LEMMA NoWrap ==
    ASSUME NEW n \in 0 .. Word - 1
    PROVE  n % Word = n
BY IoAssumption

\* One more request is live.
LEMMA CountUp ==
    ASSUME IoInv, NEW r \in Reqs, r \notin LiveReqs,
           LiveReqs' = LiveReqs \cup {r}, outstanding' = (outstanding + 1) % Word
    PROVE  OutstandingExact'
<1>1. LiveReqs \cup {r} \in SUBSET Reqs
  BY DEF LiveReqs
<1>2. /\ Cardinality(LiveReqs \cup {r}) = Cardinality(LiveReqs) + 1
      /\ Cardinality(LiveReqs) \in Nat
  BY ZenonT(30), LiveBound, FS_AddElement
<1>3. Cardinality(LiveReqs \cup {r}) <= Cardinality(Reqs)
  BY <1>1, IoAssumption, FS_Subset
<1>4. Cardinality(LiveReqs) + 1 \in 0 .. Word - 1
  BY <1>2, <1>3, LiveBound, IoAssumption
<1>5. (Cardinality(LiveReqs) + 1) % Word = Cardinality(LiveReqs) + 1
  BY <1>4, NoWrap
<1> QED BY <1>2, <1>5 DEF IoInv, OutstandingExact

\* One fewer is.
LEMMA CountDown ==
    ASSUME IoInv, NEW r \in LiveReqs,
           LiveReqs' = LiveReqs \ {r}, outstanding' = (outstanding - 1) % Word
    PROVE  OutstandingExact'
<1>1. Cardinality(LiveReqs \ {r}) = Cardinality(LiveReqs) - 1
  BY LiveBound, FS_RemoveElement
<1>2. Cardinality(LiveReqs \ {r}) \in Nat
  BY LiveBound, FS_RemoveElement, FS_CardinalityType
<1>3. Cardinality(LiveReqs) - 1 \in 0 .. Word - 1
  BY <1>1, <1>2, LiveBound, IoAssumption
<1>4. (Cardinality(LiveReqs) - 1) % Word = Cardinality(LiveReqs) - 1
  BY <1>3, NoWrap
<1> QED BY <1>1, <1>4 DEF IoInv, OutstandingExact

\* submit's last critical section: the request joins the end of its queue.
LEMMA EnqueueKeeps ==
    ASSUME IoInv, NEW r \in Reqs, SubmitEnqueue(r)
    PROVE  IoInv'
<1> USE DEF IoInv
<1>1. /\ st[r] \notin {"live", "over"}
      /\ st' = [st EXCEPT ![r] = "live"]
      /\ queue' = [queue EXCEPT ![Class[r]] = Append(@, r)]
      /\ outstanding' = (outstanding + 1) % Word
      /\ UNCHANGED <<p, flying, calls, disp>>
  BY DEF SubmitEnqueue
<1>2. /\ \A c \in Priority : \A i \in DOMAIN queue[c] : queue[c][i] # r
      /\ disp.pc \in Settling => disp.req # r
      /\ calls[r] = 0
  BY <1>1, Unqueued
<1>3. st' = [q \in Reqs |-> IF q = r THEN "live" ELSE st[q]]
  BY ZenonT(30), <1>1 DEF IoTypes
<1>4. IoTypes'
  <2>1. st' \in [Reqs -> Stage]
    BY <1>1 DEF IoTypes, Stage
  <2>2. queue' \in [Priority -> Seq(Reqs)]
    <3>1. Class[r] \in Priority /\ queue \in [Priority -> Seq(Reqs)]
      BY IoAssumption DEF IoTypes
    <3>2. Append(queue[Class[r]], r) \in Seq(Reqs)
      BY <3>1
    <3> QED BY <1>1, <3>1, <3>2
  <2> QED BY ZenonT(30), <1>1, <2>1, <2>2 DEF IoTypes
<1>5. \A q \in Reqs : FullyIssued(q)' = FullyIssued(q)
  BY <1>1 DEF FullyIssued
<1>6. QueueSound'
  <2> SUFFICES ASSUME NEW c \in Priority
               PROVE  /\ \A i \in DOMAIN queue'[c] :
                            \E q \in Reqs : q = queue'[c][i] /\ Belongs(q, c)'
                      /\ \A i, j \in DOMAIN queue'[c] : queue'[c][i] = queue'[c][j] => i = j
    BY QueueMoves
  <2>1. queue[c] \in Seq(Reqs) /\ \A i \in DOMAIN queue[c] : queue[c][i] \in Reqs
    BY DEF IoTypes
  <2>2. \A q \in Reqs : Belongs(q, c) => Belongs(q, c)'
    BY <1>3, <1>5 DEF Belongs
  <2>3. CASE c # Class[r]
    <3>1. queue'[c] = queue[c]
      BY <1>1, <2>3 DEF IoTypes
    <3> QED BY ZenonT(30), <2>1, <2>2, <3>1 DEF QueueSound
  <2>4. CASE c = Class[r]
    <3>1. queue'[c] = Append(queue[c], r)
      BY <1>1, <2>4 DEF IoTypes
    <3>2. /\ DOMAIN queue[c] = 1 .. Len(queue[c]) /\ Len(queue[c]) \in Nat
          /\ DOMAIN queue'[c] = 1 .. Len(queue[c]) + 1
          /\ queue'[c][Len(queue[c]) + 1] = r
          /\ \A i \in DOMAIN queue[c] : queue'[c][i] = queue[c][i]
      BY <2>1, <3>1
    <3>3. \A i \in DOMAIN queue'[c] : i \in DOMAIN queue[c] \/ i = Len(queue[c]) + 1
      BY <3>2
    <3>4. Belongs(r, c)'
      BY ZenonT(30), <1>3, <2>4 DEF Belongs
    <3>5. \A i \in DOMAIN queue'[c] : \E q \in Reqs : q = queue'[c][i] /\ Belongs(q, c)'
      BY ZenonT(30), <2>1, <2>2, <3>2, <3>3, <3>4 DEF QueueSound
    <3>6. \A i, j \in DOMAIN queue'[c] : queue'[c][i] = queue'[c][j] => i = j
      BY <1>2, <3>2, <3>3 DEF QueueSound
    <3> QED BY <3>5, <3>6
  <2> QED BY <2>3, <2>4
<1>7. FlyingSound' /\ ChunksCounted' /\ MirroredOnly'
  BY <1>1, <1>3 DEF FlyingSound, ChunksCounted, InFlight, MirroredOnly
<1>8. OutstandingExact'
  <2>1. LiveReqs' = LiveReqs \cup {r} /\ r \notin LiveReqs
    BY <1>1, <1>3 DEF LiveReqs
  <2> QED BY <1>1, <2>1, CountUp
<1>9. CalledOnce'
  BY <1>1, <1>2, <1>3 DEF CalledOnce, Settling
<1>10. SettlingSound'
  BY <1>1, <1>3, <1>5 DEF SettlingSound, InFlight, IoTypes
<1> QED BY ZenonT(30), <1>4, <1>6, <1>7, <1>8, <1>9, <1>10

\* cancel takes a request out of its queue before anything was issued for it; the
\* dispatcher is not finishing it.
LEMMA CancelKeeps ==
    ASSUME IoInv, NoneFailed, NoCancelOfRetried, NEW r \in Reqs, Cancel(r)
    PROVE  IoInv'
<1> USE DEF IoInv
<1>1. /\ r \in conf.cancels /\ st[r] = "live" /\ p[r].next = 0
      /\ st' = [st EXCEPT ![r] = "cancelled"]
      /\ queue' = [queue EXCEPT ![Class[r]] = Remove(@, r)]
      /\ outstanding' = (outstanding - 1) % Word
      /\ UNCHANGED <<p, flying, calls, disp>>
  BY ZenonT(30) DEF Cancel
<1>2. ~FullyIssued(r) /\ InFlight(r) = {}
  <2>1. Chunks[r] \in Nat \ {0}
    BY IoAssumption
  <2>2. 1 .. 0 = {}
    OBVIOUS
  <2> QED BY <1>1, <2>1, <2>2 DEF FullyIssued, InFlight, FlyingSound
<1>3. disp.pc \in Settling => disp.req # r
  <2>1. ReadsMayFail(conf) => r \notin Mirrored
    BY ZenonT(30), <1>1 DEF NoneFailed, NoCancelOfRetried
  <2>2. ~ReadsMayFail(conf) => disp.pc # "requeue"
    BY ZenonT(30) DEF NoneFailed
  <2> QED BY ZenonT(30), <1>1, <1>2, <2>1, <2>2 DEF SettlingSound
<1>4. st' = [q \in Reqs |-> IF q = r THEN "cancelled" ELSE st[q]]
  BY ZenonT(30), <1>1 DEF IoTypes
<1>5. /\ Class[r] \in Priority /\ queue \in [Priority -> Seq(Reqs)]
      /\ queue[Class[r]] \in Seq(Reqs)
      /\ \A i, j \in DOMAIN queue[Class[r]] : queue[Class[r]][i] = queue[Class[r]][j] => i = j
  BY ZenonT(30), IoAssumption DEF IoTypes, QueueSound
<1>6. /\ Remove(queue[Class[r]], r) \in Seq(Reqs)
      /\ \A i \in DOMAIN Remove(queue[Class[r]], r) :
            \E j \in DOMAIN queue[Class[r]] :
               queue[Class[r]][j] = Remove(queue[Class[r]], r)[i] /\ queue[Class[r]][j] # r
      /\ \A i, j \in DOMAIN Remove(queue[Class[r]], r) :
            Remove(queue[Class[r]], r)[i] = Remove(queue[Class[r]], r)[j] => i = j
  BY <1>5, RemoveFrom
<1>7. IoTypes'
  <2>1. st' \in [Reqs -> Stage]
    BY ZenonT(30), <1>1 DEF IoTypes, Stage
  <2>2. queue' \in [Priority -> Seq(Reqs)]
    BY ZenonT(30), <1>1, <1>5, <1>6
  <2> QED BY <1>1, <2>1, <2>2 DEF IoTypes
<1>8. \A q \in Reqs : FullyIssued(q)' = FullyIssued(q)
  BY ZenonT(30), <1>1 DEF FullyIssued
<1>9. QueueSound'
  <2> SUFFICES ASSUME NEW c \in Priority
               PROVE  /\ \A i \in DOMAIN queue'[c] :
                            \E q \in Reqs : q = queue'[c][i] /\ Belongs(q, c)'
                      /\ \A i, j \in DOMAIN queue'[c] : queue'[c][i] = queue'[c][j] => i = j
    BY QueueMoves
  <2>1. \A i \in DOMAIN queue[c] : queue[c][i] \in Reqs /\ Belongs(queue[c][i], c)
    BY DEF IoTypes, QueueSound
  <2>2. \A q \in Reqs : Belongs(q, c) /\ q # r => Belongs(q, c)'
    BY ZenonT(30), <1>4, <1>8 DEF Belongs
  <2>3. CASE c # Class[r]
    <3>1. queue'[c] = queue[c]
      BY ZenonT(30), <1>1, <1>5, <2>3
    <3>2. \A i \in DOMAIN queue[c] : queue[c][i] # r
      BY ZenonT(30), <2>1, <2>3 DEF Belongs
    <3> QED BY ZenonT(30), <2>1, <2>2, <3>1, <3>2 DEF QueueSound
  <2>4. CASE c = Class[r]
    <3>1. queue'[c] = Remove(queue[c], r)
      BY ZenonT(30), <1>1, <1>5, <2>4
    <3> QED BY <1>6, <2>1, <2>2, <2>4, <3>1
  <2> QED BY <2>3, <2>4
<1>10. FlyingSound'
  BY ZenonT(30), <1>1, <1>2, <1>4 DEF FlyingSound, InFlight
<1>11. ChunksCounted' /\ MirroredOnly'
  BY <1>1 DEF ChunksCounted, InFlight, MirroredOnly
<1>12. OutstandingExact'
  <2>1. LiveReqs' = LiveReqs \ {r} /\ r \in LiveReqs
    BY <1>1, <1>4 DEF LiveReqs
  <2> QED BY <1>1, <2>1, CountDown
<1>13. CalledOnce'
  BY ZenonT(30), <1>1, <1>3, <1>4 DEF CalledOnce, Settling
<1>14. SettlingSound'
  BY <1>1, <1>3, <1>4, <1>8 DEF SettlingSound, InFlight, IoTypes
<1> QED BY ZenonT(30), <1>7, <1>9, <1>10, <1>11, <1>12, <1>13, <1>14

\* The rest of cancel: the one callback of a request no queue holds.
LEMMA CancelReportKeeps ==
    ASSUME IoInv, NEW r \in Reqs, CancelReport(r)
    PROVE  IoInv'
<1> USE DEF IoInv
<1>1. /\ st[r] = "cancelled"
      /\ st' = [st EXCEPT ![r] = "over"]
      /\ calls' = [calls EXCEPT ![r] = @ + 1]
      /\ UNCHANGED <<queue, flying, outstanding, disp>>
  BY DEF CancelReport
<1>2. PICK w : p' = [p EXCEPT ![r] = [@ EXCEPT !.charged = w, !.chunkSrc = <<>>]]
  BY ZenonT(30) DEF CancelReport
<1>3. /\ \A c \in Priority : \A i \in DOMAIN queue[c] : queue[c][i] # r
      /\ InFlight(r) = {}
      /\ disp.pc \in Settling => disp.req # r
      /\ calls[r] = 0
  BY <1>1, Unqueued
<1> DEFINE v == [p[r] EXCEPT !.charged = w, !.chunkSrc = <<>>]
<1>4. /\ v = [k \in Fields |-> v[k]]
      /\ v.next = p[r].next /\ v.issued = p[r].issued /\ v.done = p[r].done
      /\ v.primary = p[r].primary /\ v.mask = p[r].mask
  <2>1. p[r] = [k \in Fields |-> p[r][k]]
    BY DEF IoTypes
  <2> QED BY <2>1 DEF Fields
<1>5. p' = [q \in Reqs |-> IF q = r THEN v ELSE p[q]]
  BY ZenonT(30), <1>2 DEF IoTypes
<1> HIDE DEF v
<1>6. st' = [q \in Reqs |-> IF q = r THEN "over" ELSE st[q]]
  BY ZenonT(30), <1>1 DEF IoTypes
<1>7. calls' = [q \in Reqs |-> IF q = r THEN 1 ELSE calls[q]]
  <2>1. calls \in [Reqs -> Nat] /\ calls[r] + 1 = 1
    BY <1>3 DEF IoTypes
  <2> QED BY ZenonT(30), <1>1, <2>1
<1>8. IoTypes'
  <2>1. \A q \in Reqs :
           /\ p'[q] = [k \in Fields |-> p'[q][k]]
           /\ p'[q].next \in 0 .. Chunks[q] /\ p'[q].issued \in Nat /\ p'[q].done \in Nat
    BY <1>4, <1>5 DEF IoTypes
  <2>2. p' = [q \in Reqs |-> p'[q]]
    BY <1>5
  <2>3. st' \in [Reqs -> Stage] /\ calls' \in [Reqs -> Nat]
    BY <1>1, <1>7 DEF IoTypes, Stage
  <2> QED BY ZenonT(30), <1>1, <2>1, <2>2, <2>3 DEF IoTypes
<1>9. \A q \in Reqs : FullyIssued(q)' = FullyIssued(q)
  BY ZenonT(30), <1>4, <1>5 DEF FullyIssued
<1>10. QueueSound'
  BY <1>1, <1>3, <1>6, <1>9 DEF QueueSound, Belongs, IoTypes
<1>11. FlyingSound'
  BY ZenonT(30), <1>1, <1>3, <1>4, <1>5, <1>6 DEF FlyingSound, InFlight
<1>12. ChunksCounted'
  BY <1>1, <1>4, <1>5 DEF ChunksCounted, InFlight
<1>13. MirroredOnly'
  BY <1>4, <1>5 DEF MirroredOnly
<1>14. OutstandingExact'
  <2>1. LiveReqs' = LiveReqs
    BY <1>1, <1>6 DEF LiveReqs
  <2> QED BY <1>1, <2>1 DEF OutstandingExact
<1>15. CalledOnce'
  <2>1. disp.pc = "settle" => disp.req # r
    BY ZenonT(30), <1>3 DEF Settling
  <2> QED BY ZenonT(30), <1>1, <1>6, <1>7, <2>1 DEF CalledOnce
<1>16. SettlingSound'
  BY <1>1, <1>3, <1>6, <1>9 DEF SettlingSound, InFlight, IoTypes
<1> QED BY ZenonT(30), <1>8, <1>10, <1>11, <1>12, <1>13, <1>14, <1>15, <1>16

-----------------------------------------------------------------------------
(* Finishing a request *)

\* The dispatcher moves on to pc without touching anything else.
LEMMA DispMoves ==
    ASSUME IoInv, NEW pc, disp' = [disp EXCEPT !.pc = pc]
    PROVE  disp'.pc = pc /\ disp'.req = disp.req /\ disp' = [pc |-> disp'.pc, req |-> disp'.req]
<1>1. disp = [pc |-> disp.pc, req |-> disp.req]
  BY DEF IoInv, IoTypes
<1>2. disp' = [pc |-> pc, req |-> disp.req]
  BY <1>1
<1> QED BY ZenonT(30), <1>2

\* finish resets the Pending and turns to the retry or the callback.
LEMMA FinishKeeps ==
    ASSUME IoInv, Finish
    PROVE  IoInv'
<1> USE DEF IoInv
<1> DEFINE retry == /\ p[disp.req].primary /\ p[disp.req].failed
                    /\ p[disp.req].chunkSrc = <<>> \/ p[disp.req].srcErr \ {0} # {}
<1>1. /\ disp.pc = "finish" /\ disp.pc \in Settling
      /\ p' = [p EXCEPT ![disp.req] = IF retry THEN Retry ELSE [Blank EXCEPT !.next = Chunks[disp.req]]]
      /\ disp' = [disp EXCEPT !.pc = IF retry THEN "requeue" ELSE "callback"]
      /\ UNCHANGED <<st, queue, flying, outstanding, calls>>
  BY DEF Finish, Settling
<1>2. /\ disp.req \in Reqs /\ st[disp.req] = "live" /\ InFlight(disp.req) = {}
      /\ p[disp.req].primary = TRUE => disp.req \in Mirrored
  BY <1>1 DEF IoTypes, SettlingSound, MirroredOnly
<1>3. PICK r \in Reqs : r = disp.req
  BY <1>2
<1> DEFINE v == IF retry THEN Retry ELSE [Blank EXCEPT !.next = Chunks[r]]
<1>4. Chunks[r] \in Nat \ {0}
  BY IoAssumption
<1>5. /\ v = [k \in Fields |-> v[k]]
      /\ v.next = (IF retry THEN 0 ELSE Chunks[r]) /\ v.issued = 0 /\ v.done = 0
      /\ v.primary = FALSE /\ v.mask = {}
  BY ZenonT(30) DEF Retry, Blank, Fields
<1>6. p' = [q \in Reqs |-> IF q = r THEN v ELSE p[q]]
  BY ZenonT(30), <1>1, <1>3 DEF IoTypes
<1>7. /\ disp'.pc = (IF retry THEN "requeue" ELSE "callback") /\ disp'.req = r
      /\ disp' = [pc |-> disp'.pc, req |-> disp'.req]
  BY ZenonT(30), <1>1, <1>3, DispMoves
<1>8. retry => r \in Mirrored
  BY <1>2, <1>3
<1> HIDE DEF v, retry
<1>9. IoTypes'
  <2>1. \A q \in Reqs :
           /\ p'[q] = [k \in Fields |-> p'[q][k]]
           /\ p'[q].next \in 0 .. Chunks[q] /\ p'[q].issued \in Nat /\ p'[q].done \in Nat
    BY <1>4, <1>5, <1>6 DEF IoTypes
  <2>2. p' = [q \in Reqs |-> p'[q]]
    BY <1>6
  <2>3. disp'.pc \in Settling
    BY <1>7 DEF Settling
  <2> QED BY ZenonT(30), <1>1, <1>7, <2>1, <2>2, <2>3 DEF IoTypes
<1>10. \A q \in Reqs : q # r => FullyIssued(q)' = FullyIssued(q)
  BY <1>6 DEF FullyIssued
<1>11. QueueSound'
  <2>1. \A q \in Reqs, c \in Priority : Belongs(q, c) => Belongs(q, c)'
    BY <1>1, <1>2, <1>3, <1>10 DEF Belongs
  <2> QED BY <1>1, <2>1, QueueMoves DEF QueueSound, IoTypes
<1>12. FlyingSound'
  BY ZenonT(30), <1>1, <1>2, <1>3, <1>6 DEF FlyingSound, InFlight
<1>13. ChunksCounted'
  <2>1. \A q \in Reqs : InFlight(q)' = InFlight(q)
    BY <1>1 DEF InFlight
  <2>2. v.issued = v.done + Cardinality(InFlight(r))
    BY <1>2, <1>3, <1>5, FS_EmptySet
  <2> QED BY <1>6, <2>1, <2>2 DEF ChunksCounted
<1>14. OutstandingExact' /\ MirroredOnly'
  BY ZenonT(30), <1>1, <1>5, <1>6 DEF OutstandingExact, LiveReqs, MirroredOnly
<1>15. CalledOnce'
  BY <1>1, <1>7 DEF CalledOnce
<1>16. SettlingSound'
  <2>1. ~retry => FullyIssued(r)'
    BY <1>4, <1>5, <1>6 DEF FullyIssued
  <2>2. InFlight(r)' = {} /\ st'[r] = "live"
    BY <1>1, <1>2, <1>3 DEF InFlight
  <2> QED BY ZenonT(30), <1>7, <1>8, <2>1, <2>2 DEF SettlingSound, FullyIssued, InFlight
<1> QED BY ZenonT(30), <1>9, <1>11, <1>12, <1>13, <1>14, <1>15, <1>16

\* A failed mirror read goes back to the front of its queue, once.
LEMMA RequeueKeeps ==
    ASSUME IoInv, Requeue
    PROVE  IoInv'
<1> USE DEF IoInv
<1>1. /\ disp.pc = "requeue" /\ disp.pc \in Settling
      /\ queue' = [queue EXCEPT ![Class[disp.req]] = <<disp.req>> \o Remove(@, disp.req)]
      /\ disp' = [disp EXCEPT !.pc = "loop"]
      /\ UNCHANGED <<st, p, flying, outstanding, calls>>
  BY DEF Requeue, Settling
<1>2. disp.req \in Reqs /\ st[disp.req] = "live"
  BY <1>1 DEF IoTypes, SettlingSound
<1>3. PICK r \in Reqs : r = disp.req
  BY ZenonT(30), <1>2
<1>4. disp'.pc = "loop" /\ disp' = [pc |-> disp'.pc, req |-> disp'.req] /\ "loop" \notin Settling
  BY <1>1, DispMoves DEF Settling
<1> DEFINE q0 == Remove(queue[Class[r]], r)
<1>5. /\ Class[r] \in Priority /\ queue \in [Priority -> Seq(Reqs)]
      /\ queue[Class[r]] \in Seq(Reqs)
      /\ \A i, j \in DOMAIN queue[Class[r]] : queue[Class[r]][i] = queue[Class[r]][j] => i = j
  BY ZenonT(30), IoAssumption DEF IoTypes, QueueSound
<1>6. /\ q0 \in Seq(Reqs)
      /\ \A i \in DOMAIN q0 :
            \E j \in DOMAIN queue[Class[r]] :
               queue[Class[r]][j] = q0[i] /\ queue[Class[r]][j] # r
      /\ \A i, j \in DOMAIN q0 : q0[i] = q0[j] => i = j
  BY <1>5, RemoveFrom
<1> HIDE DEF q0
<1> DEFINE t == <<r>> \o q0
<1>7. queue' = [queue EXCEPT ![Class[r]] = t]
  BY ZenonT(30), <1>1, <1>3 DEF q0
<1>8. /\ t \in Seq(Reqs) /\ Len(t) = Len(q0) + 1 /\ t[1] = r
      /\ \A i \in 2 .. Len(q0) + 1 : t[i] = q0[i - 1]
  <2>1. <<r>> \in Seq(Reqs) /\ Len(<<r>>) = 1 /\ <<r>>[1] = r /\ Len(q0) \in Nat
    BY <1>6
  <2>2. /\ t \in Seq(Reqs) /\ Len(t) = 1 + Len(q0)
        /\ \A i \in 1 .. 1 + Len(q0) : t[i] = IF i <= 1 THEN <<r>>[i] ELSE q0[i - 1]
    BY <1>6, <2>1, ConcatProperties
  <2> QED BY <2>1, <2>2
<1> HIDE DEF t
<1>9. /\ DOMAIN t = 1 .. Len(q0) + 1 /\ DOMAIN q0 = 1 .. Len(q0) /\ Len(q0) \in Nat
      /\ \A i \in DOMAIN t : i = 1 \/ (i - 1 \in DOMAIN q0 /\ t[i] = q0[i - 1])
  BY <1>6, <1>8
<1>10. IoTypes'
  <2>1. queue' \in [Priority -> Seq(Reqs)]
    BY ZenonT(30), <1>5, <1>7, <1>8
  <2> QED BY <1>1, <1>4, <2>1 DEF IoTypes
<1>11. QueueSound'
  <2> SUFFICES ASSUME NEW c \in Priority
               PROVE  /\ \A i \in DOMAIN queue'[c] :
                            \E q \in Reqs : q = queue'[c][i] /\ Belongs(q, c)'
                      /\ \A i, j \in DOMAIN queue'[c] : queue'[c][i] = queue'[c][j] => i = j
    BY QueueMoves
  <2>1. \A i \in DOMAIN queue[c] : queue[c][i] \in Reqs /\ Belongs(queue[c][i], c)
    BY DEF IoTypes, QueueSound
  <2>2. \A q \in Reqs : Belongs(q, c) => Belongs(q, c)'
    BY ZenonT(30), <1>1 DEF Belongs, FullyIssued
  <2>3. CASE c # Class[r]
    <3>1. queue'[c] = queue[c]
      BY <1>5, <1>7, <2>3
    <3> QED BY <2>1, <2>2, <3>1 DEF QueueSound
  <2>4. CASE c = Class[r]
    <3>1. queue'[c] = t
      BY <1>5, <1>7, <2>4
    <3>2. Belongs(r, c)'
      BY ZenonT(30), <1>1, <1>2, <1>3, <2>4 DEF Belongs
    <3>3. \A i \in DOMAIN t : \E q \in Reqs : q = t[i] /\ Belongs(q, c)'
      <4>1. \A i \in DOMAIN q0 : \E q \in Reqs : q = q0[i] /\ Belongs(q, c)'
        BY ZenonT(30), <1>6, <2>1, <2>2, <2>4
      <4> QED BY ZenonT(30), <1>8, <1>9, <3>2, <4>1
    <3>4. \A i \in DOMAIN q0 : q0[i] # r
      BY <1>6
    <3>5. \A i, j \in DOMAIN t : t[i] = t[j] => i = j
      <4> SUFFICES ASSUME NEW i \in DOMAIN t, NEW j \in DOMAIN t, t[i] = t[j]
                   PROVE  i = j
        OBVIOUS
      <4>1. CASE i = 1 \/ j = 1
        BY ZenonT(30), <1>8, <1>9, <3>4, <4>1
      <4>2. CASE i # 1 /\ j # 1
        <5>1. i - 1 = j - 1
          BY <1>6, <1>9, <4>2
        <5> QED BY <1>9, <5>1
      <4> QED BY <4>1, <4>2
    <3> QED BY <3>1, <3>3, <3>5
  <2> QED BY <2>3, <2>4
<1>12. FlyingSound' /\ ChunksCounted' /\ MirroredOnly' /\ OutstandingExact'
  BY <1>1 DEF FlyingSound, ChunksCounted, InFlight, MirroredOnly, OutstandingExact, LiveReqs
<1>13. CalledOnce' /\ SettlingSound'
  BY ZenonT(30), <1>1, <1>4 DEF CalledOnce, SettlingSound
<1> QED BY ZenonT(30), <1>10, <1>11, <1>12, <1>13

\* The callback runs; then the request stops counting.
LEMMA AnswerKeeps ==
    ASSUME IoInv, Callback \/ Settle
    PROVE  IoInv'
<1> USE DEF IoInv
<1>1. disp.pc \in Settling
  BY DEF Callback, Settle, Settling
<1>2. /\ disp.req \in Reqs /\ st[disp.req] = "live" /\ InFlight(disp.req) = {}
      /\ disp.pc # "requeue" => FullyIssued(disp.req)
  BY ZenonT(30), <1>1 DEF IoTypes, SettlingSound
<1>3. PICK r \in Reqs : r = disp.req
  BY <1>2
<1>4. CASE Callback
  <2>1. /\ disp.pc = "callback"
        /\ calls' = [calls EXCEPT ![r] = @ + 1]
        /\ disp' = [disp EXCEPT !.pc = "settle"]
        /\ UNCHANGED <<st, p, queue, flying, outstanding>>
    BY <1>3, <1>4 DEF Callback
  <2>2. /\ disp'.pc = "settle" /\ disp'.req = r /\ disp' = [pc |-> disp'.pc, req |-> disp'.req]
    BY <1>3, <2>1, DispMoves
  <2>3. calls[r] = 0
    BY <1>2, <1>3, <2>1 DEF CalledOnce
  <2>4. calls' = [q \in Reqs |-> IF q = r THEN 1 ELSE calls[q]]
    <3>1. calls \in [Reqs -> Nat] /\ calls[r] + 1 = 1
      BY <2>3 DEF IoTypes
    <3> QED BY ZenonT(30), <2>1, <3>1
  <2>5. IoTypes'
    <3>1. calls' \in [Reqs -> Nat]
      BY <2>4 DEF IoTypes
    <3>2. disp'.pc \in Settling
      BY <2>2 DEF Settling
    <3> QED BY ZenonT(30), <2>1, <2>2, <3>1, <3>2 DEF IoTypes
  <2>6. QueueSound'
    BY <2>1 DEF QueueSound, Belongs, FullyIssued
  <2>7. FlyingSound' /\ ChunksCounted' /\ MirroredOnly' /\ OutstandingExact'
    BY <2>1 DEF FlyingSound, ChunksCounted, InFlight, MirroredOnly, OutstandingExact, LiveReqs
  <2>8. CalledOnce'
    BY <2>1, <2>2, <2>4 DEF CalledOnce
  <2>9. SettlingSound'
    BY <1>2, <1>3, <2>1, <2>2 DEF SettlingSound, FullyIssued, InFlight
  <2> QED BY ZenonT(30), <2>5, <2>6, <2>7, <2>8, <2>9
<1>5. CASE Settle
  <2>1. /\ disp.pc = "settle"
        /\ st' = [st EXCEPT ![r] = "over"]
        /\ outstanding' = (outstanding - 1) % Word
        /\ disp' = [disp EXCEPT !.pc = "loop"]
        /\ UNCHANGED <<p, queue, flying, calls>>
    BY <1>3, <1>5 DEF Settle
  <2>2. disp'.pc = "loop" /\ disp' = [pc |-> disp'.pc, req |-> disp'.req] /\ "loop" \notin Settling
    BY <2>1, DispMoves DEF Settling
  <2>3. st' = [q \in Reqs |-> IF q = r THEN "over" ELSE st[q]]
    BY ZenonT(30), <2>1 DEF IoTypes
  <2>4. IoTypes'
    <3>1. st' \in [Reqs -> Stage]
      BY <2>1 DEF IoTypes, Stage
    <3> QED BY <2>1, <2>2, <3>1 DEF IoTypes
  <2>5. QueueSound'
    <3>1. \A q \in Reqs : FullyIssued(q)' = FullyIssued(q)
      BY <2>1 DEF FullyIssued
    <3>2. FullyIssued(r)
      BY <1>2, <1>3, <2>1
    <3>3. \A q \in Reqs, c \in Priority : Belongs(q, c) => Belongs(q, c)'
      BY <2>3, <3>1, <3>2 DEF Belongs
    <3> QED BY <2>1, <3>3, QueueMoves DEF QueueSound, IoTypes
  <2>6. FlyingSound'
    BY <1>2, <1>3, <2>1, <2>3 DEF FlyingSound, InFlight
  <2>7. ChunksCounted' /\ MirroredOnly'
    BY <2>1 DEF ChunksCounted, InFlight, MirroredOnly
  <2>8. OutstandingExact'
    <3>1. LiveReqs' = LiveReqs \ {r} /\ r \in LiveReqs
      BY <1>2, <1>3, <2>3 DEF LiveReqs
    <3> QED BY ZenonT(30), <2>1, <3>1, CountDown
  <2>9. CalledOnce'
    BY ZenonT(30), <1>3, <2>1, <2>2, <2>3 DEF CalledOnce
  <2>10. SettlingSound'
    BY <2>2 DEF SettlingSound
  <2> QED BY ZenonT(30), <2>4, <2>5, <2>6, <2>7, <2>8, <2>9, <2>10
<1> QED BY <1>4, <1>5

\* The dispatcher leaves its loop.
LEMMA ExitKeeps ==
    ASSUME IoInv, DispatcherExit
    PROVE  IoInv'
<1> USE DEF IoInv
<1>1. /\ disp.pc = "loop" /\ disp' = [disp EXCEPT !.pc = "exit"]
      /\ UNCHANGED <<st, p, queue, flying, outstanding, calls>>
  BY DEF DispatcherExit, AtLoop
<1>2. /\ disp'.pc = "exit" /\ disp' = [pc |-> disp'.pc, req |-> disp'.req]
      /\ "exit" \notin Settling
  BY <1>1, DispMoves DEF Settling
<1>3. IoTypes'
  BY <1>1, <1>2 DEF IoTypes
<1>4. QueueSound'
  BY <1>1 DEF QueueSound, Belongs, FullyIssued
<1>5. FlyingSound' /\ ChunksCounted' /\ MirroredOnly' /\ OutstandingExact'
  BY <1>1 DEF FlyingSound, ChunksCounted, InFlight, MirroredOnly, OutstandingExact, LiveReqs
<1>6. CalledOnce' /\ SettlingSound'
  BY <1>1, <1>2 DEF CalledOnce, SettlingSound
<1> QED BY <1>3, <1>4, <1>5, <1>6

=============================================================================
