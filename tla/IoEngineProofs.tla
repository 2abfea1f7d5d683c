--------------------------- MODULE IoEngineProofs ---------------------------
(***************************************************************************)
(* Proofs about the I/O engine: issuing chunks and their completions keep  *)
(* the invariant, and what follows from it.                                *)
(***************************************************************************)
EXTENDS IoEngineInvariant, WellFoundedInduction

-----------------------------------------------------------------------------
(* Issuing chunks *)

\* The order of the naturals.
LessNat == {ss \in Nat \X Nat : ss[1] < ss[2]}

\* It is well-founded, so a nonempty set of naturals has a least element.
LEMMA LeastNatural ==
    ASSUME NEW S \in SUBSET Nat, S # {}
    PROVE  \E n \in S : \A m \in S : n <= m
<1>1. IsWellFoundedOn(LessNat, Nat)
  BY NatLessThanWellFounded DEF OpToRel, LessNat
<1>2. PICK n \in S : \A m \in S : <<m, n>> \notin LessNat
  BY ZenonT(30), <1>1, WFMin
<1>3. \A m \in S : ~(m < n)
  BY ZenonT(30), <1>2 DEF LessNat
<1> QED BY <1>3

\* a is b without some of its first elements.
Behind(a, b) ==
    \E k \in 0 .. Len(b) :
       Len(a) = Len(b) - k /\ \A i \in 1 .. Len(a) : a[i] = b[i + k]

\* Trimming drops fully issued requests from the front, and stops at the first
\* that has a chunk left.
LEMMA TrimFacts ==
    ASSUME IoInv, NEW c \in Priority
    PROVE  /\ Trim(queue)[c] \in Seq(Reqs)
           /\ Behind(Trim(queue)[c], queue[c])
           /\ Trim(queue)[c] # <<>> => ~FullyIssued(Head(Trim(queue)[c]))
           /\ (\E i \in DOMAIN queue[c] : ~FullyIssued(queue[c][i])) => Trim(queue)[c] # <<>>
<1> DEFINE q == queue[c]
           waiting == {i \in DOMAIN q : ~FullyIssued(q[i])}
           n == CHOOSE i \in waiting : \A j \in waiting : i <= j
<1>1. q \in Seq(Reqs) /\ Len(q) \in Nat /\ DOMAIN q = 1 .. Len(q)
  BY DEF IoInv, IoTypes
<1>2. Trim(queue)[c] = IF waiting = {} THEN <<>> ELSE SubSeq(q, n, Len(q))
  BY DEF Trim
<1>3. CASE waiting = {}
  <2>1. Trim(queue)[c] = <<>>
    BY <1>2, <1>3
  <2>2. Behind(<<>>, q)
    <3>1. Len(q) \in 0 .. Len(q) /\ Len(<<>>) = Len(q) - Len(q)
      BY <1>1
    <3>2. \A i \in 1 .. Len(<<>>) : <<>>[i] = q[i + Len(q)]
      OBVIOUS
    <3> QED BY <3>1, <3>2 DEF Behind
  <2> QED BY <1>3, <2>1, <2>2
<1>4. CASE waiting # {}
  <2>1. waiting \in SUBSET Nat
    BY <1>1
  <2>2. n \in waiting
    <3>1. \E i \in waiting : \A j \in waiting : i <= j
      BY ZenonT(30), <1>4, <2>1, LeastNatural
    <3> QED BY <3>1
  <2> DEFINE t == SubSeq(q, n, Len(q))
  <2>3. Trim(queue)[c] = t /\ ~FullyIssued(q[n]) /\ n \in 1 .. Len(q)
    BY ZenonT(30), <1>1, <1>2, <1>4, <2>2
  <2> HIDE DEF n, q, waiting
  <2>4. PICK m \in Nat : m = Len(q)
    BY ZenonT(30), <1>1
  <2>5. \A i \in n .. m : q[i] \in Reqs
    BY <1>1, <2>3, <2>4
  <2>6. /\ t \in Seq(Reqs) /\ Len(t) = IF n <= m THEN m - n + 1 ELSE 0
        /\ \A i \in 1 .. m - n + 1 : t[i] = q[n + i - 1]
    BY <2>3, <2>4, <2>5, SubSeqProperties
  <2> HIDE DEF t
  <2>7. Len(t) = m - (n - 1) /\ Len(t) = m - n + 1 /\ n - 1 \in 0 .. m /\ Len(t) >= 1
    BY <2>3, <2>4, <2>6
  <2>8. \A i \in 1 .. m - n + 1 : n + i - 1 = i + (n - 1)
    BY <2>3, <2>4
  <2>9. \A i \in 1 .. Len(t) : t[i] = q[i + (n - 1)]
    BY <2>6, <2>7, <2>8
  <2>10. Behind(t, q)
    BY ZenonT(30), <2>4, <2>7, <2>9 DEF Behind
  <2>11. t # <<>> /\ Head(t) = t[1]
    BY <2>6, <2>7
  <2>12. t[1] = q[n]
    <3>1. 1 \in 1 .. m - n + 1 /\ n + 1 - 1 = n
      BY <2>3, <2>4
    <3> QED BY <2>6, <3>1
  <2> QED BY <2>3, <2>6, <2>10, <2>11, <2>12 DEF q
<1> QED BY <1>3, <1>4

\* A queue that only lost requests from its front is still sound.
LEMMA BehindSound ==
    ASSUME IoInv,
           \A c \in Priority : queue'[c] \in Seq(Reqs) /\ Behind(queue'[c], queue[c]),
           \A q \in Reqs, c \in Priority : Belongs(q, c) => Belongs(q, c)'
    PROVE  QueueSound'
<1> SUFFICES ASSUME NEW c \in Priority
             PROVE  /\ \A i \in DOMAIN queue'[c] :
                          \E q \in Reqs : q = queue'[c][i] /\ Belongs(q, c)'
                    /\ \A i, j \in DOMAIN queue'[c] : queue'[c][i] = queue'[c][j] => i = j
  BY QueueMoves
<1>1. PICK k \in 0 .. Len(queue[c]) :
         /\ Len(queue'[c]) = Len(queue[c]) - k
         /\ \A i \in 1 .. Len(queue'[c]) : queue'[c][i] = queue[c][i + k]
  BY ZenonT(30) DEF Behind
<1>2. /\ queue[c] \in Seq(Reqs) /\ Len(queue[c]) \in Nat /\ DOMAIN queue[c] = 1 .. Len(queue[c])
      /\ Len(queue'[c]) \in Nat /\ DOMAIN queue'[c] = 1 .. Len(queue'[c])
  BY DEF IoInv, IoTypes
<1>3. \A i \in DOMAIN queue'[c] :
         i \in Nat /\ i + k \in DOMAIN queue[c] /\ queue'[c][i] = queue[c][i + k]
  BY SMTT(30), <1>1, <1>2
<1>4. \A i \in DOMAIN queue[c] : queue[c][i] \in Reqs /\ Belongs(queue[c][i], c)
  BY <1>2 DEF IoInv, QueueSound
<1>5. \A i, j \in DOMAIN queue'[c] : queue'[c][i] = queue'[c][j] => i + k = j + k
  BY <1>3 DEF IoInv, QueueSound
<1>6. \A i, j \in Nat : i + k = j + k => i = j
  BY <1>1
<1> QED BY ZenonT(30), <1>3, <1>4, <1>5, <1>6

\* Nor does losing the head matter.
LEMMA BehindTail ==
    ASSUME NEW a \in Seq(Reqs), NEW b \in Seq(Reqs), a # <<>>, Behind(a, b)
    PROVE  Tail(a) \in Seq(Reqs) /\ Behind(Tail(a), b)
<1>1. PICK k \in 0 .. Len(b) : Len(a) = Len(b) - k /\ \A i \in 1 .. Len(a) : a[i] = b[i + k]
  BY DEF Behind
<1>2. /\ Tail(a) \in Seq(Reqs) /\ Len(Tail(a)) = Len(a) - 1
      /\ \A i \in 1 .. Len(Tail(a)) : Tail(a)[i] = a[i + 1]
  BY HeadTailProperties
<1>3. PICK n \in Nat : n = Len(a) /\ n # 0
  OBVIOUS
<1>4. PICK m \in Nat : m = Len(b)
  OBVIOUS
<1>5. k + 1 \in 0 .. m /\ Len(Tail(a)) = m - (k + 1) /\ Len(Tail(a)) = n - 1
  BY <1>1, <1>2, <1>3, <1>4
<1>6. \A i \in 1 .. n - 1 : i + 1 \in 1 .. n /\ (i + 1) + k = i + (k + 1)
  BY <1>1, <1>3, <1>4
<1>7. \A i \in 1 .. n - 1 : Tail(a)[i] = b[i + (k + 1)]
  BY ZenonT(30), <1>1, <1>2, <1>3, <1>5, <1>6
<1> QED BY ZenonT(30), <1>2, <1>4, <1>5, <1>7 DEF Behind

\* The request whose turn it is heads its queue, is live and has a chunk left.
LEMMA TurnFacts ==
    ASSUME IoInv, \E c \in Priority : Trim(queue)[c] # <<>>,
           NEW r, r = Turn(Trim(queue))
    PROVE  /\ r \in Reqs /\ Class[r] \in Priority /\ st[r] = "live" /\ ~FullyIssued(r)
           /\ Trim(queue)[Class[r]] # <<>>
           /\ Trim(queue)[P0] # <<>> => Class[r] = P0 \/ (Class[r] = Engram /\ Rescue(Trim(queue)))
<1> DEFINE q == Trim(queue)
           full == {c \in Priority : q[c] # <<>>}
           n == CHOOSE c \in Priority : q[c] # <<>> /\ \A d \in Priority : q[d] # <<>> => c <= d
<1>1. \A c \in Priority :
         q[c] # <<>> => /\ Head(q[c]) \in Reqs /\ ~FullyIssued(Head(q[c]))
                        /\ Class[Head(q[c])] = c /\ st[Head(q[c])] = "live"
  <2> SUFFICES ASSUME NEW c \in Priority, q[c] # <<>>
               PROVE  /\ Head(q[c]) \in Reqs /\ ~FullyIssued(Head(q[c]))
                      /\ Class[Head(q[c])] = c /\ st[Head(q[c])] = "live"
    OBVIOUS
  <2>1. q[c] \in Seq(Reqs) /\ Behind(q[c], queue[c]) /\ ~FullyIssued(Head(q[c]))
    BY TrimFacts
  <2>2. PICK k \in 0 .. Len(queue[c]) :
           Len(q[c]) = Len(queue[c]) - k /\ \A i \in 1 .. Len(q[c]) : q[c][i] = queue[c][i + k]
    BY <2>1 DEF Behind
  <2>3. queue[c] \in Seq(Reqs) /\ Len(queue[c]) \in Nat /\ DOMAIN queue[c] = 1 .. Len(queue[c])
    BY DEF IoInv, IoTypes
  <2> HIDE DEF q
  <2>4. Head(q[c]) = q[c][1] /\ Head(q[c]) \in Reqs /\ Len(q[c]) \in Nat /\ Len(q[c]) # 0
    BY <2>1
  <2>5. 1 + k \in DOMAIN queue[c] /\ q[c][1] = queue[c][1 + k]
    BY <2>2, <2>3, <2>4
  <2>6. Belongs(queue[c][1 + k], c)
    BY <2>5 DEF IoInv, QueueSound
  <2> QED BY <2>1, <2>4, <2>5, <2>6 DEF Belongs
<1>2. n \in Priority /\ q[n] # <<>> /\ \A d \in Priority : q[d] # <<>> => n <= d
  <2>1. full \in SUBSET Nat /\ full # {}
    BY DEF Priority
  <2>2. \E c \in full : \A d \in full : c <= d
    BY ZenonT(30), <2>1, LeastNatural
  <2>3. \E c \in Priority : q[c] # <<>> /\ \A d \in Priority : q[d] # <<>> => c <= d
    BY <2>2
  <2> QED BY <2>3
<1>3. r = IF Rescue(q) THEN Head(q[Engram]) ELSE Head(q[n])
  BY DEF Turn
<1> HIDE DEF q, n, full
<1>4. Engram \in Priority /\ P0 \in Priority
  BY DEF Engram, P0, Priority
<1>5. CASE Rescue(q)
  <2>1. q[Engram] # <<>>
    BY <1>5 DEF Rescue
  <2> QED BY <1>1, <1>3, <1>4, <1>5, <2>1 DEF q
<1>6. CASE ~Rescue(q)
  <2>1. q[P0] # <<>> => n = P0
    BY <1>2, <1>4 DEF P0, Priority
  <2> QED BY <1>1, <1>2, <1>3, <1>6, <2>1 DEF q
<1> QED BY <1>5, <1>6

\* An idle iteration of the loop trims the queues.
LEMMA IssueNothingKeeps ==
    ASSUME IoInv, IssueNothing
    PROVE  IoInv'
<1> USE DEF IoInv
<1>1. queue' = Trim(queue) /\ UNCHANGED <<st, p, flying, outstanding, calls, disp>>
  BY DEF IssueNothing
<1>2. \A c \in Priority : queue'[c] \in Seq(Reqs) /\ Behind(queue'[c], queue[c])
  BY <1>1, TrimFacts
<1>3. queue' \in [Priority -> Seq(Reqs)]
  <2>1. queue' = [c \in Priority |-> queue'[c]]
    BY <1>1 DEF Trim
  <2> QED BY <1>2, <2>1
<1>4. IoTypes'
  BY <1>1, <1>3 DEF IoTypes
<1>5. QueueSound'
  <2>1. \A q \in Reqs, c \in Priority : Belongs(q, c) => Belongs(q, c)'
    BY <1>1 DEF Belongs, FullyIssued
  <2> QED BY <1>2, <2>1, BehindSound
<1>6. FlyingSound' /\ ChunksCounted' /\ MirroredOnly' /\ OutstandingExact'
  BY <1>1 DEF FlyingSound, ChunksCounted, InFlight, MirroredOnly, OutstandingExact, LiveReqs
<1>7. CalledOnce' /\ SettlingSound'
  BY <1>1 DEF CalledOnce, SettlingSound, FullyIssued, InFlight
<1> QED BY <1>4, <1>5, <1>6, <1>7

\* One chunk more of a request that has one left.
LEMMA IssueKeeps ==
    ASSUME IoInv, Issue
    PROVE  IoInv'
<1> USE DEF IoInv
<1> DEFINE q == Trim(queue)
<1>1. disp.pc = "loop" /\ \E c \in Priority : q[c] # <<>>
  BY DEF Issue, AtLoop, MayIssue
<1>2. PICK r : r = Turn(q)
  OBVIOUS
<1>3. /\ r \in Reqs /\ Class[r] \in Priority /\ st[r] = "live" /\ ~FullyIssued(r)
      /\ q[Class[r]] # <<>>
  BY <1>1, <1>2, TurnFacts
<1>4. PICK g : /\ g.req = r /\ g.chunk = p[r].next + 1
               /\ flying' = flying \cup {g}
  <2> DEFINE striped == p[r].chunkSrc # <<>>
             h == [req |-> r, chunk |-> p[r].next + 1, striped |-> striped,
                   src |-> IF striped THEN p[r].chunkSrc[p[r].next + 1] ELSE p[r].source,
                   refused |-> RingUsed >= RingDepth]
  <2>1. flying' = flying \cup {h}
    BY <1>2 DEF Issue
  <2>2. h.req = r /\ h.chunk = p[r].next + 1
    OBVIOUS
  <2> QED BY ZenonT(30), <2>1, <2>2
<1> DEFINE v == [p[r] EXCEPT !.next = p[r].next + 1, !.issued = @ + 1]
<1>5. /\ p' = [p EXCEPT ![r] = v]
      /\ queue' = IF p[r].next + 1 = Chunks[r] THEN [q EXCEPT ![Class[r]] = Tail(@)] ELSE q
      /\ UNCHANGED <<st, outstanding, calls, disp>>
  BY <1>2 DEF Issue
<1>6. /\ p[r].next \in Nat /\ p[r].issued \in Nat /\ p[r].done \in Nat /\ Chunks[r] \in Nat
      /\ p[r].next < Chunks[r]
  BY SMTT(30), <1>3, IoAssumption DEF IoTypes, FullyIssued
<1>7. /\ v = [k \in Fields |-> v[k]]
      /\ v.next = p[r].next + 1 /\ v.issued = p[r].issued + 1 /\ v.done = p[r].done
      /\ v.primary = p[r].primary /\ v.mask = p[r].mask
  <2>1. p[r] = [k \in Fields |-> p[r][k]]
    BY <1>3 DEF IoTypes
  <2> QED BY ZenonT(30), <2>1 DEF Fields
<1>8. p' = [u \in Reqs |-> IF u = r THEN v ELSE p[u]]
  BY ZenonT(30), <1>5 DEF IoTypes
<1> HIDE DEF v
<1>9. \A c \in Priority : q[c] \in Seq(Reqs) /\ Behind(q[c], queue[c])
  BY TrimFacts
<1>10. q = [c \in Priority |-> q[c]]
  BY DEF Trim
<1> HIDE DEF q
<1>11. \A c \in Priority : queue'[c] \in Seq(Reqs) /\ Behind(queue'[c], queue[c])
  <2> SUFFICES ASSUME NEW c \in Priority
               PROVE  queue'[c] \in Seq(Reqs) /\ Behind(queue'[c], queue[c])
    OBVIOUS
  <2>1. queue'[c] = q[c] \/ (c = Class[r] /\ queue'[c] = Tail(q[c]))
    BY ZenonT(30), <1>3, <1>5, <1>10
  <2>2. queue[c] \in Seq(Reqs)
    BY DEF IoTypes
  <2>3. CASE queue'[c] = q[c]
    BY <1>9, <2>3
  <2>4. CASE c = Class[r] /\ queue'[c] = Tail(q[c])
    BY ZenonT(30), <1>3, <1>9, <2>2, <2>4, BehindTail
  <2> QED BY <2>1, <2>3, <2>4
<1>12. queue' \in [Priority -> Seq(Reqs)]
  <2>1. queue' = [c \in Priority |-> queue'[c]]
    BY ZenonT(30), <1>5, <1>10
  <2> QED BY <1>11, <2>1
<1>13. IoTypes'
  <2>1. \A u \in Reqs :
           /\ p'[u] = [k \in Fields |-> p'[u][k]]
           /\ p'[u].next \in 0 .. Chunks[u] /\ p'[u].issued \in Nat /\ p'[u].done \in Nat
    BY <1>6, <1>7, <1>8 DEF IoTypes
  <2>2. p' = [u \in Reqs |-> p'[u]]
    BY <1>8
  <2>3. IsFiniteSet(flying')
    BY ZenonT(30), <1>4, FS_AddElement DEF IoTypes
  <2> QED BY ZenonT(30), <1>5, <1>12, <2>1, <2>2, <2>3 DEF IoTypes
<1>14. QueueSound'
  <2>1. \A u \in Reqs : FullyIssued(u) => FullyIssued(u)'
    BY <1>3, <1>8 DEF FullyIssued
  <2>2. \A u \in Reqs, c \in Priority : Belongs(u, c) => Belongs(u, c)'
    BY <1>5, <2>1 DEF Belongs
  <2> QED BY ZenonT(30), <1>11, <2>2, BehindSound
<1>15. FlyingSound'
  <2> SUFFICES ASSUME NEW f \in flying'
               PROVE  f.req \in Reqs /\ st'[f.req] = "live" /\ f.chunk \in 1 .. p'[f.req].next
    BY DEF FlyingSound
  <2>1. CASE f = g
    BY SMTT(30), <1>3, <1>4, <1>5, <1>6, <1>7, <1>8, <2>1
  <2>2. CASE f \in flying
    <3>1. f.req \in Reqs /\ st[f.req] = "live" /\ f.chunk \in 1 .. p[f.req].next
      BY ZenonT(30), <2>2 DEF FlyingSound
    <3>2. p[f.req].next \in Nat /\ p'[f.req].next \in Nat /\ p[f.req].next <= p'[f.req].next
      BY <1>6, <1>7, <1>8, <3>1 DEF IoTypes
    <3> QED BY <1>5, <3>1, <3>2
  <2> QED BY <1>4, <2>1, <2>2
<1>16. ChunksCounted'
  <2>1. g \notin InFlight(r)
    BY <1>3, <1>4, <1>6 DEF InFlight, FlyingSound
  <2>2. InFlight(r)' = InFlight(r) \cup {g} /\ \A u \in Reqs : u # r => InFlight(u)' = InFlight(u)
    BY <1>4 DEF InFlight
  <2>3. IsFiniteSet(InFlight(r))
    BY FS_Subset DEF InFlight, IoTypes
  <2>4. Cardinality(InFlight(r) \cup {g}) = Cardinality(InFlight(r)) + 1
        /\ Cardinality(InFlight(r)) \in Nat
    BY ZenonT(30), <2>1, <2>3, FS_AddElement, FS_CardinalityType
  <2>5. p[r].issued = p[r].done + Cardinality(InFlight(r))
    BY <1>3 DEF ChunksCounted
  <2>6. v.issued = v.done + Cardinality(InFlight(r)')
    BY <1>6, <1>7, <2>2, <2>4, <2>5
  <2> QED BY ZenonT(30), <1>8, <2>2, <2>6 DEF ChunksCounted
<1>17. OutstandingExact' /\ CalledOnce' /\ MirroredOnly'
  BY ZenonT(30), <1>5, <1>7, <1>8 DEF OutstandingExact, LiveReqs, CalledOnce, MirroredOnly
<1>18. SettlingSound'
  BY <1>1, <1>5 DEF SettlingSound, Settling
<1> QED BY ZenonT(30), <1>13, <1>14, <1>15, <1>16, <1>17, <1>18

\* A chunk comes back. The last of a request turns the dispatcher to finish.
LEMMA CompletionKeeps ==
    ASSUME IoInv, NEW f, NEW ok, HandleCompletion(f, ok)
    PROVE  IoInv'
<1> USE DEF IoInv
<1>1. /\ disp.pc = "loop" /\ f \in flying /\ flying' = flying \ {f}
      /\ UNCHANGED <<st, queue, outstanding, calls>>
  BY DEF HandleCompletion, AtLoop
<1>2. PICK r \in Reqs : r = f.req /\ st[r] = "live"
  BY ZenonT(30), <1>1 DEF FlyingSound
<1> DEFINE n == IF ok \/ p[r].failed THEN p[r].next ELSE Chunks[r]
           back == IF p[r].charged[f.src] = 0 THEN 0 ELSE 1
           v == [p[r] EXCEPT !.done = @ + 1, !.failed = p[r].failed \/ ~ok, !.next = n,
                             !.charged[f.src] = IF f.striped THEN @ - back ELSE @,
                             !.srcErr = IF f.striped /\ ~ok THEN @ \cup {f.src} ELSE @]
<1>3. /\ n = p[r].next \/ n = Chunks[r]
      /\ p' = [p EXCEPT ![r] = v]
      /\ disp' = IF p[r].done + 1 = p[r].issued /\ n = Chunks[r]
                 THEN [pc |-> "finish", req |-> r] ELSE disp
  BY <1>2 DEF HandleCompletion
<1> HIDE DEF n
<1>4. p[r] = [k \in Fields |-> p[r][k]]
  BY DEF IoTypes
<1>5. /\ v = [k \in Fields |-> v[k]]
      /\ v.next = n /\ v.issued = p[r].issued /\ v.done = p[r].done + 1
      /\ v.primary = p[r].primary /\ v.mask = p[r].mask
  BY ZenonT(30), <1>4 DEF Fields
<1> HIDE DEF v
<1>6. p' = [u \in Reqs |-> IF u = r THEN v ELSE p[u]]
  <2>1. p = [u \in Reqs |-> p[u]]
    BY DEF IoTypes
  <2>2. p' = [p EXCEPT ![r] = v]
    BY ZenonT(30), <1>3
  <2> QED BY <2>1, <2>2
<1>7. /\ p[r].next \in 0 .. Chunks[r] /\ p[r].issued \in Nat /\ p[r].done \in Nat
      /\ Chunks[r] \in Nat /\ n \in 0 .. Chunks[r] /\ p[r].next <= n
  BY SMTT(30), <1>3, IoAssumption DEF IoTypes
<1>8. /\ InFlight(r)' = InFlight(r) \ {f} /\ f \in InFlight(r)
      /\ \A u \in Reqs : u # r => InFlight(u)' = InFlight(u)
  BY <1>1, <1>2 DEF InFlight
<1>9. IsFiniteSet(InFlight(r)) /\ IsFiniteSet(flying \ {f})
  BY FS_Subset DEF InFlight, IoTypes
<1>10. /\ Cardinality(InFlight(r) \ {f}) = Cardinality(InFlight(r)) - 1
       /\ Cardinality(InFlight(r)) \in Nat
       /\ IsFiniteSet(InFlight(r) \ {f}) /\ Cardinality(InFlight(r) \ {f}) \in Nat
  BY ZenonT(30), <1>8, <1>9, FS_RemoveElement, FS_CardinalityType
<1>11. p[r].issued = p[r].done + Cardinality(InFlight(r))
  BY DEF ChunksCounted
<1>12. disp'.pc \in {"loop", "finish"} /\ disp' = [pc |-> disp'.pc, req |-> disp'.req]
       /\ (disp'.pc = "finish" => disp'.req = r /\ p[r].done + 1 = p[r].issued /\ n = Chunks[r])
  BY <1>1, <1>3 DEF IoTypes
<1>13. IoTypes'
  <2>1. \A u \in Reqs :
           /\ p'[u] = [k \in Fields |-> p'[u][k]]
           /\ p'[u].next \in 0 .. Chunks[u] /\ p'[u].issued \in Nat /\ p'[u].done \in Nat
    BY <1>5, <1>6, <1>7 DEF IoTypes
  <2>2. p' = [u \in Reqs |-> p'[u]]
    BY <1>6
  <2>3. disp'.pc \in Settling \cup {"loop", "exit"} /\ (disp'.pc \in Settling => disp'.req \in Reqs)
    BY <1>12 DEF Settling
  <2> QED BY ZenonT(30), <1>1, <1>9, <1>12, <2>1, <2>2, <2>3 DEF IoTypes
<1>14. \A u \in Reqs : FullyIssued(u) => FullyIssued(u)'
  BY <1>5, <1>6, <1>7 DEF FullyIssued
<1>15. QueueSound'
  <2>1. \A u \in Reqs, c1 \in Priority : Belongs(u, c1) => Belongs(u, c1)'
    BY ZenonT(30), <1>1, <1>14 DEF Belongs
  <2> QED BY <1>1, <2>1, QueueMoves DEF QueueSound, IoTypes
<1>16. FlyingSound'
  <2> SUFFICES ASSUME NEW h \in flying'
               PROVE  h.req \in Reqs /\ st'[h.req] = "live" /\ h.chunk \in 1 .. p'[h.req].next
    BY DEF FlyingSound
  <2>1. h.req \in Reqs /\ st[h.req] = "live" /\ h.chunk \in 1 .. p[h.req].next
    BY ZenonT(30), <1>1 DEF FlyingSound
  <2>2. p[h.req].next \in Nat /\ p'[h.req].next \in Nat /\ p[h.req].next <= p'[h.req].next
    BY <1>5, <1>6, <1>7, <2>1 DEF IoTypes
  <2> QED BY <1>1, <2>1, <2>2
<1>17. ChunksCounted'
  <2>1. v.issued = v.done + Cardinality(InFlight(r)')
    BY <1>5, <1>7, <1>8, <1>10, <1>11
  <2> QED BY ZenonT(30), <1>6, <1>8, <2>1 DEF ChunksCounted
<1>18. OutstandingExact' /\ MirroredOnly'
  BY ZenonT(30), <1>1, <1>5, <1>6 DEF OutstandingExact, LiveReqs, MirroredOnly
<1>19. CalledOnce'
  BY <1>1, <1>12 DEF CalledOnce
<1>20. SettlingSound'
  <2> SUFFICES ASSUME disp'.pc \in Settling
               PROVE  st'[r] = "live" /\ InFlight(r)' = {} /\ FullyIssued(r)' /\ disp'.req = r
    BY DEF SettlingSound, FullyIssued, InFlight
  <2>1. disp'.pc = "finish"
    BY ZenonT(30), <1>12 DEF Settling
  <2>2. Cardinality(InFlight(r) \ {f}) = 0
    BY <1>7, <1>10, <1>11, <1>12, <2>1
  <2>3. InFlight(r)' = {}
    BY ZenonT(30), <1>8, <1>10, <2>2, FS_EmptySet
  <2>4. FullyIssued(r)'
    BY <1>5, <1>6, <1>7, <1>12, <2>1 DEF FullyIssued
  <2> QED BY ZenonT(30), <1>1, <1>2, <1>12, <2>1, <2>3, <2>4
<1> QED BY ZenonT(30), <1>13, <1>15, <1>16, <1>17, <1>18, <1>19, <1>20

-----------------------------------------------------------------------------
(* The invariant *)

\* A step that leaves every request's progress alone.
Aside ==
    \/ \E s \in Mirror :
          \/ TickKeepAlive(s) \/ FinishKeepAlive(s)
          \/ ReadmitCheck(s) \/ ThermalUpdate(s) \/ DropSource(s)
    \/ \E ok \in BOOLEAN : ReadmitEnd(ok)
    \/ EngramWait \/ Quiet \/ Stop

\* The keep-alive, the watcher, the readers of rows, time and stop are such steps.
LEMMA AsideKeeps ==
    ASSUME Aside
    PROVE  UNCHANGED core
<1>1. ASSUME NEW s \in Mirror, TickKeepAlive(s) \/ FinishKeepAlive(s) PROVE UNCHANGED core
  BY ZenonT(30), <1>1 DEF TickKeepAlive, FinishKeepAlive, core
<1>2. ASSUME NEW s \in Mirror, ReadmitCheck(s) \/ ThermalUpdate(s) \/ DropSource(s)
      PROVE  UNCHANGED core
  BY <1>2 DEF ReadmitCheck, ThermalUpdate, DropSource, core
<1>3. ASSUME NEW ok \in BOOLEAN, ReadmitEnd(ok) PROVE UNCHANGED core
  BY <1>3 DEF ReadmitEnd, core
<1>4. ASSUME EngramWait \/ Quiet \/ Stop PROVE UNCHANGED core
  BY ZenonT(30), <1>4 DEF EngramWait, Quiet, Stop, core
<1> QED BY ZenonT(30), <1>1, <1>2, <1>3, <1>4 DEF Aside

\* The engine starts idle.
LEMMA IoInitInv ==
    ASSUME IoInit
    PROVE  IoInv
<1> USE DEF IoInit
<1>1. p = [r \in Reqs |-> Blank]
  OBVIOUS
<1>2. Blank.next = 0 /\ Blank.issued = 0 /\ Blank.done = 0 /\ Blank.primary = FALSE /\ Blank.mask = {}
  BY DEF Blank
<1>3. \A r \in Reqs : InFlight(r) = {}
  BY DEF InFlight
<1>4. IoTypes
  <2>1. \A r \in Reqs : /\ p[r] = [k \in Fields |-> p[r][k]]
                        /\ p[r].next \in 0 .. Chunks[r] /\ p[r].issued \in Nat /\ p[r].done \in Nat
    BY <1>1, <1>2, BlankShape, IoAssumption
  <2>2. p = [r \in Reqs |-> p[r]]
    BY <1>1
  <2>3. queue \in [Priority -> Seq(Reqs)]
    OBVIOUS
  <2>4. st \in [Reqs -> Stage] /\ calls \in [Reqs -> Nat] /\ IsFiniteSet(flying)
    BY FS_EmptySet DEF Stage
  <2>5. disp.pc = "loop" /\ disp = [pc |-> disp.pc, req |-> disp.req] /\ "loop" \notin Settling
    BY DEF Settling
  <2> QED BY ZenonT(30), <2>1, <2>2, <2>3, <2>4, <2>5 DEF IoTypes
<1>5. QueueSound /\ FlyingSound
  BY DEF QueueSound, FlyingSound
<1>6. ChunksCounted /\ MirroredOnly
  <2>1. \A r \in Reqs : p[r] = Blank
    BY <1>1
  <2>2. \A r \in Reqs : Cardinality(InFlight(r)) = 0
    BY ZenonT(30), <1>3, FS_EmptySet
  <2>3. ChunksCounted
    BY <1>2, <2>1, <2>2 DEF ChunksCounted
  <2> QED BY <1>2, <2>1, <2>3 DEF MirroredOnly
<1>7. OutstandingExact
  <2>1. LiveReqs = {}
    BY DEF LiveReqs
  <2> QED BY <2>1, FS_EmptySet DEF OutstandingExact
<1>8. CalledOnce /\ SettlingSound
  BY ZenonT(30) DEF CalledOnce, SettlingSound, Settling
<1> QED BY ZenonT(30), <1>4, <1>5, <1>6, <1>7, <1>8 DEF IoInv

\* What a step can be.
LEMMA IoSteps ==
    ASSUME [IoNext]_ioVars
    PROVE  \/ \E r \in Reqs : \/ SubmitRoute(r) \/ SubmitNoDst(r) \/ SubmitReject(r)
                              \/ SubmitStripe(r) \/ SubmitEnqueue(r)
                              \/ Cancel(r) \/ CancelReport(r)
           \/ \E f \in flying, ok \in BOOLEAN : HandleCompletion(f, ok)
           \/ Issue \/ IssueNothing \/ Finish \/ Requeue \/ Callback \/ Settle \/ DispatcherExit
           \/ UNCHANGED core
<1>1. CASE UNCHANGED ioVars
  BY <1>1 DEF ioVars, core
<1>2. CASE Stopped
  BY <1>2 DEF Stopped, ioVars, core
<1>3. CASE Aside
  BY <1>3, AsideKeeps
<1>4. CASE \E f \in flying : Complete(f)
  BY ZenonT(30), <1>4 DEF Complete
<1>5. CASE \E r \in Reqs : SubmitRoute(r) \/ Cancel(r) \/ Caller(r)
  BY <1>5 DEF Caller
<1>6. CASE Dispatcher
  BY <1>4, <1>6 DEF Dispatcher
<1> QED BY ZenonT(30), <1>1, <1>2, <1>3, <1>5, <1>6 DEF IoNext, IoStep, Aside

\* Every step keeps the invariant.
LEMMA IoNextKeeps ==
    ASSUME IoInv, NoneFailed, NoCancelOfRetried, [IoNext]_ioVars
    PROVE  IoInv'
<1>1. ASSUME NEW r \in Reqs,
             SubmitRoute(r) \/ SubmitNoDst(r) \/ SubmitReject(r) \/ SubmitStripe(r)
      PROVE  IoInv'
  BY <1>1, SubmitKeeps
<1>2. ASSUME NEW r \in Reqs, SubmitEnqueue(r) PROVE IoInv'
  BY <1>2, EnqueueKeeps
<1>3. ASSUME NEW r \in Reqs, Cancel(r) PROVE IoInv'
  BY <1>3, CancelKeeps
<1>4. ASSUME NEW r \in Reqs, CancelReport(r) PROVE IoInv'
  BY <1>4, CancelReportKeeps
<1>5. ASSUME NEW f \in flying, NEW ok \in BOOLEAN, HandleCompletion(f, ok) PROVE IoInv'
  BY ZenonT(30), <1>5, CompletionKeeps
<1>6. ASSUME Issue \/ IssueNothing \/ DispatcherExit PROVE IoInv'
  BY ZenonT(30), <1>6, IssueKeeps, IssueNothingKeeps, ExitKeeps
<1>7. ASSUME Finish \/ Requeue PROVE IoInv'
  BY ZenonT(30), <1>7, FinishKeeps, RequeueKeeps
<1>8. ASSUME Callback \/ Settle PROVE IoInv'
  BY <1>8, AnswerKeeps
<1>9. ASSUME UNCHANGED core PROVE IoInv'
  BY <1>9, CoreKept
<1> QED BY ZenonT(30), <1>1, <1>2, <1>3, <1>4, <1>5, <1>6, <1>7, <1>8, <1>9, IoSteps

\* Nothing has failed before anything was submitted.
LEMMA NoneFailedInit == IoInit => NoneFailed
BY DEF IoInit, NoneFailed, Blank

\* A step that gives one request a Pending that has not failed.
LEMMA PendingKeepsNoneFailed ==
    ASSUME IoInv, NoneFailed, UNCHANGED <<conf, poke, disp, flying>>, NEW r \in Reqs, NEW v,
           p' = [p EXCEPT ![r] = v], ~p[r].failed => ~v.failed
    PROVE  NoneFailed'
<1>1. p'[r] = v /\ \A q \in Reqs : q # r => p'[q] = p[q]
  BY ZenonT(30) DEF IoInv, IoTypes
<1> QED BY ZenonT(30), <1>1 DEF NoneFailed

\* The backend's ring is deeper than every queue depth: without pokes it takes
\* every chunk issue_ready_chunks issues.
LEMMA RingHasRoom ==
    ASSUME IoInv, NoneFailed, ~ReadsMayFail(conf), MayIssue(Trim(queue))
    PROVE  ~(RingUsed >= RingDepth)
<1> DEFINE q == Trim(queue)
<1>1. Ops < DepthCap(q, Class[Turn(q)])
  BY DEF MayIssue
<1>2. {f \in flying : ~f.refused} = flying /\ poke = {}
  BY DEF NoneFailed
<1>3. RingUsed = Ops + 0 /\ Ops \in Nat
  BY <1>2, FS_EmptySet, FS_CardinalityType DEF RingUsed, Ops, IoInv, IoTypes
<1>4. P0Qd \in Nat /\ BgQd \in Nat /\ EngramQd \in Nat /\ EngramWaitChunks \in Nat /\ RingDepth \in Nat
      /\ P0Qd <= RingDepth /\ BgQd <= RingDepth /\ EngramQd <= RingDepth
  BY IoAssumption
<1>5. RescueQd \in Nat /\ RescueQd <= RingDepth
  BY <1>4 DEF RescueQd
<1>6. DepthCap(q, Class[Turn(q)]) \in {RescueQd, P0Qd, EngramQd, BgQd}
  BY ZenonT(30) DEF DepthCap
<1> QED BY <1>1, <1>3, <1>4, <1>5, <1>6

LEMMA NoneFailedNext ==
    ASSUME IoInv, NoneFailed, [IoNext]_ioVars
    PROVE  NoneFailed'
<1>1. CASE UNCHANGED ioVars
  BY ZenonT(30), <1>1 DEF ioVars, NoneFailed, ReadsMayFail
<1>2. CASE UNCHANGED conf /\ \E r \in Reqs : SubmitRoute(r) \/ Cancel(r) \/ Caller(r)
  <2>1. PICK r \in Reqs : SubmitRoute(r) \/ Cancel(r) \/ Caller(r)
    BY <1>2
  <2>2. UNCHANGED <<conf, poke, disp, flying>>
    BY ZenonT(30), <1>2, <2>1 DEF SubmitRoute, Cancel, Caller, SubmitNoDst, SubmitReject, SubmitStripe,
       SubmitEnqueue, CancelReport
  <2>3. p[r] = [k \in Fields |-> p[r][k]]
    BY DEF IoInv, IoTypes
  <2>4. CASE UNCHANGED p
    BY ZenonT(30), <2>2, <2>4 DEF NoneFailed
  <2>5. ASSUME NEW v, p' = [p EXCEPT ![r] = v], ~p[r].failed => ~v.failed PROVE NoneFailed'
    BY ZenonT(30), <2>2, <2>5, PendingKeepsNoneFailed
  <2>6. CASE SubmitRoute(r)
    <3>1. ASSUME NEW m, p' = [p EXCEPT ![r] = [@ EXCEPT !.mask = m]] PROVE NoneFailed'
      <4>1. [p[r] EXCEPT !.mask = m].failed = p[r].failed
        BY ZenonT(30), <2>3 DEF Fields
      <4> QED BY ZenonT(30), <2>5, <3>1, <4>1
    <3>2. ASSUME NEW s, p' = [p EXCEPT ![r] = [@ EXCEPT !.source = s, !.routed = TRUE, !.primary = (s # 0)]]
          PROVE  NoneFailed'
      <4>1. [p[r] EXCEPT !.source = s, !.routed = TRUE, !.primary = (s # 0)].failed = p[r].failed
        BY ZenonT(30), <2>3 DEF Fields
      <4> QED BY ZenonT(30), <2>5, <3>2, <4>1
    <3> QED BY ZenonT(30), <2>4, <2>6, <3>1, <3>2 DEF SubmitRoute
  <2>7. CASE SubmitReject(r)
    <3>1. ~Blank.failed
      BY DEF Blank
    <3> QED BY ZenonT(30), <2>5, <2>7, <3>1 DEF SubmitReject
  <2>8. CASE SubmitStripe(r)
    <3>1. PICK a, c, o : p' = [p EXCEPT ![r] = [@ EXCEPT !.mask = {}, !.chunkSrc = a,
                                                         !.charged = c, !.primary = o]]
      BY ZenonT(30), <2>8 DEF SubmitStripe
    <3>2. [p[r] EXCEPT !.mask = {}, !.chunkSrc = a, !.charged = c, !.primary = o].failed = p[r].failed
      BY ZenonT(30), <2>3 DEF Fields
    <3> QED BY ZenonT(30), <2>5, <3>1, <3>2
  <2>9. CASE CancelReport(r)
    <3>1. PICK w : p' = [p EXCEPT ![r] = [@ EXCEPT !.charged = w, !.chunkSrc = <<>>]]
      BY ZenonT(30), <2>9 DEF CancelReport
    <3>2. [p[r] EXCEPT !.charged = w, !.chunkSrc = <<>>].failed = p[r].failed
      BY ZenonT(30), <2>3 DEF Fields
    <3> QED BY ZenonT(30), <2>5, <3>1, <3>2
  <2>10. CASE SubmitNoDst(r) \/ SubmitEnqueue(r) \/ Cancel(r)
    BY ZenonT(30), <2>4, <2>10 DEF SubmitNoDst, SubmitEnqueue, Cancel
  <2> QED BY ZenonT(30), <2>1, <2>6, <2>7, <2>8, <2>9, <2>10 DEF Caller
<1>3. CASE UNCHANGED conf /\ Issue
  <2> DEFINE q == Trim(queue)
             r == Turn(q)
             i == p[r].next + 1
             striped == p[r].chunkSrc # <<>>
             h == [req |-> r, chunk |-> i, striped |-> striped,
                   src |-> IF striped THEN p[r].chunkSrc[i] ELSE p[r].source,
                   refused |-> RingUsed >= RingDepth]
  <2>1. /\ MayIssue(q) /\ UNCHANGED <<poke, disp>>
        /\ flying' = flying \cup {h}
        /\ p' = [p EXCEPT ![r] = [p[r] EXCEPT !.next = i, !.issued = @ + 1]]
    BY ZenonT(30), <1>3 DEF Issue
  <2>2. r \in Reqs
    <3>1. \E c \in Priority : q[c] # <<>>
      BY ZenonT(30), <2>1 DEF MayIssue
    <3> QED BY <3>1, TurnFacts
  <2>3. p[r] = [k \in Fields |-> p[r][k]] /\ p = [u \in Reqs |-> p[u]]
    BY ZenonT(30), <2>2 DEF IoInv, IoTypes
  <2>4. h.refused = (RingUsed >= RingDepth)
    OBVIOUS
  <2>5. ~ReadsMayFail(conf) => ~(RingUsed >= RingDepth)
    BY ZenonT(30), <2>1, RingHasRoom
  <2> HIDE DEF r, q, h
  <2>6. p'[r].failed = p[r].failed /\ \A u \in Reqs : u # r => p'[u] = p[u]
    BY ZenonT(30), <2>1, <2>2, <2>3 DEF Fields
  <2> QED BY ZenonT(30), <1>3, <2>1, <2>4, <2>5, <2>6 DEF NoneFailed
<1>4. CASE UNCHANGED conf /\ \E f \in flying : Complete(f)
  <2>1. PICK f \in flying, ok \in BOOLEAN :
           HandleCompletion(f, ok) /\ (ok \/ f.refused \/ f.src \in conf.failing)
    BY ZenonT(30), <1>4 DEF Complete
  <2>2. /\ flying' \subseteq flying /\ UNCHANGED poke
        /\ disp.pc = "loop" /\ (disp' = disp \/ disp'.pc = "finish")
    BY ZenonT(30), <2>1 DEF HandleCompletion, AtLoop
  <2>3. f.req \in Reqs /\ p[f.req] = [k \in Fields |-> p[f.req][k]] /\ p = [u \in Reqs |-> p[u]]
    BY ZenonT(30) DEF IoInv, IoTypes, FlyingSound
  <2>4. PICK d, n, c, e : p' = [p EXCEPT ![f.req] =
           [p[f.req] EXCEPT !.done = d, !.failed = (p[f.req].failed \/ ~ok), !.next = n,
                            !.charged = c, !.srcErr = e]]
    BY ZenonT(30), <2>1 DEF HandleCompletion
  <2>5. p'[f.req].failed = (p[f.req].failed \/ ~ok) /\ \A u \in Reqs : u # f.req => p'[u] = p[u]
    BY ZenonT(30), <2>3, <2>4 DEF Fields
  <2>6. ~ReadsMayFail(conf) => ok
    BY ZenonT(30), <2>1 DEF NoneFailed, ReadsMayFail
  <2> QED BY ZenonT(30), <1>4, <2>2, <2>3, <2>5, <2>6 DEF NoneFailed
<1>5. CASE UNCHANGED conf /\ Finish
  <2>1. disp.pc = "finish" /\ disp.req \in Reqs /\ UNCHANGED <<poke, flying>>
    BY ZenonT(30), <1>5 DEF Finish, IoInv, IoTypes, Settling
  <2>2. ~p[disp.req].failed => disp' = [disp EXCEPT !.pc = "callback"]
    BY ZenonT(30), <1>5 DEF Finish
  <2>3. disp = [pc |-> disp.pc, req |-> disp.req] /\ p = [u \in Reqs |-> p[u]]
    BY DEF IoInv, IoTypes
  <2>4. ~p[disp.req].failed => disp'.pc = "callback"
    BY ZenonT(30), <2>2, <2>3
  <2>5. PICK n : p' = [p EXCEPT ![disp.req] = Blank] \/ p' = [p EXCEPT ![disp.req] = [Blank EXCEPT !.next = n]]
    BY ZenonT(30), <1>5 DEF Finish, Retry
  <2>6. ~Blank.failed /\ ~[Blank EXCEPT !.next = n].failed
    BY ZenonT(30) DEF Blank
  <2>7. ~p'[disp.req].failed /\ \A u \in Reqs : u # disp.req => p'[u] = p[u]
    BY ZenonT(30), <2>1, <2>3, <2>5, <2>6
  <2> QED BY ZenonT(30), <1>5, <2>1, <2>4, <2>7 DEF NoneFailed
<1>6. CASE UNCHANGED conf /\ (IssueNothing \/ Requeue \/ Callback \/ Settle \/ DispatcherExit)
  <2>1. UNCHANGED <<p, flying, poke>>
    BY ZenonT(30), <1>6 DEF IssueNothing, Requeue, Callback, Settle, DispatcherExit
  <2>2. disp' = disp \/ \E q \in {"loop", "settle", "exit"} : disp' = [disp EXCEPT !.pc = q]
    BY ZenonT(30), <1>6 DEF IssueNothing, Requeue, Callback, Settle, DispatcherExit
  <2>3. disp = [pc |-> disp.pc, req |-> disp.req]
    BY DEF IoInv, IoTypes
  <2>4. disp' = disp \/ disp'.pc \in {"loop", "settle", "exit"}
    BY ZenonT(30), <2>2, <2>3
  <2> QED BY ZenonT(30), <1>6, <2>1, <2>4 DEF NoneFailed
<1>7. CASE UNCHANGED conf /\ Aside
  <2>1. UNCHANGED core
    BY ZenonT(30), <1>7, AsideKeeps
  <2>2. ~conf.keepAlive => poke' \subseteq poke
    BY ZenonT(30), <1>7 DEF Aside, TickKeepAlive, FinishKeepAlive, ReadmitCheck, ReadmitEnd, ThermalUpdate,
       DropSource, EngramWait, Quiet, Stop
  <2> QED BY ZenonT(30), <1>7, <2>1, <2>2 DEF NoneFailed, ReadsMayFail, core
<1> QED BY ZenonT(30), <1>1, <1>2, <1>3, <1>4, <1>5, <1>6, <1>7 DEF IoNext, IoStep, Stopped, Dispatcher, Aside

\* The queues, the chunks in flight, the counters and the dispatcher agree about
\* every request, through failovers, cancels and refused submits.
THEOREM IoInvariant ==
    ASSUME NoCancelOfRetried
    PROVE  IoSpec => []IoInv
<1>1. IoInit => IoInv
  BY IoInitInv
<1>2. IoInv /\ NoneFailed /\ [IoNext]_ioVars => IoInv'
  BY IoNextKeeps
<1>3. IoInit => NoneFailed
  BY NoneFailedInit
<1>4. IoInv /\ NoneFailed /\ [IoNext]_ioVars => NoneFailed'
  BY NoneFailedNext
<1> QED BY <1>1, <1>2, <1>3, <1>4, PTL DEF IoSpec

\* When drain's condition holds nothing is in flight, no queue holds a chunk still
\* to issue, and every request that was queued has had its callback, except one a
\* cancel has taken out and not yet reported.
THEOREM DrainTheorem ==
    ASSUME NoCancelOfRetried
    PROVE  IoSpec => []DrainMeansSettled
<1>1. IoInv => DrainMeansSettled
  <2> SUFFICES ASSUME IoInv, outstanding = 0
               PROVE  /\ flying = {}
                      /\ \A r \in Reqs : st[r] \in {"live", "over"} => calls[r] = 1
                      /\ \A r \in Reqs : ~InQueue(r) \/ FullyIssued(r)
    BY DEF DrainMeansSettled
  <2>1. LiveReqs = {}
    BY ZenonT(30), LiveBound, FS_EmptySet DEF IoInv, OutstandingExact
  <2>2. \A r \in Reqs : st[r] # "live"
    BY <2>1 DEF LiveReqs
  <2>3. flying = {}
    BY ZenonT(30), <2>2 DEF IoInv, FlyingSound
  <2>4. \A r \in Reqs : InQueue(r) => FullyIssued(r)
    BY <2>2, IoAssumption DEF IoInv, QueueSound, Belongs, InQueue
  <2>5. \A r \in Reqs : st[r] = "over" => calls[r] = 1
    BY ZenonT(30) DEF IoInv, CalledOnce
  <2> QED BY ZenonT(30), <2>2, <2>3, <2>4, <2>5
<1> QED BY <1>1, IoInvariant, PTL

-----------------------------------------------------------------------------
(* What is issued, and when *)

\* Only issue_ready_chunks puts a chunk in flight.
LEMMA OnlyIssueAdds ==
    ASSUME [IoNext]_ioVars, ~Issue
    PROVE  flying' \subseteq flying
<1>1. ASSUME NEW r \in Reqs,
             SubmitRoute(r) \/ SubmitNoDst(r) \/ SubmitReject(r) \/ SubmitStripe(r)
      PROVE  flying' = flying
  BY <1>1 DEF SubmitRoute, SubmitNoDst, SubmitReject, SubmitStripe
<1>2. ASSUME NEW r \in Reqs, SubmitEnqueue(r) \/ Cancel(r) \/ CancelReport(r)
      PROVE  flying' = flying
  BY ZenonT(30), <1>2 DEF SubmitEnqueue, Cancel, CancelReport
<1>3. ASSUME NEW f \in flying, NEW ok \in BOOLEAN, HandleCompletion(f, ok)
      PROVE  flying' = flying \ {f}
  BY <1>3 DEF HandleCompletion
<1>4. ASSUME IssueNothing \/ Finish \/ Requeue \/ Callback \/ Settle \/ DispatcherExit
      PROVE  flying' = flying
  BY ZenonT(30), <1>4 DEF IssueNothing, Finish, Requeue, Callback, Settle, DispatcherExit
<1>5. ASSUME UNCHANGED core PROVE flying' = flying
  BY <1>5 DEF core
<1> QED BY ZenonT(30), <1>1, <1>2, <1>3, <1>4, <1>5, IoSteps

\* issue_ready_chunks keeps P0 first and the idle-time classes within their cap.
LEMMA IssueKeepsOrder ==
    ASSUME IoInv, Issue, NEW f \in flying' \ flying
    PROVE  LET c == Class[f.req] IN
           /\ (\E r \in Reqs : Class[r] = P0 /\ InQueue(r) /\ ~FullyIssued(r)) =>
                 c = P0 \/ (c = Engram /\ waiters /\ ClassOps(Engram) < EngramWaitChunks)
           /\ c \in {Lookahead, Backfill} /\ recent =>
                 Cardinality({g \in flying' : Class[g.req] \in {Lookahead, Backfill}})
                    <= BgCapBusy
<1> DEFINE q == Trim(queue)
<1>1. (\E c \in Priority : q[c] # <<>>) /\ ~Throttled(Class[Turn(q)])
  BY DEF Issue, MayIssue
<1>2. PICK r : r = Turn(q)
  OBVIOUS
<1>3. /\ r \in Reqs
      /\ q[P0] # <<>> => Class[r] = P0 \/ (Class[r] = Engram /\ Rescue(q))
  BY <1>1, <1>2, TurnFacts
<1>4. f.req = r /\ flying' = flying \cup {f}
  <2> DEFINE striped == p[r].chunkSrc # <<>>
             h == [req |-> r, chunk |-> p[r].next + 1, striped |-> striped,
                   src |-> IF striped THEN p[r].chunkSrc[p[r].next + 1] ELSE p[r].source,
                   refused |-> RingUsed >= RingDepth]
  <2>1. flying' = flying \cup {h}
    BY ZenonT(30), <1>2 DEF Issue
  <2>2. h.req = r
    OBVIOUS
  <2> HIDE DEF h
  <2>3. f = h
    BY ZenonT(30), <2>1
  <2> QED BY ZenonT(30), <2>1, <2>2, <2>3
<1>5. (\E u \in Reqs : Class[u] = P0 /\ InQueue(u) /\ ~FullyIssued(u)) => q[P0] # <<>>
  <2>1. P0 \in Priority
    BY DEF P0, Priority
  <2>2. (\E i \in DOMAIN queue[P0] : ~FullyIssued(queue[P0][i])) => q[P0] # <<>>
    BY <2>1, TrimFacts
  <2> QED BY <2>2 DEF InQueue
<1>6. Rescue(q) => waiters /\ ClassOps(Engram) < EngramWaitChunks
  BY DEF Rescue
<1>7. Class[r] \in {Lookahead, Backfill} /\ recent =>
         Cardinality({g \in flying' : Class[g.req] \in {Lookahead, Backfill}}) <= BgCapBusy
  <2> SUFFICES ASSUME Class[r] \in {Lookahead, Backfill}, recent
               PROVE  Cardinality({g \in flying' : Class[g.req] \in {Lookahead, Backfill}}) <= BgCapBusy
    OBVIOUS
  <2> DEFINE A == {g \in flying : Class[g.req] = Lookahead}
             B == {g \in flying : Class[g.req] = Backfill}
  <2>1. IsFiniteSet(A) /\ IsFiniteSet(B) /\ A \cap B = {}
    BY FS_Subset DEF IoInv, IoTypes, Lookahead, Backfill
  <2>2. ~(Cardinality(A) + Cardinality(B) >= BgCapBusy)
    BY <1>1, <1>2 DEF Throttled, ClassOps
  <2>3. {g \in flying' : Class[g.req] \in {Lookahead, Backfill}} = (A \cup B) \cup {f}
    BY <1>4
  <2>4. f \notin A \cup B
    OBVIOUS
  <2> HIDE DEF A, B
  <2>5. /\ IsFiniteSet(A \cup B)
        /\ Cardinality(A \cup B) = Cardinality(A) + Cardinality(B) - Cardinality(A \cap B)
    BY <2>1, FS_Union
  <2>6. Cardinality(A) \in Nat /\ Cardinality(B) \in Nat /\ Cardinality(A \cap B) = 0
    BY ZenonT(30), <2>1, FS_CardinalityType, FS_EmptySet
  <2>7. Cardinality((A \cup B) \cup {f}) = Cardinality(A \cup B) + 1
    BY ZenonT(30), <2>4, <2>5, FS_AddElement
  <2>8. BgCapBusy \in Nat
    BY IoAssumption
  <2>9. Cardinality(A \cup B) = Cardinality(A) + Cardinality(B)
    BY <2>5, <2>6
  <2>10. (Cardinality(A) + Cardinality(B)) + 1 <= BgCapBusy
    BY <2>2, <2>6, <2>8
  <2> QED BY ZenonT(30), <2>3, <2>7, <2>9, <2>10
<1> QED BY ZenonT(30), <1>3, <1>4, <1>5, <1>6, <1>7

\* No chunk of a lower class is issued while a P0 chunk waits, except Engram rows
\* the GPU is blocked on; idle-time classes keep to their cap while P0 is recent.
THEOREM P0FirstTheorem ==
    ASSUME NoCancelOfRetried
    PROVE  IoSpec => P0First
<1> DEFINE Ordered ==
             \A f \in flying' \ flying :
                LET c == Class[f.req] IN
                /\ (\E r \in Reqs : Class[r] = P0 /\ InQueue(r) /\ ~FullyIssued(r)) =>
                      c = P0 \/ (c = Engram /\ waiters /\ ClassOps(Engram) < EngramWaitChunks)
                /\ c \in {Lookahead, Backfill} /\ recent =>
                      Cardinality({g \in flying' : Class[g.req] \in {Lookahead, Backfill}})
                         <= BgCapBusy
<1>1. IoInv /\ [IoNext]_ioVars => [Ordered]_ioVars
  <2> SUFFICES ASSUME IoInv, [IoNext]_ioVars
               PROVE  Ordered
    OBVIOUS
  <2>1. CASE Issue
    BY <2>1, IssueKeepsOrder
  <2>2. CASE ~Issue
    BY <2>2, OnlyIssueAdds
  <2> QED BY ZenonT(30), <2>1, <2>2
<1> HIDE DEF Ordered
<1>2. IoSpec => [][Ordered]_ioVars
  BY <1>1, IoInvariant, PTL DEF IoSpec
<1> QED BY <1>2 DEF Ordered, P0First

-----------------------------------------------------------------------------
(* What a caller sees *)

PhaseOf == [r \in Reqs |-> Phase(r)]
Writes == {f.req : f \in flying}

\* The promises of IoService, in the engine's terms.
LEMMA ServiceSteps ==
    ASSUME NEW r \in Reqs,
           \/ PhaseOf[r] = "new" /\ PhaseOf' = [PhaseOf EXCEPT ![r] = "accepted"] /\ Writes' = Writes
           \/ PhaseOf[r] = "new" /\ PhaseOf' = [PhaseOf EXCEPT ![r] = "refused"] /\ Writes' = Writes
           \/ PhaseOf[r] = "accepted" /\ Writes' = Writes \cup {r} /\ PhaseOf' = PhaseOf
           \/ r \in Writes /\ Writes' = Writes \ {r} /\ PhaseOf' = PhaseOf
           \/ /\ PhaseOf[r] = "accepted" /\ r \notin Writes
              /\ PhaseOf' = [PhaseOf EXCEPT ![r] = "answered"] /\ Writes' = Writes
    PROVE  Service!AbsNext
BY ZenonT(30) DEF Service!AbsNext, Service!Accept, Service!Refuse, Service!BeginWrite, Service!EndWrite,
       Service!Answer, PhaseOf, Writes

\* A step after which every caller sees what it saw.
LEMMA ServiceStutters ==
    ASSUME PhaseOf' = PhaseOf, Writes' = Writes
    PROVE  UNCHANGED Service!absVars
BY DEF Service!absVars, PhaseOf, Writes

\* What a caller sees depends on nothing but the stage and the callbacks.
LEMMA PhaseKept ==
    ASSUME \A r \in Reqs : Phase(r)' = Phase(r)
    PROVE  PhaseOf' = PhaseOf
BY DEF PhaseOf

\* Only r's phase changes, to ph.
LEMMA PhaseMoves ==
    ASSUME NEW r \in Reqs, NEW ph, Phase(r)' = ph,
           \A q \in Reqs : q # r => Phase(q)' = Phase(q)
    PROVE  PhaseOf' = [PhaseOf EXCEPT ![r] = ph] /\ PhaseOf[r] = Phase(r)
BY ZenonT(30) DEF PhaseOf

\* A step of the engine is a step of the service it implements.
LEMMA ServiceStep ==
    ASSUME IoInv, NoCancelOfRetried, [IoNext]_ioVars
    PROVE  [Service!AbsNext]_(Service!absVars)
<1> USE DEF IoInv
<1>1. ASSUME NEW r \in Reqs,
             SubmitRoute(r) \/ SubmitNoDst(r) \/ SubmitReject(r) \/ SubmitStripe(r)
      PROVE  [Service!AbsNext]_(Service!absVars)
  <2>1. /\ st[r] \in {"new", "routed"} /\ UNCHANGED <<flying, calls>>
        /\ \/ st' = [st EXCEPT ![r] = "routed"] \/ st' = [st EXCEPT ![r] = "striped"]
           \/ st' = [st EXCEPT ![r] = "refused"]
    BY <1>1 DEF SubmitRoute, SubmitNoDst, SubmitReject, SubmitStripe
  <2>2. calls[r] = 0 /\ Writes' = Writes
    BY <2>1, Unqueued DEF Writes
  <2>3. Phase(r) = "new" /\ \A q \in Reqs : q # r => Phase(q)' = Phase(q)
    BY <2>1, <2>2 DEF Phase, IoTypes
  <2>4. CASE st' = [st EXCEPT ![r] = "refused"]
    <3>1. Phase(r)' = "refused"
      BY <2>1, <2>2, <2>4 DEF Phase, IoTypes
    <3> QED BY ZenonT(30), <2>2, <2>3, <3>1, PhaseMoves, ServiceSteps
  <2>5. CASE st' = [st EXCEPT ![r] = "routed"] \/ st' = [st EXCEPT ![r] = "striped"]
    <3>1. Phase(r)' = "new"
      BY <2>1, <2>2, <2>5 DEF Phase, IoTypes
    <3> QED BY ZenonT(30), <2>2, <2>3, <3>1, PhaseKept, ServiceStutters
  <2> QED BY ZenonT(30), <2>1, <2>4, <2>5
<1>2. ASSUME NEW r \in Reqs, SubmitEnqueue(r)
      PROVE  [Service!AbsNext]_(Service!absVars)
  <2>1. /\ st[r] \in {"routed", "striped"} /\ UNCHANGED <<flying, calls>>
        /\ st' = [st EXCEPT ![r] = "live"]
    BY <1>2 DEF SubmitEnqueue
  <2>2. calls[r] = 0 /\ Writes' = Writes
    BY <2>1, Unqueued DEF Writes
  <2>3. /\ Phase(r) = "new" /\ Phase(r)' = "accepted"
        /\ \A q \in Reqs : q # r => Phase(q)' = Phase(q)
    BY <2>1, <2>2 DEF Phase, IoTypes
  <2> QED BY ZenonT(30), <2>2, <2>3, PhaseMoves, ServiceSteps
<1>3. ASSUME NEW r \in Reqs, Cancel(r)
      PROVE  [Service!AbsNext]_(Service!absVars)
  <2>1. /\ st[r] = "live" /\ UNCHANGED <<flying, calls>> /\ st' = [st EXCEPT ![r] = "cancelled"]
    BY <1>3 DEF Cancel
  <2>2. Writes' = Writes
    BY <2>1 DEF Writes
  <2>3. \A q \in Reqs : Phase(q)' = Phase(q)
    BY ZenonT(30), <2>1 DEF Phase, IoTypes
  <2> QED BY ZenonT(30), <2>2, <2>3, PhaseKept, ServiceStutters
<1>4. ASSUME NEW r \in Reqs, CancelReport(r)
      PROVE  [Service!AbsNext]_(Service!absVars)
  <2>1. /\ st[r] = "cancelled" /\ UNCHANGED flying
        /\ st' = [st EXCEPT ![r] = "over"] /\ calls' = [calls EXCEPT ![r] = @ + 1]
    BY ZenonT(30), <1>4 DEF CancelReport
  <2>2. calls[r] = 0 /\ InFlight(r) = {} /\ Writes' = Writes
    BY <2>1, Unqueued DEF Writes
  <2>3. r \notin Writes
    BY <2>2 DEF Writes, InFlight
  <2>4. /\ Phase(r) = "accepted" /\ Phase(r)' = "answered"
        /\ \A q \in Reqs : q # r => Phase(q)' = Phase(q)
    BY <2>1, <2>2 DEF Phase, IoTypes
  <2> QED BY ZenonT(30), <2>2, <2>3, <2>4, PhaseMoves, ServiceSteps
<1>5. ASSUME NEW f \in flying, NEW ok \in BOOLEAN, HandleCompletion(f, ok)
      PROVE  [Service!AbsNext]_(Service!absVars)
  <2>1. flying' = flying \ {f} /\ UNCHANGED <<st, calls>>
    BY <1>5 DEF HandleCompletion
  <2>2. PhaseOf' = PhaseOf
    BY <2>1 DEF PhaseOf, Phase
  <2>3. PICK r \in Reqs : r = f.req /\ r \in Writes
    BY DEF FlyingSound, Writes
  <2>4. Writes' = Writes \/ Writes' = Writes \ {r}
    BY <2>1, <2>3 DEF Writes
  <2> QED BY ZenonT(30), <2>2, <2>3, <2>4, ServiceSteps, ServiceStutters
<1>6. ASSUME Issue
      PROVE  [Service!AbsNext]_(Service!absVars)
  <2> DEFINE q == Trim(queue)
  <2>1. /\ disp.pc = "loop" /\ \E c \in Priority : q[c] # <<>>
        /\ UNCHANGED <<st, calls>>
    BY <1>6 DEF Issue, AtLoop, MayIssue
  <2>2. PICK r : r = Turn(q)
    OBVIOUS
  <2>3. r \in Reqs /\ st[r] = "live"
    BY <2>1, <2>2, TurnFacts
  <2>4. Writes' = Writes \cup {r}
    <3> DEFINE striped == p[r].chunkSrc # <<>>
               h == [req |-> r, chunk |-> p[r].next + 1, striped |-> striped,
                     src |-> IF striped THEN p[r].chunkSrc[p[r].next + 1] ELSE p[r].source,
                     refused |-> RingUsed >= RingDepth]
    <3>1. flying' = flying \cup {h}
      BY ZenonT(30), <1>6, <2>2 DEF Issue
    <3>2. h.req = r
      OBVIOUS
    <3> HIDE DEF h
    <3> QED BY <3>1, <3>2 DEF Writes
  <2>5. calls[r] = 0
    BY <2>1, <2>3 DEF CalledOnce
  <2>6. PhaseOf[r] = "accepted" /\ PhaseOf' = PhaseOf
    BY <2>1, <2>3, <2>5 DEF PhaseOf, Phase
  <2> QED BY ZenonT(30), <2>3, <2>4, <2>6, ServiceSteps
<1>7. ASSUME Callback
      PROVE  [Service!AbsNext]_(Service!absVars)
  <2>1. /\ disp.pc = "callback" /\ disp.pc \in Settling /\ UNCHANGED <<st, flying>>
        /\ calls' = [calls EXCEPT ![disp.req] = @ + 1]
    BY ZenonT(30), <1>7 DEF Callback, Settling
  <2>2. PICK r \in Reqs : r = disp.req /\ st[r] = "live" /\ InFlight(r) = {}
    BY ZenonT(30), <2>1 DEF IoTypes, SettlingSound
  <2>3. calls[r] = 0
    BY ZenonT(30), <2>1, <2>2 DEF CalledOnce
  <2>4. r \notin Writes /\ Writes' = Writes
    BY ZenonT(30), <2>1, <2>2 DEF Writes, InFlight
  <2>5. calls'[r] = 1 /\ \A q \in Reqs : q # r => calls'[q] = calls[q]
    BY <2>1, <2>2, <2>3 DEF IoTypes
  <2>6. Phase(r) = "accepted" /\ Phase(r)' = "answered"
    <3>1. Phase(r) = "accepted"
      BY <2>2, <2>3 DEF Phase
    <3>2. Phase(r)' = "answered"
      BY <2>5 DEF Phase
    <3> QED BY <3>1, <3>2
  <2>7. \A q \in Reqs : q # r => Phase(q)' = Phase(q)
    BY ZenonT(30), <2>1, <2>5 DEF Phase
  <2> QED BY ZenonT(30), <2>4, <2>6, <2>7, PhaseMoves, ServiceSteps
<1>8. ASSUME Settle
      PROVE  [Service!AbsNext]_(Service!absVars)
  <2>1. /\ disp.pc = "settle" /\ disp.pc \in Settling /\ UNCHANGED <<calls, flying>>
        /\ st' = [st EXCEPT ![disp.req] = "over"]
    BY ZenonT(30), <1>8 DEF Settle, Settling
  <2>2. PICK r \in Reqs : r = disp.req
    BY <2>1 DEF IoTypes
  <2>3. calls[r] = 1
    BY <2>1, <2>2 DEF CalledOnce
  <2>4. Writes' = Writes
    BY <2>1 DEF Writes
  <2>5. \A q \in Reqs : Phase(q)' = Phase(q)
    BY <2>1, <2>2, <2>3 DEF Phase, IoTypes
  <2> QED BY ZenonT(30), <2>4, <2>5, PhaseKept, ServiceStutters
<1>9. ASSUME \/ IssueNothing \/ Finish \/ Requeue \/ DispatcherExit
             \/ UNCHANGED core
      PROVE  [Service!AbsNext]_(Service!absVars)
  <2>1. UNCHANGED <<st, calls, flying>>
    BY ZenonT(30), <1>9 DEF IssueNothing, Finish, Requeue, DispatcherExit, core
  <2>2. Writes' = Writes /\ PhaseOf' = PhaseOf
    BY <2>1 DEF Writes, PhaseOf, Phase
  <2> QED BY <2>2, ServiceStutters
<1> QED BY ZenonT(30), <1>1, <1>2, <1>3, <1>4, <1>5, <1>6, <1>7, <1>8, <1>9, IoSteps

\* The engine implements IoService: one callback for each accepted request, and no
\* drive writes to a destination before acceptance or after the callback.
THEOREM IoRefinement ==
    ASSUME NoCancelOfRetried
    PROVE  IoSpec => ImplementsIoService
<1>1. IoInit => Service!AbsInit
  <2> SUFFICES ASSUME IoInit
               PROVE  Service!AbsInit
    OBVIOUS
  <2>1. \A r \in Reqs : Phase(r) = "new"
    BY DEF IoInit, Phase
  <2>2. {f.req : f \in flying} = {}
    BY DEF IoInit
  <2> QED BY <2>1, <2>2 DEF Service!AbsInit
<1>2. IoInv /\ [IoNext]_ioVars => [Service!AbsNext]_(Service!absVars)
  BY ServiceStep
<1> QED BY <1>1, <1>2, IoInvariant, PTL DEF IoSpec, ImplementsIoService, Service!AbsSpec

=============================================================================
