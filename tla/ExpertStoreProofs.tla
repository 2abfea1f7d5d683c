-------------------------- MODULE ExpertStoreProofs --------------------------
(***************************************************************************)
(* Proofs about the expert store, for any number of slots, experts, runs,  *)
(* stamps and timeline values.                                             *)
(***************************************************************************)
EXTENDS ExpertStore, FiniteSetTheorems, TLAPS

\* The slots in a lifecycle state, and the ones the pinned gauge counts.
InState(x) == {s \in Slot : state[s] = x}
PinnedSlots == {s \in Slot : state[s] = "Resident" /\ tier[s] = "Pinned"}

\* The inductive invariant: every invariant of the store, together.
Placement == IndexExact /\ FreeListExact /\ TableExact
Guarding == ReadersHeld /\ ReadersGuarded
StoreInv == TypeOK /\ Placement /\ GaugesExact /\ FrozenIsFull /\ FillOutstanding /\ Guarding

-----------------------------------------------------------------------------
(* Counting slots *)

\* The slots are a finite set of NumSlots elements.
LEMMA SlotCount == IsFiniteSet(Slot) /\ Cardinality(Slot) = NumSlots
<1>1. 0 \in Int /\ NumSlots - 1 \in Int
  BY StoreAssumption
<1>2. IsFiniteSet(0 .. NumSlots - 1)
      /\ Cardinality(0 .. NumSlots - 1) = IF 0 > NumSlots - 1 THEN 0 ELSE NumSlots - 1 - 0 + 1
  BY <1>1, FS_Interval
<1> QED BY <1>2, StoreAssumption DEF Slot

\* A slot that enters a set of slots adds one to its size.
LEMMA CountIn ==
    ASSUME NEW S \in SUBSET Slot, NEW T \in SUBSET Slot, NEW s \in Slot,
           s \notin S, T = S \union {s}
    PROVE  Cardinality(S) \in Nat /\ Cardinality(T) = Cardinality(S) + 1
<1>1. IsFiniteSet(S)
  BY SlotCount, FS_Subset
<1> QED BY ZenonT(30), <1>1, FS_CardinalityType, FS_AddElement

\* A slot that leaves it takes one off.
LEMMA CountOut ==
    ASSUME NEW S \in SUBSET Slot, NEW T \in SUBSET Slot, NEW s \in Slot,
           s \in S, T = S \ {s}
    PROVE  Cardinality(T) \in Nat /\ Cardinality(S) - 1 = Cardinality(T)
<1>1. IsFiniteSet(S)
  BY SlotCount, FS_Subset
<1>2. Cardinality(S) \in Nat /\ Cardinality(T) \in Nat
  BY <1>1, FS_CardinalityType, FS_RemoveElement
<1>3. Cardinality(T) = Cardinality(S) - 1
  BY <1>1, FS_RemoveElement
<1> QED BY <1>2, <1>3

\* A set of as many slots as there are is all of them: how the resident gauge
\* tells that the cache is full.
LEMMA CountAll ==
    ASSUME NEW S \in SUBSET Slot, Cardinality(S) = NumSlots
    PROVE  S = Slot
BY SlotCount, FS_Subset

\* A stamp of last_use is a number, and so is a value of the timeline.
LEMMA StampsAreNaturals == \A t \in Stamp : t \in Nat
BY StoreAssumption DEF Stamp

LEMMA TimelineIsNumeric == \A n \in Timeline : n \in Int
BY StoreAssumption DEF Timeline

\* The mark of absence is no slot.
LEMMA NoSlotIsNoSlot == \A s \in Slot : s # NoSlot
BY StoreAssumption DEF Slot, NoSlot

\* All the slots but one are fewer than the slots.
LEMMA OneFewer == \A n \in Nat : n <= NumSlots - 1 => n < NumSlots
BY StoreAssumption

-----------------------------------------------------------------------------
(* Placement: index_, free_list_ and the pointer table *)

\* release_locked on a slot in use keeps index_ and free_list_ exact.
LEMMA ReleaseKeepsPlacement ==
    ASSUME TypeOK, Placement, NEW s \in Slot, state[s] # "Free", ReleaseLocked(s),
           table' = [table EXCEPT ![key[s]] = NoSlot]
    PROVE  Placement'
<1>1. index[key[s]] = s
  BY DEF TypeOK, Placement, IndexExact
<1>2. s # NoSlot
  BY StoreAssumption DEF Slot, NoSlot
<1>3. state' = [state EXCEPT ![s] = "Free"] /\ key' = [key EXCEPT ![s] = DefaultKey]
      /\ index' = [index EXCEPT ![key[s]] = NoSlot] /\ freeList' = Append(freeList, s)
  BY DEF ReleaseLocked
<1>4. IndexExact'
  BY <1>1, <1>2, <1>3 DEF TypeOK, Placement, IndexExact, Held
<1>5. FreeListExact'
  <2>1. /\ Len(freeList') = Len(freeList) + 1
        /\ \A i \in 1 .. Len(freeList) : freeList'[i] = freeList[i]
        /\ freeList'[Len(freeList) + 1] = s
        /\ Len(freeList) \in Nat
    BY <1>3 DEF TypeOK
  <2>2. \A i \in 1 .. Len(freeList) : freeList[i] # s /\ freeList[i] \in Slot
    <3>1. \A i \in 1 .. Len(freeList) : freeList[i] # s
      BY ZenonT(30) DEF Placement, FreeListExact
    <3>2. freeList \in Seq(Slot)
      BY ZenonT(30) DEF TypeOK
    <3> QED BY <3>1, <3>2
  <2>3. \A i, j \in 1 .. Len(freeList') : freeList'[i] = freeList'[j] => i = j
    BY <2>1, <2>2 DEF Placement, FreeListExact
  <2>4. \A i \in 1 .. Len(freeList') : state'[freeList'[i]] = "Free"
    BY <1>3, <2>1, <2>2 DEF Placement, FreeListExact, TypeOK
  <2>5. ASSUME NEW t \in Slot, state'[t] = "Free"
        PROVE  \E i \in 1 .. Len(freeList') : freeList'[i] = t
    <3>1. CASE t = s
      BY <3>1, <2>1
    <3>2. CASE t # s
      <4>1. state[t] = "Free"
        BY <3>2, <2>5, <1>3 DEF TypeOK
      <4>2. PICK i \in 1 .. Len(freeList) : freeList[i] = t
        BY <4>1 DEF Placement, FreeListExact
      <4> QED BY <4>2, <2>1
    <3> QED BY <3>1, <3>2
  <2> QED BY <2>3, <2>4, <2>5 DEF FreeListExact
<1>6. TableExact'
  BY <1>1, <1>2, <1>3 DEF TypeOK, Placement, IndexExact, TableExact, Held
<1> QED BY <1>4, <1>5, <1>6 DEF Placement

\* reserve_locked keeps them exact: the slot on top of the stack is free, and
\* is on the stack once.
LEMMA BeginFillKeepsPlacement ==
    ASSUME TypeOK, Placement, NEW k \in Keys, NEW t \in Tier, NEW n \in 1 .. MaxRuns,
           BeginFill(k, t, n)
    PROVE  Placement'
<1>1. PICK N \in Nat \ {0}, s \in Slot :
         N = Len(freeList) /\ s = freeList[N] /\ state[s] = "Free"
  <2>1. Len(freeList) \in Nat \ {0}
    BY DEF TypeOK, BeginFill
  <2>2. freeList[Len(freeList)] \in Slot /\ state[freeList[Len(freeList)]] = "Free"
    BY <2>1 DEF TypeOK, Placement, FreeListExact
  <2> QED BY <2>1, <2>2
<1>2. /\ state' = [state EXCEPT ![s] = "Filling"] /\ key' = [key EXCEPT ![s] = k]
      /\ index' = [index EXCEPT ![k] = s] /\ table' = table
      /\ freeList' = SubSeq(freeList, 1, N - 1) /\ index[k] = NoSlot
  BY <1>1 DEF BeginFill, Held
<1>3. s # NoSlot
  BY <1>1, StoreAssumption DEF Slot, NoSlot
<1>4. IndexExact'
  <2>1. \A j \in Keys : index[j] # s
    BY <1>1, <1>3 DEF Placement, IndexExact, Held
  <2>2. \A j \in Keys : index'[j] # NoSlot => state'[index'[j]] # "Free" /\ key'[index'[j]] = j
    BY ZenonT(30), <1>1, <1>2, <1>3, <2>1 DEF TypeOK, Placement, IndexExact, Held
  <2>3. \A u \in Slot : state[u] # "Free" => index[key[u]] = u /\ key[u] # k
    BY ZenonT(30), <1>2, NoSlotIsNoSlot DEF TypeOK, Placement, IndexExact
  <2>4. \A u \in Slot : state'[u] # "Free" => index'[key'[u]] = u
    BY ZenonT(30), <1>1, <1>2, <2>3 DEF TypeOK
  <2> QED BY <2>2, <2>4 DEF IndexExact, Held
<1>5. FreeListExact'
  <2>1. /\ Len(freeList') = N - 1
        /\ \A i \in 1 .. N - 1 : freeList'[i] = freeList[i]
    BY <1>1, <1>2 DEF TypeOK
  <2>2. \A i \in 1 .. N - 1 : freeList[i] # s /\ freeList[i] \in Slot
    BY <1>1 DEF TypeOK, Placement, FreeListExact
  <2>3. \A i, j \in 1 .. Len(freeList') : freeList'[i] = freeList'[j] => i = j
    <3>1. \A i, j \in 1 .. N - 1 : freeList[i] = freeList[j] => i = j
      BY <1>1 DEF Placement, FreeListExact
    <3> QED BY ZenonT(30), <2>1, <3>1
  <2>4. \A i \in 1 .. N - 1 : state[freeList[i]] = "Free"
    BY <1>1 DEF Placement, FreeListExact
  <2>5. \A i \in 1 .. Len(freeList') : state'[freeList'[i]] = "Free"
    BY <1>2, <2>1, <2>2, <2>4 DEF TypeOK
  <2>6. ASSUME NEW u \in Slot, state'[u] = "Free"
        PROVE  \E i \in 1 .. Len(freeList') : freeList'[i] = u
    <3>1. u # s /\ state[u] = "Free"
      BY <1>1, <1>2, <2>6 DEF TypeOK
    <3>2. PICK i \in 1 .. N : freeList[i] = u
      BY <3>1, <1>1 DEF Placement, FreeListExact
    <3>3. i \in 1 .. N - 1
      BY <3>1, <3>2, <1>1
    <3> QED BY <3>2, <3>3, <2>1
  <2> QED BY <2>3, <2>5, <2>6 DEF FreeListExact
<1>6. TableExact'
  BY <1>1, <1>2, <1>3 DEF TypeOK, Placement, IndexExact, TableExact, Held
<1> QED BY <1>4, <1>5, <1>6 DEF Placement

\* publish_locked publishes the slot that has just become resident.
LEMMA SettleKeepsPlacement ==
    ASSUME TypeOK, Placement, NEW s \in Slot, NEW token, state[s] = "Filling",
           SettleResident(s, token)
    PROVE  Placement'
<1>1. index[key[s]] = s /\ s # NoSlot
  BY StoreAssumption DEF TypeOK, Placement, IndexExact, Slot, NoSlot
<1>2. /\ state' = [state EXCEPT ![s] = "Resident"] /\ table' = [table EXCEPT ![key[s]] = s]
      /\ key' = key /\ index' = index /\ freeList' = freeList
  BY DEF SettleResident
<1>3. IndexExact'
  BY <1>1, <1>2 DEF TypeOK, Placement, IndexExact, Held
<1>4. FreeListExact'
  <2>1. FreeListExact
    BY ZenonT(30) DEF Placement
  <2>2. \A u \in Slot : u # s => state'[u] = state[u]
    BY <1>2 DEF TypeOK
  <2>3. state'[s] = "Resident"
    BY <1>2 DEF TypeOK
  <2>4. \A i \in 1 .. Len(freeList) : freeList[i] \in Slot
    BY DEF TypeOK
  <2> QED BY <1>2, <2>1, <2>2, <2>3, <2>4, ZenonT(30) DEF FreeListExact
<1>5. TableExact'
  BY <1>1, <1>2 DEF TypeOK, Placement, IndexExact, TableExact, Held
<1> QED BY <1>3, <1>4, <1>5 DEF Placement

\* What release_locked writes is well typed.
LEMMA ReleaseKeepsTypes ==
    ASSUME TypeOK, NEW s \in Slot, ReleaseLocked(s)
    PROVE  /\ state' \in [Slot -> SlotState] /\ key' \in [Slot -> Keys]
           /\ tier' \in [Slot -> Tier] /\ lastUse' \in [Slot -> Stamp]
           /\ guard' \in [Slot -> Timeline] /\ runsTotal' \in [Slot -> 0 .. MaxRuns]
           /\ runsDone' \in [Slot -> 0 .. MaxRuns] /\ runFailed' \in [Slot -> BOOLEAN]
           /\ freeList' \in Seq(Slot) /\ index' \in [Keys -> Slot \union {NoSlot}]
<1>1. state' \in [Slot -> SlotState] /\ key' \in [Slot -> Keys]
      /\ tier' \in [Slot -> Tier] /\ lastUse' \in [Slot -> Stamp]
  BY StoreAssumption DEF ReleaseLocked, TypeOK, SlotState
<1>2. 0 \in Timeline /\ 0 \in 0 .. MaxRuns
  BY StoreAssumption DEF Timeline
<1>3. /\ guard' \in [Slot -> Timeline] /\ runsTotal' \in [Slot -> 0 .. MaxRuns]
      /\ runsDone' \in [Slot -> 0 .. MaxRuns] /\ runFailed' \in [Slot -> BOOLEAN]
  BY <1>2 DEF ReleaseLocked, TypeOK
<1>4. freeList' \in Seq(Slot)
  BY DEF ReleaseLocked, TypeOK
<1>5. index' \in [Keys -> Slot \union {NoSlot}]
  BY DEF ReleaseLocked, TypeOK
<1> QED BY <1>1, <1>3, <1>4, <1>5

-----------------------------------------------------------------------------
(* One lemma per way a slot changes state *)

\* An eviction. The guard protects the readers: a slot that may go has a
\* guard the timeline has passed, and every reader's guard is beyond it.
LEMMA EvictSlotKeepsInv ==
    ASSUME StoreInv, NEW s \in Evictable, EvictSlot(s), evicting' \in Slot \union {NoSlot}
    PROVE  StoreInv'
<1> USE DEF StoreInv
<1>1. s \in Slot /\ state[s] = "Resident" /\ tier[s] # "Pinned" /\ guard[s] <= completed
      /\ ~fixedCache
  BY DEF Evictable
<1>2. /\ state' = [state EXCEPT ![s] = "Free"] /\ key' = [key EXCEPT ![s] = DefaultKey]
      /\ guard' = [guard EXCEPT ![s] = 0] /\ runsTotal' = [runsTotal EXCEPT ![s] = 0]
      /\ runsDone' = [runsDone EXCEPT ![s] = 0] /\ runFailed' = [runFailed EXCEPT ![s] = FALSE]
      /\ tier' = tier /\ lastUse' = lastUse /\ freeList' = Append(freeList, s)
      /\ index' = [index EXCEPT ![key[s]] = NoSlot]
      /\ table' = [table EXCEPT ![key[s]] = NoSlot]
      /\ stats' = [stats EXCEPT !.resident = @ - 1, !.free = @ + 1]
      /\ completed' = completed /\ fixedCache' = fixedCache /\ cacheFrozen' = cacheFrozen
      /\ readers' = readers
  BY DEF EvictSlot, ReleaseLocked, cacheVars
<1>3. Placement'
  BY ZenonT(30), <1>1, ReleaseKeepsPlacement DEF EvictSlot
<1>4. GaugesExact' /\ stats' \in Gauges
  <2>1. /\ InState("Resident")' = InState("Resident") \ {s}
        /\ InState("Filling")' = InState("Filling")
        /\ InState("Free")' = InState("Free") \union {s}
        /\ PinnedSlots' = PinnedSlots
    BY <1>1, <1>2 DEF InState, PinnedSlots, TypeOK
  <2>2. s \in InState("Resident") /\ s \notin InState("Free")
    BY <1>1 DEF InState
  <2>3. Cardinality(InState("Resident")') \in Nat
        /\ Cardinality(InState("Resident")) - 1 = Cardinality(InState("Resident")')
    BY <1>1, <2>1, <2>2, CountOut DEF InState
  <2>4. Cardinality(InState("Free")') = Cardinality(InState("Free")) + 1
    BY <1>1, <2>1, <2>2, CountIn DEF InState
  <2>5. GaugesExact'
    BY ZenonT(30), <1>2, <2>1, <2>3, <2>4 DEF GaugesExact, InState, PinnedSlots, TypeOK, Gauges
  <2>6. stats.resident = Cardinality(InState("Resident"))
    BY DEF GaugesExact, InState
  <2>7. stats.resident - 1 \in Nat
    BY <2>3, <2>6
  <2>8. stats' \in Gauges
    <3>1. stats \in Gauges /\ stats.free + 1 \in Nat
      BY DEF TypeOK, Gauges
    <3> QED BY ZenonT(30), <1>2, <2>7, <3>1 DEF Gauges
  <2> QED BY <2>5, <2>8
<1>5. TypeOK'
  <2>1. table' \in [Keys -> Slot \union {NoSlot}]
    BY ZenonT(30), <1>2 DEF TypeOK
  <2> QED BY <1>1, <1>2, <1>4, <2>1, ReleaseKeepsTypes DEF TypeOK, EvictSlot
<1>6. FrozenIsFull' /\ FillOutstanding'
  BY <1>1, <1>2 DEF FrozenIsFull, FillOutstanding, TypeOK
<1>7. ASSUME NEW r \in readers PROVE r.slot # s /\ r.slot \in Slot /\ r.key # key[s]
  <2>1. r.slot \in Slot /\ r.key \in Keys /\ r.guard \in Nat /\ guard[r.slot] \in Nat
        /\ completed \in Nat
    BY DEF TypeOK, Reader, Timeline
  <2>2. guard[r.slot] >= r.guard /\ r.guard > completed
    BY DEF Guarding, ReadersGuarded
  <2>3. r.slot # s
    BY <1>1, <2>1, <2>2
  <2>4. state[r.slot] = "Resident" /\ key[r.slot] = r.key
    BY DEF Guarding, ReadersHeld
  <2>5. index[r.key] = r.slot /\ index[key[s]] = s
    BY <1>1, <2>1, <2>4 DEF Placement, IndexExact
  <2> QED BY <2>1, <2>3, <2>5
<1>8. Guarding'
  BY <1>1, <1>2, <1>7 DEF Guarding, ReadersHeld, ReadersGuarded, TypeOK
<1> QED BY <1>3, <1>4, <1>5, <1>6, <1>8

\* No reader holds an address in a slot that is not resident.
LEMMA ReaderElsewhere ==
    ASSUME TypeOK, Placement, Guarding, NEW s \in Slot, state[s] # "Resident",
           NEW r \in readers
    PROVE  /\ r.slot \in Slot /\ r.key \in Keys
           /\ r.slot # s /\ (state[s] = "Filling" => r.key # key[s])
<1>1. r.slot \in Slot /\ r.key \in Keys
  BY DEF TypeOK, Reader
<1>2. state[r.slot] = "Resident" /\ key[r.slot] = r.key
  BY DEF Guarding, ReadersHeld
<1>3. index[r.key] = r.slot
  BY <1>1, <1>2 DEF Placement, IndexExact
<1>4. state[s] = "Filling" => index[key[s]] = s
  BY DEF Placement, IndexExact
<1> QED BY <1>1, <1>2, <1>3, <1>4

\* A fill that failed: the slot was never published, so only the free list,
\* index_ and the gauges move.
LEMMA SettleFailedKeepsInv ==
    ASSUME StoreInv, NEW s \in Slot, state[s] = "Filling", SettleFailed(s),
           UNCHANGED <<completed, fixedCache, clientVars>>
    PROVE  StoreInv'
<1> USE DEF StoreInv
<1>1. /\ state' = [state EXCEPT ![s] = "Free"] /\ key' = [key EXCEPT ![s] = DefaultKey]
      /\ guard' = [guard EXCEPT ![s] = 0] /\ tier' = tier
      /\ runsTotal' = [runsTotal EXCEPT ![s] = 0] /\ runsDone' = [runsDone EXCEPT ![s] = 0]
      /\ table' = table /\ stats' = [stats EXCEPT !.filling = @ - 1, !.free = @ + 1]
      /\ cacheFrozen' = cacheFrozen /\ completed' = completed /\ fixedCache' = fixedCache
      /\ evicting' = evicting /\ readers' = readers
  BY DEF SettleFailed, ReleaseLocked, clientVars
<1>2. Placement'
  <2>1. index[key[s]] = s /\ key[s] \in Keys
    BY DEF TypeOK, Placement, IndexExact
  <2>2. table[key[s]] = NoSlot
    BY <2>1 DEF Placement, TableExact
  <2>3. table' = [table EXCEPT ![key[s]] = NoSlot]
    BY <1>1, <2>1, <2>2 DEF TypeOK
  <2> QED BY ZenonT(30), <2>3, ReleaseKeepsPlacement DEF SettleFailed
<1>3. GaugesExact' /\ stats' \in Gauges
  <2>1. /\ InState("Filling")' = InState("Filling") \ {s}
        /\ InState("Resident")' = InState("Resident")
        /\ InState("Free")' = InState("Free") \union {s}
        /\ PinnedSlots' = PinnedSlots
    BY <1>1 DEF InState, PinnedSlots, TypeOK
  <2>2. s \in InState("Filling") /\ s \notin InState("Free")
    BY DEF InState
  <2>3. Cardinality(InState("Filling")') \in Nat
        /\ Cardinality(InState("Filling")) - 1 = Cardinality(InState("Filling")')
    BY <2>1, <2>2, CountOut DEF InState
  <2>4. Cardinality(InState("Free")') = Cardinality(InState("Free")) + 1
    BY <2>1, <2>2, CountIn DEF InState
  <2>5. GaugesExact'
    BY ZenonT(30), <1>1, <2>1, <2>3, <2>4 DEF GaugesExact, InState, PinnedSlots, TypeOK, Gauges
  <2>6. stats.filling = Cardinality(InState("Filling"))
    BY DEF GaugesExact, InState
  <2>7. stats.filling - 1 \in Nat
    BY <2>3, <2>6
  <2>8. stats \in Gauges /\ stats.free + 1 \in Nat
    BY DEF TypeOK, Gauges
  <2>9. stats' \in Gauges
    BY ZenonT(30), <1>1, <2>7, <2>8 DEF Gauges
  <2> QED BY <2>5, <2>9
<1>4. TypeOK'
  BY <1>1, <1>3, ReleaseKeepsTypes DEF TypeOK, SettleFailed
<1>5. FrozenIsFull' /\ FillOutstanding'
  BY <1>1 DEF FrozenIsFull, FillOutstanding, TypeOK
<1>6. Guarding'
  BY <1>1, ReaderElsewhere DEF Guarding, ReadersHeld, ReadersGuarded, TypeOK
<1> QED BY <1>2, <1>3, <1>4, <1>5, <1>6

\* A fill that landed. The freeze is exact because the resident gauge is: it
\* reaches the slot count only when the last slot has become resident.
LEMMA SettleResidentKeepsInv ==
    ASSUME StoreInv, NEW s \in Slot, state[s] = "Filling", NEW token \in Stamp,
           SettleResident(s, token), runsDone' \in [Slot -> 0 .. MaxRuns],
           \A u \in Slot \ {s} : runsDone'[u] = runsDone[u],
           UNCHANGED <<runsTotal, runFailed, completed, fixedCache, clientVars>>
    PROVE  StoreInv'
<1> USE DEF StoreInv
<1>1. /\ state' = [state EXCEPT ![s] = "Resident"]
      /\ lastUse' = [lastUse EXCEPT ![s] = Maximum(lastUse[s], token)]
      /\ table' = [table EXCEPT ![key[s]] = s]
      /\ stats' = [stats EXCEPT !.filling = @ - 1, !.resident = @ + 1,
                                !.pinned = IF tier[s] = "Pinned" THEN @ + 1 ELSE @]
      /\ cacheFrozen' = (cacheFrozen \/ (fixedCache /\ stats.resident + 1 = NumSlots))
      /\ key' = key /\ tier' = tier /\ guard' = guard /\ freeList' = freeList
      /\ index' = index /\ runsTotal' = runsTotal /\ runFailed' = runFailed
      /\ completed' = completed /\ fixedCache' = fixedCache /\ evicting' = evicting
      /\ readers' = readers
  BY DEF SettleResident, clientVars
<1>2. Placement'
  BY SettleKeepsPlacement
<1>3. /\ InState("Filling")' = InState("Filling") \ {s}
      /\ InState("Resident")' = InState("Resident") \union {s}
      /\ InState("Free")' = InState("Free")
      /\ PinnedSlots' = IF tier[s] = "Pinned" THEN PinnedSlots \union {s} ELSE PinnedSlots
  BY ZenonT(30), <1>1 DEF InState, PinnedSlots, TypeOK
<1>4. s \in InState("Filling") /\ s \notin InState("Resident") /\ s \notin PinnedSlots
  BY DEF InState, PinnedSlots
<1>5. Cardinality(InState("Filling")') \in Nat
      /\ Cardinality(InState("Filling")) - 1 = Cardinality(InState("Filling")')
  BY <1>3, <1>4, CountOut DEF InState
<1>6. Cardinality(InState("Resident")') = Cardinality(InState("Resident")) + 1
  BY <1>3, <1>4, CountIn DEF InState
<1>7. Cardinality(PinnedSlots') = IF tier[s] = "Pinned" THEN Cardinality(PinnedSlots) + 1
                                                        ELSE Cardinality(PinnedSlots)
  BY ZenonT(30), <1>3, <1>4, CountIn DEF PinnedSlots
<1>8. GaugesExact'
  BY ZenonT(30), <1>1, <1>3, <1>5, <1>6, <1>7 DEF GaugesExact, InState, PinnedSlots, TypeOK, Gauges
<1>9. stats' \in Gauges
  <2>1. stats.filling = Cardinality(InState("Filling"))
    BY DEF GaugesExact, InState
  <2>2. stats.filling - 1 \in Nat
    BY <1>5, <2>1
  <2>3. stats \in Gauges /\ stats.resident + 1 \in Nat /\ stats.pinned + 1 \in Nat
    BY DEF TypeOK, Gauges
  <2> QED BY ZenonT(30), <1>1, <2>2, <2>3 DEF Gauges
<1>10. TypeOK'
  <2>1. lastUse' \in [Slot -> Stamp]
    BY <1>1 DEF TypeOK, Maximum
  <2>2. table' \in [Keys -> Slot \union {NoSlot}] /\ state' \in [Slot -> SlotState]
        /\ cacheFrozen' \in BOOLEAN
    BY <1>1 DEF TypeOK, SlotState
  <2> QED BY <1>1, <1>9, <2>1, <2>2 DEF TypeOK
<1>11. FrozenIsFull'
  <2>1. CASE cacheFrozen
    BY <2>1, <1>1 DEF FrozenIsFull, TypeOK
  <2>2. CASE ~cacheFrozen /\ cacheFrozen'
    <3>1. fixedCache /\ stats.resident + 1 = NumSlots
      BY ZenonT(30), <2>2, <1>1
    <3>2. Cardinality(InState("Resident")') = NumSlots
      BY <3>1, <1>6 DEF GaugesExact, InState
    <3>3. InState("Resident")' = Slot
      BY <3>2, CountAll DEF InState
    <3> QED BY <1>1, <3>1, <3>3 DEF FrozenIsFull, InState
  <2> QED BY <2>1, <2>2 DEF FrozenIsFull
<1>12. FillOutstanding'
  BY <1>1 DEF FillOutstanding, TypeOK
<1>13. Guarding'
  BY ZenonT(30), <1>1, ReaderElsewhere DEF Guarding, ReadersHeld, ReadersGuarded, TypeOK
<1> QED BY <1>2, <1>8, <1>10, <1>11, <1>12, <1>13

\* A reservation. A frozen cache admits none, so FrozenIsFull has nothing to
\* lose; the fill has at least one run to report.
LEMMA BeginFillKeepsInv ==
    ASSUME StoreInv, NEW k \in Keys, NEW t \in Tier, NEW n \in 1 .. MaxRuns,
           BeginFill(k, t, n)
    PROVE  StoreInv'
<1> USE DEF StoreInv
<1>1. PICK s \in Slot : s = freeList[Len(freeList)] /\ state[s] = "Free"
  <2>1. Len(freeList) \in Nat \ {0}
    BY DEF TypeOK, BeginFill
  <2> QED BY <2>1 DEF TypeOK, Placement, FreeListExact
<1>2. /\ state' = [state EXCEPT ![s] = "Filling"] /\ key' = [key EXCEPT ![s] = k]
      /\ tier' = [tier EXCEPT ![s] = t] /\ lastUse' = [lastUse EXCEPT ![s] = 0]
      /\ guard' = [guard EXCEPT ![s] = 0] /\ runsTotal' = [runsTotal EXCEPT ![s] = n]
      /\ runsDone' = [runsDone EXCEPT ![s] = 0] /\ runFailed' = [runFailed EXCEPT ![s] = FALSE]
      /\ index' = [index EXCEPT ![k] = s] /\ table' = table
      /\ stats' = [stats EXCEPT !.free = @ - 1, !.filling = @ + 1]
      /\ ~cacheFrozen /\ cacheFrozen' = cacheFrozen /\ fixedCache' = fixedCache
      /\ completed' = completed /\ evicting' = evicting /\ readers' = readers
  BY <1>1 DEF BeginFill, cacheVars, clientVars
<1>3. Placement'
  BY BeginFillKeepsPlacement
<1>4. GaugesExact' /\ stats' \in Gauges
  <2>1. /\ InState("Free")' = InState("Free") \ {s}
        /\ InState("Filling")' = InState("Filling") \union {s}
        /\ InState("Resident")' = InState("Resident")
        /\ PinnedSlots' = PinnedSlots
    BY <1>1, <1>2 DEF InState, PinnedSlots, TypeOK
  <2>2. s \in InState("Free") /\ s \notin InState("Filling")
    BY <1>1 DEF InState
  <2>3. Cardinality(InState("Free")') \in Nat
        /\ Cardinality(InState("Free")) - 1 = Cardinality(InState("Free")')
    BY ZenonT(30), <2>1, <2>2, CountOut DEF InState
  <2>4. Cardinality(InState("Filling")') = Cardinality(InState("Filling")) + 1
    BY <2>1, <2>2, CountIn DEF InState
  <2>5. GaugesExact'
    BY ZenonT(30), <1>2, <2>1, <2>3, <2>4 DEF GaugesExact, InState, PinnedSlots, TypeOK, Gauges
  <2>6. stats.free = Cardinality(InState("Free"))
    BY DEF GaugesExact, InState
  <2>7. stats.free - 1 \in Nat
    BY <2>3, <2>6
  <2>8. stats \in Gauges /\ stats.filling + 1 \in Nat
    BY DEF TypeOK, Gauges
  <2>9. stats' \in Gauges
    BY ZenonT(30), <1>2, <2>7, <2>8 DEF Gauges
  <2> QED BY <2>5, <2>9
<1>5. TypeOK'
  <2>1. 0 \in Stamp /\ 0 \in Timeline /\ 0 \in 0 .. MaxRuns /\ n \in 0 .. MaxRuns
    BY StoreAssumption DEF Stamp, Timeline
  <2>2. /\ state' \in [Slot -> SlotState] /\ key' \in [Slot -> Keys]
        /\ tier' \in [Slot -> Tier] /\ lastUse' \in [Slot -> Stamp]
        /\ guard' \in [Slot -> Timeline]
    BY <1>2, <2>1 DEF TypeOK, SlotState
  <2>3. /\ runsTotal' \in [Slot -> 0 .. MaxRuns] /\ runsDone' \in [Slot -> 0 .. MaxRuns]
        /\ runFailed' \in [Slot -> BOOLEAN] /\ index' \in [Keys -> Slot \union {NoSlot}]
    BY <1>2, <2>1 DEF TypeOK
  <2>4. freeList' \in Seq(Slot)
    BY DEF TypeOK, BeginFill
  <2> QED BY <1>2, <1>4, <2>2, <2>3, <2>4 DEF TypeOK
<1>6. FrozenIsFull' /\ FillOutstanding'
  BY SMTT(30), <1>1, <1>2, StoreAssumption DEF FrozenIsFull, FillOutstanding, TypeOK
<1>7. Guarding'
  BY ZenonT(30), <1>1, <1>2, ReaderElsewhere DEF Guarding, ReadersHeld, ReadersGuarded, TypeOK
<1> QED BY <1>3, <1>4, <1>5, <1>6, <1>7

\* finish_run: the slot settles exactly when its last run reports.
LEMMA FinishRunKeepsInv ==
    ASSUME StoreInv, NEW s \in Slot, NEW ok \in BOOLEAN, NEW token \in Stamp,
           FinishRun(s, ok, token)
    PROVE  StoreInv'
<1> USE DEF StoreInv
<1>1. state[s] = "Filling" /\ runsDone[s] < runsTotal[s]
      /\ runsDone[s] \in Nat /\ runsTotal[s] \in 0 .. MaxRuns
  BY DEF FinishRun, TypeOK
<1>2. CASE /\ runsDone[s] + 1 < runsTotal[s]
           /\ runsDone' = [runsDone EXCEPT ![s] = runsDone[s] + 1]
           /\ runFailed' = [runFailed EXCEPT ![s] = runFailed[s] \/ ~ok]
           /\ UNCHANGED <<state, key, tier, lastUse, guard, runsTotal, placeVars, cacheFrozen>>
           /\ UNCHANGED <<completed, fixedCache, clientVars>>
  <2>1. runsDone' \in [Slot -> 0 .. MaxRuns] /\ runFailed' \in [Slot -> BOOLEAN]
    BY <1>1, <1>2, StoreAssumption DEF TypeOK
  <2>2. TypeOK'
    BY <1>2, <2>1 DEF TypeOK, placeVars, clientVars
  <2>3. FillOutstanding'
    BY <1>1, <1>2 DEF TypeOK, FillOutstanding
  <2>4. Placement'
    BY ZenonT(30), <1>2 DEF placeVars, Placement, IndexExact, FreeListExact, TableExact, Held
  <2>5. GaugesExact' /\ FrozenIsFull' /\ Guarding'
    BY ZenonT(30), <1>2 DEF placeVars, clientVars, GaugesExact, FrozenIsFull, Guarding, ReadersHeld,
                ReadersGuarded
  <2> QED BY <2>2, <2>3, <2>4, <2>5
<1>3. CASE /\ runsDone' = [runsDone EXCEPT ![s] = runsDone[s] + 1]
           /\ SettleResident(s, token)
           /\ UNCHANGED <<runsTotal, runFailed>>
           /\ UNCHANGED <<completed, fixedCache, clientVars>>
  <2>1. runsDone' \in [Slot -> 0 .. MaxRuns] /\ \A u \in Slot \ {s} : runsDone'[u] = runsDone[u]
    BY SMTT(30), <1>1, <1>3, StoreAssumption DEF TypeOK
  <2> QED BY ZenonT(30), <1>1, <1>3, <2>1, SettleResidentKeepsInv
<1>4. CASE SettleFailed(s) /\ UNCHANGED <<completed, fixedCache, clientVars>>
  BY ZenonT(30), <1>1, <1>4, SettleFailedKeepsInv
<1> QED BY <1>2, <1>3, <1>4 DEF FinishRun

\* finish_fill: the whole fill at once.
LEMMA FinishFillKeepsInv ==
    ASSUME StoreInv, NEW s \in Slot, NEW ok \in BOOLEAN, NEW token \in Stamp,
           FinishFill(s, ok, token)
    PROVE  StoreInv'
<1> USE DEF StoreInv
<1>1. state[s] = "Filling" /\ UNCHANGED <<completed, fixedCache, clientVars>>
  BY DEF FinishFill
<1>2. CASE /\ runsDone' = [runsDone EXCEPT ![s] = runsTotal[s]]
           /\ SettleResident(s, token)
           /\ UNCHANGED <<runsTotal, runFailed>>
  <2>1. runsDone' \in [Slot -> 0 .. MaxRuns] /\ \A u \in Slot \ {s} : runsDone'[u] = runsDone[u]
    BY <1>2 DEF TypeOK
  <2> QED BY ZenonT(30), <1>1, <1>2, <2>1, SettleResidentKeepsInv
<1>3. CASE SettleFailed(s)
  BY ZenonT(30), <1>1, <1>3, SettleFailedKeepsInv
<1> QED BY ZenonT(30), <1>2, <1>3 DEF FinishFill

-----------------------------------------------------------------------------
(* The methods that move no expert *)

\* Placement depends on five variables only.
LEMMA PlacementUnmoved ==
    ASSUME Placement, UNCHANGED <<state, key, freeList, index, table>>
    PROVE  Placement'
BY DEF Placement, IndexExact, FreeListExact, TableExact, Held

\* set_fixed_cache freezes only a full cache.
LEMMA SetFixedCacheKeepsInv ==
    ASSUME StoreInv, NEW b \in BOOLEAN, SetFixedCache(b)
    PROVE  StoreInv'
<1> USE DEF StoreInv
<1>1. /\ UNCHANGED <<slotVars, placeVars, completed, clientVars>>
      /\ fixedCache' = b /\ cacheFrozen' = (b /\ stats.resident = NumSlots)
  BY DEF SetFixedCache
<1>2. TypeOK'
  BY <1>1 DEF TypeOK, slotVars, fillVars, placeVars, clientVars
<1>3. Placement'
  BY <1>1, PlacementUnmoved DEF slotVars, placeVars
<1>4. FrozenIsFull'
  <2>1. SUFFICES ASSUME cacheFrozen' PROVE fixedCache' /\ \A s \in Slot : state[s] = "Resident"
    BY <1>1 DEF FrozenIsFull, slotVars
  <2>2. b /\ Cardinality(InState("Resident")) = NumSlots
    BY ZenonT(30), <1>1, <2>1 DEF GaugesExact, InState
  <2>3. InState("Resident") = Slot
    BY ZenonT(30), <2>2, CountAll DEF InState
  <2> QED BY <1>1, <2>2, <2>3 DEF InState
<1>5. GaugesExact' /\ FillOutstanding' /\ Guarding'
  BY <1>1 DEF slotVars, fillVars, placeVars, clientVars, GaugesExact, FillOutstanding,
              Guarding, ReadersHeld, ReadersGuarded
<1> QED BY <1>2, <1>3, <1>4, <1>5

\* Steps that only raise guards, move stamps, and add readers to resident
\* experts under a guard their slot now has.
LEMMA GuardingKeepsInv ==
    ASSUME StoreInv,
           UNCHANGED <<state, key, tier, fillVars, placeVars, cacheVars, completed>>,
           lastUse' \in [Slot -> Stamp], guard' \in [Slot -> Timeline],
           evicting' \in Slot \union {NoSlot},
           \A s \in Slot : guard'[s] >= guard[s],
           \A r \in readers' \ readers :
              /\ r \in Reader
              /\ state[r.slot] = "Resident" /\ key[r.slot] = r.key
              /\ guard'[r.slot] >= r.guard /\ r.guard > completed
    PROVE  StoreInv'
<1> USE DEF StoreInv
<1>1. readers' \subseteq Reader
  BY DEF TypeOK
<1>2. TypeOK'
  BY <1>1 DEF TypeOK, fillVars, placeVars, cacheVars
<1>3. Placement'
  BY ZenonT(30), PlacementUnmoved DEF placeVars
<1>4. GaugesExact' /\ FrozenIsFull' /\ FillOutstanding'
  BY ZenonT(30) DEF fillVars, placeVars, cacheVars, GaugesExact, FrozenIsFull, FillOutstanding
<1>5. ASSUME NEW r \in readers'
      PROVE  /\ state[r.slot] = "Resident" /\ key[r.slot] = r.key /\ table[r.key] = r.slot
             /\ guard'[r.slot] >= r.guard /\ r.guard > completed
  <2>1. r.slot \in Slot /\ r.key \in Keys /\ r.guard \in Int
    BY ZenonT(30), <1>1, <1>5, TimelineIsNumeric DEF Reader
  <2>2. CASE r \in readers
    <3>1. guard[r.slot] >= r.guard /\ r.guard > completed
      BY <2>2 DEF Guarding, ReadersGuarded
    <3>2. guard[r.slot] \in Int /\ guard'[r.slot] \in Int /\ guard'[r.slot] >= guard[r.slot]
      BY <2>1 DEF TypeOK, Timeline
    <3> QED BY <2>1, <2>2, <3>1, <3>2 DEF Guarding, ReadersHeld
  <2>3. CASE r \notin readers
    <3>1. state[r.slot] = "Resident" /\ key[r.slot] = r.key
      BY ZenonT(30), <2>3
    <3>2. index[r.key] = r.slot /\ r.slot # NoSlot
      BY ZenonT(30), <2>1, <3>1, NoSlotIsNoSlot DEF Placement, IndexExact
    <3>3. table[r.key] = r.slot
      BY <2>1, <3>1, <3>2 DEF Placement, TableExact, Held
    <3> QED BY ZenonT(30), <2>3, <3>1, <3>3
  <2> QED BY <2>2, <2>3
<1>6. Guarding'
  BY ZenonT(30), <1>5 DEF Guarding, ReadersHeld, ReadersGuarded, placeVars
<1> QED BY <1>2, <1>3, <1>4, <1>6

\* A hit hands out the address of a resident expert and guards its slot.
LEMMA LookupKeepsInv ==
    ASSUME StoreInv, NEW k \in Keys, NEW token \in Stamp, NEW g \in Timeline,
           Lookup(k, token, g)
    PROVE  StoreInv'
<1> USE DEF StoreInv
<1>1. PICK s \in Slot : s = index[k] /\ state[s] = "Resident" /\ key[s] = k
  BY DEF Lookup, Resident, Held, TypeOK, Placement, IndexExact
<1>2. /\ lastUse' = [lastUse EXCEPT ![s] = IF fixedCache THEN @ ELSE token]
      /\ guard' = [guard EXCEPT ![s] = Maximum(@, g)]
      /\ readers' = IF g > completed
                    THEN readers \union {[key |-> k, slot |-> s, guard |-> g]} ELSE readers
      /\ UNCHANGED <<state, key, tier, fillVars, placeVars, cacheVars, completed>>
      /\ evicting' = evicting
  BY ZenonT(30), <1>1 DEF Lookup
<1>3. lastUse' \in [Slot -> Stamp] /\ guard' \in [Slot -> Timeline]
      /\ evicting' \in Slot \union {NoSlot}
  BY ZenonT(30), <1>2 DEF TypeOK, Maximum
<1>4. \A u \in Slot : guard'[u] >= guard[u]
  BY <1>2 DEF TypeOK, Maximum, Timeline
<1>5. guard'[s] >= g
  BY <1>2 DEF TypeOK, Maximum, Timeline
<1>6. ASSUME NEW r \in readers' \ readers
      PROVE  /\ r \in Reader
             /\ state[r.slot] = "Resident" /\ key[r.slot] = r.key
             /\ guard'[r.slot] >= r.guard /\ r.guard > completed
  <2>1. r = [key |-> k, slot |-> s, guard |-> g] /\ g > completed
    BY ZenonT(30), <1>2
  <2> QED BY <1>1, <1>5, <2>1 DEF Reader
<1> QED BY ZenonT(30), <1>2, <1>3, <1>4, <1>6, GuardingKeepsInv

\* The snapshot copies the table, and the table publishes only resident
\* experts, all of which it has just guarded.
LEMMA GuardedSnapshotKeepsInv ==
    ASSUME StoreInv, NEW g \in Timeline, GuardedSnapshot(g)
    PROVE  StoreInv'
<1> USE DEF StoreInv
<1>1. /\ guard' = [s \in Slot |-> IF state[s] = "Resident" THEN Maximum(guard[s], g)
                                                           ELSE guard[s]]
      /\ UNCHANGED <<state, key, tier, fillVars, placeVars, cacheVars, completed>>
      /\ lastUse' = lastUse /\ evicting' = evicting /\ g > completed
  BY DEF GuardedSnapshot
<1>2. lastUse' \in [Slot -> Stamp] /\ guard' \in [Slot -> Timeline]
      /\ evicting' \in Slot \union {NoSlot}
  BY <1>1 DEF TypeOK, Maximum
<1>3. \A s \in Slot : guard'[s] >= guard[s] /\ (state[s] = "Resident" => guard'[s] >= g)
  BY <1>1 DEF TypeOK, Maximum, Timeline
<1>4. ASSUME NEW r \in readers' \ readers
      PROVE  /\ r \in Reader
             /\ state[r.slot] = "Resident" /\ key[r.slot] = r.key
             /\ guard'[r.slot] >= r.guard /\ r.guard > completed
  <2>1. PICK k \in Keys : table[k] # NoSlot /\ r = [key |-> k, slot |-> table[k], guard |-> g]
    BY ZenonT(30) DEF GuardedSnapshot
  <2>2. table[k] \in Slot /\ state[table[k]] = "Resident" /\ key[table[k]] = k
    BY ZenonT(30), <2>1 DEF TypeOK, Placement, TableExact, IndexExact, Held
  <2> QED BY ZenonT(30), <1>1, <1>3, <2>1, <2>2 DEF Reader
<1> QED BY ZenonT(30), <1>1, <1>2, <1>3, <1>4, GuardingKeepsInv

\* set_guard never lowers a guard, on a slot in any state.
LEMMA SetGuardKeepsInv ==
    ASSUME StoreInv, NEW s \in Slot, NEW v \in Timeline, SetGuard(s, v)
    PROVE  StoreInv'
<1> USE DEF StoreInv
<1>1. /\ guard' = [guard EXCEPT ![s] = Maximum(@, v)]
      /\ readers' = IF state[s] = "Resident" /\ v > completed
                    THEN readers \union {[key |-> key[s], slot |-> s, guard |-> v]} ELSE readers
      /\ UNCHANGED <<state, key, tier, fillVars, placeVars, cacheVars, completed>>
      /\ lastUse' = lastUse /\ evicting' = evicting
  BY DEF SetGuard
<1>2. lastUse' \in [Slot -> Stamp] /\ guard' \in [Slot -> Timeline]
      /\ evicting' \in Slot \union {NoSlot} /\ key[s] \in Keys
  BY <1>1 DEF TypeOK, Maximum
<1>3. guard'[s] >= v /\ \A u \in Slot : guard'[u] >= guard[u]
  BY <1>1 DEF TypeOK, Maximum, Timeline
<1>4. ASSUME NEW r \in readers' \ readers
      PROVE  /\ r \in Reader
             /\ state[r.slot] = "Resident" /\ key[r.slot] = r.key
             /\ guard'[r.slot] >= r.guard /\ r.guard > completed
  <2>1. r = [key |-> key[s], slot |-> s, guard |-> v] /\ v > completed /\ state[s] = "Resident"
    BY ZenonT(30), <1>1
  <2> QED BY ZenonT(30), <1>2, <1>3, <2>1 DEF Reader
<1> QED BY ZenonT(30), <1>1, <1>2, <1>3, <1>4, GuardingKeepsInv

\* touch moves a stamp and nothing else.
LEMMA TouchKeepsInv ==
    ASSUME StoreInv, NEW k \in Keys, NEW t \in Stamp, NEW b \in BOOLEAN, Touch(k, t, b)
    PROVE  StoreInv'
<1> USE DEF StoreInv
<1>1. /\ lastUse' = [lastUse EXCEPT ![index[k]] = Maximum(@, t)]
      /\ UNCHANGED <<state, key, tier, fillVars, placeVars, cacheVars, completed>>
      /\ guard' = guard /\ evicting' = evicting /\ readers' = readers
  BY DEF Touch, clientVars
<1>2. index[k] \in Slot
  BY DEF Touch, Resident, FillingKey, Held, TypeOK
<1>3. lastUse' \in [Slot -> Stamp] /\ guard' \in [Slot -> Timeline]
      /\ evicting' \in Slot \union {NoSlot}
  BY <1>1, <1>2 DEF TypeOK, Maximum
<1>4. \A s \in Slot : guard'[s] >= guard[s]
  BY <1>1 DEF TypeOK, Timeline
<1> QED BY <1>1, <1>3, <1>4, GuardingKeepsInv

\* The first half of evict_key only remembers a slot.
LEMMA EvictKeyFindKeepsInv ==
    ASSUME StoreInv, NEW k \in Keys, EvictKeyFind(k)
    PROVE  StoreInv'
<1> USE DEF StoreInv
<1>1. /\ UNCHANGED <<state, key, tier, fillVars, placeVars, cacheVars, completed>>
      /\ lastUse' = lastUse /\ guard' = guard /\ readers' = readers
      /\ evicting' \in Slot \union {NoSlot}
  BY DEF EvictKeyFind, slotVars, TypeOK
<1>2. \A s \in Slot : guard'[s] >= guard[s]
  BY <1>1 DEF TypeOK, Timeline
<1>3. lastUse' \in [Slot -> Stamp] /\ guard' \in [Slot -> Timeline]
  BY <1>1 DEF TypeOK
<1> QED BY ZenonT(30), <1>1, <1>2, <1>3, GuardingKeepsInv

\* The timeline moves forward and leaves only the readers it has not reached.
LEMMA SetCompletedTimelineKeepsInv ==
    ASSUME StoreInv, NEW v \in Timeline, SetCompletedTimeline(v)
    PROVE  StoreInv'
<1> USE DEF StoreInv
<1>1. /\ UNCHANGED <<slotVars, placeVars, cacheVars, evicting>>
      /\ completed' = v /\ readers' = {r \in readers : r.guard > v}
  BY DEF SetCompletedTimeline
<1>2. TypeOK'
  BY <1>1 DEF TypeOK, slotVars, fillVars, placeVars, cacheVars
<1>3. Placement'
  BY <1>1, PlacementUnmoved DEF slotVars, placeVars
<1>4. GaugesExact' /\ FrozenIsFull' /\ FillOutstanding'
  BY ZenonT(30), <1>1 DEF slotVars, fillVars, placeVars, cacheVars, GaugesExact, FrozenIsFull,
              FillOutstanding
<1>5. Guarding'
  BY ZenonT(30), <1>1 DEF slotVars, placeVars, Guarding, ReadersHeld, ReadersGuarded
<1> QED BY <1>2, <1>3, <1>4, <1>5

\* pin counts an expert the first time only.
LEMMA PinKeepsInv ==
    ASSUME StoreInv, NEW k \in Keys, Pin(k)
    PROVE  StoreInv'
<1> USE DEF StoreInv
<1>1. PICK s \in Slot : s = index[k] /\ state[s] = "Resident" /\ tier[s] # "Pinned"
  BY DEF Pin, Resident, Held, TypeOK
<1>2. /\ tier' = [tier EXCEPT ![s] = "Pinned"] /\ stats' = [stats EXCEPT !.pinned = @ + 1]
      /\ UNCHANGED <<state, key, lastUse, guard, fillVars, freeList, index, table, completed,
                     cacheVars, clientVars>>
  BY <1>1 DEF Pin
<1>3. stats' \in Gauges
  <2>1. stats \in Gauges /\ stats.pinned + 1 \in Nat
    BY DEF TypeOK, Gauges
  <2> QED BY <1>2, <2>1 DEF Gauges
<1>4. TypeOK'
  <2>1. tier' \in [Slot -> Tier]
    BY <1>2 DEF TypeOK, Tier
  <2> QED BY <1>2, <1>3, <2>1 DEF TypeOK, fillVars, cacheVars, clientVars
<1>5. Placement'
  BY <1>2, PlacementUnmoved
<1>6. GaugesExact'
  <2>1. PinnedSlots' = PinnedSlots \union {s} /\ s \notin PinnedSlots
    BY ZenonT(30), <1>1, <1>2 DEF PinnedSlots, TypeOK
  <2>2. Cardinality(PinnedSlots') = Cardinality(PinnedSlots) + 1
    BY <2>1, CountIn DEF PinnedSlots
  <2>3. stats'.pinned = stats.pinned + 1 /\ stats'.resident = stats.resident
        /\ stats'.filling = stats.filling /\ stats'.free = stats.free
    BY <1>2 DEF TypeOK, Gauges
  <2> QED BY <1>2, <2>2, <2>3 DEF GaugesExact, PinnedSlots
<1>7. FrozenIsFull' /\ FillOutstanding' /\ Guarding'
  BY <1>2 DEF fillVars, cacheVars, clientVars, FrozenIsFull, FillOutstanding, Guarding,
              ReadersHeld, ReadersGuarded
<1> QED BY <1>4, <1>5, <1>6, <1>7

\* The free stack has one element for each free slot.
LEMMA FreeListLength ==
    ASSUME TypeOK, Placement
    PROVE  Len(freeList) = Cardinality(InState("Free"))
<1>1. Len(freeList) \in Nat
  BY DEF TypeOK
<1>2. freeList \in [1 .. Len(freeList) -> InState("Free")]
  <2>1. freeList \in [1 .. Len(freeList) -> Slot]
    BY DEF TypeOK
  <2>2. \A i \in 1 .. Len(freeList) : freeList[i] \in InState("Free")
    BY <2>1 DEF Placement, FreeListExact, InState
  <2> QED BY <2>1, <2>2
<1>3. freeList \in Bijection(1 .. Len(freeList), InState("Free"))
  BY <1>1, <1>2 DEF Placement, FreeListExact, InState, Bijection, Injection, Surjection,
                    IsInjective
<1>4. ASSUME NEW n \in Nat PROVE IsFiniteSet(1 .. n) /\ Cardinality(1 .. n) = n
  <2>1. IsFiniteSet(1 .. n) /\ Cardinality(1 .. n) = IF 1 > n THEN 0 ELSE n - 1 + 1
    BY FS_Interval
  <2> QED BY <2>1
<1>5. IsFiniteSet(1 .. Len(freeList)) /\ Cardinality(1 .. Len(freeList)) = Len(freeList)
  BY <1>1, <1>4
<1> QED BY <1>3, <1>5, FS_Bijection DEF ExistsBijection

\* So reset_stats, which reads the free gauge off the stack, leaves it exact.
LEMMA ResetStatsKeepsInv ==
    ASSUME StoreInv, ResetStats
    PROVE  StoreInv'
<1> USE DEF StoreInv
<1>1. /\ UNCHANGED <<slotVars, freeList, index, table, completed, cacheVars, clientVars>>
      /\ stats' = [stats EXCEPT !.free = Len(freeList)]
  BY DEF ResetStats
<1>2. Len(freeList) = stats.free
  BY FreeListLength DEF GaugesExact, InState
<1>3. stats' = stats
  BY <1>1, <1>2 DEF TypeOK, Gauges
<1>4. TypeOK'
  BY ZenonT(30), <1>1, <1>3 DEF TypeOK, slotVars, fillVars, cacheVars, clientVars
<1>5. Placement'
  BY <1>1, PlacementUnmoved DEF slotVars
<1>6. GaugesExact' /\ FrozenIsFull' /\ FillOutstanding' /\ Guarding'
  BY ZenonT(30), <1>1, <1>3 DEF slotVars, fillVars, cacheVars, clientVars, GaugesExact, FrozenIsFull,
                    FillOutstanding, Guarding, ReadersHeld, ReadersGuarded
<1> QED BY <1>4, <1>5, <1>6

-----------------------------------------------------------------------------
(* The theorems *)

\* init() establishes the invariant: every slot is free and on the stack once.
LEMMA InitInv == Init => StoreInv
<1> SUFFICES ASSUME Init PROVE StoreInv
  OBVIOUS
<1>1. freeList \in Seq(Slot) /\ Len(freeList) = NumSlots
      /\ \A i \in 1 .. NumSlots : freeList[i] = NumSlots - i
  BY StoreAssumption DEF Init, Slot
<1>2. InState("Free") = Slot /\ InState("Filling") = {} /\ InState("Resident") = {}
      /\ PinnedSlots = {}
  BY DEF Init, InState, PinnedSlots
<1>3. Cardinality({}) = 0
  BY ZenonT(30), FS_EmptySet
<1>4. GaugesExact
  <2>1. stats.resident = 0 /\ stats.filling = 0 /\ stats.pinned = 0 /\ stats.free = NumSlots
    BY DEF Init
  <2> QED BY ZenonT(30), <1>2, <1>3, <2>1, SlotCount DEF GaugesExact, InState, PinnedSlots
<1>5. stats \in Gauges
  BY StoreAssumption DEF Init, Gauges
<1>6. TypeOK
  <2>1. 0 \in Stamp /\ 0 \in Timeline /\ 0 \in 0 .. MaxRuns
    BY StoreAssumption DEF Stamp, Timeline
  <2>2. /\ state \in [Slot -> SlotState] /\ key \in [Slot -> Keys] /\ tier \in [Slot -> Tier]
        /\ lastUse \in [Slot -> Stamp] /\ guard \in [Slot -> Timeline]
    BY <2>1, StoreAssumption DEF Init, SlotState, Tier
  <2>3. /\ runsTotal \in [Slot -> 0 .. MaxRuns] /\ runsDone \in [Slot -> 0 .. MaxRuns]
        /\ runFailed \in [Slot -> BOOLEAN]
    BY <2>1 DEF Init
  <2>4. /\ index \in [Keys -> Slot \union {NoSlot}] /\ table \in [Keys -> Slot \union {NoSlot}]
        /\ evicting \in Slot \union {NoSlot}
    BY DEF Init
  <2> QED BY ZenonT(30), <1>1, <1>5, <2>1, <2>2, <2>3, <2>4 DEF Init, TypeOK
<1>7. FreeListExact
  <2>1. \A s \in Slot : NumSlots - s \in 1 .. NumSlots /\ NumSlots - (NumSlots - s) = s
    BY StoreAssumption DEF Slot
  <2>2. \A s \in Slot : freeList[NumSlots - s] = s
    BY ZenonT(30), <1>1, <2>1
  <2>3. \A i \in 1 .. NumSlots : state[freeList[i]] = "Free"
    BY <1>1, StoreAssumption DEF Init, Slot
  <2>4. \A i, j \in 1 .. NumSlots : freeList[i] = freeList[j] => i = j
    BY <1>1, StoreAssumption
  <2> QED BY <1>1, <2>1, <2>2, <2>3, <2>4 DEF FreeListExact
<1>8. IndexExact /\ TableExact /\ FrozenIsFull /\ FillOutstanding /\ Guarding
  BY DEF Init, IndexExact, TableExact, FrozenIsFull, FillOutstanding, Guarding, ReadersHeld,
         ReadersGuarded, Held
<1> QED BY <1>4, <1>6, <1>7, <1>8 DEF StoreInv, Placement

\* Every method of the store preserves the invariant.
LEMMA NextKeepsInv == StoreInv /\ [Next]_vars => StoreInv'
<1> SUFFICES ASSUME StoreInv, [Next]_vars PROVE StoreInv'
  OBVIOUS
<1>1. ASSUME NEW b \in BOOLEAN, SetFixedCache(b) PROVE StoreInv'
  BY <1>1, SetFixedCacheKeepsInv
<1>2. ASSUME NEW k \in Keys, NEW t \in Stamp, NEW g \in Timeline, Lookup(k, t, g)
      PROVE  StoreInv'
  BY <1>2, LookupKeepsInv
<1>3. ASSUME NEW k \in Keys, NEW t \in Tier, NEW n \in 1 .. MaxRuns, BeginFill(k, t, n)
      PROVE  StoreInv'
  BY <1>3, BeginFillKeepsInv
<1>4. ASSUME NEW s \in Slot, NEW ok \in BOOLEAN, NEW t \in Stamp, FinishRun(s, ok, t)
      PROVE  StoreInv'
  BY <1>4, FinishRunKeepsInv
<1>5. ASSUME NEW s \in Slot, NEW ok \in BOOLEAN, NEW t \in Stamp, FinishFill(s, ok, t)
      PROVE  StoreInv'
  BY <1>5, FinishFillKeepsInv
<1>6. ASSUME NEW s \in Slot, Evict(s) PROVE StoreInv'
  <2>1. evicting' \in Slot \union {NoSlot}
    BY <1>6 DEF Evict, StoreInv, TypeOK
  <2> QED BY <1>6, <2>1, EvictSlotKeepsInv DEF Evict
<1>7. ASSUME NEW k \in Keys, EvictKeyFind(k) PROVE StoreInv'
  BY <1>7, EvictKeyFindKeepsInv
<1>8. CASE EvictKeyEvict
  <2>1. evicting' = NoSlot
    BY <1>8 DEF EvictKeyEvict
  <2>2. CASE evicting \in Evictable /\ EvictSlot(evicting)
    BY <2>1, <2>2, EvictSlotKeepsInv
  <2>3. CASE UNCHANGED <<slotVars, placeVars, completed, cacheVars, readers>>
    <3>1. TypeOK'
      BY <2>1, <2>3 DEF StoreInv, TypeOK, slotVars, fillVars, placeVars, cacheVars
    <3>2. Placement'
      BY ZenonT(30), <2>3, PlacementUnmoved DEF StoreInv, slotVars, placeVars
    <3>3. GaugesExact' /\ FrozenIsFull' /\ FillOutstanding' /\ Guarding'
      BY <2>3 DEF StoreInv, slotVars, fillVars, placeVars, cacheVars, GaugesExact,
                  FrozenIsFull, FillOutstanding, Guarding, ReadersHeld, ReadersGuarded
    <3> QED BY ZenonT(30), <3>1, <3>2, <3>3 DEF StoreInv
  <2> QED BY <1>8, <2>2, <2>3 DEF EvictKeyEvict
<1>9. CASE EvictLru
  <2>1. PICK s \in Slot : LruVictim(s) /\ EvictSlot(s)
    BY <1>9 DEF EvictLru
  <2>2. s \in Evictable
    BY ZenonT(30), <2>1, StoreAssumption DEF LruVictim, LruCandidates
  <2>3. evicting' \in Slot \union {NoSlot}
    BY <1>9 DEF EvictLru, StoreInv, TypeOK
  <2> QED BY <2>1, <2>2, <2>3, EvictSlotKeepsInv
<1>10. ASSUME NEW v \in Timeline, SetCompletedTimeline(v) PROVE StoreInv'
  BY <1>10, SetCompletedTimelineKeepsInv
<1>11. ASSUME NEW g \in Timeline, GuardedSnapshot(g) PROVE StoreInv'
  BY <1>11, GuardedSnapshotKeepsInv
<1>12. ASSUME NEW s \in Slot, NEW v \in Timeline, SetGuard(s, v) PROVE StoreInv'
  BY <1>12, SetGuardKeepsInv
<1>13. ASSUME NEW k \in Keys, NEW t \in Stamp, NEW b \in BOOLEAN, Touch(k, t, b)
       PROVE  StoreInv'
  BY <1>13, TouchKeepsInv
<1>14. ASSUME NEW k \in Keys, Pin(k) PROVE StoreInv'
  BY <1>14, PinKeepsInv
<1>15. CASE ResetStats
  BY <1>15, ResetStatsKeepsInv
<1>16. CASE UNCHANGED vars
  <2>1. TypeOK'
    BY <1>16 DEF vars, StoreInv, TypeOK, slotVars, fillVars, placeVars, cacheVars, clientVars
  <2>2. Placement'
    BY <1>16, PlacementUnmoved DEF vars, StoreInv, slotVars, placeVars
  <2>3. GaugesExact' /\ FrozenIsFull' /\ FillOutstanding' /\ Guarding'
    BY ZenonT(30), <1>16 DEF vars, StoreInv, slotVars, fillVars, placeVars, cacheVars, clientVars,
                 GaugesExact, FrozenIsFull, FillOutstanding, Guarding, ReadersHeld,
                 ReadersGuarded
  <2> QED BY ZenonT(30), <2>1, <2>2, <2>3 DEF StoreInv
<1> QED BY ZenonT(30), <1>1, <1>2, <1>3, <1>4, <1>5, <1>6, <1>7, <1>8, <1>9, <1>10, <1>11, <1>12, <1>13,
           <1>14, <1>15, <1>16 DEF Next

\* The conjunction of the store's invariants is an invariant: every method,
\* called by any thread at any time with any argument, preserves it.
THEOREM StoreInvariant == Spec => []StoreInv
<1> QED BY InitInv, NextKeepsInv, PTL DEF Spec

\* The type invariant; with it, no gauge of stats_ underflows.
THEOREM StoreTypes == Spec => []TypeOK
<1>1. StoreInv => TypeOK
  BY DEF StoreInv
<1> QED BY <1>1, StoreInvariant, PTL

\* A slot is never recycled under a command buffer that can still read it:
\* evict, evict_key and evict_lru respect every guard a guarded lookup, a
\* snapshot or set_guard has raised.
THEOREM ReadersSafe == Spec => []ReadersHeld
<1>1. StoreInv => ReadersHeld
  BY DEF StoreInv, Guarding
<1> QED BY <1>1, StoreInvariant, PTL

\* index_ and the slot records agree.
THEOREM IndexCorrect == Spec => []IndexExact
<1>1. StoreInv => IndexExact
  BY DEF StoreInv, Placement
<1> QED BY <1>1, StoreInvariant, PTL

\* free_list_ holds every free slot exactly once.
THEOREM FreeListCorrect == Spec => []FreeListExact
<1>1. StoreInv => FreeListExact
  BY DEF StoreInv, Placement
<1> QED BY <1>1, StoreInvariant, PTL

\* The pointer table publishes an expert exactly while it is resident.
THEOREM TableCorrect == Spec => []TableExact
<1>1. StoreInv => TableExact
  BY DEF StoreInv, Placement
<1> QED BY <1>1, StoreInvariant, PTL

\* The gauges are the sizes of the sets they count.
THEOREM GaugesCorrect == Spec => []GaugesExact
<1>1. StoreInv => GaugesExact
  BY DEF StoreInv
<1> QED BY <1>1, StoreInvariant, PTL

\* A frozen mask cache is fixed and full.
THEOREM FrozenCorrect == Spec => []FrozenIsFull
<1>1. StoreInv => FrozenIsFull
  BY DEF StoreInv
<1> QED BY <1>1, StoreInvariant, PTL

\* A Filling slot always has a run still to report: the last report settles it.
THEOREM FillsSettle == Spec => []FillOutstanding
<1>1. StoreInv => FillOutstanding
  BY ZenonT(30) DEF StoreInv
<1> QED BY <1>1, StoreInvariant, PTL

-----------------------------------------------------------------------------
(* Action properties *)

\* What a step can be, by the transition it makes: a slot is reserved, lands,
\* fails or leaves; an expert is pinned; the cache is fixed; or no expert
\* moves.
LEMMA Transitions ==
    ASSUME StoreInv, [Next]_vars
    PROVE  \/ \E s \in Evictable : EvictSlot(s)
           \/ \E s \in Slot : /\ state[s] = "Filling" /\ SettleFailed(s)
                             /\ UNCHANGED <<completed, fixedCache, readers>>
           \/ \E s \in Slot, t \in Stamp :
                 /\ state[s] = "Filling" /\ SettleResident(s, t)
                 /\ UNCHANGED <<completed, fixedCache, readers>>
           \/ \E k \in Keys, t \in Tier, n \in 1 .. MaxRuns : BeginFill(k, t, n)
           \/ \E k \in Keys : Pin(k)
           \/ \E b \in BOOLEAN : SetFixedCache(b)
           \/ \E k \in Keys, t \in Stamp, g \in Timeline : Lookup(k, t, g)
           \/ \E v \in Timeline : SetCompletedTimeline(v)
           \/ \E g \in Timeline : GuardedSnapshot(g)
           \/ \E s \in Slot, v \in Timeline : SetGuard(s, v)
           \/ \E k \in Keys, t \in Stamp, b \in BOOLEAN : Touch(k, t, b)
           \/ UNCHANGED <<state, key, tier, lastUse, guard, freeList, index, table, completed,
                          cacheVars, readers>>
<1>1. ASSUME NEW s \in Slot, NEW ok \in BOOLEAN, NEW t \in Stamp, FinishRun(s, ok, t)
      PROVE  \/ /\ state[s] = "Filling" /\ SettleFailed(s)
                /\ UNCHANGED <<completed, fixedCache, readers>>
             \/ /\ state[s] = "Filling" /\ SettleResident(s, t)
                /\ UNCHANGED <<completed, fixedCache, readers>>
             \/ UNCHANGED <<state, key, tier, lastUse, guard, freeList, index, table, completed,
                            cacheVars, readers>>
  BY ZenonT(30), <1>1 DEF FinishRun, placeVars, cacheVars, clientVars
<1>2. ASSUME NEW s \in Slot, NEW ok \in BOOLEAN, NEW t \in Stamp, FinishFill(s, ok, t)
      PROVE  \/ /\ state[s] = "Filling" /\ SettleFailed(s)
                /\ UNCHANGED <<completed, fixedCache, readers>>
             \/ /\ state[s] = "Filling" /\ SettleResident(s, t)
                /\ UNCHANGED <<completed, fixedCache, readers>>
  BY ZenonT(30), <1>2 DEF FinishFill, clientVars
<1>3. ASSUME EvictLru PROVE \E s \in Evictable : EvictSlot(s)
  BY <1>3, StoreAssumption DEF EvictLru, LruVictim, LruCandidates
<1>4. ASSUME NEW s \in Slot, Evict(s) PROVE \E u \in Evictable : EvictSlot(u)
  BY <1>4 DEF Evict
<1>5. ASSUME EvictKeyEvict
      PROVE  \/ \E s \in Evictable : EvictSlot(s)
             \/ UNCHANGED <<state, key, tier, lastUse, guard, freeList, index, table, completed,
                            cacheVars, readers>>
  BY <1>5 DEF EvictKeyEvict, slotVars, placeVars
<1>6. ASSUME (\E k \in Keys : EvictKeyFind(k)) \/ ResetStats \/ UNCHANGED vars
      PROVE  UNCHANGED <<state, key, tier, lastUse, guard, freeList, index, table, completed,
                         cacheVars, readers>>
  BY <1>6 DEF EvictKeyFind, ResetStats, vars, slotVars, placeVars, clientVars, cacheVars
<1> QED BY <1>1, <1>2, <1>3, <1>4, <1>5, <1>6 DEF Next

\* A pinned resident expert stays where it is in every step.
LEMMA PinnedStep ==
    ASSUME StoreInv, [Next]_vars, NEW k \in Keys, Resident(k), tier[index[k]] = "Pinned"
    PROVE  index'[k] = index[k] /\ state'[index[k]] = "Resident" /\ tier'[index[k]] = "Pinned"
<1> USE DEF StoreInv
<1>1. PICK p \in Slot : p = index[k] /\ state[p] = "Resident" /\ key[p] = k /\ tier[p] = "Pinned"
  BY DEF Resident, Held, TypeOK, Placement, IndexExact
<1> SUFFICES index'[k] = p /\ state'[p] = "Resident" /\ tier'[p] = "Pinned"
  BY <1>1
<1>2. ASSUME NEW s \in Slot, state[s] # "Free", s # p PROVE key[s] # k
  BY ZenonT(30), <1>1, <1>2 DEF Placement, IndexExact
<1>3. ASSUME NEW s \in Evictable, EvictSlot(s)
      PROVE  index'[k] = p /\ state'[p] = "Resident" /\ tier'[p] = "Pinned"
  <2>1. s \in Slot /\ s # p /\ state[s] = "Resident"
    BY <1>1, <1>3 DEF Evictable
  <2> QED BY ZenonT(30), <1>1, <1>2, <1>3, <2>1 DEF EvictSlot, ReleaseLocked, TypeOK
<1>4. ASSUME NEW s \in Slot, state[s] = "Filling", SettleFailed(s)
      PROVE  index'[k] = p /\ state'[p] = "Resident" /\ tier'[p] = "Pinned"
  BY <1>1, <1>2, <1>4 DEF SettleFailed, ReleaseLocked, TypeOK
<1>5. ASSUME NEW s \in Slot, NEW t \in Stamp, state[s] = "Filling", SettleResident(s, t)
      PROVE  index'[k] = p /\ state'[p] = "Resident" /\ tier'[p] = "Pinned"
  BY ZenonT(30), <1>1, <1>5 DEF SettleResident, TypeOK
<1>6. ASSUME NEW j \in Keys, NEW t \in Tier, NEW n \in 1 .. MaxRuns, BeginFill(j, t, n)
      PROVE  index'[k] = p /\ state'[p] = "Resident" /\ tier'[p] = "Pinned"
  <2>1. PICK s \in Slot : s = freeList[Len(freeList)] /\ state[s] = "Free"
    <3>1. Len(freeList) \in Nat \ {0}
      BY <1>6 DEF TypeOK, BeginFill
    <3> QED BY <3>1 DEF TypeOK, Placement, FreeListExact
  <2>2. /\ index' = [index EXCEPT ![j] = s] /\ state' = [state EXCEPT ![s] = "Filling"]
        /\ tier' = [tier EXCEPT ![s] = t]
    BY <1>6, <2>1 DEF BeginFill
  <2>3. j # k
    BY <1>6 DEF BeginFill, Resident
  <2> QED BY ZenonT(30), <1>1, <2>1, <2>2, <2>3 DEF TypeOK
<1>7. ASSUME NEW j \in Keys, Pin(j)
      PROVE  index'[k] = p /\ state'[p] = "Resident" /\ tier'[p] = "Pinned"
  BY ZenonT(30), <1>1, <1>7 DEF Pin, TypeOK
<1>8. ASSUME \/ \E b \in BOOLEAN : SetFixedCache(b)
             \/ \E j \in Keys, t \in Stamp, g \in Timeline : Lookup(j, t, g)
             \/ \E v \in Timeline : SetCompletedTimeline(v)
             \/ \E g \in Timeline : GuardedSnapshot(g)
             \/ \E s \in Slot, v \in Timeline : SetGuard(s, v)
             \/ \E j \in Keys, t \in Stamp, b \in BOOLEAN : Touch(j, t, b)
             \/ UNCHANGED <<state, key, tier, lastUse, guard, freeList, index, table, completed,
                            cacheVars, readers>>
      PROVE  index'[k] = p /\ state'[p] = "Resident" /\ tier'[p] = "Pinned"
  <2>1. UNCHANGED <<state, tier, index>>
    BY ZenonT(30), <1>8 DEF SetFixedCache, Lookup, SetCompletedTimeline, GuardedSnapshot, SetGuard, Touch,
                slotVars, placeVars
  <2> QED BY <1>1, <2>1
<1> QED BY ZenonT(30), <1>3, <1>4, <1>5, <1>6, <1>7, <1>8, Transitions

\* No method moves, evicts or demotes a pinned resident expert.
THEOREM PinnedStaysTheorem == Spec => PinnedStays
<1>1. StoreInv /\ [Next]_vars =>
        [\A k \in Keys :
            Resident(k) /\ tier[index[k]] = "Pinned"
               => index'[k] = index[k] /\ state'[index[k]] = "Resident" /\ tier'[index[k]] = "Pinned"]_vars
  BY ZenonT(30), PinnedStep
<1> QED BY <1>1, StoreInvariant, PTL DEF Spec, PinnedStays

\* While the mask cache stays frozen nothing is reserved (reserve_locked
\* refuses), settles (nothing is Filling), leaves (evictable() is empty) or is
\* restamped.
LEMMA FrozenStep ==
    ASSUME StoreInv, [Next]_vars, cacheFrozen, cacheFrozen'
    PROVE  UNCHANGED <<state, key, index, table, lastUse>>
<1> USE DEF StoreInv
<1>1. fixedCache /\ \A s \in Slot : state[s] = "Resident"
  BY DEF FrozenIsFull
<1>2. Evictable = {}
  BY <1>1 DEF Evictable
<1>3. ~\E k \in Keys, t \in Tier, n \in 1 .. MaxRuns : BeginFill(k, t, n)
  BY DEF BeginFill
<1>4. ~\E k \in Keys, t \in Stamp, b \in BOOLEAN : Touch(k, t, b)
  BY <1>1 DEF Touch
<1>5. ASSUME NEW k \in Keys, NEW t \in Stamp, NEW g \in Timeline, Lookup(k, t, g)
      PROVE  UNCHANGED <<state, key, index, table, lastUse>>
  <2>1. lastUse' = lastUse
    BY <1>1, <1>5 DEF Lookup, TypeOK
  <2> QED BY ZenonT(30), <1>5, <2>1 DEF Lookup, placeVars
<1>6. ASSUME \/ \E b \in BOOLEAN : SetFixedCache(b)
             \/ \E k \in Keys : Pin(k)
             \/ \E v \in Timeline : SetCompletedTimeline(v)
             \/ \E g \in Timeline : GuardedSnapshot(g)
             \/ \E s \in Slot, v \in Timeline : SetGuard(s, v)
             \/ UNCHANGED <<state, key, tier, lastUse, guard, freeList, index, table, completed,
                            cacheVars, readers>>
      PROVE  UNCHANGED <<state, key, index, table, lastUse>>
  BY ZenonT(30), <1>6 DEF SetFixedCache, Pin, SetCompletedTimeline, GuardedSnapshot, SetGuard,
              slotVars, placeVars
<1>7. ~\E s \in Evictable : EvictSlot(s)
  BY <1>2
<1>8. ~\E s \in Slot : state[s] = "Filling"
  BY <1>1
<1> QED BY <1>3, <1>4, <1>5, <1>6, <1>7, <1>8, Transitions

\* A frozen mask cache does not change while it stays frozen.
THEOREM FrozenImmutableTheorem == Spec => FrozenImmutable
<1>1. StoreInv /\ [Next]_vars =>
        [cacheFrozen /\ cacheFrozen' => UNCHANGED <<state, key, index, table, lastUse>>]_vars
  BY FrozenStep
<1> QED BY <1>1, StoreInvariant, PTL DEF Spec, FrozenImmutable

\* The only step that makes a Filling slot Resident is a settle, and it keeps
\* the larger of the stamps.
LEMMA SettleStep ==
    ASSUME StoreInv, [Next]_vars, NEW p \in Slot, state[p] = "Filling", state'[p] = "Resident"
    PROVE  lastUse'[p] >= lastUse[p]
<1> USE DEF StoreInv
<1>1. lastUse[p] \in Nat /\ lastUse \in [Slot -> Stamp] /\ state \in [Slot -> SlotState]
  BY StoreAssumption DEF TypeOK, Stamp
<1>2. ASSUME NEW s \in Slot, NEW t \in Stamp, SettleResident(s, t)
      PROVE  lastUse'[p] >= lastUse[p]
  <2>1. t \in Nat
    BY ZenonT(30), StampsAreNaturals
  <2>2. CASE s = p
    <3>1. lastUse'[p] = Maximum(lastUse[p], t)
      BY <1>1, <1>2, <2>2 DEF SettleResident
    <3> QED BY <1>1, <2>1, <3>1 DEF Maximum
  <2>3. CASE s # p
    BY <1>1, <1>2, <2>3 DEF SettleResident
  <2> QED BY ZenonT(30), <2>2, <2>3
<1>3. ASSUME NEW s \in Evictable, EvictSlot(s) PROVE FALSE
  BY <1>1, <1>3 DEF EvictSlot, ReleaseLocked, Evictable
<1>4. ASSUME NEW s \in Slot, SettleFailed(s) PROVE FALSE
  BY <1>1, <1>4 DEF SettleFailed, ReleaseLocked
<1>5. ASSUME NEW k \in Keys, NEW t \in Tier, NEW n \in 1 .. MaxRuns, BeginFill(k, t, n)
      PROVE  FALSE
  <2>1. state' = [state EXCEPT ![freeList[Len(freeList)]] = "Filling"]
    BY <1>5 DEF BeginFill
  <2> QED BY <1>1, <2>1
<1>6. ASSUME \/ \E b \in BOOLEAN : SetFixedCache(b)
             \/ \E k \in Keys : Pin(k)
             \/ \E k \in Keys, t \in Stamp, g \in Timeline : Lookup(k, t, g)
             \/ \E v \in Timeline : SetCompletedTimeline(v)
             \/ \E g \in Timeline : GuardedSnapshot(g)
             \/ \E s \in Slot, v \in Timeline : SetGuard(s, v)
             \/ \E k \in Keys, t \in Stamp, b \in BOOLEAN : Touch(k, t, b)
             \/ UNCHANGED <<state, key, tier, lastUse, guard, freeList, index, table, completed,
                            cacheVars, readers>>
      PROVE  FALSE
  <2>1. state' = state
    BY <1>6 DEF SetFixedCache, Pin, Lookup, SetCompletedTimeline, GuardedSnapshot, SetGuard, Touch,
                slotVars
  <2> QED BY <2>1
<1> QED BY ZenonT(30), <1>2, <1>3, <1>4, <1>5, <1>6, Transitions

\* A settle never moves an expert's LRU stamp back, so a demand that touched
\* the expert while it was still Filling is not forgotten.
THEOREM SettleKeepsDemandTheorem == Spec => SettleKeepsDemand
<1>1. StoreInv /\ [Next]_vars =>
        [\A s \in Slot :
            state[s] = "Filling" /\ state'[s] = "Resident" => lastUse'[s] >= lastUse[s]]_vars
  BY SettleStep
<1> QED BY <1>1, StoreInvariant, PTL DEF Spec, SettleKeepsDemand

-----------------------------------------------------------------------------
(* The properties the model checker is given, for every instance *)

\* Index, slots, free list, pointer table, gauges and the frozen flag agree after
\* every call, by any thread, of any method.
THEOREM StoreConsistentTheorem == Spec => []StoreConsistent
<1>1. StoreInv => StoreConsistent
  BY DEF StoreInv, Placement, StoreConsistent
<1> QED BY <1>1, StoreInvariant, PTL

\* A reader's expert stays where it was told, under a guard that covers it, until
\* the timeline passes the reader.
THEOREM ReadersKeptTheorem == Spec => []ReadersKept
<1>1. StoreInv => ReadersKept
  BY DEF StoreInv, Guarding, ReadersKept
<1> QED BY <1>1, StoreInvariant, PTL

\* No call changes a frozen cache, moves a pinned expert, or lets a fill that
\* settles forget a touch.
THEOREM StoreStepsTheorem == Spec => StoreSteps
<1> QED BY FrozenImmutableTheorem, PinnedStaysTheorem, SettleKeepsDemandTheorem DEF StoreSteps

-----------------------------------------------------------------------------
(* The expert store implements the abstract expert cache *)


\* An initialised store is an empty cache.
LEMMA InitRefines == Init => Cache!Init
<1> SUFFICES ASSUME Init PROVE Cache!Init
  OBVIOUS
<1>1. \A k \in Keys : ~Held(k)
  BY DEF Init, Held
<1>2. Expert = [k \in Keys |-> "Absent"] /\ PinnedKeys = {}
  BY ZenonT(30), <1>1 DEF Expert, PinnedKeys, Resident
<1>3. Leases = {} /\ completed = 0 /\ fixedCache = FALSE
  BY DEF Init, Leases
<1> QED BY <1>2, <1>3 DEF Cache!Init

\* When no expert is placed or moved, the abstract cache sees no change.
LEMMA ExpertUnmoved ==
    ASSUME UNCHANGED <<state, index>>
    PROVE  Expert' = Expert
BY DEF Expert, Held

\* The same of the pinned experts.
LEMMA PinnedUnmoved ==
    ASSUME UNCHANGED <<state, index, tier>>
    PROVE  PinnedKeys' = PinnedKeys
BY ZenonT(30) DEF PinnedKeys, Resident, Held

\* An eviction is a Leave: the guard comparison of evictable() implies that no
\* lease on the expert is outstanding.
LEMMA EvictRefines ==
    ASSUME StoreInv, NEW s \in Evictable, EvictSlot(s)
    PROVE  Cache!Leave(key[s])
<1> USE DEF StoreInv
<1>1. s \in Slot /\ state[s] = "Resident" /\ tier[s] # "Pinned" /\ guard[s] <= completed
      /\ ~fixedCache
  BY ZenonT(30) DEF Evictable
<1>2. PICK k \in Keys : k = key[s] /\ index[k] = s /\ s # NoSlot
  BY <1>1, StoreAssumption DEF TypeOK, Placement, IndexExact, Slot, NoSlot
<1>3. /\ state' = [state EXCEPT ![s] = "Free"] /\ index' = [index EXCEPT ![k] = NoSlot]
      /\ tier' = tier /\ readers' = readers /\ completed' = completed
      /\ fixedCache' = fixedCache
  BY <1>2 DEF EvictSlot, ReleaseLocked, cacheVars
<1>4. \A j \in Keys \ {k} : index[j] # s
  BY ZenonT(30), <1>1, <1>2 DEF Placement, IndexExact, Held
<1>5. Expert[k] = "Resident" /\ k \notin PinnedKeys
  BY <1>1, <1>2 DEF Expert, PinnedKeys, Held
<1>6. Expert' = [Expert EXCEPT ![k] = "Absent"]
  BY ZenonT(30), <1>1, <1>2, <1>3, <1>4 DEF Expert, Held, TypeOK
<1>7. PinnedKeys' = PinnedKeys
  BY ZenonT(30), <1>1, <1>2, <1>3, <1>4 DEF PinnedKeys, Resident, Held, TypeOK
<1>8. ASSUME NEW r \in readers PROVE r.key # k
  <2>1. r.slot \in Slot /\ r.guard \in Nat /\ guard[r.slot] \in Nat /\ completed \in Nat
    BY DEF TypeOK, Reader, Timeline
  <2>2. guard[r.slot] >= r.guard /\ r.guard > completed
    BY ZenonT(30) DEF Guarding, ReadersGuarded
  <2>3. r.slot # s
    BY <1>1, <2>1, <2>2
  <2>4. index[r.key] = r.slot
    BY ZenonT(30), <2>1 DEF Guarding, ReadersHeld, Placement, IndexExact
  <2> QED BY ZenonT(30), <1>2, <2>3, <2>4
<1>9. Leases' = Leases /\ ~\E l \in Leases : l[1] = k
  BY <1>3, <1>8 DEF Leases
<1> QED BY ZenonT(30), <1>1, <1>2, <1>3, <1>5, <1>6, <1>7, <1>9 DEF Cache!Leave, Cache!Leased

\* A failed fill is a Fail.
LEMMA SettleFailedRefines ==
    ASSUME StoreInv, NEW s \in Slot, state[s] = "Filling", SettleFailed(s),
           UNCHANGED <<completed, fixedCache, readers>>
    PROVE  Cache!Fail(key[s])
<1> USE DEF StoreInv
<1>1. PICK k \in Keys : k = key[s] /\ index[k] = s /\ s # NoSlot
  BY StoreAssumption DEF TypeOK, Placement, IndexExact, Slot, NoSlot
<1>2. /\ state' = [state EXCEPT ![s] = "Free"] /\ index' = [index EXCEPT ![k] = NoSlot]
      /\ tier' = tier
  BY <1>1 DEF SettleFailed, ReleaseLocked
<1>3. \A j \in Keys \ {k} : index[j] # s
  BY ZenonT(30), <1>1 DEF Placement, IndexExact, Held
<1>4. Expert[k] = "Filling"
  BY ZenonT(30), <1>1 DEF Expert, Held
<1>5. Expert' = [Expert EXCEPT ![k] = "Absent"]
  BY ZenonT(30), <1>1, <1>2, <1>3 DEF Expert, Held, TypeOK
<1>6. PinnedKeys' = PinnedKeys
  BY <1>1, <1>2, <1>3 DEF PinnedKeys, Resident, Held, TypeOK
<1>7. Leases' = Leases
  BY DEF Leases
<1> QED BY ZenonT(30), <1>1, <1>4, <1>5, <1>6, <1>7 DEF Cache!Fail

\* A fill that landed is a Land, pinned if it was reserved as pinned.
LEMMA SettleResidentRefines ==
    ASSUME StoreInv, NEW s \in Slot, NEW t \in Stamp, state[s] = "Filling",
           SettleResident(s, t), UNCHANGED <<completed, fixedCache, readers>>
    PROVE  Cache!Land(key[s])
<1> USE DEF StoreInv
<1>1. PICK k \in Keys : k = key[s] /\ index[k] = s /\ s # NoSlot
  BY StoreAssumption DEF TypeOK, Placement, IndexExact, Slot, NoSlot
<1>2. state' = [state EXCEPT ![s] = "Resident"] /\ index' = index /\ tier' = tier
  BY DEF SettleResident
<1>3. \A j \in Keys \ {k} : index[j] # s
  BY ZenonT(30), <1>1 DEF Placement, IndexExact, Held
<1>4. Expert[k] = "Filling"
  BY ZenonT(30), <1>1 DEF Expert, Held
<1>5. Expert' = [Expert EXCEPT ![k] = "Resident"]
  BY ZenonT(30), <1>1, <1>2, <1>3 DEF Expert, Held, TypeOK
<1>6. PinnedKeys' = IF tier[s] = "Pinned" THEN PinnedKeys \union {k} ELSE PinnedKeys
  BY <1>1, <1>2, <1>3 DEF PinnedKeys, Resident, Held, TypeOK
<1>7. Leases' = Leases
  BY ZenonT(30) DEF Leases
<1> QED BY ZenonT(30), <1>1, <1>4, <1>5, <1>6, <1>7 DEF Cache!Land

\* The abstract cache counts as the store does.
LEMMA SameCount == ASSUME NEW S PROVE Cache!Cardinality(S) = Cardinality(S)
BY DEF Cache!Cardinality, Cardinality

\* While a slot is free the cache holds fewer experts than it has slots: the
\* held experts sit in different slots, none of them the free one.
LEMMA RoomLeft ==
    ASSUME StoreInv, NEW s \in Slot, state[s] = "Free"
    PROVE  Cardinality(Cache!Holding) < NumSlots
<1> USE DEF StoreInv
<1> DEFINE H == {k \in Keys : Held(k)}
           f == [k \in H |-> index[k]]
<1>1. Cache!Holding = H
  <2>1. \A k \in Keys : Held(k) => state[index[k]] \in SlotState
    BY ZenonT(30) DEF TypeOK, Held
  <2> QED BY ZenonT(30), <2>1 DEF Cache!Holding, Expert, SlotState
<1>2. \A k \in H : index[k] \in Slot \ {s} /\ key[index[k]] = k
  BY DEF TypeOK, Placement, IndexExact, Held
<1>3. f \in Injection(H, Slot \ {s})
  BY <1>2 DEF Injection, IsInjective
<1>4. IsFiniteSet(Slot \ {s}) /\ Cardinality(Slot \ {s}) = NumSlots - 1
  BY SlotCount, FS_RemoveElement
<1>5. IsFiniteSet(H) /\ Cardinality(H) <= Cardinality(Slot \ {s})
  BY ZenonT(30), <1>3, <1>4, FS_Injection
<1>6. Cardinality(H) \in Nat
  BY <1>5, FS_CardinalityType
<1> QED BY ZenonT(30), <1>1, <1>4, <1>5, <1>6, OneFewer

\* A reservation is a Reserve.
LEMMA BeginFillRefines ==
    ASSUME StoreInv, NEW k \in Keys, NEW t \in Tier, NEW n \in 1 .. MaxRuns,
           BeginFill(k, t, n)
    PROVE  Cache!Reserve(k)
<1> USE DEF StoreInv
<1>1. PICK s \in Slot : s = freeList[Len(freeList)] /\ state[s] = "Free"
  <2>1. Len(freeList) \in Nat \ {0}
    BY DEF TypeOK, BeginFill
  <2> QED BY <2>1 DEF TypeOK, Placement, FreeListExact
<1>2. /\ state' = [state EXCEPT ![s] = "Filling"] /\ index' = [index EXCEPT ![k] = s]
      /\ tier' = [tier EXCEPT ![s] = t] /\ readers' = readers /\ completed' = completed
      /\ fixedCache' = fixedCache /\ ~Held(k)
  BY <1>1 DEF BeginFill, cacheVars, clientVars
<1>3. s # NoSlot /\ \A j \in Keys : index[j] # s
  <2>1. s # NoSlot
    BY StoreAssumption DEF Slot, NoSlot
  <2>2. IndexExact
    BY ZenonT(30) DEF Placement
  <2> QED BY ZenonT(30), <1>1, <2>1, <2>2 DEF IndexExact, Held
<1>4. Expert[k] = "Absent"
  BY <1>2 DEF Expert
<1>5. Expert' = [Expert EXCEPT ![k] = "Filling"]
  BY ZenonT(30), <1>1, <1>2, <1>3 DEF Expert, Held, TypeOK
<1>6. PinnedKeys' = PinnedKeys
  BY <1>1, <1>2, <1>3 DEF PinnedKeys, Resident, Held, TypeOK
<1>7. Leases' = Leases
  BY ZenonT(30), <1>2 DEF Leases
<1>8. Cardinality(Cache!Holding) < NumSlots
  BY ZenonT(30), <1>1, RoomLeft
<1> QED BY ZenonT(30), <1>2, <1>4, <1>5, <1>6, <1>7, <1>8, SameCount DEF Cache!Reserve

\* pin is a Pin.
LEMMA PinRefines ==
    ASSUME StoreInv, NEW k \in Keys, Pin(k)
    PROVE  Cache!Pin(k)
<1> USE DEF StoreInv
<1>1. /\ tier' = [tier EXCEPT ![index[k]] = "Pinned"] /\ Resident(k)
      /\ UNCHANGED <<state, index, completed, readers, fixedCache>>
  BY ZenonT(30) DEF Pin, cacheVars, clientVars
<1>2. index[k] \in Slot /\ \A j \in Keys \ {k} : Held(j) => index[j] # index[k]
  BY <1>1 DEF Resident, Held, TypeOK, Placement, IndexExact
<1>3. PinnedKeys' = PinnedKeys \union {k}
  BY <1>1, <1>2 DEF PinnedKeys, Resident, Held, TypeOK
<1>4. Expert' = Expert /\ Expert[k] = "Resident"
  BY ZenonT(30), <1>1, ExpertUnmoved DEF Expert, Resident
<1>5. Leases' = Leases
  BY ZenonT(30), <1>1 DEF Leases
<1> QED BY ZenonT(30), <1>1, <1>3, <1>4, <1>5 DEF Cache!Pin

\* A guarded hit and set_guard on a resident slot are Leases of one expert; on
\* a guard the timeline has passed, or a slot not resident, nothing.
LEMMA ReaderRefines ==
    ASSUME StoreInv, NEW k \in Keys, Resident(k), NEW g \in Timeline, g > completed,
           readers' = readers \union {[key |-> k, slot |-> index[k], guard |-> g]},
           UNCHANGED <<state, index, tier, completed, fixedCache>>
    PROVE  Cache!Lease({k}, g)
<1>1. Expert' = Expert /\ PinnedKeys' = PinnedKeys
  BY ExpertUnmoved, PinnedUnmoved
<1>2. Expert[k] = "Resident"
  BY ZenonT(30) DEF Expert, Resident
<1>3. Leases' = Leases \union {<<j, g>> : j \in {k}}
  <2> DEFINE new == [key |-> k, slot |-> index[k], guard |-> g]
  <2>1. new.key = k /\ new.guard = g /\ readers' = readers \union {new}
    OBVIOUS
  <2> HIDE DEF new
  <2>2. Leases' = Leases \union {<<new.key, new.guard>>}
    BY <2>1 DEF Leases
  <2> QED BY ZenonT(30), <2>1, <2>2
<1> QED BY ZenonT(30), <1>1, <1>2, <1>3 DEF Cache!Lease

\* guarded_snapshot is a Lease of every published expert.
LEMMA SnapshotRefines ==
    ASSUME StoreInv, NEW g \in Timeline, GuardedSnapshot(g)
    PROVE  \E K \in SUBSET Keys : Cache!Lease(K, g)
<1> USE DEF StoreInv
<1> DEFINE K == {k \in Keys : table[k] # NoSlot}
<1>1. /\ UNCHANGED <<state, index, tier, completed, fixedCache>> /\ g > completed
      /\ readers' = readers \union {[key |-> k, slot |-> table[k], guard |-> g] : k \in K}
  BY ZenonT(30) DEF GuardedSnapshot, placeVars, cacheVars
<1>2. Expert' = Expert /\ PinnedKeys' = PinnedKeys
  BY ZenonT(30), <1>1, ExpertUnmoved, PinnedUnmoved
<1>3. \A k \in K : Expert[k] = "Resident"
  BY DEF Placement, TableExact, Expert
<1>4. Leases' = Leases \union {<<k, g>> : k \in K}
  <2> DEFINE new(k) == [key |-> k, slot |-> table[k], guard |-> g]
  <2>1. readers' = readers \union {new(k) : k \in K}
        /\ \A k \in K : new(k).key = k /\ new(k).guard = g
    BY <1>1
  <2> HIDE DEF new, K
  <2>2. Leases' = Leases \union {<<new(k).key, new(k).guard>> : k \in K}
    BY ZenonT(30), <2>1 DEF Leases
  <2> QED BY ZenonT(30), <2>1, <2>2
<1> QED BY ZenonT(30), <1>1, <1>2, <1>3, <1>4 DEF Cache!Lease

\* Every step of the store is a step of the abstract cache or no step of it.
LEMMA StepRefines ==
    ASSUME StoreInv, [Next]_vars
    PROVE  [Cache!Next]_(Cache!vars)
<1> USE DEF StoreInv
<1>1. ASSUME NEW s \in Evictable, EvictSlot(s) PROVE Cache!Next
  <2>1. key[s] \in Keys
    BY DEF Evictable, TypeOK
  <2> QED BY ZenonT(30), <1>1, <2>1, EvictRefines DEF Cache!Next
<1>2. ASSUME NEW s \in Slot, state[s] = "Filling", SettleFailed(s),
             UNCHANGED <<completed, fixedCache, readers>>
      PROVE  Cache!Next
  <2>1. key[s] \in Keys
    BY DEF TypeOK
  <2> QED BY ZenonT(30), <1>2, <2>1, SettleFailedRefines DEF Cache!Next
<1>3. ASSUME NEW s \in Slot, NEW t \in Stamp, state[s] = "Filling", SettleResident(s, t),
             UNCHANGED <<completed, fixedCache, readers>>
      PROVE  Cache!Next
  <2>1. key[s] \in Keys
    BY DEF TypeOK
  <2> QED BY ZenonT(30), <1>3, <2>1, SettleResidentRefines DEF Cache!Next
<1>4. ASSUME NEW k \in Keys, NEW t \in Tier, NEW n \in 1 .. MaxRuns, BeginFill(k, t, n)
      PROVE  Cache!Next
  BY <1>4, BeginFillRefines DEF Cache!Next
<1>5. ASSUME NEW k \in Keys, Pin(k) PROVE Cache!Next
  BY <1>5, PinRefines DEF Cache!Next
<1>6. ASSUME NEW b \in BOOLEAN, SetFixedCache(b) PROVE Cache!Next
  <2>1. UNCHANGED <<state, index, tier, completed, readers>> /\ fixedCache' = b
    BY <1>6 DEF SetFixedCache, slotVars, placeVars, clientVars
  <2>2. UNCHANGED <<Expert, PinnedKeys, Leases, completed>>
    BY ZenonT(30), <2>1, ExpertUnmoved, PinnedUnmoved DEF Leases
  <2> QED BY <2>1, <2>2 DEF Cache!Next, Cache!SetFixed
<1>7. ASSUME NEW v \in Timeline, SetCompletedTimeline(v) PROVE Cache!Next
  <2>1. /\ UNCHANGED <<state, index, tier, fixedCache>> /\ completed' = v /\ v > completed
        /\ readers' = {r \in readers : r.guard > v}
    BY <1>7 DEF SetCompletedTimeline, slotVars, placeVars, cacheVars
  <2>2. UNCHANGED <<Expert, PinnedKeys>>
    BY ZenonT(30), <2>1, ExpertUnmoved, PinnedUnmoved
  <2>3. Leases' = {l \in Leases : l[2] > v}
    BY <2>1 DEF Leases
  <2> QED BY ZenonT(30), <2>1, <2>2, <2>3 DEF Cache!Next, Cache!Complete, Timeline
<1>8. ASSUME NEW g \in Timeline, GuardedSnapshot(g) PROVE Cache!Next
  BY ZenonT(30), <1>8, SnapshotRefines DEF Cache!Next, Timeline
<1>9. ASSUME UNCHANGED <<state, index, tier, completed, fixedCache, readers>>
      PROVE  UNCHANGED Cache!vars
  BY ZenonT(30), <1>9, ExpertUnmoved, PinnedUnmoved DEF Cache!vars, Leases
<1>10. ASSUME NEW k \in Keys, Resident(k), NEW g \in Timeline,
              readers' = IF g > completed
                         THEN readers \union {[key |-> k, slot |-> index[k], guard |-> g]}
                         ELSE readers,
              UNCHANGED <<state, index, tier, completed, fixedCache>>
       PROVE  Cache!Next \/ UNCHANGED Cache!vars
  <2>1. CASE g > completed
    <3>1. Cache!Lease({k}, g)
      BY ZenonT(30), <1>10, <2>1, ReaderRefines
    <3> QED BY ZenonT(30), <3>1 DEF Cache!Next, Timeline
  <2>2. CASE ~(g > completed)
    BY ZenonT(30), <1>9, <1>10, <2>2
  <2> QED BY <2>1, <2>2
<1>11. ASSUME NEW k \in Keys, NEW t \in Stamp, NEW g \in Timeline, Lookup(k, t, g)
       PROVE  Cache!Next \/ UNCHANGED Cache!vars
  <2>1. Resident(k) /\ UNCHANGED <<state, index, tier, completed, fixedCache>>
        /\ readers' = IF g > completed
                      THEN readers \union {[key |-> k, slot |-> index[k], guard |-> g]}
                      ELSE readers
    BY <1>11 DEF Lookup, placeVars, cacheVars
  <2> QED BY ZenonT(30), <1>10, <2>1
<1>12. ASSUME NEW s \in Slot, NEW v \in Timeline, SetGuard(s, v)
       PROVE  Cache!Next \/ UNCHANGED Cache!vars
  <2>1. UNCHANGED <<state, index, tier, completed, fixedCache>>
        /\ readers' = IF state[s] = "Resident" /\ v > completed
                      THEN readers \union {[key |-> key[s], slot |-> s, guard |-> v]}
                      ELSE readers
    BY ZenonT(30), <1>12 DEF SetGuard, placeVars, cacheVars
  <2>2. CASE state[s] = "Resident"
    <3>1. key[s] \in Keys /\ index[key[s]] = s /\ Resident(key[s])
      BY ZenonT(30), <2>2, NoSlotIsNoSlot DEF TypeOK, Placement, IndexExact, Resident, Held
    <3> QED BY ZenonT(30), <1>10, <2>1, <2>2, <3>1
  <2>3. CASE state[s] # "Resident"
    BY ZenonT(30), <1>9, <2>1, <2>3
  <2> QED BY <2>2, <2>3
<1>13. ASSUME NEW k \in Keys, NEW t \in Stamp, NEW b \in BOOLEAN, Touch(k, t, b)
       PROVE  UNCHANGED Cache!vars
  <2>1. UNCHANGED <<state, index, tier, completed, fixedCache, readers>>
    BY <1>13 DEF Touch, placeVars, cacheVars, clientVars
  <2> QED BY <1>9, <2>1
<1>14. ASSUME UNCHANGED <<state, key, tier, lastUse, guard, freeList, index, table, completed,
                          cacheVars, readers>>
       PROVE  UNCHANGED Cache!vars
  BY <1>9, <1>14 DEF cacheVars
<1> QED BY ZenonT(30), <1>1, <1>2, <1>3, <1>4, <1>5, <1>6, <1>7, <1>8, <1>11, <1>12, <1>13, <1>14, Transitions

\* The store implements the abstract cache: whatever order its methods are
\* called in, no expert leaves while pinned, leased or in a fixed cache, and
\* no more experts are held than there are slots.
THEOREM Refinement == Spec => ImplementsCache
<1> QED BY InitRefines, StepRefines, StoreInvariant, PTL DEF Spec, ImplementsCache, Cache!Spec

=============================================================================
