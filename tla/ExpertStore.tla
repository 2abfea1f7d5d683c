----------------------------- MODULE ExpertStore -----------------------------
(***************************************************************************)
(* store/expert_store.{h,cpp}: where every routed expert is.               *)
(*                                                                         *)
(* A slot of the slab pool goes Free -> Filling -> Resident -> Free.  The  *)
(* store keeps the slots, the stack of free slots, the index from keys to  *)
(* slots, the pointer table the MoE kernel reads, the GPU timeline value   *)
(* that has completed, and the gauges it reports (and decides with: a      *)
(* mask cache freezes when the resident gauge reaches the slot count).     *)
(*                                                                         *)
(* Every public method runs under one mutex, so a method is one action;    *)
(* evict_key, which takes the mutex twice, is two.  The specification is   *)
(* the store under its most general client: any method may be called at    *)
(* any time with any argument, which is what "safe from any thread"        *)
(* promises.  A call that is refused changes nothing and is a stuttering   *)
(* step.  Router heat (note_heat, decay_heat, heat_order) is left out.     *)
(***************************************************************************)
EXTENDS Integers, Sequences, FiniteSets

CONSTANTS
    Keys,           \* the (layer, expert) pairs of the pointer table
    DefaultKey,     \* ExpertKey{} = (0, 0): a real expert, and the key of a free slot
    NumSlots,       \* pool_.slot_count()
    PathB,          \* the slots whose slab is at or past path_b_first_slab_
    EvictPath,      \* evict_path_, set once after the pool is built
    MaxRuns,        \* kMaxExpertRuns
    MaxStamp,       \* bound on LRU stamps
    MaxTimeline     \* bound on GPU timeline values

Slot == 0 .. NumSlots - 1
NoSlot == NumSlots                       \* absent from index_; 0 in the pointer table
Stamp == 0 .. MaxStamp
Timeline == 0 .. MaxTimeline
SlotState == {"Free", "Filling", "Resident"}
Tier == {"Pinned", "Cached"}

ASSUME StoreAssumption ==
    /\ DefaultKey \in Keys
    /\ IsFiniteSet(Keys)
    /\ NumSlots \in Nat \ {0}
    /\ PathB \subseteq Slot
    /\ EvictPath \in {"Off", "PreferA", "PreferB"}
    /\ MaxRuns \in Nat \ {0}
    /\ MaxStamp \in Nat
    /\ MaxTimeline \in Nat

VARIABLES
    state, key, tier,                \* ExpertSlot: lifecycle, occupant, tier
    lastUse,                         \* ExpertSlot::last_use_token
    guard,                           \* ExpertSlot::guard_timeline
    runsTotal, runsDone, runFailed,  \* ExpertSlot: fill bookkeeping
    freeList,                        \* free_list_, back() is the last element
    index,                           \* index_
    table,                           \* table_: the slot a key's six addresses point into
    completed,                       \* completed_timeline_
    fixedCache, cacheFrozen,
    stats,                           \* the four gauges of stats_
    evicting,                        \* evict_key between its two critical sections
    readers                          \* command buffers that hold an address and have
                                     \* not completed: [key, slot, guard]

fillVars == <<runsTotal, runsDone, runFailed>>
slotVars == <<state, key, tier, lastUse, guard, fillVars>>
cacheVars == <<fixedCache, cacheFrozen>>
placeVars == <<freeList, index, table, stats>>
clientVars == <<evicting, readers>>
vars == <<slotVars, placeVars, completed, cacheVars, clientVars>>

Maximum(a, b) == IF a >= b THEN a ELSE b

-----------------------------------------------------------------------------
(* init() *)

\* The stack is filled so that slot 0 is on top.
Init ==
    /\ state = [s \in Slot |-> "Free"]
    /\ key = [s \in Slot |-> DefaultKey]
    /\ tier = [s \in Slot |-> "Cached"]
    /\ lastUse = [s \in Slot |-> 0]
    /\ guard = [s \in Slot |-> 0]
    /\ runsTotal = [s \in Slot |-> 0]
    /\ runsDone = [s \in Slot |-> 0]
    /\ runFailed = [s \in Slot |-> FALSE]
    /\ freeList = [i \in 1 .. NumSlots |-> NumSlots - i]
    /\ index = [k \in Keys |-> NoSlot]
    /\ table = [k \in Keys |-> NoSlot]
    /\ completed = 0
    /\ fixedCache = FALSE
    /\ cacheFrozen = FALSE
    /\ stats = [resident |-> 0, filling |-> 0, free |-> NumSlots, pinned |-> 0]
    /\ evicting = NoSlot
    /\ readers = {}

-----------------------------------------------------------------------------
(* Queries *)

Held(k) == index[k] # NoSlot                                     \* slot_of
Resident(k) == Held(k) /\ state[index[k]] = "Resident"           \* resident, wait_settled
FillingKey(k) == Held(k) /\ state[index[k]] = "Filling"
FreeSlots == Len(freeList)                                       \* free_slots

\* Mutant of Evictable: only the mask path remembers that the cache is fixed.
EvictableIgnoringFixed ==
    {s \in Slot : state[s] = "Resident" /\ tier[s] # "Pinned" /\ guard[s] <= completed}

\* The slots evictable() lists; with a fixed cache, none.
Evictable ==
    {s \in Slot : /\ ~fixedCache
                  /\ state[s] = "Resident"
                  /\ tier[s] # "Pinned"
                  /\ guard[s] <= completed}

-----------------------------------------------------------------------------
(* The locked helpers, as parts of the actions below *)

\* Mutant of ReleaseLocked: the key is cleared before it is erased from index_.
ReleaseLockedKeyFirst(s) ==
    /\ index' = [index EXCEPT ![DefaultKey] = NoSlot]
    /\ key' = [key EXCEPT ![s] = DefaultKey]
    /\ state' = [state EXCEPT ![s] = "Free"]
    /\ guard' = [guard EXCEPT ![s] = 0]
    /\ runsTotal' = [runsTotal EXCEPT ![s] = 0]
    /\ runsDone' = [runsDone EXCEPT ![s] = 0]
    /\ runFailed' = [runFailed EXCEPT ![s] = FALSE]
    /\ freeList' = Append(freeList, s)
    /\ UNCHANGED <<tier, lastUse>>

\* release_locked: the tier and the stamp stay behind in the free slot.
ReleaseLocked(s) ==
    /\ index' = [index EXCEPT ![key[s]] = NoSlot]
    /\ key' = [key EXCEPT ![s] = DefaultKey]
    /\ state' = [state EXCEPT ![s] = "Free"]
    /\ guard' = [guard EXCEPT ![s] = 0]
    /\ runsTotal' = [runsTotal EXCEPT ![s] = 0]
    /\ runsDone' = [runsDone EXCEPT ![s] = 0]
    /\ runFailed' = [runFailed EXCEPT ![s] = FALSE]
    /\ freeList' = Append(freeList, s)
    /\ UNCHANGED <<tier, lastUse>>

\* settle_locked(ok): publish_locked, the gauges, and the freeze of a mask cache.
SettleResident(s, token) ==
    /\ state' = [state EXCEPT ![s] = "Resident"]
    /\ lastUse' = [lastUse EXCEPT ![s] = Maximum(lastUse[s], token)]
    /\ table' = [table EXCEPT ![key[s]] = s]
    /\ stats' = [stats EXCEPT !.filling = @ - 1,
                              !.resident = @ + 1,
                              !.pinned = IF tier[s] = "Pinned" THEN @ + 1 ELSE @]
    /\ cacheFrozen' = (cacheFrozen \/ (fixedCache /\ stats.resident + 1 = NumSlots))
    /\ UNCHANGED <<key, tier, guard, freeList, index>>

\* settle_locked(!ok)
SettleFailed(s) ==
    /\ ReleaseLocked(s)
    /\ stats' = [stats EXCEPT !.filling = @ - 1, !.free = @ + 1]
    /\ UNCHANGED <<table, cacheFrozen>>

\* The common tail of evict and evict_lru: unpublish_locked, release_locked.
EvictSlot(s) ==
    /\ table' = [table EXCEPT ![key[s]] = NoSlot]
    /\ ReleaseLocked(s)
    /\ stats' = [stats EXCEPT !.resident = @ - 1, !.free = @ + 1]
    /\ UNCHANGED <<completed, cacheVars, readers>>

-----------------------------------------------------------------------------
(* The public methods *)

SetFixedCache(enabled) ==
    /\ fixedCache' = enabled
    /\ cacheFrozen' = (enabled /\ stats.resident = NumSlots)
    /\ UNCHANGED <<slotVars, placeVars, completed, clientVars>>

\* Mutant of Lookup: a fixed cache is stamped too.
LookupStampsFixed(k, token, g) ==
    /\ Resident(k)
    /\ LET s == index[k]
       IN  /\ lastUse' = [lastUse EXCEPT ![s] = token]
           /\ guard' = [guard EXCEPT ![s] = Maximum(@, g)]
           /\ readers' = IF g > completed
                         THEN readers \union {[key |-> k, slot |-> s, guard |-> g]}
                         ELSE readers
    /\ UNCHANGED <<state, key, tier, fillVars, placeVars, completed, cacheVars, evicting>>

\* A hit: the stamp is refreshed unless the cache is fixed, and a command
\* buffer that will signal g holds the address from here on.
Lookup(k, token, g) ==
    /\ Resident(k)
    /\ LET s == index[k]
       IN  /\ lastUse' = [lastUse EXCEPT ![s] = IF fixedCache THEN @ ELSE token]
           /\ guard' = [guard EXCEPT ![s] = Maximum(@, g)]
           /\ readers' = IF g > completed
                         THEN readers \union {[key |-> k, slot |-> s, guard |-> g]}
                         ELSE readers
    /\ UNCHANGED <<state, key, tier, fillVars, placeVars, completed, cacheVars, evicting>>

\* reserve_locked and the run count begin_fill records.
BeginFill(k, t, runs) ==
    /\ ~cacheFrozen
    /\ ~Held(k)
    /\ freeList # <<>>
    /\ LET s == freeList[Len(freeList)]
       IN  /\ freeList' = SubSeq(freeList, 1, Len(freeList) - 1)
           /\ index' = [index EXCEPT ![k] = s]
           /\ key' = [key EXCEPT ![s] = k]
           /\ state' = [state EXCEPT ![s] = "Filling"]
           /\ lastUse' = [lastUse EXCEPT ![s] = 0]
           /\ tier' = [tier EXCEPT ![s] = t]
           /\ guard' = [guard EXCEPT ![s] = 0]
           /\ runsTotal' = [runsTotal EXCEPT ![s] = runs]
           /\ runsDone' = [runsDone EXCEPT ![s] = 0]
           /\ runFailed' = [runFailed EXCEPT ![s] = FALSE]
    /\ stats' = [stats EXCEPT !.free = @ - 1, !.filling = @ + 1]
    /\ UNCHANGED <<table, completed, cacheVars, clientVars>>

\* One run has reported; the last one settles the slot.
FinishRun(s, ok, token) ==
    /\ state[s] = "Filling"
    /\ runsDone[s] < runsTotal[s]
    /\ LET done == runsDone[s] + 1
           failed == runFailed[s] \/ ~ok
       IN  \/ /\ done < runsTotal[s]
              /\ runsDone' = [runsDone EXCEPT ![s] = done]
              /\ runFailed' = [runFailed EXCEPT ![s] = failed]
              /\ UNCHANGED <<state, key, tier, lastUse, guard, runsTotal, placeVars,
                             cacheFrozen>>
           \/ /\ done = runsTotal[s]
              /\ ~failed
              /\ runsDone' = [runsDone EXCEPT ![s] = done]
              /\ SettleResident(s, token)
              /\ UNCHANGED <<runsTotal, runFailed>>
           \/ /\ done = runsTotal[s]
              /\ failed
              /\ SettleFailed(s)
    /\ UNCHANGED <<completed, fixedCache, clientVars>>

\* The whole fill at once, whatever is still outstanding.
FinishFill(s, ok, token) ==
    /\ state[s] = "Filling"
    /\ \/ /\ ok
          /\ ~runFailed[s]
          /\ runsDone' = [runsDone EXCEPT ![s] = runsTotal[s]]
          /\ SettleResident(s, token)
          /\ UNCHANGED <<runsTotal, runFailed>>
       \/ /\ ~ok \/ runFailed[s]
          /\ SettleFailed(s)
    /\ UNCHANGED <<completed, fixedCache, clientVars>>

Evict(s) ==
    /\ s \in Evictable
    /\ EvictSlot(s)
    /\ UNCHANGED evicting

\* evict_key: the slot is found in one critical section ...
EvictKeyFind(k) ==
    /\ evicting = NoSlot
    /\ Held(k)
    /\ evicting' = index[k]
    /\ UNCHANGED <<slotVars, placeVars, completed, cacheVars, readers>>

\* ... and evicted in another, if it may still be.
EvictKeyEvict ==
    /\ evicting # NoSlot
    /\ \/ evicting \in Evictable /\ EvictSlot(evicting)
       \/ /\ evicting \notin Evictable
          /\ UNCHANGED <<slotVars, placeVars, completed, cacheVars, readers>>
    /\ evicting' = NoSlot

\* The slots the LRU scan looks at: those on the preferred memory path if any
\* of them is evictable, else all.
LruCandidates ==
    LET preferred == CASE EvictPath = "PreferA" -> Evictable \ PathB
                       [] EvictPath = "PreferB" -> Evictable \intersect PathB
                       [] EvictPath = "Off" -> Evictable
    IN  IF preferred # {} THEN preferred ELSE Evictable

\* The oldest stamp goes first, and among equal stamps the lowest slot.
LruVictim(s) ==
    /\ s \in LruCandidates
    /\ \A t \in LruCandidates :
          lastUse[s] < lastUse[t] \/ (lastUse[s] = lastUse[t] /\ s <= t)

EvictLru ==
    /\ \E s \in Slot : LruVictim(s) /\ EvictSlot(s)
    /\ UNCHANGED evicting

\* The timeline only moves forward; buffers it has passed have completed.
SetCompletedTimeline(v) ==
    /\ v > completed
    /\ completed' = v
    /\ readers' = {r \in readers : r.guard > v}
    /\ UNCHANGED <<slotVars, placeVars, cacheVars, evicting>>

\* A copy of the whole table for a buffer that will signal g.
GuardedSnapshot(g) ==
    /\ g > completed
    /\ guard' = [s \in Slot |-> IF state[s] = "Resident" THEN Maximum(guard[s], g)
                                                         ELSE guard[s]]
    /\ readers' = readers \union
          {[key |-> k, slot |-> table[k], guard |-> g] : k \in {j \in Keys : table[j] # NoSlot}}
    /\ UNCHANGED <<state, key, tier, lastUse, fillVars, placeVars, completed, cacheVars,
                   evicting>>

\* Mutant of SetGuard: the guard may move back.
SetGuardDown(s, v) ==
    /\ guard' = [guard EXCEPT ![s] = v]
    /\ readers' = IF state[s] = "Resident" /\ v > completed
                  THEN readers \union {[key |-> key[s], slot |-> s, guard |-> v]}
                  ELSE readers
    /\ UNCHANGED <<state, key, tier, lastUse, fillVars, placeVars, completed, cacheVars,
                   evicting>>

\* Any slot in any state; a resident one is then read by the buffer signalling v.
SetGuard(s, v) ==
    /\ guard' = [guard EXCEPT ![s] = Maximum(@, v)]
    /\ readers' = IF state[s] = "Resident" /\ v > completed
                  THEN readers \union {[key |-> key[s], slot |-> s, guard |-> v]}
                  ELSE readers
    /\ UNCHANGED <<state, key, tier, lastUse, fillVars, placeVars, completed, cacheVars,
                   evicting>>

Touch(k, stamp, includeFilling) ==
    /\ Resident(k) \/ (includeFilling /\ FillingKey(k))
    /\ ~fixedCache
    /\ lastUse' = [lastUse EXCEPT ![index[k]] = Maximum(@, stamp)]
    /\ UNCHANGED <<state, key, tier, guard, fillVars, placeVars, completed, cacheVars,
                   clientVars>>

Pin(k) ==
    /\ Resident(k)
    /\ tier[index[k]] # "Pinned"
    /\ tier' = [tier EXCEPT ![index[k]] = "Pinned"]
    /\ stats' = [stats EXCEPT !.pinned = @ + 1]
    /\ UNCHANGED <<state, key, lastUse, guard, fillVars, freeList, index, table, completed,
                   cacheVars, clientVars>>

\* The gauges survive; the free gauge is read off the stack.
ResetStats ==
    /\ stats' = [stats EXCEPT !.free = Len(freeList)]
    /\ UNCHANGED <<slotVars, freeList, index, table, completed, cacheVars, clientVars>>

Next ==
    \/ \E b \in BOOLEAN : SetFixedCache(b)
    \/ \E k \in Keys, t \in Stamp, g \in Timeline : Lookup(k, t, g)
    \/ \E k \in Keys, t \in Tier, n \in 1 .. MaxRuns : BeginFill(k, t, n)
    \/ \E s \in Slot, ok \in BOOLEAN, t \in Stamp : FinishRun(s, ok, t)
    \/ \E s \in Slot, ok \in BOOLEAN, t \in Stamp : FinishFill(s, ok, t)
    \/ \E s \in Slot : Evict(s)
    \/ \E k \in Keys : EvictKeyFind(k)
    \/ EvictKeyEvict
    \/ EvictLru
    \/ \E v \in Timeline : SetCompletedTimeline(v)
    \/ \E g \in Timeline : GuardedSnapshot(g)
    \/ \E s \in Slot, v \in Timeline : SetGuard(s, v)
    \/ \E k \in Keys, t \in Stamp, b \in BOOLEAN : Touch(k, t, b)
    \/ \E k \in Keys : Pin(k)
    \/ ResetStats

Spec == Init /\ [][Next]_vars

-----------------------------------------------------------------------------
(* Properties *)

Gauges == [resident : Nat, filling : Nat, free : Nat, pinned : Nat]
Reader == [key : Keys, slot : Slot, guard : Timeline]

\* Type invariant of the store's tables, the slot records and the gauges: the
\* gauges are unsigned in the code, so staying in Nat says none underflows.
TypeOK ==
    /\ state \in [Slot -> SlotState]
    /\ key \in [Slot -> Keys]
    /\ tier \in [Slot -> Tier]
    /\ lastUse \in [Slot -> Stamp]
    /\ guard \in [Slot -> Timeline]
    /\ runsTotal \in [Slot -> 0 .. MaxRuns]
    /\ runsDone \in [Slot -> 0 .. MaxRuns]
    /\ runFailed \in [Slot -> BOOLEAN]
    /\ freeList \in Seq(Slot)
    /\ index \in [Keys -> Slot \union {NoSlot}]
    /\ table \in [Keys -> Slot \union {NoSlot}]
    /\ completed \in Timeline
    /\ fixedCache \in BOOLEAN
    /\ cacheFrozen \in BOOLEAN
    /\ stats \in Gauges
    /\ evicting \in Slot \union {NoSlot}
    /\ readers \subseteq Reader

\* index_ and the slot records describe the same placement, through every
\* reserve, failed fill and eviction: a key is indexed at a slot exactly when
\* that slot is in use and holds it. (A free slot carries ExpertKey{}, which
\* is a real expert, so a missed state check would show here.)
IndexExact ==
    /\ \A k \in Keys : Held(k) => state[index[k]] # "Free" /\ key[index[k]] = k
    /\ \A s \in Slot : state[s] # "Free" => index[key[s]] = s

\* free_list_ holds every free slot once and nothing else, whatever order the
\* settles, failures and evictions pushed them in: no slot is handed to two
\* fills, and none is lost.
FreeListExact ==
    /\ \A i, j \in 1 .. Len(freeList) : freeList[i] = freeList[j] => i = j
    /\ \A i \in 1 .. Len(freeList) : state[freeList[i]] = "Free"
    /\ \A s \in Slot : state[s] = "Free" => \E i \in 1 .. Len(freeList) : freeList[i] = s

\* The pointer table the MoE kernel reads publishes an expert exactly while it
\* is resident: never a slot still being read into, never one given away.
TableExact ==
    \A k \in Keys :
       table[k] = IF Held(k) /\ state[index[k]] = "Resident" THEN index[k] ELSE NoSlot

\* The gauges of stats_ are the sizes of the sets they count. The resident
\* gauge decides when a mask cache freezes (settle_locked, set_fixed_cache).
GaugesExact ==
    /\ stats.resident = Cardinality({s \in Slot : state[s] = "Resident"})
    /\ stats.filling = Cardinality({s \in Slot : state[s] = "Filling"})
    /\ stats.free = Cardinality({s \in Slot : state[s] = "Free"})
    /\ stats.pinned = Cardinality({s \in Slot : state[s] = "Resident" /\ tier[s] = "Pinned"})

\* A frozen mask cache is a fixed cache with every slot resident: what
\* frozen_cache_identity reports is complete, and reserve_locked's refusal
\* turns away no fill that would have fitted.
FrozenIsFull ==
    cacheFrozen => fixedCache /\ \A s \in Slot : state[s] = "Resident"

\* A fill that has not settled has reported fewer runs than it has: the last
\* report settles it, so no slot is left Filling with nothing outstanding.
FillOutstanding ==
    \A s \in Slot : state[s] = "Filling" => runsDone[s] < runsTotal[s]

\* design 5.3: a slot is not recycled while a submitted command buffer can
\* still read it. Whoever was handed an address under guard g (a guarded
\* lookup, a guarded snapshot, set_guard) finds that expert resident in that
\* slot, and published there, until the timeline reaches g.
ReadersHeld ==
    \A r \in readers :
       /\ state[r.slot] = "Resident"
       /\ key[r.slot] = r.key
       /\ table[r.key] = r.slot

\* What makes ReadersHeld inductive: the guard of the slot covers the reader.
ReadersGuarded ==
    \A r \in readers : guard[r.slot] >= r.guard /\ r.guard > completed

\* The store's tables agree with one another whatever methods run and in what
\* order: placement, free list, pointer table, gauges and the frozen flag of
\* ExpertStore describe the same cache.
StoreConsistent ==
    TypeOK /\ IndexExact /\ FreeListExact /\ TableExact /\ GaugesExact /\ FrozenIsFull

\* A reader's expert stays where the reader was told it is, under a guard that
\* evict respects until the timeline has passed the reader (lookup, set_guard,
\* guarded_snapshot against evict, evict_lru and evict_key).
ReadersKept == ReadersHeld /\ ReadersGuarded

\* While the mask cache stays frozen, no call moves, evicts or replaces an
\* expert, and no stamp moves: "prefill/session reuse cannot replace it".
FrozenImmutable ==
    [][cacheFrozen /\ cacheFrozen' => UNCHANGED <<state, key, index, table, lastUse>>]_vars

\* A pinned resident expert is never evicted, demoted or moved by any call.
PinnedStays ==
    [][\A k \in Keys :
          Resident(k) /\ tier[index[k]] = "Pinned"
             => index'[k] = index[k] /\ state'[index[k]] = "Resident" /\ tier'[index[k]] = "Pinned"]_vars

\* Outside a fixed cache an expert's LRU stamp never moves back when its fill
\* settles: a demand that touched it while it was Filling is not forgotten.
SettleKeepsDemand ==
    [][\A s \in Slot :
          state[s] = "Filling" /\ state'[s] = "Resident" => lastUse'[s] >= lastUse[s]]_vars

\* What no call of the store may do: change a frozen cache, move a pinned expert,
\* or forget the demand for an expert whose fill settles.
StoreSteps == FrozenImmutable /\ PinnedStays /\ SettleKeepsDemand

-----------------------------------------------------------------------------
(* The abstract cache the store implements: the slots are gone, and a       *)
(* reader's guard is a lease on its expert.                                 *)

Expert == [k \in Keys |-> IF Held(k) THEN state[index[k]] ELSE "Absent"]
PinnedKeys == {k \in Keys : Resident(k) /\ tier[index[k]] = "Pinned"}
Leases == {<<r.key, r.guard>> : r \in readers}

Cache == INSTANCE ExpertCache WITH
    Capacity <- NumSlots,
    expert <- Expert,
    pinned <- PinnedKeys,
    leases <- Leases,
    fixed <- fixedCache

\* The store implements the abstract cache: experts, pins, leases and the
\* capacity behave as promised through every method of the store.
ImplementsCache == Cache!Spec

=============================================================================
