------------------------------ MODULE GpuMemory ------------------------------
(***************************************************************************)
(* The two allocators (gpu/vulkan/memory.cpp) and the two stores built on  *)
(* them at start-up: the pinned tensors' regions (store/pinned.cpp) and the *)
(* expert cache's slab pool (store/slab.cpp) over the backing that takes   *)
(* path A until it refuses and path B after that (runtime/engine.cpp).     *)
(*                                                                         *)
(* A buffer is made of PARTS, each from one call: host pages, a Vulkan     *)
(* buffer, its memory, and the mapping.  Any call can be refused, and the  *)
(* failing function gives back what it took so far.  Sizes are in units of *)
(* a page.                                                                 *)
(***************************************************************************)
EXTENDS Integers, Sequences, FiniteSets, FiniteSetsExt

CONSTANTS Settings       \* the machine and the sizes (see Init)

VARIABLES set,           \* the settings of this behaviour
          at,            \* "pin", "pool", "used", "closed" or "gone"
          bufs,          \* live buffers: records
          parts,         \* what the driver and the OS still hold: <<id, kind>>
          account,       \* allocated_bytes_ of each allocator
          regions,       \* PinnedStore: the regions' buffers, in order
          used,          \* used_in_region_
          planes,        \* the planes placed: [buf, off, len]
          slabs,         \* SlabPool::slabs_: buffers, in order
          owner,         \* DualPathBacking::owner_: <<buffer, is path B>>
          aDone,         \* DualPathBacking::a_done_
          ids            \* how many buffers were ever asked for

memVars == <<set, at, bufs, parts, account, regions, used, planes, slabs, owner, aDone, ids>>

(* --------------------------- choosing a type ---------------------------- *)

Types == set.types
Has(t, flags) == flags \subseteq Types[t]

\* pick_type: the first allowed type with the preferred flags, or else the
\* first with the required ones; 0 when there is none.
PickType(mask, require, prefer) ==
    LET able == {t \in mask : Has(t, require)}
        best == {t \in able : Has(t, prefer)}
    IN  IF best # {} THEN Min(best) ELSE IF able # {} THEN Min(able) ELSE 0

\* MemoryAllocator::init for path A: the first device-local, host-visible type
\* that is coherent and not cached, or else the first of them.
PathAType ==
    LET able == {t \in DOMAIN Types : Has(t, {"local", "visible"})}
        best == {t \in able : Has(t, {"coherent"}) /\ "cached" \notin Types[t]}
    IN  IF best # {} THEN Min(best) ELSE IF able # {} THEN Min(able) ELSE 0

\* chosen_memory_type: what path A settled on.
ChosenMemoryType == PathAType

\* device_local_only_types: what the host cannot map.
DeviceLocalOnlyTypes == {t \in DOMAIN Types : Has(t, {"local"}) /\ ~Has(t, {"visible"})}

(* ------------------------------ one buffer ------------------------------ *)

Step(takes, gives) == [takes |-> takes, gives |-> gives]

\* allocate_from_type: what each call takes, and what is given back when that
\* call is refused.
AllocateFromTypeMapKept ==
    <<Step("buffer", {}), Step("", {"buffer"}), Step("memory", {"buffer"}),
      Step("", {"memory", "buffer"}), Step("map", {"buffer"})>>

AllocateFromType ==
    <<Step("buffer", {}), Step("", {"buffer"}), Step("memory", {"buffer"}),
      Step("", {"memory", "buffer"}), Step("map", {"memory", "buffer"})>>

\* import_host_memory: its buffer must take a type the host pointer allows.
ImportHostMemory ==
    <<Step("buffer", {}), Step("", {"buffer"}), Step("memory", {"buffer"}),
      Step("", {"memory", "buffer"})>>

\* alloc_host_pages, and the pages go back when the import is refused.
AllocHostPages == <<Step("pages", {})>>

AllocateImported ==
    AllocHostPages \o [i \in DOMAIN ImportHostMemory |->
                          Step(ImportHostMemory[i].takes,
                               ImportHostMemory[i].gives \cup {"pages"})]

TakenBy(steps, n) == {steps[i].takes : i \in 1..n} \ {""}

\* What stays behind when call n is refused.
LeftBehind(steps, n) == TakenBy(steps, n - 1) \ steps[n].gives

Fits(bytes) == bytes <= set.maxAlloc

\* allocate_slab on each path.
SlabSteps(path) == IF path = "B" THEN AllocateImported ELSE AllocateFromType

Path(b) == (CHOOSE r \in bufs : r.id = b).path
Bytes(b) == (CHOOSE r \in bufs : r.id = b).bytes

PartsOf(r) == IF r.path = "B" THEN {"pages", "buffer", "memory"} ELSE {"buffer", "memory", "map"}

\* The type of an import: one the host pointer and the buffer both allow.
ImportType == PickType(set.hostMask, {}, {"visible", "coherent"})

Importable == set.aligned /\ ImportType # 0

\* allocate's choice for a buffer the host writes.
AllocateType == PickType(DOMAIN Types, {"visible", "coherent"}, {"visible", "coherent", "local"})

\* One allocation on a path: it succeeds, or one of its calls is refused.
Made(path, bytes, type) ==
    /\ Fits(bytes)
    /\ path = "B" => Importable
    /\ type # 0
    /\ bufs' = bufs \cup {[id |-> ids + 1, path |-> path, bytes |-> bytes, type |-> type]}
    /\ parts' = parts \cup ({ids + 1} \X TakenBy(SlabSteps(path), Len(SlabSteps(path))))
    /\ account' = [account EXCEPT ![path] = @ + bytes]
    /\ ids' = ids + 1

Succeeds(path, bytes) == Made(path, bytes, IF path = "B" THEN ImportType ELSE ChosenMemoryType)

Refused(path, bytes) ==
    /\ \/ ~Fits(bytes) /\ UNCHANGED parts
       \/ path = "B" /\ ~Importable /\ UNCHANGED parts
       \/ \E n \in DOMAIN SlabSteps(path) :
             parts' = parts \cup ({ids + 1} \X LeftBehind(SlabSteps(path), n))
    /\ ids' = ids + 1
    /\ UNCHANGED <<bufs, account>>

\* MemoryAllocator::free: the mapping unless it was imported, the buffer, its
\* memory, and last the pages.
FreeOne(r) == PartsOf(r)

FreeAll(which) ==
    /\ bufs' = {r \in bufs : r.id \notin which}
    /\ parts' = parts \ UNION {{r.id} \X FreeOne(r) : r \in {q \in bufs : q.id \in which}}
    /\ account' = [p \in {"A", "B"} |->
                      account[p] -
                      FoldSet(LAMBDA r, acc : acc + r.bytes, 0,
                              {r \in bufs : r.id \in which /\ r.path = p})]

(* ------------------------------ the regions ----------------------------- *)

Init ==
    /\ set \in Settings
    /\ at = "pin"
    /\ bufs = {}
    /\ parts = {}
    /\ account = [p \in {"A", "B"} |-> 0]
    /\ regions = <<>>
    /\ used = 0
    /\ planes = <<>>
    /\ slabs = <<>>
    /\ owner = <<>>
    /\ aDone = FALSE
    /\ ids = 0

\* A plane larger than a region gets one of its own.
RegionFor(bytes) == IF bytes > set.region THEN bytes ELSE set.region

RegionLeft == IF regions = <<>> THEN 0 ELSE Bytes(regions[Len(regions)]) - used

NeedsRegion(bytes) == bytes > RegionLeft

\* PinnedStore::place, for the next plane of the load.
Place ==
    /\ at = "pin"
    /\ Len(planes) < Len(set.planes)
    /\ LET bytes == set.planes[Len(planes) + 1]
       IN  \/ /\ NeedsRegion(bytes)
              /\ Succeeds("A", RegionFor(bytes))
              /\ regions' = Append(regions, ids + 1)
              /\ used' = bytes
              /\ planes' = Append(planes, [buf |-> ids + 1, off |-> 0, len |-> bytes])
              /\ UNCHANGED at
           \/ /\ NeedsRegion(bytes)
              /\ Refused("A", RegionFor(bytes))
              /\ at' = "closed"
              /\ UNCHANGED <<regions, used, planes>>
           \/ /\ ~NeedsRegion(bytes)
              /\ planes' = Append(planes, [buf |-> regions[Len(regions)], off |-> used,
                                           len |-> bytes])
              /\ used' = used + bytes
              /\ UNCHANGED <<at, bufs, parts, account, regions, ids>>
    /\ UNCHANGED <<set, slabs, owner, aDone>>

\* The last plane is in: PinnedStore::load is done.
Loaded ==
    /\ at = "pin"
    /\ Len(planes) = Len(set.planes)
    /\ at' = "pool"
    /\ UNCHANGED <<set, bufs, parts, account, regions, used, planes, slabs, owner, aDone, ids>>

(* ------------------------------- the slabs ------------------------------ *)

ABytes == FoldSet(LAMBDA b, acc : acc + Bytes(b), 0,
                  {owner[i][1] : i \in {j \in DOMAIN owner : ~owner[j][2]}})

Capped == set.aCap # 0 /\ ABytes + set.slab > set.aCap

TakeSlab(path) ==
    /\ Succeeds(path, set.slab)
    /\ slabs' = Append(slabs, ids + 1)
    /\ owner' = Append(owner, <<ids + 1, path = "B">>)

\* One round of SlabPool::init through DualPathBacking::allocate.  A refusal
\* on path A is not the pool's: the same round goes on with path B.
Grow ==
    /\ at = "pool"
    /\ Len(slabs) < set.want
    /\ \/ ~aDone /\ ~Capped /\ TakeSlab("A") /\ UNCHANGED <<at, aDone>>
       \/ ~aDone /\ Capped /\ aDone' = TRUE
          /\ UNCHANGED <<at, bufs, parts, account, slabs, owner, ids>>
       \/ ~aDone /\ ~Capped /\ Refused("A", set.slab) /\ aDone' = TRUE
          /\ UNCHANGED <<at, slabs, owner>>
       \/ aDone /\ TakeSlab("B") /\ UNCHANGED <<at, aDone>>
       \/ aDone /\ Refused("B", set.slab)
          /\ at' = (IF slabs = <<>> THEN "closed" ELSE "used")
          /\ UNCHANGED <<slabs, owner, aDone>>
    /\ UNCHANGED <<set, regions, used, planes>>

Full ==
    /\ at = "pool"
    /\ Len(slabs) = set.want
    /\ at' = "used"
    /\ UNCHANGED <<set, bufs, parts, account, regions, used, planes, slabs, owner, aDone, ids>>

\* A buffer of the runners: MemoryAllocator::allocate, and its free.
Scratch ==
    /\ at = "used"
    /\ Cardinality(bufs) = Len(regions) + Len(slabs)
    /\ ids < set.maxIds
    /\ Made("A", 1, AllocateType) \/ Refused("A", 1)
    /\ UNCHANGED <<set, at, regions, used, planes, slabs, owner, aDone>>

FreeScratch ==
    /\ at = "used"
    /\ LET kept == {regions[i] : i \in DOMAIN regions} \cup {slabs[i] : i \in DOMAIN slabs}
           spare == {r.id : r \in bufs} \ kept
       IN  spare # {} /\ FreeAll(spare)
    /\ UNCHANGED <<set, at, regions, used, planes, slabs, owner, aDone, ids>>

\* DualPathBacking::release: the backing that made the slab frees it.
ReleasePath(b) == IF \E i \in DOMAIN owner : owner[i] = <<b, TRUE>> THEN "B" ELSE "A"

\* SlabPool::reset: every slab through its owner's backing.  A backing frees
\* only a buffer it made.
PoolReset ==
    /\ at \in {"used", "closed"}
    /\ slabs # <<>>
    /\ Cardinality(bufs) = Len(regions) + Len(slabs)
    /\ FreeAll({b \in {slabs[i] : i \in DOMAIN slabs} : ReleasePath(b) = Path(b)})
    /\ slabs' = <<>>
    /\ owner' = <<>>
    /\ aDone' = FALSE
    /\ at' \in (IF at = "used" /\ ids < set.maxIds THEN {"pool", "closed"} ELSE {"closed"})
    /\ UNCHANGED <<set, regions, used, planes, ids>>

\* PinnedStore::reset.
PinnedReset ==
    /\ at = "closed"
    /\ slabs = <<>>
    /\ FreeAll({regions[i] : i \in DOMAIN regions})
    /\ regions' = <<>>
    /\ planes' = <<>>
    /\ used' = 0
    /\ at' = "gone"
    /\ UNCHANGED <<set, slabs, owner, aDone, ids>>

Next == Place \/ Loaded \/ Grow \/ Full \/ Scratch \/ FreeScratch \/ PoolReset \/ PinnedReset

Spec == Init /\ [][Next]_memVars

(* ------------------------------- properties ----------------------------- *)

SlotOffset(slot) == <<slabs[(slot \div set.slotsPerSlab) + 1],
                      (slot % set.slotsPerSlab) * (set.slab \div set.slotsPerSlab)>>

Slots == 0..(Len(slabs) * set.slotsPerSlab - 1)

\* The driver and the OS hold exactly the parts of the live buffers, whichever
\* call was refused on the way, and each allocator's count is what it holds;
\* once both stores are reset nothing is left.
PartsExact ==
    /\ parts = UNION {{r.id} \X PartsOf(r) : r \in bufs}
    /\ \A p \in {"A", "B"} :
          account[p] = FoldSet(LAMBDA r, acc : acc + r.bytes, 0, {r \in bufs : r.path = p})
    /\ at = "gone" => parts = {} /\ bufs = {}

\* Every pinned plane and every expert slot has bytes of its own, inside a live
\* buffer, and what the host fills it can map.
PlacesDisjoint ==
    /\ \A i \in DOMAIN planes :
          /\ planes[i].off + planes[i].len <= Bytes(planes[i].buf)
          /\ \A j \in DOMAIN planes :
                i # j /\ planes[i].buf = planes[j].buf =>
                   \/ planes[i].off + planes[i].len <= planes[j].off
                   \/ planes[j].off + planes[j].len <= planes[i].off
    /\ \A s, t \in Slots : SlotOffset(s) = SlotOffset(t) => s = t
    /\ \A i \in DOMAIN slabs : slabs[i] \notin {regions[j] : j \in DOMAIN regions}
    /\ \A r \in bufs : r.path = "A" => r.type \notin DeviceLocalOnlyTypes

==============================================================================
