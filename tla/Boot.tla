-------------------------------- MODULE Boot --------------------------------
(***************************************************************************)
(* The engine's start and stop: Engine::init, init_gpu, set_streams,       *)
(* begin_session and shutdown (runtime/engine.cpp), with what each of them *)
(* takes from the operating system, the device and the two allocators, and *)
(* gives back.  Every step can fail part of the way; whatever the failure  *)
(* left behind is then shutdown's to let go of.                            *)
(*                                                                         *)
(* A RESOURCE is a record: the object c that holds it, the stream s it     *)
(* belongs to (0 for the process's own), its name o, and what it came      *)
(* `from`: "host" (files, threads, host pages), "dev" (a Vulkan object),   *)
(* "A" or "B" (memory of one of the two allocators).  A UNIT is a class    *)
(* with a create and a destroy: what create takes, in order, what destroy  *)
(* frees, and whether a failing create calls destroy before it returns.    *)
(*                                                                         *)
(* Memory is counted in GiB, an expert slot is one GiB and a slab is       *)
(* SlabSlots of them, so the margins below are the ones of the code.       *)
(***************************************************************************)
EXTENDS Integers, Sequences, FiniteSets, FiniteSetsExt

CONSTANTS Machines,      \* what the machine and the settings are (see Init)
          MaxBoots       \* how often one Engine is initialised

VARIABLES conf,          \* the machine and the settings of this behaviour
          pc,            \* where the engine is
          held,          \* the resources that are live
          slabs,         \* the expert cache's slabs in order: "A" or "B"
          firstB,        \* ExpertStore::path_b_first_slab
          budget,        \* cache_budget_, in slots
          plan,          \* the slot counts still to be tried
          reads,         \* what reads in flight write into: <<name, stream>>
          boots          \* how often init ran

vars == <<conf, pc, held, slabs, firstB, budget, plan, reads, boots>>

SlabSlots == 2
CommitMargin == 8
PhysFloor == 12
PathAOther == 1
BudgetMargin == 4
PathBAutoCeiling == 30
GttSlack == 3
MinBudget == 8
ReservePiece == 2
ReservePieces == 2
BackoffTries == 5
BackoffFloor == 4
DrafterSlots == 6        \* what the pinned MTP experts and a layer need

(* ------------------------------- resources ------------------------------ *)

Res(c, s, o, from) == [c |-> c, s |-> s, o |-> o, from |-> from]

Unit(c, s, takes, frees, undoes) ==
    [takes |-> [i \in DOMAIN takes |-> Res(c, s, takes[i][1], takes[i][2])],
     frees |-> frees, undoes |-> undoes]

\* The part of unit u that is left when its k-th acquisition was the last
\* that succeeded.
Left(u, k) ==
    {u.takes[i] : i \in {j \in 1..k : ~(u.undoes /\ u.takes[j].o \in u.frees)}}

Whole(u) == {u.takes[i] : i \in DOMAIN u.takes}

\* What a sequence of creates leaves when it fails inside unit i.
Stopped(us, i, k) == UNION {Whole(us[j]) : j \in 1..(i - 1)} \cup Left(us[i], k)

AllOf(us) == UNION {Whole(us[j]) : j \in DOMAIN us}

Without(h, c, s, names) == {r \in h : ~(r.c = c /\ r.s = s /\ r.o \in names)}

Holds(c, o) == \E r \in held : r.c = c /\ r.o = o

Dev(names) == [i \in DOMAIN names |-> <<names[i], "dev">>]
MemA(names) == [i \in DOMAIN names |-> <<names[i], "A">>]

TimelineCreate == Dev(<<"semaphore">>)
TimelineDestroy == {"semaphore"}

CommandPoolCreate == Dev(<<"pool">>)
CommandPoolDestroy == {"pool"}

QueryPoolCreate == Dev(<<"queries">>)
QueryPoolDestroy == {"queries"}

DescriptorPoolCreate == Dev(<<"descriptors">>)
DescriptorPoolDestroy == {"descriptors"}

\* A pipeline that fails destroys its own parts, so it is there or it is not.
PipelineCreate(name) == Dev(<<name>>)
PipelineDestroy(name) == {name}

GpuScratchCreate == MemA(<<"scratch">>)
GpuScratchDestroy == {"scratch"}

AttnCreate == MemA(<<"table">>) \o DescriptorPoolCreate
              \o PipelineCreate("stages") \o CommandPoolCreate

AttnDestroy == CommandPoolDestroy \cup DescriptorPoolDestroy
               \cup PipelineDestroy("stages") \cup {"table"}

DecodeCreate == MemA(<<"table">>) \o DescriptorPoolCreate
                \o PipelineCreate("stages") \o CommandPoolCreate

DecodeDestroy == CommandPoolDestroy \cup DescriptorPoolDestroy
                 \cup PipelineDestroy("stages") \cup {"table"}

MgtCreate == MemA(<<"table">>) \o DescriptorPoolCreate \o CommandPoolCreate

MgtDestroy == CommandPoolDestroy \cup DescriptorPoolDestroy
              \cup {"stages"} \cup {"table"}

MgtEnsure == PipelineCreate("stages")

MoeBuffers == <<"table", "ids", "list", "routew", "x", "h", "y", "list_alt", "list_sh">>

MoeCreate == PipelineCreate("gateup") \o PipelineCreate("down")
             \o PipelineCreate("hquant") \o PipelineCreate("xact")
             \o PipelineCreate("gateup_m1") \o PipelineCreate("down_m1")
             \o PipelineCreate("hquant_m1") \o DescriptorPoolCreate
             \o MemA(MoeBuffers) \o CommandPoolCreate \o QueryPoolCreate

MoeRouteCreate == PipelineCreate("gpu_up") \o PipelineCreate("gpu_down")
                  \o PipelineCreate("gpu_hq") \o PipelineCreate("gpu_route")
                  \o PipelineCreate("gpu_copy") \o PipelineCreate("gpu_mean")
                  \o MemA(<<"gpu_snapshot", "gpu_args", "gpu_indirect">>)
                  \o Dev(<<"gpu_descriptors">>)

\* The list of MoeRunner::destroy, which does not name xact_.
MoeDestroy ==
    {"gpu_descriptors", "gpu_copy", "gpu_mean", "gpu_route", "gpu_up", "gpu_down",
     "gpu_hq", "gpu_snapshot", "gpu_args", "gpu_indirect", "gateup", "down", "hquant",
     "gateup_m1", "down_m1", "hquant_m1"}
    \cup QueryPoolDestroy \cup CommandPoolDestroy \cup DescriptorPoolDestroy
    \cup {MoeBuffers[i] : i \in DOMAIN MoeBuffers}

\* GpuMoeBridge: the decode runner and the union runner.
BridgeCreate(c, s) ==
    <<Unit(c \o ".runner", s, MoeCreate, MoeDestroy, TRUE),
      Unit(c \o ".union", s, MoeCreate, MoeDestroy, TRUE)>>

BridgeDestroy(h, c, s) ==
    Without(Without(h, c \o ".union", s, MoeDestroy), c \o ".runner", s, MoeDestroy)

LayerCreate == CommandPoolCreate

EngramCreate == CommandPoolCreate \o MemA(<<"planes">>) \o <<<<"staging", "host">>>>
EngramDestroy == CommandPoolDestroy \cup {"planes", "staging"}

KvCreate == MemA(<<"kv">>)
KvDestroy == {"kv"}

DraftHeadCreate == MemA(<<"head_fp8", "head_scales">>)

OneCbCreate == PipelineCreate("helpers") \o MemA(<<"plan", "args">>)
               \o DescriptorPoolCreate \o CommandPoolCreate \o QueryPoolCreate

DsparkRunnerCreate == MemA(<<"table">>) \o DescriptorPoolCreate
                      \o PipelineCreate("stages") \o CommandPoolCreate

\* DsparkRuntime::create: no step undoes the ones before it.
DsparkCreate ==
    (IF conf.fp8 THEN <<Unit("drafter.head", 0, DraftHeadCreate, {}, FALSE)>> ELSE <<>>)
    \o <<Unit("drafter.ds", 0, DsparkRunnerCreate, DecodeDestroy, TRUE),
         Unit("drafter.mgt", 0, MgtCreate, MgtDestroy, TRUE),
         Unit("drafter.mgt", 0, MgtEnsure, {}, FALSE),
         Unit("drafter", 0, GpuScratchCreate, {}, FALSE)>>
    \o BridgeCreate("drafter.moe", 0)
    \o <<Unit("drafter.onecb", 0, OneCbCreate, {}, FALSE)>>

Drafter == {"drafter.head", "drafter.ds", "drafter.mgt", "drafter.moe.runner",
            "drafter.moe.union", "drafter.onecb"}

\* The destructors of its members; GpuScratch has none.
DsparkDestroy(h) == {r \in h : r.c \notin Drafter}

(* ----------------------------- the allocators --------------------------- *)

\* external: a path-A allocation is refused when the heap is full.  RADV
\* over-commits the device-local heap into the host one and refuses only when
\* both are.
RoomA(h, sl) ==
    LET used == (IF \E r \in h : r.o = "regions" THEN conf.pinned ELSE 0)
                + SlabSlots * Cardinality({i \in DOMAIN sl : sl[i] = "A"})
                + ReservePiece * Cardinality({r \in h : r.c = "reserve"})
    IN  (IF conf.radv THEN conf.heapA + conf.heapB ELSE conf.heapA) - used

RoomB(sl) == conf.importable - SlabSlots * Cardinality({i \in DOMAIN sl : sl[i] = "B"})

\* MemoryAllocator::init for path B.  The path is recorded before the checks
\* that refuse it.
PathBReady == conf.import = "ok"
PathBRecorded == "allocB" \in {r.o : r \in held}

\* DualPathBacking::allocate for slab after slab, until one is refused: path A
\* until it refuses or reaches its cap, then path B for good.
DualAllocate(h, want, cap) ==
    LET pool[i \in 0..want] ==
            IF i = 0 THEN [slabs |-> <<>>, aDone |-> FALSE, stop |-> FALSE]
            ELSE LET p == pool[i - 1]
                     onA == Cardinality({j \in DOMAIN p.slabs : p.slabs[j] = "A"})
                     done == p.aDone \/ (cap # 0 /\ SlabSlots * (onA + 1) > cap)
                                     \/ RoomA(h, p.slabs) < SlabSlots
                     onB == PathBReady /\ RoomB(p.slabs) >= SlabSlots
                 IN  IF p.stop THEN p
                     ELSE IF ~done THEN [p EXCEPT !.slabs = Append(@, "A")]
                     ELSE IF onB THEN [p EXCEPT !.slabs = Append(@, "B"), !.aDone = TRUE]
                     ELSE [p EXCEPT !.aDone = TRUE, !.stop = TRUE]
    IN  pool[want].slabs

\* SlabPool::init: whole slabs only; fewer than asked for is not an error.
SlabPoolInit(h, slots, cap) == DualAllocate(h, slots \div SlabSlots, cap)

(* ------------------------------ cache sizing ---------------------------- *)

Least(a, b) == IF a < b THEN a ELSE b
Most(a, b) == IF a > b THEN a ELSE b
Less(a, b) == Most(a - b, 0)

CapAutoBudget(b, cap) == IF cap = 0 THEN b ELSE Least(b, cap)

\* host_heap_headroom: what the budget extension leaves of the host heap.
HostHeapHeadroom == Less(conf.hostBudget, conf.hostUsed)

\* heap_headroom for path A's heap.
HeapHeadroom(h) == Most(RoomA(h, <<>>), 0)

\* The path-B share of an automatic budget.
PathBCache ==
    LET phys == IF PathBRecorded /\ conf.phys > PhysFloor THEN conf.phys - PhysFloor ELSE 0
        margin == IF conf.radv THEN 5 ELSE 10
        byHeap == IF conf.heapB > margin THEN Least(phys, conf.heapB - margin) ELSE phys
        byBudget == IF conf.hostBudget # 0
                    THEN Least(byHeap, Less(HostHeapHeadroom, BudgetMargin)) ELSE byHeap
    IN  Least(byBudget, PathBAutoCeiling)

\* init_gpu's automatic cache budget.
AutoBudget ==
    LET aCache == Less(conf.heapA, conf.pinned + PathAOther)
        gtt == Less(conf.heapA + conf.heapB,
                    conf.pinned + PathAOther + GttSlack + conf.prefill)
        want == IF conf.radv THEN gtt ELSE aCache + PathBCache
        byCommit == IF conf.commit # 0
                    THEN Least(want, Less(conf.commit, conf.pinned + CommitMargin)) ELSE want
        cap == IF conf.radv /\ ~conf.capGiven THEN 0 ELSE conf.slotCap
    IN  CapAutoBudget(Most(byCommit, MinBudget), cap)

\* The slots an FP8 copy of the drafter's head takes from the budget.
Fp8Reservation ==
    ((conf.fp8Copy + SlabSlots - 1) \div SlabSlots) * SlabSlots

\* cache_backoff_slots: the sizes to try, largest first.
CacheBackoffSlots(start, step) ==
    LET n[i \in 1..BackoffTries] ==
            IF i = 1 THEN start
            ELSE IF n[i - 1] > step + BackoffFloor THEN n[i - 1] - step ELSE BackoffFloor
        last == CHOOSE i \in 1..BackoffTries :
                   /\ n[i] <= BackoffFloor \/ i = BackoffTries
                   /\ \A j \in 1..(i - 1) : n[j] > BackoffFloor
    IN  SubSeq([i \in 1..BackoffTries |-> n[i]], 1, last)

(* -------------------------------- starting ------------------------------ *)

Init ==
    /\ conf \in Machines
    /\ pc = "off"
    /\ held = {}
    /\ slabs = <<>>
    /\ firstB = 0
    /\ budget = 0
    /\ plan = <<>>
    /\ reads = {}
    /\ boots = 0

Go(next, h) == pc' = next /\ held' = h

\* A step made of creates: all of them, or a failure inside one.
Creates(us, next) ==
    \/ Go(next, held \cup AllOf(us))
    \/ \E i \in DOMAIN us : \E k \in 0..(Len(us[i].takes) - 1) :
          Go("failed", held \cup Stopped(us, i, k))

\* Engine::init: files, the I/O engine, then a store on host pages.
EngineInit ==
    /\ pc = "off"
    /\ boots < MaxBoots
    /\ boots' = boots + 1
    /\ Creates(<<Unit("profiler", 0, <<<<"file", "host">>>>, {}, FALSE),
                 Unit("tracer", 0, <<<<"file", "host">>>>, {}, FALSE),
                 Unit("shards", 0, <<<<"files", "host">>>>, {}, FALSE),
                 Unit("io", 0, <<<<"threads", "host">>>>, {}, FALSE),
                 Unit("store", 0, <<<<"host_slab", "host">>>>, {}, FALSE)>>, "init")
    /\ UNCHANGED <<conf, slabs, firstB, budget, plan, reads>>

\* DeviceCaps::check_required: importing host memory is one of the extensions
\* a device must have.
CheckRequired == conf.import # "noext"

\* init_gpu, first part: the device, its required features, and the allocators.
\* A path B that cannot be initialised is only a warning, but its allocator
\* remembers the path.
DeviceUp ==
    /\ pc = "init"
    /\ LET device == Unit("device", 0, <<<<"device", "host">>>>, {}, FALSE)
           parts == <<Unit("timeline", 0, TimelineCreate, TimelineDestroy, FALSE),
                      Unit("alloc", 0, Dev(<<"allocA">>), {}, FALSE)>>
           pathB == Unit("alloc", 0, Dev(<<"allocB">>), {}, FALSE)
       IN  \/ Go("failed", held)
           \/ CheckRequired /\ \E i \in 1..2 : Go("failed", held \cup Stopped(<<device>> \o parts, i + 1, 0))
           \/ ~CheckRequired /\ Go("failed", held \cup Whole(device))
           \/ /\ CheckRequired
              /\ Go("device", Without(held, "store", 0, {"host_slab"})
                              \cup AllOf(<<device>> \o parts \o <<pathB>>))
    /\ UNCHANGED <<conf, slabs, firstB, budget, plan, reads, boots>>

\* init_gpu, second part: how large the cache may be.
SizeCache ==
    /\ pc = "device"
    /\ LET asked == IF conf.asked # 0 THEN conf.asked ELSE AutoBudget
           spare == IF conf.fp8 THEN Fp8Reservation ELSE 0
       IN  IF conf.fp8 /\ asked <= spare
           THEN pc' = "failed" /\ UNCHANGED budget
           ELSE pc' = "sized" /\ budget' = asked - spare
    /\ UNCHANGED <<conf, held, slabs, firstB, plan, reads, boots>>

\* check_commit_available: only Windows can tell.
CommitAvailable(n) == conf.commit = 0 \/ conf.commit > n

\* Engine::load_pinned: the commit check, the regions, and one read per plane.
\* A failure drops the futures of the reads that are still in flight.
LoadPinned ==
    /\ pc = "sized"
    /\ IF ~CommitAvailable(conf.pinned + budget)
       THEN Go("failed", held) /\ UNCHANGED <<reads, plan>>
       ELSE LET regions == {Res("pinned", 0, "regions", "A")}
            IN  \/ /\ conf.pinned <= RoomA(held, slabs)
                   /\ Go("pinned", held \cup regions)
                   /\ plan' = IF conf.asked = 0 THEN CacheBackoffSlots(budget, conf.step)
                              ELSE <<budget>>
                   /\ UNCHANGED reads
                \/ Go("failed", held \cup regions) /\ reads' = {<<"regions", 0>>} /\ UNCHANGED plan
                \/ Go("failed", held \cup regions) /\ UNCHANGED <<reads, plan>>
    /\ UNCHANGED <<conf, slabs, firstB, budget, boots>>

\* The path-A memory held while the pool is built, so the pool cannot take it.
TakeReserve(h) ==
    LET n == Least(ReservePieces, Most(RoomA(h, <<>>), 0) \div ReservePiece)
    IN  h \cup {Res("reserve", i, "piece", "A") : i \in 1..n}

GiveReserve(h) == {r \in h : r.c # "reserve"}

\* Where the store is told that path B starts.
PathBFirstSlab(sl) == Cardinality({i \in DOMAIN sl : sl[i] = "A"})

\* Engine::build_expert_cache at the next size of the plan.
BuildExpertCache ==
    /\ pc \in {"pinned", "retry"}
    /\ plan # <<>>
    /\ LET h == TakeReserve(held)
           cap == IF conf.capA /\ PathBReady
                  THEN IF HeapHeadroom(h) = 0 THEN 1 ELSE HeapHeadroom(h) ELSE 0
           pool == SlabPoolInit(h, Head(plan), cap)
       IN  /\ budget' = Head(plan)
           /\ slabs' = pool
           /\ IF pool = <<>> THEN Go("failed", GiveReserve(h)) /\ UNCHANGED firstB
              ELSE /\ Go("probe", GiveReserve(h) \cup {Res("store", 0, "slabs", "A")})
                   /\ firstB' = PathBFirstSlab(pool)
    /\ plan' = Tail(plan)
    /\ UNCHANGED <<conf, reads, boots>>

\* external: whether the machine accepts a submission with this much resident.
Probe(n) == IF n > conf.lose THEN "lost" ELSE IF n > conf.limit THEN "refused" ELSE "passed"

\* build_expert_cache_probed: an automatic size backs off, one that was asked
\* for does not, and a lost device ends the start.
ProbeCache ==
    /\ pc = "probe"
    /\ LET answer == Probe(SlabSlots * Len(slabs))
           dropped == Without(held, "store", 0, {"slabs"})
       IN  CASE answer = "passed" -> Go("cached", held) /\ UNCHANGED slabs
             [] answer = "lost" -> Go("failed", held) /\ UNCHANGED slabs
             [] answer = "refused" ->
                   /\ slabs' = <<>>
                   /\ Go(IF conf.asked # 0 \/ plan = <<>> THEN "failed" ELSE "retry", dropped)
    /\ UNCHANGED <<conf, firstB, budget, plan, reads, boots>>

\* create_stream.  The FFN input is imported host memory when path B gives any.
CreateStream(s, ffn) ==
    <<Unit("timeline", s, TimelineCreate, TimelineDestroy, FALSE),
      Unit("attn", s, AttnCreate, AttnDestroy, TRUE),
      Unit("dec", s, DecodeCreate, DecodeDestroy, TRUE),
      Unit("scratch", s, GpuScratchCreate, GpuScratchDestroy, FALSE),
      Unit("tail", s, MemA(<<"logits", "sample", "topk_out", "topk_hist">>), {}, FALSE),
      Unit("layer", s, LayerCreate, CommandPoolDestroy, FALSE)>>
    \o BridgeCreate("moe", s)
    \o <<Unit("ffn_in", s, <<<<"buffer", ffn>>>>, {}, FALSE),
         Unit("fence", s, TimelineCreate, TimelineDestroy, FALSE),
         Unit("tok", s, CommandPoolCreate, CommandPoolDestroy, FALSE)>>

\* The timestamps are optional, so a stream comes up with or without them.
Timestamps(s) == {{}, {Res("tsq", s, "queries", "dev")}}

\* resolve_weights and set_streams(1).
FirstStream ==
    /\ pc = "cached"
    /\ \E ffn \in (IF PathBReady THEN {"A", "B"} ELSE {"A"}), ts \in Timestamps(0) :
          \/ Go("stream", held \cup AllOf(CreateStream(0, ffn)) \cup ts)
          \/ \E i \in DOMAIN CreateStream(0, ffn) :
                \E k \in 0..(Len(CreateStream(0, ffn)[i].takes) - 1) :
                   Go("failed", held \cup Stopped(CreateStream(0, ffn), i, k))
    /\ UNCHANGED <<conf, slabs, firstB, budget, plan, reads, boots>>

\* init_gpu, last part: the drafter's experts are read, waited for and pinned,
\* and then its own resources are made.  A wait that gives up leaves its reads
\* in flight.
DrafterUp ==
    /\ pc = "stream"
    /\ IF ~conf.spec THEN Go("ready", held) /\ UNCHANGED reads
       ELSE \/ SlabSlots * Len(slabs) < DrafterSlots /\ Go("failed", held) /\ UNCHANGED reads
            \/ /\ SlabSlots * Len(slabs) >= DrafterSlots
               /\ \/ Go("failed", held) /\ reads' = {<<"slabs", 0>>}
                  \/ Creates(DsparkCreate, "ready") /\ UNCHANGED reads
    /\ UNCHANGED <<conf, slabs, firstB, budget, plan, boots>>

\* set_streams(2), for a server with a second stream.
SecondStream ==
    /\ pc = "ready"
    /\ conf.streams = 2
    /\ Creates(CreateStream(1, "A"), "streams")
    /\ UNCHANGED <<conf, slabs, firstB, budget, plan, reads, boots>>

Streams == 0..(conf.streams - 1)

SessionUnits(s) == <<Unit("kvs", s, KvCreate, KvDestroy, FALSE),
                     Unit("engram", s, EngramCreate, EngramDestroy, FALSE)>>

\* init_batch, on stream 0, with the pipelines of each batch size and the
\* routing on the device.
BatchUnits ==
    IF ~conf.spec THEN <<>>
    ELSE <<Unit("mgt", 0, MgtCreate, MgtDestroy, TRUE),
           Unit("bscratch", 0, GpuScratchCreate, GpuScratchDestroy, FALSE),
           Unit("btail", 0, MemA(<<"blogits", "bsample", "btopk_out", "btopk_hist",
                                   "bdraft", "brank">>), {}, FALSE),
           Unit("mgt", 0, MgtEnsure, {}, FALSE),
           Unit("moe.union", 0, MoeRouteCreate, MoeDestroy, FALSE),
           Unit("route", 0, GpuScratchCreate, GpuScratchDestroy, FALSE)>>

\* begin_session: a KV store and the engram planes for every stream, the
\* backfill, and the batch forward.
BeginSession ==
    /\ pc = (IF conf.streams = 2 THEN "streams" ELSE "ready")
    /\ Creates((IF conf.streams = 2 THEN SessionUnits(0) \o SessionUnits(1)
                ELSE SessionUnits(0)) \o BatchUnits, "up")
    /\ reads' \in {reads, reads \cup {<<"slabs", 0>>}}
    /\ UNCHANGED <<conf, slabs, firstB, budget, plan, boots>>

(* -------------------------------- running ------------------------------- *)

\* A decode step or the backfill reads into the cache, an engram layer into
\* its staging pages.
Read ==
    /\ pc = "up"
    /\ \E t \in {<<"slabs", 0>>} \cup {<<"staging", s>> : s \in Streams} :
          reads' = reads \cup {t}
    /\ UNCHANGED <<conf, pc, held, slabs, firstB, budget, plan, boots>>

\* A read completes, whatever the engine is doing.
Land ==
    /\ \E t \in reads : reads' = reads \ {t}
    /\ UNCHANGED <<conf, pc, held, slabs, firstB, budget, plan, boots>>

(* -------------------------------- stopping ------------------------------ *)

\* stop_backfill, then the drain of the I/O engine if it runs.
DrainSkipped ==
    /\ pc \in {"init", "ready", "up", "failed"}
    /\ Go("drained", Without(held, "tracer", 0, {"file"}))
    /\ UNCHANGED <<conf, slabs, firstB, budget, plan, reads, boots>>

Drain ==
    /\ pc \in {"init", "ready", "up", "failed"}
    /\ Holds("io", "threads") => reads = {}
    /\ Go("drained", Without(held, "tracer", 0, {"file"}))
    /\ UNCHANGED <<conf, slabs, firstB, budget, plan, reads, boots>>

DropDrafter ==
    /\ pc = "drained"
    /\ Go("undrafted", DsparkDestroy(held))
    /\ UNCHANGED <<conf, slabs, firstB, budget, plan, reads, boots>>

\* What shutdown destroys of one stream, in its order.  The engram runner
\* waits for the reads into its staging before it frees it.
StreamDestroy(h, s) ==
    LET e == Without(h, "engram", s, EngramDestroy)
        m == BridgeDestroy(e, "moe", s)
        l == Without(m, "layer", s, CommandPoolDestroy)
        k == Without(l, "kvs", s, KvDestroy)
        t == Without(Without(Without(k, "tsq", s, QueryPoolDestroy),
                             "tok", s, CommandPoolDestroy), "fence", s, TimelineDestroy)
        f == Without(t, "ffn_in", s, {"buffer"})
        b == Without(Without(f, "tail", s, {"logits", "sample", "topk_out", "topk_hist"}),
                     "btail", s, {"blogits", "bsample", "btopk_out", "btopk_hist",
                                  "bdraft", "brank"})
        g == Without(Without(b, "route", s, GpuScratchDestroy),
                     "bscratch", s, GpuScratchDestroy)
        d == Without(Without(g, "mgt", s, MgtDestroy), "scratch", s, GpuScratchDestroy)
        a == Without(Without(d, "dec", s, DecodeDestroy), "attn", s, AttnDestroy)
    IN  Without(a, "timeline", s, TimelineDestroy)

DropStreams ==
    /\ pc = "undrafted"
    /\ Go("unstreamed", StreamDestroy(StreamDestroy(held, 0), 1))
    /\ UNCHANGED <<conf, slabs, firstB, budget, plan, reads, boots>>

\* store_.reset, pinned_.reset, io_.stop and shards_.close.
DropStores ==
    /\ pc = "unstreamed"
    /\ Go("unstored", {r \in held : r.c \notin {"store", "pinned", "io", "shards"}})
    /\ slabs' = <<>>
    /\ UNCHANGED <<conf, firstB, budget, plan, reads, boots>>

DropAllocators ==
    /\ pc = "unstored"
    /\ Go("unallocated", {r \in held : r.c # "alloc"})
    /\ UNCHANGED <<conf, slabs, firstB, budget, plan, reads, boots>>

DropDevice ==
    /\ pc = "unallocated"
    /\ Go("undeviced", {r \in held : r.c # "device"})
    /\ UNCHANGED <<conf, slabs, firstB, budget, plan, reads, boots>>

\* streams_.clear and profiler_.close: the destructors of what the streams still hold.
DropObjects ==
    /\ pc = "undeviced"
    /\ Go("off", {r \in held : r.c = "drafter"})
    /\ UNCHANGED <<conf, slabs, firstB, budget, plan, reads, boots>>

Start == \/ EngineInit \/ DeviceUp \/ SizeCache \/ LoadPinned \/ BuildExpertCache
         \/ ProbeCache \/ FirstStream \/ DrafterUp \/ SecondStream \/ BeginSession

Stop == \/ Drain \/ DropDrafter \/ DropStreams \/ DropStores \/ DropAllocators
        \/ DropDevice \/ DropObjects

Next == Start \/ Read \/ Land \/ Stop

Spec == Init /\ [][Next]_vars

(* ------------------------------- properties ----------------------------- *)

Alive(what) == \E r \in held : r.o = what

\* What is still live although the thing it came from is gone.
Orphans ==
    {r \in held : \/ r.from = "A" /\ ~Alive("allocA")
                  \/ r.from = "B" /\ ~Alive("allocB")
                  \/ r.from = "dev" /\ ~Alive("device")}

\* What shutdown does not let go of in time.  MoeRunner::destroy does not name xact_, so
\* streams_.clear destroys that pipeline when its device is gone, and the drafter's
\* scratch buffer has no destructor at all.
Overlooked(r) == r.o = "xact" \/ r.c = "drafter"

\* "Everything that holds memory from an allocator has to let go before the
\* allocator does, and the allocators before the device": after a failure at any
\* point of the start, and after a run, this is so of all that the start took but
\* the two things shutdown overlooks, of which only the drafter's is never freed.
\* And what the reads still in flight write into is still there.
ShutdownLetsGo ==
    /\ \A r \in Orphans : Overlooked(r)
    /\ pc = "off" => \A r \in held : r.c = "drafter"
    /\ \A t \in reads : \E r \in held : r.o = t[1] /\ r.s = t[2]

\* The expert cache that start-up leaves: the store knows for each slab which
\* path it came from, nothing of the reserve is still held, and the memory the
\* reserve stood for is there for the GPU prefill (on RADV with an automatic
\* size: the whole workspace of the longest prompt).
CacheLeavesRoom ==
    pc \in {"cached", "stream", "ready", "streams", "up"} =>
       /\ \A i \in DOMAIN slabs : (slabs[i] = "B") <=> (i > firstB)
       /\ ~ \E r \in held : r.c = "reserve"
       /\ RoomA(held, slabs) >= ReservePiece * Least(ReservePieces,
                                                     RoomA(held, <<>>) \div ReservePiece)
       /\ (conf.radv /\ conf.asked = 0 /\ budget > MinBudget) =>
             RoomA(held, slabs) >= conf.prefill + GttSlack

=============================================================================
