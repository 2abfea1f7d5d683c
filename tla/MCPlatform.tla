----------------------------- MODULE MCPlatform -----------------------------
(* The parts of the platform that work on their own: an engine's start and   *)
(* shutdown, its memory, the two I/O backends, the mirrors' handles, the     *)
(* expert cache's snapshot and the recorded command buffers.  A behaviour is *)
(* one of one part, which `component` names; a variable or a constant that   *)
(* two parts have is shared, and the variables a part has not are zero.      *)
(* Recording is extended rather than instantiated so that TLC computes its   *)
(* programs once.                                                            *)
EXTENDS Recording

CONSTANTS Machines,                                          \* Boot
          Settings,                                          \* GpuMemory
          Chunks, Submitters,                                \* IoUring and Iocp
          Request, Entries, MaxFaults,                       \* IoUring
          FileOf, Files, Workers, Depth, PoolMax,            \* Iocp
          NShards, NMirrors, Disks, Returns, MaxFalls, ErrorBudget, Reqs,   \* Sources
          Experts, Identities, Capacities, Base, MaxUses,    \* Snapshot
          MaxBoots                                           \* Boot and Snapshot

VARIABLES component,
          held, slabs, firstB, budget, plan, reading, boots,
          set, whereat, bufs, pieces, account, regions, used, planes, owner, aDone, ids,
          ring, todo, hand, slots, freeSlots, inflight, sq, kernel, cq, unacked, batch,
          retiring, known, bounceFree, bounceUsed, buffer, answers, faults,
          port, associated, ops, pool, system, packets, worker, done, polled,
          phase, disk, on, falls, table, file, alts, errs, dropped, watch, armed, backoff,
          req, got,
          identity, capacity, stamp, uses, tmp, lost, was, clean

E == INSTANCE Boot WITH reads <- reading
M == INSTANCE GpuMemory WITH at <- whereat, parts <- pieces
U == INSTANCE IoUring
P == INSTANCE Iocp WITH at <- whereat
F == INSTANCE Sources
S == INSTANCE Snapshot

\* The variables of each part that no other part has.
bootOnly == <<held, firstB, budget, plan, reading>>
memoryOnly == <<set, bufs, pieces, account, regions, planes, owner, aDone, ids>>
uringOnly == <<ring, hand, slots, freeSlots, sq, kernel, cq, unacked, batch,
               retiring, known, bounceFree, bounceUsed, buffer, answers, faults>>
iocpOnly == <<port, associated, ops, pool, system, packets, worker, done, polled>>
mirrorsOnly == <<phase, disk, on, falls, table, alts, errs, dropped, watch, armed,
                 backoff, req, got>>
snapshotOnly == <<identity, capacity, stamp, uses, tmp, lost, was, clean>>
recordingOnly == <<ran>>

NoBoot == held = 0 /\ firstB = 0 /\ budget = 0 /\ plan = 0 /\ reading = 0
NoMemory == set = 0 /\ bufs = 0 /\ pieces = 0 /\ account = 0 /\ regions = 0
    /\ planes = 0 /\ owner = 0 /\ aDone = 0 /\ ids = 0
NoUring == ring = 0 /\ hand = 0 /\ slots = 0 /\ freeSlots = 0 /\ sq = 0
    /\ kernel = 0 /\ cq = 0 /\ unacked = 0 /\ batch = 0 /\ retiring = 0 /\ known = 0
    /\ bounceFree = 0 /\ bounceUsed = 0 /\ buffer = 0 /\ answers = 0 /\ faults = 0
NoIocp == port = 0 /\ associated = 0 /\ ops = 0 /\ pool = 0 /\ system = 0
    /\ packets = 0 /\ worker = 0 /\ done = 0 /\ polled = 0
NoMirrors == phase = 0 /\ disk = 0 /\ on = 0 /\ falls = 0 /\ table = 0 /\ alts = 0
    /\ errs = 0 /\ dropped = 0 /\ watch = 0 /\ armed = 0 /\ backoff = 0 /\ req = 0
    /\ got = 0
NoSnapshot == identity = 0 /\ capacity = 0 /\ stamp = 0 /\ uses = 0 /\ tmp = 0
    /\ lost = 0 /\ was = 0 /\ clean = 0
NoRecording == ran = 0

PlatformInit ==
    \/ /\ component = "boot" /\ E!Init
       /\ NoMemory /\ NoUring /\ NoIocp /\ NoMirrors /\ NoSnapshot /\ NoRecording
       /\ whereat = 0 /\ used = 0 /\ mem = 0 /\ todo = 0 /\ inflight = 0 /\ file = 0
    \/ /\ component = "memory" /\ M!Init
       /\ NoBoot /\ NoUring /\ NoIocp /\ NoMirrors /\ NoSnapshot /\ NoRecording
       /\ conf = 0 /\ pc = 0 /\ boots = 0 /\ mem = 0 /\ todo = 0 /\ inflight = 0
       /\ file = 0
    \/ /\ component = "uring" /\ U!Init
       /\ NoBoot /\ NoMemory /\ NoIocp /\ NoMirrors /\ NoSnapshot /\ NoRecording
       /\ conf = 0 /\ pc = 0 /\ slabs = 0 /\ boots = 0 /\ whereat = 0 /\ used = 0
       /\ file = 0
    \/ /\ component = "iocp" /\ P!Init
       /\ NoBoot /\ NoMemory /\ NoUring /\ NoMirrors /\ NoSnapshot /\ NoRecording
       /\ conf = 0 /\ pc = 0 /\ slabs = 0 /\ boots = 0 /\ used = 0 /\ mem = 0
       /\ file = 0
    \/ /\ component = "mirrors" /\ F!Init
       /\ NoBoot /\ NoMemory /\ NoUring /\ NoIocp /\ NoSnapshot /\ NoRecording
       /\ conf = 0 /\ pc = 0 /\ slabs = 0 /\ boots = 0 /\ whereat = 0 /\ used = 0
       /\ mem = 0 /\ todo = 0
    \/ /\ component = "snapshot" /\ S!Init
       /\ NoBoot /\ NoMemory /\ NoUring /\ NoIocp /\ NoMirrors /\ NoRecording
       /\ conf = 0 /\ slabs = 0 /\ whereat = 0 /\ mem = 0 /\ todo = 0
       /\ inflight = 0
    \/ /\ component = "recording" /\ Init
       /\ NoBoot /\ NoMemory /\ NoUring /\ NoIocp /\ NoMirrors /\ NoSnapshot
       /\ slabs = 0 /\ boots = 0 /\ whereat = 0 /\ used = 0 /\ todo = 0
       /\ inflight = 0 /\ file = 0

PlatformNext ==
    \/ /\ component = "boot" /\ E!Next
       /\ UNCHANGED <<component, memoryOnly, uringOnly, iocpOnly, mirrorsOnly,
                      snapshotOnly, recordingOnly, whereat, used, mem, todo,
                      inflight, file>>
    \/ /\ component = "memory" /\ M!Next
       /\ UNCHANGED <<component, bootOnly, uringOnly, iocpOnly, mirrorsOnly,
                      snapshotOnly, recordingOnly, conf, pc, boots, mem, todo,
                      inflight, file>>
    \/ /\ component = "uring" /\ U!Next
       /\ UNCHANGED <<component, bootOnly, memoryOnly, iocpOnly, mirrorsOnly,
                      snapshotOnly, recordingOnly, conf, pc, slabs, boots, whereat,
                      used, file>>
    \/ /\ component = "iocp" /\ P!Next
       /\ UNCHANGED <<component, bootOnly, memoryOnly, uringOnly, mirrorsOnly,
                      snapshotOnly, recordingOnly, conf, pc, slabs, boots, used,
                      mem, file>>
    \/ /\ component = "mirrors" /\ F!Next
       /\ UNCHANGED <<component, bootOnly, memoryOnly, uringOnly, iocpOnly,
                      snapshotOnly, recordingOnly, conf, pc, slabs, boots, whereat,
                      used, mem, todo>>
    \/ /\ component = "snapshot" /\ S!Next
       /\ UNCHANGED <<component, bootOnly, memoryOnly, uringOnly, iocpOnly,
                      mirrorsOnly, recordingOnly, conf, slabs, whereat, mem, todo,
                      inflight>>
    \/ /\ component = "recording" /\ Next
       /\ UNCHANGED <<component, bootOnly, memoryOnly, uringOnly, iocpOnly,
                      mirrorsOnly, snapshotOnly, slabs, boots, whereat, used, todo,
                      inflight, file>>

platformVars == <<component, bootOnly, memoryOnly, uringOnly, iocpOnly, mirrorsOnly,
                  snapshotOnly, recordingOnly, conf, pc, slabs, boots, whereat,
                  used, mem, todo, inflight, file>>

PlatformSpec == PlatformInit /\ [][PlatformNext]_platformVars

(* ------------------------------ properties ------------------------------ *)

\* Engine::shutdown gives back what a start, however far it came, had made, before what it
\* was made from and with nothing in flight into it, but for each MoeRunner's xact_, which
\* outlives its device, and the drafter's scratch, which is not freed; and the expert cache
\* leaves on either memory path the room that what is allocated after it needs
\* (Engine::init_gpu, shutdown).
EngineLetsGo == component = "boot" => E!ShutdownLetsGo /\ E!CacheLeavesRoom

\* Whatever step of an allocation fails, the buffer, memory, mapping and pages of the
\* earlier steps are given back and the byte accounts agree with what is held; and no
\* two tensors, slots or planes share bytes (MemoryAllocator, PinnedStore, SlabPool).
MemoryExact == component = "memory" => M!PartsExact /\ M!PlacesDisjoint

\* Each chunk io_uring takes is answered once, with the bytes it asked for, though records
\* are used again while completions are outstanding and short reads are continued; and a
\* record or a bounce buffer has one owner (UringBackend).
UringSound == component = "uring" => U!UringExact /\ U!UringOwned

\* The same of the IOCP backend, with its pool of operations and several completion
\* threads, to its shutdown (IocpBackend).
IocpSound == component = "iocp" => P!IocpExact

\* Every File that is open holds a descriptor of its own and of its path through any
\* reopen, no descriptor leaks, and a mirror that serves reads holds the primary's
\* bytes (File::reopen, IoEngine::readmit_source).
MirrorsSound == component = "mirrors" => F!HandlesExact /\ F!LiveMirrorsOwn

\* A snapshot restored after any stop, power loss included, gives back the residents the
\* last save took, in their order of use, and nothing of another checkpoint
\* (load_expert_cache_state, save_expert_cache_state).
SnapshotSound == component = "snapshot" => S!SnapshotExact

\* Every dispatch of a step, of a verify batch or of a draft reads what the dispatch before
\* it in the program's order left, whatever the GPU overlaps between two barriers, and
\* reads it of its own layer (DecodeLayer, MoeBridge, DsparkRuntime).
RecordingSound == component = "recording" => ReadsInOrder /\ OwnLayer

(* ----------------------------- the instances ----------------------------- *)

Machine == [radv |-> FALSE, heapA |-> 40, heapB |-> 20, importable |-> 12, phys |-> 26,
            commit |-> 0, hostBudget |-> 0, hostUsed |-> 0, import |-> "ok", capA |-> FALSE,
            asked |-> 0, slotCap |-> 88, capGiven |-> FALSE, step |-> 6, pinned |-> 9,
            prefill |-> 6, fp8 |-> FALSE, fp8Copy |-> 1, spec |-> FALSE, streams |-> 1,
            limit |-> 88, lose |-> 99]

MCMachines ==
    {Machine,
     [Machine EXCEPT !.limit = 30, !.streams = 2],
     [Machine EXCEPT !.limit = 3],
     [Machine EXCEPT !.asked = 50, !.limit = 30],
     [Machine EXCEPT !.asked = 36, !.spec = TRUE, !.fp8 = TRUE],
     [Machine EXCEPT !.capA = TRUE, !.hostBudget = 18, !.hostUsed = 3],
     [Machine EXCEPT !.import = "align", !.lose = 20],
     [Machine EXCEPT !.import = "noext"],
     [Machine EXCEPT !.commit = 16],
     [Machine EXCEPT !.commit = 40, !.asked = 2, !.fp8 = TRUE, !.spec = TRUE],
     [Machine EXCEPT !.asked = 4, !.spec = TRUE],
     [Machine EXCEPT !.radv = TRUE, !.spec = TRUE],
     [Machine EXCEPT !.radv = TRUE, !.capGiven = TRUE, !.slotCap = 20, !.streams = 2]}

Rig == [types |-> <<{"local"}, {"visible", "coherent", "cached"},
                    {"local", "visible", "coherent", "cached"}, {"local", "visible", "coherent"}>>,
        hostMask |-> {2, 3}, aligned |-> TRUE, maxAlloc |-> 8, region |-> 4,
        planes |-> <<1, 2, 3, 6, 2, 9>>, slab |-> 4, slotsPerSlab |-> 2, want |-> 3, aCap |-> 0,
        maxIds |-> 10]
MCSettings ==
    {Rig,
     [Rig EXCEPT !.planes = <<1, 2, 3, 6, 2>>],
     [Rig EXCEPT !.planes = <<2, 2>>, !.aCap = 8,
                 !.types = <<{"visible", "coherent"}, {"local","visible"}, {"local"}>>],
     [Rig EXCEPT !.planes = <<1>>, !.aCap = 1, !.hostMask = {}],
     [Rig EXCEPT !.planes = <<1>>, !.aligned = FALSE]}

MCRequest == <<[bytes |-> 4, want |-> 3, place |-> "hidden"],
               [bytes |-> 4, want |-> 4, place |-> "host"],
               [bytes |-> 2, want |-> 2, place |-> "named"]>>

MCFileOf == [c \in Chunks |-> IF c = 3 THEN "b" ELSE "a"]

Contents == {"same", "short", "absent"}
MCDisks == {[s \in 0..1 |-> IF s = 0 THEN p ELSE m] :
              p \in {<<"same", "same">>, <<"same", "short">>}, m \in {<<a, b>> : a, b \in Contents}}
MCReturns == {<<a, b>> : a, b \in Contents \cup {"other"}}

\* Four layers: a window-only one, an engram layer, a source of compressed rows and of an
\* index, and a layer that follows it as a source of its own index, each with the routing
\* outcome that makes its MoE take one path.
PlainLayer == [kv |-> FALSE, idx |-> FALSE, ratio |-> 0, full |-> FALSE, scored |-> FALSE,
          cand |-> "none", cmp |-> 0, list |-> 1, engram |-> FALSE, split |-> "none",
          capture |-> FALSE]
Source(l, cand) == [PlainLayer EXCEPT !.kv = TRUE, !.idx = TRUE, !.ratio = 4, !.full = TRUE,
                                 !.scored = TRUE, !.cmp = l, !.list = l, !.cand = cand]
Layers(a, b) ==
    <<[PlainLayer EXCEPT !.split = a],
      [PlainLayer EXCEPT !.engram = TRUE, !.split = b],
      [Source(3, "source") EXCEPT !.split = "early"],
      [Source(3, "consumer") EXCEPT !.kv = FALSE, !.list = 4, !.engram = TRUE, !.capture = TRUE]>>

StepConf == [path |-> "step", layers |-> Layers("early", "late"), attn |-> "tiled", ksplit |-> FALSE,
         early |-> TRUE, greedy |-> TRUE]
BatchConf == [path |-> "batch", layers |-> Layers("none", "none"), attn |-> "cm", m |-> 2,
          engram_early |-> FALSE, greedy |-> FALSE]
DraftConf == [path |-> "draft", record |-> TRUE, rows |-> 2]

MCConfigs ==
    {StepConf,
     [StepConf EXCEPT !.attn = "cm", !.ksplit = TRUE, !.early = FALSE, !.greedy = FALSE],
     [StepConf EXCEPT !.attn = "plain", !.layers = Layers("none", "early")],
     [StepConf EXCEPT !.early = FALSE, !.layers = Layers("late", "none")],
     BatchConf,
     [BatchConf EXCEPT !.engram_early = TRUE, !.attn = "tiled"],
     [BatchConf EXCEPT !.path = "route", !.greedy = TRUE],
     DraftConf,
     [DraftConf EXCEPT !.record = FALSE],
     [DraftConf EXCEPT !.path = "append"],
     [DraftConf EXCEPT !.path = "append", !.record = FALSE]}
=============================================================================
