# cachedMoE: a TLA+ verification project

cachedMoE runs a mixture-of-experts model whose routed experts do not fit in
memory. They live on NVMe drives; a cache of fixed-size slots in GPU-visible
memory holds the ones in use. A decode step routes each layer to a few experts,
fetches the missing ones, and lets the GPU read slots long after the host looked
them up. Around this sit an I/O engine over several drives, a key-value context
per session with parking and a disk, speculative decoding, and a serve loop.

This directory models the parts of the program where correctness depends on
order: threads, callbacks, completions, crashes, reuse of memory, and long
sequences of legal calls. `PROJECT.json` lists the components, the runs, the
mutants, the map from definitions to source lines, the findings, the hazards and
the theorems. A definition whose comment begins "Mutant of" (or whose name is
given as "as" in `PROJECT.json`) is a plausible bug in the definition after it;
it is in no specification and shows that a property can fail.

## The parts and their modules

| Part of the program | Modules | State and actions |
|---|---|---|
| Expert store (`store/expert_store`) | `ExpertStore`, `ExpertCache` | A variable per field (slots, free stack, index, pointer table, timeline, gauges, mask-cache flags), an action per public method; a method holds the mutex throughout, `evict_key` takes it twice and is two actions. The client is the most general one. `readers` is the only ghost: addresses handed to command buffers that have not completed. `ExpertCache` is the promise: experts are Absent, Filling or Resident, leased and pinned ones do not leave. |
| Fill planner (`store/planner`) | `FillPlanner` (EXTENDS `ExpertStore`) | Two threads, each a program counter with the locals of the fetch it is in; a critical section of `plan_layer`, `fetch`, `reclaim`, `wait_layer` or `backfill_pump` is a step. `fetches` are the fills with the runs in flight. `RequestOffPlain` settles the cache for exact decoding, `SetResidentOnly` changes the mode without. `Faults` says what may go wrong. |
| I/O engine (`storage/io_engine`) | `IoEngine`, `IoService` | Four priority queues, chunks in flight, charges, mirrors with error budgets, one dispatcher, callers that submit and cancel, a watcher. `IoService` is the promise: one callback per accepted request, destination untouched outside its life. |
| I/O backends (`io_uring.cpp`, `iocp.cpp`) | `IoUring`, `Iocp` | Ring or port, records, bounce buffers, short reads, shutdown. |
| Files and mirrors (`file.h`, `shard_set.h`) | `Sources` | Open, check, register, fall off the bus, reopen under the old handle value. |
| Prefill (`prefill_kernels.cpp`, `Engine::gpu_prefill`) | `PrefillMoe`, `Prefill` | The transit ring with its reads ahead and the hand-off to the decode cache, one critical section of `admit_streamed` to a step, with the backfill's pump beside it; which rows every operation of `run_layer` reads under bounded replay. |
| Decode loop (`runtime/engine.cpp`) | `Decode` | The schedules of a step over one or two streams: what is recorded, submitted, waited for and published in which order. A resource carries the tag of what was last written; a dispatch the tags it was recorded for. `guard_layer` looks a slot up and guards it in two steps, between which the backfill may take it. |
| Recorded buffers (`decode_layer.cpp`, `moe_bridge.cpp`, `dspark_runtime.cpp`, kernels) | `Recording` | The programs of a step, a verify batch and a draft as dispatches, barriers and submits with what they read and write. |
| KV store and contexts (`runtime/kvstore`, `session.cpp`) | `KvContext` | Window ring, compressed rows, open group, hidden window, turns, roll-back, replay, park, restore, bake, speculate. |
| Sessions, serve loop, KV disk (`session.cpp`, `cli/serve.cpp`) | `KvDisk`, `Serve` | Reader thread, main thread, session pool with its budget, disk budget in bytes, background writer (temporary file, remove, rename), exit, kill and restart. |
| Requests that change decoding | `ServeControl` | Mode, speculation and stream selection between turns; a request's decode policy, which serve and `Session::generate` each guard. |
| Speculation (`speculate`, `dspark_tree`) | `DraftTree`, `Speculation` | Lattice, path, acceptance, residual sampling as operators; cycles with ring roll-back, and steps that fail half-way, as actions. |
| Sampling, tokenizer, engram rows | `Nucleus`, `Tokenizer`, `Engram` | Top-p cut, BPE with stale heap entries and the stream decoder, row hashes with fetch ahead and row cache, each compared with its definition. |
| Resident-only routing | `ResidentRoute` | Routing over the resident set, `plan_layer` and `wait_layer`, the miss queue and its reads. |
| Cache snapshot | `Snapshot` | Save, load and restore over crashes and changed checkpoints. |
| Start and shutdown, device memory | `Boot`, `GpuMemory` | What each step of `init` takes and gives back when it fails; both allocators, pinned regions, slab pool. |

How they interact: `FillPlanner` contains the store, so its runs and proofs are
about both together. `Prefill` extends `PrefillMoe`, `Serve` extends `KvDisk`,
`Speculation` uses `DraftTree`. The other boundaries are cut where the code cuts
them: the planner sees reads that complete in any order (what `IoEngine`
promises), `Decode` sees fills that begin and land, `IoEngine` sees a backend that
accepts, refuses and completes chunks (what `IoUring` and `Iocp` promise), and
`Serve` sees a turn as a context that changes owner and number (what `KvContext`
keeps exact).

`MC*.tla` with the `.cfg` files are the instances (`PrefillSetups` lists those of
`Prefill`). `MCPasses`, `MCPlatform` and `MCForward` each put parts that work on
their own side by side, one to a behaviour.

## Runs

| Run | Instance | Shows |
|---|---|---|
| `expert_store` | 3 experts, 2 slots on two memory paths, 1 run, 2 stamps, 3 timeline values | `StoreConsistent`, `ReadersKept`, `StoreSteps`; the store implements `ExpertCache` |
| `planner_backfill` | 3 experts, 2 slots, 2 runs, one layer of 2 experts, a backfill of 2; failed reads, refused submits, timeouts (355 thousand states) | `FillsExact`, `GuessesGoFirst`; waits return, the backfill ends |
| `planner_demand` | two layers, exact, masked or masked on a fixed cache, the mode changed between them; failed reads (1.6 million) | `GroupExact`, `LayerReady` |
| `io_engine` | a striped P0 read, a backfill, an engram row over a primary and a mirror; failing drives, cancel, rejects, whole and chunked routing (93 thousand) | `ChargesExact`, `DrainMeansSettled`, `P0First`, `ImplementsIoService`, `Answered` |
| `passes` | decode: 2 layers, 3 or 4 slots, one and two streams, fifteen schedules and option sets, one fault or a backfill of 3. Contexts: window 4, contexts to 8, three prompts that wrap and branch; decode, GPU prefill, speculation. Prefill: 4 layers with and without replay, or 2 layers with open routes; one failed read or a backfill (1.3 million) | `StepSound`, `IdleReleased`, `NeverStuck`; `ContextExact`, `DraftReady`, `RejectedLeaveNoTrace`; `TransitExact`, `HandoffExact` |
| `serve` | 3 sessions over one parked slot, 2 processes, files of two sizes, a failed write; eight configurations (377 thousand) | `Resumes`, `NothingLost`, `CancelStops`, `Served` |
| `platform` | seven parts: start, memory, both backends, mirrors, snapshot, recordings (985 thousand) | a soundness property each |
| `forward` | six parts: speculation, routing, tokenizer, engram, control, sampling (1.3 million) | a soundness property each |
| `planner_race` | 4 experts, 3 slots, nothing fails | **violated**: finding 1 |
| `decode_recovery` | one fault | **violated**: finding 2 |
| `decode_eager` | two streams, the pipeline schedule with the eager MoE submit | **violated**: finding 3 |
| `prefill_unwind` | the prefills of `passes` | **violated**: finding 4 |

What a property leaves out, it leaves out in its formula, and these are the cases:

* `LayerReady` speaks of a layer whose exact decoding began with room for any
  layer's experts (`settled`), as `request_decode_policy` sees to. `restore()` of
  a policy guard (`engine.cpp:2011`) and `decode_route` change the mode without
  settling: a fetch may then be refused without being counted and `wait_layer`
  succeed. `layer_moe` checks residency again (`engine.cpp:2670`) and fails the
  step. A backfill breaks it (finding 1), so do timeouts, and `planner_demand` has
  neither.
* `GuessesGoFirst` speaks of the default backfill. One started to `keep` is
  stamped as demand on purpose.
* `ChargesExact` excepts the charges the code forgets (`Forgotten`): a null
  destination is rejected (`io_engine.cpp:732`) before the guard that gives the
  charge back (`:737`) exists, and `cancel` of a request routed whole (`:846`)
  keeps its charge.
* `DrainMeansSettled` excepts a request a cancel has taken out and not reported
  yet: `cancel` counts it out (`io_engine.cpp:857`) before its callback (`:883`),
  so `drain` can return first.
* `TransitExact` excepts an expert that a guess of the backfill evicted between
  `admit_streamed`'s lookup and its `set_guard` (`dest.late`): the guard then lands
  on another expert's slot and the batch computes from it. The last prefill
  configuration reaches this.
* `StepSound` has `CommandIdle` only without the eager submit (finding 3).
* `EngineLetsGo` excepts what shutdown overlooks (`Overlooked`): `xact_`, which
  `MoeRunner::destroy` does not name and `streams_.clear()` destroys after the
  device, and the drafter's scratch buffer, which has no destructor.
  `engine.cpp:1368` says that everything lets go before the allocator and the
  device do. What is held is a set, so a double free is out of its sight.
* `Resumes` and `NothingLost` excuse a session the code lets go of (`ghost.gone`,
  below), the crash between the remove and the rename of its file among them.
* `ControlSound` says that scores are answered from the session's own last step.
  A decode-path prompt that is cancelled before its first step still counts as
  ready (`serve.cpp:803`); the model has the case and the property excepts it.
* `RoutingSound` does not say that a startup-mode step succeeds: fills of a
  reheat or of the background may hold every slot it needs, and the step fails.
* `UringSound` says that a read is answered at most once and from its own bytes,
  not that the kernel answers. `MirrorsSound` is about the handles and the routing;
  what a read that was in flight across a reopen got (`io_engine.cpp:702`, `:788`)
  is not constrained. `RecordingSound` is about one pass of one stream. `TextExact`
  takes the pretokenizer's matches as the code searches them, and does not compare
  the search with a leftmost-longest matcher. `SamplingExact` is about the host's
  sampler.

Bounds. Two slots for three experts is the least for which an eviction must
choose and a key can move to another slot; a third timeline value lets two guards
overlap. Two runs is what the shipped checkpoint has per expert. Stamps only
grow and `MaxStamp` exceeds what the layers of a run can draw. `Word` stands for
the 2^32 at which unsigned counters wrap: small enough to see a wrap, larger than
any true count. `NumFetch` is one more than the slots, since a fetch holds a slot
until it settles and one settled fetch can be in its callback. In `io_engine` the
depths are 1 and 2, so that every cap is met; requests of one and two chunks make
a striped read overtake and be overtaken. A window of four with contexts of eight
wraps the ring once with every residue. Three sessions over one parked slot send
every switch back through the disk. Replay 3 of 7 rows puts the cut inside a
group and inside a query block. Two hash heads tell
an engram's rows apart by head. In `platform` and `forward` the sizes are named in
the `.cfg` files. `MCServe` names files by their sessions: `session_file_name`
(`session.cpp:944`) escapes, and two names that escape alike would share a file. `planner_demand` uses the symmetry of the two keys
other than `ExpertKey{}`; no run with a liveness property uses symmetry.

Fairness. `FairPlannerSpec` has weak fairness of each thread's steps: the submit
thread runs until it blocks in a wait, the dispatcher loops while a request is
outstanding, and a backend completes or fails what it accepted. `IoEngine` has it
of the dispatcher, of completions and of the idle-time clock; callers are not
obliged to submit. `Serve` has it of the main thread and of the writer, not of the
reader: nobody has to type. Starting a layer or a backfill, changing the mode,
timing out, cancelling, failing and being killed are never fair.

Deadlock is checked in the store, planner and I/O runs. Where the system
may stop for good (a served process that exited, a prefill that is over, a host
whose calls are used up) the configuration says `CHECK_DEADLOCK FALSE`, and
`passes` has `NeverStuck` for decoding instead: whenever the host waits, something it waits for
can still happen without it.

## What is proved

The theorems hold for every value of the constants allowed by the named ASSUMEs:
any number of experts, slots, runs, layers, requests, chunks, sources, sessions.

**The expert store** (`ExpertStoreProofs`, from `StoreAssumption`). The inductive
invariant is `StoreInv == TypeOK /\ Placement /\ GaugesExact /\ FrozenIsFull /\
FillOutstanding /\ Guarding`. `Placement` is `IndexExact`, `FreeListExact` and
`TableExact` together: none is inductive alone, since an eviction must know that
the key it erases from the index is that slot's. `Guarding` adds to `ReadersHeld`
that the slot's guard covers each reader; without it the guard test of
`evictable()` says nothing about readers. `GaugesExact` needs `Placement`, and
`FrozenIsFull` needs `GaugesExact`, because the store freezes on a gauge. From it:
`StoreConsistent` and `ReadersKept` always hold, every step keeps `StoreSteps` (by
one lemma, `Transitions`, on what a step can be), each part is a theorem of its
own, and `Refinement` shows that the store implements `ExpertCache`.

**The fill planner** (`FillPlannerInvariant`, `FillPlannerFetches`,
`FillPlannerProofs`, from `PlannerAssumption`). `PlannerInv` is `StoreInv` with the
planner's types, where each thread can be (`ThreadsPlaced`), the shape of the fetch
table (`FetchesShaped`), that the fetch a thread is in is its own (`FetchesHeld`),
`FillsOwned`, `NoOrphanFill`, and the counts. The counts need more than
themselves: a thread between `begin_fill` and its first submit is counted in
`pending` or `inflight` but owns no entry, so what is inductive is the sum of
entries and threads. `FillsAreOwned` and `NoFillOrphaned` hold whatever fails.
`FillsExactTheorem` and `GroupExactTheorem` assume `FirstRunDecides`: no run of a
fetch after its first is refused by `submit`. Without it the code's error path and
the callback of the run already sent both count the fill out (see below), and TLC
refutes both. `PlannerUsesStore` shows that every step of the planner is a call of
one store method or leaves the store alone, so all that is proved of the store
holds under the planner (`PlannerKeepsStore`). `GuessesGoFirstTheorem` is
about every eviction of either thread, `plan_layer`'s and both `reclaim`s, under
any preferred memory path: among the slots the path leaves to choose from, an
expert that some layer asked for, hit or joined goes only when each of them is
one. It needs the history `asked`, and that the stamps of demand lie above those of
guesses, which is why the backfill must not `keep`. That a least stamp exists is
proved from the well-foundedness of the naturals (`LeastNatural`).

**The I/O engine** (`IoEngineInvariant`, `IoEngineProofs`, from `IoAssumption`).
`IoInv` says which requests each queue may hold and that none is in two queues or
twice in one, that a chunk in flight is of a live request and was issued, that
issued, returned and flying chunks add up, that `outstanding` is the number of
live requests, that a callback ran at most once and only at the end, what the
dispatcher holds between the steps of an answer, and that only mirrored requests
leave the primary. The lazy removal of issued requests from the queues is why
`QueueSound` has to speak of requests that are fully issued or over. From it:
`DrainTheorem`, `P0FirstTheorem` and `IoRefinement` (the engine implements
`IoService`). All three assume `NoCancelOfRetried`: in a
configuration where reads may fail, no request with a mirror is cancelled; see below.

**Sessions, the serve loop and the KV disk** (`ServeInvariant`, `ServeProofs`, from
`ServeAssumption`: `FileOf` is injective, the default session is a session, the
budgets are naturals, a burst has a token). `ServeInv` has nine parts.
`MainTypes`, `PoolShaped` and `DiskShaped` are types, and that the LRU list, the
queue of the writer and the directory hold one entry per session, without which
taking one out would leave another. `Owners`: every copy of a context, live,
parked, queued, being written or in a file, is its session's. `Placed` ties the
place of the main thread to the active session and to what is parked. `OnDisk`
follows the newest snapshot through the writer (`Tracked`): pending, else being
written, else in the file or failed. A write between remove and rename leaves no
file, so the file alone is not enough. `InMemory` is the core of `NothingLost`: a
session that is neither live nor parked has nothing queued and its file is its last
turn. `enforce_budget` keeps it only because the result it waits for is that of the
victim's newest snapshot, which is `Saves`: while the main thread waits, the one
save with a completion is the victim's, and nobody replaces it. `CancelSound` is
about the cancel counter of the reader: a turn that emits after a cancel is still
in the step the cancel fell into. The steps of the writer, the reader and a turn
keep `ServeInv` in `ServeInvariant`; those of the pool, the exit, and a restart on
the files of a killed process in `ServeProofs`. From it: `ResumesHolds`,
`NothingLostHolds` and `CancelStopsHolds`. A session is excused (`ghost.gone`) where
the code lets go of it: a state that could not be installed, an exact boundary, the
memory budget without a disk, the disk budget, and a restart whose
file is not the last turn's. The next completed turn ends the excuse. `Omit` in `KvDisk` removes one element where `lru_.remove`
removes all; by `PoolShaped` there is at most one.

Bounds such as `MaxStamp`, `MaxTimeline` and `NumFetch` stay in the proofs as
arbitrary naturals: a finite behaviour of the program is one of the model for large
enough values.

**Only model-checked.** All liveness (`WaitReturns`, `BackfillEnds`, `Answered`,
`Served`) and `NeverStuck`-like statements about what is enabled: fairness and
ENABLED are outside the prover. `ChargesExact` sums over a set with a fold, and
`SamplingExact`, `TextExact`, `EngramSound` are about recursive definitions: both
need induction over data, whose library theorems take an operator as a parameter
that the installed provers cannot instantiate. `LayerReady` holds only without a
backfill and without timeouts (finding 1), conditions on whole behaviours that the
instance fixes. `KvContext`, `Decode`, `Prefill` and the parts of `platform` and
`forward` have no proofs.

## Findings

1. **A layer can skip an expert the backfill is filling** (`planner_race`).
   `plan_layer` looks for a fill to join, finds none, and its own fetch is then
   refused `AlreadyExists` because the dispatcher's backfill reserved the key in
   between. The expert is in neither the group nor `joined`; `wait_layer` succeeds
   and `layer_moe` fails with "not resident after the gate".
2. **A failed step blocks its stream** (`decode_recovery`). A step that fails after
   a layer has signalled the residency timeline leaves it ahead of the token that
   is tried next, so `step_prologue` refuses every later step.
3. **A command buffer is begun while it may be executing** (`decode_eager`). With
   several streams `layer_moe` submits the MoE at once (`DEEPMOE_MS_EAGER_MOE`, on
   by default, `docs/p4_multistream.md` §2.2) and waits for nothing; the stream's
   next `layer_begin` begins `tok_cmd_` again. `engine.h:289` gives the shared-early
   submit a buffer of its own for just this reason, and reuses it only behind a
   fence.
4. **Reads land in a freed transit** (`prefill_unwind`). When a batch fails, the
   futures of the batch issued ahead of it are dropped with the local that holds
   them. `destroy()` waits for the reads ahead and the engram rows only, "nothing
   lands in a freed transit", and frees the memory. The Fill slots of that batch are
   released by the cleanup of `gpu_prefill` while the reads are in flight.

Met while modelling or proving, and not runs of their own:

* *Cancel against fail-over.* `IoEngine::finish` resets a failed mirror read
  (`next_chunk = 0`) before it takes the mutex to queue it again, while the request
  may still be in its queue from the first pass. A `cancel` in between finds that
  no chunk was issued, removes the request, and answers it; `finish` then queues
  it, it is read again and answered a second time. `io_engine.h` promises that
  `cancel` is safe from any thread and that the destination is left alone after the
  callback. The proof of `IoRefinement` stopped here; with the mirrored request
  in `conf.cancels` and reads that fail TLC finds it in twelve states. Only a test calls `cancel` today.
* *A later run refused.* When the second run of a fetch is refused after the first
  was sent, `on_done` and the error path of `fetch` both count the fill out.
* After a timed-out layer the next `plan_layer` may find every slot Filling; the
  refused fetch is logged, not counted, and `wait_layer` succeeds.
* A joined fill settles with the backfill's low stamp and can be evicted before
  `wait_layer` touches it; the backfill can evict although `planner.cpp:522` says it
  never does; a reheat with `keep` gives the hottest expert the oldest stamp.
* A session whose file alone exceeds the disk budget is deleted right after it was
  written and reported saved (`session.cpp:982`). A crash between remove and rename
  of a session file leaves neither; a `reset` or `drop` of a session that is only on disk is undone by the
  next load; an asynchronous write that fails is not reported.
* `session.h:115` allows a short replay, under which a verify batch lists window
  positions that are below the replay floor; the drafter may start from a stale
  position after a roll-back.

## Not modelled

Router heat; `ExpertStore::reset` and `init` during a run; `wait_expert`; the
score-aware policy. Chunk planning and depth tuning of the I/O engine, the thermal
half of the mirror watch, DirectStorage. A fence wait that times out, `layer_probe`.
Leftover temporary files, names that collide after escaping, status requests. Numeric kernels on CPU and GPU, the
manifest and configuration parsers, JSON, the profiler, the command line and the
Python front end have no interleaving or long-lived state that a model checker
would help with.
