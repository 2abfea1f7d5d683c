------------------------------- MODULE Decode -------------------------------
(* A decode step on the GPU: the host thread of src/runtime/engine.cpp that   *)
(* records and submits one command buffer a layer for each stream, the queue  *)
(* that runs the buffers, and the expert slots they read. The host rewrites   *)
(* host-visible tables, slot lists and input planes that a dispatch reads when *)
(* it RUNS, reuses command buffers, and lets the expert store recycle slots:   *)
(* each of these is safe only because of which fence the host has waited for,  *)
(* which guard it has published, and the order the schedule takes.             *)
(*                                                                            *)
(* A resource carries the tag of what was last written to it; a recorded      *)
(* dispatch carries the tags it was recorded for. The fills of the expert      *)
(* store are only begun, landed and failed here, and a layer is planned in one *)
(* step: FillPlanner has their life. The backfill that fills the cache behind  *)
(* the host, and may take a slot from it, is the pump.                         *)
EXTENDS Integers, Sequences, FiniteSets, SequencesExt

CONSTANTS
    NumLayers,     \* num_hidden_layers
    EngramLayers,  \* layers with an engram
    Configs        \* the option sets and bounds explored: see conf

Layer == 0 .. NumLayers - 1

ASSUME DecodeAssumption ==
    /\ NumLayers \in Nat \ {0} /\ EngramLayers \subseteq Layer \ {0}
    /\ \A c \in Configs :
          /\ {c.streams, c.slots, c.jobs} \subseteq Nat \ {0} /\ c.faults \in Nat
          /\ c.routes \subseteq Seq(Nat) \ {<<>>} /\ c.order \in Seq(Layer \X Nat)
          /\ {c.eager, c.early, c.overlap} \subseteq BOOLEAN
          /\ c.sched \in {"pingpong", "interleave", "pipeline"}
          /\ c.mask \in {"off", "mask", "wait"} /\ c.batch \in {"no", "host", "gpu"}
          /\ c.batch = "gpu" => c.mask = "mask" /\ c.streams = 1
          /\ c.batch # "no" => c.mask # "wait"

VARIABLES
    conf,    \* streams, ms_sched_, ms_eager_moe, shared_early_on, overlap_, the mask
             \* mode, whether forward_batch runs and how it routes; the expert slots, the
             \* id lists a gate returns, the backfill's order; bounds on calls and
             \* faults. Never changes
    job,     \* the call being run: its operations, the one it is at, its sub-step, and
             \* in guard_layer the experts to guard, the slot found and where it returns
    st,      \* each Stream
    queue,   \* the buffers submitted to the one queue and not complete, oldest first
    store,   \* the expert store: slots, completed_timeline_, guard_clock_, stamps
    pump,    \* backfill_pump: the next of its order, and where it is
    faults   \* failures so far

vars == <<conf, job, st, queue, store, pump, faults>>

Stream == 1 .. conf.streams
Slot == 1 .. conf.slots
Stride == NumLayers + 1
Value(token, l) == token * Stride + l + 1        \* timeline_value
NotOpen == [open |-> FALSE, reads |-> {}, slots |-> {}]
NoLayer == -1
NoPlan == [hits |-> {}, issued |-> {}, joined |-> <<>>, failed |-> FALSE, ids |-> <<>>]

-----------------------------------------------------------------------------
(* Schedules: decode_step and decode_step_multi as the operations they run *)

Op(op, s, l) == [op |-> op, s |-> s, l |-> l]
PerLayer(F(_)) == FlattenSeq([i \in 1 .. NumLayers |-> F(i - 1)])
PerStream(n, F(_)) == [i \in 1 .. n |-> F(i)]

DecodeStep(s) ==
    LET layer(l) == <<Op("begin", s, l), Op("gate", s, l), Op("moe", s, l)>>
    IN  <<Op("prologue", s, 0)>> \o PerLayer(layer) \o <<Op("tail", s, 0)>>

Interleaved(n) ==
    LET all(op, l) == PerStream(n, LAMBDA s : Op(op, s, l))
        layer(l) == all("begin", l) \o all("gate", l) \o all("moe", l)
    IN  all("prologue", 0) \o PerLayer(layer) \o all("tail", 0)

\* Before a stream blocks on its misses the next attention is submitted: the next
\* stream's for this layer, or for the last stream the first stream's for the next.
Pipeline(n) ==
    LET all(op) == PerStream(n, LAMBDA s : Op(op, s, 0))
        ahead(s, l) == IF s < n THEN <<Op("begin", s + 1, l)>>
                       ELSE IF l + 1 < NumLayers THEN <<Op("begin", 1, l + 1)>> ELSE <<>>
        turn(s, l) == <<Op("gate", s, l)>> \o ahead(s, l) \o <<Op("moe", s, l)>>
        layer(l) == FlattenSeq(PerStream(n, LAMBDA s : turn(s, l)))
    IN  all("prologue") \o <<Op("begin", 1, 0)>> \o PerLayer(layer) \o all("tail")

ForwardBatch(route) ==
    LET layer(l) == IF route = "gpu" THEN <<Op("blayer", 1, l)>>
                    ELSE <<Op("blayer", 1, l), Op("broute", 1, l), Op("bmoe", 1, l)>>
    IN  <<Op("bprologue", 1, 0)>> \o PerLayer(layer) \o <<Op("btail", 1, 0)>>

DecodeStepMulti(c) ==
    CASE c.sched = "pingpong" -> FlattenSeq(PerStream(c.streams, DecodeStep))
      [] c.sched = "interleave" -> Interleaved(c.streams)
      [] c.sched = "pipeline" -> Pipeline(c.streams)

\* The calls a configuration makes: every stream together, one stream that is left
\* alone, a verify batch.
Calls ==
    [c \in Configs |->
        {DecodeStep(s) : s \in 1 .. c.streams}
          \cup (IF c.streams > 1 THEN {DecodeStepMulti(c)} ELSE {})
          \cup (IF c.batch = "no" THEN {} ELSE {ForwardBatch(c.batch)})]

Idle == [ops |-> <<>>, at |-> 1, sub |-> "run", n |-> 0, keys |-> <<>>, found |-> {},
         back |-> "run"]
Running == job.ops # <<>>
At(op) == Running /\ job.ops[job.at].op = op
Me == job.ops[job.at].s
L == job.ops[job.at].l

Returned == [Idle EXCEPT !.n = job.n]
Step == IF job.at = Len(job.ops) THEN Returned
        ELSE [job EXCEPT !.at = @ + 1, !.sub = "run"]
Then(sub) == [job EXCEPT !.sub = sub]

-----------------------------------------------------------------------------
(* The expert store, as a step uses it *)

Where(t, k) == {i \in Slot : t.slot[i].state # "free" /\ t.slot[i].key = k}
Resident(t, k) == \E i \in Where(t, k) : t.slot[i].state = "res"

\* set_guard and touch keep the larger value.
Raise(old, v) == IF v > old THEN v ELSE old

\* evict_lru: the oldest resident slot whose last reader has completed.
Evictable(t) == {i \in Slot : t.slot[i].state = "res" /\ t.slot[i].guard <= t.done}
Victim(t) == CHOOSE i \in Evictable(t) :
                 \A j \in Evictable(t) : t.slot[i].stamp <= t.slot[j].stamp
Free(t) == {i \in Slot : t.slot[i].state = "free"}
FreeSlot(t) ==
    IF Free(t) # {} THEN {CHOOSE i \in Free(t) : \A j \in Free(t) : i <= j}
    ELSE IF Evictable(t) # {} THEN {Victim(t)} ELSE {}
Filling(k, stamp) == [key |-> k, state |-> "fill", guard |-> 0, stamp |-> stamp]

\* plan_layer for one id: a hit is touched (and guarded for a masked layer), a fill
\* under way is joined, a miss takes a slot. A miss that finds no slot is logged and
\* left: the residency check after the wait reports it.
PlanKey(a, k, guardHits) ==
    LET t == [a.t EXCEPT !.tick = @ + 1]
        i == CHOOSE j \in Where(t, k) : TRUE
        filled == CHOOSE j \in FreeSlot(t) : TRUE
    IN  IF Resident(t, k)
        THEN [a EXCEPT !.t = [t EXCEPT !.slot[i].stamp = t.tick,
                                       !.slot[i].guard = Raise(@, guardHits)],
                       !.p.hits = @ \cup {k}]
        ELSE IF Where(t, k) # {}
        THEN [a EXCEPT !.t = [t EXCEPT !.tick = @ + 1],
                       !.p.joined = Append(@, <<k, t.tick + 1>>)]
        ELSE IF FreeSlot(t) = {} THEN [a EXCEPT !.t = t]
        ELSE [a EXCEPT !.t = [t EXCEPT !.tick = @ + 1, !.slot[filled] = Filling(k, t.tick + 1)],
                       !.p.issued = @ \cup {k}]

PlanLayer(t, l, ids, guardHits) ==
    LET go[n \in 0 .. Len(ids)] ==
            IF n = 0 THEN [t |-> t, p |-> [NoPlan EXCEPT !.ids = ids]]
            ELSE PlanKey(go[n - 1], <<l, ids[n]>>, guardHits)
    IN  go[Len(ids)]

\* store_.touch on what the layer joined: the fill may be gone, and a failed
\* fill's key is not found.
TouchJoined(t, p) ==
    [t EXCEPT !.slot = [i \in Slot |->
        LET mine == {n \in 1 .. Len(p.joined) : i \in Where(t, p.joined[n][1])}
        IN  IF mine = {} THEN t.slot[i]
            ELSE [t.slot[i] EXCEPT !.stamp = Raise(@, p.joined[CHOOSE n \in mine : TRUE][2])]]]

Keys(l, ids) == {<<l, ids[n]>> : n \in DOMAIN ids}
SlotsOf(t, keys) == {<<i, t.slot[i].key>> : i \in UNION {Where(t, k) : k \in keys}}

\* guard_layer: the layer's first call draws a guard, every call stamps the slots:
\* those of the experts in keys, found and stamped one at a time, before the layer
\* goes on at `back`.
GuardLayer(x, t) ==
    LET g == IF x.pending THEN x.layerGuard ELSE t.clock + 1
    IN  [x |-> [x EXCEPT !.layerGuard = g, !.pending = TRUE],
         t |-> [t EXCEPT !.clock = Raise(@, g)]]
InOrder(l, ids, keys) == SelectSeq([n \in DOMAIN ids |-> <<l, ids[n]>>], LAMBDA k : k \in keys)
Guarding(keys, back) ==
    IF keys = <<>> THEN Then(back)
    ELSE [job EXCEPT !.sub = "slot_of", !.keys = keys, !.back = back]

SlotOf ==
    /\ Running /\ job.sub = "slot_of"
    /\ job' = [job EXCEPT !.sub = "set_guard", !.found = Where(store, Head(job.keys))]
    /\ UNCHANGED <<conf, st, queue, store, pump, faults>>

\* The slot is stamped by its number: another thread may have recycled it.
SetGuard ==
    /\ Running /\ job.sub = "set_guard"
    /\ store' = [store EXCEPT !.slot = [i \in Slot |->
                    IF i \in job.found THEN [@[i] EXCEPT !.guard = Raise(@, st[Me].layerGuard)]
                    ELSE @[i]]]
    /\ job' = IF Tail(job.keys) = <<>>
              THEN [job EXCEPT !.sub = job.back, !.keys = <<>>, !.found = {}, !.back = "run"]
              ELSE [job EXCEPT !.sub = "slot_of", !.keys = Tail(@), !.found = {}]
    /\ UNCHANGED <<conf, st, queue, pump, faults>>

\* advance_store_guard: publish the guard of the buffer just waited for, but stay
\* below every guard another stream holds in an open or submitted buffer.
AdvanceStoreGuardAlone(s, t, mine) == [t EXCEPT !.done = Raise(@, mine)]
AdvanceStoreGuard(s, t, mine) ==
    LET held == {g \in UNION {{st[o].openGuard, st[o].inflight} : o \in Stream \ {s}} : g # 0}
        safe == CHOOSE v \in {mine} \cup {g - 1 : g \in held} :
                    \A w \in {mine} \cup {g - 1 : g \in held} : v <= w
    IN  IF mine = 0 THEN t ELSE [t EXCEPT !.done = Raise(@, safe)]

-----------------------------------------------------------------------------
(* Command buffers *)

\* cmd_open: a buffer that is open is continued.
Record(x, reads, slots) ==
    [x EXCEPT !.tok = [open |-> TRUE, reads |-> @.reads \cup reads, slots |-> @.slots \cup slots]]

\* cmd_submit: the open guard becomes the one in flight.
Entry(s, x, cmd, wait, out) ==
    [s |-> s, cmd |-> cmd, wait |-> wait, fence |-> x.fence + 1, reads |-> x.tok.reads,
     slots |-> x.tok.slots, out |-> out]
CmdSubmit(x) ==
    [x EXCEPT !.tok = NotOpen, !.fence = @ + 1,
              !.inflight = IF x.openGuard # 0 THEN x.openGuard ELSE @, !.openGuard = 0]

\* The fence value f of stream s is signalled: one queue, whose buffers complete in
\* the order they were submitted.
Signalled(s, f) == \A i \in DOMAIN queue : queue[i].s = s => queue[i].fence > f

\* cmd_wait, once the fence is signalled: what it does to the stream and the store.
CmdWaitKeep(x) == x
CmdWait(x) == [x EXCEPT !.inflight = 0]

\* A command buffer is in use from its submit to its fence.
InUse(s, cmd) == \E i \in DOMAIN queue : queue[i].s = s /\ queue[i].cmd = cmd

Write(x, tags) == [x EXCEPT !.tab = [r \in DOMAIN @ |-> IF r \in DOMAIN tags THEN tags[r] ELSE @[r]]]

\* The pointer-table page of the MoE runner: alternating with shared-early.
Page(l) == IF conf.early /\ l % 2 = 1 THEN "page1" ELSE "page0"

\* failed: the stream may have submitted work nobody waits for, and hold a guard no
\* buffer will publish.
Unwound(x) == [x EXCEPT !.tok = NotOpen, !.failed = TRUE, !.snap = 0]

\* A step that fails ends every buffer of the call that is open and returns. Taken in
\* turns (PingPong), the streams before it have returned and those after have not begun.
Streams(ops) == {ops[i].s : i \in DOMAIN ops}
Fail ==
    LET hit == IF conf.sched = "pingpong" THEN {Me} ELSE Streams(job.ops)
    IN  /\ st' = [s \in Stream |-> IF s \in hit THEN Unwound(st[s]) ELSE st[s]]
        /\ job' = Returned

-----------------------------------------------------------------------------
(* One decode step *)

Start(ops) ==
    /\ ~Running /\ job.n < conf.jobs
    /\ job' = [Idle EXCEPT !.ops = ops, !.n = job.n + 1]
    /\ UNCHANGED <<conf, st, queue, store, pump, faults>>

\* step_prologue: the embedding goes into x on the host, a buffer a failed step left
\* open is closed, and a token may not start above its own residency values.
StepPrologue ==
    /\ At("prologue")
    /\ IF st[Me].timeline > Value(st[Me].token, 0) - 1
       THEN Fail
       ELSE /\ st' = [st EXCEPT ![Me] =
                        [Write(@, [x |-> <<"token", @.token>>]) EXCEPT !.tok = NotOpen,
                                                                      !.post = FALSE]]
            /\ job' = Step
    /\ UNCHANGED <<conf, queue, store, pump, faults>>

\* bind writes the address tables of the layer's stages; MhcClose's too, unless the
\* open buffer has just recorded a close of the layer before.
Bind(x, l) ==
    IF l \in EngramLayers THEN Write(x, [chain |-> l, final |-> l])
    ELSE Write(x, [chain |-> l, final |-> l, close |-> l])

\* The residency the first dispatch of the buffer, the MoE of l-1, waits for.
PrevGateOwn(token, l) == Value(token, l)
PrevGate(token, l) == IF l = 0 THEN 0 ELSE Value(token, l - 1)

\* record_shared_early stages its layer's page and goes into the buffer of its parity.
SharedEarly(x, l) == Write(x, Page(l) :> l)

\* layer_begin: [MoE of l-1][close, engram][attention of l] in one buffer that waits
\* for l-1's residency, then the shared expert in a buffer of its own.
LayerBegin ==
    LET x == st[Me]
        engram == L \in EngramLayers
        closing == IF engram /\ x.post THEN {<<"close", L - 1>>} ELSE {}
        rows == IF engram THEN {<<"engram", x.token>>} ELSE {}
        fetched == IF engram THEN Write(x, [engram |-> x.token]) ELSE x
        input == IF L = 0 THEN {<<"x", <<"token", x.token>>>>} ELSE {}
        bound == [Bind(fetched, L) EXCEPT !.post = @ /\ ~engram]
        full == Record(bound, closing \cup rows \cup input
                                \cup {<<"chain", L>>, <<"final", L>>}, {})
        sent == CmdSubmit(full)
        shared == Record(SharedEarly(sent, L), {<<Page(L), L>>}, {})
        fresh == [gate |-> sent.fence, early |-> conf.early, split |-> FALSE, staged |-> FALSE,
                  late |-> {}, plan |-> NoPlan, served |-> {}]
        first == Entry(Me, full, "tok", PrevGate(x.token, L), L)
        second == Entry(Me, shared, IF L % 2 = 1 THEN "se1" ELSE "se0", 0, NoLayer)
    IN  /\ At("begin")
        /\ IF conf.early
           THEN /\ queue' = queue \o <<first, second>>
                /\ st' = [st EXCEPT ![Me] = [CmdSubmit(shared) EXCEPT !.lc = fresh]]
           ELSE /\ queue' = Append(queue, first)
                /\ st' = [st EXCEPT ![Me] = [sent EXCEPT !.lc = fresh]]
        /\ job' = Step
        /\ UNCHANGED <<conf, store, pump, faults>>

\* The engram's row reads failed: the layer returns before its attention is recorded.
\* A GPU-routed batch has submitted nothing by then, so its snapshot is released.
EngramFails ==
    /\ At("begin") \/ At("blayer")
    /\ L \in EngramLayers /\ faults < conf.faults
    /\ Fail
    /\ store' = [store EXCEPT !.done = Raise(@, st[Me].snap)]
    /\ faults' = faults + 1
    /\ UNCHANGED <<conf, queue, pump>>

\* layer_gate, first half: the fence of the layer's attention, the guard it
\* publishes, and the plan. A masked layer guards its hits while it plans.
LayerGate(ids) ==
    LET x == [CmdWait(st[Me]) EXCEPT !.pending = FALSE]
        t == AdvanceStoreGuard(Me, store, st[Me].inflight)
        masked == GuardLayer(x, t)
        planned == IF conf.mask = "off" THEN PlanLayer(t, L, ids, 0)
                   ELSE PlanLayer(masked.t, L, ids, masked.x.layerGuard)
        y == IF conf.mask = "off" THEN x
             ELSE [masked.x EXCEPT !.openGuard = masked.x.layerGuard]
        misses == Keys(L, ids) \ planned.p.hits
        served == IF conf.mask = "off" THEN Keys(L, ids) ELSE planned.p.hits
    IN  /\ At("gate") /\ job.sub = "run"
        /\ Signalled(Me, st[Me].lc.gate)
        /\ job' = IF conf.mask = "wait" THEN Guarding(InOrder(L, ids, misses), "maskwait")
                  ELSE Then("split")
        /\ st' = [st EXCEPT ![Me] = [y EXCEPT !.lc.plan = planned.p, !.lc.served = served]]
        /\ store' = IF conf.mask = "mask" THEN TouchJoined(planned.t, planned.p)
                    ELSE planned.t
        /\ UNCHANGED <<conf, queue, pump, faults>>

\* A weighted wait returns when its fills settle or its budget ends: what is
\* resident by then may be served.
MaskWait ==
    LET p == st[Me].lc.plan
    IN  /\ At("gate") /\ job.sub = "maskwait"
        /\ \E ready \in SUBSET {k \in Keys(L, p.ids) \ p.hits : Resident(store, k)} :
              st' = [st EXCEPT ![Me].lc.served = @ \cup ready]
        /\ store' = TouchJoined(store, p)
        /\ job' = Then("split")
        /\ UNCHANGED <<conf, queue, pump, faults>>

\* stage_input: the layer's ids, weights and slot list, and its quantised input
\* unless the GPU has quantised it already (shared-early).
StageInput(x, l) ==
    IF x.lc.early THEN Write(x, [list |-> l]) ELSE Write(x, [list |-> l, x16 |-> l])
Staged(x, l) == {<<"list", l>>, <<Page(l), l>>} \cup (IF x.lc.early THEN {} ELSE {<<"x16", l>>})
StageRows(x, l) == Write(x, Page(l) :> l)
RecordGateup(x, l, part, t, keys) ==
    Record(Write(x, [alt |-> <<l, part>>]),
           {<<"alt", <<l, part>>>>} \cup Staged(x, l), SlotsOf(t, keys))

\* layer_gate, second half: when the layer has fills to wait for, dispatch A over
\* what is resident goes out before the wait. Its slots are guarded with the
\* layer's guard, which only the buffer with dispatch B publishes.
LayerSplit ==
    LET x == st[Me]
        p == x.lc.plan
        early == {k \in Keys(L, p.ids) : Resident(store, k)}
        late == Keys(L, p.ids) \ early
        staged == [StageInput(x, L) EXCEPT !.lc.staged = TRUE]
        guarded == GuardLayer([staged EXCEPT !.lc.late = late], store)
        waits == conf.mask = "off" /\ conf.overlap /\ (p.issued # {} \/ p.joined # <<>>)
    IN  /\ At("gate") /\ job.sub = "split"
        /\ CASE ~waits ->
                  job' = Step /\ UNCHANGED <<st, store>>
             [] waits /\ late = {} ->
                  job' = Step /\ st' = [st EXCEPT ![Me] = staged] /\ UNCHANGED store
             [] OTHER ->
                  /\ job' = Guarding(InOrder(L, p.ids, early), "early")
                  /\ st' = [st EXCEPT ![Me] = guarded.x]
                  /\ store' = guarded.t
        /\ UNCHANGED <<conf, queue, pump, faults>>

\* stage_rows finds an expert's row only while it is resident.
Unstaged(keys) == \E k \in keys : ~Resident(store, k)

LayerEarly ==
    LET x == [st[Me] EXCEPT !.lc.split = TRUE]
        early == Keys(L, x.lc.plan.ids) \ x.lc.late
        sent == RecordGateup(StageRows(x, L), L, "early", store, early)
    IN  /\ At("gate") /\ job.sub = "early"
        /\ CASE Unstaged(early) ->
                  Fail /\ UNCHANGED queue
             [] early = {} /\ x.lc.early ->
                  job' = Step /\ st' = [st EXCEPT ![Me] = x] /\ UNCHANGED queue
             [] OTHER ->
                  /\ job' = Step
                  /\ st' = [st EXCEPT ![Me] = CmdSubmit(sent)]
                  /\ queue' = Append(queue, Entry(Me, sent, "tok", 0, NoLayer))
        /\ UNCHANGED <<conf, store, pump, faults>>

\* wait_layer has something to return: the group and then every joined fill settled.
Settled(p) ==
    /\ \A k \in p.issued : \A i \in Where(store, k) : store.slot[i].state # "fill"
    /\ \A n \in DOMAIN p.joined : \A i \in Where(store, p.joined[n][1]) :
          store.slot[i].state # "fill"
WaitFailed(p) ==
    p.failed \/ \E n \in DOMAIN p.joined : ~Resident(store, p.joined[n][1])

\* layer_moe, first half: wait for residency, check it, and open the gate the buffer
\* waits on.
LayerResident ==
    LET x == st[Me]
        p == x.lc.plan
        t == IF conf.mask = "off" THEN TouchJoined(store, p) ELSE store
        v == Value(x.token, L)
    IN  /\ At("moe") /\ job.sub = "run"
        /\ conf.mask = "off" => Settled(p)
        /\ IF (conf.mask = "off" /\ WaitFailed(p)) \/ \E k \in x.lc.served : ~Resident(t, k)
           THEN Fail /\ UNCHANGED store
           ELSE /\ st' = [st EXCEPT ![Me].timeline = Raise(@, v)]
                /\ store' = t
                /\ job' = Then("record")
        /\ UNCHANGED <<conf, queue, pump, faults>>

\* layer_moe, second half: the early half's buffer has completed before its slot list
\* is rewritten, and the experts that are new to the layer are guarded ...
New(x) == IF x.lc.split THEN x.lc.late ELSE x.lc.served
LayerMoe ==
    LET x == st[Me]
        waited == x.lc.split
        guarded == GuardLayer(IF waited THEN CmdWait(x) ELSE x,
                              IF waited THEN AdvanceStoreGuard(Me, store, x.inflight) ELSE store)
    IN  /\ At("moe") /\ job.sub = "record"
        /\ waited => Signalled(Me, x.fence)
        /\ st' = [st EXCEPT ![Me] = guarded.x]
        /\ store' = guarded.t
        /\ job' = Guarding(InOrder(L, x.lc.plan.ids, New(x)), "dispatch")
        /\ UNCHANGED <<conf, queue, pump, faults>>

\* ... before they are staged and recorded. The layer's last reader is open now; with
\* an eager MoE it goes out at once.
EagerMoe == conf.streams > 1 /\ conf.sched # "pingpong" /\ conf.eager
LayerDispatch ==
    LET x == st[Me]
        new == New(x)
        input == IF x.lc.split \/ x.lc.staged THEN x ELSE StageInput(x, L)
        rows == StageRows(input, L)
        part == IF x.lc.split THEN "late" ELSE "routed"
        gated == IF (x.lc.split \/ x.lc.early) /\ new # {}
                 THEN RecordGateup(rows, L, part, store, new) ELSE rows
        full == Record(gated, Staged(x, L), SlotsOf(store, x.lc.served))
        done == [full EXCEPT !.openGuard = x.layerGuard, !.post = TRUE]
    IN  /\ At("moe") /\ job.sub = "dispatch"
        /\ IF Unstaged(new) THEN Fail /\ UNCHANGED queue
           ELSE /\ job' = Step
                /\ IF EagerMoe
                   THEN /\ st' = [st EXCEPT ![Me] = CmdSubmit(done)]
                        /\ queue' = Append(queue, Entry(Me, done, "tok", Value(x.token, L), NoLayer))
                   ELSE /\ st' = [st EXCEPT ![Me] = done]
                        /\ UNCHANGED queue
        /\ UNCHANGED <<conf, store, pump, faults>>

\* step_epilogue: the tail points MhcClose and MhcFinal at the model's norm, joins
\* the open buffer and is flushed; a completed step is a new token.
TailSubmit ==
    LET x == Record(Write(st[Me], [close |-> "head", final |-> "head"]),
                    {<<"close", "head">>, <<"final", "head">>}, {})
    IN  /\ At("tail") /\ job.sub = "run"
        /\ queue' = Append(queue, Entry(Me, x, "tok", Value(x.token, NumLayers - 1), NoLayer))
        /\ st' = [st EXCEPT ![Me] = CmdSubmit(x)]
        /\ job' = Then("flush")
        /\ UNCHANGED <<conf, store, pump, faults>>

TailWait ==
    /\ At("tail") /\ job.sub = "flush" /\ Signalled(Me, st[Me].fence)
    /\ st' = [st EXCEPT ![Me] = [CmdWait(@) EXCEPT !.token = @ + 1]]
    /\ store' = AdvanceStoreGuard(Me, store, st[Me].inflight)
    /\ job' = Step
    /\ UNCHANGED <<conf, queue, pump, faults>>

-----------------------------------------------------------------------------
(* forward_batch *)

\* forward_batch before its layers. With GPU routing every resident slot gets the
\* snapshot's guard, and the batch may read any of them.
BatchPrologue ==
    LET x == [Write(st[Me], [mx |-> <<"token", st[Me].token>>]) EXCEPT !.tok = NotOpen,
                                                                     !.post = FALSE]
        g == store.clock + 1
        all == {i \in Slot : store.slot[i].state = "res"}
    IN  /\ At("bprologue")
        /\ IF conf.batch = "gpu"
           THEN /\ store' = [store EXCEPT !.clock = g, !.slot = [i \in Slot |->
                                IF i \in all THEN [@[i] EXCEPT !.guard = Raise(@, g)] ELSE @[i]]]
                /\ st' = [st EXCEPT ![Me] =
                            [x EXCEPT !.snap = g,
                                      !.lc.served = {store.slot[i].key : i \in all}]]
           ELSE st' = [st EXCEPT ![Me] = x] /\ UNCHANGED store
        /\ job' = Step
        /\ UNCHANGED <<conf, queue, pump, faults>>

\* run_layer_batch up to its flush. A GPU-routed layer records its MoE as well, over
\* the snapshot, and the buffer stays open for the next one.
BatchLayer ==
    LET x == st[Me]
        engram == L \in EngramLayers
        gpu == conf.batch = "gpu"
        closing == IF engram /\ x.post THEN {<<"mclose", L - 1>>} ELSE {}
        rows == IF engram THEN {<<"engram", x.token>>} ELSE {}
        input == IF L = 0 THEN {<<"mx", <<"token", x.token>>>>} ELSE {}
        fetched == IF engram THEN Write(x, [engram |-> x.token]) ELSE x
        bound == IF gpu THEN fetched
                 ELSE IF engram THEN Write(fetched, [mchain |-> L])
                 ELSE Write(fetched, [mchain |-> L, mclose |-> L])
        tables == IF gpu THEN {} ELSE closing \cup {<<"mchain", L>>}
        slots == IF gpu THEN {p \in SlotsOf(store, x.lc.served) : p[2][1] = L} ELSE {}
        full == Record([bound EXCEPT !.post = gpu], tables \cup rows \cup input, slots)
    IN  /\ At("blayer")
        /\ job' = Step
        /\ IF gpu
           THEN st' = [st EXCEPT ![Me] = full] /\ UNCHANGED queue
           ELSE /\ st' = [st EXCEPT ![Me] = CmdSubmit(full)]
                /\ queue' = Append(queue, Entry(Me, full, "tok", 0, L))
        /\ UNCHANGED <<conf, store, pump, faults>>

\* run_layer_batch after the flush: the union of the rows' experts is planned.
BatchRoute(ids) ==
    LET x == [CmdWait(st[Me]) EXCEPT !.pending = FALSE]
        t == AdvanceStoreGuard(Me, store, st[Me].inflight)
        masked == GuardLayer(x, t)
        off == conf.mask = "off"
        planned == IF off THEN PlanLayer(t, L, ids, 0)
                   ELSE PlanLayer(masked.t, L, ids, masked.x.layerGuard)
        y == IF off THEN x ELSE [masked.x EXCEPT !.openGuard = masked.x.layerGuard]
    IN  /\ At("broute") /\ Signalled(Me, st[Me].fence)
        /\ st' = [st EXCEPT ![Me] =
                    [y EXCEPT !.lc.plan = planned.p,
                              !.lc.served = IF off THEN Keys(L, ids) ELSE planned.p.hits]]
        /\ store' = IF off THEN planned.t ELSE TouchJoined(planned.t, planned.p)
        /\ job' = Step
        /\ UNCHANGED <<conf, queue, pump, faults>>

\* ... waited for, guarded, staged in the union runner's tables and recorded.
BatchMoe ==
    LET x == st[Me]
        p == x.lc.plan
        off == conf.mask = "off"
        t == IF off THEN TouchJoined(store, p) ELSE store
        guarded == GuardLayer(x, t)
    IN  /\ At("bmoe") /\ job.sub = "run" /\ (off => Settled(p))
        /\ IF (off /\ WaitFailed(p)) \/ \E k \in x.lc.served : ~Resident(t, k)
           THEN Fail /\ UNCHANGED store
           ELSE /\ st' = [st EXCEPT ![Me] = guarded.x]
                /\ store' = guarded.t
                /\ job' = Guarding(InOrder(L, p.ids, x.lc.served), "dispatch")
        /\ UNCHANGED <<conf, queue, pump, faults>>

BatchDispatch ==
    LET x == st[Me]
        full == Record(Write(x, [union |-> L]), {<<"union", L>>}, SlotsOf(store, x.lc.served))
    IN  /\ At("bmoe") /\ job.sub = "dispatch"
        /\ IF Unstaged(x.lc.served) THEN Fail
           ELSE /\ st' = [st EXCEPT ![Me] =
                            [full EXCEPT !.openGuard = x.layerGuard, !.post = TRUE]]
                /\ job' = Step
        /\ UNCHANGED <<conf, queue, store, pump, faults>>

BatchTail ==
    LET x == st[Me]
        tables == IF conf.batch = "gpu" THEN {} ELSE {<<"mclose", "head">>}
        full == Record(Write(x, [mclose |-> "head"]), tables, {})
    IN  /\ At("btail") /\ job.sub = "run"
        /\ queue' = Append(queue, Entry(Me, full, "tok", 0, NoLayer))
        /\ st' = [st EXCEPT ![Me] = CmdSubmit(full)]
        /\ job' = Then("flush")
        /\ UNCHANGED <<conf, store, pump, faults>>

\* The batch's fence: the snapshot's guard is published, and GpuRouteState::finish
\* plans every layer's route, to be filled for the next batch.
FinishLayers(t, routes) ==
    LET go[n \in 0 .. NumLayers] ==
            IF n = 0 THEN t
            ELSE LET a == PlanLayer(go[n - 1], n - 1, routes[n - 1], 0)
                 IN  TouchJoined(a.t, a.p)
    IN  go[NumLayers]

BatchWait(routes) ==
    LET x == CmdWait(st[Me])
        t == AdvanceStoreGuard(Me, store, st[Me].inflight)
    IN  /\ At("btail") /\ job.sub = "flush" /\ Signalled(Me, st[Me].fence)
        /\ store' = IF conf.batch = "gpu"
                    THEN FinishLayers([t EXCEPT !.done = Raise(@, x.snap)], routes) ELSE t
        /\ st' = [st EXCEPT ![Me] = [x EXCEPT !.token = @ + 1, !.snap = 0]]
        /\ job' = Step
        /\ UNCHANGED <<conf, queue, pump, faults>>

-----------------------------------------------------------------------------
(* The GPU and the drives *)

\* The queue's oldest buffer completes once the residency it waits for is signalled.
GpuRun ==
    LET b == Head(queue)
    IN  /\ queue # <<>> /\ st[b.s].timeline >= b.wait
        /\ queue' = Tail(queue)
        /\ st' = IF b.out = NoLayer THEN st ELSE [st EXCEPT ![b.s].out = b.out]
        /\ UNCHANGED <<conf, job, store, pump, faults>>

IoLand(i) ==
    /\ store.slot[i].state = "fill"
    /\ store' = [store EXCEPT !.slot[i].state = "res"]
    /\ UNCHANGED <<conf, job, st, queue, pump, faults>>

\* A read fails: the slot is released, and the layers that issued the read learn it.
IoFail(i) ==
    /\ store.slot[i].state = "fill" /\ faults < conf.faults
    /\ store' = [store EXCEPT !.slot[i].state = "free"]
    /\ st' = [s \in Stream |-> IF store.slot[i].key \in st[s].lc.plan.issued
                               THEN [st[s] EXCEPT !.lc.plan.failed = TRUE] ELSE st[s]]
    /\ faults' = faults + 1
    /\ UNCHANGED <<conf, job, queue, pump>>

-----------------------------------------------------------------------------
(* The backfill *)

\* backfill_pump looks for a free slot and then fetches the next of its order. The
\* slot may be gone by then: the fetch reclaims the oldest one that may be recycled
\* and tries once more. A guess is stamped below every demand.
PumpKey == conf.order[pump.next - 1]
PumpNext ==
    /\ pump.at = "look" /\ pump.next <= Len(conf.order) /\ Free(store) # {}
    /\ pump' = [next |-> pump.next + 1,
                at |-> IF Where(store, conf.order[pump.next]) # {} THEN "look" ELSE "fetch"]
    /\ UNCHANGED <<conf, job, st, queue, store, faults>>

PumpFetch ==
    /\ pump.at \in {"fetch", "again"}
    /\ CASE Where(store, PumpKey) # {} ->
              pump' = [pump EXCEPT !.at = "look"] /\ UNCHANGED store
         [] Where(store, PumpKey) = {} /\ Free(store) # {} ->
              /\ \E i \in FreeSlot(store) : store' = [store EXCEPT !.slot[i] = Filling(PumpKey, 0)]
              /\ pump' = [pump EXCEPT !.at = "look"]
         [] OTHER ->
              IF pump.at = "fetch" /\ Evictable(store) # {}
              THEN /\ store' = [store EXCEPT !.slot[Victim(store)].state = "free"]
                   /\ pump' = [pump EXCEPT !.at = "again"]
              ELSE pump' = [pump EXCEPT !.at = "off"] /\ UNCHANGED store
    /\ UNCHANGED <<conf, job, st, queue, faults>>

-----------------------------------------------------------------------------

Fresh ==
    [token |-> 0, timeline |-> 0, fence |-> 0, tok |-> NotOpen, layerGuard |-> 0,
     pending |-> FALSE, openGuard |-> 0, inflight |-> 0, snap |-> 0, post |-> FALSE,
     out |-> NoLayer, failed |-> FALSE,
     lc |-> [gate |-> 0, early |-> FALSE, split |-> FALSE, staged |-> FALSE, late |-> {},
             plan |-> NoPlan, served |-> {}],
     tab |-> [r \in {"x", "chain", "close", "final", "page0", "page1", "x16", "list", "alt",
                     "engram", "mx", "mchain", "mclose", "union"} |-> <<>>]]

Init ==
    /\ conf \in Configs
    /\ job = Idle
    /\ st = [s \in 1 .. conf.streams |-> Fresh]
    /\ queue = <<>>
    /\ store = [slot |-> [i \in 1 .. conf.slots |-> [key |-> <<>>, state |-> "free", guard |-> 0,
                                                     stamp |-> 0]],
                done |-> 0, clock |-> 0, tick |-> 0]
    /\ pump = [next |-> 1, at |-> "look"]
    /\ faults = 0

RouteMaps == [Layer -> conf.routes]

Host ==
    \/ StepPrologue \/ LayerBegin \/ LayerSplit \/ LayerEarly \/ LayerResident
    \/ SlotOf \/ SetGuard \/ LayerMoe \/ LayerDispatch
    \/ \E ids \in conf.routes : LayerGate(ids)
    \/ MaskWait \/ TailSubmit \/ TailWait
    \/ BatchPrologue \/ BatchLayer \/ BatchMoe \/ BatchDispatch \/ BatchTail
    \/ \E ids \in conf.routes : BatchRoute(ids)
    \/ \E routes \in RouteMaps : BatchWait(routes)

Next ==
    \/ \E ops \in Calls[conf] : Start(ops)
    \/ Host
    \/ EngramFails
    \/ GpuRun
    \/ \E i \in Slot : IoLand(i) \/ IoFail(i)
    \/ PumpNext \/ PumpFetch

Spec == Init /\ [][Next]_vars

-----------------------------------------------------------------------------
(* Properties. A stream whose step failed is in none of them: what it had      *)
(* submitted is never waited for.                                              *)

Sane == {s \in Stream : ~st[s].failed}
Pending(s) == {i \in DOMAIN queue : queue[i].s = s}
Buffers(s) == {[reads |-> queue[i].reads, slots |-> queue[i].slots] : i \in Pending(s)}
                \cup {[reads |-> st[s].tok.reads, slots |-> st[s].tok.slots]}

\* engine.h says of the shared-early buffers that one is re-recorded only once a
\* fence behind it was waited for: no command buffer of cmd_open is begun, or
\* submitted again, while the GPU may still be executing it. The eager MoE submit is
\* not waited for before the next layer_begin, and breaks this.
CommandIdle ==
    \A s \in Sane :
        /\ \A i, j \in Pending(s) : i # j => queue[i].cmd # queue[j].cmd
        /\ st[s].tok.open => ~InUse(s, "tok")

\* What a recorded dispatch will read when it runs is what it was recorded for: the
\* address tables bind writes, the slot lists, pages and input planes stage_input
\* and record_gateup write, the engram rows, and the expert in every slot, which
\* evict_lru may take as soon as advance_store_guard has published its guard.
BuffersSound ==
    /\ ~EagerMoe => CommandIdle
    /\ \A s \in Sane : \A b \in Buffers(s) :
          /\ \A r \in b.reads : st[s].tab[r[1]] = r[2]
          /\ \A p \in b.slots : store.slot[p[1]].state = "res" /\ store.slot[p[1]].key = p[2]

\* LayerCtx points at the gate's output buffers from layer_gate to layer_moe: while
\* a stream's next operation is a layer's MoE, they hold that layer's gate.
NextOp(s) == LET ahead == {i \in job.at .. Len(job.ops) : job.ops[i].s = s}
             IN  IF ahead = {} THEN {}
                 ELSE {job.ops[CHOOSE i \in ahead : \A j \in ahead : i <= j]}
GateHeld ==
    Running => \A s \in Sane : \A o \in NextOp(s) :
        (o.op \in {"moe", "bmoe"} \/ (o.op = "gate" /\ s = Me /\ job.sub # "run"))
            => st[s].out = o.l

\* Between steps nothing is submitted, and no stream keeps a guard that would hold
\* the next publication down. In every schedule but the interleaved one each slot
\* may be recycled: there a layer that splits draws its guard at the gate, so the
\* first stream's can be the larger one, and clamped below the second's it waits
\* for the next step to publish a larger one.
GuardsReleased ==
    ~Running /\ Sane = Stream =>
        /\ queue = <<>>
        /\ \A s \in Stream : st[s].openGuard = 0 /\ st[s].inflight = 0
        /\ conf.sched # "interleave" =>
              \A i \in Slot : store.slot[i].state = "res" => store.slot[i].guard <= store.done

\* step_prologue's check is for a token that starts below where the last one left
\* the timeline: no step finds it so, whatever happened to the step before.
TokenStarts == At("prologue") => st[Me].timeline <= Value(st[Me].token, 0) - 1

\* No wait of the host (a fence, a layer's fills) is for something only the host
\* itself would do later: a queued buffer waits for residency layer_moe signals
\* before it waits for that buffer. Every call therefore returns, as every action
\* of a call is a step towards its end.
HostBlocked ==
    LET x == st[Me]
    IN  \/ At("gate") /\ job.sub = "run" /\ ~Signalled(Me, x.lc.gate)
        \/ (At("moe") \/ At("bmoe")) /\ job.sub = "run" /\ conf.mask = "off" /\ ~Settled(x.lc.plan)
        \/ At("moe") /\ job.sub = "record" /\ x.lc.split /\ ~Signalled(Me, x.fence)
        \/ (At("tail") \/ At("btail")) /\ job.sub = "flush" /\ ~Signalled(Me, x.fence)
        \/ At("broute") /\ ~Signalled(Me, x.fence)
HostGoesOn ==
    Running /\ HostBlocked =>
        \/ queue # <<>> /\ st[Head(queue).s].timeline >= Head(queue).wait
        \/ \E i \in Slot : store.slot[i].state = "fill"
=============================================================================
