----------------------------- MODULE KvContext ------------------------------
(* One decode stream's context: the KV store of src/runtime/kvstore.cpp, the  *)
(* token history, the hidden window of the drafter, and the turns that extend,*)
(* roll back, restore and speculate on them (src/runtime/session.cpp and      *)
(* engine.cpp). One thread drives a stream, so an action is a decode step, a  *)
(* speculative cycle, or what a turn does between two of them.                *)
(*                                                                            *)
(* What a step computes at position p is determined by the tokens up to p: a  *)
(* cell is that prefix, and whether the step was the original one or a replay.*)
EXTENDS Integers, Sequences

CONSTANTS
    Tokens,       \* token ids
    Prompts,      \* the prompts requests may carry
    Window,       \* KvStoreConfig::window, and the drafter's kSlidingWindow
    MaxContext,   \* max_context
    FirstContext, \* initial_context
    MaxNew,       \* GenerateRequest::max_tokens
    MaxDraft,     \* speculation.max_draft
    GpuMin,       \* SessionOptions::gpu_prefill_min
    Speedup,      \* gpu_prefill_speedup
    BakeMin,      \* the shortest prompt bake_prompt writes
    Configs       \* the option sets explored: see conf

Ratio == 2
Slot == 0 .. Window - 1
Group == 0 .. MaxContext \div Ratio
Empty == -1      \* kSlotEmpty
Unknown == -2    \* kSlotUnknown

VARIABLES
    conf,      \* the prompts that come, --replay, DSpark on, GPU prefill on, two
               \* sessions, baked prompts; never changes
    hist,      \* history_
    kv,        \* KvStore: ring, pos (slot_pos_), floor (win_lo_), rows, hw
               \* (rows_hw_), carry, cap (cap_)
    hid,       \* draft_hidden_ and draft_position_
    drafter,   \* DsparkRuntime: its window KV and next_position
    snap,      \* the retained prompt: prompt_tokens_, prompt_ring_, prompt_carry_, ...
    parked,    \* the other session's ParkedContext
    baked,     \* the baked prompts on disk
    turn       \* where the turn is

vars == <<conf, hist, kv, hid, drafter, snap, parked, baked, turn>>

Cell(h, p, by) == [of |-> SubSeq(h, 1, p + 1), by |-> by]
NoCell == [of |-> <<>>, by |-> "none"]
NoRow == <<NoCell, NoCell>>
None == [tokens |-> <<>>]
Later(a, b) == IF a > b THEN a ELSE b
Sooner(a, b) == IF a < b THEN a ELSE b

\* How many tokens two histories share from the start.
Common(g, h) ==
    LET short == Sooner(Len(g), Len(h))
        bad   == {i \in 1 .. short : g[i] # h[i]}
    IN IF bad = {} THEN short ELSE CHOOSE i \in 0 .. short - 1 :
          i + 1 \in bad /\ \A j \in bad : i < j

----------------------------------------------------------------------------
(* The store.                                                                *)

Clear(s) ==
    [s EXCEPT !.ring = [t \in Slot |-> NoCell], !.pos = [t \in Slot |-> Empty], !.floor = 0,
              !.rows = [g \in Group |-> NoRow], !.hw = 0, !.carry = NoRow]

\* KvStore::create: the planes of initial_context positions, cleared.
Created ==
    [ring |-> [t \in Slot |-> NoCell], pos |-> [t \in Slot |-> Empty], floor |-> 0,
     rows |-> [g \in Group |-> NoRow], hw |-> 0, carry |-> NoRow, cap |-> FirstContext]

\* Growth doubles the planes and copies the rows ever counted, no more.
Reserve(s, n) ==
    IF n <= s.cap THEN s
    ELSE [s EXCEPT !.cap = Sooner(MaxContext, Later(n, 2 * @)),
                   !.rows = [g \in Group |-> IF g < s.hw THEN @[g] ELSE NoRow]]

\* The rows a layer may read at this step.
SetCounts(s, n) == [Reserve(s, n * Ratio) EXCEPT !.hw = Later(@, n)]

\* The last position below n that falls into slot s.
ResolveRing(s, n) ==
    [s EXCEPT !.pos = [t \in Slot |->
        IF @[t] # Unknown THEN @[t]
        ELSE IF n <= t THEN Empty ELSE t + ((n - 1 - t) \div Window) * Window]]

RingHolds(s, p) == p >= s.floor /\ s.pos[p % Window] = p

\* The positions a step at p lists in its window half.
WindowList(s, p) == {x \in Later(0, p - (Window - 1)) .. p : x >= s.floor}

\* What a step at p sets up before it computes: the rows it may read, its slot.
PrepareCed(s, p) ==
    [SetCounts(Reserve(s, p + 1), (p + 1) \div Ratio) EXCEPT !.pos[p % Window] = p]

\* One decode step at p: the slot, the carry, and the row p completes.
Step(s, h, p, by) ==
    LET cell  == Cell(h, p, by)
        carry == [s.carry EXCEPT ![(p % Ratio) + 1] = cell]
    IN [PrepareCed(s, p) EXCEPT
          !.ring[p % Window] = cell,
          !.carry = carry,
          !.rows = IF (p + 1) % Ratio = 0 THEN [@ EXCEPT ![p \div Ratio] = carry] ELSE @]

\* The m steps from p0 on, as a prefill or a verified batch makes them.
Steps(s, h, p0, m) ==
    LET run[j \in 0 .. m] == IF j = 0 THEN s ELSE Step(run[j - 1], h, p0 + j - 1, "step")
    IN run[m]

RestoreRow(s, back, p) ==
    IF (p + 1) % Ratio = 0 THEN [s EXCEPT !.rows[p \div Ratio] = back.rows[p \div Ratio]] ELSE s

RowsBelow(s, n) == [g \in Group |-> IF g < n \div Ratio THEN s.rows[g] ELSE NoRow]

\* Mutant: the open group is not packed.
PackClosed(s, h) ==
    [tokens |-> h, rows |-> RowsBelow(s, Len(h)), carry |-> NoRow]

Pack(s, h) == [tokens |-> h, rows |-> RowsBelow(s, Len(h)), carry |-> s.carry]

Unpack(s, p) ==
    [Reserve(s, Len(p.tokens)) EXCEPT !.rows = p.rows, !.carry = p.carry,
                                      !.hw = Later(@, Len(p.tokens) \div Ratio)]

RestoreExactRows(s, f) ==
    [Reserve(s, Len(f.tokens)) EXCEPT !.rows = f.rows, !.carry = f.carry,
                                      !.hw = Len(f.tokens) \div Ratio]

\* A seeded window's slots learn their positions only when they are resolved.
SeedWindow(s, cells) == [s EXCEPT !.ring = cells, !.pos = [t \in Slot |-> Unknown]]

\* The rows and the open group of a handoff: full is the store the prompt's steps leave.
SeedRows(s, full, n) ==
    [Reserve(s, (n \div Ratio) * Ratio) EXCEPT !.rows = full.rows,
                                               !.hw = Later(@, n \div Ratio)]

SeedCmpState(s, full) == [s EXCEPT !.carry = full.carry]

SnapshotRing(s) == [ring |-> s.ring, pos |-> s.pos]

\* The slots of a snapshot come back with the positions they held, in every layer.
RestoreRing(s, r, slots) ==
    [s EXCEPT !.ring = [t \in Slot |-> IF t \in slots THEN r.ring[t] ELSE @[t]],
              !.pos = [t \in Slot |-> IF t \in slots THEN r.pos[t] ELSE @[t]]]

\* A retained ring keeps no position the replay floor masks.
RetainRing(s) ==
    [SnapshotRing(s) EXCEPT !.pos = [t \in Slot |-> IF @[t] < s.floor THEN Empty ELSE @[t]]]

RecoverRing(s, r, keep) ==
    LET lo   == Later(0, keep - Window + 1)
        took == {x \in lo .. keep - 1 : r.pos[x % Window] = x}
        slots == {x % Window : x \in took}
    IN [RestoreRing(s, r, slots) EXCEPT !.floor = IF took = {} THEN @ ELSE Sooner(@, lo)]

\* The ring positions a step at k needs and the store does not hold, as one range
\* of at most replayMax positions that starts on an even one.
PlanRing(s, k, replayMax) ==
    LET need == {x \in Later(0, k - (Window - 1)) .. k - 1 : ~RingHolds(s, x)}
        end  == 1 + CHOOSE x \in need : \A y \in need : y <= x
        lo   == CHOOSE x \in need : \A y \in need : x <= y
        most == Sooner(Later(replayMax, 1), Window)
        first == Later(lo, end - most)
    IN IF need = {} THEN [first |-> 0, end |-> 0]
       ELSE [first |-> first - (first % 2), end |-> end]

----------------------------------------------------------------------------
(* The drafter's side.                                                       *)

NoHidden == [pos |-> [s \in Slot |-> Empty], of |-> [s \in Slot |-> <<>>]]
DrafterReset == [next |-> 0, of |-> [s \in Slot |-> <<>>]]

Capture(d, h, p) ==
    IF conf.spec THEN [d EXCEPT !.pos[p % Window] = p, !.of[p % Window] = SubSeq(h, 1, p + 1)]
    ELSE d

Captures(d, h, p0, m) ==
    LET run[j \in 0 .. m] == IF j = 0 THEN d ELSE Capture(run[j - 1], h, p0 + j - 1)
    IN run[m]

DraftFirst(p) == Later(0, p - (Window - 1))
SeedOk(d, p) == \A x \in DraftFirst(p) .. p : d.pos[x % Window] = x

DrafterAppend(dr, d, first, end) ==
    [next |-> end, of |-> [s \in Slot |->
        IF \E x \in first .. end - 1 : x % Window = s THEN d.of[s] ELSE dr.of[s]]]

SeedDraft(dr, d, p) ==
    IF dr.next = p + 1 THEN dr ELSE DrafterAppend(DrafterReset, d, DraftFirst(p), p + 1)

----------------------------------------------------------------------------
(* Turns.                                                                    *)

NoSnap == [first |-> FALSE]
Idle == [phase |-> "idle"]
Emitting(greedy) == [phase |-> "emit", greedy |-> greedy, left |-> MaxNew - 1]
Filling(todo, greedy) == [phase |-> "prefill", todo |-> todo, greedy |-> greedy, tried |-> FALSE]

\* A replay of [plan.first, plan.end), then the turn's prefill, or nothing more for
\* a session that is only being restored.
AfterReplay(plan, s, next) ==
    IF plan.first = plan.end THEN next
    ELSE [phase |-> "replay", at |-> plan.first, end |-> plan.end,
          back |-> [rows |-> s.rows, carry |-> s.carry], next |-> next]

Floored(s, plan) == IF plan.first = plan.end THEN s ELSE [s EXCEPT !.floor = plan.first]

\* Nothing of a retained prompt is usable once the context leaves it: only
\* reuse_prompt reads the rest of the snapshot, and it asks for prompt_first_.
SetContext(sn, old, new) ==
    IF sn.first /\ Common(old, new) < Len(sn.tokens) THEN NoSnap ELSE sn

ResetContext ==
    /\ hist' = <<>> /\ kv' = Clear(kv) /\ hid' = NoHidden
    /\ drafter' = DrafterReset /\ snap' = NoSnap

Retain(s, h, d) ==
    [first |-> TRUE, tokens |-> h, ring |-> RetainRing(s), carry |-> s.carry, hid |-> d]

\* The first time a long greedy prompt is seen its boundary goes to disk.
BakePrompt(s, h, greedy) ==
    IF /\ conf.bake /\ ~conf.spec /\ greedy /\ Len(h) >= BakeMin
       /\ \A f \in baked : f.tokens # h
    THEN baked \union {[tokens |-> h, rows |-> RowsBelow(s, Len(h)), carry |-> s.carry,
                        ring |-> SnapshotRing(s)]}
    ELSE baked

\* The end of turn_prepare: the prompt is in the store and its first token is known.
Prepared(s, h, d, greedy, cached) ==
    LET r == ResolveRing(s, Len(h)) IN
    /\ kv' = IF greedy THEN r ELSE s
    /\ snap' = IF greedy THEN Retain(r, h, d) ELSE NoSnap
    /\ baked' = IF cached THEN baked ELSE BakePrompt(r, h, greedy)
    /\ turn' = Emitting(greedy)

SnapHit(prompt) ==
    snap.first /\ snap.tokens = prompt /\ Common(prompt, hist) = Len(prompt)

RecoverHidden(d, n) ==
    LET took == {t \in Slot : snap.hid.pos[t] \in Later(0, n - Window) .. n - 1}
    IN [pos |-> [t \in Slot |-> IF t \in took THEN snap.hid.pos[t] ELSE d.pos[t]],
        of |-> [t \in Slot |-> IF t \in took THEN snap.hid.of[t] ELSE d.of[t]]]

ReusePrompt(prompt) ==
    LET s == RecoverRing(kv, snap.ring, Len(prompt))
        d == IF conf.spec THEN RecoverHidden(hid, Len(prompt)) ELSE hid
    IN /\ hist' = prompt
       /\ hid' = d
       /\ drafter' = IF conf.spec THEN DrafterReset ELSE drafter
       /\ Prepared([s EXCEPT !.carry = snap.carry], prompt, d, TRUE, TRUE)

RestoreBaked(f) ==
    /\ hist' = f.tokens /\ hid' = NoHidden /\ drafter' = DrafterReset
    /\ Prepared(RestoreRing(RestoreExactRows(Clear(kv), f), f.ring, Slot),
                f.tokens, NoHidden, TRUE, TRUE)

\* rollback_context: the history is cut, the ring rebuilt where it is not held. The
\* drafter is left as it is.
Rollback(s, keep, plan, next) ==
    /\ IF keep = Len(hist) THEN kv' = s /\ turn' = next /\ UNCHANGED <<hist, snap>>
       ELSE /\ hist' = SubSeq(hist, 1, keep)
            /\ snap' = SetContext(snap, hist, hist')
            /\ kv' = Floored(s, plan)
            /\ turn' = AfterReplay(plan, s, next)
    /\ UNCHANGED <<hid, drafter>>

\* Extend the history, roll it back to the common prefix, or start over.
Continue(prompt, greedy, reuse) ==
    LET common == Common(hist, prompt)
        extend == reuse /\ hist # <<>> /\ common = Len(hist) /\ common < Len(prompt)
        k      == Sooner(common, Len(prompt) - 1)
        keep   == k - (k % 2)
        try    == ~extend /\ hist # <<>> /\ reuse /\ keep > 0
        s      == IF try THEN ResolveRing(kv, Len(hist)) ELSE kv
        plan   == PlanRing(s, keep, conf.replay)
        roll   == try /\ keep > plan.end - plan.first
        cand   == IF extend THEN Len(hist) ELSE IF roll THEN keep ELSE 0
        cold   == /\ cand > 0 /\ conf.gpu /\ Len(prompt) >= GpuMin
                  /\ Len(prompt) < Speedup * (Len(prompt) - cand)
        Rest(n) == Filling(SubSeq(prompt, n + 1, Len(prompt)), greedy)
    IN \/ /\ extend /\ ~cold
          /\ turn' = Rest(Len(hist))
          /\ UNCHANGED <<hist, kv, hid, drafter, snap>>
       \/ roll /\ ~cold /\ Rollback(s, keep, plan, Rest(keep))
       \/ /\ cold \/ ~(extend \/ roll)
          /\ turn' = Rest(0)
          /\ IF hist = <<>> THEN UNCHANGED <<hist, kv, hid, drafter, snap>> ELSE ResetContext

BakedFor(prompt, greedy) == {f \in baked : f.tokens = prompt /\ greedy /\ conf.bake /\ ~conf.spec}

Begin(prompt, greedy, reuse) ==
    LET files == BakedFor(prompt, greedy) IN
    /\ turn.phase = "idle" /\ Len(prompt) < MaxContext
    /\ IF reuse /\ greedy /\ SnapHit(prompt) THEN ReusePrompt(prompt)
       ELSE IF reuse /\ files # {} THEN \E f \in files : RestoreBaked(f)
       ELSE Continue(prompt, greedy, reuse) /\ UNCHANGED baked
    /\ UNCHANGED <<conf, parked>>

\* A baked file whose shapes do not fit, or a restore that fails half way, is declined:
\* the turn starts over cold, and the file stays.
BeginDeclined(prompt) ==
    /\ turn.phase = "idle" /\ Len(prompt) < MaxContext
    /\ ~SnapHit(prompt) /\ BakedFor(prompt, TRUE) # {}
    /\ ResetContext
    /\ turn' = Filling(prompt, TRUE)
    /\ UNCHANGED <<conf, parked, baked>>

Replay ==
    LET p == turn.at
        s == RestoreRow(Step(kv, hist, p, "replay"), turn.back, p)
    IN /\ turn.phase = "replay"
       /\ hid' = Capture(hid, hist, p)
       /\ IF p + 1 < turn.end
          THEN kv' = s /\ turn' = [turn EXCEPT !.at = p + 1]
          ELSE kv' = [s EXCEPT !.carry = turn.back.carry] /\ turn' = turn.next
       /\ UNCHANGED <<conf, hist, drafter, snap, parked, baked>>

WantsGpu == conf.gpu /\ hist = <<>> /\ ~turn.tried /\ Len(turn.todo) >= GpuMin

\* The handoff of a GPU prefill of h: every row, the open group, and the window rows the
\* last layers computed, which are those of the bounded replay.
SeedFromPrefill(s, h) ==
    LET full == Steps(Clear(s), h, 0, Len(h))
        rows == Sooner(Later(conf.replay, 1), Window)
        seen == {p % Window : p \in Later(0, Len(h) - rows) .. Len(h) - 1}
        ring == [t \in Slot |-> IF t \in seen THEN full.ring[t] ELSE NoCell]
    IN SeedCmpState(SeedRows(SeedWindow(Clear(s), ring), full, Len(h)), full)

GpuPrefill ==
    LET h == turn.todo
        d == Captures(hid, h, 0, Len(h))
    IN /\ turn.phase = "prefill" /\ WantsGpu
       /\ hist' = h /\ hid' = d
       /\ Prepared(SeedFromPrefill(kv, h), h, d, turn.greedy, FALSE)
       /\ UNCHANGED <<conf, drafter, parked>>

GpuPrefillFails ==
    /\ turn.phase = "prefill" /\ WantsGpu
    /\ ResetContext
    /\ turn' = [turn EXCEPT !.tried = TRUE]
    /\ UNCHANGED <<conf, parked, baked>>

\* One prompt token through the decode path; the last one ends turn_prepare.
Feed ==
    /\ turn.phase = "prefill" /\ ~WantsGpu
    /\ hist' = Append(hist, Head(turn.todo))
    /\ LET s == Step(kv, hist', Len(hist), "step")
           d == Capture(hid, hist', Len(hist))
       IN /\ hid' = d
          /\ IF Len(turn.todo) = 1 THEN Prepared(s, hist', d, turn.greedy, FALSE)
             ELSE /\ kv' = s /\ turn' = [turn EXCEPT !.todo = Tail(@)]
                  /\ UNCHANGED <<snap, baked>>
    /\ UNCHANGED <<conf, drafter, parked>>

Wanted == turn.phase = "emit" /\ turn.left > 0 /\ Len(hist) + 1 < MaxContext

Decode(t) ==
    /\ Wanted /\ ~conf.spec
    /\ hist' = Append(hist, t)
    /\ kv' = Step(kv, hist', Len(hist), "step")
    /\ turn' = [turn EXCEPT !.left = @ - 1]
    /\ UNCHANGED <<conf, hid, drafter, snap, parked, baked>>

\* Mutant: only the carry is put back.
CommitCarry(before, after, p0, n, m) ==
    [after EXCEPT !.carry =
        Steps(before, SubSeq(after.ring[(p0 + m - 1) % Window].of, 1, p0 + n), p0, n).carry]

\* restore_batch_ring, then the carry of the n rows that stay.
Commit(before, after, p0, n, m) ==
    LET gone == {(p0 + j) % Window : j \in n .. m - 1}
        kept == Steps(before, SubSeq(after.ring[(p0 + m - 1) % Window].of, 1, p0 + n), p0, n)
    IN [RestoreRing(after, SnapshotRing(before), gone) EXCEPT !.carry = kept.carry]

\* Mutant: the hidden means the rejected rows wrote stay.
RestoreHiddenNever(before, after, p0, n, m) == after

RestoreHidden(before, after, p0, n, m) ==
    LET gone == {(p0 + j) % Window : j \in n .. m - 1} IN
    [pos |-> [t \in Slot |-> IF t \in gone THEN before.pos[t] ELSE after.pos[t]],
     of |-> [t \in Slot |-> IF t \in gone THEN before.of[t] ELSE after.of[t]]]

\* A draft of the tokens after the root, cut where its confidence falls too low, one
\* verification, and the n rows that are emitted: the accepted prefix and a correction, or less when one of them stops.
Speculate(input, n) ==
    LET p0 == Len(hist)
        m  == Len(input)
        h  == hist \o input
        s  == ResolveRing(kv, p0)
        d  == Captures(hid, h, p0, m)
        dr == SeedDraft(drafter, hid, p0 - 1)
    IN /\ Wanted /\ conf.spec
       /\ m - 1 <= Sooner(MaxDraft, Sooner(turn.left - 1, MaxContext - p0 - 1))
       /\ drafter.next = p0 \/ SeedOk(hid, p0 - 1)
       /\ hist' = SubSeq(h, 1, p0 + n)
       /\ kv' = Commit(s, Steps(s, h, p0, m), p0, n, m)
       /\ hid' = RestoreHidden(hid, d, p0, n, m)
       /\ drafter' = DrafterAppend(dr, hid', p0, p0 + n)
       /\ turn' = [turn EXCEPT !.left = @ - n]
       /\ UNCHANGED <<conf, snap, parked, baked>>

\* A stop token, max_tokens, a full context, or a cancel seen between two tokens.
EndTurn ==
    /\ turn.phase = "emit" \/ (turn.phase = "prefill" /\ ~WantsGpu)
    /\ turn' = Idle
    /\ UNCHANGED <<conf, hist, kv, hid, drafter, snap, parked, baked>>

\* Any step may fail: the server resets the context, a restore falls back to cold.
Fail ==
    /\ turn.phase # "idle"
    /\ ResetContext /\ turn' = Idle
    /\ UNCHANGED <<conf, parked, baked>>

\* restore_context: everything but the ring comes with p, the ring by replay.
RestoreContext(p) ==
    LET s    == Unpack(Clear(kv), p)
        plan == PlanRing(s, Len(p.tokens), conf.replay)
    IN /\ hist' = p.tokens /\ hid' = NoHidden /\ drafter' = DrafterReset /\ snap' = NoSnap
       /\ kv' = IF p = None THEN Clear(kv) ELSE Floored(s, plan)
       /\ turn' = IF p = None THEN Idle ELSE AfterReplay(plan, s, Idle)

\* The live session parks and the other one comes back.
Switch ==
    /\ turn.phase = "idle" /\ conf.park
    /\ Len(hist) \div Ratio <= kv.hw
    /\ parked' = IF hist = <<>> THEN None ELSE Pack(kv, hist)
    /\ RestoreContext(parked)
    /\ UNCHANGED <<conf, baked>>

\* The process ends between two turns; only the baked prompts are on disk.
Restart ==
    /\ turn.phase = "idle" /\ conf.bake
    /\ ResetContext /\ parked' = None
    /\ UNCHANGED <<conf, baked, turn>>

\* A baked prompt is evicted by the disk budget, or is corrupt and removed.
BakedGone ==
    /\ turn.phase = "idle"
    /\ \E f \in baked : baked' = baked \ {f}
    /\ UNCHANGED <<conf, hist, kv, hid, drafter, snap, parked, turn>>

Init ==
    /\ conf \in Configs
    /\ hist = <<>> /\ kv = Created /\ hid = NoHidden /\ drafter = DrafterReset
    /\ snap = NoSnap /\ parked = None /\ baked = {} /\ turn = Idle

Next ==
    \/ \E prompt \in conf.prompts, greedy, reuse \in BOOLEAN : Begin(prompt, greedy, reuse)
    \/ \E prompt \in conf.prompts : BeginDeclined(prompt)
    \/ Replay \/ GpuPrefill \/ GpuPrefillFails \/ Feed
    \/ \E t \in Tokens : Decode(t)
    \/ \E m \in 1 .. MaxDraft + 1 :
         \E input \in [1 .. m -> Tokens], n \in 1 .. m : Speculate(input, n)
    \/ EndTurn \/ Fail \/ Switch \/ Restart \/ BakedGone

Spec == Init /\ [][Next]_vars

----------------------------------------------------------------------------
(* Properties.                                                               *)

\* The position the next decode step computes.
NextPosition == IF turn.phase = "replay" THEN turn.at ELSE Len(hist)

\* The store, the drafter's window and the turn have their types, and a slot's
\* recorded position is one that falls into it.
KvTypeOK ==
    /\ hist \in Seq(Tokens) /\ Len(hist) <= MaxContext
    /\ kv.floor \in 0 .. MaxContext /\ kv.hw \in Group /\ Len(hist) <= kv.cap
    /\ \A s \in Slot : kv.pos[s] \in {Empty, Unknown} \/ kv.pos[s] % Window = s
    /\ turn.phase \in {"idle", "replay", "prefill", "emit"}
    /\ drafter.next \in 0 .. MaxContext

\* Every window slot the next step's list names (KvStore::set_decode_topk) holds what
\* the current history wrote at that position, whatever branches, replays, sessions,
\* snapshots and rejected drafts the ring has been through.
WindowOwn ==
    \A x \in WindowList(kv, NextPosition) \ {NextPosition} :
        kv.ring[x % Window].of = SubSeq(hist, 1, x + 1)

\* With the default replay bound no position of the next step's window stays masked
\* below the replay floor once a turn has its context: batched verification lists the
\* whole window and never looks at the floor (write_batch_window_lists).
WindowWhole ==
    conf.replay >= Window - 1 /\ turn.phase # "replay" =>
        kv.floor <= Later(0, Len(hist) - (Window - 1))

\* The compressed rows and the open group are the ones the original steps wrote: a
\* replay puts back each row it recomputes, a rejected draft leaves none, a parked or
\* baked context brings its own; and as many rows as the context has were written, so
\* packing it is never refused.
RowsExact ==
    /\ \A g \in Group : g < Len(hist) \div Ratio =>
         kv.rows[g] = <<Cell(hist, Ratio * g, "step"), Cell(hist, Ratio * g + 1, "step")>>
    /\ Len(hist) % Ratio = 1 /\ turn.phase # "replay" =>
         kv.carry[1] = Cell(hist, Len(hist) - 1, "step")
    /\ Len(hist) \div Ratio <= kv.hw

\* A parked session is complete: its rows and its open group are those of its tokens.
ParkedExact ==
    LET h == parked.tokens IN
    /\ \A g \in Group : g < Len(h) \div Ratio =>
         parked.rows[g] = <<Cell(h, Ratio * g, "step"), Cell(h, Ratio * g + 1, "step")>>
    /\ Len(h) % Ratio = 1 => parked.carry[1] = Cell(h, Len(h) - 1, "step")

\* The context a turn decodes from is its history's own: the window's slots, the
\* compressed rows and the open group, live and parked (KvStore, Engine's sessions).
OwnContext == KvTypeOK /\ WindowOwn /\ WindowWhole /\ RowsExact /\ ParkedExact

\* A speculative cycle is never refused for its hidden window: whenever a turn may draft,
\* the drafter follows the context or the captured means of the last Window positions
\* are there and are this history's ("a rejected suffix must not prevent a later
\* continuation from reseeding", speculative_step).
DraftWindow ==
    conf.spec /\ turn.phase = "emit" =>
        \/ drafter.next = Len(hist)
        \/ \A x \in DraftFirst(Len(hist) - 1) .. Len(hist) - 1 :
             /\ hid.pos[x % Window] = x
             /\ hid.of[x % Window] = SubSeq(hist, 1, x + 1)

\* A cycle that emits n tokens changes the ring and the hidden window at those n
\* positions only: the slots its rejected rows were written over come back.
RejectStep ==
    turn.phase = "emit" /\ turn'.phase = "emit" =>
        \A s \in Slot : (\A x \in Len(hist) .. Len(hist') - 1 : x % Window # s) =>
            kv'.ring[s] = kv.ring[s] /\ hid'.of[s] = hid.of[s] /\ hid'.pos[s] = hid.pos[s]
=============================================================================
