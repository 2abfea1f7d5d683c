----------------------------- MODULE PrefillMoe -----------------------------
(***************************************************************************)
(* How the GPU prefill streams a layer's experts: Prefill::read_ahead,     *)
(* run_moe and read_expert (the transit ring), the sink that hands what is *)
(* streamed to the decode cache (Engine::gpu_prefill, admit_streamed), and *)
(* the engram rows a helper thread reads ahead (engram_issue and its       *)
(* callers).  The drive completes reads in any order, and any of them can  *)
(* fail.  A backfill may be filling the cache meanwhile (backfill_pump).   *)
(*                                                                         *)
(* A piece of memory is a place: a transit slot, a slot of the decode      *)
(* cache, the page-locked stage of the engram rows.  `mem` is what it      *)
(* holds, Torn from the moment a read into it is submitted until that read *)
(* lands.  Experts are numbered in shard order.                            *)
(***************************************************************************)
EXTENDS Integers, Sequences, FiniteSets, SequencesExt

CONSTANTS
    EngramLayers,
    Experts,        \* routed experts of a layer, 1..E in shard order
    TransitSlots,   \* K: slots of a transit segment
    Configs,        \* configurations, see the MC module
    ReadFaults      \* bound: how many reads may fail

VARIABLES
    conf,           \* this behaviour's configuration
    at,             \* the main thread: layer, step, batch and expert
    ahead,          \* ahead_: its layer and the slot of each expert read ahead
    batches,        \* run_moe's batches
    dest,           \* where the sink put each expert of the layer
    cache,          \* the decode cache's slots
    pump,           \* backfill_pump: the next guess, and where its fetch is
    guards,         \* guard_clock_, the store's completed timeline, open_guards
    reads,          \* submitted reads whose future nobody has taken yet
    mem,            \* what each place holds
    rows,           \* the engram rows: engram_ahead_ and its helper thread
    faults

moeVars == <<ahead, batches, dest, cache, pump, guards, reads, mem, rows, faults>>

Torn == <<0, 0>>
Never == 0

Transit(s) == <<"transit", s>>
Slot(c) == <<"cache", c>>
Stage == <<"rows", 0>>

Segments == conf.segments

NoAhead == [layer |-> Never, slot |-> [e \in {} |-> 0]]

NoBatches == <<>>

Drop == [kind |-> "drop", slot |-> 0, guard |-> 0, open |-> FALSE, late |-> FALSE]

(* What run_moe computes an expert from: its cache slot, or its transit slot. *)
TransitOf(b, e) == Transit(batches[b].slot[e])

Base(b, e) == IF dest[e].kind = "drop" THEN TransitOf(b, e) ELSE Slot(dest[e].slot)

(* Who waits for a read: ahead_.futs, engram_ahead_.futs, a batch's futs, or the
   planner, when it is the backfill's. *)
ForAhead == <<"ahead", 0>>
ForEngram == <<"engram", 0>>
ForBackfill == <<"backfill", 0>>
Batch(i) == <<"batch", i>>

Flying(rs) == {r \in rs : r.st = "flying"}

By(who) == {r \in reads : r.by = who}

Arrived(rs) == Flying(rs) = {}

Fine(rs) == \A r \in rs : r.st = "ok"

Read(to, key, by) == [to |-> to, key |-> key, by |-> by, st |-> "flying"]

Torning(rs) == [p \in DOMAIN mem |-> IF \E r \in rs : r.to = p THEN Torn ELSE mem[p]]

-----------------------------------------------------------------------------
(* The drive: a read lands in its place, or fails part way. *)

Land ==
    /\ \E r \in Flying(reads) :
         /\ mem' = [mem EXCEPT ![r.to] = r.key]
         /\ reads' = (reads \ {r}) \cup {[r EXCEPT !.st = "ok"]}
    /\ UNCHANGED <<conf, at, ahead, batches, dest, cache, pump, guards, rows, faults>>

ReadFails ==
    /\ faults < ReadFaults
    /\ faults' = faults + 1
    /\ \E r \in Flying(reads) : reads' = (reads \ {r}) \cup {[r EXCEPT !.st = "failed"]}
    /\ UNCHANGED <<conf, at, ahead, batches, dest, cache, pump, guards, mem, rows>>

-----------------------------------------------------------------------------
(* The cache the sink hands experts to.  Recency is left open: any slot the
   guard rule lets go may be the least recently used, and an expert may be
   older than all of them. *)

Holds(key) == {c \in DOMAIN cache : cache[c].key = key /\ cache[c].st = "ready"}

Evictable == {c \in DOMAIN cache : cache[c].st = "ready" /\ cache[c].guard <= guards.completed}

FreeSlots == {c \in DOMAIN cache : cache[c].st = "free"}

(* The slot index_ has for the key, ready or being filled. *)
SlotOf(key) == {c \in DOMAIN cache : cache[c].key = key}

Filling(key) == [key |-> key, st |-> "filling", guard |-> 0]

Emptied == [key |-> Torn, st |-> "free", guard |-> 0]

(* sink.release for every expert of `es`: a Fill settles, and only the guards
   below the oldest reservation that still waits retire. *)
Settled(es, ok) ==
    [c \in DOMAIN cache |->
        IF \E e \in es : dest[e].open /\ dest[e].kind = "fill" /\ dest[e].slot = c
          THEN [cache[c] EXCEPT !.st = IF ok THEN "ready" ELSE "free",
                                !.key = IF ok THEN @ ELSE Torn]
          ELSE cache[c]]

Closed(es) == [e \in Experts |-> IF e \in es THEN [dest[e] EXCEPT !.open = FALSE] ELSE dest[e]]

CompletedAll(d) == guards.clock

Completed(d) ==
    LET open == {d[e].guard : e \in {x \in Experts : d[x].open}}
    IN  IF open = {} THEN guards.clock ELSE (CHOOSE g \in open : \A h \in open : g <= h) - 1

Release(es, ok) ==
    /\ cache' = Settled(es, ok)
    /\ dest' = Closed(es)
    /\ guards' = [guards EXCEPT !.completed = IF conf.sink THEN Completed(Closed(es)) ELSE @]

-----------------------------------------------------------------------------
(* The transit. *)

Goto(step) == at' = [at EXCEPT !.step = step]

Failing == at' = [at EXCEPT !.step = "unwind"]

(* read_ahead(L): the first experts in shard order that the cache does not hold,
   as many segments of them as the adaptive depth says; a submit can be refused,
   and then the ones before it are in flight and the prefill fails. *)
ReadAhead(L, next) ==
    LET order == SelectSeq([i \in 1..Cardinality(Experts) |-> i],
                           LAMBDA e : ~(conf.sink /\ Holds(<<L, e>>) # {}))
        depth == at.depth * TransitSlots
        n     == IF Len(order) < depth THEN Len(order) ELSE depth
        sent(k) == {Read(Transit(i - 1), <<L, order[i]>>, ForAhead) : i \in 1..k}
        upTo(k) ==
            /\ ahead' = [layer |-> L, slot |-> [e \in {order[i] : i \in 1..k} |->
                                                  (CHOOSE i \in 1..k : order[i] = e) - 1]]
            /\ reads' = reads \cup sent(k)
            /\ mem' = Torning(sent(k))
    IN  \/ upTo(n) /\ at' = next /\ UNCHANGED faults
        \/ /\ faults < ReadFaults
           /\ faults' = faults + 1
           /\ \E k \in 0..(n - 1) : upTo(k)
           /\ Failing

(* The batches: the experts read ahead that the gate picked, one batch for each
   segment they sit in, then the others K at a time round the ring. *)
AheadBatches(used, slot) ==
    LET seg(e) == slot[e] \div TransitSlots
        in(g)  == {e \in used \cap DOMAIN slot : seg(e) = g}
        segs   == SelectSeq([i \in 1..Segments |-> i - 1], LAMBDA g : in(g) # {})
    IN  [i \in DOMAIN segs |->
            [seg |-> segs[i], ahead |-> TRUE, slot |-> [e \in in(segs[i]) |-> slot[e]]]]

SegAfter(before) == IF before = <<>> THEN 0 ELSE (before[Len(before)].seg + 1) % Segments

RingBatches(before, rest) ==
    LET order == SelectSeq([i \in 1..Cardinality(Experts) |-> i], LAMBDA e : e \in rest)
        count == (Len(order) + TransitSlots - 1) \div TransitSlots
        seg(j) == (SegAfter(before) + j - 1) % Segments
        part(j) == {i \in DOMAIN order : (i - 1) \div TransitSlots = j - 1}
    IN  [j \in 1..count |->
            [seg |-> seg(j), ahead |-> FALSE,
             slot |-> [e \in {order[i] : i \in part(j)} |->
                          seg(j) * TransitSlots
                            + (CHOOSE i \in part(j) : order[i] = e) - 1 - (j - 1) * TransitSlots]]]

(* run_moe up to its loop, for the experts the gate picked. *)
Gate ==
    /\ at.step = "gate"
    /\ \E used \in conf.routes[at.layer] :
         LET slot   == IF ahead.layer = at.layer THEN ahead.slot ELSE NoAhead.slot
             before == AheadBatches(used, slot)
         IN  batches' = before \o RingBatches(before, used \ DOMAIN slot)
    /\ dest' = [e \in Experts |-> Drop]
    /\ at' = [at EXCEPT !.step = "issue", !.batch = 1, !.expert = 0]
    /\ UNCHANGED <<conf, ahead, cache, pump, guards, reads, mem, rows, faults>>

AheadIn(seg) ==
    {r \in By(ForAhead) : r.to[1] = "transit" /\ r.to[2] \div TransitSlots = seg}

(* issue(): a segment about to be refilled waits for the read-ahead reads still
   in it, whatever they brought. *)
IssueBatch ==
    /\ at.step = "issue"
    /\ at.expert = 0
    /\ at' = [at EXCEPT !.expert = 1]
    /\ IF batches[at.batch].ahead
         THEN UNCHANGED reads
         ELSE /\ Arrived(AheadIn(batches[at.batch].seg))
              /\ reads' = reads \ AheadIn(batches[at.batch].seg)
    /\ UNCHANGED <<conf, ahead, batches, dest, cache, pump, guards, mem, rows, faults>>

(* issue(), one expert, once the sink has said where it goes: one that is neither
   in the cache nor read ahead is read; a submit can be refused. *)
Issued(d) ==
    LET e   == at.expert
        b   == batches[at.batch]
        to  == IF d.kind = "fill" THEN Slot(d.slot) ELSE Transit(b.slot[e])
        new == IF d.kind = "resident" \/ b.ahead THEN {}
               ELSE {Read(to, <<at.layer, e>>, Batch(at.batch))}
    IN  /\ dest' = [dest EXCEPT ![e] = d]
        /\ \/ /\ reads' = reads \cup new
              /\ mem' = Torning(new)
              /\ at' = [at EXCEPT !.step = "issue", !.expert = e + 1]
              /\ UNCHANGED faults
           \/ /\ new # {}
              /\ faults < ReadFaults
              /\ faults' = faults + 1
              /\ Failing
              /\ UNCHANGED <<reads, mem>>

(* `late` is a ghost: a guess evicted the expert before its slot was guarded. *)
Sink(kind, c) ==
    [kind |-> kind, slot |-> c, guard |-> guards.clock, open |-> TRUE,
     late |-> kind = "resident" /\ cache[c].key # <<at.layer, at.expert>>]

Key == <<at.layer, at.expert>>

(* sink.reserve takes a guard and admit_streamed looks the expert up. *)
IssueExpert ==
    /\ at.step = "issue"
    /\ at.expert \in Experts
    /\ IF at.expert \notin DOMAIN batches[at.batch].slot
         THEN at' = [at EXCEPT !.expert = @ + 1] /\ UNCHANGED <<dest, guards, reads, mem, faults>>
         ELSE IF ~conf.sink THEN Issued(Drop) /\ UNCHANGED guards
         ELSE /\ guards' = [guards EXCEPT !.clock = @ + 1]
              /\ at' = IF SlotOf(Key) = {} THEN [at EXCEPT !.step = "admit"]
                       ELSE [at EXCEPT !.step = "held", !.slot = CHOOSE c \in SlotOf(Key) : TRUE]
              /\ UNCHANGED <<dest, reads, mem, faults>>
    /\ UNCHANGED <<conf, ahead, batches, cache, pump, rows>>

(* It waits for one the backfill is filling, 60 s at most, and asks whether the
   expert is resident; the wait that runs out finds it still filling. *)
AdmitSettled ==
    /\ at.step = "held"
    /\ \/ /\ \A c \in SlotOf(Key) : cache[c].st = "ready"
          /\ UNCHANGED faults
       \/ /\ \E c \in SlotOf(Key) : cache[c].st = "filling"
          /\ faults < ReadFaults
          /\ faults' = faults + 1
    /\ Goto(IF Holds(Key) # {} THEN "guard" ELSE "admit")
    /\ UNCHANGED <<conf, ahead, batches, dest, cache, pump, guards, reads, mem, rows>>

(* Then it guards the slot it had found. *)
AdmitResident ==
    /\ at.step = "guard"
    /\ cache' = [cache EXCEPT ![at.slot].guard = guards.clock]
    /\ Issued(Sink("resident", at.slot))
    /\ UNCHANGED <<conf, ahead, batches, pump, guards, rows>>

(* An expert that is not held: with no slot free, the oldest one makes room, or
   the expert is the older and is dropped. *)
AdmitEvicts ==
    /\ at.step = "admit"
    /\ \/ /\ FreeSlots # {}
          /\ Goto("fill")
          /\ UNCHANGED <<cache, dest, reads, mem, faults>>
       \/ /\ FreeSlots = {}
          /\ \E c \in Evictable : cache' = [cache EXCEPT ![c] = Emptied]
          /\ Goto("fill")
          /\ UNCHANGED <<dest, reads, mem, faults>>
       \/ /\ FreeSlots = {}
          /\ Issued(Drop)
          /\ UNCHANGED cache
    /\ UNCHANGED <<conf, ahead, batches, pump, guards, rows>>

(* begin_fill, which refuses a key that is held by now, or a cache that is full
   again; the expert then goes through the transit. *)
AdmitFills ==
    /\ at.step = "fill"
    /\ IF SlotOf(Key) # {} \/ FreeSlots = {}
         THEN Issued(Drop) /\ UNCHANGED cache
         ELSE LET c == CHOOSE c \in FreeSlots : TRUE
              IN  cache' = [cache EXCEPT ![c] = Filling(Key)] /\ Issued(Sink("fill", c))
    /\ UNCHANGED <<conf, ahead, batches, pump, guards, rows>>

(* The loop: batch i is issued, then batch i - 1 runs; the last one runs alone. *)
IssueEnds ==
    /\ at.step = "issue"
    /\ at.expert \notin Experts \cup {0}
    /\ at' = IF at.batch > 1 THEN [at EXCEPT !.step = "wait", !.run = at.batch - 1]
             ELSE IF Len(batches) > 1 THEN [at EXCEPT !.batch = 2, !.expert = 0]
             ELSE [at EXCEPT !.step = "wait", !.run = 1]
    /\ UNCHANGED <<conf, moeVars>>

AheadOf(b) == {r \in By(ForAhead) : \E e \in DOMAIN batches[b].slot : r.key = <<at.layer, e>>}

(* run_batch up to the compute: the reads of the batch, and those of its experts
   that were read ahead, are waited for; one that failed releases what the batch
   reserved.  A Fill that was read ahead is copied into its cache slot. *)
RunBatch ==
    /\ at.step = "wait"
    /\ LET b    == batches[at.run]
           es   == DOMAIN b.slot
           mine == By(Batch(at.run)) \cup (IF b.ahead THEN AheadOf(at.run) ELSE {})
           copied == {e \in es : b.ahead /\ dest[e].kind = "fill"}
       IN  /\ Arrived(mine)
           /\ reads' = reads \ mine
           /\ IF Fine(mine)
                THEN /\ mem' = [p \in DOMAIN mem |->
                                  IF \E e \in copied : p = Slot(dest[e].slot)
                                    THEN mem[TransitOf(at.run,
                                              CHOOSE e \in copied : p = Slot(dest[e].slot))]
                                    ELSE mem[p]]
                     /\ Goto("compute")
                     /\ UNCHANGED <<cache, dest, guards>>
                ELSE /\ Release({e \in es : dest[e].kind # "drop"}, FALSE)
                     /\ Failing
                     /\ UNCHANGED mem
    /\ UNCHANGED <<conf, ahead, batches, pump, rows, faults>>

(* The batch's dispatches have run: its reservations are released. *)
Computed ==
    /\ at.step = "compute"
    /\ Release({e \in DOMAIN batches[at.run].slot : dest[e].kind # "drop"}, TRUE)
    /\ at' = IF at.run = Len(batches) THEN [at EXCEPT !.step = "tail"]
             ELSE IF at.batch = Len(batches) THEN [at EXCEPT !.step = "wait", !.run = at.run + 1]
             ELSE [at EXCEPT !.step = "issue", !.batch = @ + 1, !.expert = 0]
    /\ UNCHANGED <<conf, ahead, batches, pump, reads, mem, rows, faults>>

(* The next layer's depth: a segment deeper or as it is while the gate picked 90%
   of what was read ahead and the wait was short, a segment shallower otherwise. *)
Depths ==
    LET taken == {e \in DOMAIN ahead.slot : \E b \in DOMAIN batches : e \in DOMAIN batches[b].slot}
        deeper == IF at.depth < Segments THEN at.depth + 1 ELSE at.depth
        shallower == IF at.depth > 2 THEN at.depth - 1 ELSE 2
    IN  IF DOMAIN ahead.slot = {} THEN {at.depth}
        ELSE IF 10 * Cardinality(taken) >= 9 * Cardinality(DOMAIN ahead.slot)
          THEN {at.depth, deeper, shallower}
          ELSE {shallower}

(* run_moe's end: the reads ahead that no batch took land, and the depth of the
   next layer's read-ahead moves. *)
MoeTail ==
    /\ at.step = "tail"
    /\ Arrived(By(ForAhead))
    /\ reads' = reads \ By(ForAhead)
    /\ \E d \in Depths : at' = [at EXCEPT !.step = "post", !.depth = d]
    /\ ahead' = NoAhead
    /\ UNCHANGED <<conf, batches, dest, cache, pump, guards, mem, rows, faults>>

-----------------------------------------------------------------------------
(* The engram rows. *)

NextEngram(after) ==
    LET later == {L \in EngramLayers : after < L /\ L <= conf.layers}
    IN  IF later = {} THEN Never ELSE CHOOSE L \in later : \A M \in later : L <= M

(* a.drop() and engram_issue_next: the helper thread starts on the next engram
   layer. *)
Helping(after) ==
    LET L == IF conf.engramAhead THEN NextEngram(after) ELSE Never
    IN  [rows EXCEPT !.layer = Never, !.next = L, !.helper = IF L = Never THEN "none" ELSE "running"]

(* The helper thread: engram_issue submits every row the layer needs; an issue
   that fails leaves the layer unset and its reads to drop(). *)
EngramIssue ==
    /\ rows.helper = "running"
    /\ LET r == Read(Stage, <<rows.next, 0>>, ForEngram)
       IN  /\ reads' = reads \cup {r}
           /\ mem' = Torning({r})
           /\ \/ /\ rows' = [rows EXCEPT !.helper = "ok", !.layer = rows.next]
                 /\ UNCHANGED faults
              \/ /\ faults < ReadFaults
                 /\ faults' = faults + 1
                 /\ rows' = [rows EXCEPT !.helper = "failed"]
    /\ UNCHANGED <<conf, at, ahead, batches, dest, cache, pump, guards>>

(* engram_rows: join the helper, take the rows it read for this layer (or read
   them here when it read none), convert them into the activation, and send the
   helper to the next layer.  A submit of theirs can be refused too. *)
EngramIssueHere ==
    /\ at.step = "engram"
    /\ rows.helper = "none"
    /\ rows.layer # at.layer
    /\ LET r == Read(Stage, <<at.layer, 0>>, ForEngram)
       IN  /\ reads' = reads \cup {r}
           /\ mem' = Torning({r})
    /\ \/ /\ rows' = [rows EXCEPT !.layer = at.layer]
          /\ UNCHANGED <<at, faults>>
       \/ /\ faults < ReadFaults
          /\ faults' = faults + 1
          /\ Failing
          /\ UNCHANGED rows
    /\ UNCHANGED <<conf, ahead, batches, dest, cache, pump, guards>>

EngramJoinFails ==
    /\ at.step = "engram"
    /\ rows.helper = "failed"
    /\ Failing
    /\ rows' = [rows EXCEPT !.helper = "none"]
    /\ UNCHANGED <<conf, ahead, batches, dest, cache, pump, guards, reads, mem, faults>>

EngramRows ==
    /\ at.step = "engram"
    /\ rows.helper \in {"none", "ok"}
    /\ rows.layer = at.layer
    /\ Arrived(By(ForEngram))
    /\ reads' = reads \ By(ForEngram)
    /\ IF Fine(By(ForEngram))
         THEN /\ Goto("engram gate")
              /\ rows' = [Helping(at.layer) EXCEPT !.x = mem[Stage]]
         ELSE /\ Failing
              /\ UNCHANGED rows
    /\ UNCHANGED <<conf, ahead, batches, dest, cache, pump, guards, mem, faults>>

-----------------------------------------------------------------------------
(* The backfill: backfill_pump looks for a free slot, then fetches its next guess.
   The slot may be gone by then: the fetch reclaims one that may be recycled and
   tries once more. *)

Guess == conf.order[pump.next - 1]

PumpNext ==
    /\ pump.at = "look" /\ pump.next <= Len(conf.order) /\ FreeSlots # {}
    /\ pump' = [next |-> pump.next + 1,
                at |-> IF SlotOf(conf.order[pump.next]) # {} THEN "look" ELSE "fetch"]
    /\ UNCHANGED <<conf, at, ahead, batches, dest, cache, guards, reads, mem, rows, faults>>

PumpFetch ==
    /\ pump.at \in {"fetch", "again"}
    /\ \/ /\ SlotOf(Guess) # {}
          /\ pump' = [pump EXCEPT !.at = "look"]
          /\ UNCHANGED <<cache, reads, mem>>
       \/ /\ SlotOf(Guess) = {} /\ FreeSlots # {}
          /\ LET c == CHOOSE c \in FreeSlots : TRUE
                 r == Read(Slot(c), Guess, ForBackfill)
             IN  /\ cache' = [cache EXCEPT ![c] = Filling(Guess)]
                 /\ reads' = reads \cup {r}
                 /\ mem' = Torning({r})
          /\ pump' = [pump EXCEPT !.at = "look"]
       \/ /\ SlotOf(Guess) = {} /\ FreeSlots = {}
          /\ IF pump.at = "fetch" /\ Evictable # {}
               THEN /\ \E c \in Evictable : cache' = [cache EXCEPT ![c] = Emptied]
                    /\ pump' = [pump EXCEPT !.at = "again"]
               ELSE pump' = [pump EXCEPT !.at = "off"] /\ UNCHANGED cache
          /\ UNCHANGED <<reads, mem>>
    /\ UNCHANGED <<conf, at, ahead, batches, dest, guards, rows, faults>>

(* The dispatcher's callback of a guess: finish_fill. *)
PumpDone ==
    /\ \E r \in By(ForBackfill) :
         /\ r.st # "flying"
         /\ reads' = reads \ {r}
         /\ cache' = [cache EXCEPT ![r.to[2]] = IF r.st = "ok" THEN [@ EXCEPT !.st = "ready"]
                                                               ELSE Emptied]
    /\ UNCHANGED <<conf, at, ahead, batches, dest, pump, guards, mem, rows, faults>>

-----------------------------------------------------------------------------
(* The end: gpu_prefill settles the reservations still open, and ~Prefill waits
   for the read-ahead and the engram reads before it frees its memory. *)

Unwind ==
    /\ at.step \in {"unwind", "done"}
    /\ cache' = Settled(Experts, FALSE)
    /\ dest' = Closed(Experts)
    /\ guards' = [guards EXCEPT !.completed = guards.clock]
    /\ at' = [at EXCEPT !.step = "destroy"]
    /\ UNCHANGED <<conf, ahead, batches, pump, reads, mem, rows, faults>>

Destroy ==
    /\ at.step = "destroy"
    /\ rows.helper # "running"
    /\ Arrived(By(ForAhead) \cup By(ForEngram))
    /\ reads' = reads \ (By(ForAhead) \cup By(ForEngram))
    /\ at' = [at EXCEPT !.step = "over"]
    /\ UNCHANGED <<conf, ahead, batches, dest, cache, pump, guards, mem, rows, faults>>

MoeInit ==
    /\ ahead = NoAhead
    /\ batches = NoBatches
    /\ dest = [e \in Experts |-> Drop]
    /\ cache = [c \in DOMAIN conf.cached |->
                  [key |-> conf.cached[c], guard |-> 0,
                   st |-> IF conf.cached[c] = Torn THEN "free" ELSE "ready"]]
    /\ pump = [next |-> 1, at |-> "look"]
    /\ guards = [clock |-> 0, completed |-> 0]
    /\ reads = {}
    /\ mem = [p \in {Transit(s) : s \in 0..(conf.segments * TransitSlots - 1)}
                     \cup {Slot(c) : c \in DOMAIN conf.cached} \cup {Stage} |->
                IF p[1] = "cache" THEN conf.cached[p[2]] ELSE Torn]
    /\ rows = [layer |-> Never, helper |-> "none", next |-> Never, x |-> Torn]
    /\ faults = 0

Moe ==
    \/ Land \/ ReadFails \/ IssueBatch \/ IssueExpert \/ IssueEnds
    \/ AdmitSettled \/ AdmitResident \/ AdmitEvicts \/ AdmitFills
    \/ PumpNext \/ PumpFetch \/ PumpDone
    \/ RunBatch \/ Computed \/ MoeTail \/ EngramIssue \/ EngramIssueHere
    \/ EngramJoinFails \/ EngramRows \/ Unwind \/ Destroy
=============================================================================
