------------------------------- MODULE Prefill -------------------------------
(***************************************************************************)
(* Prefill::run and run_layer: the prompt's rows through every layer, on   *)
(* top of the expert streaming of PrefillMoe.                              *)
(*                                                                         *)
(* With bounded replay (R < N rows) the rows a layer's queries and FFN run *)
(* over shrink to the last R at CutLayer (20 in the code), so from there   *)
(* on a buffer's row r is the prompt's position r + N - R.  What the model *)
(* keeps is which rows every operation reads: a buffer's row holds a tag   *)
(* <<what, layer, position>>, an operation whose inputs are the rows its   *)
(* formula asks for writes the tag of its result, and one that reads any   *)
(* other row writes Bad.  Each operation is submitted and waited for, so   *)
(* an operation is a step of the host alone.                               *)
(*                                                                         *)
(* A dense weight is multiplied from an fp16 copy kept in one of W16Slots  *)
(* slots (w16_slot); the experts' decodes and a weight too large for a     *)
(* slot overwrite slot 0.                                                  *)
(***************************************************************************)
EXTENDS PrefillMoe

CONSTANTS
    CutLayer,       \* the layer whose queries run over the replayed rows only
    KvSources,      \* layers that compress the KV
    IndexSources,   \* layers that pick the compressed rows
    DraftLayers,    \* layers whose input the drafter takes
    CandLayer,      \* candidate_source_layer_id
    Ratio,          \* compress_ratio of the compressed layers
    Window,         \* sliding_window
    TopK,           \* index_topk
    QueryBlock,     \* query_block
    W16Slots        \* kW16Slots

VARIABLES
    buf,            \* the row buffers
    src,            \* the compressed KV of each source layer, cmp_src_
    picks,          \* topk_shared_: the compressed rows each row attends to
    cand,           \* cand_: the row each candidate-block list was made for
    w16,            \* the fp16 weight slots
    hand            \* the PrefillHandoff, and the drafter's hidden rows

layerVars == <<buf, src, picks, cand, w16, hand>>
vars == <<conf, at, moeVars, layerVars>>

Bad == <<"bad", 0, 0>>
Zero == <<"zero", 0, 0>>
Unset == <<"unset", 0, 0>>

Lesser(a, b) == IF a < b THEN a ELSE b
Greater(a, b) == IF a < b THEN b ELSE a

N == conf.n
R == Lesser(N, conf.replay)
Replays == R < N

(* The rows entering a layer, the rows its queries run over, and the position of
   row 0 of each. *)
Entering(L) == IF Replays /\ L > CutLayer THEN R ELSE N
Active(L) == IF Replays /\ L >= CutLayer THEN R ELSE Entering(L)
Offset(L) == Entering(L) - Active(L)
FrontPos(L) == IF Replays /\ L > CutLayer THEN N - R ELSE 0
ActivePos(L) == FrontPos(L) + Offset(L)

Compressed(L) == \E s \in KvSources : s <= L

-----------------------------------------------------------------------------
(* The fp16 copies of the dense weights. *)

NoWeight == <<0, "none">>

(* w16_slot and the decode: the slot that holds the weight, else the least
   recently used one; a weight too large for a slot is decoded into slot 1 in
   slices and leaves it empty. *)
Oldest(used) == CHOOSE i \in DOMAIN used : \A j \in DOMAIN used :
                    used[i] < used[j] \/ (used[i] = used[j] /\ i <= j)

W16Slot(c, w) ==
    LET held == {i \in 1..W16Slots : c.src[i] = w}
    IN  IF held # {} THEN CHOOSE i \in held : TRUE ELSE Oldest(c.used)

Decoded(c, w) ==
    LET i == W16Slot(c, w)
    IN  [c EXCEPT !.holds[i] = IF c.src[i] = w THEN @ ELSE w,
                  !.src[i] = w, !.used[i] = c.clock + 1, !.clock = @ + 1,
                  !.ok = @ /\ (c.src[i] = w => c.holds[i] = w)]

Sliced(c, w) == [c EXCEPT !.holds[1] = w, !.src[1] = NoWeight, !.used[1] = 0]

(* run_moe's decodes of the experts' matrices overwrite the first slot. *)
MoeDecodes(c) ==
    [c EXCEPT !.holds[1] = <<at.layer, "experts">>, !.src[1] = NoWeight, !.used[1] = 0]

Weights(names) == [i \in DOMAIN names |-> <<at.layer, names[i]>>]

(* The multiplies by these weights, in order, on the path of large inputs. *)
Gemms(c, names) == IF conf.coop THEN FoldLeft(Decoded, c, Weights(names)) ELSE c

-----------------------------------------------------------------------------
(* Rows. *)

Tag(what, L, p) == <<what, L, p>>

Op(right, tag) == IF right THEN tag ELSE Bad

Written(b, n, f(_)) == [r \in DOMAIN b |-> IF r < n THEN f(r) ELSE b[r]]

(* A layer's input: what the layer before left, after the engram if it has one. *)
BlockIn(L) == IF L \in EngramLayers THEN "h+engram" ELSE "h"

(* run: the embedding of every row, and the identity mix. *)
Embed ==
    /\ at.step = "embed"
    /\ buf' = [buf EXCEPT !.h_a = [r \in 0..(N - 1) |-> Tag("h", 1, r)],
                          !.mix_prev = [r \in 0..(N - 1) |-> Tag("mix", 1, r)]]
    /\ rows' = Helping(0)
    /\ at' = [at EXCEPT !.step = "layer", !.layer = 1]
    /\ UNCHANGED <<conf, ahead, batches, dest, cache, pump, guards, reads, mem, faults,
                   src, picks, cand, w16, hand>>

(* run_layer's start: the copy the drafter takes, of the last window of rows. *)
Layer ==
    /\ at.step = "layer"
    /\ LET L == at.layer
           rs == {r \in 0..(Entering(L) - 1) : r >= Entering(L) - Window}
       IN  hand' = IF L \notin DraftLayers THEN hand
                   ELSE [hand EXCEPT !.hidden = @ \cup
                            {<<L, FrontPos(L) + r, buf.h_a[r]>> : r \in rs}]
    /\ Goto(IF at.layer \in EngramLayers THEN "engram" ELSE "ahead")
    /\ UNCHANGED <<conf, moeVars, buf, src, picks, cand, w16>>

(* The engram's gate writes the other residual buffer, and the two are swapped. *)
EngramGate ==
    /\ at.step = "engram gate"
    /\ LET L == at.layer
           gated(r) == Op(/\ buf.h_a[r] = Tag("h", L, FrontPos(L) + r)
                          /\ rows.x = <<L, 0>>,
                          Tag("h+engram", L, FrontPos(L) + r))
       IN  buf' = [buf EXCEPT !.h_a = Written(buf.h_b, Entering(L), gated), !.h_b = buf.h_a]
    /\ w16' = IF conf.coop THEN Sliced(w16, <<at.layer, "engram.wkv">>) ELSE w16
    /\ Goto("ahead")
    /\ UNCHANGED <<conf, moeVars, src, picks, cand, hand>>

(* read_ahead, unless the layer before issued it. *)
Ahead ==
    /\ at.step = "ahead"
    /\ LET next == [at EXCEPT !.step = "attention"]
       IN  IF conf.ahead /\ ahead.layer # at.layer
             THEN ReadAhead(at.layer, next)
             ELSE at' = next /\ UNCHANGED <<ahead, reads, mem, faults>>
    /\ UNCHANGED <<conf, batches, dest, cache, pump, guards, rows, layerVars>>

(* The mHC mix of the attention half, the norm, and the window KV of the active
   rows. *)
Attention ==
    /\ at.step = "attention"
    /\ LET L == at.layer
           here(r) == buf.h_a[r] = Tag(BlockIn(L), L, FrontPos(L) + r)
           normed(r) == Op(here(r) /\ buf.mix_prev[r] = Tag("mix", L, FrontPos(L) + r),
                           Tag("x", L, FrontPos(L) + r))
           mixed(r) == Op(here(r), Tag("mix_a", L, FrontPos(L) + r))
           x == Written(buf.x, Entering(L), normed)
           key(r) == Op(x[r + Offset(L)] = Tag("x", L, ActivePos(L) + r),
                        Tag("kv", L, ActivePos(L) + r))
       IN  buf' = [buf EXCEPT !.x = x, !.mix_a = Written(buf.mix_a, Entering(L), mixed),
                              !.kv = Written(buf.kv, Active(L), key)]
    /\ w16' = Gemms(w16, <<"wkv">>)
    /\ Goto("source")
    /\ UNCHANGED <<conf, moeVars, src, picks, cand, hand>>

(* The compressor of a KV source: one row for each full group, over every row
   that entered the layer, and the rows of the last partial group. *)
Source ==
    /\ at.step = "source"
    /\ LET L == at.layer
           G == Entering(L) \div Ratio
           group(g) == Op(\A j \in 0..(Ratio - 1) :
                            buf.x[g * Ratio + j] = Tag("x", L, FrontPos(L) + g * Ratio + j),
                          Tag("cmp", L, g))
           cache_ == [g \in 0..(G - 1) |-> group(g)]
           rest == [j \in 0..((Entering(L) % Ratio) - 1) |-> buf.x[G * Ratio + j]]
       IN  IF L \in KvSources
             THEN /\ src' = [layer |-> L, n |-> G, cache |-> cache_]
                  /\ hand' = [hand EXCEPT !.cmp[L] = cache_, !.rest[L] = rest]
                  /\ w16' = Gemms(w16, <<"compressor.wkv", "compressor.wgate", "indexer.wk">>)
             ELSE UNCHANGED <<src, hand, w16>>
    /\ Goto("queries")
    /\ UNCHANGED <<conf, moeVars, buf, picks, cand>>

(* topk_rows: the window of position p in the rows of the KV plane, and the k
   best compressed rows it can see, numbered after the plane's rows.  The score
   of a compressed row is its age: the newest are the best.  A candidate list
   keeps the rows that were best for the same query at CandLayer. *)
WindowRowsAbsolute(L, p) ==
    {q : q \in Greater(ActivePos(L), p - Window + 1)..p}

WindowRows(L, p) ==
    {q - ActivePos(L) : q \in Greater(ActivePos(L), p - Window + 1)..p}

Visible(G, p) == Lesser(G, (p + 1) \div Ratio)

TopRows(L, G, p) ==
    {g + Active(L) : g \in {h \in 0..(Visible(G, p) - 1) : h >= Visible(G, p) - Lesser(TopK, G)}}

(* The query blocks.  An index source picks its rows' compressed rows and keeps
   them for the layers that reuse them; the last row's list is handed on in the
   prompt's numbering. *)
Queries ==
    /\ at.step = "queries"
    /\ LET L == at.layer
           A == Active(L)
           G == IF Compressed(L) THEN src.n ELSE 0
           rowsOf == 0..(A - 1)
           pos(r) == ActivePos(L) + r
           masked == L > CandLayer /\ DOMAIN cand = rowsOf
           chosen == IF L \in IndexSources
                       THEN [r \in rowsOf |->
                               IF masked /\ cand[r] # pos(r) THEN {-1}
                               ELSE TopRows(L, G, pos(r))]
                       ELSE picks
           top(r) == IF Compressed(L) /\ r \in DOMAIN chosen THEN chosen[r] ELSE {}
           read(v) == IF v \in 0..(A - 1) THEN buf.kv[v]
                      ELSE IF v - A \in DOMAIN src.cache THEN src.cache[v - A] ELSE Bad
           want(r) == {Tag("kv", L, q) : q \in Greater(ActivePos(L), pos(r) - Window + 1)..pos(r)}
                        \cup {Tag("cmp", src.layer, g) :
                                 g \in {h \in 0..(Visible(G, pos(r)) - 1) :
                                            h >= Visible(G, pos(r)) - Lesser(TopK, G)}}
           out(r) == Op(/\ buf.x[r + Offset(L)] = Tag("x", L, pos(r))
                        /\ {read(v) : v \in WindowRows(L, pos(r)) \cup top(r)} = want(r),
                        Tag("attn", L, pos(r)))
           block == IF L \in IndexSources THEN <<"wq_b", "indexer.wq_b", "wo_a", "wo_b">>
                                          ELSE <<"wq_b", "wo_a", "wo_b">>
           blocks == (A + QueryBlock - 1) \div QueryBlock
           slot(p) == CHOOSE r \in rowsOf : pos(r) = p
           inRing(s) == {p \in Greater(ActivePos(L), N - Window)..(N - 1) : p % Window = s}
       IN  /\ buf' = [buf EXCEPT !.attn = Written(buf.attn, A, out)]
           /\ picks' = IF L \in IndexSources THEN chosen ELSE picks
           /\ cand' = IF L = CandLayer THEN [r \in rowsOf |-> pos(r)] ELSE cand
           /\ w16' = Gemms(w16, <<"wq_a">> \o FlattenSeq([b \in 1..blocks |-> block]))
           /\ hand' = [hand EXCEPT
                !.top[L] = {v + ActivePos(L) : v \in WindowRows(L, pos(A - 1))}
                             \cup {v - A + N : v \in top(A - 1)},
                !.win[L] = [s \in 0..(Window - 1) |->
                              IF inRing(s) = {} THEN Unset
                              ELSE buf.kv[slot(CHOOSE p \in inRing(s) : TRUE)]]]
    /\ Goto("ffn")
    /\ UNCHANGED <<conf, moeVars, src>>

(* hc_post of the attention half, the mix and the norm of the FFN half, the gate,
   and the zeroed output the experts add to. *)
Ffn ==
    /\ at.step = "ffn"
    /\ LET L == at.layer
           p(r) == ActivePos(L) + r
           mix(r) == buf.mix_a[r + Offset(L)] = Tag("mix_a", L, p(r))
           post(r) == Op(/\ buf.h_a[r + Offset(L)] = Tag(BlockIn(L), L, p(r))
                         /\ buf.attn[r] = Tag("attn", L, p(r))
                         /\ mix(r), Tag("h mid", L, p(r)))
           h_b == Written(buf.h_b, Active(L), post)
           normed(r) == Op(h_b[r] = Tag("h mid", L, p(r)) /\ mix(r), Tag("fx", L, p(r)))
           mixed(r) == Op(h_b[r] = Tag("h mid", L, p(r)), Tag("mix", L + 1, p(r)))
           zero(r) == Zero
       IN  buf' = [buf EXCEPT !.h_b = h_b, !.fx = Written(buf.fx, Active(L), normed),
                              !.mix_f = Written(buf.mix_f, Active(L), mixed),
                              !.y = Written(buf.y, Active(L), zero)]
    /\ w16' = Gemms(w16, <<"gate">>)
    /\ Goto("gate")
    /\ UNCHANGED <<conf, moeVars, src, picks, cand, hand>>

(* run_moe begins. *)
MoeBegins ==
    /\ Gate
    /\ w16' = MoeDecodes(w16)
    /\ UNCHANGED <<buf, src, picks, cand, hand>>

(* After run_moe: the next layer's read-ahead goes out, unless it is the last. *)
AheadOfNext ==
    /\ at.step = "post"
    /\ LET next == [at EXCEPT !.step = "hc_post"]
       IN  IF conf.tail /\ conf.ahead /\ at.layer < conf.layers
             THEN ReadAhead(at.layer + 1, next)
             ELSE at' = next /\ UNCHANGED <<ahead, reads, mem, faults>>
    /\ UNCHANGED <<conf, batches, dest, cache, pump, guards, rows, layerVars>>

(* hc_post writes the residual, and the mixes are swapped. *)
Post ==
    /\ at.step = "hc_post"
    /\ LET L == at.layer
           p(r) == ActivePos(L) + r
           out(r) == Op(/\ buf.h_b[r] = Tag("h mid", L, p(r))
                        /\ buf.fx[r] = Tag("fx", L, p(r)) /\ buf.y[r] = Zero
                        /\ buf.mix_f[r] = Tag("mix", L + 1, p(r)),
                        Tag("h", L + 1, p(r)))
           sum(r) == Tag("y", L, p(r))
       IN  buf' = [buf EXCEPT !.h_a = Written(buf.h_a, Active(L), out),
                              !.y = Written(buf.y, Active(L), sum),
                              !.mix_prev = buf.mix_f, !.mix_f = buf.mix_prev]
    /\ at' = IF at.layer < conf.layers THEN [at EXCEPT !.step = "layer", !.layer = @ + 1]
                                       ELSE [at EXCEPT !.step = "head"]
    /\ UNCHANGED <<conf, moeVars, src, picks, cand, w16, hand>>

(* The head, on the last row. *)
HeadRow ==
    /\ at.step = "head"
    /\ LET last == (IF Replays THEN R ELSE N) - 1
       IN  hand' = [hand EXCEPT !.logits =
                       Op(/\ buf.h_a[last] = Tag("h", conf.layers + 1, N - 1)
                          /\ buf.mix_prev[last] = Tag("mix", conf.layers + 1, N - 1),
                          Tag("logits", conf.layers, N - 1))]
    /\ Goto("done")
    /\ UNCHANGED <<conf, moeVars, buf, src, picks, cand, w16>>

-----------------------------------------------------------------------------

Init ==
    /\ conf \in Configs
    /\ at = [step |-> "embed", layer |-> 0, batch |-> 0, expert |-> 0, run |-> 0, slot |-> 0,
             depth |-> 2]
    /\ MoeInit
    /\ LET plane == [r \in 0..(conf.n - 1) |-> Unset]
       IN  buf = [b \in {"h_a", "h_b", "mix_prev", "mix_a", "mix_f", "x", "kv", "attn", "fx", "y"}
                     |-> plane]
    /\ src = [layer |-> Never, n |-> 0, cache |-> <<>>]
    /\ picks = <<>>
    /\ cand = <<>>
    /\ w16 = [src |-> [i \in 1..W16Slots |-> NoWeight], used |-> [i \in 1..W16Slots |-> 0],
              holds |-> [i \in 1..W16Slots |-> NoWeight], clock |-> 0, ok |-> TRUE]
    /\ hand = LET none == [L \in 1..conf.layers |-> <<>>]
              IN  [win |-> none, cmp |-> none, rest |-> none,
                   top |-> [L \in 1..conf.layers |-> {}], hidden |-> {}, logits |-> Unset]

Streaming == Moe /\ UNCHANGED layerVars

Next ==
    \/ Streaming \/ Embed \/ Layer \/ EngramGate \/ Ahead \/ Attention \/ Source \/ Queries \/ Ffn
    \/ MoeBegins \/ AheadOfNext \/ Post \/ HeadRow

Spec == Init /\ [][Next]_vars

-----------------------------------------------------------------------------
(* Properties. *)

(* While a batch computes, every base it computes from holds that expert's bytes
   and no read in flight is headed there: neither the ring's next batch, nor the
   read-ahead, nor a reservation of the decode cache, nor the backfill reuses
   memory the GPU is reading (run_moe's rule for R >= 2 segments and the sink's
   guards).  The exception is an expert that a guess evicted between
   admit_streamed's lookup and its set_guard, which then guards another's slot.
   A cache slot that is published holds its own expert until the prefill is torn
   down, and then no slot but a guess's is left filling (gpu_prefill: "so no slot
   stays Filling"). *)
BasesHold ==
    /\ at.step = "compute" =>
         \A e \in {x \in DOMAIN batches[at.run].slot : ~dest[x].late} :
             /\ mem[Base(at.run, e)] = <<at.layer, e>>
             /\ \A r \in Flying(reads) : r.to # Base(at.run, e)
    /\ at.step \notin {"destroy", "over"} =>
         \A c \in DOMAIN cache : cache[c].st = "ready" => mem[Slot(c)] = cache[c].key
    /\ at.step \in {"destroy", "over"} =>
         \A c \in DOMAIN cache : cache[c].st = "filling" => \E r \in By(ForBackfill) : r.to = Slot(c)

(* destroy() waits "so nothing lands in a freed transit": once the prefill's
   memory is freed, no read is in flight into it. *)
NothingLandsFreed == at.step = "over" => \A r \in Flying(reads) : r.to[1] = "cache"

(* Every operation reads the rows of its own positions, multiplies by its own
   weight, and what is handed to the decoder is what a prefill without replay
   would hand over for the rows that ran: the ring's slot p % Window, every
   compressed row, the partial group, the last query's list, the drafter's
   hidden rows, and the logits of the last position. *)
RowsHanded ==
    /\ \A b \in DOMAIN buf : \A r \in DOMAIN buf[b] : buf[b][r] # Bad
    /\ w16.ok
    /\ \A h \in hand.hidden : h[3] = Tag("h", h[1], h[2])
    /\ at.step = "done" =>
         /\ hand.logits = Tag("logits", conf.layers, N - 1)
         /\ \A L \in 1..conf.layers :
              /\ \A s \in 0..(Window - 1) :
                   LET ps == {p \in Greater(0, N - Lesser(Window, Active(L)))..(N - 1) : p % Window = s}
                   IN  hand.win[L][s] = IF ps = {} THEN Unset ELSE Tag("kv", L, CHOOSE p \in ps : TRUE)
              /\ L \in KvSources =>
                   /\ hand.cmp[L] = [g \in 0..((N \div Ratio) - 1) |-> Tag("cmp", L, g)]
                   /\ \A j \in DOMAIN hand.rest[L] :
                        hand.rest[L][j] = Tag("x", L, (N \div Ratio) * Ratio + j)
              /\ \A v \in hand.top[L] : v \in (N - Window)..(N - 1) \/ v - N \in 0..((N \div Ratio) - 1)

=============================================================================
