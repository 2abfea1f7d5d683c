------------------------------ MODULE Recording ------------------------------
(***************************************************************************)
(* What one forward pass records for the GPU, and what it may run into.    *)
(*                                                                         *)
(* The decode step (M = 1), the verify batch (M > 1, routed by the host or *)
(* on the GPU) and the DSpark drafter are each a PROGRAM: the sequence of  *)
(* the host's writes, the dispatches it records, the barriers between      *)
(* them, the submits and the waits, in the order the code performs them.   *)
(* A dispatch is known by the buffers it reads and writes, taken from the  *)
(* slots `bind` fills and the shader that reads them.                      *)
(*                                                                         *)
(* Three things make a program hard to get right, and no unit test of one  *)
(* kernel reaches them:                                                    *)
(*   - between two barriers dispatches run in any order;                   *)
(*   - a submit is not a barrier: the next buffer's first dispatches run   *)
(*     beside the last wave of the previous one;                           *)
(*   - a stage owns ONE slice of the address table, read when the dispatch *)
(*     runs and not when it is recorded, so rebinding the stage for the    *)
(*     next layer re-aims every pending dispatch of it.                    *)
(*                                                                         *)
(* A resource is a pair <<name, l>>: l is a layer (or a list, or a page)   *)
(* for the caches that exist once per layer, and 0 for shared scratch.     *)
(* The slice of stage S is the resource <<S, 0>>.                          *)
(***************************************************************************)
EXTENDS Integers, Sequences, FiniteSets, SequencesExt

CONSTANT Configs        \* the passes to record: see MCRecording

VARIABLES conf,         \* the pass
          pc,           \* the host's next item of the program
          ran,          \* the dispatches that have run
          mem           \* resource -> the item that wrote it last (0: nothing)

vars == <<conf, pc, ran, mem>>

-----------------------------------------------------------------------------
(* Items.  `at` is the layer a dispatch computes, or a host write binds.   *)

Item(kind, at, stage, rd, wr) ==
    [kind |-> kind, at |-> at, stage |-> stage, reads |-> rd, writes |-> wr]

Scratch(names) == names \X {0}

(* A dispatch of an attention, batch, engram or drafter stage: it reads    *)
(* its own slice of the address table besides its operands.                *)
D(l, stage, rd, wr) ==
    Item("dispatch", l, stage, Scratch(rd \cup {stage}), Scratch(wr))

(* The same with operands that exist once per layer.                       *)
With(d, rd, wr) == [d EXCEPT !.reads = @ \cup rd, !.writes = @ \cup wr]

(* A dispatch of the MoE runner: its descriptor sets are fixed at create.  *)
K(l, stage, rd, wr) == Item("dispatch", l, stage, rd, wr)

Barrier == Item("barrier", 0, "", {}, {})

Submit == Item("submit", 0, "", {}, {})

(* Wait for every submit but the last `back` ones.                         *)
Wait(back) == Item("wait", back, "", {}, {})

Host(l, rd, wr) == Item("host", l, "", rd, wr)

Opt(cond, s) == IF cond THEN s ELSE <<>>

(* Dispatches that may overlap, closed by one barrier.                     *)
Wave(s) == s \o <<Barrier>>

(* A barrier after every dispatch: the `step` lambdas.                     *)
Serial(s) == FlattenSeq([i \in DOMAIN s |-> <<s[i], Barrier>>])

(* cmd_flush: submit and wait for everything.                              *)
Flush == <<Submit, Wait(0)>>

-----------------------------------------------------------------------------
(* The decode step, M = 1.                                                 *)

(* The layer writes the compressed row and the index key it completes.     *)
Publish(g) == g.kv /\ g.full

MhcStages == {"MhcPost", "MhcMix", "MhcFinal", "MhcSinkhorn"}

MhcStagesB == {"MhcPostB", "MhcMixB", "MhcFinalB", "MhcSinkhornB"}

AttnStages == {"AttnScore", "AttnCombine", "AttnScoreT", "AttnPvT", "AttnCmGather",
               "AttnCmScore", "AttnCmSoftmax", "AttnCmPv", "AttnCmFinish"}

OutStages == {"WoA", "WoB", "WoAKSplit", "WoAKCombine", "WoBKSplit", "WoBKCombine"}

(* `bind_ced`: the compressor's and the indexer's slices, for the layers   *)
(* that run them, and the latents' RoPE table.                             *)
BindCed(g) ==
    (IF g.kv \/ g.idx THEN {"rope_lat"} ELSE {})
    \cup (IF g.kv THEN {"CmpKvGemv", "CmpGateGemv", "CmpNorm", "CmpStore"} ELSE {})
    \cup (IF g.idx THEN {"IdxQGemv", "IdxQFinish", "IdxKey", "IdxWeights", "IdxScore",
                         "IdxTopK", "IdxBlockKeys", "IdxBlockSelect", "IdxApplyCand"} ELSE {})

(* `bind`: every slice of the layer.  MhcClose is skipped on an engram     *)
(* layer, whose open buffer already holds the previous layer's close.      *)
Bind(c, l) ==
    LET g == c.layers[l]
    IN  Host(l, {}, Scratch(
            {"rope", "WqA", "WqB", "WkvGemv", "WkvFinish", "GateScore", "GateTopK"}
            \cup MhcStages \cup MhcStagesB \cup AttnStages \cup OutStages \cup BindCed(g)
            \cup (IF g.engram THEN {} ELSE {"MhcClose"})))

(* `record_ced`, waves 0 to 2: the dispatches that join the attention's    *)
(* own waves.                                                              *)
RecordCed(c, l, wave) ==
    LET g == c.layers[l]
    IN  CASE wave = 0 ->
               Opt(g.kv, <<D(l, "CmpKvGemv", {"u"}, {"cmp_y"})>>)
               \o Opt(g.kv /\ g.ratio > 1, <<D(l, "CmpGateGemv", {"u"}, {"cmp_g"})>>)
               \o Opt(g.idx, <<D(l, "IdxWeights", {"u"}, {"idx_w"})>>)
          [] wave = 1 ->
               Opt(g.kv, <<With(D(l, "CmpNorm",
                                  {"cmp_y"} \cup (IF g.ratio > 1 THEN {"cmp_g"} ELSE {}),
                                  IF g.full THEN {"latent"} ELSE {}),
                                IF g.ratio > 1 /\ g.full THEN {<<"cmp_state", l>>} ELSE {},
                                IF g.ratio > 1 THEN {<<"cmp_state", l>>} ELSE {})>>)
               \o Opt(g.idx, <<D(l, "IdxQGemv", {"qr"}, {"idx_q_raw"})>>)
          [] wave = 2 ->
               Opt(Publish(g), <<With(D(l, "CmpStore", {"latent", "rope_lat"}, {}),
                                      {}, {<<"cmp_kv", l>>})>>)
               \o Opt(g.idx, <<D(l, "IdxQFinish", {"idx_q_raw", "rope"}, {"idx_q"})>>)
               \o Opt(g.idx /\ Publish(g), <<With(D(l, "IdxKey", {"latent", "rope_lat"}, {}),
                                                  {}, {<<"idx_key", l>>})>>)

(* `record_ced`, wave 3: the scoring chain, serial, ending in the layer's  *)
(* own top-k list, whose compressed half the host poisons while recording. *)
RecordScores(c, l) ==
    LET g == c.layers[l]
    IN  Opt(g.idx /\ g.scored,
            Serial(<<With(D(l, "IdxScore", {"idx_q", "idx_w"}, {"idx_score"}),
                          {<<"idx_key", g.cmp>>}, {})>>
                   \o Opt(g.cand = "source",
                          <<D(l, "IdxBlockKeys", {"idx_score"}, {"idx_blk_key"}),
                            D(l, "IdxBlockSelect", {"idx_blk_key"}, {"idx_cand"})>>)
                   \o Opt(g.cand = "consumer",
                          <<D(l, "IdxApplyCand", {"idx_cand", "idx_score"}, {"idx_score"})>>))
            \o <<Host(l, {}, {<<"top_idx", l>>})>>
            \o Serial(<<With(D(l, "IdxTopK", {"idx_score"}, {}), {}, {<<"top_idx", l>>})>>))

(* The caches sparse attention reads: this layer's window, and the         *)
(* compressed rows and the list of the sources this layer is pointed at.   *)
Attended(c, l) ==
    LET g == c.layers[l]
    IN  {<<"win", l>>, <<"top_win", g.list>>}
        \cup (IF g.ratio > 0 /\ g.scored THEN {<<"cmp_kv", g.cmp>>, <<"top_idx", g.list>>}
              ELSE {})

(* The three sparse-attention kernels, `attn_tiled_`, `attn_cm_`, plain.   *)
SparseAttention(c, l) ==
    LET over == Attended(c, l)
    IN  CASE c.attn = "tiled" ->
               <<With(D(l, "AttnScoreT", {"q"}, {"score", "tile_max"}), over, {}),
                 With(D(l, "AttnPvT", {"score", "tile_max", "rope"}, {"o"}), over, {})>>
          [] c.attn = "cm" ->
               <<With(D(l, "AttnCmGather", {"q"}, {"cm_g", "cm_q"}), over, {}),
                 D(l, "AttnCmScore", {"cm_g", "cm_q"}, {"score"}),
                 D(l, "AttnCmSoftmax", {"score"}, {"cm_p", "cm_inv"}),
                 D(l, "AttnCmPv", {"cm_p", "cm_g"}, {"cm_part"}),
                 D(l, "AttnCmFinish", {"cm_part", "cm_inv", "rope"}, {"o"})>>
          [] c.attn = "plain" ->
               <<With(D(l, "AttnScore", {"q"}, {"score"}), over, {}),
                 With(D(l, "AttnCombine", {"score", "rope"}, {"o"}), over, {})>>

OutProjection(c, l) ==
    IF c.ksplit
    THEN <<D(l, "WoAKSplit", {"o"}, {"kpart"}), D(l, "WoAKCombine", {"kpart"}, {"woa"}),
           D(l, "WoBKSplit", {"woa"}, {"kpart"}), D(l, "WoBKCombine", {"kpart"}, {"wob"})>>
    ELSE <<D(l, "WoA", {"o"}, {"woa"}), D(l, "WoB", {"woa"}, {"wob"})>>

(* hc_post folds the previous layer's MoE output in when it is pending.    *)
MhcPost(l, stage, y, post) ==
    D(l, stage, {"x", "mix_a"} \cup (IF post THEN {y} ELSE {}), {"xout", "utmp", "partials"})

(* `record_attention`.  `post`: the previous layer's hc_post is pending.   *)
RecordAttention(c, l, post) ==
    Serial(<<MhcPost(l, "MhcPost", "moe_y", post),
             D(l, "MhcFinal", {"utmp", "partials"}, {"u"})>>)
    \o Wave(RecordCed(c, l, 0)
            \o <<D(l, "MhcMix", {"xout", "partials"}, {"mix_raw"}),
                 D(l, "WkvGemv", {"u"}, {"kv_raw", "kv_partials"}),
                 D(l, "WqA", {"u"}, {"qr"})>>)
    \o Wave(RecordCed(c, l, 1)
            \o <<D(l, "MhcSinkhorn", {"mix_raw"}, {"mix_b"}),
                 With(D(l, "WkvFinish", {"kv_raw", "kv_partials", "rope"}, {}),
                      {}, {<<"win", l>>}),
                 D(l, "WqB", {"qr", "rope"}, {"q"})>>)
    \o Wave(RecordCed(c, l, 2))
    \o RecordScores(c, l)
    \o Serial(SparseAttention(c, l) \o OutProjection(c, l))
    \o Serial(<<D(l, "MhcPostB", {"xout", "wob", "mix_b"}, {"x", "utmp", "partials"}),
                D(l, "MhcFinalB", {"utmp", "partials"}, {"ffn_in"})>>)
    \o Wave(<<D(l, "GateScore", {"ffn_in"}, {"gate_scores"}),
              D(l, "MhcMixB", {"x", "partials"}, {"mix_raw"})>>)
    \o Wave(<<D(l, "GateTopK", {"gate_scores"}, {"gate_ids"}),
              D(l, "MhcSinkhornB", {"mix_raw"}, {"mix_a"})>>)

(* `record_close`: the previous layer's hc_post on its own.                *)
RecordClose(l) == Serial(<<MhcPost(l, "MhcClose", "moe_y", TRUE)>>)

(* The pass is one submit, routed on the GPU: each dispatch is bound to a   *)
(* copy of its slice made when it is recorded (`begin_immutable`).          *)
Routed(c) == c.path = "route"

(* `EngramRunner::record`: the rows land, the two stages are bound and     *)
(* recorded.  `row` is the batch row whose slices and planes it uses.      *)
EngramRecord(c, l, row, xin, xout) ==
    LET rows == <<"rows", 10 * l + row>>
        slice(s) == IF Routed(c) THEN {} ELSE {<<s, row>>}
    IN  <<Host(l, {}, {rows, <<"EngramGemv", row>>, <<"EngramGate", row>>})>>
        \o Serial(<<K(l, "EngramGemv", {rows} \cup slice("EngramGemv"), {<<"eng_kv", 0>>}),
                    K(l, "EngramGate", {<<"eng_kv", 0>>, xin} \cup slice("EngramGate"), {xout})>>)

(* `layer_begin`: the engram layer's detour, the bind, the attention and   *)
(* the submit whose fence the gate waits for.                              *)
LayerBegin(c, l) ==
    LET g == c.layers[l]
        post == l > 1
    IN  Opt(g.engram,
            Opt(post, RecordClose(l - 1))
            \o EngramRecord(c, l, 0, <<IF post THEN "xout" ELSE "x", 0>>, <<"x", 0>>))
        \o <<Bind(c, l)>>
        \o RecordAttention(c, l, post /\ ~g.engram)
        \o <<Submit>>

(* The mutation "one page": the parity is dropped.                         *)
PageOne(c, l) == 0

(* The table page of a layer: two, alternating, with the shared-early      *)
(* submit, whose rows go in while the previous layer's MoE is pending.     *)
Page(c, l) == IF c.early THEN l % 2 ELSE 0

(* `record_shared_early`: a buffer of its own behind the gate submit.  The *)
(* shared slot's id and weight are constants rewritten with their own      *)
(* values and are left out.                                                *)
SharedEarly(c, l) ==
    <<Host(l, {}, {<<"shared_row", Page(c, l)>>}), Barrier>>
    \o Serial(<<K(l, "XAct", {<<"ffn_in", 0>>}, {<<"x16", 0>>}),
                K(l, "GateUp", {<<"x16", 0>>, <<"shared_row", Page(c, l)>>}, {<<"h_sh", 0>>}),
                K(l, "HQuant", {<<"h_sh", 0>>}, {<<"h_sh", 0>>})>>)
    \o <<Submit>>

(* `stage_input`: ids, list and weights, and, unless the GPU prepared them *)
(* early, the activation and the shared expert's row.                      *)
StageInput(c, l) ==
    IF c.early
    THEN Host(l, {}, Scratch({"ids", "list", "routew"}))
    ELSE Host(l, Scratch({"ffn_in"}), Scratch({"ids", "list", "routew", "x16"})
                                      \cup {<<"shared_row", Page(c, l)>>})

(* `stage_rows` for the slots of one part: "early", "late", or all of them *)
(* as "late".                                                              *)
Rows(c, l, part) == <<part, Page(c, l)>>

StageRows(c, l, part) == Host(l, {}, {Rows(c, l, part)})

(* Dispatch A and its quantiser over the slots of `list`.                  *)
GateUp(c, l, list, part, hs) ==
    Serial(<<K(l, "GateUp", Scratch({"x16", "ids", "routew", list}) \cup {Rows(c, l, part)}
                            \cup (IF "h_sh" \in hs THEN {<<"shared_row", Page(c, l)>>} ELSE {}),
                  Scratch(hs)),
             K(l, "HQuant", Scratch(hs \cup {list}), Scratch(hs))>>)

(* `record_gateup`: the host writes the alternate list, then records.      *)
RecordGateup(c, l, part, hs) ==
    <<Host(l, {}, {<<"list_alt", 0>>})>> \o GateUp(c, l, "list_alt", part, hs)

(* `record_down`: dispatch B over every live slot.                         *)
RecordDown(c, l, parts) ==
    Serial(<<K(l, "Down", Scratch({"ids", "list", "routew", "h_sh"} \cup {IF p = "early" THEN "h_early" ELSE "h_late" : p \in parts})
                          \cup {Rows(c, l, p) : p \in parts}
                          \cup {<<"shared_row", Page(c, l)>>},
                  {<<"moe_y", 0>>})>>)

(* `layer_gate`: the gate's fence, then the host reads the routing, the    *)
(* list it verifies and the stream it captures for the drafter.            *)
LayerGate(c, l) ==
    LET g == c.layers[l]
    IN  <<Wait(IF c.early THEN 1 ELSE 0),
          Host(l, Scratch({"gate_ids", "xout"})
                  \cup (IF g.idx /\ g.scored THEN {<<"top_idx", l>>} ELSE {}), {})>>

(* `layer_split` and `layer_moe`.  g.split: "none" when every routed       *)
(* expert was resident; "early" when the resident ones are submitted while *)
(* the others are read; "late" when none was resident.                     *)
LayerMoe(c, l) ==
    LET g == c.layers[l]
        shared == IF c.early THEN {} ELSE {"h_sh"}
    IN  <<StageInput(c, l)>>
        \o CASE g.split = "early" ->
                 <<StageRows(c, l, "early")>>
                 \o RecordGateup(c, l, "early", {"h_early"} \cup shared)
                 \o <<Submit, Wait(0), StageRows(c, l, "late")>>
                 \o RecordGateup(c, l, "late", {"h_late"})
                 \o RecordDown(c, l, {"early", "late"})
             [] g.split = "late" /\ c.early ->
                 <<Wait(0), StageRows(c, l, "late")>>
                 \o RecordGateup(c, l, "late", {"h_late"})
                 \o RecordDown(c, l, {"late"})
             [] g.split = "none" /\ c.early ->
                 <<StageRows(c, l, "late")>>
                 \o RecordGateup(c, l, "late", {"h_late"})
                 \o RecordDown(c, l, {"late"})
             [] OTHER ->
                 <<StageRows(c, l, "late")>>
                 \o GateUp(c, l, "list", "late", {"h_late", "h_sh"})
                 \o RecordDown(c, l, {"late"})

(* `collapse_and_sample`: MhcClose is repointed to the model's norm and    *)
(* copied over MhcFinal, so it must still be bound for the last layer.     *)
CollapseAndSample(c) ==
    LET n == Len(c.layers)
    IN  <<Host(n, {<<"MhcClose", 0>>}, Scratch({"MhcClose", "MhcFinal", "Head", "Argmax", "TopK"}))>>
        \o Serial(<<MhcPost(n, "MhcClose", "moe_y", TRUE),
                    D(n, "MhcFinal", {"utmp", "partials"}, {"u"}),
                    D(n, "Head", {"u"}, {"logits"}),
                    D(n, "Argmax", {"logits"}, {"sample"})>>
                  \o Opt(~c.greedy, <<D(n, "TopK", {"logits"}, {"topk_out"})>>))
        \o Flush
        \o <<Host(n, Scratch({"sample"} \cup (IF c.greedy THEN {} ELSE {"topk_out"})), {})>>

(* The lists the host owns: one per index source and window-only layer.    *)
Lists(c) == {c.layers[l].list : l \in DOMAIN c.layers}

(* `decode_step`: the embedding, the window halves of the lists, the       *)
(* layers, the tail.                                                       *)
StepProgram(c) ==
    <<Host(0, {}, Scratch({"x", "mix_a"}) \cup ({"top_win"} \X Lists(c)))>>
    \o FlattenSeq([l \in DOMAIN c.layers |->
           LayerBegin(c, l) \o Opt(c.early, SharedEarly(c, l))
           \o LayerGate(c, l) \o LayerMoe(c, l)])
    \o CollapseAndSample(c)

-----------------------------------------------------------------------------
(* The verify batch, M > 1.  path "batch": the host routes each layer, over *)
(* a fence.  path "route": the GPU routes over the residency snapshot.      *)

(* The engram rows are all fetched before layer 0.                         *)
RowsAhead(c) == Routed(c) \/ c.engram_early

(* The mutation "no pages": a recorded dispatch keeps reading the slice.   *)
(* A batch dispatch: with immutable pages the slice is read here and now.  *)
B(c, l, stage, rd, wr) ==
    IF Routed(c) THEN K(l, stage, Scratch(rd), Scratch(wr)) ELSE D(l, stage, rd, wr)

(* `bind_batch` and the repointing of hc_post's input to the union's y.    *)
(* With GPU routing the RoPE tables are the layer's own.                   *)
BatchRope(c, l) == IF Routed(c) THEN <<"rope", l>> ELSE <<"rope", 0>>

BatchRopeLat(c, l) == IF Routed(c) THEN <<"rope_lat", l>> ELSE <<"rope_lat", 0>>

BatchStages ==
    {"MhcPost", "MhcMix", "MhcFinal", "MhcPostB", "MhcMixB", "MhcFinalB", "WqASplit",
     "WqACombine", "QNorm", "WqBSplit", "WqBFinish", "WkvSplit", "WkvFinish", "AttnScore",
     "AttnPv", "AttnCmGather", "AttnCmScore", "AttnCmSoftmax", "AttnCmPv", "AttnCmFinish",
     "WoASplit", "WoACombine", "WoBSplit", "WoBCombine", "GateScore", "GateTopK"}

BatchCmpStages == {"CmpKvGemv", "CmpGateGemv", "CmpPool", "CmpState", "CmpStore"}

BatchIdxStages == {"IdxQSplit", "IdxQCombine", "IdxQFinish", "IdxKey", "IdxWeights", "IdxScore",
                   "IdxTopK", "IdxBlockKeys", "IdxBlockSelect", "IdxApplyCand"}

BindBatch(c, l) ==
    LET g == c.layers[l]
    IN  Host(l, {},
             Scratch(BatchStages
                     \cup (IF g.kv THEN BatchCmpStages ELSE {})
                     \cup (IF g.idx THEN BatchIdxStages ELSE {})
                     \cup (IF g.engram THEN {} ELSE {"MhcClose"}))
             \cup {BatchRope(c, l)}
             \cup (IF g.kv \/ g.idx THEN {BatchRopeLat(c, l)} ELSE {}))

(* A GEMV split over K: partial sums in the one `part` plane, then a       *)
(* second stage that folds them.                                           *)
Split(c, l, split, fold, in, out) ==
    <<B(c, l, split, {in}, {"part"}), B(c, l, fold, {"part"}, {out})>>

(* `bind_mhc_batch`'s three stages; the last runs the Sinkhorn as well.    *)
MhcBatch(c, l, post, mix, fin, rd, xo, mixo) ==
    <<B(c, l, post, rd, {xo, "utmp", "partials"}),
      B(c, l, mix, {xo, "partials"}, {"mix_raw"}),
      B(c, l, fin, {"utmp", "partials", "mix_raw"}, {"u", mixo})>>

(* `record_ced_batch`: the compressor, the keys and queries, the scores.   *)
(* g.full: the batch completes a compressed row; g.scored: there is one to *)
(* score.                                                                  *)
RecordCedBatch(c, l) ==
    LET g == c.layers[l]
        raw == {"cmp_y"} \cup (IF g.ratio > 1 THEN {"cmp_g"} ELSE {})
        state == IF g.ratio > 1 THEN {<<"cmp_state", l>>} ELSE {}
    IN  Serial(
            Opt(g.kv, <<B(c, l, "CmpKvGemv", {"u"}, {"cmp_y"})>>)
            \o Opt(g.kv /\ g.ratio > 1, <<B(c, l, "CmpGateGemv", {"u"}, {"cmp_g"})>>)
            \o Opt(Publish(g), <<With(B(c, l, "CmpPool", raw, {"latent"}), state, {})>>)
            \o Opt(g.kv /\ g.ratio > 1, <<With(B(c, l, "CmpState", raw, {}), {}, state)>>)
            \o Opt(g.idx,
                   Opt(Publish(g), <<With(B(c, l, "IdxKey", {"latent"}, {}),
                                          {BatchRopeLat(c, l)}, {<<"idx_key", l>>})>>)
                   \o Split(c, l, "IdxQSplit", "IdxQCombine", "qr", "idx_q_raw")
                   \o <<With(B(c, l, "IdxQFinish", {"idx_q_raw"}, {"idx_q"}),
                             {BatchRope(c, l)}, {}),
                        B(c, l, "IdxWeights", {"u"}, {"idx_w"})>>)
            \o Opt(g.idx /\ g.scored,
                   <<With(B(c, l, "IdxScore", {"idx_q", "idx_w"}, {"idx_score"}),
                          {<<"idx_key", g.cmp>>}, {})>>
                   \o Opt(g.cand = "source",
                          <<B(c, l, "IdxBlockKeys", {"idx_score"}, {"idx_blk_key"}),
                            B(c, l, "IdxBlockSelect", {"idx_blk_key"}, {"idx_cand"})>>)
                   \o Opt(g.cand = "consumer",
                          <<B(c, l, "IdxApplyCand", {"idx_cand", "idx_score"}, {"idx_score"})>>)))
        \o Opt(g.idx /\ g.scored,
               <<Host(l, {}, {<<"top_idx", g.list>>})>>
               \o Serial(<<With(B(c, l, "IdxTopK", {"idx_score"}, {}),
                                {}, {<<"top_idx", g.list>>})>>))
        \o Opt(Publish(g), Serial(<<With(B(c, l, "CmpStore", {"latent"}, {}),
                                         {BatchRopeLat(c, l)}, {<<"cmp_kv", l>>})>>))

(* Sparse attention over the window, the overflow rows and the selection.  *)
SparseBatch(c, l) ==
    LET over == Attended(c, l)
        rope == {BatchRope(c, l)}
    IN  IF c.attn = "cm"
        THEN <<With(B(c, l, "AttnCmGather", {"q", "ovf"}, {"cm_g", "cm_q"}), over, {}),
               B(c, l, "AttnCmScore", {"cm_g", "cm_q"}, {"score"}),
               B(c, l, "AttnCmSoftmax", {"score"}, {"cm_p", "cm_inv"}),
               B(c, l, "AttnCmPv", {"cm_p", "cm_g"}, {"cm_part"}),
               With(B(c, l, "AttnCmFinish", {"cm_part", "cm_inv"}, {"o"}), rope, {})>>
        ELSE <<With(B(c, l, "AttnScore", {"q", "ovf"}, {"score", "tile_max"}), over, {}),
               With(B(c, l, "AttnPv", {"score", "tile_max", "ovf"}, {"o"}), over \cup rope, {})>>

(* `record_attention_batch`: a barrier after every stage.                  *)
RecordAttentionBatch(c, l, post) ==
    Serial(MhcBatch(c, l, "MhcPost", "MhcMix", "MhcFinal",
                    {"x", "mix_a"} \cup (IF post THEN {"union_y"} ELSE {}), "xout", "mix_b")
           \o Split(c, l, "WqASplit", "WqACombine", "u", "qr_raw")
           \o <<B(c, l, "QNorm", {"qr_raw"}, {"qr"}),
                B(c, l, "WqBSplit", {"qr"}, {"part"}),
                With(B(c, l, "WqBFinish", {"part"}, {"q"}), {BatchRope(c, l)}, {}),
                B(c, l, "WkvSplit", {"u"}, {"part"}),
                With(B(c, l, "WkvFinish", {"part"}, {"ovf"}), {BatchRope(c, l)}, {<<"win", l>>})>>)
    \o RecordCedBatch(c, l)
    \o Serial(SparseBatch(c, l)
              \o Split(c, l, "WoASplit", "WoACombine", "o", "woa")
              \o Split(c, l, "WoBSplit", "WoBCombine", "woa", "wob")
              \o MhcBatch(c, l, "MhcPostB", "MhcMixB", "MhcFinalB",
                          {"xout", "wob", "mix_b"}, "x", "mix_a")
              \o <<B(c, l, "GateScore", {"u"}, {"gate_scores"}),
                   B(c, l, "GateTopK", {"gate_scores"}, {"gate_ids"})>>)

(* `record_close_batch`.                                                   *)
RecordCloseBatch(c, l) ==
    Serial(<<B(c, l, "MhcClose", {"x", "mix_a", "union_y"}, {"xout", "utmp", "partials"})>>)

(* The engram layer of a batch: the previous layer's close, then a row at  *)
(* a time.  Rows fetched one by one share the planes and slices of row 0,  *)
(* so each is flushed before the next is bound.                            *)
EngramBatch(c, l, post) ==
    Opt(post, RecordCloseBatch(c, l - 1))
    \o FlattenSeq([m \in 1..c.m |->
           EngramRecord(c, l, IF RowsAhead(c) THEN m - 1 ELSE 0,
                        <<IF post THEN "xout" ELSE "x", 0>>, <<"x", 0>>)
           \o Opt(~RowsAhead(c), Flush)])

(* The host's half of a layer: what it reads after the fence, and the      *)
(* union it stages and records (`stage_batch_union`, `record_batch_union`).*)
MoeBatch(c, l) ==
    LET g == c.layers[l]
    IN  Flush
        \o <<Host(l, Scratch({"gate_ids", "u"})
                     \cup Scratch(IF g.capture THEN {"xout"} ELSE {})
                     \cup Scratch(IF g.kv /\ g.ratio > 1 THEN {"cmp_y", "cmp_g"} ELSE {})
                     \cup (IF g.idx /\ g.scored THEN {<<"top_idx", g.list>>} ELSE {}),
                  Scratch({"x16", "ids", "list", "routew", "rows_u"}))>>
        \o Serial(<<K(l, "GateUp", Scratch({"x16", "ids", "list", "routew", "rows_u"}),
                      Scratch({"h"})),
                    K(l, "HQuant", Scratch({"h", "list"}), Scratch({"h"})),
                    K(l, "Down", Scratch({"h", "ids", "list", "routew", "rows_u"}),
                      Scratch({"union_y"}))>>)

(* The GPU's half (`record_gpu_copy`, `record_gpu_route`): the captures    *)
(* the host reads at the end, the route, and the union over its counts.    *)
RouteBatch(c, l) ==
    LET g == c.layers[l]
    IN  <<Host(l, {}, {<<"args", l>>})>>
        \o Serial(
            Opt(g.capture, <<K(l, "Mean", Scratch({"xout"}), {<<"hidden", l>>})>>)
            \o Opt(g.kv /\ g.ratio > 1,
                   <<K(l, "Copy", Scratch({"cmp_y"}), {<<"carry_k", l>>}),
                     K(l, "Copy", Scratch({"cmp_g"}), {<<"carry_g", l>>})>>)
            \o <<K(l, "Route", {<<"gate_ids", 0>>, <<"snapshot", l>>, <<"args", l>>},
                   Scratch({"ids", "list", "routew"}) \cup {<<"routes", l>>, <<"indirect", l>>}),
                 K(l, "XAct", Scratch({"u"}), Scratch({"x16"})),
                 K(l, "GateUp", Scratch({"x16", "ids", "list", "routew"})
                                \cup {<<"snapshot", l>>, <<"indirect", l>>}, Scratch({"h"})),
                 K(l, "HQuant", Scratch({"h", "list"}) \cup {<<"indirect", l>>}, Scratch({"h"})),
                 K(l, "Down", Scratch({"h", "ids", "list", "routew"}) \cup {<<"snapshot", l>>},
                   Scratch({"union_y"}))>>)

(* `run_layer_batch`.                                                      *)
LayerBatch(c, l) ==
    LET g == c.layers[l]
        post == l > 1
    IN  Opt(g.engram, EngramBatch(c, l, post))
        \o <<BindBatch(c, l)>>
        \o RecordAttentionBatch(c, l, post /\ ~g.engram)
        \o (IF Routed(c) THEN RouteBatch(c, l) ELSE MoeBatch(c, l))

(* `record_tail_batch`.  The head accumulates over its slices.             *)
TailBatch(c) ==
    LET n == Len(c.layers)
        head(s) == B(c, n, "Head", {"u"} \cup (IF s = 1 THEN {} ELSE {"logits"}), {"logits"})
    IN  <<Host(n, {<<"MhcClose", 0>>},
               Scratch({"MhcClose", "MhcFinal", "Head", "HeadArgmax", "HeadTopK", "HeadRank",
                        "draft_ids"}))>>
        \o Serial(<<B(c, n, "MhcClose", {"x", "mix_a", "union_y"}, {"xout", "utmp", "partials"}),
                    B(c, n, "MhcFinal", {"utmp", "partials"}, {"u"})>>
                  \o [s \in 1..2 |-> head(s)]
                  \o <<B(c, n, "HeadArgmax", {"logits"}, {"sample"}),
                       B(c, n, "HeadRank", {"logits", "draft_ids"}, {"rank"})>>
                  \o Opt(~c.greedy, <<B(c, n, "HeadTopK", {"logits"}, {"topk_out"})>>))
        \o Flush

(* What `forward_batch` and `GpuRouteState::finish` read after the fence.  *)
FinishBatch(c) ==
    LET layers == DOMAIN c.layers
        of(name, P(_)) == {<<name, l>> : l \in {k \in layers : P(c.layers[k])}}
        carried(g) == g.kv /\ g.ratio > 1
    IN  <<Host(Len(c.layers),
               Scratch({"sample", "rank"} \cup (IF c.greedy THEN {} ELSE {"topk_out"}))
               \cup (IF Routed(c)
                     THEN of("routes", LAMBDA g : TRUE)
                          \cup of("hidden", LAMBDA g : g.capture)
                          \cup of("carry_k", carried) \cup of("carry_g", carried)
                          \cup {<<"top_idx", c.layers[l].list>> :
                                   l \in {k \in layers : c.layers[k].idx /\ c.layers[k].scored}}
                     ELSE {}),
               {})>>

(* `forward_batch`.                                                        *)
BatchProgram(c) ==
    <<Host(0, {}, Scratch({"x", "mix_a"}) \cup ({"top_win"} \X Lists(c))
                  \cup (IF Routed(c) THEN {"snapshot"} \X DOMAIN c.layers ELSE {}))>>
    \o FlattenSeq([l \in DOMAIN c.layers |-> LayerBatch(c, l)])
    \o TailBatch(c)
    \o FinishBatch(c)

-----------------------------------------------------------------------------
(* The DSpark drafter: three stages over the committed window.  c.record:  *)
(* the operations are collected with copies of their slices and run in one *)
(* submit; otherwise each is dispatched and waited for.                    *)

Stages == 1..3

(* `DsparkOneCbRunner::run`: the collected operations, each with its copy  *)
(* of the pointers, a barrier between two.                                 *)
Collected(s) == Serial([i \in DOMAIN s |-> [s[i] EXCEPT !.reads = @ \ {<<s[i].stage, 0>>}]])

(* `run_ds`, `run_mgt`: bind the slice, then collect, or dispatch and wait.*)
Run(c, s) ==
    IF c.record THEN Collected(s)
    ELSE FlattenSeq([i \in DOMAIN s |->
             <<Host(s[i].at, {}, {<<s[i].stage, 0>>}), s[i]>> \o Flush])

(* `append`: one block of committed rows into the three windows.  The RoPE *)
(* table holds the same values for the three stages.                       *)
AppendProgram(c) ==
    <<Host(0, {}, Scratch({"hidden", "tab"}))>>
    \o Run(c, <<D(0, "Gemv", {"hidden"}, {"temp"}), D(0, "Norm", {"temp"}, {"main"})>>)
    \o FlattenSeq([st \in Stages |->
           Run(c, <<D(st, "Gemv", {"main"}, {"kd"}), D(st, "Norm", {"kd"}, {"qn"}),
                    D(st, "Rope", {"qn", "tab"}, {"kd"})>>)
           \o (IF c.record
               THEN Run(c, <<With(D(st, "RingCopy", {"kd"}, {}), {}, {<<"kv", st>>})>>)
               ELSE <<Host(st, Scratch({"kd"}), {<<"ring", st>>, <<"kv", st>>})>>)])
    \o Opt(c.record, Flush)

(* The residual stream and its mixing weights swap buffers every half.     *)
Now(k, a, b) == IF k % 2 = 0 THEN a ELSE b

(* `mhc`, the k-th call of the draft.                                      *)
DraftMhc(st, k) ==
    <<D(st, "MhcPost", {Now(k, "x", "xb"), Now(k, "mix", "mixb")} \cup (IF k > 0 THEN {"attn"} ELSE {}),
        {Now(k, "xb", "x"), "utmp", "partials"}),
      D(st, "MhcMix", {Now(k, "xb", "x"), "partials"}, {"raw"}),
      D(st, "MhcFinal", {"utmp", "partials", "raw"}, {"u", Now(k, "mixb", "mix")})>>

(* `attention`: recorded, the draft's own rows go to the tail of the       *)
(* stage's window; dispatched, the host assembles window and tail.         *)
DraftAttention(c, st) ==
    LET sink == <<"sink", IF c.record THEN st ELSE 0>>
        kv == IF c.record THEN {<<"kv", st>>, <<"tail", st>>} ELSE {<<"kv_all", 0>>}
    IN  Run(c, <<D(st, "Gemv", {"u"}, {"qa"}), D(st, "Norm", {"qa"}, {"qn"}),
                 D(st, "Gemv", {"qn"}, {"qb"}), D(st, "Rope", {"qb", "tab"}, {"q"}),
                 D(st, "Gemv", {"u"}, {"kd"}), D(st, "Norm", {"kd"}, {"qn"})>>)
        \o Run(c, <<IF c.record THEN With(D(st, "Rope", {"qn", "tab"}, {}), {}, {<<"tail", st>>})
                                ELSE D(st, "Rope", {"qn", "tab"}, {"kd"})>>)
        \o <<IF c.record THEN Host(st, {}, {sink})
             ELSE Host(st, {<<"ring", st>>, <<"kd", 0>>}, {<<"kv_all", 0>>, sink})>>
        \o Run(c, <<With(D(st, "AttnScore", {"q", "idx"}, {"score"}), kv \cup {sink}, {}),
                    With(D(st, "AttnCombine", {"score", "idx"}, {"o"}), kv \cup {sink}, {}),
                    D(st, "Rope", {"o", "tab"}, {"oi"}), D(st, "WoA", {"oi"}, {"woa"}),
                    D(st, "Gemv", {"woa"}, {"attn"})>>)

(* The stage's experts: `moe_ops` when recorded, the union runner when     *)
(* dispatched, whose output the host rounds.                               *)
DraftMoe(c, st) ==
    Run(c, <<D(st, "GateScore", {"u"}, {"gate_scores"}), D(st, "GateTopK", {"gate_scores"}, {"gate_ids"})>>)
    \o IF c.record
       THEN Run(c, <<With(D(st, "Copy", {"gate_ids"}, {}), {}, {<<"route_save", st>>}),
                     D(st, "Union", {"gate_ids"}, {"un_ids", "un_list", "un_w", "un_count"}),
                     D(st, "XQuant", {"u"}, {"xq"}),
                     D(st, "Up", {"xq", "un_ids", "un_list", "un_w", "un_count"}, {"hq"}),
                     D(st, "HQuant", {"hq", "un_list", "un_count"}, {"hq"}),
                     D(st, "Down", {"hq", "un_ids", "un_list", "un_w", "un_count"}, {"attn"})>>)
       ELSE <<Host(st, Scratch({"gate_ids", "u"}), Scratch({"x16", "ids", "list", "routew"}))>>
            \o Serial(<<K(st, "GateUp", Scratch({"x16", "ids", "list", "routew"}), Scratch({"h"})),
                        K(st, "HQuant", Scratch({"h", "list"}), Scratch({"h"})),
                        K(st, "Down", Scratch({"h", "ids", "list", "routew"}), Scratch({"union_y"}))>>)
            \o Flush
            \o <<Host(st, Scratch({"union_y"}), Scratch({"attn"}))>>

(* The close, the head and the Markov chain: each row's token is the next  *)
(* row's input.  c.rows rows are drafted.                                  *)
DraftHead(c) ==
    LET row(i) == <<D(3, "MarkovBias", {"ids"}, {"bias", "embeds"}),
                    D(3, "AddBiasArgmax", {"logits", "bias"}, {"sample", "ids"})>>
        head(s) == D(3, "Head", {"u"} \cup (IF s = 1 THEN {} ELSE {"logits"}), {"logits"})
    IN  Run(c, <<D(3, "MhcClose", {"x", "mix", "attn"}, {"xb", "utmp", "partials"}),
                 D(3, "MhcFinal", {"utmp", "partials"}, {"u"})>>)
        \o Run(c, [s \in 1..2 |-> head(s)])
        \o <<Host(3, {}, Scratch({"ids"}))>>
        \o Run(c, FlattenSeq([i \in 1..c.rows |-> row(i)]))
        \o Run(c, <<D(3, "Confidence", {"utmp", "embeds"}, {"conf"})>>)

(* `draft`.                                                                *)
DraftProgram(c) ==
    <<Host(0, {}, Scratch({"x", "mix", "tab", "idx"}))>>
    \o FlattenSeq([st \in Stages |->
           Run(c, DraftMhc(st, 2 * st - 2)) \o DraftAttention(c, st)
           \o Run(c, DraftMhc(st, 2 * st - 1)) \o DraftMoe(c, st)])
    \o DraftHead(c)
    \o Opt(c.record, Flush)
    \o <<Host(3, Scratch({"ids", "conf", "logits"})
                 \cup (IF c.record THEN {"route_save"} \X Stages ELSE {}), {})>>

-----------------------------------------------------------------------------
(* The host walks the program; the GPU runs what was submitted.            *)

Program(c) ==
    CASE c.path = "step" -> StepProgram(c)
      [] c.path \in {"batch", "route"} -> BatchProgram(c)
      [] c.path = "draft" -> DraftProgram(c)
      [] c.path = "append" -> AppendProgram(c)

Programs == [c \in Configs |-> Program(c)]

Prog == Programs[conf]

Resources(p) == UNION {p[i].reads \cup p[i].writes : i \in DOMAIN p}

(* The item whose value item i must read from r: the last to write it when *)
(* the program runs one item at a time.                                    *)
LastWriter(p, i, r) ==
    LET w == {j \in 1..(i - 1) : r \in p[j].writes}
    IN  IF w = {} THEN 0 ELSE CHOOSE j \in w : \A k \in w : k <= j

Inputs == [c \in Configs |->
              LET p == Programs[c]
              IN  [i \in DOMAIN p |-> [r \in p[i].reads |-> LastWriter(p, i, r)]]]

OfKind(p, kind, n) == {i \in 1..n : p[i].kind = kind}

(* The dispatches before the last barrier ahead of i: they have finished,  *)
(* and their writes are visible, before i starts (`CommandBuffer::barrier`,*)
(* whose scope is everything earlier in submission order).                 *)
Ahead == [c \in Configs |->
             LET p == Programs[c]
             IN  [i \in DOMAIN p |->
                     LET bars == OfKind(p, "barrier", i - 1)
                         last == IF bars = {} THEN 0 ELSE CHOOSE j \in bars : \A k \in bars : k <= j
                     IN  OfKind(p, "dispatch", last)]]

(* What the wait at item i waits for: the dispatches before the submit it  *)
(* names, counting back from the last one.                                 *)
Awaited == [c \in Configs |->
               LET p == Programs[c]
                   wait(i) == LET subs == OfKind(p, "submit", i - 1)
                                  named == {j \in subs : Cardinality({k \in subs : k > j}) = p[i].at}
                              IN  UNION {OfKind(p, "dispatch", j) : j \in named}
               IN  [i \in DOMAIN p |-> IF p[i].kind = "wait" THEN wait(i) ELSE {}]]

(* The dispatches submitted by the time the host is at pc.                 *)
Submitted ==
    LET subs == OfKind(Prog, "submit", pc - 1)
    IN  IF subs = {} THEN {}
        ELSE OfKind(Prog, "dispatch", CHOOSE j \in subs : \A k \in subs : k <= j)

Runnable == {i \in Submitted \ ran : Ahead[conf][i] \subseteq ran}

Apply(i) == [r \in DOMAIN mem |-> IF r \in Prog[i].writes THEN i ELSE mem[r]]

Init ==
    /\ conf \in Configs
    /\ pc = 1
    /\ ran = {}
    /\ mem = [r \in Resources(Programs[conf]) |-> 0]

(* The host's next item: a write lands at once, whatever is pending.       *)
HostStep ==
    /\ pc <= Len(Prog)
    /\ Prog[pc].kind = "wait" => Awaited[conf][pc] \subseteq ran
    /\ pc' = pc + 1
    /\ mem' = IF Prog[pc].kind = "host" THEN Apply(pc) ELSE mem
    /\ UNCHANGED <<conf, ran>>

(* The queue runs one of the dispatches no barrier holds back.             *)
GpuStep ==
    \E i \in Runnable :
        /\ ran' = ran \cup {i}
        /\ mem' = Apply(i)
        /\ UNCHANGED <<conf, pc>>

Next == HostStep \/ GpuStep

Spec == Init /\ [][Next]_vars

-----------------------------------------------------------------------------
(* Properties.                                                             *)

(* Whatever order the queue picks and however far the host has run ahead,  *)
(* a dispatch about to run, and a read the host is about to make, find in  *)
(* every buffer, table page and address slice the value the one-at-a-time  *)
(* program gives them: no barrier, wait, page or immutable copy is missing.*)
ReadsInOrder ==
    \A i \in Runnable \cup (IF pc <= Len(Prog) /\ Prog[pc].kind = "host" THEN {pc} ELSE {}) :
        \A r \in Prog[i].reads : mem[r] = Inputs[conf][i][r]

(* What one layer, or one half of it, hands to the next, what the whole    *)
(* pass shares, and MhcClose, whose operands are the same for every layer. *)
SharedBy == {"x", "xout", "xb", "mix", "mixb", "mix_a", "moe_y", "union_y", "attn", "idx_cand",
             "tab", "idx", "main", "hidden", "MhcClose"}

(* A dispatch computes its own layer, however late it runs: every slice of *)
(* the address table it reads was bound for the layer it belongs to, and   *)
(* every scratch operand was produced for that layer, so neither a rebind  *)
(* nor a buffer reused by a later layer reaches a pending dispatch.        *)
OwnLayer ==
    \A i \in Runnable :
        \A r \in Prog[i].reads :
            (r[2] = 0 /\ r[1] \notin SharedBy) => mem[r] # 0 /\ Prog[mem[r]].at = Prog[i].at
=============================================================================
