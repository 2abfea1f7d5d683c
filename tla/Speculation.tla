----------------------------- MODULE Speculation ------------------------------
(***************************************************************************)
(* Speculative decoding as a sequence of cycles: Speculator::cycle         *)
(* (runtime/speculate.cpp), which drafts through the lattice and accepts   *)
(* greedily or by sampling, and Engine::speculative_step, which takes the  *)
(* drafter's tokens and accepts those among the topk best of their row.    *)
(*                                                                         *)
(* The target model is a table: the logits of a position are a function of *)
(* the tokens in its window.  The window ring holds one slot per position  *)
(* modulo Window; a row of a verify batch reads the batch's own tokens at  *)
(* the batch's positions and the ring before them.  hist is the sequence   *)
(* with the token at p0 = Len(hist) - 1 emitted but not yet in the ring.   *)
(***************************************************************************)
EXTENDS DraftTree

CONSTANTS Window,         \* kSlidingWindow
          Settings,       \* the configurations a run can have
          Models, Target(_, _),   \* the target models: the logits row of a model after a window
          Lattices,       \* what a draft forward can return
          Confs,          \* and the scores of its confidence head
          Picks,          \* the draws of the sampling mode that are tried
          Prompt,         \* the tokens before the first cycle
          MaxNew,         \* tokens asked for
          MaxContext      \* max_context()

VARIABLES set,            \* the configuration
          model,          \* the target model
          hist,           \* prompt and emitted tokens
          ring,           \* the window ring: [slot -> <<position, token>>]
          status          \* "run", "done", "failed", or "reset": failed with the context gone

specVars == <<set, model, hist, ring, status>>

P0 == Len(hist) - 1
TokenAt(h, p) == h[p + 1]
Slot(p) == p % Window
Emitted == Len(hist) - Len(Prompt)

SpeculationInit ==
    /\ set \in Settings
    /\ model \in Models
    /\ hist = Prompt
    /\ ring = [s \in 0..Window - 1 |->
                 LET held == {p \in 0..Len(Prompt) - 2 : Slot(p) = s}
                 IN  IF held = {} THEN <<-1, 0>> ELSE <<Max(held), TokenAt(Prompt, Max(held))>>]
    /\ status = "run"

\* The positions a query at p attends to.
Seen(p) == (IF p >= Window THEN p - Window + 1 ELSE 0)..p

\* verify_forward: the row of p0 + j attends to the batch's tokens from p0 on
\* and to what the ring holds before it.
VerifyRowOf(batch, j) ==
    LET view == [q \in Seen(P0 + j) |-> IF q >= P0 THEN batch[q - P0] ELSE ring[Slot(q)][2]]
        seen == Seen(P0 + j)
    IN  Target(model, [i \in 1..Cardinality(seen) |-> view[Min(seen) + i - 1]])
VerifyRows(batch, k) == [j \in 0..k |-> VerifyRowOf(batch, j)]

\* The batch overwrites one slot a position, and the positions after the
\* kept-th are put back from the snapshot.
RestoredFromNone(kept) == Positions + 1
RestoredFrom(kept) == kept + 1
RingAfter(batch, k, kept) ==
    [s \in DOMAIN ring |->
        LET written == {j \in 0..k : Slot(P0 + j) = s}
            j == Max(written)
        IN  IF written = {} THEN ring[s]
            ELSE IF j >= RestoredFrom(kept) THEN ring[s]
            ELSE <<P0 + j, batch[j]>>]

\* [last, path[:k]]
Batch(tokens, k) == [j \in 0..k |-> IF j = 0 THEN TokenAt(hist, P0) ELSE tokens[j - 1]]

-----------------------------------------------------------------------------
(* Speculator::cycle.                                                        *)
CycleK(scores) ==
    LET k == IF set.k # 0 THEN Min({set.k, Positions}) ELSE KFromConfidence(scores, set.theta)
    IN  IF k = 0 THEN 1 ELSE k

\* The accepted drafts and the token after them.
Tokens(drafts, a, last) == [j \in 1..a + 1 |-> IF j <= a THEN drafts[j - 1] ELSE last]

Emits(drafts, batch, k, a, last) ==
    LET out == Tokens(drafts, a, last)
    IN  /\ ring' = RingAfter(batch, k, a)
        /\ hist' = hist \o out
        /\ status' = IF Emitted + Len(out) >= MaxNew THEN "done" ELSE "run"

Greedy(lat, k) ==
    LET drafts == PathTokens(lat, Path(lat, set.objective))
        batch == Batch(drafts, k)
        answers == [j \in 0..k |-> ArgMax(VerifyRowOf(batch, j))]
        a == accept_greedy(drafts, answers, k)
    IN  Emits(drafts, batch, k, a, answers[a])

Sampling(lat, k, up, ua, ur) ==
    LET path == Sampled(lat, up)
        drafts == PathTokens(lat, path)
        batch == Batch(drafts, k)
        rows == VerifyRows(batch, k)
        a == accept_sampling_exact(lat, path, k, rows, ua)
    IN  \E last \in Follows(lat, path, k, rows[a], a, ur) : Emits(drafts, batch, k, a, last)

Cycle(lat, scores) ==
    /\ status = "run" /\ set.by = "speculator"
    /\ Emitted < MaxNew
    /\ \/ set.mode = "greedy" /\ Greedy(lat, CycleK(scores))
       \/ /\ set.mode = "sample"
          /\ \E up, ua \in [Pos -> Picks], ur \in Picks : Sampling(lat, CycleK(scores), up, ua, ur)
    /\ UNCHANGED <<set, model>>

\* draft_forward or snapshot_ring fails: nothing was written.  The verify
\* forward, restore_ring or commit fails: the ring keeps the batch.
CycleFails(lat, scores) ==
    /\ status = "run" /\ set.by = "speculator"
    /\ Emitted < MaxNew
    /\ LET k == CycleK(scores)
           batch == Batch(PathTokens(lat, Path(lat, set.objective)), k)
       IN  ring' \in {ring, RingAfter(batch, k, k)}
    /\ status' = "failed"
    /\ UNCHANGED <<set, model, hist>>

-----------------------------------------------------------------------------
(* Engine::speculative_step.                                                 *)
StepK(left) == Min({set.max_draft, left - 1, MaxContext - P0 - 1})
\* How much of the drafted tokens is verified: -1 when a score is not finite.
Selected(scores, k) == IF set.min_confidence = 0 THEN k ELSE DraftPrefix(scores, k, set.min_confidence)

\* Row j answers the draft after it while it is accepted; the last row answers
\* for itself, by its largest logit or by a sample.  A stop token ends the rows.
Answers(drafts, a, last) ==
    LET all == Tokens(drafts, a, last)
        stop == {j \in 1..a + 1 : all[j] \in set.stops}
    IN  IF stop = {} THEN all ELSE SubSeq(all, 1, Min(stop))

SpeculativeStep(drafts, scores) ==
    /\ status = "run" /\ set.by = "engine"
    /\ Emitted < MaxNew
    /\ P0 + 1 < MaxContext
    /\ LET k == Selected(scores, StepK(MaxNew - Emitted))
       IN  /\ k # -1
           /\ LET batch == Batch(drafts, k)
                  rows == VerifyRows(batch, k)
                  a == accept_topk_prefix(drafts, rows, k, set.topk)
              IN  \E last \in IF set.greedy THEN {ArgMax(rows[a])} ELSE Support(rows[a]) :
                     LET out == Answers(drafts, a, last)
                         n == Len(out)
                     IN  /\ ring' = RingAfter(batch, k, n - 1)
                         /\ hist' = hist \o out
                         /\ status' = IF out[n] \in set.stops \/ Emitted + n >= MaxNew
                                      THEN "done" ELSE "run"
    /\ UNCHANGED <<set, model>>

\* The context is full or a score is not finite: an error before anything was written.
StepRefused(scores) ==
    /\ status = "run" /\ set.by = "engine"
    /\ Emitted < MaxNew
    /\ P0 + 1 >= MaxContext \/ Selected(scores, StepK(MaxNew - Emitted)) = -1
    /\ status' = "failed"
    /\ UNCHANGED <<set, model, hist, ring>>

\* Seeding, drafting or the snapshot fails: nothing was written.  The verification, the
\* ranks, the sample, the restore or the append fails: the batch is in the ring, and
\* reset_context drops the context; no token of the step is returned.
ResetRing == [s \in DOMAIN ring |-> <<-1, 0>>]
SpeculativeStepFails ==
    /\ status = "run" /\ set.by = "engine"
    /\ Emitted < MaxNew
    /\ P0 + 1 < MaxContext
    /\ \/ status' = "failed" /\ UNCHANGED ring
       \/ status' = "reset" /\ ring' = ResetRing
    /\ UNCHANGED <<set, model, hist>>

SpeculationNext ==
    \/ \E lat \in Lattices : \E scores \in Confs : Cycle(lat, scores) \/ CycleFails(lat, scores)
    \/ \E drafts \in [Pos -> Token] : \E scores \in Confs : SpeculativeStep(drafts, scores)
    \/ \E scores \in Confs : StepRefused(scores)
    \/ SpeculativeStepFails

SpeculationSpec == SpeculationInit /\ [][SpeculationNext]_specVars

-----------------------------------------------------------------------------
(* What the model answers after the first n tokens of the sequence when it   *)
(* decodes them one at a time.                                               *)
Plain(n) == Target(model, SubSeq(hist, (IF n >= Window THEN n - Window + 1 ELSE 1), n))

Allowed(row, x) ==
    IF set.by = "speculator"
    THEN IF set.mode = "greedy" THEN x = ArgMax(row) ELSE row[x] > 0
    ELSE Better(row, x) < set.topk \/ (~set.greedy /\ row[x] > 0)

(* Speculation does not change what is decoded.  Whatever the drafts were,   *)
(* every token a greedy cycle emits is the one plain decoding would have     *)
(* emitted after the tokens before it, a sampled one has a positive          *)
(* probability there, and one accepted by rank is among the topk best; no    *)
(* more tokens come out than were asked for when the engine counts them,     *)
(* nothing follows a stop token, and every decoded position is within the    *)
(* context.                                                                  *)
StreamExact ==
    /\ \A i \in Len(Prompt) + 1..Len(hist) : Allowed(Plain(i - 1), hist[i])
    /\ set.by = "engine" =>
          /\ Emitted <= MaxNew
          /\ P0 <= MaxContext
          /\ \A i \in Len(Prompt) + 1..Len(hist) - 1 : hist[i] \notin set.stops

(* After every cycle the ring holds, for each position the next query will   *)
(* look back at, that position's own token: a rejected draft leaves nothing  *)
(* behind and takes nothing away.  So does a step of the engine that fails   *)
(* and keeps its context; one that fails with the batch in the ring keeps    *)
(* nothing of it.  (A failed Speculator::cycle leaves what it had written;   *)
(* only the tests drive one.)                                                *)
RingExact ==
    /\ status \in {"run", "done"} \/ (status = "failed" /\ set.by = "engine") =>
          \A q \in Seen(P0) \ {P0} : ring[Slot(q)] = <<q, TokenAt(hist, q)>>
    /\ status = "reset" => \A s \in DOMAIN ring : ring[s][1] = -1
=============================================================================
