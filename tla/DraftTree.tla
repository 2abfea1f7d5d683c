------------------------------ MODULE DraftTree -------------------------------
(***************************************************************************)
(* The arithmetic of speculative decoding (cpu/dspark_tree.cpp and the     *)
(* host half of the verify kernel in runtime/speculate.cpp): the lattice   *)
(* of draft candidates, the one path taken through it, how much of it is   *)
(* verified, and what the verification accepts.                            *)
(*                                                                         *)
(* Probabilities are exact.  exp(logit + bias) is a natural number, a mass *)
(* of one row of the lattice is divided by the row's sum, and every row is *)
(* brought to the common denominator Scale; a target row is a function     *)
(* from tokens to masses that sum to any number.  A uniform draw is one of *)
(* the Draws midpoints (2d + 1) / (2 * Draws), so a law that holds for     *)
(* uniform draws holds as an equation of counts when Draws is divisible    *)
(* by the sums involved.                                                   *)
(***************************************************************************)
EXTENDS Integers, Sequences, FiniteSets, FiniteSetsExt

CONSTANTS Positions,      \* kPositions: draft positions (5 in the code)
          Width,          \* K: candidates of a position
          Vocab,          \* tokens are 0..Vocab-1
          Scale,          \* a multiple of the sum of every lattice row
          Draws,          \* the midpoints a uniform draw is taken from
          Lanes           \* kWg: lanes of the reduction, a power of two

Pos == 0..Positions - 1
Cand == 0..Width - 1
Token == 0..Vocab - 1

\* The sum of f over 0..n-1.
SumTo(f(_), n) == LET s[i \in 0..n] == IF i = 0 THEN 0 ELSE s[i - 1] + f(i - 1) IN s[n]

\* The index of the first maximum of v over 0..n-1.
first_argmax(v, n) == CHOOSE i \in 0..n - 1 : \A j \in 0..n - 1 : v[j] < v[i] \/ (v[j] = v[i] /\ i <= j)

Cum(w, i) == SumTo(LAMBDA j : w[j], i + 1)

\* The first index whose cumulative weight exceeds the draw d of the total;
\* the last one of positive weight when rounding leaves none.
sample_index(w, n, d) ==
    LET total == Cum(w, n - 1)
        over == {i \in 0..n - 1 : Cum(w, i) * 2 * Draws > (2 * d + 1) * total}
        positive == {i \in 0..n - 1 : w[i] > 0}
    IN  IF over # {} THEN Min(over) ELSE IF positive # {} THEN Max(positive) ELSE 0

-----------------------------------------------------------------------------
(* Lattice::build.  in.base[i][c] and in.bias[i][p][c] are the masses of the *)
(* candidate's logit and of the Markov bias after candidate p; in.anchor[i]  *)
(* is the mass of the whole vocabulary on the anchor row, 0 when none is     *)
(* given.  Position 0 has the single previous row 0.                         *)
Prev(i) == IF i = 0 THEN {0} ELSE Cand
Score(in, i, p, c) == in.base[i][c] * in.bias[i][p][c]
RowMass(in, i, p) == SumTo(LAMBDA c : Score(in, i, p, c), Width)
Mass(in, i) == IF in.anchor[i] > RowMass(in, i, 0) THEN in.anchor[i] - RowMass(in, i, 0) ELSE 0
Build(in) ==
    [ids |-> in.ids,
     q |-> [i \in Pos |-> [p \in Prev(i) |-> [c \in Cand |->
               Score(in, i, p, c) * (Scale \div (RowMass(in, i, p) + Mass(in, i)))]]]]

\* Scale really is a common denominator of the lattice's rows.
Builds(in) == \A i \in Pos : \A p \in Prev(i) : Scale % (RowMass(in, i, p) + Mass(in, i)) = 0

At(path, i) == IF i = 0 THEN 0 ELSE path[i - 1]

-----------------------------------------------------------------------------
(* Lattice::path: the three objectives.                                      *)
Chain(lat) ==
    LET out[i \in Pos] == first_argmax(lat.q[i][IF i = 0 THEN 0 ELSE out[i - 1]], Width)
    IN  out

BestPrev(v, q, c) == first_argmax([p \in Cand |-> v[p] * q[p][c]], Width)
Viterbi(lat) ==
    LET v[i \in Pos] ==
            IF i = 0 THEN lat.q[0][0]
            ELSE LET u == v[i - 1]
                 IN  [c \in Cand |-> u[BestPrev(u, lat.q[i], c)] * lat.q[i][BestPrev(u, lat.q[i], c)][c]]
        back(i, c) == BestPrev(v[i - 1], lat.q[i], c)
        from[j \in Pos] ==           \* j counts back from the last position
            IF j = 0 THEN first_argmax(v[Positions - 1], Width)
            ELSE back(Positions - j, from[j - 1])
    IN  [i \in Pos |-> from[Positions - 1 - i]]

\* The value of going on to candidate c, with m positions after this one.
Onward(q, g, m, c) == q[c] * (Scale^m + g[c])
Eal(lat) ==
    LET g[i \in 0..Positions] ==
            IF i = Positions THEN [c \in Cand |-> 0]
            ELSE LET m == Positions - 1 - i
                     val(p) == [c \in Cand |-> Onward(lat.q[i][p], g[i + 1], m, c)]
                 IN  [p \in Prev(i) |-> val(p)[first_argmax(val(p), Width)]]
        choice(i, p) == first_argmax([c \in Cand |-> Onward(lat.q[i][p], g[i + 1], Positions - 1 - i, c)], Width)
        out[i \in Pos] == choice(i, IF i = 0 THEN 0 ELSE out[i - 1])
    IN  out

Path(lat, objective) ==
    CASE objective = "chain" -> Chain(lat)
      [] objective = "viterbi" -> Viterbi(lat)
      [] objective = "eal" -> Eal(lat)

\* Lattice::sample: an ancestral sample, one draw a position.
Sampled(lat, u) ==
    LET out[i \in Pos] == sample_index(lat.q[i][IF i = 0 THEN 0 ELSE out[i - 1]], Width, u[i])
    IN  out

\* The joint mass of the first n choices of a path, over Scale^n.
Joint(lat, path, n) ==
    LET run[i \in 0..n] == IF i = 0 THEN 1 ELSE run[i - 1] * lat.q[i - 1][At(path, i - 1)][path[i - 1]]
    IN  run[n]

\* Lattice::eal_value over every position, over Scale^Positions.
EalValue(lat, path) ==
    SumTo(LAMBDA n : Joint(lat, path, n + 1) * Scale^(Positions - 1 - n), Positions)

\* Lattice::tokens
PathTokens(lat, path) == [i \in Pos |-> lat.ids[i][path[i]]]

(* Each objective of Lattice::path is reached: Viterbi's path has the largest *)
(* joint probability of all the paths through the lattice, Eal's the largest  *)
(* expected number of accepted tokens, and Chain's follows the best candidate *)
(* after each one it took.                                                    *)
PathsBest(lat) ==
    LET all == [Pos -> Cand]
        best == Joint(lat, Viterbi(lat), Positions)
        longest == EalValue(lat, Eal(lat))
        chain == Chain(lat)
    IN  /\ \A x \in all : Joint(lat, x, Positions) <= best
        /\ \A x \in all : EalValue(lat, x) <= longest
        /\ \A i \in Pos : \A c \in Cand :
              lat.q[i][At(chain, i)][c] <= lat.q[i][At(chain, i)][chain[i]]

-----------------------------------------------------------------------------
(* How many positions are verified.  k_from_confidence multiplies            *)
(* probabilities given in tenths; draft_prefix_from_confidence compares raw  *)
(* scores, and -1 stands for a score that is not finite.                     *)
KFromConfidence(scores, theta) ==
    LET run[n \in 0..Positions] == IF n = 0 THEN 1 ELSE run[n - 1] * scores[n - 1]
    IN  Max({n \in 0..Positions : \A m \in 1..n : run[m] * 10 >= theta * 10^m})

DraftPrefix(scores, k, minimum) ==
    IF \E j \in 0..k - 1 : scores[j] = -1 THEN -1
    ELSE Max({n \in 0..k : \A j \in 0..n - 1 : scores[j] >= minimum})

-----------------------------------------------------------------------------
(* Acceptance.  A target row is [Token -> Nat].                              *)
\* The lowest id of the largest logit.
ArgMax(row) == first_argmax(row, Vocab)

\* accept_greedy: the drafts that are their row's own answer, and the first
\* row's answer after them.
Matches(drafts, answers, k) == {a \in 0..k : \A j \in 0..a - 1 : drafts[j] = answers[j]}
accept_greedy(drafts, answers, k) == Max(Matches(drafts, answers, k))

\* accept_topk_prefix, and the rank the GPU counts for the same decision.
Better(row, x) == Cardinality({id \in Token : row[id] > row[x] \/ (row[id] = row[x] /\ id < x)})
accept_topk_prefix(drafts, rows, k, topk) ==
    Max({a \in 0..k : \A j \in 0..a - 1 : Better(rows[j], drafts[j]) < topk})

\* accept_sampling_exact, one position: the draft is taken when the draw of
\* its probability is below the target's, and otherwise a token is drawn from
\* what the target has in excess of the draft.  p is over P, q over Scale.
AcceptsOver(p, P, q, d) == (2 * d + 1) * q * P <= p * Scale * 2 * Draws + q * P
Accepts(p, P, q, d) == (2 * d + 1) * q * P < p * Scale * 2 * Draws
Excess(p, P, q) == IF p * Scale > q * P THEN p * Scale - q * P ELSE 0
Rest(row, cands) == SumTo(LAMBDA x : IF x \in cands THEN 0 ELSE row[x], Vocab) * Scale
Residual(row, ids, q, d) ==          \* a candidate's index, or -1 for the masked sample
    LET P == Cum(row, Vocab - 1)
        w == [i \in Cand |-> Excess(row[ids[i]], P, q[i])]
        sw == Cum(w, Width - 1)
        t2 == (2 * d + 1) * (sw + Rest(row, {ids[i] : i \in Cand}))      \* over 2 * Draws
        over == {i \in Cand : Cum(w, i) * 2 * Draws > t2}
    IN  IF t2 < sw * 2 * Draws THEN Min(over) ELSE -1

\* Over the path: how many drafts are taken, and the tokens that can follow
\* them, from the residual, from the sample that leaves the candidates out, or
\* from the whole row when no draft is left.
Support(row) == {x \in Token : row[x] > 0}
Follows(lat, path, k, row, a, ur) ==
    LET ids == lat.ids[a]
        r == Residual(row, ids, lat.q[a][At(path, a)], ur)
        out == Support(row) \ {ids[c] : c \in Cand}
    IN  IF a = k THEN Support(row)
        ELSE IF r # -1 THEN {ids[r]}
        ELSE IF out = {} THEN {0} ELSE out
accept_sampling_exact(lat, path, k, rows, ua) ==
    LET takes(j) == Accepts(rows[j][lat.ids[j][path[j]]], Cum(rows[j], Vocab - 1),
                            lat.q[j][At(path, j)][path[j]], ua[j])
    IN  Max({n \in 0..k : \A j \in 0..n - 1 : takes(j)})

\* accept_sampling, one position: the same against the target's Kv best tokens
\* vids, whose masses are renormalised over themselves.
SamplingTopKv(row, vids, ids, q, c, da, dr) ==
    LET n == Cardinality(DOMAIN vids)
        P == SumTo(LAMBDA v : row[vids[v]], Cardinality(DOMAIN vids))
        shown == {vids[v] : v \in DOMAIN vids}
        p(x) == IF x \in shown THEN row[x] ELSE 0
        qv(x) == IF \E i \in Cand : ids[i] = x THEN q[Min({i \in Cand : ids[i] = x})] ELSE 0
        res == [v \in DOMAIN vids |-> Excess(row[vids[v]], P, qv(vids[v]))]
    IN  IF Accepts(p(ids[c]), P, q[c], da) THEN ids[c]
        ELSE IF Cum(res, n - 1) > 0 THEN vids[sample_index(res, n, dr)]
        ELSE vids[first_argmax([v \in DOMAIN vids |-> row[vids[v]]], n)]

DrawIndex == 0..Draws - 1
Count(S) == Cardinality(S)

(* Speculative sampling is lossless: over all the draws of the path, of the  *)
(* acceptance and of the residual, a token of the first position is emitted  *)
(* exactly as often as the target's own distribution has it, whatever the    *)
(* draft's distribution was.  A token outside the candidates is emitted      *)
(* through the masked sample, which must come up with their total mass.      *)
Lossless(row, lat) ==
    LET q == lat.q[0][0]
        ids == lat.ids[0]
        P == Cum(row, Vocab - 1)
        answer == [d \in DrawIndex \X DrawIndex \X DrawIndex |->
                     LET c == sample_index(q, Width, d[1])
                     IN  IF Accepts(row[ids[c]], P, q[c], d[2]) THEN c ELSE Residual(row, ids, q, d[3])]
        times(r) == Count({d \in DOMAIN answer : answer[d] = r})
    IN  /\ \A c \in Cand : times(c) * P = row[ids[c]] * Draws^3
        /\ times(-1) * P * Scale = Rest(row, {ids[c] : c \in Cand}) * Draws^3

(* The same of the truncated rule: it emits the target's Kv best tokens with *)
(* their renormalised probabilities and no other token.                      *)
LosslessTopKv(row, vids, lat) ==
    LET q == lat.q[0][0]
        ids == lat.ids[0]
        P == SumTo(LAMBDA v : row[vids[v]], Cardinality(DOMAIN vids))
        answer == [d \in DrawIndex \X DrawIndex \X DrawIndex |->
                     SamplingTopKv(row, vids, ids, q, sample_index(q, Width, d[1]), d[2], d[3])]
    IN  \A x \in Token :
           Count({d \in DOMAIN answer : answer[d] = x}) * P =
              (IF \E v \in DOMAIN vids : vids[v] = x THEN row[x] ELSE 0) * Draws^3

-----------------------------------------------------------------------------
(* emulate_verify_row: every lane takes the first largest key of its stride, *)
(* then a tree of fixed shape merges the lanes.  key[i] is the logit plus    *)
(* the Gumbel noise; a lane with no token keeps the key below all and id 0.  *)
Sorted(cand) == LET open == {n \in 0..Len(cand) : \A i \in 1..n : cand[i] >= 0}
                IN  {cand[i] : i \in 1..Max(open)}
Empty == [key |-> -1, id |-> 0]
Lane(key, S, t) ==
    LET own == {i \in S : i % Lanes = t}
        top == {i \in own : \A j \in own : key[j] < key[i] \/ (key[j] = key[i] /\ i <= j)}
    IN  IF own = {} THEN Empty ELSE LET i == Min(top) IN [key |-> key[i], id |-> i]
Merge(a, b) == IF b.key > a.key \/ (b.key = a.key /\ b.id < a.id) THEN b ELSE a
Reduce(key, S) ==
    LET red[w \in 1..Lanes] ==       \* the lanes left when the tree is w wide
            IF w = Lanes THEN [t \in 0..Lanes - 1 |-> Lane(key, S, t)]
            ELSE LET r == red[2 * w] IN [t \in 0..w - 1 |-> Merge(r[t], r[t + w])]
    IN  red[1][0]
VerifyRow(key, cand) ==
    [full |-> Reduce(key, Token).id,
     masked |-> Reduce(key, Token \ Sorted(cand)).id,
     n_cand |-> Cardinality(Sorted(cand))]

(* The reduction over the lanes answers what a scan in token order would:    *)
(* the lowest id of the largest key, over all the tokens and over those that *)
(* are no candidates.                                                        *)
RowExact(key, cand) ==
    LET scan(S) == Min({i \in S : \A j \in S : key[j] <= key[i]})
        out == Token \ Sorted(cand)
    IN  /\ VerifyRow(key, cand).full = scan(Token)
        /\ out # {} => VerifyRow(key, cand).masked = scan(out)
=============================================================================
