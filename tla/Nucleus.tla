-------------------------------- MODULE Nucleus --------------------------------
(***************************************************************************)
(* Temperature and top-p sampling (runtime/sampling.cpp and                *)
(* Engine::sample_into): the top set the GPU reduces the logits to, the    *)
(* nucleus cut from it when it is enough, the whole row when it is not,    *)
(* and the draw.                                                           *)
(*                                                                         *)
(* A logit is a natural number, BinWidth of them to one histogram bin, and *)
(* Mass(d) is exp(-d / T) of a token d below the maximum, in whole parts;  *)
(* 0 stands for a mass below 1e-12 of the sum.  top_p is <<num, den>>.     *)
(***************************************************************************)
EXTENDS Integers, Sequences, FiniteSets, FiniteSetsExt

CONSTANTS Vocab,          \* tokens are 0..Vocab-1
          Mass(_),        \* the weight of a token so far below the maximum
          BinWidth, Bins, \* the histogram: kTopKBinsPerLogit, kTopKBins
          TopK,           \* tokens the top set has to reach
          Threads, Cap,   \* kTopKThreads, kTopKCapPerThread
          Steps           \* draws are d / Steps

Ids == 0..Vocab - 1
Top(row) == Max({row[i] : i \in Ids})
Weight(row, i) == Mass(Top(row) - row[i])
Sum(row, S) == MapThenSumSet(LAMBDA i : Weight(row, i), S)

\* Larger logit first, lower id first among equals.
by_logit(row, i, j) == row[i] > row[j] \/ (row[i] = row[j] /\ i < j)
Sorted(row, S) ==
    [n \in 1..Cardinality(S) |->
        CHOOSE i \in S : Cardinality({j \in S : by_logit(row, j, i)}) = n - 1]

-----------------------------------------------------------------------------
\* emulate_topk, and the kernel it mirrors: the first bin at which TopK tokens
\* are reached, or the last bin; every token up to it; the mass of the others.
Bin(row, i) == (Top(row) - row[i]) \div BinWidth
BinReached(row) ==
    LET upto(b) == {i \in Ids : Bin(row, i) <= b}
        enough == {b \in 0..Bins - 1 : Cardinality(upto(b)) >= TopK}
    IN  IF enough = {} THEN Bins - 1 ELSE Min(enough)
emulate_topk(row) ==
    LET J == BinReached(row)
        cand == {i \in Ids : Bin(row, i) <= J}
    IN  [cand |-> cand,
         tail |-> Sum(row, Ids \ cand),
         overflow |-> \E t \in 0..Threads - 1 : Cardinality({i \in cand : i % Threads = t}) > Cap]

-----------------------------------------------------------------------------
\* cut: tokens in order until their mass reaches top_p of S; exact when it
\* does, or when the tokens are the whole vocabulary.
CutAt(row, by, S, p) ==
    LET upto(n) == Sum(row, {by[i] : i \in 1..n})
        reached == {n \in 1..Len(by) : upto(n) * p[2] >= p[1] * S}
    IN  IF p[1] < p[2] /\ reached # {} THEN Min(reached) ELSE Len(by)
Reaches(row, ids, S, p) == p[1] < p[2] /\ Sum(row, {ids[i] : i \in 1..Len(ids)}) * p[2] >= p[1] * S
cut(row, by, S, p, whole) ==
    LET ids == SubSeq(by, 1, CutAt(row, by, S, p))
    IN  [ids |-> ids, exact |-> Reaches(row, ids, S, p) \/ whole]

NoNucleus == [ids |-> <<>>, exact |-> FALSE]

nucleus_from_topk(row, tk, p) ==
    IF tk.overflow \/ tk.cand = {} THEN NoNucleus
    ELSE cut(row, Sorted(row, tk.cand), Sum(row, tk.cand) + tk.tail, p,
             Cardinality(tk.cand) = Vocab)

nucleus_from_full(row, p) ==
    LET kept == {i \in Ids : p[1] = p[2] \/ Weight(row, i) > 0}
    IN  [cut(row, Sorted(row, kept), Sum(row, Ids), p, TRUE) EXCEPT !.exact = TRUE]

\* From a list of tokens and the logsumexp of the whole row.
nucleus_from_partial(row, ids, p) ==
    IF ids = {} THEN NoNucleus ELSE cut(row, Sorted(row, ids), Sum(row, Ids), p, FALSE)

\* The first token whose share of the kept mass exceeds the draw.
sample_nucleus(row, n, d) ==
    LET kept == Sum(row, {n.ids[i] : i \in 1..Len(n.ids)})
        upto(i) == Sum(row, {n.ids[j] : j \in 1..i})
        over == {i \in 1..Len(n.ids) : upto(i) * Steps > d * kept}
    IN  n.ids[IF over = {} THEN Len(n.ids) ELSE Min(over)]

\* Engine::sample_into: the top set's nucleus, or the whole row's.
Chosen(row, p) ==
    LET nuc == nucleus_from_topk(row, emulate_topk(row), p)
    IN  IF nuc.exact THEN nuc ELSE nucleus_from_full(row, p)
sample_into(row, p, d) == sample_nucleus(row, Chosen(row, p), d)

-----------------------------------------------------------------------------
(* Sampling through the GPU's top set is sampling from the whole row: the    *)
(* tokens that can be drawn are the shortest run of the largest logits, ties *)
(* to the lowest id, that holds top_p of the full softmax (all the tokens at *)
(* top_p = 1), and over all draws each comes up in proportion to its         *)
(* probability.  A partial list that calls itself exact holds that run too.  *)
NucleusExact(row, p) ==
    LET all == Sorted(row, Ids)
        mass(n) == Sum(row, {all[i] : i \in 1..n})
        n == IF p[1] = p[2] THEN Vocab
             ELSE Min({m \in 1..Vocab : mass(m) * p[2] >= p[1] * mass(Vocab)})
        want == SubSeq(all, 1, n)
        times(x) == Cardinality({d \in 0..Steps - 1 : sample_into(row, p, d) = x})
    IN  /\ Chosen(row, p).ids = want
        /\ Steps % mass(n) = 0 =>
              \A i \in 1..n : times(want[i]) * mass(n) = Weight(row, want[i]) * Steps
        /\ \A S \in SUBSET Ids :
              (\A i \in S, j \in Ids \ S : by_logit(row, i, j)) =>
                 LET part == nucleus_from_partial(row, S, p) IN part.exact => part.ids = want
=============================================================================
