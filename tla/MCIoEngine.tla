----------------------------- MODULE MCIoEngine -----------------------------
(* Instances of IoEngine: a striped P0 read, a second P0 read, a backfill and *)
(* an Engram row, over a primary and one mirror.                              *)
EXTENDS IoEngine, TLC

CONSTANTS miss, fill, row

MCClass == (miss :> P0) @@ (fill :> Backfill) @@ (row :> Engram)
MCChunks == (miss :> 2) @@ (fill :> 1) @@ (row :> 1)
MCWeight == [s \in Source |-> 1]

\* Striped reads over drives that fail, rest and come back; every class together
\* over a failing mirror with the keep-alive on; Engram rows passing a striped
\* read; and cancels of a striped and of a whole read, on drives that answer.
MCConfigs ==
    { [submits |-> {miss, fill}, cancels |-> {}, failing |-> {0, 1}, stripe |-> TRUE,
       keepAlive |-> FALSE, watched |-> TRUE],
      [submits |-> {miss, fill, row}, cancels |-> {row}, failing |-> {1}, stripe |-> FALSE,
       keepAlive |-> TRUE, watched |-> FALSE],
      [submits |-> {miss, row}, cancels |-> {row}, failing |-> {0, 1}, stripe |-> TRUE,
       keepAlive |-> FALSE, watched |-> TRUE],
      [submits |-> {miss, fill}, cancels |-> {miss, fill}, failing |-> {}, stripe |-> TRUE,
       keepAlive |-> FALSE, watched |-> TRUE] }
=============================================================================
