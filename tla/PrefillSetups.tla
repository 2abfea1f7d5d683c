--------------------------- MODULE PrefillSetups ---------------------------
(***************************************************************************)
(* The prefills that are checked.  Two carry several rows through four     *)
(* layers with one fixed route (the row arithmetic, with and without       *)
(* replay); the others carry one row through two layers and leave the      *)
(* route, the drive and the cache open (the transit and the hand-off).  In *)
(* the last one a backfill fetches an expert of the second layer, and may  *)
(* evict one of the first to do it.                                        *)
(***************************************************************************)
EXTENDS Naturals

MCExperts == 1..4

Free == <<0, 0>>

Rowed == [layers |-> 4, coop |-> TRUE, ahead |-> FALSE, tail |-> FALSE, engramAhead |-> TRUE,
          segments |-> 2, sink |-> FALSE, cached |-> <<>>, order |-> <<>>, routes |-> [L \in 1..4 |-> {{1}}]]

Streamed == [layers |-> 2, n |-> 1, replay |-> 1, coop |-> FALSE, engramAhead |-> TRUE, order |-> <<>>,
             routes |-> <<SUBSET MCExperts \ {{}}, {{1, 2}, {2, 4}}>>]

With(r, s) == [f \in DOMAIN r \cup DOMAIN s |-> IF f \in DOMAIN s THEN s[f] ELSE r[f]]

MCConfigs ==
    {With(Rowed, [n |-> 7, replay |-> 3]),
     With(Rowed, [n |-> 5, replay |-> 5, engramAhead |-> FALSE]),
     With(Streamed, [ahead |-> TRUE, tail |-> TRUE, segments |-> 3, sink |-> FALSE, cached |-> <<>>]),
     With(Streamed, [ahead |-> TRUE, tail |-> FALSE, segments |-> 2, sink |-> TRUE,
                     cached |-> <<<<1, 3>>, Free>>]),
     With(Streamed, [ahead |-> FALSE, tail |-> FALSE, segments |-> 2, sink |-> TRUE,
                     cached |-> <<<<1, 2>>, <<2, 1>>, <<2, 4>>>>]),
     With(Streamed, [ahead |-> FALSE, tail |-> FALSE, segments |-> 2, sink |-> TRUE,
                     cached |-> <<<<1, 2>>, Free>>, order |-> <<<<2, 1>>>>,
                     routes |-> <<{{1}, {1, 2}}, {{1, 2}, {2, 4}}>>])}
=============================================================================
