------------------------------ MODULE MCDecode ------------------------------
(* Decode on two layers, the second with an engram, two experts a token: few   *)
(* enough slots that a layer evicts, calls enough for one step to meet what    *)
(* the last one left.                                                          *)
EXTENDS Decode

One == {<<0, 1>>}
Some == {<<0, 1>>, <<0, 2>>}
Base == [streams |-> 1, sched |-> "pingpong", eager |-> FALSE, early |-> FALSE, overlap |-> TRUE,
         mask |-> "off", batch |-> "no", slots |-> 3, routes |-> One, jobs |-> 2, faults |-> 0,
         order |-> <<>>]
Two == [Base EXCEPT !.streams = 2, !.slots = 4, !.jobs = 1]

\* The backfill: an expert no layer routes to and two that are routed to.
Guesses == <<<<0, 3>>, <<0, 0>>, <<1, 1>>>>

MCEngram == {1}
MCConfigs ==
    {[Base EXCEPT !.early = TRUE, !.batch = "host", !.routes = Some, !.faults = 1],
     [Base EXCEPT !.overlap = FALSE, !.eager = TRUE, !.jobs = 3, !.faults = 1],
     [Base EXCEPT !.mask = "mask", !.batch = "gpu"],
     [Base EXCEPT !.mask = "mask", !.batch = "host"],
     [Base EXCEPT !.mask = "wait", !.early = TRUE],
     [Two EXCEPT !.eager = TRUE, !.slots = 3],
     [Two EXCEPT !.sched = "interleave", !.early = TRUE, !.routes = Some],
     [Two EXCEPT !.sched = "interleave", !.slots = 3, !.routes = Some],
     [Two EXCEPT !.sched = "pipeline", !.routes = Some, !.jobs = 2],
     [Two EXCEPT !.sched = "pipeline", !.mask = "mask"],
     [Two EXCEPT !.sched = "pipeline", !.faults = 1, !.jobs = 2],
     [Two EXCEPT !.sched = "pipeline", !.eager = TRUE, !.slots = 3],
     [Two EXCEPT !.sched = "interleave", !.eager = TRUE, !.early = TRUE],
     [Base EXCEPT !.order = Guesses],
     [Base EXCEPT !.mask = "wait", !.jobs = 1, !.order = Guesses]}
MCEager == {[Two EXCEPT !.sched = "pipeline", !.eager = TRUE]}
MCFailing == {[Base EXCEPT !.faults = 1]}
=============================================================================
