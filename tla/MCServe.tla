------------------------------- MODULE MCServe -------------------------------
(***************************************************************************)
(* Small instances of Serve.                                               *)
(***************************************************************************)
EXTENDS Serve

MCFileOf == [n \in Names |-> n]

Gen(ns) == {[op |-> "generate", s |-> n] : n \in ns}
Op(o, ns) == {[op |-> o, s |-> n] : n \in ns}
Quit == {[op |-> "quit", s |-> Default]}
Cancel == {[op |-> "cancel", s |-> Default]}

Base == [disk |-> TRUE, diskBudget |-> 0, queueBudget |-> 1, maxParked |-> 1,
         ops |-> Gen(Names) \cup Quit, lines |-> 4, tokens |-> 1, burst |-> 1,
         exact |-> {FALSE}, cold |-> FALSE, fails |-> FALSE, kill |-> FALSE, large |-> {}]

(* Three sessions over one parked slot, so that every switch back goes through
   the disk; then with a queue no snapshot fits, with files evicted, with large
   snapshots that evict two files or are larger than the budget, and with no disk;
   a kill; resets and drops; cancels of bursts. *)
MCConfigs ==
    { Base,
      [Base EXCEPT !.queueBudget = 0, !.diskBudget = 1],
      [Base EXCEPT !.queueBudget = 2, !.diskBudget = 2, !.large = {"a"}, !.lines = 3],
      [Base EXCEPT !.diskBudget = 1, !.large = {"b"}, !.lines = 3],
      [Base EXCEPT !.disk = FALSE],
      [Base EXCEPT !.kill = TRUE, !.lines = 3],
      [Base EXCEPT !.ops = Gen({"a", Default}) \cup Op("drop", {"a"}) \cup Op("reset", {"a"}),
                   !.maxParked = 0, !.cold = TRUE, !.exact = BOOLEAN],
      [Base EXCEPT !.ops = Gen({"a"}) \cup Cancel \cup Quit, !.tokens = 4, !.burst = 2,
                   !.lines = 3, !.fails = TRUE] }
=============================================================================
