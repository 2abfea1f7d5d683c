----------------------------- MODULE ExpertCache -----------------------------
(***************************************************************************)
(* What the expert store promises its callers, with no slots, free list,   *)
(* index, pointer table or guard values: each expert is absent, being      *)
(* filled or resident; at most Capacity experts are held at a time; an     *)
(* expert leaves only if it is not pinned, the cache is not fixed, and no  *)
(* command buffer holds a lease on it that the GPU timeline has not        *)
(* reached.                                                                *)
(***************************************************************************)
EXTENDS Integers, FiniteSets

CONSTANTS Keys, Capacity, MaxTimeline

VARIABLES
    expert,      \* Keys -> what the cache has of it
    pinned,      \* experts that may not leave
    leases,      \* <<key, timeline value>>: held until the timeline reaches it
    completed,   \* the timeline value reached
    fixed        \* a mask cache: nothing leaves

vars == <<expert, pinned, leases, completed, fixed>>

Holding == {k \in Keys : expert[k] # "Absent"}
Leased(k) == \E l \in leases : l[1] = k

Init ==
    /\ expert = [k \in Keys |-> "Absent"]
    /\ pinned = {}
    /\ leases = {}
    /\ completed = 0
    /\ fixed = FALSE

Reserve(k) ==
    /\ expert[k] = "Absent"
    /\ Cardinality(Holding) < Capacity
    /\ expert' = [expert EXCEPT ![k] = "Filling"]
    /\ UNCHANGED <<pinned, leases, completed, fixed>>

\* A fill may have been asked for as pinned.
Land(k) ==
    /\ expert[k] = "Filling"
    /\ expert' = [expert EXCEPT ![k] = "Resident"]
    /\ pinned' \in {pinned, pinned \union {k}}
    /\ UNCHANGED <<leases, completed, fixed>>

Fail(k) ==
    /\ expert[k] = "Filling"
    /\ expert' = [expert EXCEPT ![k] = "Absent"]
    /\ UNCHANGED <<pinned, leases, completed, fixed>>

Leave(k) ==
    /\ expert[k] = "Resident"
    /\ k \notin pinned
    /\ ~Leased(k)
    /\ ~fixed
    /\ expert' = [expert EXCEPT ![k] = "Absent"]
    /\ UNCHANGED <<pinned, leases, completed, fixed>>

Pin(k) ==
    /\ expert[k] = "Resident"
    /\ pinned' = pinned \union {k}
    /\ UNCHANGED <<expert, leases, completed, fixed>>

\* Leases on some resident experts, for a buffer that signals g.
Lease(K, g) ==
    /\ \A k \in K : expert[k] = "Resident"
    /\ g > completed
    /\ leases' = leases \union {<<k, g>> : k \in K}
    /\ UNCHANGED <<expert, pinned, completed, fixed>>

Complete(v) ==
    /\ v > completed
    /\ completed' = v
    /\ leases' = {l \in leases : l[2] > v}
    /\ UNCHANGED <<expert, pinned, fixed>>

SetFixed(b) ==
    /\ fixed' = b
    /\ UNCHANGED <<expert, pinned, leases, completed>>

Next ==
    \/ \E k \in Keys : Reserve(k) \/ Land(k) \/ Fail(k) \/ Leave(k) \/ Pin(k)
    \/ \E K \in SUBSET Keys, g \in 0 .. MaxTimeline : Lease(K, g)
    \/ \E v \in 0 .. MaxTimeline : Complete(v)
    \/ \E b \in BOOLEAN : SetFixed(b)

Spec == Init /\ [][Next]_vars

=============================================================================
