------------------------------- MODULE Snapshot --------------------------------
(***************************************************************************)
(* The expert cache snapshot (runtime/expert_cache_state.cpp): at shutdown *)
(* the ids of the resident experts are written newest first to a file,     *)
(* through a temporary one, and the next start reads them back before it   *)
(* serves.  A process may stop between any two steps, the machine may lose *)
(* power (nothing is synced), writes may fail, and the checkpoint or the   *)
(* size of the cache may change from one start to the next.                *)
(***************************************************************************)
EXTENDS Integers, Sequences, FiniteSets, FiniteSetsExt

CONSTANTS Experts,        \* expert ids
          Identities,     \* what expert_cache_identity can return
          Capacities,     \* slot counts
          Base,           \* kDemandStampBase
          MaxUses, MaxBoots

VARIABLES identity,       \* of the checkpoint directory
          capacity,       \* of this start's cache
          stamp,          \* last_use_token of a resident expert, 0 when not resident
          uses,           \* demand stamps given out
          used,           \* expert_cache_used
          file, tmp,      \* the two files
          pc, boots,
          lost,           \* whether power was ever lost
          was,            \* the stamps the file's snapshot was taken from
          clean           \* restored and not used since

snapVars == <<identity, capacity, stamp, uses, used, file, tmp, pc, boots, lost, was, clean>>

None == [there |-> FALSE]
Image(ident, cap, keys, whole) ==
    [there |-> TRUE, identity |-> ident, capacity |-> cap, keys |-> keys, whole |-> whole]
NoStamps == [e \in Experts |-> 0]
Held == {e \in Experts : stamp[e] # 0}

Init ==
    /\ identity \in Identities /\ capacity \in Capacities
    /\ stamp = NoStamps /\ uses = 0 /\ used = FALSE
    /\ file = None /\ tmp = None
    /\ pc = "boot" /\ boots = 0 /\ lost = FALSE
    /\ was = NoStamps /\ clean = FALSE

valid_keys(keys, cap) ==
    /\ keys # <<>> /\ Len(keys) <= cap
    /\ \A i \in DOMAIN keys : keys[i] \in Experts
    /\ \A i, j \in DOMAIN keys : i # j => keys[i] # keys[j]

\* The header, the length and the checksum agree with this start.
ReadableUnchecked(f) == f.there /\ f.identity = identity /\ f.capacity = capacity
Readable(f) ==
    /\ f.there /\ f.whole
    /\ f.identity = identity /\ f.capacity = capacity
    /\ valid_keys(f.keys, capacity)

\* restore_expert_cache: the backfill reads the ids in the file's order with a
\* stamp below every demand stamp; some reads fail, or the wait ends first.
RankStamp(i) == Base - i
Restore ==
    /\ pc = "boot" /\ Readable(file)
    /\ \E got \in SUBSET (DOMAIN file.keys) :
          stamp' = [e \in Experts |->
                      LET at == {i \in got : file.keys[i] = e}
                      IN  IF at = {} THEN 0 ELSE RankStamp(Min(at))]
    /\ clean' = TRUE
    /\ pc' = "run"
    /\ UNCHANGED <<identity, capacity, uses, used, file, tmp, boots, lost, was>>

RestoreRefused ==
    /\ pc = "boot" /\ ~Readable(file)
    /\ pc' = "run"
    /\ UNCHANGED <<identity, capacity, stamp, uses, used, file, tmp, boots, lost, was, clean>>

\* A step of a request: the expert is touched, or read in over the oldest one.
Use(e) ==
    /\ pc = "run" /\ uses < MaxUses
    /\ LET full == e \notin Held /\ Cardinality(Held) = capacity
           old == CHOOSE f \in Held : \A g \in Held : stamp[f] <= stamp[g]
       IN  stamp' = [f \in Experts |-> IF f = e THEN Base + uses + 1
                                       ELSE IF full /\ f = old THEN 0 ELSE stamp[f]]
    /\ uses' = uses + 1 /\ used' = TRUE /\ clean' = FALSE
    /\ UNCHANGED <<identity, capacity, file, tmp, pc, boots, lost, was>>

-----------------------------------------------------------------------------
(* save_expert_cache at shutdown: nothing to save keeps the previous file,   *)
(* an existing temporary file is never opened.                               *)
NewestFirst == CHOOSE s \in [1..Cardinality(Held) -> Held] :
                  \A i, j \in DOMAIN s : i < j => stamp[s[i]] > stamp[s[j]]

SaveSkipped ==
    /\ pc = "run"
    /\ ~used \/ Held = {} \/ tmp.there
    /\ pc' = "down"
    /\ UNCHANGED <<identity, capacity, stamp, uses, used, file, tmp, boots, lost, was, clean>>

SaveCreate ==
    /\ pc = "run" /\ used /\ Held # {} /\ ~tmp.there
    /\ tmp' = Image(identity, capacity, <<>>, FALSE)
    /\ pc' = "write"
    /\ UNCHANGED <<identity, capacity, stamp, uses, used, file, boots, lost, was, clean>>

SaveWrite ==
    /\ pc = "write"
    /\ tmp' = Image(identity, capacity, NewestFirst, TRUE)
    /\ pc' = "rename"
    /\ UNCHANGED <<identity, capacity, stamp, uses, used, file, boots, lost, was, clean>>

SaveRename ==
    /\ pc = "rename"
    /\ file' = tmp /\ tmp' = None
    /\ was' = stamp
    /\ pc' = "down"
    /\ UNCHANGED <<identity, capacity, stamp, uses, used, boots, lost, clean>>

\* The write, the close or the rename fails: the temporary file goes.
AfterFailure == None
SaveFails ==
    /\ pc \in {"write", "rename"}
    /\ tmp' = AfterFailure
    /\ pc' = "down"
    /\ UNCHANGED <<identity, capacity, stamp, uses, used, file, boots, lost, was, clean>>

\* The process is killed: what was written stays.
Kill ==
    /\ pc # "down"
    /\ pc' = "down"
    /\ UNCHANGED <<identity, capacity, stamp, uses, used, file, tmp, boots, lost, was, clean>>

\* The machine loses power: what was never synced may be incomplete.
Torn(f) == IF f.there THEN {f, [f EXCEPT !.whole = FALSE]} ELSE {f}
PowerLoss ==
    /\ file' \in Torn(file) /\ tmp' \in Torn(tmp)
    /\ pc' = "down" /\ lost' = TRUE
    /\ UNCHANGED <<identity, capacity, stamp, uses, used, boots, was, clean>>

Boot ==
    /\ pc = "down" /\ boots < MaxBoots
    /\ identity' \in Identities /\ capacity' \in Capacities
    /\ stamp' = NoStamps /\ uses' = 0 /\ used' = FALSE /\ clean' = FALSE
    /\ boots' = boots + 1 /\ pc' = "boot"
    /\ UNCHANGED <<file, tmp, lost, was>>

Next ==
    \/ Restore \/ RestoreRefused
    \/ \E e \in Experts : Use(e)
    \/ SaveSkipped \/ SaveCreate \/ SaveWrite \/ SaveRename \/ SaveFails
    \/ Kill \/ PowerLoss \/ Boot

Spec == Init /\ [][Next]_snapVars

-----------------------------------------------------------------------------
(* A restart resumes the cache's own history.  Whatever stopped the earlier  *)
(* processes, a restored cache holds only experts that one completed save of *)
(* the same checkpoint and cache size held, each older than anything this    *)
(* process will use and ordered by age the way they were then; and unless    *)
(* power was lost the file is a whole snapshot.                              *)
SnapshotExact ==
    /\ file.there /\ ~lost => file.whole
    /\ clean /\ pc = "run" =>
        /\ file.whole /\ file.identity = identity /\ file.capacity = capacity
        /\ \A e \in Held : was[e] # 0 /\ stamp[e] < Base
        /\ \A e, f \in Held : was[e] < was[f] => stamp[e] < stamp[f]
=============================================================================
