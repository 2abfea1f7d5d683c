----------------------------- MODULE IoService -----------------------------
(* What the I/O engine promises its callers (src/storage/io_engine.h): a      *)
(* request it accepts is answered by its callback exactly once, and the       *)
(* destination is written only between the two. Nothing is said about drives, *)
(* chunks, queues or retries.                                                 *)
EXTENDS Naturals

CONSTANT Reqs

VARIABLES
    phase,     \* "new", "accepted", "answered" or "refused"
    writing    \* the requests whose destination a drive may write to now

absVars == <<phase, writing>>

AbsInit ==
    /\ phase = [r \in Reqs |-> "new"]
    /\ writing = {}

Accept(r) ==
    /\ phase[r] = "new"
    /\ phase' = [phase EXCEPT ![r] = "accepted"]
    /\ UNCHANGED writing

Refuse(r) ==
    /\ phase[r] = "new"
    /\ phase' = [phase EXCEPT ![r] = "refused"]
    /\ UNCHANGED writing

\* A read into the destination starts; there may be several, one after another.
BeginWrite(r) ==
    /\ phase[r] = "accepted"
    /\ writing' = writing \cup {r}
    /\ UNCHANGED phase

EndWrite(r) ==
    /\ r \in writing
    /\ writing' = writing \ {r}
    /\ UNCHANGED phase

\* The callback: the destination belongs to the caller again.
Answer(r) ==
    /\ phase[r] = "accepted"
    /\ r \notin writing
    /\ phase' = [phase EXCEPT ![r] = "answered"]
    /\ UNCHANGED writing

AbsNext ==
    \E r \in Reqs :
       Accept(r) \/ Refuse(r) \/ BeginWrite(r) \/ EndWrite(r) \/ Answer(r)

AbsSpec == AbsInit /\ [][AbsNext]_absVars
=============================================================================
