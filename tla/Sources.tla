------------------------------- MODULE Sources --------------------------------
(***************************************************************************)
(* The files of the model and of its mirrors: opening and checking them    *)
(* (File, ShardSet), registering them as read sources (the engine and      *)
(* IoEngine::set_sources, add_mirror), reading through them while a drive  *)
(* falls off the bus and returns, and the watch thread that takes a        *)
(* dropped mirror back by reopening every file under its old handle value. *)
(*                                                                         *)
(* Source 0 is the primary.  What a path holds is "same" (the primary's    *)
(* bytes), "other" (a file of the same size whose probed page differs),    *)
(* "short" (another size) or "absent".  A descriptor opened before its     *)
(* drive fell is dead for good.                                            *)
(***************************************************************************)
EXTENDS Integers, Sequences, FiniteSets, FiniteSetsExt

CONSTANTS NShards, NMirrors,
          Disks,          \* what the drives can hold at start: [0..NMirrors -> [Shards -> content]]
          Returns,        \* what a mirror can hold when it comes back
          MaxFalls,       \* times a drive falls off the bus
          ErrorBudget,    \* SourceHealth's consecutive errors
          Reqs            \* read requests

Shards == 1..NShards
Mirrors == 1..NMirrors
AllSources == 0..NMirrors
Fds == 1..(NShards * (NMirrors + 1) + 1)

VARIABLES phase,          \* how far the engine's start is
          disk, on, falls,
          table,          \* the process's descriptors
          file,           \* the descriptor of each File object, 0 when closed
          alts,           \* <<shard, mirror>> registered with add_mirror
          errs, dropped,  \* SourceHealth
          inflight,       \* src_inflight_
          watch,          \* the watch thread: <<step, mirror, shard, temporary>>
          armed,          \* retry_at is set
          backoff,        \* doublings of the retry interval
          req,            \* each request: <<step, shard, source, mask>>
          got             \* what each request's bytes were

srcVars == <<phase, disk, on, falls, table, file, alts, errs, dropped, inflight, watch,
             armed, backoff, req, got>>

Closed == [src |-> 0, shard |-> 0, bytes |-> "closed", dead |-> FALSE]
NoFile == 0
Asleep == <<"sleep", 0, 0, 0>>
Idle == <<"idle", 0, 0, {}>>
MaxDoublings == 2

Init ==
    /\ phase = "new"
    /\ disk \in Disks
    /\ on = [m \in Mirrors |-> TRUE]
    /\ falls = 0
    /\ table = [d \in Fds |-> Closed]
    /\ file = [s \in AllSources |-> [i \in Shards |-> NoFile]]
    /\ alts = {}
    /\ errs = [m \in Mirrors |-> 0]
    /\ dropped = {}
    /\ inflight = [m \in Mirrors |-> 0]
    /\ watch = Asleep
    /\ armed = {}
    /\ backoff = [m \in Mirrors |-> 0]
    /\ req = [r \in Reqs |-> Idle]
    /\ got = [r \in Reqs |-> "none"]

(* -------------------------------- files --------------------------------- *)

Answers(s) == IF s = 0 THEN TRUE ELSE on[s]
Opens(s, i) == Answers(s) /\ disk[s][i] # "absent"
SizeOf(bytes) == IF bytes = "short" THEN 1 ELSE 2
NewFd == Min({d \in Fds : table[d] = Closed})
Handle(s, i) == [src |-> s, shard |-> i, bytes |-> disk[s][i], dead |-> FALSE]

\* open, then the size check of open_all and open_mirror.  Another size is
\* another checkpoint: the File that was opened closes itself.
Usable(s, i) == Opens(s, i) /\ SizeOf(disk[s][i]) = 2

\* open_all: every shard, in order, up to the first that fails.
OpenedUpTo == Max({n \in 0..NShards : \A i \in 1..n : Usable(0, i)})

OpenAll ==
    /\ phase = "new"
    /\ table' = [d \in Fds |-> IF d <= OpenedUpTo THEN Handle(0, d) ELSE table[d]]
    /\ file' = [file EXCEPT ![0] = [i \in Shards |-> IF i <= OpenedUpTo THEN i ELSE NoFile]]
    /\ phase' = IF OpenedUpTo = NShards THEN "opened" ELSE "failed"
    /\ UNCHANGED <<disk, on, falls, alts, errs, dropped, inflight, watch, armed, backoff, req, got>>

\* open_mirror, for every mirror asked for: the shards it holds at the right
\* size.  A mirror with none is left out.
Place(m, i) == NShards * m + i
Present(m) == {i \in Shards : Usable(m, i)}

OpenMirrors ==
    /\ phase = "opened"
    /\ table' = [d \in Fds |->
                   LET at == {p \in Mirrors \X Shards : p[2] \in Present(p[1]) /\ d = Place(p[1], p[2])}
                   IN  IF at = {} THEN table[d] ELSE LET p == CHOOSE p \in at : TRUE IN Handle(p[1], p[2])]
    /\ file' = [s \in AllSources |->
                   IF s = 0 THEN file[0]
                   ELSE [i \in Shards |-> IF i \in Present(s) THEN Place(s, i) ELSE NoFile]]
    /\ phase' = "mirrored"
    /\ UNCHANGED <<disk, on, falls, alts, errs, dropped, inflight, watch, armed, backoff, req, got>>

Held(m) == {i \in Shards : file[m][i] # NoFile}

\* probe_mirror_health opens its own handles: whether the drive serves them.
Healthy(m) == Held(m) # {} /\ \A i \in Held(m) : Opens(m, i) /\ SizeOf(disk[m][i]) = 2

\* set_sources: every source has a fresh verdict and carries nothing, and the
\* watch thread starts over.
SetSources ==
    /\ errs' = [m \in Mirrors |-> 0]
    /\ inflight' = [m \in Mirrors |-> 0]
    /\ backoff' = [m \in Mirrors |-> 0]
    /\ armed' = {}

\* add_mirror takes a file that is open at the primary's size.
AddMirror(i, m) == file[m][i] # NoFile /\ SizeOf(table[file[m][i]].bytes) = SizeOf(table[file[0][i]].bytes)

\* configure_io_sources: set_sources, then a mirror that fails its health probe
\* is dropped, then every file that can be is registered.
ConfigureSources ==
    /\ phase = "mirrored"
    /\ SetSources
    /\ dropped' = {m \in Mirrors : Held(m) # {} /\ ~Healthy(m)}
    /\ alts' = {p \in Shards \X Mirrors : AddMirror(p[1], p[2])}
    /\ phase' = "ready"
    /\ UNCHANGED <<disk, on, falls, table, file, watch, req, got>>

\* stop, then ShardSet::close: the watch thread is joined, every request has
\* been answered, every File closes its handle.
CloseAll ==
    /\ phase \in {"ready", "failed"}
    /\ watch = Asleep
    /\ \A r \in Reqs : req[r] = Idle
    /\ table' = [d \in Fds |-> IF \E s \in AllSources, i \in Shards : file[s][i] = d THEN Closed ELSE table[d]]
    /\ file' = [s \in AllSources |-> [i \in Shards |-> NoFile]]
    /\ alts' = {}
    /\ phase' = "down"
    /\ UNCHANGED <<disk, on, falls, errs, dropped, inflight, watch, armed, backoff, req, got>>

(* -------------------------------- drives -------------------------------- *)

\* external: a mirror's drive falls off the bus.  Every descriptor on it is
\* dead, and stays so when the drive returns.
DriveFalls(m) ==
    /\ on[m]
    /\ falls < MaxFalls
    /\ falls' = falls + 1
    /\ on' = [on EXCEPT ![m] = FALSE]
    /\ table' = [d \in Fds |-> IF table[d] # Closed /\ table[d].src = m
                               THEN [table[d] EXCEPT !.dead = TRUE] ELSE table[d]]
    /\ UNCHANGED <<phase, disk, file, alts, errs, dropped, inflight, watch, armed, backoff, req, got>>

\* It returns with whatever it then holds.  A start checks sizes only, so what
\* it finds at the right size is taken to be the primary's bytes.
DriveReturns(m) ==
    /\ ~on[m]
    /\ on' = [on EXCEPT ![m] = TRUE]
    /\ \E held \in Returns :
          /\ phase = "ready" \/ \A i \in Shards : held[i] # "other"
          /\ disk' = [disk EXCEPT ![m] = held]
    /\ UNCHANGED <<phase, falls, table, file, alts, errs, dropped, inflight, watch, armed, backoff, req, got>>

(* -------------------------------- reading ------------------------------- *)

Candidates(i) == {0} \cup {m \in Mirrors : <<i, m>> \in alts /\ m \notin dropped}

\* submit: a whole request is charged to its source under the lock it was
\* routed under; a striped one keeps the mask and is charged later.
Submit(r) ==
    /\ phase = "ready"
    /\ req[r] = Idle
    /\ got[r] = "none"
    /\ \E i \in Shards :
          \/ \E s \in Candidates(i) :
                /\ req' = [req EXCEPT ![r] = <<"reading", i, s, {}>>]
                /\ inflight' = IF s = 0 THEN inflight ELSE [inflight EXCEPT ![s] = @ + 1]
          \/ /\ Candidates(i) # {0}
             /\ req' = [req EXCEPT ![r] = <<"striping", i, 0, Candidates(i)>>]
             /\ UNCHANGED inflight
    /\ UNCHANGED <<phase, disk, on, falls, table, file, alts, errs, dropped, watch, armed, backoff, got>>

\* submit's second lock: the chunk goes to a source of the mask.
Stripe(r) ==
    /\ req[r][1] = "striping"
    /\ \E s \in req[r][4] :
          /\ req' = [req EXCEPT ![r] = <<"reading", req[r][2], s, {}>>]
          /\ inflight' = IF s = 0 THEN inflight ELSE [inflight EXCEPT ![s] = @ + 1]
    /\ UNCHANGED <<phase, disk, on, falls, table, file, alts, errs, dropped, watch, armed, backoff, got>>

\* note_error: the error that spends the budget drops the mirror.
NoteError(m) ==
    /\ errs' = IF m \in dropped THEN errs ELSE [errs EXCEPT ![m] = @ + 1]
    /\ dropped' = IF errs[m] + 1 >= ErrorBudget THEN dropped \cup {m} ELSE dropped

\* finish: a mirror's failure is read again from the primary.
Finish(r) ==
    /\ req[r][1] = "reading"
    /\ LET i == req[r][2]
           s == req[r][3]
           h == table[file[s][i]]
       IN  /\ inflight' = IF s = 0 THEN inflight ELSE [inflight EXCEPT ![s] = @ - 1]
           /\ IF s # 0 /\ h.dead
              THEN /\ NoteError(s)
                   /\ req' = [req EXCEPT ![r] = <<"reading", i, 0, {}>>]
                   /\ UNCHANGED got
              ELSE /\ errs' = IF s = 0 THEN errs ELSE [errs EXCEPT ![s] = 0]
                   /\ got' = [got EXCEPT ![r] = h.bytes]
                   /\ req' = [req EXCEPT ![r] = Idle]
                   /\ UNCHANGED dropped
    /\ UNCHANGED <<phase, disk, on, falls, table, file, alts, watch, armed, backoff>>

(* ------------------------------ taking back ----------------------------- *)

\* mirror_watch finds a dropped mirror: the first look only sets a time, later
\* ones try, with the reads from before the drop all back.  (Only readmission
\* takes a mirror out of `dropped`, and clears its time with it.)
WatchArm(m) ==
    /\ phase = "ready"
    /\ watch = Asleep
    /\ m \in dropped
    /\ m \notin armed
    /\ armed' = armed \cup {m}
    /\ backoff' = [backoff EXCEPT ![m] = Min({@ + 1, MaxDoublings})]
    /\ UNCHANGED <<phase, disk, on, falls, table, file, alts, errs, dropped, inflight, watch, req, got>>

\* readmit_source fails: the mirror stays out, the next try is later.
Unusable(m) ==
    /\ watch' = Asleep
    /\ backoff' = [backoff EXCEPT ![m] = Min({@ + 1, MaxDoublings})]

ReadmitStart(m) ==
    /\ phase = "ready"
    /\ watch = Asleep
    /\ m \in dropped \cap armed
    /\ IF inflight[m] # 0 \/ Held(m) = {}
       THEN Unusable(m)
       ELSE watch' = <<"open", m, Min(Held(m)), 0>> /\ UNCHANGED backoff
    /\ UNCHANGED <<phase, disk, on, falls, table, file, alts, errs, dropped, inflight, armed, req, got>>

\* reopen, its first half: a fresh open of the path, under a descriptor of its own.
ReopenOpens ==
    /\ watch[1] = "open"
    /\ LET m == watch[2]
           i == watch[3]
       IN  IF Opens(m, i)
           THEN /\ table' = [table EXCEPT ![NewFd] = Handle(m, i)]
                /\ watch' = <<"dup", m, i, NewFd>>
                /\ UNCHANGED backoff
           ELSE Unusable(m) /\ UNCHANGED table
    /\ UNCHANGED <<phase, disk, on, falls, file, alts, errs, dropped, inflight, armed, req, got>>

\* reopen, its second half: the size has to match, then dup3 puts the fresh open
\* under the old value in one step, and the extra descriptor is closed either way.
ReopenDupKeepsOpen ==
    LET m == watch[2]
        i == watch[3]
    IN  IF SizeOf(table[watch[4]].bytes) = 2
        THEN /\ table' = [table EXCEPT ![file[m][i]] = table[watch[4]], ![watch[4]] = Closed]
             /\ watch' = <<"compare", m, i, 0>>
             /\ UNCHANGED backoff
        ELSE Unusable(m) /\ UNCHANGED table

ReopenDup ==
    LET m == watch[2]
        i == watch[3]
    IN  IF SizeOf(table[watch[4]].bytes) = 2
        THEN /\ table' = [table EXCEPT ![file[m][i]] = table[watch[4]], ![watch[4]] = Closed]
             /\ watch' = <<"compare", m, i, 0>>
             /\ UNCHANGED backoff
        ELSE /\ table' = [table EXCEPT ![watch[4]] = Closed]
             /\ Unusable(m)

ReopenEnds ==
    /\ watch[1] = "dup"
    /\ ReopenDup
    /\ UNCHANGED <<phase, disk, on, falls, file, alts, errs, dropped, inflight, armed, req, got>>

\* readmit_source's page comparison, of this file and the primary's.
PageMatches(h) == ~h.dead /\ h.bytes = "same"

Later(m, i) == {j \in Held(m) : j > i}

\* The next file, or, after the last, back in the router with the full budget.
ReadmitCompare ==
    /\ watch[1] = "compare"
    /\ LET m == watch[2]
           i == watch[3]
       IN  IF ~PageMatches(table[file[m][i]])
           THEN Unusable(m) /\ UNCHANGED <<dropped, errs, armed>>
           ELSE IF Later(m, i) # {}
           THEN watch' = <<"open", m, Min(Later(m, i)), 0>> /\ UNCHANGED <<dropped, errs, armed, backoff>>
           ELSE /\ dropped' = dropped \ {m}
                /\ errs' = [errs EXCEPT ![m] = 0]
                /\ armed' = armed \ {m}
                /\ watch' = Asleep
                /\ UNCHANGED backoff
    /\ UNCHANGED <<phase, disk, on, falls, table, file, alts, inflight, req, got>>

Next ==
    \/ OpenAll \/ OpenMirrors \/ ConfigureSources \/ CloseAll
    \/ \E m \in Mirrors : DriveFalls(m) \/ DriveReturns(m) \/ WatchArm(m) \/ ReadmitStart(m)
    \/ ReopenOpens \/ ReopenEnds \/ ReadmitCompare
    \/ \E r \in Reqs : Submit(r) \/ Stripe(r) \/ Finish(r)

Spec == Init /\ [][Next]_srcVars

(* ------------------------------ properties ------------------------------ *)

Owned == {file[s][i] : s \in AllSources, i \in Shards} \ {NoFile}

\* Every open descriptor belongs to one File or to the reopen under way, every
\* open File's handle is that of its own path, and the start that failed or the
\* stop that ended leaves none: open, open_mirror and reopen close on every path.
HandlesExact ==
    /\ {d \in Fds : table[d] # Closed} = Owned \cup (IF watch[1] = "dup" THEN {watch[4]} ELSE {})
    /\ \A s \in AllSources, i \in Shards : file[s][i] # NoFile =>
          table[file[s][i]].src = s /\ table[file[s][i]].shard = i
    /\ phase = "down" => Owned = {}

\* "Byte-identical or nothing": whatever a drive holds when it comes back, every
\* file of a mirror in the router holds the primary's bytes or answers nothing,
\* and the primary's are never touched.
LiveMirrorsOwn ==
    phase = "ready" =>
       /\ \A i \in Shards : table[file[0][i]].bytes = "same" /\ ~table[file[0][i]].dead
       /\ \A p \in alts : p[2] \notin dropped =>
             LET h == table[file[p[2]][p[1]]] IN h.dead \/ h.bytes = "same"

==============================================================================
