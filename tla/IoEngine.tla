------------------------------ MODULE IoEngine ------------------------------
(* The I/O engine of src/storage/io_engine.cpp: four priority queues, chunks  *)
(* in flight, a primary and its mirrors, and one dispatcher thread. Callers   *)
(* submit and cancel from their own threads; a watcher thread readmits and    *)
(* rests mirrors. A critical section of mutex_ or src_mutex_ is a step.       *)
(*                                                                            *)
(* Chunks are all of one size, so a byte count is a number of chunks and the  *)
(* queue depths below stand for the tighter of the depth and the byte cap.    *)
EXTENDS Integers, Sequences, FiniteSets, FiniteSetsExt

CONSTANTS
    Reqs,          \* the requests callers may submit
    Class,         \* IoRequest::priority, 0 BlockingMiss .. 3 Backfill
    Chunks,        \* number of chunks plan_chunks makes of a request
    NumSources,    \* source 0 is the primary
    Weight,        \* src_weights_
    Mirrored,      \* requests whose shard every source holds
    RouteClasses,  \* route_classes_
    ErrorBudget,   \* SourceHealth::budget_
    P0Qd, BgQd, EngramQd, EngramWaitChunks, BgCapBusy,   \* tune_
    RingDepth,     \* the backend's max_queue_depth
    Unaligned,     \* requests submit may reject after routing
    NoDst,         \* requests submit may reject for a null destination
    Configs,       \* the configurations and drives explored: see conf
    Word           \* stands for 2^32 in outstanding_requests_

Source == 0 .. NumSources - 1
Mirror == Source \ {0}
Priority == 0 .. 3
P0 == 0
Lookahead == 1
Engram == 2
Backfill == 3

ASSUME IoAssumption ==
    /\ IsFiniteSet(Reqs)
    /\ Class \in [Reqs -> Priority]
    /\ Chunks \in [Reqs -> Nat \ {0}]
    /\ NumSources \in Nat \ {0}
    /\ Weight \in [Source -> Nat \ {0}]
    /\ RouteClasses \subseteq Priority
    /\ Mirrored \subseteq Reqs /\ Unaligned \subseteq Reqs /\ NoDst \subseteq Reqs
    /\ Configs \subseteq [submits : SUBSET Reqs, cancels : SUBSET Reqs, failing : SUBSET Source,
                         stripe : BOOLEAN, keepAlive : BOOLEAN, watched : BOOLEAN]
    /\ ErrorBudget \in Nat \ {0}
    /\ {P0Qd, BgQd, EngramQd} \subseteq 1 .. RingDepth
    /\ {EngramWaitChunks, BgCapBusy, RingDepth, Word} \subseteq Nat \ {0}
    /\ Cardinality(Reqs) < Word

VARIABLES
    conf,        \* the requests that come and those that may be cancelled, the sources
                 \* that may fail, stripe_, the keep-alive, and whether the mirror
                 \* watcher runs; never changes
    st,          \* where a request is: see Stage
    p,           \* struct Pending
    queue,       \* queues_
    flying,      \* chunk_owner_
    outstanding, \* outstanding_requests_
    calls,       \* how often a request's callback has run (ghost)
    disp,        \* where the dispatcher is, and with which request
    srcOut,      \* src_outstanding_
    srcInflight, \* src_inflight_
    dropped, errs,  \* SourceHealth
    resting,     \* ThermalGate
    poke,        \* sources with a keep-alive read outstanding
    watch,       \* the mirror readmit_source is probing, 0 if none
    recent,      \* the last P0 submit is less than kBackgroundQuiet ago
    waiters,     \* engram_waiters_ # 0
    running      \* running_; stopping_ is its negation

srcVars == <<srcOut, srcInflight, dropped, errs>>
modeVars == <<recent, waiters, running>>
ioVars == <<conf, st, p, queue, flying, outstanding, calls, disp, srcVars, resting,
            poke, watch, modeVars>>

\* A request's life, seen from its caller: submit has routed it, striped it or
\* queued it; cancel has taken it out and has not yet called back; or it is over.
Stage == {"new", "routed", "striped", "live", "cancelled", "over", "refused"}

\* A Pending with no source chosen. chunkSrc is empty when it is not striped.
Blank == [source |-> 0, routed |-> FALSE, primary |-> FALSE, mask |-> {},
          chunkSrc |-> <<>>, charged |-> [s \in Source |-> 0],
          next |-> 0, issued |-> 0, done |-> 0, failed |-> FALSE, srcErr |-> {}]

IoInit ==
    /\ conf \in Configs
    /\ st = [r \in Reqs |-> "new"]
    /\ p = [r \in Reqs |-> Blank]
    /\ queue = [c \in Priority |-> <<>>]
    /\ flying = {}
    /\ outstanding = 0
    /\ calls = [r \in Reqs |-> 0]
    /\ disp = [pc |-> "loop", req |-> CHOOSE r \in Reqs : TRUE]
    /\ srcOut = [s \in Source |-> 0]
    /\ srcInflight = [s \in Source |-> 0]
    /\ dropped = {} /\ errs = [s \in Source |-> 0]
    /\ resting = {} /\ poke = {} /\ watch = 0
    /\ recent = FALSE /\ waiters = FALSE /\ running = TRUE

-----------------------------------------------------------------------------
(* submit *)

\* pick_source: the least (outstanding + bytes) / weight, ties to the lowest.
PickSource(out, mask, bytes) ==
    CHOOSE s \in mask : \A t \in mask :
       LET a == (out[s] + bytes) * Weight[t]
           b == (out[t] + bytes) * Weight[s]
       IN  a < b \/ (a = b /\ s <= t)

\* Bytes given back to a source never take its count below zero.
Less(a, b) == IF a >= b THEN a - b ELSE 0

\* The first critical section: which drive, charged at once unless the request
\* is to be striped.
SubmitRoute(r) ==
    /\ st[r] = "new" /\ running /\ r \in conf.submits
    /\ LET mask == Source \ (dropped \cup resting)
           route == r \in Mirrored /\ Class[r] \in RouteClasses
           s == PickSource(srcOut, mask, Chunks[r])
       IN  \/ /\ ~route
              /\ UNCHANGED <<p, srcOut, srcInflight>>
           \/ /\ route /\ conf.stripe /\ Class[r] = P0 /\ Cardinality(mask) > 1
              /\ p' = [p EXCEPT ![r] = [@ EXCEPT !.mask = mask]]
              /\ UNCHANGED <<srcOut, srcInflight>>
           \/ /\ route /\ ~(conf.stripe /\ Class[r] = P0 /\ Cardinality(mask) > 1)
              /\ p' = [p EXCEPT ![r] = [@ EXCEPT !.source = s, !.routed = TRUE,
                                                 !.primary = (s # 0)]]
              /\ srcOut' = [srcOut EXCEPT ![s] = @ + Chunks[r]]
              /\ srcInflight' = [srcInflight EXCEPT ![s] = @ + 1]
    /\ st' = [st EXCEPT ![r] = "routed"]
    /\ UNCHANGED <<queue, flying, outstanding, calls, disp, dropped, errs, resting,
                   poke, watch, modeVars>>

\* A request without a destination or a length is rejected before RouteGuard
\* exists: what SubmitRoute charged stays charged.
SubmitNoDst(r) ==
    /\ st[r] = "routed" /\ r \in NoDst
    /\ st' = [st EXCEPT ![r] = "refused"]
    /\ UNCHANGED <<p, queue, flying, outstanding, calls, disp, srcVars, resting,
                   poke, watch, modeVars>>

\* Mutant: no RouteGuard, the charge of a rejected request stays.
SubmitRejectUnguarded(r) ==
    /\ st[r] = "routed" /\ r \in Unaligned
    /\ st' = [st EXCEPT ![r] = "refused"]
    /\ p' = [p EXCEPT ![r] = Blank]
    /\ UNCHANGED <<queue, flying, outstanding, calls, disp, srcVars, resting,
                   poke, watch, modeVars>>

\* A misaligned request, or one past the end of the file: RouteGuard gives the
\* charge back.
SubmitReject(r) ==
    /\ st[r] = "routed" /\ r \in Unaligned
    /\ st' = [st EXCEPT ![r] = "refused"]
    /\ p' = [p EXCEPT ![r] = Blank]
    /\ IF p[r].routed
       THEN /\ srcOut' = [srcOut EXCEPT ![p[r].source] = Less(@, Chunks[r])]
            /\ srcInflight' = [srcInflight EXCEPT ![p[r].source] = Less(@, 1)]
       ELSE UNCHANGED <<srcOut, srcInflight>>
    /\ UNCHANGED <<queue, flying, outstanding, calls, disp, dropped, errs, resting,
                   poke, watch, modeVars>>

\* How many of a striped request's chunks are assigned to s.
Share(assigned, s) == Cardinality({i \in DOMAIN assigned : assigned[i] = s})

\* The greedy assignment of n chunks: each to the source that would finish it
\* first, counting the chunks assigned before it.
Striping(mask, n) ==
    LET assign[i \in 0 .. n] ==
          IF i = 0 THEN <<>>
          ELSE LET before == assign[i - 1]
                   out == [s \in Source |-> srcOut[s] + Share(before, s)]
               IN  Append(before, PickSource(out, mask, 1))
    IN  assign[n]

SubmitStripe(r) ==
    /\ st[r] = "routed" /\ p[r].mask # {}
    /\ LET assigned == Striping(p[r].mask, Chunks[r])
           used == {assigned[i] : i \in DOMAIN assigned}
       IN  /\ srcOut' = [s \in Source |-> srcOut[s] + Share(assigned, s)]
           /\ srcInflight' = [s \in Source |->
                                srcInflight[s] + (IF s \in used THEN 1 ELSE 0)]
           /\ p' = [p EXCEPT ![r] =
                      [@ EXCEPT !.mask = {}, !.chunkSrc = assigned,
                                !.charged = [s \in Source |-> Share(assigned, s)],
                                !.primary = (used # {0})]]
    /\ st' = [st EXCEPT ![r] = "striped"]
    /\ UNCHANGED <<queue, flying, outstanding, calls, disp, dropped, errs, resting,
                   poke, watch, modeVars>>

SubmitEnqueue(r) ==
    /\ st[r] = "striped" \/ (st[r] = "routed" /\ p[r].mask = {})
    /\ st' = [st EXCEPT ![r] = "live"]
    /\ queue' = [queue EXCEPT ![Class[r]] = Append(@, r)]
    /\ outstanding' = (outstanding + 1) % Word
    /\ recent' = (recent \/ Class[r] = P0)
    /\ UNCHANGED <<p, flying, calls, disp, srcVars, resting, poke, watch, waiters, running>>

-----------------------------------------------------------------------------
(* cancel *)

\* A queue without r, which is in it at most once.
Remove(q, r) ==
    LET at == {i \in DOMAIN q : q[i] = r}
    IN  IF at = {} THEN q
        ELSE LET i == CHOOSE i \in at : TRUE
             IN  SubSeq(q, 1, i - 1) \o SubSeq(q, i + 1, Len(q))
InQueue(r) == \E i \in DOMAIN queue[Class[r]] : queue[Class[r]][i] = r

\* A queued request none of whose chunks has been issued is taken out.
Cancel(r) ==
    /\ r \in conf.cancels /\ st[r] = "live"
    /\ InQueue(r) /\ p[r].next = 0
    /\ st' = [st EXCEPT ![r] = "cancelled"]
    /\ queue' = [queue EXCEPT ![Class[r]] = Remove(@, r)]
    /\ outstanding' = (outstanding - 1) % Word
    /\ UNCHANGED <<p, flying, calls, disp, srcVars, resting, poke, watch, modeVars>>

\* The rest of cancel, outside the lock: a striped request's charges go back and
\* its callback runs, on the caller's thread.
CancelReport(r) ==
    /\ st[r] = "cancelled"
    /\ LET used == {p[r].chunkSrc[i] : i \in DOMAIN p[r].chunkSrc}
       IN  /\ srcOut' = [s \in Source |->
                           IF s \in used THEN Less(srcOut[s], p[r].charged[s]) ELSE srcOut[s]]
           /\ srcInflight' = [s \in Source |->
                                IF s \in used THEN Less(srcInflight[s], 1) ELSE srcInflight[s]]
    /\ p' = [p EXCEPT ![r] = [@ EXCEPT !.charged = [s \in Source |-> 0], !.chunkSrc = <<>>]]
    /\ calls' = [calls EXCEPT ![r] = @ + 1]
    /\ st' = [st EXCEPT ![r] = "over"]
    /\ UNCHANGED <<queue, flying, outstanding, disp, dropped, errs, resting, poke,
                   watch, modeVars>>

-----------------------------------------------------------------------------
(* The dispatcher *)

FullyIssued(r) == p[r].next >= Chunks[r]

\* Requests with nothing left to issue leave from the front of their queues.
Trim(q) ==
    [c \in Priority |->
       LET waiting == {i \in DOMAIN q[c] : ~FullyIssued(q[c][i])}
       IN  IF waiting = {} THEN <<>>
           ELSE SubSeq(q[c], CHOOSE i \in waiting : \A j \in waiting : i <= j, Len(q[c]))]

Ops == Cardinality(flying)
ClassOps(c) == Cardinality({f \in flying : Class[f.req] = c})
RescueQd == LET deep == P0Qd + EngramWaitChunks IN IF EngramQd <= deep THEN EngramQd ELSE deep

\* Mutant: Engram rows pass the P0 backlog whether or not anyone waits for them.
RescueUnasked(q) ==
    /\ q[P0] # <<>> /\ q[Engram] # <<>>
    /\ Ops < RescueQd
    /\ ClassOps(Engram) < EngramWaitChunks

\* Engram rows pass the P0 backlog while the GPU waits for them.
Rescue(q) ==
    /\ waiters
    /\ q[P0] # <<>> /\ q[Engram] # <<>>
    /\ Ops < RescueQd
    /\ ClassOps(Engram) < EngramWaitChunks

\* The request issue_ready_chunks turns to: the only one it considers.
Turn(q) ==
    IF Rescue(q) THEN Head(q[Engram])
    ELSE Head(q[CHOOSE c \in Priority : q[c] # <<>> /\ \A d \in Priority : q[d] # <<>> => c <= d])

DepthCap(q, c) ==
    IF Rescue(q) THEN RescueQd
    ELSE CASE c = P0      -> P0Qd
           [] c = Engram  -> EngramQd
           [] OTHER       -> BgQd

\* The idle-time classes hold at most BgCapBusy chunks while P0 work is recent.
Throttled(c) ==
    /\ c \in {Lookahead, Backfill}
    /\ recent
    /\ ClassOps(Lookahead) + ClassOps(Backfill) >= BgCapBusy

MayIssue(q) ==
    /\ \E c \in Priority : q[c] # <<>>
    /\ LET c == Class[Turn(q)] IN Ops < DepthCap(q, c) /\ ~Throttled(c)

AtLoop == disp.pc = "loop"

\* Chunks and pokes the backend holds; a chunk it refused is in failed_q_.
RingUsed == Cardinality({f \in flying : ~f.refused}) + Cardinality(poke)

\* Issue one chunk of the request whose turn it is: charge it, and hand it to
\* the backend, which refuses it when its ring is full.
Issue ==
    LET q == Trim(queue)
        r == Turn(q)
        i == p[r].next + 1
        striped == p[r].chunkSrc # <<>>
    IN  /\ AtLoop
        /\ MayIssue(q)
        /\ p' = [p EXCEPT ![r] = [p[r] EXCEPT !.next = i, !.issued = @ + 1]]
        /\ flying' = flying \cup
              {[req |-> r, chunk |-> i, striped |-> striped,
                src |-> IF striped THEN p[r].chunkSrc[i] ELSE p[r].source,
                refused |-> RingUsed >= RingDepth]}
        /\ queue' = IF i = Chunks[r] THEN [q EXCEPT ![Class[r]] = Tail(@)] ELSE q
        /\ UNCHANGED <<st, outstanding, calls, disp, srcVars, resting, poke, watch, modeVars>>

\* An iteration of the loop that issues nothing still trims the queues.
IssueNothing ==
    /\ AtLoop
    /\ ~MayIssue(Trim(queue))
    /\ Trim(queue) # queue
    /\ queue' = Trim(queue)
    /\ UNCHANGED <<st, p, flying, outstanding, calls, disp, srcVars, resting, poke,
                   watch, modeVars>>

\* Mutant: a request is finished once nothing is left to issue, with chunks of it
\* still in flight.
HandleCompletionEarly(f, ok) ==
    LET r == f.req
        failed == p[r].failed \/ ~ok
        next == IF ok \/ p[r].failed THEN p[r].next ELSE Chunks[r]
        back == IF p[r].charged[f.src] = 0 THEN 0 ELSE 1
    IN  /\ AtLoop /\ f \in flying
        /\ flying' = flying \ {f}
        /\ p' = [p EXCEPT ![r] =
                   [p[r] EXCEPT !.done = @ + 1, !.failed = failed, !.next = next,
                                !.charged[f.src] = IF f.striped THEN @ - back ELSE @,
                                !.srcErr = IF f.striped /\ ~ok THEN @ \cup {f.src} ELSE @]]
        /\ srcOut' = IF f.striped THEN [srcOut EXCEPT ![f.src] = Less(@, back)] ELSE srcOut
        /\ disp' = IF next = Chunks[r] THEN [pc |-> "finish", req |-> r] ELSE disp
        /\ UNCHANGED <<st, queue, outstanding, calls, srcInflight, dropped, errs,
                       resting, poke, watch, modeVars>>

\* handle_completion. The first failure abandons the chunks not yet issued; the
\* request is finished when every issued chunk has come back.
HandleCompletion(f, ok) ==
    LET r == f.req
        failed == p[r].failed \/ ~ok
        next == IF ok \/ p[r].failed THEN p[r].next ELSE Chunks[r]
        back == IF p[r].charged[f.src] = 0 THEN 0 ELSE 1
    IN  /\ AtLoop /\ f \in flying
        /\ flying' = flying \ {f}
        /\ p' = [p EXCEPT ![r] =
                   [p[r] EXCEPT !.done = @ + 1, !.failed = failed, !.next = next,
                                !.charged[f.src] = IF f.striped THEN @ - back ELSE @,
                                !.srcErr = IF f.striped /\ ~ok THEN @ \cup {f.src} ELSE @]]
        /\ srcOut' = IF f.striped THEN [srcOut EXCEPT ![f.src] = Less(@, back)] ELSE srcOut
        /\ disp' = IF p[r].done + 1 = p[r].issued /\ next = Chunks[r]
                   THEN [pc |-> "finish", req |-> r] ELSE disp
        /\ UNCHANGED <<st, queue, outstanding, calls, srcInflight, dropped, errs,
                       resting, poke, watch, modeVars>>

\* A read comes back; a refused chunk comes back failed through failed_q_.
Complete(f) ==
    \/ ~f.refused /\ HandleCompletion(f, TRUE)
    \/ (f.refused \/ f.src \in conf.failing) /\ HandleCompletion(f, FALSE)

\* SourceHealth after the sources in bad failed and those in good answered.
NoteResults(good, bad) ==
    LET count == [s \in Source |->
                    CASE s \in good \ {0}                -> 0
                      [] s \in bad \ ({0} \cup dropped)  -> errs[s] + 1
                      [] OTHER                           -> errs[s]]
    IN  /\ dropped' = dropped \cup {s \in bad \ {0} : count[s] >= ErrorBudget}
        /\ errs' = count

\* Mutant: the primary's handle is not cleared, so its failure is retried too.
RetryForever == [Blank EXCEPT !.primary = TRUE]

\* A request reset to be read again: from the primary, unstriped, and only once.
Retry == Blank

\* finish, up to its decision: the sources are credited, and a request whose
\* mirror failed is reset to be read again from the primary.
Finish ==
    LET r == disp.req
        striped == p[r].chunkSrc # <<>>
        used == {p[r].chunkSrc[i] : i \in DOMAIN p[r].chunkSrc}
        retry == /\ p[r].primary /\ p[r].failed
                 /\ ~striped \/ p[r].srcErr \ {0} # {}
    IN  /\ disp.pc = "finish"
        /\ IF p[r].routed
           THEN /\ srcOut' = [srcOut EXCEPT ![p[r].source] = Less(@, Chunks[r])]
                /\ srcInflight' = [srcInflight EXCEPT ![p[r].source] = Less(@, 1)]
                /\ IF p[r].failed THEN NoteResults({}, {p[r].source})
                                  ELSE NoteResults({p[r].source}, {})
           ELSE /\ srcOut' = [s \in Source |->
                                IF s \in used THEN Less(srcOut[s], p[r].charged[s]) ELSE srcOut[s]]
                /\ srcInflight' = [s \in Source |->
                                     IF s \in used THEN Less(srcInflight[s], 1) ELSE srcInflight[s]]
                /\ NoteResults(used \ p[r].srcErr, p[r].srcErr)
        /\ p' = [p EXCEPT ![r] = IF retry THEN Retry
                                 ELSE [Blank EXCEPT !.next = Chunks[r]]]
        /\ disp' = [disp EXCEPT !.pc = IF retry THEN "requeue" ELSE "callback"]
        /\ UNCHANGED <<st, queue, flying, outstanding, calls, resting, poke, watch, modeVars>>

\* Mutant: the failed attempt is settled although the request will be read again.
RequeueSettled ==
    LET r == disp.req
    IN  /\ disp.pc = "requeue"
        /\ queue' = [queue EXCEPT ![Class[r]] = <<r>> \o Remove(@, r)]
        /\ outstanding' = (outstanding - 1) % Word
        /\ disp' = [disp EXCEPT !.pc = "loop"]
        /\ UNCHANGED <<st, p, flying, calls, srcVars, resting, poke, watch, modeVars>>

\* The retry goes to the front of its class.
Requeue ==
    LET r == disp.req
    IN  /\ disp.pc = "requeue"
        /\ queue' = [queue EXCEPT ![Class[r]] = <<r>> \o Remove(@, r)]
        /\ disp' = [disp EXCEPT !.pc = "loop"]
        /\ UNCHANGED <<st, p, flying, outstanding, calls, srcVars, resting, poke,
                       watch, modeVars>>

\* The callback runs before the request stops counting as outstanding.
Callback ==
    /\ disp.pc = "callback"
    /\ calls' = [calls EXCEPT ![disp.req] = @ + 1]
    /\ disp' = [disp EXCEPT !.pc = "settle"]
    /\ UNCHANGED <<st, p, queue, flying, outstanding, srcVars, resting, poke, watch, modeVars>>

Settle ==
    /\ disp.pc = "settle"
    /\ outstanding' = (outstanding - 1) % Word
    /\ st' = [st EXCEPT ![disp.req] = "over"]
    /\ disp' = [disp EXCEPT !.pc = "loop"]
    /\ UNCHANGED <<p, queue, flying, calls, srcVars, resting, poke, watch, modeVars>>

\* tick_keepalive: poke an idle mirror, one read at a time; a full ring refuses
\* it and nothing changes.
TickKeepAlive(s) ==
    /\ AtLoop /\ conf.keepAlive /\ running
    /\ s \in Mirror \ (dropped \cup poke)
    /\ srcInflight[s] = 0
    /\ RingUsed < RingDepth
    /\ poke' = poke \cup {s}
    /\ UNCHANGED <<st, p, queue, flying, outstanding, calls, disp, srcVars, resting,
                   watch, modeVars>>

FinishKeepAlive(s) ==
    /\ AtLoop /\ s \in poke
    /\ poke' = poke \ {s}
    /\ UNCHANGED <<st, p, queue, flying, outstanding, calls, disp, srcVars, resting,
                   watch, modeVars>>

DispatcherExit ==
    /\ AtLoop /\ ~running
    /\ outstanding = 0 /\ poke = {}
    /\ disp' = [disp EXCEPT !.pc = "exit"]
    /\ UNCHANGED <<st, p, queue, flying, outstanding, calls, srcVars, resting, poke,
                   watch, modeVars>>

-----------------------------------------------------------------------------
(* The watcher thread, the other callers, and time *)

\* readmit_source in its two critical sections: no read from before the drop may
\* still be out; then the shards are reopened and compared without the lock.
ReadmitCheck(s) ==
    /\ conf.watched /\ running /\ watch = 0
    /\ s \in dropped /\ srcInflight[s] = 0
    /\ watch' = s
    /\ UNCHANGED <<st, p, queue, flying, outstanding, calls, disp, srcVars, resting,
                   poke, modeVars>>

\* ok: every shard reopened and holds the primary's bytes.
ReadmitEnd(ok) ==
    /\ watch # 0
    /\ watch' = 0
    /\ dropped' = IF ok THEN dropped \ {watch} ELSE dropped
    /\ errs' = IF ok THEN [errs EXCEPT ![watch] = 0] ELSE errs
    /\ UNCHANGED <<st, p, queue, flying, outstanding, calls, disp, srcOut,
                   srcInflight, resting, poke, modeVars>>

\* A reading of a mirror's sensor rests it, or lets it back. Only submit looks at
\* resting, so a change that no submit can see is left out.
ThermalUpdate(s) ==
    /\ conf.watched /\ running /\ watch = 0
    /\ \E r \in Mirrored \cap conf.submits : st[r] = "new"
    /\ s \in Mirror \ dropped
    /\ resting' = IF s \in resting THEN resting \ {s} ELSE resting \cup {s}
    /\ UNCHANGED <<st, p, queue, flying, outstanding, calls, disp, srcVars, poke,
                   watch, modeVars>>

\* The startup probe takes a mirror out, before anything is submitted.
DropSource(s) ==
    /\ running /\ s \in Mirror \ dropped
    /\ \A r \in Reqs : st[r] = "new"
    /\ dropped' = dropped \cup {s}
    /\ UNCHANGED <<st, p, queue, flying, outstanding, calls, disp, srcOut,
                   srcInflight, errs, resting, poke, watch, modeVars>>

\* EngramWait's lifetime: the reader of rows it has submitted starts to wait for
\* them, and stops when they are there.
EngramWait ==
    LET waited == \E r \in Reqs : Class[r] = Engram /\ st[r] = "live" /\ calls[r] = 0
    IN  waiters # waited /\ waiters' = waited
    /\ UNCHANGED <<st, p, queue, flying, outstanding, calls, disp, srcVars, resting,
                   poke, watch, recent, running>>

\* kBackgroundQuiet passes without a P0 submit.
Quiet ==
    /\ recent
    /\ recent' = FALSE
    /\ UNCHANGED <<st, p, queue, flying, outstanding, calls, disp, srcVars, resting,
                   poke, watch, waiters, running>>

\* stop: the watcher is joined first, and no caller is inside submit.
Stop ==
    /\ running /\ watch = 0
    /\ \A r \in Reqs : st[r] \notin {"routed", "striped"}
    /\ running' = FALSE
    /\ UNCHANGED <<st, p, queue, flying, outstanding, calls, disp, srcVars, resting,
                   poke, watch, recent, waiters>>

Stopped == disp.pc = "exit" /\ UNCHANGED ioVars

Caller(r) ==
    \/ SubmitNoDst(r) \/ SubmitReject(r) \/ SubmitStripe(r) \/ SubmitEnqueue(r)
    \/ CancelReport(r)

Dispatcher ==
    \/ Issue \/ IssueNothing \/ Finish \/ Requeue \/ Callback \/ Settle
    \/ DispatcherExit
    \/ \E f \in flying : Complete(f)

IoStep ==
    \/ \E r \in Reqs : SubmitRoute(r) \/ Cancel(r) \/ Caller(r)
    \/ Dispatcher
    \/ \E s \in Mirror :
          \/ TickKeepAlive(s) \/ FinishKeepAlive(s)
          \/ ReadmitCheck(s) \/ ThermalUpdate(s) \/ DropSource(s)
    \/ \E ok \in BOOLEAN : ReadmitEnd(ok)
    \/ EngramWait \/ Quiet \/ Stop

IoNext == (IoStep /\ UNCHANGED conf) \/ Stopped

\* A caller inside submit or cancel returns, the dispatcher thread keeps
\* running, every chunk handed to a drive comes back and time passes.
IoFairness ==
    /\ WF_ioVars(Dispatcher /\ UNCHANGED conf)
    /\ WF_ioVars((Quiet \/ \E r \in Reqs : Caller(r)) /\ UNCHANGED conf)

IoSpec == IoInit /\ [][IoNext]_ioVars /\ IoFairness

-----------------------------------------------------------------------------
(* Properties *)

\* Every variable keeps its type.
IoTypeOK ==
    /\ st \in [Reqs -> Stage]
    /\ calls \in [Reqs -> 0 .. 2]
    /\ outstanding \in 0 .. Word - 1
    /\ dropped \subseteq Mirror /\ resting \subseteq Mirror /\ poke \subseteq Mirror
    /\ disp.pc \in {"loop", "finish", "requeue", "callback", "settle", "exit"}
    /\ watch \in Source
    /\ \A s \in Source : srcOut[s] \in Nat /\ srcInflight[s] \in Nat /\ errs[s] \in Nat

\* The requests holding a charge on source s: routed to it whole, or striped over
\* it and not yet credited by finish.
Holds(r, s) ==
    \/ p[r].routed /\ p[r].source = s
    \/ \E i \in DOMAIN p[r].chunkSrc : p[r].chunkSrc[i] = s

\* The bytes request r still holds on source s.
Owed(r, s) ==
    IF p[r].routed /\ p[r].source = s THEN Chunks[r] ELSE p[r].charged[s]

\* Two ways out of the engine forget the charge of a request routed whole:
\* submit's reject of a null destination, before RouteGuard exists, and cancel,
\* which gives back only the charges of a striped one.
Forgotten(r) ==
    /\ p[r].routed
    /\ \/ st[r] = "refused" /\ r \in NoDst
       \/ st[r] = "over" /\ r \in conf.cancels /\ p[r].next = 0

\* What a source is thought to carry is what requests hold on it, to the chunk,
\* and a request that is over holds nothing unless its charge was forgotten: the
\* striped chunks, finish, its failover and RouteGuard return every charge once.
ChargesExact ==
    /\ \A s \in Source :
          /\ srcOut[s] = MapThenSumSet(LAMBDA r : Owed(r, s), Reqs)
          /\ srcInflight[s] = Cardinality({r \in Reqs : Holds(r, s)})
    /\ \A r \in Reqs : st[r] \in {"refused", "over"} /\ ~Forgotten(r) =>
          \A s \in Source : Owed(r, s) = 0 /\ ~Holds(r, s)

\* When drain's condition holds, no drive is reading, no queue has anything to
\* issue, and of the requests that were ever queued the only ones without their
\* callback are those a cancel has taken out and not yet reported: cancel lowers
\* outstanding_requests_ first. Everything else calls back before it stops
\* counting, through any number of failovers.
DrainMeansSettled ==
    outstanding = 0 =>
       /\ flying = {}
       /\ \A r \in Reqs : st[r] \in {"live", "over"} => calls[r] = 1
       /\ \A r \in Reqs : ~InQueue(r) \/ FullyIssued(r)

\* No chunk of a lower class is issued while a P0 chunk waits, except Engram rows
\* the GPU is blocked on, and those never beyond EngramWaitChunks; idle-time
\* classes stay within BgCapBusy while P0 work is recent.
P0First ==
    [][\A f \in flying' \ flying :
          LET c == Class[f.req] IN
          /\ (\E r \in Reqs : Class[r] = P0 /\ InQueue(r) /\ ~FullyIssued(r)) =>
                c = P0 \/ (c = Engram /\ waiters /\ ClassOps(Engram) < EngramWaitChunks)
          /\ c \in {Lookahead, Backfill} /\ recent =>
                Cardinality({g \in flying' : Class[g.req] \in {Lookahead, Backfill}})
                   <= BgCapBusy]_ioVars

\* The request, seen by its caller: accepted from the moment it is queued until
\* its callback runs.
Phase(r) ==
    IF calls[r] > 0 THEN "answered"
    ELSE CASE st[r] = "refused"                -> "refused"
           [] st[r] \in {"live", "cancelled"}  -> "accepted"
           [] OTHER                            -> "new"

Service == INSTANCE IoService WITH
              phase <- [r \in Reqs |-> Phase(r)],
              writing <- {f.req : f \in flying}

\* The engine implements IoService: one callback per accepted request, and no
\* drive writes to a destination before acceptance or after the callback, with a
\* failed mirror read retried in between.
ImplementsIoService == Service!AbsSpec

\* Every request that submit takes is answered, whatever class it is in and
\* whichever drives fail: no lower class starves for good once callers stop
\* submitting, and a failover is not lost.
Answered == \A r \in Reqs : st[r] = "live" ~> calls[r] > 0

=============================================================================
