----------------------------- MODULE FillPlanner -----------------------------
(***************************************************************************)
(* store/planner.cpp over store/expert_store.cpp: demand fills and the P3  *)
(* backfill.                                                               *)
(*                                                                         *)
(* Two threads call into the planner. The submit thread plans a layer      *)
(* (plan_layer), waits for it (wait_layer), and starts or stops the        *)
(* backfill between layers. The IoEngine dispatcher delivers read          *)
(* completions one at a time; the callback of the last run of a fill       *)
(* either counts a demand fill out of its group or pumps the backfill.     *)
(* Either thread may be inside fetch. Each takes the store's mutex many    *)
(* times on the way, so each critical section is a step here and the       *)
(* other thread may run in between.                                        *)
(*                                                                         *)
(* The IoEngine is external: a submitted run completes, in any order, well *)
(* or badly; a submit may be refused. Faults says which of these happen.   *)
(***************************************************************************)
EXTENDS ExpertStore

CONSTANTS
    Routes,        \* the gate's decisions: sequences of distinct keys
    Order,         \* the order handed to start_backfill, hottest first
    Keep,          \* its keep argument: the per-turn reheat
    Inflights,     \* what its inflight argument may be
    Runs,          \* runs per expert
    DemandBase,    \* kDemandStampBase
    MaxLayers,     \* bound on plan_layer calls
    NumFetch,      \* bound on fetches alive at once
    Word,          \* the unsigned counters wrap here (2^32)
    Faults,        \* subset of {"read", "refuse", "submit", "timeout"}
    Modes          \* the modes set_resident_only switches to: subset of ModeSet

Thread == {"submit", "dispatch"}
ModeSet == {"Off", "Mask", "FixedMask"}   \* FixedMask: Mask with mask_cache_fixed_
Layer == 1 .. MaxLayers
FetchId == 1 .. NumFetch

ASSUME PlannerAssumption ==
    /\ \A r \in Routes : r \in Seq(Keys)
    /\ Order \in Seq(Keys)
    /\ Keep \in BOOLEAN
    /\ Inflights \subseteq Nat \ {0}
    /\ Runs \in 1 .. MaxRuns
    /\ DemandBase \in Stamp /\ Len(Order) < DemandBase
    /\ Keep => DemandBase + Len(Order) <= MaxStamp
    /\ MaxLayers \in Nat \ {0} /\ NumFetch \in Nat \ {0}
    /\ Word \in Nat /\ NumFetch + 2 < Word     \* one more fetch per thread
    /\ Faults \subseteq {"read", "refuse", "submit", "timeout"}
    /\ Modes \subseteq ModeSet
    /\ (\E m \in Modes : m # "Off") => MaxLayers <= MaxTimeline

VARIABLES
    th,        \* per thread: where it is, and the locals of the fetch it is in
    clock,     \* access_clock_
    layer,     \* plan_layer calls so far; the number of the current FetchGroup
    route,     \* the keys of the current layer
    todo,      \* those plan_layer has not looked at yet
    joined,    \* LayerPlan::joined
    hits,      \* LayerPlan::hits
    mask,      \* resident_only_ is Mask: misses are skipped, never waited for
    group,     \* the FetchGroups
    fetches,   \* the fetches with runs not yet reported
    bf,        \* the Backfill object
    outcome,   \* what wait_layer answered last
    asked,     \* the slots whose fill a layer asked for, hit or joined (history)
    settled    \* exact decoding began with room for a layer, and no wait has
               \* timed out since (history)

planVars == <<layer, route, joined, hits, mask, outcome>>
histVars == <<asked, settled>>
pvars == <<vars, th, clock, planVars, todo, group, fetches, bf, histVars>>

NoFetch == [key |-> DefaultKey, slot |-> NoSlot, stamp |-> 0, group |-> 0,
            ok |-> TRUE, flying |-> {}, unsent |-> 0]
Live(f) == fetches[f].slot # NoSlot

\* A thread at p, outside fetch.
Fresh(p) == [pc |-> p, ctx |-> "none", key |-> DefaultKey, stamp |-> 0,
             victims |-> <<>>, again |-> FALSE, fid |-> 0, err |-> "Ok"]

PlannerInit ==
    /\ Init
    /\ th = [t \in Thread |-> Fresh("idle")]
    /\ clock = DemandBase
    /\ layer = 0
    /\ route = <<>>
    /\ todo = <<>>
    /\ joined = <<>>
    /\ hits = {}
    /\ mask = FALSE
    /\ group = [g \in Layer |-> [pending |-> 0, failed |-> FALSE]]
    /\ fetches = [f \in FetchId |-> NoFetch]
    /\ bf = [started |-> FALSE, next |-> 1, inflight |-> 0, active |-> FALSE, max |-> 1]
    /\ outcome = "none"
    /\ asked = {} /\ settled = TRUE

At(t, p) == th[t].pc = p
Goto(t, p) == th' = [th EXCEPT ![t].pc = p]
Leave(t, p) == th' = [th EXCEPT ![t] = Fresh(p)]

\* fetch returns: error code e, or "Ok".
Return(t, e) == th' = [th EXCEPT ![t].pc = "ret", ![t].err = e]

-----------------------------------------------------------------------------
(* plan_layer, on the submit thread *)

StartLayer(r) ==
    /\ At("submit", "idle")
    /\ layer < MaxLayers
    /\ layer' = layer + 1
    /\ route' = r
    /\ todo' = r
    /\ joined' = <<>>
    /\ hits' = {}
    /\ outcome' = "none"
    /\ Leave("submit", "plan")
    /\ UNCHANGED <<vars, clock, mask, group, fetches, bf, histVars>>

\* What a miss goes through next depends on a local copy of fixed_cache().
Miss(k) ==
    /\ ~Resident(k)
    /\ th' = [th EXCEPT !["submit"].pc = IF fixedCache THEN "full" ELSE "held",
                        !["submit"].key = k]
    /\ UNCHANGED <<vars, todo, hits, asked>>

\* The stamp is drawn before the lookup, hit or miss. A masked layer will not
\* wait for its fills, so it guards its hits for the buffer it is about to
\* submit (guard_hits); guards count layers.
PlanLookup ==
    /\ At("submit", "plan")
    /\ todo # <<>>
    /\ clock < MaxStamp
    /\ clock' = IF fixedCache THEN clock ELSE clock + 1
    /\ LET k == Head(todo)
       IN  \/ /\ Lookup(k, clock', IF mask THEN layer ELSE 0)
              /\ hits' = hits \union {k}
              /\ asked' = IF fixedCache THEN asked ELSE asked \union {index[k]}
              /\ todo' = Tail(todo)
              /\ UNCHANGED th
           \/ Miss(k)
    /\ UNCHANGED <<layer, route, joined, mask, outcome, group, fetches, bf, settled>>

\* A fixed cache with no free slot admits nothing.
PlanFull ==
    /\ At("submit", "full")
    /\ \/ FreeSlots = 0 /\ todo' = Tail(todo) /\ Leave("submit", "plan")
       \/ FreeSlots # 0 /\ Goto("submit", "held") /\ UNCHANGED todo
    /\ UNCHANGED <<vars, clock, planVars, group, fetches, bf, histVars>>

\* Somebody is filling it already: no second read.
PlanJoin ==
    /\ At("submit", "held")
    /\ Held(th["submit"].key)
    /\ clock < MaxStamp
    /\ clock' = clock + 1
    /\ joined' = Append(joined, <<th["submit"].key, clock'>>)
    /\ todo' = Tail(todo)
    /\ Leave("submit", "plan")
    /\ UNCHANGED <<vars, layer, route, hits, mask, outcome, group, fetches, bf, histVars>>

PlanMiss ==
    /\ At("submit", "held")
    /\ ~Held(th["submit"].key)
    /\ Goto("submit", "room")
    /\ UNCHANGED <<vars, clock, planVars, todo, group, fetches, bf, histVars>>

\* free_slots() == 0, read in one critical section ...
PlanRoom ==
    /\ At("submit", "room")
    /\ Goto("submit", IF FreeSlots = 0 THEN "evict_lru" ELSE "fetch")
    /\ UNCHANGED <<vars, clock, planVars, todo, group, fetches, bf, histVars>>

\* ... and acted on in another.
PlanEvict ==
    /\ At("submit", "evict_lru")
    /\ EvictLru \/ (Evictable = {} /\ UNCHANGED vars)
    /\ Goto("submit", "fetch")
    /\ UNCHANGED <<clock, planVars, todo, group, fetches, bf, histVars>>

\* The fill is counted into the group before it is asked for.
PlanFetch ==
    /\ At("submit", "fetch")
    /\ group' = [group EXCEPT ![layer].pending = (@ + 1) % Word]
    /\ th' = [th EXCEPT !["submit"] = [@ EXCEPT !.pc = "begin", !.ctx = "plan",
                                                !.stamp = 0, !.again = FALSE]]
    /\ UNCHANGED <<vars, clock, planVars, todo, fetches, bf, histVars>>

-----------------------------------------------------------------------------
(* fetch, on either thread *)

\* begin_fill succeeds: the slot is aged from the moment it was asked for.
FetchBegin(t) ==
    /\ At(t, "begin")
    /\ BeginFill(th[t].key, "Cached", Runs)
    /\ clock' = IF th[t].stamp # 0 THEN clock ELSE clock + 1
    /\ clock' <= MaxStamp
    /\ \E f \in FetchId :
          /\ ~Live(f)
          /\ \A g \in FetchId : g < f => Live(g)
          /\ fetches' = [fetches EXCEPT ![f] =
                [key |-> th[t].key, slot |-> freeList[Len(freeList)],
                 stamp |-> IF th[t].stamp # 0 THEN th[t].stamp ELSE clock',
                 group |-> IF th[t].ctx = "plan" THEN layer ELSE 0,
                 ok |-> TRUE, flying |-> {}, unsent |-> Runs]]
          /\ th' = [th EXCEPT ![t].pc = "submit", ![t].fid = f]
    /\ LET s == freeList[Len(freeList)]
       IN  asked' = IF th[t].ctx = "plan" THEN asked \union {s} ELSE asked \ {s}
    /\ UNCHANGED <<planVars, todo, group, bf, settled>>

\* begin_fill refuses: ResourceExhausted is retried once, after a reclaim.
FetchRefused(t) ==
    /\ At(t, "begin")
    /\ \/ /\ cacheFrozen \/ (~Held(th[t].key) /\ freeList = <<>>)
          /\ IF th[t].again THEN Return(t, "ResourceExhausted") ELSE Goto(t, "reclaim")
       \/ /\ ~cacheFrozen
          /\ Held(th[t].key)
          /\ Return(t, "AlreadyExists")
    /\ UNCHANGED <<vars, clock, planVars, todo, group, fetches, bf, histVars>>

Oldest(S) == CHOOSE s \in S : \A u \in S :
                lastUse[s] < lastUse[u] \/ (lastUse[s] = lastUse[u] /\ s <= u)

\* reclaim(1): choose_victims over a snapshot of evictable(), over-asking by one.
FetchReclaim(t) ==
    /\ At(t, "reclaim")
    /\ \/ Evictable = {} /\ Return(t, "ResourceExhausted")
       \/ /\ Evictable # {}
          /\ LET first == Oldest(Evictable)
                 rest == Evictable \ {first}
             IN  th' = [th EXCEPT ![t].pc = "evict",
                           ![t].victims = IF rest = {} THEN <<first>>
                                                       ELSE <<first, Oldest(rest)>>]
    /\ UNCHANGED <<vars, clock, planVars, todo, group, fetches, bf, histVars>>

\* The victims in turn, until one goes; a victim may have changed since.
FetchEvict(t) ==
    /\ At(t, "evict")
    /\ LET rest == th[t].victims
       IN  \/ /\ rest # <<>>
              /\ Evict(Head(rest))
              /\ th' = [th EXCEPT ![t].pc = "begin", ![t].again = TRUE]
           \/ /\ rest # <<>>
              /\ Head(rest) \notin Evictable
              /\ th' = [th EXCEPT ![t].victims = Tail(rest)]
              /\ UNCHANGED vars
           \/ /\ rest = <<>>
              /\ Return(t, "ResourceExhausted")
              /\ UNCHANGED vars
    /\ UNCHANGED <<clock, planVars, todo, group, fetches, bf, histVars>>

\* One IoRequest per run.
FetchSubmit(t) ==
    /\ At(t, "submit")
    /\ LET f == th[t].fid
           run == fetches[f].unsent
       IN  /\ fetches' = [fetches EXCEPT ![f].flying = @ \union {run}, ![f].unsent = @ - 1]
           /\ IF run = 1 THEN Return(t, "Ok") ELSE UNCHANGED th
    /\ UNCHANGED <<vars, clock, planVars, todo, group, bf, histVars>>

\* The engine refuses the run (it is not running, or the read is invalid): it
\* and the ones after it will never be sent. "refuse": only a first run is.
FetchSubmitFails(t) ==
    /\ At(t, "submit")
    /\ LET first == fetches[th[t].fid].unsent = Runs
       IN  "submit" \in Faults \/ (first /\ "refuse" \in Faults)
    /\ fetches' = [fetches EXCEPT ![th[t].fid].ok = FALSE]
    /\ Goto(t, "undo")
    /\ UNCHANGED <<vars, clock, planVars, todo, group, bf, histVars>>

\* Mutant of FetchUndo: only the run that was refused is reported.
FetchUndoOne(t) ==
    /\ At(t, "undo")
    /\ LET f == th[t].fid
       IN  /\ FinishRun(fetches[f].slot, FALSE, fetches[f].stamp)
           /\ fetches' = [fetches EXCEPT ![f] = NoFetch]
           /\ Return(t, "Io")
    /\ UNCHANGED <<clock, planVars, todo, group, bf, histVars>>

\* Each unsent run is reported as failed; the runs in flight report themselves.
FetchUndo(t) ==
    /\ At(t, "undo")
    /\ LET f == th[t].fid
           x == fetches[f]
       IN  /\ FinishRun(x.slot, FALSE, x.stamp)
           /\ fetches' = [fetches EXCEPT ![f] = IF x.unsent = 1 /\ x.flying = {} THEN NoFetch
                                                ELSE [x EXCEPT !.unsent = @ - 1]]
           /\ IF x.unsent = 1 THEN Return(t, "Io") ELSE UNCHANGED th
    /\ UNCHANGED <<clock, planVars, todo, group, bf, histVars>>

\* plan_layer after fetch: an error takes the fill out of the group again.
PlanFetched ==
    /\ At("submit", "ret")
    /\ th["submit"].ctx = "plan"
    /\ group' = IF th["submit"].err = "Ok" THEN group
                ELSE [group EXCEPT ![layer].pending = (@ - 1) % Word]
    /\ todo' = Tail(todo)
    /\ Leave("submit", "plan")
    /\ UNCHANGED <<vars, clock, planVars, fetches, bf, histVars>>

-----------------------------------------------------------------------------
(* wait_layer, on the submit thread *)

Answer(o) ==
    /\ outcome' = o
    /\ Goto("submit", IF o = "ok" THEN "moe" ELSE "idle")

WaitGroup ==
    /\ At("submit", "plan")
    /\ todo = <<>>
    /\ ~mask
    /\ group[layer].pending = 0
    /\ \/ group[layer].failed /\ Answer("read failed")
       \/ ~group[layer].failed /\ Goto("submit", "join") /\ UNCHANGED outcome
    /\ UNCHANGED <<vars, clock, layer, route, joined, hits, mask, todo, group, fetches, bf,
                   histVars>>

\* wait_settled for the next joined fill ...
WaitSettled ==
    /\ At("submit", "join")
    /\ \/ joined = <<>> /\ Answer("ok")
       \/ /\ joined # <<>> /\ Resident(Head(joined)[1])
          /\ Goto("submit", "touch")
          /\ UNCHANGED outcome
       \/ joined # <<>> /\ ~Held(Head(joined)[1]) /\ Answer("did not land")
    /\ UNCHANGED <<vars, clock, layer, route, joined, hits, mask, todo, group, fetches, bf,
                   histVars>>

\* ... and touch, in a critical section of its own: the expert may have gone.
TouchJoined ==
    /\ At("submit", "touch")
    /\ joined # <<>>
    /\ LET k == Head(joined)[1]
       IN  \/ Touch(k, Head(joined)[2], FALSE) /\ asked' = asked \union {index[k]}
           \/ (fixedCache \/ ~Resident(k)) /\ UNCHANGED <<vars, asked>>
    /\ joined' = Tail(joined)
    /\ Goto("submit", "join")
    /\ UNCHANGED <<clock, layer, route, hits, mask, outcome, todo, group, fetches, bf,
                   settled>>

\* 120 s pass in one of the two waits.
WaitTimeout ==
    /\ "timeout" \in Faults
    /\ \/ At("submit", "plan") /\ todo = <<>> /\ ~mask /\ group[layer].pending # 0
       \/ At("submit", "join") /\ joined # <<>> /\ FillingKey(Head(joined)[1])
    /\ Answer("timeout")
    /\ settled' = FALSE
    /\ UNCHANGED <<vars, clock, layer, route, joined, hits, mask, todo, group, fetches, bf,
                   asked>>

\* A masked layer waits for nothing: it touches the fills it joined, landed or
\* not, and goes on with its hits.
MaskTouch ==
    /\ At("submit", "plan")
    /\ todo = <<>>
    /\ mask
    /\ \/ joined = <<>> /\ Answer("ok") /\ UNCHANGED <<vars, joined, asked>>
       \/ /\ joined # <<>>
          /\ LET k == Head(joined)[1]
             IN  \/ Touch(k, Head(joined)[2], TRUE) /\ asked' = asked \union {index[k]}
                 \/ (fixedCache \/ ~Held(k)) /\ UNCHANGED <<vars, asked>>
          /\ joined' = Tail(joined)
          /\ UNCHANGED <<th, outcome>>
    /\ UNCHANGED <<clock, layer, route, hits, mask, todo, group, fetches, bf, settled>>

\* Engine::layer_moe has read what it needs of the layer; the fence of a masked
\* layer's buffer has returned before the next layer is planned.
LayerDone ==
    /\ At("submit", "moe")
    /\ Leave("submit", "idle")
    /\ \/ mask /\ SetCompletedTimeline(layer)
       \/ ~mask /\ UNCHANGED vars
    /\ UNCHANGED <<clock, planVars, todo, group, fetches, bf, histVars>>

-----------------------------------------------------------------------------
(* The backfill *)

StartBackfill(n) ==
    /\ At("submit", "idle")
    /\ ~bf.started
    /\ bf' = [started |-> TRUE, next |-> 1, inflight |-> 0, active |-> TRUE, max |-> n]
    /\ Goto("submit", "pump")
    /\ UNCHANGED <<vars, clock, planVars, todo, group, fetches, histVars>>

StopBackfill ==
    /\ At("submit", "idle")
    /\ bf.active
    /\ bf' = [bf EXCEPT !.active = FALSE]
    /\ UNCHANGED <<vars, th, clock, planVars, todo, group, fetches, histVars>>

\* Mutant of BackfillStamp: a startup guess is stamped like demand.
BackfillStampKept(i) == DemandBase + (i - 1)

\* The stamp of the key at position i of the order; rank is i - 1.
BackfillStamp(i) == IF Keep THEN DemandBase + (i - 1) ELSE DemandBase - 1 - (i - 1)

\* The next key of the order: skipped if held, else counted in and fetched.
PumpNext(t) ==
    /\ bf.active
    /\ FreeSlots # 0 /\ bf.next <= Len(Order)
    /\ \/ /\ Held(Order[bf.next])
          /\ bf' = [bf EXCEPT !.next = @ + 1]
          /\ UNCHANGED th
       \/ /\ ~Held(Order[bf.next])
          /\ bf' = [bf EXCEPT !.next = @ + 1, !.inflight = (@ + 1) % Word]
          /\ th' = [th EXCEPT ![t] = [@ EXCEPT !.pc = "begin", !.ctx = "pump",
                                               !.key = Order[bf.next], !.again = FALSE,
                                               !.stamp = BackfillStamp(bf.next)]]

\* Mutant of Pump: a full cache does not end the backfill.
PumpStaysActive(t) ==
    /\ At(t, "pump")
    /\ \/ /\ \/ ~bf.active
             \/ bf.inflight >= bf.max
             \/ FreeSlots = 0
             \/ bf.next > Len(Order)
          /\ Leave(t, "idle")
          /\ UNCHANGED bf
       \/ bf.inflight < bf.max /\ PumpNext(t)
    /\ UNCHANGED <<vars, clock, planVars, todo, group, fetches, histVars>>

\* The critical section of backfill_pump's loop.
Pump(t) ==
    /\ At(t, "pump")
    /\ \/ /\ ~bf.active \/ bf.inflight >= bf.max
          /\ Leave(t, "idle")
          /\ UNCHANGED bf
       \/ /\ bf.active /\ bf.inflight < bf.max
          /\ FreeSlots = 0 \/ bf.next > Len(Order)
          /\ bf' = [bf EXCEPT !.active = bf.inflight # 0]
          /\ Leave(t, "idle")
       \/ bf.inflight < bf.max /\ PumpNext(t)
    /\ UNCHANGED <<vars, clock, planVars, todo, group, fetches, histVars>>

\* backfill_pump after fetch.
PumpFetched(t) ==
    /\ At(t, "ret")
    /\ th[t].ctx = "pump"
    /\ \/ /\ th[t].err = "Ok"
          /\ Leave(t, "pump")
          /\ UNCHANGED bf
       \/ /\ th[t].err = "AlreadyExists"
          /\ bf' = [bf EXCEPT !.inflight = (@ - 1) % Word]
          /\ Leave(t, "pump")
       \/ /\ th[t].err \notin {"Ok", "AlreadyExists"}
          /\ bf' = [bf EXCEPT !.inflight = (@ - 1) % Word, !.active = FALSE]
          /\ Leave(t, "idle")
    /\ UNCHANGED <<vars, clock, planVars, todo, group, fetches, histVars>>

-----------------------------------------------------------------------------
(* The dispatcher *)

\* The completion of a run: finish_run, and the callback if that settled it.
Deliver(f, run, ok) ==
    /\ At("dispatch", "idle")
    /\ run \in fetches[f].flying
    /\ FinishRun(fetches[f].slot, ok, fetches[f].stamp)
    /\ fetches' = [fetches EXCEPT ![f].flying = @ \ {run}, ![f].ok = @ /\ ok]
    /\ th' = IF runsDone[fetches[f].slot] + 1 = runsTotal[fetches[f].slot]
             THEN [th EXCEPT !["dispatch"].pc = "callback", !["dispatch"].fid = f]
             ELSE th
    /\ UNCHANGED <<clock, planVars, todo, group, bf, histVars>>

\* Mutant of Callback: a failed fill is not counted out of its group.
CallbackOnSuccess ==
    /\ At("dispatch", "callback")
    /\ LET x == fetches[th["dispatch"].fid]
       IN  \/ /\ x.group # 0
              /\ group' = IF x.ok THEN [group EXCEPT ![x.group].pending = (@ - 1) % Word]
                          ELSE [group EXCEPT ![x.group].failed = TRUE]
              /\ Leave("dispatch", "idle")
              /\ UNCHANGED bf
           \/ /\ x.group = 0
              /\ bf' = [bf EXCEPT !.inflight = (@ - 1) % Word]
              /\ Leave("dispatch", "pump")
              /\ UNCHANGED group
    /\ fetches' = [fetches EXCEPT ![th["dispatch"].fid] = NoFetch]
    /\ UNCHANGED <<vars, clock, planVars, todo, histVars>>

\* Mutant of Callback: the fill is counted out of the group being planned.
CallbackCurrentGroup ==
    /\ At("dispatch", "callback")
    /\ LET x == fetches[th["dispatch"].fid]
       IN  \/ /\ x.group # 0
              /\ group' = [group EXCEPT ![layer].pending = (@ - 1) % Word,
                                        ![layer].failed = @ \/ ~x.ok]
              /\ Leave("dispatch", "idle")
              /\ UNCHANGED bf
           \/ /\ x.group = 0
              /\ bf' = [bf EXCEPT !.inflight = (@ - 1) % Word]
              /\ Leave("dispatch", "pump")
              /\ UNCHANGED group
    /\ fetches' = [fetches EXCEPT ![th["dispatch"].fid] = NoFetch]
    /\ UNCHANGED <<vars, clock, planVars, todo, histVars>>

Callback ==
    /\ At("dispatch", "callback")
    /\ LET x == fetches[th["dispatch"].fid]
       IN  \/ /\ x.group # 0
              /\ group' = [group EXCEPT ![x.group].pending = (@ - 1) % Word,
                                        ![x.group].failed = @ \/ ~x.ok]
              /\ Leave("dispatch", "idle")
              /\ UNCHANGED bf
           \/ /\ x.group = 0
              /\ bf' = [bf EXCEPT !.inflight = (@ - 1) % Word]
              /\ Leave("dispatch", "pump")
              /\ UNCHANGED group
    /\ fetches' = [fetches EXCEPT ![th["dispatch"].fid] = NoFetch]
    /\ UNCHANGED <<vars, clock, planVars, todo, histVars>>

\* What decode_boundary_capacity asks: the cache can take in any layer's experts.
Room == \A r \in Routes : Len(r) <= FreeSlots + Cardinality(Evictable)

\* set_resident_only, between layers: nothing is settled. This is how a
\* DecodePolicyGuard restores the route of a request, and what decode_route does.
SetResidentOnly(m) ==
    /\ At("submit", "idle")
    /\ mask' = (m # "Off")
    /\ SetFixedCache(m = "FixedMask")
    /\ settled' = IF mask /\ m = "Off" THEN Room' ELSE settled
    /\ UNCHANGED <<th, clock, layer, route, joined, hits, outcome, todo, group, fetches, bf,
                   asked>>

\* Mutant of RequestOffPlain: the route changes without settle_decode_boundary.
RequestOffPlainAtOnce ==
    /\ At("submit", "idle")
    /\ ~fixedCache
    /\ mask' = FALSE
    /\ settled' = TRUE
    /\ UNCHANGED <<vars, th, clock, layer, route, joined, hits, outcome, todo, group, fetches,
                   bf, asked>>

\* request_decode_policy(OffPlain): the fills a masked request left in flight are
\* waited for until a layer has room. A fixed mask cache refuses the request.
RequestOffPlain ==
    /\ At("submit", "idle")
    /\ ~fixedCache
    /\ Room
    /\ mask' = FALSE
    /\ settled' = TRUE
    /\ UNCHANGED <<vars, th, clock, layer, route, joined, hits, outcome, todo, group, fetches,
                   bf, asked>>

\* The run is over and the threads have nothing left to do.
Quiescent ==
    /\ layer = MaxLayers
    /\ At("submit", "idle")
    /\ At("dispatch", "idle")
    /\ \A f \in FetchId : ~Live(f)
    /\ UNCHANGED pvars

ReadOutcome == IF "read" \in Faults THEN BOOLEAN ELSE {TRUE}

FetchStep(t) ==
    \/ FetchBegin(t) \/ FetchRefused(t) \/ FetchReclaim(t) \/ FetchEvict(t)
    \/ FetchSubmit(t) \/ FetchSubmitFails(t) \/ FetchUndo(t)
    \/ Pump(t) \/ PumpFetched(t)

SubmitStep ==
    \/ PlanLookup \/ PlanFull \/ PlanJoin \/ PlanMiss \/ PlanRoom \/ PlanEvict
    \/ PlanFetch \/ PlanFetched \/ WaitGroup \/ WaitSettled \/ TouchJoined \/ MaskTouch
    \/ LayerDone
    \/ FetchStep("submit")

DispatchStep ==
    \/ \E f \in FetchId, run \in 1 .. Runs, ok \in ReadOutcome : Deliver(f, run, ok)
    \/ Callback
    \/ FetchStep("dispatch")

PlannerNext ==
    \/ \E r \in Routes : StartLayer(r)
    \/ \E n \in Inflights : StartBackfill(n)
    \/ StopBackfill
    \/ \E m \in Modes : SetResidentOnly(m)
    \/ RequestOffPlain
    \/ SubmitStep
    \/ WaitTimeout
    \/ DispatchStep
    \/ Quiescent

PlannerSpec == PlannerInit /\ [][PlannerNext]_pvars

\* Neither thread stops inside the planner, and every read completes: the
\* backends complete or fail each request they accept.
FairPlannerSpec == PlannerSpec /\ WF_pvars(SubmitStep) /\ WF_pvars(DispatchStep)

-----------------------------------------------------------------------------
(* Properties *)

\* Fetch f has settled its slot and its callback has not run yet.
Settled(f) == At("dispatch", "callback") /\ th["dispatch"].fid = f
Unsettled(f) == Live(f) /\ ~Settled(f)

\* Thread t has counted a fill in (pending or inflight) that is not in fetches.
Uncounted(t, ctx) ==
    /\ th[t].ctx = ctx
    /\ \/ th[t].pc \in {"begin", "reclaim", "evict"}
       \/ th[t].pc = "ret" /\ th[t].err # "Ok"

Outstanding(g) == Cardinality({f \in FetchId : Live(f) /\ fetches[f].group = g})

\* Type invariant of the planner's own state.
PlannerTypeOK ==
    /\ clock \in DemandBase .. MaxStamp
    /\ layer \in 0 .. MaxLayers
    /\ todo \in Seq(Keys)
    /\ joined \in Seq(Keys \X Stamp)
    /\ hits \subseteq Keys /\ mask \in BOOLEAN
    /\ \A g \in Layer : group[g].pending \in 0 .. Word - 1 /\ group[g].failed \in BOOLEAN
    /\ \A f \in FetchId : fetches[f].flying \subseteq 1 .. Runs
    /\ bf.next \in 1 .. Len(Order) + 1 /\ bf.inflight \in 0 .. Word - 1
    /\ bf.max \in Inflights \cup {1}

\* A read in flight lands in the fill it was issued for: until the last of its
\* runs has reported, the slot of a fetch is Filling for the fetch's own key,
\* no other fetch writes there, and the runs reported, in flight and unsent
\* add up. So finish_run refuses no completion, and no late completion counts
\* against a slot that has been given to another expert.
FillsOwned ==
    \A f \in FetchId :
       Unsettled(f) =>
          LET x == fetches[f]
          IN  /\ state[x.slot] = "Filling"
              /\ key[x.slot] = x.key
              /\ runsDone[x.slot] + Cardinality(x.flying) + x.unsent = runsTotal[x.slot]
              /\ \A g \in FetchId \ {f} : Unsettled(g) => fetches[g].slot # x.slot

\* Every Filling slot belongs to a fetch that still has runs to report: no
\* error path of fetch leaves a slot "in Filling for ever".
NoOrphanFill ==
    \A s \in Slot :
       state[s] = "Filling" => \E f \in FetchId : Unsettled(f) /\ fetches[f].slot = s

\* FetchGroup::pending is the number of demand fills of the layer that have
\* not reported, plus the one plan_layer is in the middle of asking for.
GroupExact ==
    \A g \in Layer :
       group[g].pending =
          Outstanding(g) + (IF g = layer /\ Uncounted("submit", "plan") THEN 1 ELSE 0)

\* Backfill::inflight is exact under both threads pumping at once, and the
\* bound start_backfill was given holds.
BackfillExact ==
    /\ bf.inflight = Outstanding(0) + Cardinality({t \in Thread : Uncounted(t, "pump")})
    /\ bf.inflight <= bf.max

\* Fills are owned, none is orphaned, and the backfill's are counted, with a
\* layer planning and the dispatcher pumping at the same time (Planner::fetch,
\* backfill_pump, ExpertStore::finish_run).
FillsExact == FillsOwned /\ NoOrphanFill /\ BackfillExact

\* "Every routed expert must be resident now" (Engine::layer_moe). After a
\* successful wait_layer no expert the layer hit, fetched or joined has been
\* evicted to make room for a later one of the same layer, and none was refused,
\* provided exact decoding began with room: after request_decode_policy it does,
\* whatever a masked request before it left in flight. A masked layer, which
\* leaves its fills in flight, still has every expert it hit.
LayerReady ==
    At("submit", "moe") =>
       IF mask THEN \A k \in hits : Resident(k)
               ELSE settled => \A i \in 1 .. Len(route) : Resident(route[i])

\* The expert in slot s is one a layer asked for, hit or joined.
Demanded(s) == state[s] = "Resident" /\ s \in asked

\* "The default P3 stamp is below every demand stamp, so the LRU recycles a
\* startup guess first": when plan_layer's evict_lru, or the reclaim of either
\* thread, picks an expert some layer asked for, it has no expert left to pick
\* that no layer has asked for since the backfill read it. Demand is recorded by
\* what the layers did (asked), not by the stamps that are to express it.
GuessesGoFirst ==
    [][/\ At("submit", "evict_lru") /\ At("submit", "fetch")' =>
             \A s \in Slot : Demanded(s) /\ state'[s] = "Free"
                => \A u \in LruCandidates : Demanded(u)
       /\ \A t \in Thread :
             At(t, "reclaim") /\ At(t, "evict")' =>
                (Demanded(th'[t].victims[1]) => \A u \in Evictable : Demanded(u))]_pvars

\* wait_layer returns: once every expert of a layer has been planned, the
\* submit thread leaves the wait, whatever reads fail, with no timeout.
WaitReturns ==
    (At("submit", "plan") /\ todo = <<>>) ~> (At("submit", "moe") \/ At("submit", "idle"))

\* A started backfill ends by itself, so that the callers polling
\* backfill_active() (restore_expert_cache, warm_cache_from_heat) go on.
BackfillEnds == bf.active ~> ~bf.active

=============================================================================
