----------------------------- MODULE ResidentRoute -----------------------------
(***************************************************************************)
(* Resident-only routing (engine.cpp, resident_route.h, mask_wait.h,       *)
(* decode_boundary.h): a decode step whose experts are not all in the      *)
(* cache runs on those that are, and the others are queued for background  *)
(* reads that later steps may find.  Around the steps: the mode a request  *)
(* asks for and gives back, and the reheat between turns.                  *)
(*                                                                         *)
(* One layer.  The decode thread routes, plans, dispatches and flushes the *)
(* queue; the I/O dispatcher lands reads and the planner's backfill thread *)
(* takes slots between any two of its steps.                               *)
(***************************************************************************)
EXTENDS Integers, Sequences, FiniteSets, SequencesExt, FiniteSetsExt

CONSTANTS Experts,        \* 0..n_routed_experts-1
          Slots,          \* cache slots
          Routes,         \* what the gate can choose: [ids |-> seq, w |-> seq]
          Settings,       \* startup configurations
          Modes,          \* decode modes a request can ask for
          Heats,          \* what a resident expert's heat can be
          MaxSteps        \* decode steps

VARIABLES set,            \* the startup configuration
          mode,           \* resident_only_
          granted,        \* the policy guard of the running request
          pc,             \* where the decode thread is
          step,           \* clock_
          call,           \* what the layer computes: ids, weights over den, kept, shared,
                          \* and whether it was short of a slot, or a read of it failed
          last,           \* the gate's choice
          res, fill,      \* experts in the cache, and on their way into it
          stamp,          \* last_use_token of a slot, or the stamp its fill carries
          next,           \* the planner's stamp counter
          demand,         \* rr_demand_: the stamp of the last request, 0 when none
          asked,          \* the stamp of the last request, whatever became of it
          pending, queue, \* rr_pending_, rr_queue_
          out,            \* rr_outstanding_
          owed,           \* background reads whose callback has yet to run
          broken,         \* reads whose fetch failed with a run already handed over
          slipped,        \* whether there ever was one
          spent           \* experts still queued whose parked stamp is gone

rrVars == <<set, mode, granted, pc, step, call, last, res, fill, stamp, next, demand, asked,
            pending, queue, out, owed, broken, slipped, spent>>

NoCall == [ids |-> <<>>, w |-> <<>>, den |-> 1, kept |-> {}, shared |-> FALSE, waited |-> FALSE,
           short |-> FALSE, unread |-> FALSE]
NoGuard == [engine |-> FALSE, previous |-> "off", changed |-> FALSE, settled |-> FALSE]

Init ==
    /\ set \in Settings
    /\ mode = set.startup
    /\ granted = NoGuard
    /\ pc = "idle" /\ step = 0
    /\ call = NoCall /\ last = NoCall
    /\ res \in {S \in SUBSET Experts : Cardinality(S) <= Slots}
    /\ fill = {}
    /\ stamp = [e \in Experts |-> 0] /\ next = 1
    /\ demand = [e \in Experts |-> 0] /\ asked = [e \in Experts |-> 0]
    /\ pending = <<>> /\ queue = <<>>
    /\ out = 0 /\ owed = {} /\ broken = {} /\ slipped = FALSE /\ spent = {}

cacheVars == <<res, fill, stamp, next>>
queueVars == <<demand, asked, pending, queue, out, owed, broken, slipped, spent>>

Free == Slots - Cardinality(res \cup fill)
Oldest(S) == CHOOSE e \in S : \A f \in S : stamp[e] < stamp[f] \/ (stamp[e] = stamp[f] /\ e <= f)
\* The cache after a slot is found for one more expert, if one can be.
Room(keep) == Free > 0 \/ res \ keep # {}
Reclaimed(keep) == IF Free > 0 THEN res ELSE res \ {Oldest(res \ keep)}

FixedCache == mode = "mask" /\ set.fixed

-----------------------------------------------------------------------------
(* resident_route: the resident experts keep their weights, scaled to the    *)
(* sum of all; another slot borrows the first kept expert with weight zero.  *)
SumSeq(w, S) == MapThenSumSet(LAMBDA i : w[i], S)
KeptWeight(w, all, kept) == w * all
resident_route(r, have, fill_id) ==
    LET n == DOMAIN r.ids
        keep == {i \in n : r.ids[i] \in have}
        all == SumSeq(r.w, n)
        kept == SumSeq(r.w, keep)
    IN  IF keep = {}
        THEN [NoCall EXCEPT !.ids = [i \in n |-> fill_id], !.w = [i \in n |-> 0], !.shared = TRUE]
        ELSE [NoCall EXCEPT
                !.ids = [i \in n |-> IF i \in keep THEN r.ids[i] ELSE r.ids[Min(keep)]],
                !.w = [i \in n |-> IF i \notin keep THEN 0
                                   ELSE IF all > 0 THEN KeptWeight(r.w[i], all, kept) ELSE r.w[i]],
                !.den = IF all > 0 THEN kept ELSE 1,
                !.kept = {r.ids[i] : i \in keep}]

\* With nothing resident, the first expert of the layer from ids[0] on that is.
Ring(e, k) == (e + k) % Cardinality(Experts)
FillId(r, have) ==
    LET at == {k \in 0..Cardinality(Experts) - 1 : Ring(r.ids[1], k) \in have}
    IN  IF at = {} THEN -1 ELSE Ring(r.ids[1], Min(at))

Missing(r, have) == SelectSeq(r.ids, LAMBDA e : e \notin have)

\* The missing expert of the most weight, the first among equals.
Heaviest(r, have) ==
    LET miss == {i \in DOMAIN r.ids : r.ids[i] \notin have}
    IN  r.ids[CHOOSE i \in miss : \A j \in miss : r.w[j] < r.w[i] \/ (r.w[j] = r.w[i] /\ i <= j)]

\* The mode of this step: verify takes turns by the token's place in its block.
StepMode == IF mode # "verify" THEN mode ELSE IF step % 2 = 0 THEN "off" ELSE "skip"

-----------------------------------------------------------------------------
(* The decode step.                                                          *)
BeginStep(r) ==
    /\ pc = "ready" /\ step < MaxSteps
    /\ step' = step + 1
    /\ last' = [NoCall EXCEPT !.ids = r.ids, !.w = r.w]
    /\ pc' = "gate"
    /\ UNCHANGED <<set, mode, granted, call, cacheVars, queueVars>>

\* route_resident_only: park the request stamps, with stall1 read the heaviest
\* missing expert at once, then route on what is resident.
\* The outcome is what became of that read: none was made, it is here, or it
\* is still on its way when the wait ends.
Ids == {last.ids[i] : i \in DOMAIN last.ids}
Stamped(f, S, v) == [e \in Experts |-> IF e \in S THEN v ELSE f[e]]
Routed(have) ==
    LET id == FillId(last, have)
    IN  IF id = -1 THEN [NoCall EXCEPT !.ids = last.ids, !.w = last.w, !.kept = Ids]
        ELSE resident_route(last, have, id)
Route(outcome) ==
    LET miss == Ids \ res
        h == Heaviest(last, res)
        have == IF outcome = "here" THEN res \cup {h} ELSE res
        tries == StepMode = "stall1" /\ miss # {}
        parked == Stamped(demand, miss, next)
    IN  /\ pc = "gate" /\ StepMode \in {"skip", "stall1"}
        /\ IF outcome = "none" THEN tries => h \in fill \/ ~Room({})
           ELSE tries /\ h \notin fill /\ Room({})
        /\ next' = next + 1
        /\ asked' = Stamped(asked, miss, next)
        /\ demand' = IF outcome = "here" THEN [parked EXCEPT ![h] = 0] ELSE parked
        /\ spent' = spent \ miss
        /\ res' = CASE outcome = "none" -> res
                     [] outcome = "here" -> Reclaimed({}) \cup {h}
                     [] outcome = "late" -> Reclaimed({})
        /\ fill' = IF outcome = "late" THEN fill \cup {h} ELSE fill
        /\ stamp' = IF outcome = "none" THEN stamp ELSE [stamp EXCEPT ![h] = next]
        /\ call' = Routed(have)
        /\ pending' = IF FillId(last, have) = -1 THEN <<>> ELSE Missing(last, have)
        /\ pc' = "plan"
        /\ UNCHANGED <<set, mode, granted, step, last, queue, out, owed, broken, slipped>>

\* Exact routing, and plan_layer for it: every expert is fetched and waited for.
RouteExact ==
    /\ pc = "gate" /\ StepMode = "off"
    /\ call' = [NoCall EXCEPT !.ids = last.ids, !.w = last.w, !.kept = Ids]
    /\ pc' = "plan"
    /\ UNCHANGED <<set, mode, granted, step, last, cacheVars, queueVars>>

\* plan_layer takes the kept experts in the gate's order.  A hit is touched, a fill in
\* flight is joined, and another gets a free slot or the oldest resident one's, which may
\* be a hit of this layer when fills hold the rest; with none left it is refused, and
\* the plan goes on.
PlanExpert(c, e) ==
    LET free == Slots - Cardinality(c.res \cup c.fill)
        victim == CHOOSE v \in c.res : \A f \in c.res : c.stamp[v] < c.stamp[f] \/ (c.stamp[v] = c.stamp[f] /\ v <= f)
        asks == [c EXCEPT !.next = @ + 1, !.asked[e] = c.next]
        fetch == [asks EXCEPT !.fill = @ \cup {e}, !.stamp[e] = c.next]
    IN  CASE e \in c.res -> [asks EXCEPT !.stamp[e] = c.next]
          [] e \in c.fill -> asks
          [] e \notin c.res \cup c.fill /\ free > 0 -> fetch
          [] e \notin c.res \cup c.fill /\ free = 0 /\ c.res # {} ->
               [fetch EXCEPT !.res = @ \ {victim}, !.short = @ \/ victim \in call.kept]
          [] OTHER -> [c EXCEPT !.next = @ + 1, !.short = TRUE]
PlanLayer ==
    LET c == FoldLeft(PlanExpert,
                      [res |-> res, fill |-> fill, stamp |-> stamp, next |-> next,
                       asked |-> asked, short |-> FALSE],
                      SelectSeq(last.ids, LAMBDA e : e \in call.kept))
    IN  /\ pc = "plan"
        /\ res' = c.res /\ fill' = c.fill /\ stamp' = c.stamp /\ next' = c.next /\ asked' = c.asked
        /\ call' = [call EXCEPT !.short = c.short]
        /\ pc' = "wait"
        /\ UNCHANGED <<set, mode, granted, step, last, demand, pending, queue, out, owed, broken, slipped, spent>>

\* wait_layer: every read of the layer has ended, and a joined one is touched now; one
\* that failed fails the step.
WaitLayer ==
    /\ pc = "wait" /\ call.kept \cap fill = {}
    /\ stamp' = [e \in Experts |-> IF e \in call.kept \cap res THEN asked[e] ELSE stamp[e]]
    /\ pc' = IF call.unread THEN "failed" ELSE "dispatch"
    /\ UNCHANGED <<set, mode, granted, step, call, last, res, fill, next, queueVars>>

\* The MoE dispatch stages every id of the call and guards its slots.
Dispatch ==
    /\ pc = "dispatch"
    /\ pc' = IF \A i \in DOMAIN call.ids : call.ids[i] \in res THEN "flush" ELSE "failed"
    /\ UNCHANGED <<set, mode, granted, step, call, last, cacheVars, queueVars>>

\* The layer in mask mode: the experts that were hits when planned keep their
\* weights, the misses are read without waiting, and mask_wait waits for the
\* heaviest of them until the mass left out is at most tau of the whole.
mask_wait_candidates(w, missing, tau) ==
    LET total == SumSeq(w, DOMAIN w)
        miss == {i \in missing : w[i] > 0}
        ahead(i) == {j \in miss : w[j] > w[i] \/ (w[j] = w[i] /\ j < i)}
        lost(i) == SumSeq(w, miss \ ahead(i))      \* before it is waited for
        first(i) == miss = DOMAIN w /\ ahead(i) = {}
    IN  IF tau >= 10 \/ total <= 0 THEN {}
        ELSE {i \in miss : lost(i) * 10 > tau * total \/ first(i)}
MaskLayer(ready) ==
    LET n == DOMAIN last.ids
        hit == {i \in n : last.ids[i] \in res}
        wait == IF set.tau < 0 \/ FixedCache THEN {} ELSE mask_wait_candidates(last.w, n \ hit, set.tau)
        miss == {last.ids[i] : i \in n \ hit} \ fill
        in == {last.ids[i] : i \in ready}
        kept == {last.ids[i] : i \in hit}
        slots == Free + Cardinality(res \ kept)
    IN  /\ pc = "gate" /\ StepMode = "mask"
        /\ ready \subseteq wait
        /\ \E new \in SUBSET miss, drop \in SUBSET (res \ kept) :
              /\ IF FixedCache THEN new = {} ELSE Cardinality(new) = Min({Cardinality(miss), slots})
              /\ Cardinality(drop) = (IF Cardinality(new) > Free THEN Cardinality(new) - Free ELSE 0)
              /\ in \subseteq (new \cup fill) \ broken
              /\ res' = (res \ drop) \cup in
              /\ fill' = (fill \cup new) \ in
              /\ IF FixedCache THEN UNCHANGED <<stamp, asked>>
                 ELSE /\ stamp' = Stamped(stamp, Ids \cap (kept \cup fill \cup new), next)
                      /\ asked' = Stamped(asked, Ids, next)
        /\ owed' = owed \ in /\ out' = out - Cardinality(owed \cap in)
        /\ next' = next + 1
        /\ call' = [NoCall EXCEPT
                      !.ids = last.ids, !.w = [i \in n |-> IF i \in hit \cup ready THEN last.w[i] ELSE 0],
                      !.kept = kept \cup in, !.shared = hit \cup ready = {},
                      !.waited = ready = wait /\ set.tau >= 0 /\ ~FixedCache]
        /\ pc' = "flush"
        /\ UNCHANGED <<set, mode, granted, step, last, demand, pending, queue, broken, slipped, spent>>

-----------------------------------------------------------------------------
(* flush_resident_backfill: the layer's misses join the queue, what is older *)
(* than the window leaves it, and the newest are read, a few at a time.      *)
cutoff(now, keep) == IF now >= keep THEN now - keep + 1 ELSE 0
FlushBegin ==
    LET all == queue \o [i \in DOMAIN pending |-> <<pending[i], step>>]
        limit == cutoff(step, set.keep)
        fresh == Min({i \in 1..Len(all) + 1 : \A j \in i..Len(all) : all[j][2] >= limit})
        old == {all[j][1] : j \in 1..fresh - 1}
        idle == mode = "off" /\ pending = <<>> /\ queue = <<>>
    IN  /\ pc = "flush"
        /\ pending' = <<>>
        /\ pc' = IF FixedCache \/ idle THEN "ready" ELSE "issue"
        /\ IF FixedCache \/ idle THEN UNCHANGED <<queue, demand, spent>>
           ELSE /\ queue' = SubSeq(all, fresh, Len(all))
                /\ demand' = [e \in Experts |-> IF e \in old THEN 0 ELSE demand[e]]
                /\ spent' = spent \cup (old \cap {all[j][1] : j \in fresh..Len(all)})
        /\ UNCHANGED <<set, mode, granted, step, call, last, cacheVars, asked, out, owed, broken, slipped>>

MayIssue == queue # <<>> /\ out >= 0 /\ out < set.cap /\ Cardinality(owed) < set.iocap
Newest == queue[Len(queue)][1]
Popped == SubSeq(queue, 1, Len(queue) - 1)
Carried == IF demand[Newest] # 0 THEN demand[Newest] ELSE next
SpentNow == IF \E i \in DOMAIN Popped : Popped[i][1] = Newest THEN spent \cup {Newest} ELSE spent
CallIds == {call.ids[i] : i \in DOMAIN call.ids}

IssueKnown ==
    /\ pc = "issue" /\ MayIssue /\ Newest \in res \cup fill
    /\ demand' = [demand EXCEPT ![Newest] = 0]
    /\ spent' = SpentNow
    /\ queue' = Popped
    /\ UNCHANGED <<set, mode, granted, pc, step, call, last, cacheVars, asked, pending, out, owed, broken, slipped>>

\* fetch hands the reads over, or fails after handing over some of them: the
\* caller takes its count back, and the callback will take it back once more.
Issue(half) ==
    /\ pc = "issue" /\ MayIssue /\ Newest \notin res \cup fill
    /\ Room(CallIds)
    /\ half => set.half
    /\ res' = Reclaimed(CallIds)
    /\ fill' = fill \cup {Newest}
    /\ stamp' = [stamp EXCEPT ![Newest] = Carried]
    /\ next' = next + 1
    /\ owed' = owed \cup {Newest}
    /\ out' = IF half THEN out ELSE out + 1
    /\ broken' = IF half THEN broken \cup {Newest} ELSE broken
    /\ slipped' = (slipped \/ half)
    /\ demand' = IF half THEN demand ELSE [demand EXCEPT ![Newest] = 0]
    /\ spent' = IF half THEN spent ELSE SpentNow
    /\ queue' = Popped
    /\ UNCHANGED <<set, mode, granted, pc, step, call, last, asked, pending>>

IssueRefused ==
    /\ pc = "issue" /\ MayIssue /\ Newest \notin res \cup fill
    /\ ~Room(CallIds)
    /\ queue' = Popped
    /\ UNCHANGED <<set, mode, granted, pc, step, call, last, cacheVars, demand, asked, pending, out, owed, broken, slipped, spent>>

FlushEnd ==
    /\ pc = "issue" /\ ~MayIssue
    /\ pc' = "ready"
    /\ UNCHANGED <<set, mode, granted, step, call, last, cacheVars, queueVars>>

-----------------------------------------------------------------------------
(* Other threads.                                                            *)
\* A read ends; its callback counts a background one out.
Land(e, ok) ==
    /\ e \in fill
    /\ ok => e \notin broken
    /\ broken' = broken \ {e}
    /\ fill' = fill \ {e}
    /\ res' = IF ok THEN res \cup {e} ELSE res
    /\ out' = IF e \in owed THEN out - 1 ELSE out
    /\ owed' = owed \ {e}
    /\ call' = IF pc = "wait" /\ e \in call.kept /\ ~ok THEN [call EXCEPT !.unread = TRUE] ELSE call
    /\ UNCHANGED <<set, mode, granted, pc, step, last, stamp, next, demand, asked, pending, queue, slipped, spent>>

\* The startup backfill reads a guess into a free slot, or, having lost the one it saw,
\* into the oldest that no dispatch guards.
BackfillTakes(e) ==
    LET guarded == IF pc \in {"flush", "issue"} THEN CallIds ELSE {}
    IN  /\ set.backfill /\ e \notin res \cup fill /\ Room(guarded)
        /\ res' = Reclaimed(guarded)
        /\ fill' = fill \cup {e}
        /\ stamp' = [stamp EXCEPT ![e] = 0]
        /\ UNCHANGED <<set, mode, granted, pc, step, call, last, next, queueVars>>

-----------------------------------------------------------------------------
(* A request's decode mode.  settle_decode_boundary waits, a read at a time, *)
(* until the exact path has its topk slots free or evictable.                *)
SpecReady == set.spec
AvailableFilling == Free + Cardinality(res \cup fill)
Available == Free + Cardinality(res)
Required == 2
Refused(m) ==
    \/ m # "startup" /\ (set.fixed \/ set.tau >= 0)
    \/ m = "mask-spec" /\ ~SpecReady
RequestBegins(m) ==
    /\ pc = "idle" /\ step < MaxSteps /\ ~Refused(m)
    /\ IF m = "startup"
       THEN /\ granted' = [NoGuard EXCEPT !.engine = TRUE, !.previous = mode]
            /\ pc' = "ready"
            /\ UNCHANGED <<mode, pending, queue, demand>>
       ELSE /\ m = "off-plain" => Available >= Required
            /\ LET want == IF m = "off-plain" THEN "off" ELSE "mask"
               IN  /\ granted' = [engine |-> TRUE, previous |-> mode, changed |-> want # mode,
                                  settled |-> m = "off-plain"]
                   /\ mode' = want
            /\ IF m = "off-plain"
               THEN /\ pending' = <<>> /\ queue' = <<>> /\ demand' = [e \in Experts |-> 0]
               ELSE UNCHANGED <<pending, queue, demand>>
            /\ pc' = "ready"
    /\ UNCHANGED <<set, step, call, last, cacheVars, asked, out, owed, broken, slipped, spent>>

\* The slots do not come free in time, or no read is on its way that could
\* free one: the queue is gone, the mode is not.
BoundaryFails ==
    /\ pc = "idle" /\ step < MaxSteps /\ ~Refused("off-plain")
    /\ Available < Required
    /\ pending' = <<>> /\ queue' = <<>> /\ demand' = [e \in Experts |-> 0]
    /\ UNCHANGED <<set, mode, granted, pc, step, call, last, cacheVars, asked, out, owed, broken, slipped, spent>>

\* DecodePolicyGuard::restore, when the request ends or its step fails.
Restored == IF granted.engine /\ granted.changed THEN granted.previous ELSE mode
RequestEnds ==
    /\ pc \in {"ready", "failed"}
    /\ mode' = Restored
    /\ granted' = NoGuard
    /\ pc' = "idle"
    /\ UNCHANGED <<set, step, call, last, cacheVars, queueVars>>

-----------------------------------------------------------------------------
(* reheat: the coldest experts make room for the hottest that are not here,  *)
(* never more of them than there is something to put in their place.         *)
FloorHeat(head) == Max({5, head \div 10})
ReheatPlan(heat) ==          \* how many leave, and how many are handed over
    LET n == Cardinality(res)
        head == IF n = 0 THEN 0 ELSE Max({heat[e] : e \in res})
        warm == Cardinality({e \in res : heat[e] >= FloorHeat(head)})
        want == Min({IF Free > 0 THEN Free ELSE Max({4, n \div 32}), n - warm})
        have == Min({want + Free, Cardinality(Experts \ res)})
    IN  [evict |-> IF Free >= have THEN 0 ELSE Min({want, have - Free}), have |-> have]
Reheat(heat) ==
    LET p == ReheatPlan(heat)
    IN  /\ pc = "idle" /\ step < MaxSteps
        /\ \E cold \in SUBSET res :
              /\ Cardinality(cold) = p.evict
              /\ \A e \in cold, f \in res \ cold : heat[e] <= heat[f]
              /\ LET budget == Free + p.evict
                     passed == Min({p.have, budget})
                 IN  \E order \in SUBSET (Experts \ res) :
                        /\ Cardinality(order) = passed
                        /\ fill' = fill \cup order   \* the pump walks past what is filling
                        /\ res' = res \ cold
                        /\ stamp' = [e \in Experts |-> IF e \in order \ fill THEN 0 ELSE stamp[e]]
        /\ UNCHANGED <<set, mode, granted, pc, step, call, last, next, queueVars>>

Next ==
    \/ \E r \in Routes : BeginStep(r)
    \/ \E outcome \in {"none", "here", "late"} : Route(outcome)
    \/ RouteExact \/ PlanLayer \/ WaitLayer \/ Dispatch
    \/ \E ready \in SUBSET (DOMAIN last.ids) : MaskLayer(ready)
    \/ FlushBegin \/ IssueKnown \/ IssueRefused \/ FlushEnd
    \/ \E half \in BOOLEAN : Issue(half)
    \/ \E e \in Experts, ok \in BOOLEAN : Land(e, ok)
    \/ \E e \in Experts : BackfillTakes(e)
    \/ \E m \in Modes : RequestBegins(m)
    \/ BoundaryFails \/ RequestEnds
    \/ \E heat \in [Experts -> Heats] : Reheat(heat)

Spec == Init /\ [][Next]_rrVars

-----------------------------------------------------------------------------
(* A routed layer computes on what is there without changing its total gate  *)
(* weight: every expert that contributes was resident, the ones left out     *)
(* have weight zero, the weights of the others still sum to the gate's own   *)
(* sum (unless nothing is left, or the layer masks instead of renormalising, *)
(* where a weighted wait bounds the share that is lost).  Unless the startup *)
(* backfill is reading, whose guesses can take a slot between the plan and   *)
(* the guard, a step fails only because a read did, or because reads for     *)
(* other steps held the slots it needed; and never for want of slots in a    *)
(* request that settled its boundary before decoding exactly.                *)
RouteSound ==
    /\ pc = "plan" /\ ~call.shared => SumSeq(call.w, DOMAIN call.w) = call.den * SumSeq(last.w, DOMAIN last.w)
    /\ pc \in {"plan", "flush"} =>
          \A i \in DOMAIN call.ids : call.w[i] > 0 => call.ids[i] \in call.kept
    /\ pc = "flush" /\ call.waited =>
          LET total == SumSeq(last.w, DOMAIN last.w)
          IN  (total - SumSeq(call.w, DOMAIN call.w)) * 10 <= set.tau * total
    /\ pc = "failed" /\ ~set.backfill => call.unread \/ (call.short /\ ~granted.settled)

(* The background queue is exact: what it still holds is no older than the   *)
(* window, oldest first; the count of reads out is the number of callbacks   *)
(* to come, unless a fetch failed half handed over; and a background read    *)
(* never looks newer than the last request for its expert, unless another    *)
(* queued request for the same expert used the parked stamp up.              *)
QueueExact ==
    /\ pc = "issue" => \A i \in DOMAIN queue : queue[i][2] > step - set.keep
    /\ \A i, j \in DOMAIN queue : i < j => queue[i][2] <= queue[j][2]
    /\ ~slipped => out = Cardinality(owed)
    /\ \A e \in owed \ spent : stamp[e] <= asked[e]

(* Between requests the engine is what it was started as: a request's mode   *)
(* ends with it however it ended, and a reheat never evicts more experts     *)
(* than are on their way into the cache to replace them.                     *)
RequestStep ==
    /\ pc' = "idle" => mode' = set.startup /\ ~granted'.engine
    /\ pc = "idle" /\ pc' = "idle" => Cardinality(res \ res') <= Cardinality(fill')

=============================================================================
