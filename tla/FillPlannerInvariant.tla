------------------------ MODULE FillPlannerInvariant -------------------------
(***************************************************************************)
(* The inductive invariant of the fill planner, and its preservation by    *)
(* the steps that move no entry of the fetch table: plan_layer, the waits, *)
(* the pump and fetch before it has a slot.  Any number of experts, slots, *)
(* runs, layers and fetches, any routes and any backfill order.            *)
(***************************************************************************)
EXTENDS FillPlanner, ExpertStoreProofs, WellFoundedInduction

\* No run but the first of a fetch is refused. When a later one is, fetch's
\* error path and the callback of the runs in flight both count the fill out.
FirstRunDecides == "submit" \notin Faults

-----------------------------------------------------------------------------
(* The inductive invariant *)

FetchPc == {"begin", "reclaim", "evict", "submit", "undo", "ret"}
PlanPc == {"plan", "full", "held", "room", "evict_lru", "fetch"}
Pc == FetchPc \cup PlanPc \cup {"idle", "join", "touch", "moe", "pump", "callback"}
Errors == {"Ok", "ResourceExhausted", "AlreadyExists", "Io"}

ThreadState ==
    [pc : Pc, ctx : {"none", "plan", "pump"}, key : Keys, stamp : Stamp, victims : Seq(Slot),
     again : BOOLEAN, fid : 0 .. NumFetch, err : Errors]
FetchState ==
    [key : Keys, slot : Slot \cup {NoSlot}, stamp : Stamp, group : 0 .. MaxLayers,
     ok : BOOLEAN, flying : SUBSET (1 .. Runs), unsent : 0 .. Runs]
BackfillState ==
    [started : BOOLEAN, next : 1 .. Len(Order) + 1, inflight : 0 .. Word - 1,
     active : BOOLEAN, max : Nat \ {0}]

PlannerTypes ==
    /\ th \in [Thread -> ThreadState]
    /\ clock \in DemandBase .. MaxStamp
    /\ layer \in 0 .. MaxLayers
    /\ todo \in Seq(Keys)
    /\ joined \in Seq(Keys \X Stamp)
    /\ hits \subseteq Keys
    /\ mask \in BOOLEAN
    /\ mask => MaxLayers <= MaxTimeline
    /\ group \in [Layer -> [pending : 0 .. Word - 1, failed : BOOLEAN]]
    /\ fetches \in [FetchId -> FetchState]
    /\ bf \in BackfillState

\* plan_layer is in a layer; past its lookup it has an expert in hand.
Planning ==
    /\ th["submit"].pc \in PlanPc \/ th["submit"].ctx = "plan" => layer # 0
    /\ th["submit"].pc \in PlanPc \ {"plan"} \/ th["submit"].ctx = "plan" => todo # <<>>
    /\ th["submit"].pc \in PlanPc => th["submit"].ctx # "plan"

\* Where the two threads can be: only plan_layer fetches for a group, and only
\* while a layer is being planned; only the dispatcher runs callbacks.
ThreadsPlaced ==
    /\ \A t \in Thread : th[t].pc \in FetchPc => th[t].ctx # "none"
    /\ th["dispatch"].pc \in FetchPc \cup {"idle", "callback", "pump"}
    /\ th["dispatch"].ctx # "plan"
    /\ th["submit"].pc # "callback"
    /\ Planning

\* A fetch sends its runs from the last to the first; an empty entry is empty.
FetchesShaped ==
    \A f \in FetchId :
       /\ fetches[f].flying \subseteq fetches[f].unsent + 1 .. Runs
       /\ ~Live(f) => fetches[f].flying = {}

\* A thread inside fetch owns an entry with runs still to send, and no other
\* thread owns it; the dispatcher's callback is for an entry.
Sending(t) == th[t].pc \in {"submit", "undo"}
FetchesHeld ==
    /\ \A t \in Thread : Sending(t) =>
          /\ th[t].fid \in FetchId
          /\ Unsettled(th[t].fid)
          /\ fetches[th[t].fid].unsent # 0
          /\ fetches[th[t].fid].group = IF th[t].ctx = "plan" THEN layer ELSE 0
          /\ FirstRunDecides /\ th[t].pc = "undo" => fetches[th[t].fid].flying = {}
    /\ Sending("submit") /\ Sending("dispatch") => th["submit"].fid # th["dispatch"].fid
    /\ At("dispatch", "callback") => th["dispatch"].fid \in FetchId /\ Live(th["dispatch"].fid)

\* A backfill that has not been started has nothing in flight.
NotStarted == ~bf.started => bf.inflight = 0 /\ ~bf.active

Counted == GroupExact /\ BackfillExact

\* The threads inside a fetch of the backfill's that is not an entry (yet, or
\* any more), and the entries of a group; group 0 is the backfill.
Pumping == {t \in Thread : Uncounted(t, "pump")}
Entries(g) == {f \in FetchId : Live(f) /\ fetches[f].group = g}

PlannerInv ==
    /\ StoreInv
    /\ PlannerTypes
    /\ ThreadsPlaced
    /\ FetchesShaped
    /\ FetchesHeld
    /\ FillsOwned
    /\ NoOrphanFill
    /\ FirstRunDecides => Counted /\ NotStarted

-----------------------------------------------------------------------------
(* Steps of the store the planner takes *)

\* A thread in the middle of sending a fetch or of running its callback.
Busy(t) == th[t].pc \in {"submit", "undo", "callback"}

\* No slot starts or stops being filled, and no fill makes progress.
SlotsCalm ==
    \A s \in Slot :
       /\ state'[s] = "Filling" <=> state[s] = "Filling"
       /\ state[s] = "Filling" => /\ key'[s] = key[s] /\ runsDone'[s] = runsDone[s]
                                  /\ runsTotal'[s] = runsTotal[s]

\* No thread enters or leaves the sending of a fetch or a callback.
ThreadsCalm == \A t \in Thread : th'[t] = th[t] \/ (~Busy(t) /\ ~Busy(t)')

\* An eviction takes a resident slot, so no fill notices.
LEMMA EvictIsCalm ==
    ASSUME StoreInv, NEW s \in Evictable, EvictSlot(s), evicting' = evicting
    PROVE  StoreInv' /\ SlotsCalm
<1>1. StoreInv'
  BY EvictSlotKeepsInv DEF StoreInv, TypeOK
<1>2. s \in Slot /\ state[s] = "Resident"
  BY DEF Evictable
<1>3. SlotsCalm
  BY <1>2 DEF EvictSlot, ReleaseLocked, SlotsCalm, StoreInv, TypeOK
<1> QED BY ZenonT(30), <1>1, <1>3

\* A lookup, a touch, a completed buffer or a change of mode moves no slot.
LEMMA QuietIsCalm ==
    ASSUME StoreInv,
           \/ UNCHANGED vars
           \/ \E k \in Keys, t \in Stamp, g \in Timeline : Lookup(k, t, g)
           \/ \E k \in Keys, t \in Stamp, b \in BOOLEAN : Touch(k, t, b)
           \/ \E v \in Timeline : SetCompletedTimeline(v)
           \/ \E b \in BOOLEAN : SetFixedCache(b)
    PROVE  StoreInv' /\ SlotsCalm
<1>1. StoreInv'
  BY NextKeepsInv DEF Next
<1>2. SlotsCalm
  BY DEF SlotsCalm, vars, slotVars, fillVars, Lookup, Touch, SetCompletedTimeline, SetFixedCache
<1> QED BY <1>1, <1>2

-----------------------------------------------------------------------------
(* Steps that leave the fetches alone *)

\* Ownership of the slots being filled survives a calm step.
LEMMA CalmKeepsFills ==
    ASSUME PlannerInv, fetches' = fetches, SlotsCalm, ThreadsCalm,
           th' \in [Thread -> ThreadState],
           layer' = layer \/ ~Busy("submit")
    PROVE  FetchesShaped' /\ FetchesHeld' /\ FillsOwned' /\ NoOrphanFill'
<1> USE DEF PlannerInv
<1>1. \A f \in FetchId : Unsettled(f)' <=> Unsettled(f)
  BY DEF Unsettled, Settled, Live, At, ThreadsCalm, Busy, Thread
<1>2. FetchesShaped'
  BY ZenonT(30) DEF FetchesShaped, Live
<1>3. FetchesHeld'
  BY <1>1 DEF FetchesHeld, ThreadsCalm, Thread, Sending, Busy, At, Live, ThreadsPlaced
<1>4. \A f \in FetchId : Unsettled(f) => fetches[f].slot \in Slot
  BY DEF PlannerTypes, FetchState, Unsettled, Live
<1>5. FillsOwned'
  BY <1>1, <1>4 DEF FillsOwned, SlotsCalm
<1>6. NoOrphanFill'
  BY <1>1 DEF NoOrphanFill, SlotsCalm
<1> QED BY <1>2, <1>3, <1>5, <1>6

\* The counters stay exact in a step that neither counts nor lists a fetch.
LEMMA CalmKeepsCounts ==
    ASSUME Counted, fetches' = fetches, group' = group,
           bf'.inflight = bf.inflight, bf'.max = bf.max,
           \A t \in Thread : Uncounted(t, "pump")' <=> Uncounted(t, "pump"),
           Uncounted("submit", "plan")' <=> Uncounted("submit", "plan"),
           layer' = layer \/ ~Uncounted("submit", "plan")
    PROVE  Counted'
<1>1. \A g \in 0 .. MaxLayers : Outstanding(g)' = Outstanding(g)
  BY DEF Outstanding, Live
<1>2. GroupExact'
  BY <1>1, PlannerAssumption DEF Counted, GroupExact, Layer
<1>3. Pumping' = Pumping
  BY DEF Pumping
<1>4. Outstanding(0)' = Outstanding(0)
  BY DEF Outstanding, Live
<1>5. BackfillExact'
  BY <1>3, <1>4 DEF Counted, BackfillExact, Pumping
<1> QED BY <1>2, <1>5 DEF Counted

-----------------------------------------------------------------------------
(* Moving a thread *)

\* What is left of th when only thread t moves.
OnlyMoves(t) == th' \in [Thread -> ThreadState] /\ \A u \in Thread \ {t} : th'[u] = th[u]

\* Goto moves the program counter and nothing else.
LEMMA GotoMoves ==
    ASSUME th \in [Thread -> ThreadState], NEW t \in Thread, NEW q \in Pc, Goto(t, q)
    PROVE  /\ OnlyMoves(t) /\ th'[t].pc = q /\ th'[t].ctx = th[t].ctx
           /\ th'[t].fid = th[t].fid /\ th'[t].err = th[t].err
BY ZenonT(30) DEF Goto, OnlyMoves, ThreadState

\* Leave clears the locals of fetch.
LEMMA LeaveMoves ==
    ASSUME th \in [Thread -> ThreadState], NEW t \in Thread, NEW q \in Pc, Leave(t, q)
    PROVE  OnlyMoves(t) /\ th'[t].pc = q /\ th'[t].ctx = "none"
<1>1. Fresh(q) \in ThreadState /\ Fresh(q).pc = q /\ Fresh(q).ctx = "none"
  <2>1. 0 \in Stamp /\ 0 \in 0 .. NumFetch /\ DefaultKey \in Keys /\ <<>> \in Seq(Slot)
    BY StoreAssumption, PlannerAssumption DEF Stamp
  <2> QED BY <2>1 DEF Fresh, ThreadState, Errors
<1>2. th' = [th EXCEPT ![t] = Fresh(q)]
  BY DEF Leave
<1> QED BY <1>1, <1>2 DEF OnlyMoves

\* Return leaves fetch with a status.
LEMMA ReturnMoves ==
    ASSUME th \in [Thread -> ThreadState], NEW t \in Thread, NEW e \in Errors, Return(t, e)
    PROVE  /\ OnlyMoves(t) /\ th'[t].pc = "ret" /\ th'[t].ctx = th[t].ctx
           /\ th'[t].fid = th[t].fid /\ th'[t].err = e
BY ZenonT(30) DEF Return, OnlyMoves, ThreadState, Pc, FetchPc

\* A thread outside fetch and callback, on which nothing is counted.
Outside(t) == th[t].pc \notin FetchPc \cup {"callback"}

\* The submit thread moves between steps of plan_layer and wait_layer.
LEMMA SubmitMove ==
    ASSUME PlannerInv, StoreInv', SlotsCalm, PlannerTypes',
           UNCHANGED <<group, fetches, bf>>, OnlyMoves("submit"),
           Outside("submit"), Outside("submit")', Planning'
    PROVE  PlannerInv'
<1> USE DEF PlannerInv
<1>1. "submit" \in Thread /\ "dispatch" \in Thread /\ Thread \ {"submit"} = {"dispatch"}
  BY DEF Thread
<1>2. th'["dispatch"] = th["dispatch"]
  BY <1>1 DEF OnlyMoves
<1>3. ThreadsCalm /\ ~Busy("submit")
  BY <1>1, <1>2 DEF ThreadsCalm, Busy, Outside, FetchPc, Thread
<1>4. FetchesShaped' /\ FetchesHeld' /\ FillsOwned' /\ NoOrphanFill'
  BY <1>3, CalmKeepsFills DEF OnlyMoves
<1>5. ThreadsPlaced'
  BY <1>1, <1>2 DEF ThreadsPlaced, Outside, Thread
<1>6. /\ \A t \in Thread : Uncounted(t, "pump")' <=> Uncounted(t, "pump")
      /\ ~Uncounted("submit", "plan") /\ ~Uncounted("submit", "plan")'
  BY <1>2 DEF Uncounted, Outside, FetchPc, Thread
<1>7. FirstRunDecides => Counted'
  BY <1>6, CalmKeepsCounts
<1>8. FirstRunDecides => NotStarted'
  BY DEF NotStarted
<1> QED BY <1>4, <1>5, <1>7, <1>8

-----------------------------------------------------------------------------
(* plan_layer and wait_layer *)

\* The ranges the steps below draw their arguments from.
LEMMA Ranges ==
    ASSUME PlannerTypes
    PROVE  /\ "submit" \in Thread /\ "dispatch" \in Thread
           /\ th["submit"] \in ThreadState /\ th["dispatch"] \in ThreadState
           /\ clock \in Stamp /\ 0 \in Timeline /\ 0 \in Stamp
           /\ (mask => layer \in Timeline)
           /\ (clock < MaxStamp => clock + 1 \in DemandBase .. MaxStamp /\ clock + 1 \in Stamp)
<1>1. DemandBase \in Nat /\ DemandBase <= MaxStamp /\ MaxStamp \in Nat /\ MaxTimeline \in Nat
      /\ MaxLayers \in Nat
  BY StoreAssumption, PlannerAssumption DEF Stamp
<1>2. clock \in DemandBase .. MaxStamp /\ layer \in 0 .. MaxLayers
      /\ (mask => MaxLayers <= MaxTimeline) /\ th \in [Thread -> ThreadState]
  BY DEF PlannerTypes
<1> QED BY <1>1, <1>2 DEF Stamp, Timeline, Thread

\* A hit is touched (and guarded, in a masked layer); a miss moves on.
LEMMA PlanLookupKeeps ==
    ASSUME PlannerInv, PlanLookup PROVE PlannerInv'
<1> USE DEF PlannerInv
<1>1. /\ th["submit"].pc = "plan" /\ todo # <<>> /\ clock < MaxStamp
      /\ clock' = (IF fixedCache THEN clock ELSE clock + 1)
      /\ UNCHANGED <<layer, joined, mask, group, fetches, bf>>
  BY DEF PlanLookup, At
<1>2. Head(todo) \in Keys /\ Tail(todo) \in Seq(Keys)
  BY <1>1 DEF PlannerTypes
<1>3. clock' \in DemandBase .. MaxStamp /\ clock' \in Stamp
  BY ZenonT(30), <1>1, Ranges DEF PlannerTypes
<1>4. Outside("submit") /\ layer # 0 /\ th["submit"].ctx # "plan"
  BY <1>1 DEF Outside, FetchPc, PlanPc, ThreadsPlaced, Planning
<1>5. CASE /\ Lookup(Head(todo), clock', IF mask THEN layer ELSE 0)
           /\ hits' = hits \union {Head(todo)} /\ todo' = Tail(todo) /\ UNCHANGED th
  <2>1. (IF mask THEN layer ELSE 0) \in Timeline
    BY Ranges
  <2>2. StoreInv' /\ SlotsCalm
    BY ZenonT(30), <1>2, <1>3, <1>5, <2>1, QuietIsCalm
  <2>3. PlannerTypes'
    BY ZenonT(30), <1>1, <1>2, <1>3, <1>5 DEF PlannerTypes
  <2>4. OnlyMoves("submit") /\ Outside("submit")'
    BY ZenonT(30), <1>4, <1>5 DEF OnlyMoves, PlannerTypes, Outside
  <2>5. Planning'
    BY <1>1, <1>4, <1>5 DEF Planning, PlanPc
  <2> QED BY ZenonT(30), <1>1, <1>4, <2>2, <2>3, <2>4, <2>5, SubmitMove
<1>6. CASE Miss(Head(todo))
  <2>1. StoreInv' /\ SlotsCalm
    BY <1>6, QuietIsCalm DEF Miss
  <2>2. OnlyMoves("submit") /\ th'["submit"].pc \in {"full", "held"}
        /\ th'["submit"].ctx = th["submit"].ctx
    <3> DEFINE q == IF fixedCache THEN "full" ELSE "held"
    <3>1. q \in {"full", "held"} /\ q \in Pc
      BY DEF Pc, PlanPc
    <3>2. th' = [th EXCEPT !["submit"].pc = q, !["submit"].key = Head(todo)]
      BY <1>6 DEF Miss
    <3> HIDE DEF q
    <3> QED BY ZenonT(30), <1>2, <3>1, <3>2, Ranges DEF OnlyMoves, PlannerTypes, ThreadState
  <2>3. PlannerTypes'
    BY ZenonT(30), <1>1, <1>3, <1>6, <2>2 DEF PlannerTypes, Miss, OnlyMoves
  <2>4. Outside("submit")'
    BY <2>2 DEF Outside, FetchPc
  <2>5. Planning'
    BY ZenonT(30), <1>1, <1>4, <1>6, <2>2 DEF Planning, PlanPc, Miss
  <2> QED BY ZenonT(30), <1>1, <1>4, <2>1, <2>2, <2>3, <2>4, <2>5, SubmitMove
<1> QED BY <1>5, <1>6 DEF PlanLookup

\* The steps of plan_layer between a miss and the fetch.
LEMMA PlanMovesKeep ==
    ASSUME PlannerInv, PlanFull \/ PlanJoin \/ PlanMiss \/ PlanRoom \/ PlanEvict
    PROVE  PlannerInv'
<1> USE DEF PlannerInv
<1>1. th \in [Thread -> ThreadState] /\ "submit" \in Thread /\ th["submit"].key \in Keys
  BY Ranges DEF PlannerTypes, ThreadState
<1>2. /\ th["submit"].pc \in {"full", "held", "room", "evict_lru"}
      /\ UNCHANGED <<layer, hits, mask, group, fetches, bf>>
  BY ZenonT(30) DEF PlanFull, PlanJoin, PlanMiss, PlanRoom, PlanEvict, At, planVars
<1>3. Outside("submit") /\ layer # 0 /\ todo # <<>> /\ th["submit"].ctx # "plan"
  BY <1>2 DEF Outside, FetchPc, PlanPc, ThreadsPlaced, Planning
<1>4. StoreInv' /\ SlotsCalm
  <2>1. CASE PlanEvict
    <3>1. ASSUME EvictLru PROVE StoreInv' /\ SlotsCalm
      BY ZenonT(30), <3>1, EvictIsCalm, StoreAssumption DEF EvictLru, LruVictim, LruCandidates
    <3> QED BY ZenonT(30), <2>1, <3>1, QuietIsCalm DEF PlanEvict
  <2>2. CASE PlanFull \/ PlanJoin \/ PlanMiss \/ PlanRoom
    BY ZenonT(30), <2>2, QuietIsCalm DEF PlanFull, PlanJoin, PlanMiss, PlanRoom
  <2> QED BY <2>1, <2>2
<1>5. OnlyMoves("submit") /\ th'["submit"].pc \in {"plan", "held", "room", "evict_lru", "fetch"}
      /\ th'["submit"].ctx # "plan" /\ (th'["submit"].pc = "plan" \/ todo' = todo)
  <2>1. \/ \E q \in {"held", "room", "evict_lru", "fetch"} : Goto("submit", q) /\ todo' = todo
        \/ Leave("submit", "plan")
    BY DEF PlanFull, PlanJoin, PlanMiss, PlanRoom, PlanEvict
  <2> QED BY ZenonT(30), <1>1, <1>3, <2>1, GotoMoves, LeaveMoves DEF Pc, PlanPc
<1>6. Tail(todo) \in Seq(Keys)
  BY <1>3 DEF PlannerTypes
<1>7. /\ clock' \in DemandBase .. MaxStamp
      /\ todo' \in Seq(Keys)
      /\ joined' \in Seq(Keys \X Stamp)
  <2>1. CASE PlanJoin
    <3>1. clock' \in DemandBase .. MaxStamp /\ clock' \in Stamp
      BY <2>1, Ranges DEF PlanJoin
    <3>2. <<th["submit"].key, clock'>> \in Keys \X Stamp
      BY <1>1, <3>1
    <3>3. joined' = Append(joined, <<th["submit"].key, clock'>>) /\ todo' = Tail(todo)
      BY <2>1 DEF PlanJoin
    <3> QED BY <1>6, <3>1, <3>2, <3>3 DEF PlannerTypes
  <2>2. CASE PlanFull \/ PlanMiss \/ PlanRoom \/ PlanEvict
    BY ZenonT(30), <1>6, <2>2 DEF PlannerTypes, PlanFull, PlanMiss, PlanRoom, PlanEvict, planVars
  <2> QED BY <2>1, <2>2
<1>8. PlannerTypes'
  BY ZenonT(30), <1>2, <1>5, <1>7 DEF PlannerTypes, OnlyMoves
<1>9. Outside("submit")' /\ Planning'
  BY <1>2, <1>3, <1>5 DEF Outside, FetchPc, Planning, PlanPc
<1> QED BY ZenonT(30), <1>2, <1>3, <1>4, <1>5, <1>8, <1>9, SubmitMove

\* wait_layer, the masked layer's touches, and the end of a layer.
LEMMA WaitMovesKeep ==
    ASSUME PlannerInv,
           WaitGroup \/ WaitSettled \/ TouchJoined \/ WaitTimeout \/ MaskTouch \/ LayerDone
    PROVE  PlannerInv'
<1> USE DEF PlannerInv
<1>1. th \in [Thread -> ThreadState] /\ "submit" \in Thread
  BY Ranges DEF PlannerTypes
<1>2. /\ th["submit"].pc \in {"plan", "join", "touch", "moe"}
      /\ UNCHANGED <<clock, layer, todo, hits, mask, group, fetches, bf>>
  BY ZenonT(30) DEF WaitGroup, WaitSettled, TouchJoined, WaitTimeout, MaskTouch, LayerDone, At, planVars
<1>3. Outside("submit")
  BY ZenonT(30), <1>2 DEF Outside, FetchPc
<1>4. joined # <<>> => /\ Head(joined)[1] \in Keys /\ Head(joined)[2] \in Stamp
                       /\ Tail(joined) \in Seq(Keys \X Stamp)
  BY DEF PlannerTypes
<1>5. StoreInv' /\ SlotsCalm
  <2>1. CASE WaitGroup \/ WaitSettled \/ WaitTimeout
    BY ZenonT(30), <2>1, QuietIsCalm DEF WaitGroup, WaitSettled, WaitTimeout
  <2>2. CASE TouchJoined \/ MaskTouch
    BY ZenonT(30), <1>4, <2>2, QuietIsCalm DEF TouchJoined, MaskTouch
  <2>3. CASE LayerDone
    BY ZenonT(30), <2>3, Ranges, QuietIsCalm DEF LayerDone
  <2> QED BY <2>1, <2>2, <2>3
<1>6. OnlyMoves("submit")
      /\ \/ th'["submit"] = th["submit"]
         \/ th'["submit"].pc \in {"join", "touch", "moe", "idle"} /\ th'["submit"].ctx \in {"none", th["submit"].ctx}
  <2>1. \/ \E q \in {"join", "touch", "moe", "idle"} : Goto("submit", q)
        \/ Leave("submit", "idle")
        \/ UNCHANGED th
    BY ZenonT(30) DEF WaitGroup, WaitSettled, TouchJoined, WaitTimeout, MaskTouch, LayerDone, Answer
  <2>2. CASE UNCHANGED th
    BY <1>1, <2>2 DEF OnlyMoves
  <2> QED BY ZenonT(30), <1>1, <2>1, <2>2, GotoMoves, LeaveMoves DEF Pc, PlanPc
<1>7. joined' \in Seq(Keys \X Stamp)
  BY ZenonT(30), <1>4 DEF PlannerTypes, WaitGroup, WaitSettled, TouchJoined, WaitTimeout, MaskTouch,
     LayerDone, planVars
<1>8. PlannerTypes'
  BY ZenonT(30), <1>2, <1>6, <1>7 DEF PlannerTypes, OnlyMoves
<1>9. Outside("submit")'
  BY ZenonT(30), <1>3, <1>6 DEF Outside, FetchPc
<1>10. Planning'
  BY <1>2, <1>6 DEF ThreadsPlaced, Planning, PlanPc
<1> QED BY ZenonT(30), <1>2, <1>3, <1>5, <1>6, <1>8, <1>9, <1>10, SubmitMove

-----------------------------------------------------------------------------
(* fetch before it has a slot *)

\* The order of the naturals.
LessNat == {ss \in Nat \X Nat : ss[1] < ss[2]}

\* It is well-founded, so a nonempty set of naturals has a least element.
LEMMA LeastNatural ==
    ASSUME NEW S \in SUBSET Nat, S # {}
    PROVE  \E n \in S : \A m \in S : n <= m
<1>1. IsWellFoundedOn(LessNat, Nat)
  BY NatLessThanWellFounded DEF OpToRel, LessNat
<1>2. PICK n \in S : \A m \in S : <<m, n>> \notin LessNat
  BY ZenonT(30), <1>1, WFMin
<1>3. \A m \in S : ~(m < n)
  BY ZenonT(30), <1>2 DEF LessNat
<1> QED BY <1>3

\* choose_victims finds an oldest slot in any nonempty set of slots.
LEMMA OldestIn ==
    ASSUME TypeOK, NEW S \in SUBSET Slot, S # {}
    PROVE  /\ Oldest(S) \in S
           /\ \A u \in S : \/ lastUse[Oldest(S)] < lastUse[u]
                           \/ lastUse[Oldest(S)] = lastUse[u] /\ Oldest(S) <= u
<1>1. \A s \in S : s \in Nat /\ lastUse[s] \in Nat
  BY StoreAssumption DEF TypeOK, Slot, Stamp
<1>2. PICK n \in {lastUse[s] : s \in S} : \A m \in {lastUse[s] : s \in S} : n <= m
  <2>1. {lastUse[s] : s \in S} \in SUBSET Nat /\ {lastUse[s] : s \in S} # {}
    BY <1>1
  <2> QED BY ZenonT(30), <2>1, LeastNatural
<1>3. PICK s \in {u \in S : lastUse[u] = n} : \A u \in {u \in S : lastUse[u] = n} : s <= u
  <2>1. {u \in S : lastUse[u] = n} \in SUBSET Nat /\ {u \in S : lastUse[u] = n} # {}
    BY <1>1, <1>2
  <2> QED BY ZenonT(30), <2>1, LeastNatural
<1>4. \A u \in S : lastUse[s] < lastUse[u] \/ (lastUse[s] = lastUse[u] /\ s <= u)
  BY <1>1, <1>2, <1>3
<1>5. s \in S
  BY <1>3
<1> QED BY ZenonT(30), <1>4, <1>5 DEF Oldest

\* A thread in a fetch that is counted and has no entry.
Waiting(t) ==
    \/ th[t].pc \in {"begin", "reclaim", "evict"}
    \/ th[t].pc = "ret" /\ th[t].err # "Ok"

\* It moves on, or fails, without a slot.
LEMMA FetchMove ==
    ASSUME PlannerInv, StoreInv', SlotsCalm, NEW t \in Thread,
           UNCHANGED <<clock, planVars, todo, group, fetches, bf>>, OnlyMoves(t),
           Waiting(t), Waiting(t)', th'[t].ctx = th[t].ctx
    PROVE  PlannerInv'
<1> USE DEF PlannerInv
<1>1. th \in [Thread -> ThreadState] /\ th' \in [Thread -> ThreadState]
      /\ th[t].pc \in FetchPc /\ th'[t].pc \in FetchPc /\ ~Busy(t) /\ ~Busy(t)'
  BY DEF PlannerTypes, OnlyMoves, Waiting, FetchPc, Busy
<1>2. \A u \in Thread : u # t => th'[u] = th[u]
  BY DEF OnlyMoves
<1>3. PlannerTypes'
  BY <1>1 DEF PlannerTypes, planVars
<1>4. ThreadsCalm /\ layer' = layer
  BY <1>1, <1>2 DEF ThreadsCalm, planVars
<1>5. FetchesShaped' /\ FetchesHeld' /\ FillsOwned' /\ NoOrphanFill'
  BY ZenonT(30), <1>1, <1>4, CalmKeepsFills
<1>6. Planning'
  BY <1>1, <1>2, <1>4 DEF ThreadsPlaced, Planning, FetchPc, PlanPc, Thread
<1>7. ThreadsPlaced'
  BY ZenonT(30), <1>1, <1>2, <1>6 DEF ThreadsPlaced, FetchPc, Thread
<1>8. \A u \in Thread, c \in {"plan", "pump"} : Uncounted(u, c)' <=> Uncounted(u, c)
  BY <1>2 DEF Uncounted, Waiting
<1>9. FirstRunDecides => Counted'
  BY ZenonT(30), <1>4, <1>8, CalmKeepsCounts DEF Thread
<1>10. FirstRunDecides => NotStarted'
  BY DEF NotStarted
<1> QED BY ZenonT(30), <1>3, <1>5, <1>7, <1>9, <1>10

\* begin_fill refuses, reclaim picks victims and evicts one: the fill stays
\* counted until plan_layer or the pump sees the error.
LEMMA FetchMovesKeep ==
    ASSUME PlannerInv, NEW t \in Thread, FetchRefused(t) \/ FetchReclaim(t) \/ FetchEvict(t)
    PROVE  PlannerInv'
<1> USE DEF PlannerInv
<1>1. th \in [Thread -> ThreadState]
  BY DEF PlannerTypes
<1>2. CASE FetchRefused(t)
  <2>1. th[t].pc = "begin" /\ UNCHANGED <<vars, clock, planVars, todo, group, fetches, bf>>
    BY ZenonT(30), <1>2 DEF FetchRefused, At
  <2>2. Return(t, "ResourceExhausted") \/ Return(t, "AlreadyExists") \/ Goto(t, "reclaim")
    BY ZenonT(30), <1>2 DEF FetchRefused
  <2>3. OnlyMoves(t) /\ th'[t].ctx = th[t].ctx /\ Waiting(t)'
    BY ZenonT(30), <1>1, <2>2, GotoMoves, ReturnMoves DEF Waiting, Pc, FetchPc, Errors
  <2> QED BY ZenonT(30), <2>1, <2>3, QuietIsCalm, FetchMove DEF Waiting
<1>3. CASE FetchReclaim(t)
  <2>1. th[t].pc = "reclaim" /\ UNCHANGED <<vars, clock, planVars, todo, group, fetches, bf>>
    BY <1>3 DEF FetchReclaim, At
  <2>2. CASE Return(t, "ResourceExhausted")
    <3>1. OnlyMoves(t) /\ th'[t].ctx = th[t].ctx /\ Waiting(t)'
      BY ZenonT(30), <1>1, <2>2, ReturnMoves DEF Waiting, Errors
    <3> QED BY ZenonT(30), <2>1, <3>1, QuietIsCalm, FetchMove DEF Waiting
  <2>3. CASE Evictable # {} /\ ~Return(t, "ResourceExhausted")
    <3> DEFINE first == Oldest(Evictable)
               rest == Evictable \ {first}
               victims == IF rest = {} THEN <<first>> ELSE <<first, Oldest(rest)>>
    <3>1. Evictable \subseteq Slot /\ rest \subseteq Slot
      BY DEF Evictable
    <3>2. first \in Slot /\ (rest # {} => Oldest(rest) \in Slot)
      BY ZenonT(30), <2>3, <3>1, OldestIn DEF StoreInv
    <3>3. th' = [th EXCEPT ![t].pc = "evict", ![t].victims = victims]
      BY ZenonT(30), <1>3, <2>3 DEF FetchReclaim
    <3>4. victims \in Seq(Slot)
      <4>1. <<first>> \in Seq(Slot)
        BY <3>2
      <4>2. rest # {} => <<first, Oldest(rest)>> \in Seq(Slot)
        BY <3>2
      <4> QED BY ZenonT(30), <4>1, <4>2
    <3> HIDE DEF victims
    <3>5. OnlyMoves(t) /\ th'[t].ctx = th[t].ctx /\ th'[t].pc = "evict"
      <4>1. "evict" \in Pc
        BY DEF Pc, FetchPc
      <4> QED BY ZenonT(30), <1>1, <3>3, <3>4, <4>1 DEF OnlyMoves, ThreadState
    <3> QED BY ZenonT(30), <2>1, <3>5, QuietIsCalm, FetchMove DEF Waiting
  <2> QED BY ZenonT(30), <1>3, <2>2, <2>3 DEF FetchReclaim
<1>4. CASE FetchEvict(t)
  <2>1. th[t].pc = "evict" /\ UNCHANGED <<clock, planVars, todo, group, fetches, bf>>
    BY <1>4 DEF FetchEvict, At
  <2>2. th[t].victims \in Seq(Slot)
    BY ZenonT(30), <1>1 DEF ThreadState
  <2>3. CASE /\ th[t].victims # <<>> /\ Evict(Head(th[t].victims))
             /\ th' = [th EXCEPT ![t].pc = "begin", ![t].again = TRUE]
    <3>1. StoreInv' /\ SlotsCalm
      BY <2>3, EvictIsCalm DEF Evict
    <3>2. OnlyMoves(t) /\ th'[t].ctx = th[t].ctx /\ th'[t].pc = "begin"
      <4>1. "begin" \in Pc
        BY DEF Pc, FetchPc
      <4> QED BY ZenonT(30), <1>1, <2>3, <4>1 DEF OnlyMoves, ThreadState
    <3> QED BY ZenonT(30), <2>1, <3>1, <3>2, FetchMove DEF Waiting
  <2>4. CASE /\ th[t].victims # <<>> /\ UNCHANGED vars
             /\ th' = [th EXCEPT ![t].victims = Tail(th[t].victims)]
    <3>1. Tail(th[t].victims) \in Seq(Slot)
      BY <2>2, <2>4
    <3>2. OnlyMoves(t) /\ th'[t].ctx = th[t].ctx /\ th'[t].pc = th[t].pc
      BY ZenonT(30), <1>1, <2>4, <3>1 DEF OnlyMoves, ThreadState
    <3> QED BY <2>1, <2>4, <3>2, QuietIsCalm, FetchMove DEF Waiting
  <2>5. CASE Return(t, "ResourceExhausted") /\ UNCHANGED vars
    <3>1. OnlyMoves(t) /\ th'[t].ctx = th[t].ctx /\ Waiting(t)'
      BY ZenonT(30), <1>1, <2>5, ReturnMoves DEF Waiting, Errors
    <3> QED BY ZenonT(30), <2>1, <2>5, <3>1, QuietIsCalm, FetchMove DEF Waiting
  <2> QED BY ZenonT(30), <1>4, <2>3, <2>4, <2>5 DEF FetchEvict
<1> QED BY ZenonT(30), <1>2, <1>3, <1>4

-----------------------------------------------------------------------------
(* Counting a fill in and out *)

\* A count below the wrap is itself.
LEMMA NoWrap ==
    ASSUME NEW n \in Nat, NEW w \in Nat, n < w
    PROVE  n % w = n
OBVIOUS

\* A count of fills is below the wrap, with one more on the way per thread.
LEMMA CountsFit ==
    \A n \in Nat : \A c \in 0 .. 1 :
       n <= NumFetch => /\ n < Word /\ n + c + 1 \in Nat /\ n + c + 1 < Word /\ Word \in Nat
                        /\ (n + 1) % Word = n + 1 /\ (n + 1) - 1 = n /\ n + 0 = n
BY PlannerAssumption

\* The backfill order: the cursor at an entry names an expert, stamps it within
\* range and can step past it.
LEMMA OrderEntry ==
    \A i \in 1 .. Len(Order) + 1 : i <= Len(Order) =>
       /\ Order[i] \in Keys /\ BackfillStamp(i) \in Stamp
       /\ i + 1 \in 1 .. Len(Order) + 1
<1> TAKE i \in 1 .. Len(Order) + 1
<1> HAVE i <= Len(Order)
<1>1. Len(Order) \in Nat /\ i \in 1 .. Len(Order) /\ i + 1 \in 1 .. Len(Order) + 1
  BY PlannerAssumption
<1>2. Order[i] \in Keys
  BY <1>1, PlannerAssumption
<1>3. DemandBase \in 0 .. MaxStamp /\ Len(Order) < DemandBase
      /\ (Keep => DemandBase + Len(Order) <= MaxStamp) /\ MaxStamp \in Nat
  BY ZenonT(30), PlannerAssumption, StoreAssumption DEF Stamp
<1>4. DemandBase - 1 - (i - 1) \in Stamp
  BY <1>1, <1>3 DEF Stamp
<1>5. Keep => DemandBase + (i - 1) \in Stamp
  BY <1>1, <1>3 DEF Stamp
<1> QED BY ZenonT(30), <1>1, <1>2, <1>4, <1>5 DEF BackfillStamp

\* Nor does a counter leave its word.
LEMMA InWord ==
    ASSUME NEW n \in Int, NEW w \in Nat, w > 0
    PROVE  n % w \in 0 .. w - 1
OBVIOUS

\* Layers are counted from 1; 0 is the backfill's group.
LEMMA LayerNotZero == \A g \in Layer : g # 0
BY PlannerAssumption DEF Layer

\* A layer starts with no fill joined.
LEMMA NoneJoined == <<>> \in Seq(Keys \X Stamp)
OBVIOUS

\* There are at most NumFetch entries of a group.
LEMMA EntriesFinite ==
    ASSUME NEW g
    PROVE  /\ IsFiniteSet(Entries(g)) /\ Outstanding(g) = Cardinality(Entries(g))
           /\ Outstanding(g) \in Nat /\ Outstanding(g) <= NumFetch
<1>1. IsFiniteSet(FetchId) /\ Cardinality(FetchId) = NumFetch
  <2>1. IsFiniteSet(1 .. NumFetch)
        /\ Cardinality(1 .. NumFetch) = IF 1 > NumFetch THEN 0 ELSE NumFetch - 1 + 1
    BY FS_Interval, PlannerAssumption
  <2> QED BY <2>1, PlannerAssumption DEF FetchId
<1>2. IsFiniteSet(Entries(g)) /\ Cardinality(Entries(g)) <= Cardinality(FetchId)
  BY <1>1, FS_Subset DEF Entries
<1>3. Cardinality(Entries(g)) \in Nat
  BY <1>2, FS_CardinalityType
<1> QED BY ZenonT(30), <1>1, <1>2, <1>3, PlannerAssumption DEF Outstanding, Entries

\* At most one thread is on each side of the backfill's count.
LEMMA PumpingSize ==
    /\ IsFiniteSet(Pumping) /\ Cardinality(Pumping) \in 0 .. 2
    /\ \A t \in Thread : t \notin Pumping =>
          Cardinality(Pumping \cup {t}) = Cardinality(Pumping) + 1 /\ Cardinality(Pumping) <= 1
    /\ \A t \in Pumping : Cardinality(Pumping \ {t}) = Cardinality(Pumping) - 1
<1>1. IsFiniteSet(Thread) /\ Cardinality(Thread) = 2
  <2>1. IsFiniteSet({}) /\ Cardinality({}) = 0
    BY FS_EmptySet
  <2>2. IsFiniteSet({"submit"}) /\ Cardinality({"submit"}) = 1
    BY ZenonT(30), FS_Singleton
  <2>3. {"submit"} \cup {"dispatch"} = Thread
    BY ZenonT(30) DEF Thread
  <2>4. IsFiniteSet({"submit"} \cup {"dispatch"})
        /\ Cardinality({"submit"} \cup {"dispatch"}) = 1 + 1
    BY ZenonT(30), <2>2, FS_AddElement
  <2> QED BY <2>3, <2>4
<1>2. IsFiniteSet(Pumping) /\ Cardinality(Pumping) <= 2
  BY <1>1, FS_Subset DEF Pumping
<1>3. Cardinality(Pumping) \in Nat
  BY ZenonT(30), <1>2, FS_CardinalityType
<1>4. ASSUME NEW t \in Thread, t \notin Pumping
      PROVE  Cardinality(Pumping \cup {t}) = Cardinality(Pumping) + 1 /\ Cardinality(Pumping) <= 1
  <2>1. Cardinality(Pumping \cup {t}) = Cardinality(Pumping) + 1
    BY ZenonT(30), <1>2, <1>4, FS_AddElement
  <2>2. Cardinality(Pumping \cup {t}) <= Cardinality(Thread)
    BY <1>1, FS_Subset DEF Pumping
  <2> QED BY <1>1, <1>3, <2>1, <2>2
<1>5. \A t \in Pumping : Cardinality(Pumping \ {t}) = Cardinality(Pumping) - 1
  BY <1>2, FS_RemoveElement
<1> QED BY <1>2, <1>3, <1>4, <1>5

\* plan_layer counts the fill into the group and asks for it.
LEMMA PlanFetchKeeps ==
    ASSUME PlannerInv, PlanFetch PROVE PlannerInv'
<1> USE DEF PlannerInv
<1>1. /\ th["submit"].pc = "fetch"
      /\ group' = [group EXCEPT ![layer].pending = (@ + 1) % Word]
      /\ UNCHANGED <<vars, clock, planVars, todo, fetches, bf>>
  BY DEF PlanFetch, At
<1>2. th \in [Thread -> ThreadState] /\ "submit" \in Thread /\ 0 \in Stamp
  BY Ranges DEF PlannerTypes
<1>3. layer # 0 /\ todo # <<>> /\ layer \in Layer
  BY <1>1, PlannerAssumption DEF ThreadsPlaced, Planning, PlanPc, PlannerTypes, Layer
<1>4. OnlyMoves("submit") /\ th'["submit"].pc = "begin" /\ th'["submit"].ctx = "plan"
  <2> DEFINE local == [th["submit"] EXCEPT !.pc = "begin", !.ctx = "plan", !.stamp = 0,
                                            !.again = FALSE]
  <2>1. "begin" \in Pc
    BY DEF Pc, FetchPc
  <2>2. local \in ThreadState /\ local.pc = "begin" /\ local.ctx = "plan"
    BY ZenonT(30), <1>2, <2>1 DEF ThreadState
  <2>3. th' = [th EXCEPT !["submit"] = local]
    BY DEF PlanFetch
  <2> HIDE DEF local
  <2> QED BY ZenonT(30), <1>2, <2>2, <2>3 DEF OnlyMoves
<1>5. th'["dispatch"] = th["dispatch"] /\ th' \in [Thread -> ThreadState]
  BY <1>4 DEF OnlyMoves, Thread
<1>6. StoreInv' /\ SlotsCalm
  BY <1>1, QuietIsCalm
<1>7. group' \in [Layer -> [pending : 0 .. Word - 1, failed : BOOLEAN]]
  <2> DEFINE n == (group[layer].pending + 1) % Word
  <2>1. group \in [Layer -> [pending : 0 .. Word - 1, failed : BOOLEAN]]
        /\ group[layer].pending \in 0 .. Word - 1 /\ Word \in Nat /\ Word > 0
    BY <1>3, PlannerAssumption DEF PlannerTypes
  <2>2. n \in 0 .. Word - 1
    BY <2>1
  <2>3. group' = [group EXCEPT ![layer].pending = n]
    BY <1>1
  <2> HIDE DEF n
  <2> QED BY ZenonT(30), <2>1, <2>2, <2>3
<1>8. PlannerTypes'
  BY ZenonT(30), <1>1, <1>5, <1>7 DEF PlannerTypes, planVars
<1>9. ThreadsCalm /\ layer' = layer
  BY ZenonT(30), <1>1, <1>4, <1>5 DEF ThreadsCalm, Busy, Thread, planVars
<1>10. FetchesShaped' /\ FetchesHeld' /\ FillsOwned' /\ NoOrphanFill'
  BY ZenonT(30), <1>1, <1>5, <1>6, <1>9, CalmKeepsFills
<1>11. ThreadsPlaced' /\ (FirstRunDecides => NotStarted')
  BY ZenonT(30), <1>1, <1>3, <1>4, <1>5, <1>9 DEF ThreadsPlaced, Planning, NotStarted, FetchPc, PlanPc, Thread
<1>12. ASSUME FirstRunDecides PROVE Counted'
  <2>1. Outstanding(0)' = Outstanding(0) /\ \A g \in Layer : Outstanding(g)' = Outstanding(g)
    BY <1>1 DEF Outstanding, Live
  <2>2. Uncounted("submit", "plan")' /\ ~Uncounted("submit", "plan")
    BY <1>1, <1>4 DEF Uncounted
  <2>3. Pumping' = Pumping
    BY ZenonT(30), <1>1, <1>4, <1>5 DEF Pumping, Uncounted, Thread
  <2>4. group[layer].pending = Outstanding(layer) /\ Outstanding(layer) <= NumFetch
        /\ Outstanding(layer) \in Nat
    BY <1>3, <1>12, <2>2, EntriesFinite DEF Counted, GroupExact
  <2>5. (group[layer].pending + 1) % Word = Outstanding(layer) + 1
    <3>1. 0 \in 0 .. 1
      OBVIOUS
    <3> QED BY ZenonT(30), <2>4, <3>1, CountsFit
  <2>6. group'[layer].pending = Outstanding(layer) + 1
        /\ \A g \in Layer : g # layer => group'[g] = group[g]
    BY ZenonT(30), <1>1, <1>3, <2>5 DEF PlannerTypes
  <2>7. GroupExact'
    BY ZenonT(30), <1>9, <1>12, <2>1, <2>2, <2>6 DEF Counted, GroupExact
  <2>8. BackfillExact'
    BY ZenonT(30), <1>1, <1>12, <2>1, <2>3 DEF Counted, BackfillExact, Pumping
  <2> QED BY <2>7, <2>8 DEF Counted
<1> QED BY ZenonT(30), <1>6, <1>8, <1>10, <1>11, <1>12

\* A step in which a thread that is not busy moves and the entries stay.
LEMMA CalmMove ==
    ASSUME PlannerInv, NEW t \in Thread, StoreInv', SlotsCalm, fetches' = fetches,
           OnlyMoves(t), ~Busy(t), ~Busy(t)', layer' = layer \/ ~Busy("submit"),
           PlannerTypes', ThreadsPlaced', FirstRunDecides => Counted' /\ NotStarted'
    PROVE  PlannerInv'
<1>1. ThreadsCalm /\ th' \in [Thread -> ThreadState]
  BY DEF ThreadsCalm, OnlyMoves
<1> QED BY ZenonT(30), <1>1, CalmKeepsFills DEF PlannerInv

\* plan_layer after fetch: an error is counted out, a success stays counted.
LEMMA PlanFetchedKeeps ==
    ASSUME PlannerInv, PlanFetched PROVE PlannerInv'
<1> USE DEF PlannerInv
<1>1. /\ th["submit"].pc = "ret" /\ th["submit"].ctx = "plan" /\ todo' = Tail(todo)
      /\ group' = (IF th["submit"].err = "Ok" THEN group
                   ELSE [group EXCEPT ![layer].pending = (@ - 1) % Word])
      /\ UNCHANGED <<vars, clock, planVars, fetches, bf>>
  BY DEF PlanFetched, At
<1>2. "submit" \in Thread /\ th \in [Thread -> ThreadState]
  BY DEF Thread, PlannerTypes
<1>3. layer # 0 /\ todo # <<>> /\ layer \in Layer /\ layer' = layer
  BY <1>1, PlannerAssumption DEF ThreadsPlaced, Planning, PlannerTypes, Layer, planVars
<1>4. OnlyMoves("submit") /\ th'["submit"].pc = "plan" /\ th'["submit"].ctx = "none"
  BY ZenonT(30), <1>2, LeaveMoves DEF PlanFetched, Pc, PlanPc
<1>5. th'["dispatch"] = th["dispatch"] /\ th' \in [Thread -> ThreadState]
  BY <1>4 DEF OnlyMoves, Thread
<1>6. StoreInv' /\ SlotsCalm
  BY <1>1, QuietIsCalm
<1>7. group' \in [Layer -> [pending : 0 .. Word - 1, failed : BOOLEAN]]
  <2> DEFINE n == (group[layer].pending - 1) % Word
  <2>1. group \in [Layer -> [pending : 0 .. Word - 1, failed : BOOLEAN]]
        /\ group[layer].pending \in 0 .. Word - 1 /\ Word \in Nat /\ Word > 0
    BY <1>3, PlannerAssumption DEF PlannerTypes
  <2>2. n \in 0 .. Word - 1
    BY <2>1
  <2>3. group' = group \/ group' = [group EXCEPT ![layer].pending = n]
    BY <1>1
  <2> HIDE DEF n
  <2> QED BY ZenonT(30), <2>1, <2>2, <2>3
<1>8. PlannerTypes'
  <2>1. todo' \in Seq(Keys)
    BY <1>1, <1>3 DEF PlannerTypes
  <2> QED BY ZenonT(30), <1>1, <1>5, <1>7, <2>1 DEF PlannerTypes, planVars
<1>9. ThreadsPlaced' /\ (FirstRunDecides => NotStarted')
  BY ZenonT(30), <1>1, <1>3, <1>4, <1>5 DEF ThreadsPlaced, Planning, NotStarted, FetchPc, PlanPc, Thread
<1>10. ~Busy("submit") /\ ~Busy("submit")'
  BY ZenonT(30), <1>1, <1>4 DEF Busy
<1>11. ASSUME FirstRunDecides PROVE Counted'
  <2>1. Outstanding(0)' = Outstanding(0) /\ \A g \in Layer : Outstanding(g)' = Outstanding(g)
    BY <1>1 DEF Outstanding, Live
  <2>2. ~Uncounted("submit", "plan")' /\ (Uncounted("submit", "plan") <=> th["submit"].err # "Ok")
    BY <1>1, <1>4 DEF Uncounted
  <2>3. Pumping' = Pumping
    BY ZenonT(30), <1>1, <1>4, <1>5 DEF Pumping, Uncounted, Thread
  <2>4. Outstanding(layer) <= NumFetch /\ Outstanding(layer) \in Nat
        /\ group[layer].pending = Outstanding(layer) + (IF th["submit"].err # "Ok" THEN 1 ELSE 0)
    BY ZenonT(30), <1>3, <1>11, <2>2, EntriesFinite DEF Counted, GroupExact
  <2>5. th["submit"].err # "Ok" => (group[layer].pending - 1) % Word = Outstanding(layer)
    <3> DEFINE p == group[layer].pending
               n == Outstanding(layer)
    <3>1. n <= NumFetch /\ n \in Nat /\ (th["submit"].err # "Ok" => p = n + 1)
      BY ZenonT(30), <2>4
    <3> HIDE DEF p, n
    <3>2. p = n + 1 => (p - 1) % Word = n
      <4>1. n \in Nat /\ Word \in Nat /\ n < Word /\ (n + 1) - 1 = n
        BY <3>1, PlannerAssumption
      <4> QED BY ZenonT(30), <4>1, NoWrap
    <3> QED BY ZenonT(30), <3>1, <3>2 DEF p, n
  <2>6. group'[layer].pending = Outstanding(layer)
        /\ \A g \in Layer : g # layer => group'[g] = group[g]
    BY SMTT(30), <1>1, <1>3, <2>4, <2>5 DEF PlannerTypes
  <2>7. GroupExact'
    <3>1. 0 \in 0 .. 1
      OBVIOUS
    <3>2. Outstanding(layer) + 0 = Outstanding(layer)
      BY ZenonT(30), <2>4, <3>1, CountsFit
    <3> QED BY ZenonT(30), <1>3, <1>11, <2>1, <2>2, <2>6, <3>2 DEF Counted, GroupExact
  <2>8. BackfillExact'
    BY ZenonT(30), <1>1, <1>11, <2>1, <2>3 DEF Counted, BackfillExact, Pumping
  <2> QED BY <2>7, <2>8 DEF Counted
<1> QED BY ZenonT(30), <1>1, <1>2, <1>3, <1>4, <1>6, <1>8, <1>9, <1>10, <1>11, CalmMove

\* backfill_pump: it stops, skips a key that is held, or counts one in.
LEMMA PumpKeeps ==
    ASSUME PlannerInv, NEW t \in Thread, Pump(t) PROVE PlannerInv'
<1> USE DEF PlannerInv
<1>1. th[t].pc = "pump" /\ UNCHANGED <<vars, clock, planVars, todo, group, fetches>>
  BY DEF Pump, At
<1>2. th \in [Thread -> ThreadState] /\ th[t] \in ThreadState /\ bf \in BackfillState
  BY DEF PlannerTypes
<1>3. StoreInv' /\ SlotsCalm /\ layer' = layer
  BY ZenonT(30), <1>1, QuietIsCalm DEF planVars
<1>4. Outstanding(0)' = Outstanding(0) /\ \A g \in Layer : Outstanding(g)' = Outstanding(g)
  BY <1>1 DEF Outstanding, Live
<1>5. \A u \in Thread : u # t /\ OnlyMoves(t) => th'[u] = th[u]
  BY DEF OnlyMoves
<1>6. CASE /\ Leave(t, "idle") \/ UNCHANGED th
           /\ bf' \in BackfillState /\ bf'.inflight = bf.inflight /\ bf'.max = bf.max
           /\ bf'.started = bf.started /\ (bf'.active => bf.active)
  <2>1. OnlyMoves(t) /\ th'[t].pc \in {"idle", "pump"} /\ th'[t].ctx \in {"none", th[t].ctx}
    BY ZenonT(30), <1>1, <1>2, <1>6, LeaveMoves DEF OnlyMoves, Pc
  <2>2. PlannerTypes'
    BY ZenonT(30), <1>1, <1>6, <2>1 DEF PlannerTypes, OnlyMoves, planVars
  <2>3. ThreadsPlaced' /\ (FirstRunDecides => NotStarted')
    BY ZenonT(30), <1>1, <1>3, <1>5, <1>6, <2>1 DEF ThreadsPlaced, Planning, NotStarted, FetchPc, PlanPc, Thread
  <2>4. ~Busy(t) /\ ~Busy(t)'
    BY ZenonT(30), <1>1, <2>1 DEF Busy
  <2>5. \A u \in Thread, c \in {"plan", "pump"} : Uncounted(u, c)' <=> Uncounted(u, c)
    BY ZenonT(30), <1>1, <1>5, <2>1 DEF Uncounted
  <2>6. FirstRunDecides => Counted'
    BY ZenonT(30), <1>1, <1>3, <1>6, <2>5, CalmKeepsCounts DEF Thread
  <2> QED BY ZenonT(30), <1>1, <1>3, <2>1, <2>2, <2>3, <2>4, <2>6, CalmMove
<1>7. CASE /\ bf.active /\ bf.inflight < bf.max /\ bf.next <= Len(Order)
           /\ bf' = [bf EXCEPT !.next = @ + 1, !.inflight = (@ + 1) % Word]
           /\ th' = [th EXCEPT ![t] = [@ EXCEPT !.pc = "begin", !.ctx = "pump",
                                                !.key = Order[bf.next], !.again = FALSE,
                                                !.stamp = BackfillStamp(bf.next)]]
  <2> DEFINE local == [th[t] EXCEPT !.pc = "begin", !.ctx = "pump", !.key = Order[bf.next],
                                    !.again = FALSE, !.stamp = BackfillStamp(bf.next)]
  <2>1. /\ bf.next \in 1 .. Len(Order) + 1 /\ bf.inflight \in 0 .. Word - 1 /\ bf.max \in Nat
        /\ bf.started \in BOOLEAN /\ bf.active \in BOOLEAN /\ Word \in Nat /\ Word > 0
        /\ Len(Order) \in Nat
    BY <1>2, PlannerAssumption DEF BackfillState
  <2>2. Order[bf.next] \in Keys /\ BackfillStamp(bf.next) \in Stamp
    BY ZenonT(30), <1>7, <2>1, OrderEntry
  <2>3. "begin" \in Pc
    BY DEF Pc, FetchPc
  <2>4. local \in ThreadState /\ local.pc = "begin" /\ local.ctx = "pump"
    BY ZenonT(30), <1>2, <2>2, <2>3 DEF ThreadState
  <2>5. th' = [th EXCEPT ![t] = local]
    BY ZenonT(30), <1>7
  <2> HIDE DEF local
  <2>6. OnlyMoves(t) /\ th'[t].pc = "begin" /\ th'[t].ctx = "pump"
    BY ZenonT(30), <1>2, <2>4, <2>5 DEF OnlyMoves
  <2>7. bf' \in BackfillState
    <3> DEFINE n == (bf.inflight + 1) % Word
    <3>1. n \in 0 .. Word - 1 /\ bf.next + 1 \in 1 .. Len(Order) + 1
      <4>1. bf.inflight + 1 \in Int
        BY <2>1
      <4> QED BY ZenonT(30), <1>7, <2>1, <4>1, InWord, OrderEntry
    <3>2. bf' = [bf EXCEPT !.next = bf.next + 1, !.inflight = n]
      BY ZenonT(30), <1>7
    <3> HIDE DEF n
    <3> QED BY ZenonT(30), <1>2, <3>1, <3>2 DEF BackfillState
  <2>8. PlannerTypes'
    BY ZenonT(30), <1>1, <2>6, <2>7 DEF PlannerTypes, OnlyMoves, planVars
  <2>9. FirstRunDecides => NotStarted'
    BY ZenonT(30), <1>2, <1>7 DEF NotStarted, BackfillState
  <2>10. ThreadsPlaced'
    BY ZenonT(30), <1>1, <1>3, <1>5, <2>6 DEF ThreadsPlaced, Planning, FetchPc, PlanPc, Thread
  <2>11. ~Busy(t) /\ ~Busy(t)'
    BY ZenonT(30), <1>1, <2>6 DEF Busy
  <2>12. ASSUME FirstRunDecides PROVE Counted'
    <3>1. Pumping' = Pumping \cup {t} /\ t \notin Pumping
      BY ZenonT(30), <1>1, <1>5, <2>6 DEF Pumping, Uncounted
    <3>2. bf.inflight = Outstanding(0) + Cardinality(Pumping)
      BY ZenonT(30), <2>12 DEF Counted, BackfillExact, Pumping
    <3>3. Outstanding(0) \in Nat /\ Outstanding(0) <= NumFetch
      BY ZenonT(30), EntriesFinite
    <3>4. Cardinality(Pumping) \in 0 .. 1 /\ Cardinality(Pumping') = Cardinality(Pumping) + 1
      BY <3>1, PumpingSize
    <3>5. bf'.inflight = (bf.inflight + 1) % Word /\ bf'.max = bf.max
      BY ZenonT(30), <1>2, <1>7 DEF BackfillState
    <3>6. (bf.inflight + 1) % Word = bf.inflight + 1
      <4>1. bf.inflight + 1 \in Nat /\ bf.inflight + 1 < Word /\ Word \in Nat
        BY ZenonT(30), <3>2, <3>3, <3>4, CountsFit
      <4> QED BY ZenonT(30), <4>1, NoWrap
    <3>7. BackfillExact'
      BY SMTT(30), <1>4, <1>7, <2>1, <3>2, <3>3, <3>4, <3>5, <3>6 DEF BackfillExact, Pumping
    <3>8. Uncounted("submit", "plan")' <=> Uncounted("submit", "plan")
      BY ZenonT(30), <1>1, <1>5, <2>6 DEF Uncounted, Thread
    <3>9. GroupExact'
      BY ZenonT(30), <1>1, <1>3, <1>4, <2>12, <3>8 DEF Counted, GroupExact
    <3> QED BY ZenonT(30), <3>7, <3>9 DEF Counted
  <2> QED BY ZenonT(30), <1>1, <1>3, <2>6, <2>8, <2>9, <2>10, <2>11, <2>12, CalmMove
<1>8. \/ /\ Leave(t, "idle") \/ UNCHANGED th
         /\ bf' \in BackfillState /\ bf'.inflight = bf.inflight /\ bf'.max = bf.max
         /\ bf'.started = bf.started /\ (bf'.active => bf.active)
      \/ /\ bf.active /\ bf.inflight < bf.max /\ bf.next <= Len(Order)
         /\ bf' = [bf EXCEPT !.next = @ + 1, !.inflight = (@ + 1) % Word]
         /\ th' = [th EXCEPT ![t] = [@ EXCEPT !.pc = "begin", !.ctx = "pump",
                                              !.key = Order[bf.next], !.again = FALSE,
                                              !.stamp = BackfillStamp(bf.next)]]
  <2>1. CASE Leave(t, "idle") /\ UNCHANGED bf
    BY ZenonT(30), <1>2, <2>1
  <2>2. CASE bf.active /\ bf' = [bf EXCEPT !.active = bf.inflight # 0] /\ Leave(t, "idle")
    BY ZenonT(30), <1>2, <2>2 DEF BackfillState
  <2>3. CASE bf.next <= Len(Order) /\ bf' = [bf EXCEPT !.next = @ + 1] /\ UNCHANGED th
    <3>1. bf.next + 1 \in 1 .. Len(Order) + 1
      BY ZenonT(30), <1>2, <2>3, OrderEntry DEF BackfillState
    <3> QED BY ZenonT(30), <1>2, <2>3, <3>1 DEF BackfillState
  <2> QED BY ZenonT(30), <2>1, <2>2, <2>3 DEF Pump, PumpNext
<1> QED BY ZenonT(30), <1>6, <1>7, <1>8

\* backfill_pump after fetch: an error is counted out.
LEMMA PumpFetchedKeeps ==
    ASSUME PlannerInv, NEW t \in Thread, PumpFetched(t) PROVE PlannerInv'
<1> USE DEF PlannerInv
<1>1. /\ th[t].pc = "ret" /\ th[t].ctx = "pump"
      /\ UNCHANGED <<vars, clock, planVars, todo, group, fetches>>
  BY ZenonT(30) DEF PumpFetched, At
<1>2. th \in [Thread -> ThreadState] /\ bf \in BackfillState
  BY DEF PlannerTypes
<1>3. StoreInv' /\ SlotsCalm /\ layer' = layer
  BY ZenonT(30), <1>1, QuietIsCalm DEF planVars
<1>4. Outstanding(0)' = Outstanding(0) /\ \A g \in Layer : Outstanding(g)' = Outstanding(g)
  BY ZenonT(30), <1>1 DEF Outstanding, Live
<1>5. OnlyMoves(t) /\ th'[t].pc \in {"idle", "pump"} /\ th'[t].ctx = "none"
  <2>1. Leave(t, "idle") \/ Leave(t, "pump")
    BY ZenonT(30) DEF PumpFetched
  <2> QED BY ZenonT(30), <1>2, <2>1, LeaveMoves DEF Pc
<1>6. \A u \in Thread : u # t => th'[u] = th[u]
  BY <1>5 DEF OnlyMoves
<1>7. /\ bf' \in BackfillState /\ bf'.started = bf.started /\ (bf'.active => bf.active)
      /\ bf'.max = bf.max
      /\ bf'.inflight = IF th[t].err = "Ok" THEN bf.inflight ELSE (bf.inflight - 1) % Word
  <2> DEFINE n == (bf.inflight - 1) % Word
  <2>1. n \in 0 .. Word - 1
    BY <1>2, PlannerAssumption DEF BackfillState
  <2>2. \/ th[t].err = "Ok" /\ bf' = bf
        \/ th[t].err = "AlreadyExists" /\ bf' = [bf EXCEPT !.inflight = n]
        \/ th[t].err \notin {"Ok", "AlreadyExists"} /\ bf' = [bf EXCEPT !.inflight = n, !.active = FALSE]
    BY ZenonT(30) DEF PumpFetched
  <2> SUFFICES /\ bf' \in BackfillState /\ bf'.started = bf.started /\ (bf'.active => bf.active)
               /\ bf'.max = bf.max
               /\ bf'.inflight = IF th[t].err = "Ok" THEN bf.inflight ELSE n
    OBVIOUS
  <2> HIDE DEF n
  <2> QED BY ZenonT(30), <1>2, <2>1, <2>2 DEF BackfillState
<1>8. PlannerTypes'
  BY ZenonT(30), <1>1, <1>5, <1>7 DEF PlannerTypes, OnlyMoves, planVars
<1>9. ThreadsPlaced'
  BY ZenonT(30), <1>1, <1>3, <1>5, <1>6 DEF ThreadsPlaced, Planning, FetchPc, PlanPc, Thread
<1>10. ~Busy(t) /\ ~Busy(t)'
  BY ZenonT(30), <1>1, <1>5 DEF Busy
<1>11. th[t].err = "Ok" => Pumping' = Pumping
  BY ZenonT(30), <1>1, <1>5, <1>6 DEF Pumping, Uncounted
<1>12. th[t].err # "Ok" => Pumping' = Pumping \ {t} /\ t \in Pumping
  BY ZenonT(30), <1>1, <1>5, <1>6 DEF Pumping, Uncounted
<1>13. ASSUME FirstRunDecides PROVE Counted' /\ NotStarted'
  <2>1. bf.inflight = Outstanding(0) + Cardinality(Pumping) /\ bf.inflight <= bf.max
        /\ Outstanding(0) \in Nat /\ Outstanding(0) <= NumFetch
        /\ Cardinality(Pumping) \in 0 .. 2 /\ bf.max \in Nat
    BY ZenonT(30), <1>2, <1>13, EntriesFinite, PumpingSize DEF Counted, BackfillExact, Pumping, BackfillState
  <2>2. ASSUME th[t].err = "Ok" PROVE BackfillExact' /\ NotStarted'
    <3>1. BackfillExact'
      BY ZenonT(30), <1>4, <1>7, <1>11, <2>1, <2>2 DEF BackfillExact, Pumping
    <3>2. NotStarted'
      BY ZenonT(30), <1>7, <1>13, <2>2 DEF NotStarted
    <3> QED BY ZenonT(30), <3>1, <3>2
  <2>3. ASSUME th[t].err # "Ok" PROVE BackfillExact' /\ NotStarted'
    <3>1. Cardinality(Pumping') = Cardinality(Pumping) - 1 /\ Cardinality(Pumping) >= 1
      <4>1. Pumping' = Pumping \ {t} /\ t \in Pumping
        BY <1>12, <2>3
      <4>2. Cardinality(Pumping) # 0
        BY ZenonT(30), <4>1, PumpingSize, FS_EmptySet
      <4> QED BY SMTT(30), <2>1, <4>1, <4>2, PumpingSize
    <3>2. bf.inflight - 1 \in Nat /\ bf.inflight - 1 < Word /\ Word \in Nat /\ bf.inflight # 0
      BY SMTT(30), <2>1, <3>1, PlannerAssumption
    <3>3. bf'.inflight = bf.inflight - 1
      BY ZenonT(30), <1>7, <2>3, <3>2, NoWrap
    <3>4. BackfillExact'
      <4> DEFINE i == bf.inflight
                 o == Outstanding(0)
                 c == Cardinality(Pumping)
                 m == bf.max
      <4>1. i = o + c /\ i <= m /\ o \in Nat /\ c \in Nat /\ c >= 1 /\ m \in Nat
        BY <2>1, <3>1
      <4> HIDE DEF i, o, c, m
      <4>2. i - 1 = o + (c - 1) /\ i - 1 <= m
        BY <4>1
      <4>3. Outstanding(0)' = o /\ Cardinality(Pumping') = c - 1 /\ bf'.inflight = i - 1 /\ bf'.max = m
        BY ZenonT(30), <1>4, <1>7, <3>1, <3>3 DEF i, o, c, m
      <4> QED BY ZenonT(30), <4>2, <4>3 DEF BackfillExact, Pumping
    <3>5. NotStarted'
      BY ZenonT(30), <1>7, <1>13, <3>2 DEF NotStarted
    <3> QED BY ZenonT(30), <3>4, <3>5
  <2>4. Uncounted("submit", "plan")' <=> Uncounted("submit", "plan")
    BY ZenonT(30), <1>1, <1>5, <1>6 DEF Uncounted, Thread
  <2>5. GroupExact'
    BY ZenonT(30), <1>1, <1>3, <1>4, <1>13, <2>4 DEF Counted, GroupExact
  <2> QED BY ZenonT(30), <2>2, <2>3, <2>5 DEF Counted
<1> QED BY ZenonT(30), <1>1, <1>3, <1>5, <1>8, <1>9, <1>10, <1>13, CalmMove

-----------------------------------------------------------------------------
(* Between layers *)

\* A layer starts, or the engine changes its mode: no fill is concerned.
LEMMA IdleMovesKeep ==
    ASSUME PlannerInv,
           \/ \E r \in Routes : StartLayer(r)
           \/ \E m \in Modes : SetResidentOnly(m)
           \/ RequestOffPlain
    PROVE  PlannerInv'
<1> USE DEF PlannerInv
<1>1. th \in [Thread -> ThreadState] /\ "submit" \in Thread
  BY DEF PlannerTypes, Thread
<1>2. ASSUME NEW r \in Routes, StartLayer(r) PROVE PlannerInv'
  <2>1. /\ th["submit"].pc = "idle" /\ layer < MaxLayers /\ layer' = layer + 1 /\ todo' = r
        /\ joined' = <<>> /\ hits' = {} /\ Leave("submit", "plan")
        /\ UNCHANGED <<vars, clock, mask, group, fetches, bf>>
    BY ZenonT(30), <1>2 DEF StartLayer, At
  <2>2. OnlyMoves("submit") /\ th'["submit"].pc = "plan" /\ th'["submit"].ctx = "none"
    BY ZenonT(30), <1>1, <2>1, LeaveMoves DEF Pc, PlanPc
  <2>3. layer' \in 0 .. MaxLayers /\ layer' # 0 /\ todo' \in Seq(Keys)
    BY <2>1, PlannerAssumption DEF PlannerTypes
  <2>4. joined' \in Seq(Keys \X Stamp)
    BY ZenonT(30), <2>1, NoneJoined
  <2>5. PlannerTypes'
    BY ZenonT(30), <2>1, <2>2, <2>3, <2>4 DEF PlannerTypes, OnlyMoves
  <2>6. Outside("submit") /\ Outside("submit")' /\ Planning'
    BY ZenonT(30), <2>1, <2>2, <2>3 DEF Outside, Planning, FetchPc, PlanPc
  <2> QED BY ZenonT(30), <2>1, <2>2, <2>5, <2>6, QuietIsCalm, SubmitMove
<1>3. ASSUME NEW m \in Modes, SetResidentOnly(m) PROVE PlannerInv'
  <2>1. /\ th["submit"].pc = "idle" /\ mask' = (m # "Off") /\ SetFixedCache(m = "FixedMask")
        /\ UNCHANGED <<th, clock, layer, joined, hits, todo, group, fetches, bf>>
    BY ZenonT(30), <1>3 DEF SetResidentOnly, At
  <2>2. StoreInv' /\ SlotsCalm
    BY ZenonT(30), <2>1, QuietIsCalm
  <2>3. mask' \in BOOLEAN /\ (mask' => MaxLayers <= MaxTimeline)
    BY ZenonT(30), <2>1, PlannerAssumption
  <2>4. PlannerTypes' /\ OnlyMoves("submit")
    BY <2>1, <2>3 DEF PlannerTypes, OnlyMoves
  <2>5. Outside("submit") /\ Outside("submit")' /\ Planning'
    BY ZenonT(30), <2>1 DEF Outside, Planning, ThreadsPlaced, FetchPc, PlanPc
  <2> QED BY ZenonT(30), <2>1, <2>2, <2>4, <2>5, SubmitMove
<1>4. ASSUME RequestOffPlain PROVE PlannerInv'
  <2>1. /\ th["submit"].pc = "idle" /\ mask' = FALSE
        /\ UNCHANGED <<vars, th, clock, layer, joined, hits, todo, group, fetches, bf>>
    BY ZenonT(30), <1>4 DEF RequestOffPlain, At
  <2>2. StoreInv' /\ SlotsCalm
    BY ZenonT(30), <2>1, QuietIsCalm
  <2>3. PlannerTypes' /\ OnlyMoves("submit")
    BY ZenonT(30), <2>1 DEF PlannerTypes, OnlyMoves
  <2>4. Outside("submit") /\ Outside("submit")' /\ Planning'
    BY ZenonT(30), <2>1 DEF Outside, Planning, ThreadsPlaced, FetchPc, PlanPc
  <2> QED BY ZenonT(30), <2>1, <2>2, <2>3, <2>4, SubmitMove
<1> QED BY ZenonT(30), <1>2, <1>3, <1>4

\* The backfill is started, once, or stopped; stopping leaves its fills counted.
LEMMA BackfillMovesKeep ==
    ASSUME PlannerInv, (\E n \in Inflights : StartBackfill(n)) \/ StopBackfill
    PROVE  PlannerInv'
<1> USE DEF PlannerInv
<1>1. th \in [Thread -> ThreadState] /\ "submit" \in Thread /\ bf \in BackfillState
  BY DEF PlannerTypes, Thread
<1>2. th["submit"].pc = "idle" /\ UNCHANGED <<vars, clock, planVars, todo, group, fetches>>
  BY DEF StartBackfill, StopBackfill, At
<1>3. StoreInv' /\ SlotsCalm /\ layer' = layer
  BY ZenonT(30), <1>2, QuietIsCalm DEF planVars
<1>4. OnlyMoves("submit") /\ th'["submit"].pc \in {"idle", "pump"}
      /\ th'["submit"].ctx = th["submit"].ctx
  <2>1. CASE \E n \in Inflights : StartBackfill(n)
    BY ZenonT(30), <1>1, <2>1, GotoMoves DEF StartBackfill, Pc
  <2>2. CASE StopBackfill
    BY ZenonT(30), <1>1, <1>2, <2>2 DEF StopBackfill, OnlyMoves
  <2> QED BY ZenonT(30), <2>1, <2>2
<1>5. th'["dispatch"] = th["dispatch"] /\ ~Busy("submit") /\ ~Busy("submit")'
  BY <1>2, <1>4 DEF OnlyMoves, Busy, Thread
<1>6. ThreadsPlaced'
  BY ZenonT(30), <1>2, <1>3, <1>4, <1>5 DEF ThreadsPlaced, Planning, FetchPc, PlanPc, Thread
<1>7. \A t \in Thread, c \in {"plan", "pump"} : Uncounted(t, c)' <=> Uncounted(t, c)
  BY ZenonT(30), <1>2, <1>4, <1>5 DEF Uncounted, Thread
<1>8. CASE \E n \in Inflights : StartBackfill(n)
  <2>1. PICK n \in Inflights : StartBackfill(n)
    BY ZenonT(30), <1>8
  <2>2. ~bf.started
        /\ bf' = [started |-> TRUE, next |-> 1, inflight |-> 0, active |-> TRUE, max |-> n]
    BY ZenonT(30), <2>1 DEF StartBackfill
  <2>3. n \in Nat \ {0} /\ 0 \in 0 .. Word - 1 /\ 1 \in 1 .. Len(Order) + 1
    BY PlannerAssumption
  <2>4. bf' \in BackfillState
    BY ZenonT(30), <2>2, <2>3 DEF BackfillState
  <2>5. PlannerTypes'
    BY ZenonT(30), <1>2, <1>4, <2>4 DEF PlannerTypes, OnlyMoves, planVars
  <2>6. ASSUME FirstRunDecides PROVE Counted' /\ NotStarted'
    <3>1. Pumping' = Pumping /\ Outstanding(0)' = Outstanding(0)
          /\ \A g \in Layer : Outstanding(g)' = Outstanding(g)
      BY ZenonT(30), <1>2, <1>7 DEF Pumping, Outstanding, Live
    <3>2. bf.inflight = 0
      BY <2>2, <2>6 DEF NotStarted
    <3>3. BackfillExact'
      <4>1. bf'.inflight = 0 /\ bf'.max = n /\ n >= 0
        BY <2>2, <2>3
      <4>2. bf.inflight = Outstanding(0) + Cardinality(Pumping)
        BY <2>6 DEF Counted, BackfillExact, Pumping
      <4> QED BY ZenonT(30), <3>1, <3>2, <4>1, <4>2 DEF BackfillExact, Pumping
    <3>4. GroupExact'
      BY ZenonT(30), <1>2, <1>3, <1>7, <2>6, <3>1 DEF Counted, GroupExact, Thread
    <3>5. NotStarted'
      BY ZenonT(30), <2>2 DEF NotStarted
    <3> QED BY ZenonT(30), <3>3, <3>4, <3>5 DEF Counted
  <2> QED BY ZenonT(30), <1>1, <1>2, <1>3, <1>4, <1>5, <1>6, <2>5, <2>6, CalmMove
<1>9. CASE StopBackfill
  <2>1. bf' = [bf EXCEPT !.active = FALSE]
    BY <1>9 DEF StopBackfill
  <2>2. bf' \in BackfillState /\ bf'.inflight = bf.inflight /\ bf'.max = bf.max
        /\ bf'.started = bf.started /\ ~bf'.active
    BY ZenonT(30), <1>1, <2>1 DEF BackfillState
  <2>3. PlannerTypes'
    BY ZenonT(30), <1>2, <1>4, <2>2 DEF PlannerTypes, OnlyMoves, planVars
  <2>4. FirstRunDecides => Counted' /\ NotStarted'
    BY ZenonT(30), <1>2, <1>3, <1>7, <2>2, CalmKeepsCounts DEF Thread, NotStarted
  <2> QED BY ZenonT(30), <1>1, <1>2, <1>3, <1>4, <1>5, <1>6, <2>3, <2>4, CalmMove
<1> QED BY ZenonT(30), <1>8, <1>9

=============================================================================
