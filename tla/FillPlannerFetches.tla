------------------------- MODULE FillPlannerFetches --------------------------
(*****************************************************************************)
(* The steps of a fetch that has a slot preserve the invariant: its begin,   *)
(* its submits, and the completions of its runs.                             *)
(*****************************************************************************)
EXTENDS FillPlannerInvariant

(* Entries *)

\* A new entry adds one to its group.
LEMMA EntryAdded ==
    ASSUME PlannerTypes, NEW f \in FetchId, ~Live(f), NEW x \in FetchState, x.slot # NoSlot,
           fetches' = [fetches EXCEPT ![f] = x], NEW g
    PROVE  Outstanding(g)' = IF g = x.group THEN Outstanding(g) + 1 ELSE Outstanding(g)
<1>1. fetches'[f] = x /\ \A h \in FetchId : h # f => fetches'[h] = fetches[h]
  BY DEF PlannerTypes
<1>2. f \notin Entries(g)
  BY DEF Entries
<1>3. {h \in FetchId : Live(h)' /\ fetches'[h].group = g}
         = IF g = x.group THEN Entries(g) \cup {f} ELSE Entries(g)
  BY <1>1 DEF Entries, Live
<1>4. IsFiniteSet(Entries(g)) /\ Outstanding(g) = Cardinality(Entries(g))
  BY EntriesFinite
<1>5. Cardinality(Entries(g) \cup {f}) = Cardinality(Entries(g)) + 1
  BY ZenonT(30), <1>2, <1>4, FS_AddElement
<1> QED BY ZenonT(30), <1>3, <1>4, <1>5 DEF Outstanding

\* An entry that goes takes one off its group.
LEMMA EntryRemoved ==
    ASSUME PlannerTypes, NEW f \in FetchId, Live(f), fetches' = [fetches EXCEPT ![f] = NoFetch], NEW g
    PROVE  /\ Outstanding(g)' = IF g = fetches[f].group THEN Outstanding(g) - 1 ELSE Outstanding(g)
           /\ g = fetches[f].group => Outstanding(g) >= 1
<1>1. fetches'[f] = NoFetch /\ \A h \in FetchId : h # f => fetches'[h] = fetches[h]
  BY DEF PlannerTypes
<1>2. NoFetch.slot = NoSlot
  BY DEF NoFetch
<1>3. {h \in FetchId : Live(h)' /\ fetches'[h].group = g} = Entries(g) \ {f}
  BY <1>1, <1>2 DEF Entries, Live
<1>4. IsFiniteSet(Entries(g)) /\ Outstanding(g) = Cardinality(Entries(g)) /\ Outstanding(g) \in Nat
  BY EntriesFinite
<1>5. f \in Entries(g) <=> g = fetches[f].group
  BY DEF Entries
<1>6. f \in Entries(g) => Cardinality(Entries(g) \ {f}) = Cardinality(Entries(g)) - 1
                          /\ Cardinality(Entries(g)) # 0
  BY <1>4, FS_RemoveElement, FS_EmptySet
<1>7. f \notin Entries(g) => Entries(g) \ {f} = Entries(g)
  OBVIOUS
<1>8. Outstanding(g)' = Cardinality(Entries(g) \ {f})
  BY <1>3 DEF Outstanding
<1>9. CASE g = fetches[f].group
  BY SMTT(30), <1>4, <1>5, <1>6, <1>8, <1>9
<1>10. CASE g # fetches[f].group
  BY ZenonT(30), <1>4, <1>5, <1>7, <1>8, <1>10
<1> QED BY <1>9, <1>10

\* Nothing is added or removed.
LEMMA EntriesKept ==
    ASSUME \A f \in FetchId : fetches'[f].slot = fetches[f].slot /\ fetches'[f].group = fetches[f].group,
           NEW g
    PROVE  Outstanding(g)' = Outstanding(g)
BY DEF Outstanding, Live

\* The slots being filled and who fills them stay as they were.
LEMMA OwnersKept ==
    ASSUME PlannerInv, SlotsCalm,
           \A f \in FetchId : Unsettled(f)' <=> Unsettled(f),
           \A f \in FetchId : Unsettled(f) =>
              /\ fetches'[f].slot = fetches[f].slot /\ fetches'[f].key = fetches[f].key
              /\ runsDone[fetches[f].slot] + Cardinality(fetches'[f].flying) + fetches'[f].unsent
                    = runsDone[fetches[f].slot] + Cardinality(fetches[f].flying) + fetches[f].unsent
    PROVE  FillsOwned' /\ NoOrphanFill'
<1> USE DEF PlannerInv
<1>1. \A f \in FetchId : Unsettled(f) => fetches[f].slot \in Slot
  BY DEF PlannerTypes, FetchState, Unsettled, Live
<1>2. FillsOwned'
  BY <1>1 DEF FillsOwned, SlotsCalm
<1>3. NoOrphanFill'
  BY ZenonT(30) DEF NoOrphanFill, SlotsCalm
<1> QED BY ZenonT(30), <1>2, <1>3

-----------------------------------------------------------------------------
(* fetch, from begin_fill on *)

\* begin_fill succeeds: the fill that was counted becomes an entry.
LEMMA FetchBeginKeeps ==
    ASSUME PlannerInv, NEW t \in Thread, FetchBegin(t) PROVE PlannerInv'
<1> USE DEF PlannerInv
<1> DEFINE s == freeList[Len(freeList)]
           g0 == IF th[t].ctx = "plan" THEN layer ELSE 0
           stamp == IF th[t].stamp # 0 THEN th[t].stamp ELSE clock'
           x == [key |-> th[t].key, slot |-> s, stamp |-> stamp, group |-> g0,
                 ok |-> TRUE, flying |-> {}, unsent |-> Runs]
<1>1. /\ th[t].pc = "begin" /\ BeginFill(th[t].key, "Cached", Runs)
      /\ UNCHANGED <<planVars, todo, group, bf>>
  BY DEF FetchBegin, At
<1>2. th \in [Thread -> ThreadState] /\ th[t] \in ThreadState
      /\ fetches \in [FetchId -> FetchState]
  BY DEF PlannerTypes
<1>3. PICK f \in FetchId : ~Live(f) /\ fetches' = [fetches EXCEPT ![f] = x]
                           /\ th' = [th EXCEPT ![t].pc = "submit", ![t].fid = f]
  BY ZenonT(30) DEF FetchBegin
<1>4. clock' \in DemandBase .. MaxStamp /\ clock' \in Stamp
  <2>1. clock' = (IF th[t].stamp # 0 THEN clock ELSE clock + 1) /\ clock' <= MaxStamp
    BY DEF FetchBegin
  <2>2. clock \in DemandBase .. MaxStamp /\ DemandBase \in Nat /\ MaxStamp \in Nat
    BY PlannerAssumption, StoreAssumption DEF PlannerTypes, Stamp
  <2> QED BY <2>1, <2>2 DEF Stamp
<1>5. s \in Slot /\ state[s] = "Free"
  <2>1. Len(freeList) \in Nat \ {0} /\ freeList # <<>> /\ freeList \in Seq(Slot)
    BY <1>1 DEF BeginFill, StoreInv, TypeOK
  <2>2. Len(freeList) \in 1 .. Len(freeList)
    BY <2>1
  <2>3. s \in Slot
    BY <2>1, <2>2
  <2>4. state[s] = "Free"
    BY ZenonT(30), <2>2, <2>3 DEF StoreInv, Placement, FreeListExact
  <2> QED BY ZenonT(30), <2>3, <2>4
<1>6. StoreInv'
  <2>1. Runs \in 1 .. MaxRuns /\ "Cached" \in Tier /\ th[t].key \in Keys
    BY ZenonT(30), <1>2, PlannerAssumption DEF Tier, ThreadState
  <2> QED BY ZenonT(30), <1>1, <2>1, BeginFillKeepsInv
<1>7. /\ state'[s] = "Filling" /\ key'[s] = th[t].key /\ runsDone'[s] = 0 /\ runsTotal'[s] = Runs
      /\ \A u \in Slot : u # s => /\ state'[u] = state[u] /\ key'[u] = key[u]
                                  /\ runsDone'[u] = runsDone[u] /\ runsTotal'[u] = runsTotal[u]
  BY ZenonT(30), <1>1, <1>5 DEF BeginFill, StoreInv, TypeOK
<1>8. /\ OnlyMoves(t) /\ th'[t].pc = "submit" /\ th'[t].fid = f /\ th'[t].ctx = th[t].ctx
      /\ th'[t].err = th[t].err
  <2>1. "submit" \in Pc /\ f \in 0 .. NumFetch
    BY PlannerAssumption DEF Pc, FetchPc, FetchId
  <2> QED BY ZenonT(30), <1>2, <1>3, <2>1 DEF OnlyMoves, ThreadState
<1>9. \A u \in Thread : u # t => th'[u] = th[u]
  BY <1>8 DEF OnlyMoves
<1>10. s # NoSlot /\ NoSlot \notin Slot
  BY <1>5, StoreAssumption DEF Slot, NoSlot
<1>11. x \in FetchState /\ x.slot = s /\ x.group = g0 /\ x.key = th[t].key /\ x.flying = {}
       /\ x.unsent = Runs
  <2>1. stamp \in Stamp /\ g0 \in 0 .. MaxLayers /\ Runs \in 0 .. Runs /\ th[t].key \in Keys
    <3>1. stamp \in Stamp /\ th[t].key \in Keys
      BY ZenonT(30), <1>2, <1>4 DEF ThreadState
    <3>2. g0 \in 0 .. MaxLayers
      BY PlannerAssumption DEF PlannerTypes
    <3> QED BY <3>1, <3>2, PlannerAssumption
  <2> HIDE DEF stamp, g0, s
  <2> QED BY ZenonT(30), <1>5, <2>1 DEF FetchState
<1> HIDE DEF x
<1>12. fetches'[f] = x /\ \A h \in FetchId : h # f => fetches'[h] = fetches[h]
  BY ZenonT(30), <1>2, <1>3
<1>13. PlannerTypes'
  <2>1. fetches' \in [FetchId -> FetchState]
    BY ZenonT(30), <1>2, <1>3, <1>11
  <2> QED BY ZenonT(30), <1>1, <1>4, <1>8, <2>1 DEF PlannerTypes, OnlyMoves, planVars
<1>14. ThreadsPlaced'
  BY ZenonT(30), <1>1, <1>8, <1>9 DEF ThreadsPlaced, Planning, FetchPc, PlanPc, Thread, planVars
<1>15. ~Settled(f)' /\ \A h \in FetchId : h # f => (Unsettled(h)' <=> Unsettled(h))
  <2>1. At("dispatch", "callback")' <=> At("dispatch", "callback")
    BY ZenonT(30), <1>1, <1>8, <1>9 DEF At, Thread
  <2>2. At("dispatch", "callback") => th'["dispatch"].fid = th["dispatch"].fid
    BY ZenonT(30), <1>1, <1>9 DEF At, Thread
  <2>3. At("dispatch", "callback") => Live(th["dispatch"].fid)
    BY DEF FetchesHeld
  <2> QED BY ZenonT(30), <1>3, <1>12, <2>1, <2>2, <2>3 DEF Settled, Unsettled, Live
<1>16. Unsettled(f)' /\ ~Unsettled(f)
  BY ZenonT(30), <1>3, <1>10, <1>11, <1>12, <1>15 DEF Unsettled, Live
<1>17. FetchesShaped'
  BY ZenonT(30), <1>10, <1>11, <1>12 DEF FetchesShaped, Live
<1>18. \A u \in Thread : u # t /\ Sending(u) => th[u].fid \in FetchId /\ th[u].fid # f
  BY <1>3 DEF FetchesHeld, Unsettled
<1>19. FetchesHeld'
  <2>1. layer' = layer
    BY ZenonT(30), <1>1 DEF planVars
  <2>2. ASSUME NEW u \in Thread, Sending(u)'
        PROVE  (/\ th[u].fid \in FetchId
                /\ Unsettled(th[u].fid)
                /\ fetches[th[u].fid].unsent # 0
                /\ fetches[th[u].fid].group = IF th[u].ctx = "plan" THEN layer ELSE 0
                /\ FirstRunDecides /\ th[u].pc = "undo" => fetches[th[u].fid].flying = {})'
    <3>1. CASE u = t
      <4>1. Unsettled(th[u].fid)'
        BY ZenonT(30), <1>8, <1>16, <3>1 DEF Unsettled, Live, Settled
      <4> QED BY SMTT(30), <1>8, <1>11, <1>12, <2>1, <3>1, <4>1, PlannerAssumption
    <3>2. CASE u # t
      <4>1. th'[u] = th[u] /\ Sending(u) /\ th[u].fid \in FetchId /\ th[u].fid # f
        BY <1>9, <1>18, <2>2, <3>2 DEF Sending
      <4>2. Unsettled(th[u].fid)'
        <5>1. Unsettled(th[u].fid)
          BY <4>1 DEF FetchesHeld
        <5> QED BY ZenonT(30), <1>15, <4>1, <5>1 DEF Unsettled, Live, Settled
      <4> QED BY ZenonT(30), <1>12, <2>1, <4>1, <4>2 DEF FetchesHeld
    <3> QED BY ZenonT(30), <3>1, <3>2
  <2>3. (Sending("submit") /\ Sending("dispatch") => th["submit"].fid # th["dispatch"].fid)'
    BY ZenonT(30), <1>8, <1>9, <1>18 DEF Sending, Thread
  <2>4. (At("dispatch", "callback") => th["dispatch"].fid \in FetchId /\ Live(th["dispatch"].fid))'
    BY ZenonT(30), <1>3, <1>8, <1>9, <1>12 DEF FetchesHeld, At, Live, Thread
  <2> QED BY ZenonT(30), <2>2, <2>3, <2>4 DEF FetchesHeld
<1>20. \A h \in FetchId : Unsettled(h) => /\ state[fetches[h].slot] = "Filling"
                                          /\ fetches[h].slot \in Slot /\ fetches[h].slot # s
  BY ZenonT(30), <1>2, <1>5 DEF FillsOwned, Unsettled, Live, FetchState
<1>21. FillsOwned'
  <2>1. SUFFICES ASSUME NEW h \in FetchId, Unsettled(h)'
                 PROVE  /\ state'[fetches'[h].slot] = "Filling"
                        /\ key'[fetches'[h].slot] = fetches'[h].key
                        /\ runsDone'[fetches'[h].slot] + Cardinality(fetches'[h].flying)
                              + fetches'[h].unsent = runsTotal'[fetches'[h].slot]
                        /\ \A g \in FetchId \ {h} : Unsettled(g)' => fetches'[g].slot # fetches'[h].slot
    BY DEF FillsOwned
  <2>2. CASE h = f
    <3>1. 0 + Cardinality({}) + Runs = Runs
      BY SMTT(30), FS_EmptySet, PlannerAssumption
    <3> QED BY ZenonT(30), <1>7, <1>11, <1>12, <1>15, <1>20, <2>2, <3>1
  <2>3. CASE h # f
    BY SMTT(30), <1>7, <1>11, <1>12, <1>15, <1>20, <2>1, <2>3 DEF FillsOwned
  <2> QED BY ZenonT(30), <2>2, <2>3
<1>22. NoOrphanFill'
  BY SMTT(30), <1>7, <1>11, <1>12, <1>15, <1>16 DEF NoOrphanFill
<1>23. ASSUME FirstRunDecides PROVE Counted' /\ NotStarted'
  <2>1. \A g : Outstanding(g)' = IF g = g0 THEN Outstanding(g) + 1 ELSE Outstanding(g)
    BY ZenonT(30), <1>3, <1>10, <1>11, EntryAdded
  <2>2. th[t].ctx \in {"plan", "pump"} /\ (th[t].ctx = "plan" => t = "submit" /\ layer # 0)
    BY ZenonT(30), <1>1, <1>2 DEF ThreadsPlaced, Planning, FetchPc, Thread, ThreadState
  <2>3. bf.inflight = Outstanding(0) + Cardinality(Pumping) /\ bf.inflight <= bf.max
        /\ Outstanding(0) \in Nat /\ Cardinality(Pumping) \in Nat
    BY <1>23, EntriesFinite, PumpingSize DEF Counted, BackfillExact, Pumping
  <2>4. \A g \in Layer : g # 0 /\ Outstanding(g) \in Nat
    BY EntriesFinite DEF Layer
  <2>5. layer' = layer /\ group' = group /\ bf' = bf
    BY <1>1 DEF planVars
  <2>6. CASE th[t].ctx = "plan"
    <3>1. Uncounted("submit", "plan") /\ ~Uncounted("submit", "plan")'
      BY ZenonT(30), <1>1, <1>8, <2>2, <2>6 DEF Uncounted
    <3>2. Pumping' = Pumping
      BY ZenonT(30), <1>1, <1>8, <1>9, <2>6 DEF Pumping, Uncounted
    <3>3. GroupExact'
      BY SMTT(30), <1>23, <2>1, <2>4, <2>5, <2>6, <3>1 DEF Counted, GroupExact
    <3>4. Outstanding(0)' = Outstanding(0)
      BY ZenonT(30), <2>1, <2>2, <2>6
    <3>5. BackfillExact'
      BY ZenonT(30), <2>3, <2>5, <3>2, <3>4 DEF BackfillExact, Pumping
    <3> QED BY ZenonT(30), <1>23, <2>5, <3>3, <3>5 DEF Counted, NotStarted
  <2>7. CASE th[t].ctx = "pump"
    <3>1. Uncounted("submit", "plan")' <=> Uncounted("submit", "plan")
      BY ZenonT(30), <1>8, <1>9, <2>7 DEF Uncounted, Thread
    <3>2. Pumping' = Pumping \ {t} /\ t \in Pumping
      BY ZenonT(30), <1>1, <1>8, <1>9, <2>7 DEF Pumping, Uncounted
    <3>3. GroupExact'
      BY ZenonT(30), <1>23, <2>1, <2>4, <2>5, <2>7, <3>1 DEF Counted, GroupExact
    <3>4. Outstanding(0)' = Outstanding(0) + 1 /\ Cardinality(Pumping') = Cardinality(Pumping) - 1
      BY ZenonT(30), <2>1, <2>7, <3>2, PumpingSize
    <3>5. BackfillExact'
      BY SMTT(30), <2>3, <2>5, <3>4 DEF BackfillExact, Pumping
    <3> QED BY ZenonT(30), <1>23, <2>5, <3>3, <3>5 DEF Counted, NotStarted
  <2> QED BY ZenonT(30), <2>2, <2>6, <2>7
<1> QED BY <1>6, <1>13, <1>14, <1>17, <1>19, <1>21, <1>22, <1>23

\* An expert has a number of runs.
LEMMA RunsNat == Runs \in Nat
BY PlannerAssumption, StoreAssumption

\* A set of runs is finite.
LEMMA RunsFinite ==
    ASSUME NEW S \in SUBSET (1 .. Runs)
    PROVE  IsFiniteSet(S) /\ Cardinality(S) \in Nat
<1>1. IsFiniteSet(1 .. Runs)
  BY FS_Interval, PlannerAssumption
<1>2. IsFiniteSet(S)
  BY ZenonT(30), <1>1, FS_Subset
<1> QED BY ZenonT(30), <1>2, FS_CardinalityType

\* The run counters of a slot are naturals.
LEMMA RunsCounted ==
    ASSUME StoreInv, NEW s \in Slot
    PROVE  runsDone[s] \in Nat /\ runsTotal[s] \in Nat
BY StoreAssumption DEF StoreInv, TypeOK

\* An unsettled fill has a slot, and its runs are done, in flight or unsent.
LEMMA FillOf ==
    ASSUME PlannerInv, NEW f \in FetchId, Unsettled(f), NEW e, e = fetches[f]
    PROVE  /\ e.slot \in Slot /\ e.flying \in SUBSET (1 .. Runs) /\ e.unsent \in 0 .. Runs /\ Runs \in Nat
           /\ runsDone[e.slot] \in Nat /\ runsTotal[e.slot] \in Nat
           /\ Cardinality(e.flying) \in Nat /\ (Cardinality(e.flying) = 0 <=> e.flying = {})
           /\ runsDone[e.slot] + Cardinality(e.flying) + e.unsent = runsTotal[e.slot]
           /\ e.flying \subseteq e.unsent + 1 .. Runs
<1>1. e \in FetchState /\ e.slot # NoSlot
  BY DEF PlannerInv, PlannerTypes, Unsettled, Live
<1>2. e.slot \in Slot /\ e.flying \in SUBSET (1 .. Runs) /\ e.unsent \in 0 .. Runs /\ Runs \in Nat
  BY <1>1, PlannerAssumption DEF FetchState
<1>3. runsDone[e.slot] \in Nat /\ runsTotal[e.slot] \in Nat
  BY ZenonT(30), <1>2, RunsCounted DEF PlannerInv
<1>4. IsFiniteSet(e.flying) /\ Cardinality(e.flying) \in Nat /\ (Cardinality(e.flying) = 0 <=> e.flying = {})
  BY ZenonT(30), <1>2, RunsFinite, FS_EmptySet
<1>5. runsDone[e.slot] + Cardinality(e.flying) + e.unsent = runsTotal[e.slot]
  BY ZenonT(30) DEF PlannerInv, FillsOwned
<1>6. e.flying \subseteq e.unsent + 1 .. Runs
  BY ZenonT(30) DEF PlannerInv, FetchesShaped
<1> QED BY ZenonT(30), <1>2, <1>3, <1>4, <1>5, <1>6

\* What a step in which thread t changes its entry f has to show of the others.
LEMMA SenderMoves ==
    ASSUME PlannerInv, NEW t \in Thread, OnlyMoves(t), Sending(t), th'[t].pc # "callback",
           NEW f, f = th[t].fid, fetches' \in [FetchId -> FetchState],
           \A h \in FetchId : h # f => fetches'[h] = fetches[h], layer' = layer,
           Live(f)' => fetches'[f].group = fetches[f].group /\ fetches'[f].slot = fetches[f].slot,
           Sending(t)' => /\ Live(f)' /\ th'[t].fid = f /\ th'[t].ctx = th[t].ctx /\ fetches'[f].unsent # 0
                          /\ FirstRunDecides /\ th'[t].pc = "undo" => fetches'[f].flying = {}
    PROVE  /\ FetchesHeld'
           /\ \A h \in FetchId : h # f => (Unsettled(h)' <=> Unsettled(h))
           /\ f \in FetchId /\ Unsettled(f) /\ (Unsettled(f)' <=> Live(f)')
<1> USE DEF PlannerInv
<1>1. f \in FetchId /\ Unsettled(f) /\ fetches[f].group = (IF th[t].ctx = "plan" THEN layer ELSE 0)
  BY ZenonT(30) DEF FetchesHeld
<1>2. \A u \in Thread : u # t => th'[u] = th[u]
  BY ZenonT(30) DEF OnlyMoves
<1>3. \A u \in Thread : u # t /\ Sending(u) => th[u].fid \in FetchId /\ th[u].fid # f
  BY SMTT(30) DEF FetchesHeld, Thread
<1>4. /\ At("dispatch", "callback")' <=> At("dispatch", "callback")
      /\ At("dispatch", "callback") => th'["dispatch"] = th["dispatch"] /\ th["dispatch"].fid # f
  <2>1. CASE t = "dispatch"
    BY ZenonT(30), <2>1 DEF At, Sending
  <2>2. CASE t # "dispatch"
    BY ZenonT(30), <1>1, <1>2, <2>2 DEF At, Thread, Unsettled, Settled
  <2> QED BY ZenonT(30), <2>1, <2>2
<1>5. \A h \in FetchId : h # f => (Unsettled(h)' <=> Unsettled(h))
  BY ZenonT(30), <1>4 DEF Unsettled, Settled, Live
<1>6. Unsettled(f)' <=> Live(f)'
  BY <1>4 DEF Unsettled, Settled
<1>7. ASSUME NEW u \in Thread, Sending(u)'
      PROVE  (/\ th[u].fid \in FetchId
              /\ Unsettled(th[u].fid)
              /\ fetches[th[u].fid].unsent # 0
              /\ fetches[th[u].fid].group = IF th[u].ctx = "plan" THEN layer ELSE 0
              /\ FirstRunDecides /\ th[u].pc = "undo" => fetches[th[u].fid].flying = {})'
  <2>1. CASE u = t
    <3>1. Unsettled(th[u].fid)'
      BY ZenonT(30), <1>6, <1>7, <2>1 DEF Unsettled, Live, Settled
    <3> QED BY ZenonT(30), <1>1, <1>7, <2>1, <3>1
  <2>2. CASE u # t
    <3>1. th'[u] = th[u] /\ Sending(u) /\ th[u].fid \in FetchId /\ th[u].fid # f
      BY ZenonT(30), <1>2, <1>3, <1>7, <2>2 DEF Sending
    <3>2. Unsettled(th[u].fid)'
      <4>1. Unsettled(th[u].fid)
        BY ZenonT(30), <3>1 DEF FetchesHeld
      <4> QED BY ZenonT(30), <1>5, <3>1, <4>1 DEF Unsettled, Live, Settled
    <3> QED BY ZenonT(30), <3>1, <3>2 DEF FetchesHeld
  <2> QED BY ZenonT(30), <2>1, <2>2
<1>8. (Sending("submit") /\ Sending("dispatch") => th["submit"].fid # th["dispatch"].fid)'
  BY <1>2, <1>3 DEF Sending, Thread
<1>9. (At("dispatch", "callback") => th["dispatch"].fid \in FetchId /\ Live(th["dispatch"].fid))'
  BY ZenonT(30), <1>4 DEF FetchesHeld, At, Live
<1>10. FetchesHeld'
  BY ZenonT(30), <1>7, <1>8, <1>9 DEF FetchesHeld
<1> QED BY ZenonT(30), <1>1, <1>5, <1>6, <1>10

\* A run is sent, or the first one is refused: the entry stays, and counted.
LEMMA FetchSubmitKeeps ==
    ASSUME PlannerInv, NEW t \in Thread, FetchSubmit(t) \/ FetchSubmitFails(t)
    PROVE  PlannerInv'
<1> USE DEF PlannerInv
<1>1. th[t].pc = "submit" /\ UNCHANGED <<vars, clock, planVars, todo, group, bf>>
  BY DEF FetchSubmit, FetchSubmitFails, At
<1>2. th \in [Thread -> ThreadState] /\ fetches \in [FetchId -> FetchState]
  BY DEF PlannerTypes
<1> PICK f \in FetchId : f = th[t].fid
  BY ZenonT(30), <1>1 DEF FetchesHeld, Sending
<1> PICK e \in FetchState : e = fetches[f]
  BY ZenonT(30), <1>2
<1>3. Unsettled(f) /\ Live(f) /\ e.unsent # 0 /\ Sending(t)
  BY ZenonT(30), <1>1 DEF FetchesHeld, Sending, Unsettled
<1>4. e.unsent \in 1 .. Runs /\ e.flying \in SUBSET (1 .. Runs) /\ e.flying \subseteq e.unsent + 1 .. Runs
      /\ Runs \in Nat
  <2> DEFINE m == e.unsent
  <2>1. m \in 0 .. Runs /\ e.flying \in SUBSET (1 .. Runs)
    BY ZenonT(30) DEF FetchState
  <2>2. e.flying \subseteq m + 1 .. Runs
    BY ZenonT(30), <1>3 DEF FetchesShaped
  <2>3. Runs \in Nat /\ m # 0
    BY ZenonT(30), <1>3, RunsNat
  <2> HIDE DEF m
  <2>4. m \in 1 .. Runs
    BY <2>1, <2>3
  <2> QED BY ZenonT(30), <2>1, <2>2, <2>3, <2>4 DEF m
<1>5. StoreInv' /\ SlotsCalm /\ layer' = layer
  BY ZenonT(30), <1>1, QuietIsCalm DEF planVars
<1> DEFINE Sent == /\ FetchSubmit(t) /\ th'[t].pc \in {"submit", "ret"}
                   /\ th'[t].pc = "ret" => th'[t].err = "Ok"
                   /\ th'[t].pc = "submit" => e.unsent # 1
           Refused == FetchSubmitFails(t) /\ th'[t].pc = "undo"
<1>6. OnlyMoves(t) /\ th'[t].ctx = th[t].ctx /\ th'[t].fid = f /\ (Sent \/ Refused)
  <2>1. "Ok" \in Errors /\ "undo" \in Pc
    BY ZenonT(30) DEF Errors, Pc, FetchPc
  <2>2. CASE Return(t, "Ok") /\ FetchSubmit(t)
    BY ZenonT(30), <1>2, <2>1, <2>2, ReturnMoves
  <2>3. CASE UNCHANGED th /\ FetchSubmit(t) /\ e.unsent # 1
    BY ZenonT(30), <1>1, <1>2, <2>3 DEF OnlyMoves
  <2>4. CASE Goto(t, "undo") /\ FetchSubmitFails(t)
    BY ZenonT(30), <1>2, <2>1, <2>4, GotoMoves
  <2> QED BY ZenonT(30), <2>2, <2>3, <2>4 DEF FetchSubmit, FetchSubmitFails
<1>7. ASSUME Sent
      PROVE  /\ fetches' \in [FetchId -> FetchState]
             /\ \A h \in FetchId : h # f => fetches'[h] = fetches[h]
             /\ fetches'[f].slot = e.slot /\ fetches'[f].group = e.group /\ fetches'[f].key = e.key
             /\ fetches'[f].flying = e.flying \cup {e.unsent} /\ fetches'[f].unsent = e.unsent - 1
             /\ (e.unsent = 1 => ~Sending(t)')
             /\ Cardinality(fetches'[f].flying) = Cardinality(e.flying) + 1
  <2>1. fetches' = [fetches EXCEPT ![f].flying = @ \cup {e.unsent}, ![f].unsent = @ - 1]
    BY ZenonT(30), <1>7 DEF FetchSubmit
  <2>2. e.flying \cup {e.unsent} \in SUBSET (1 .. Runs) /\ e.unsent - 1 \in 0 .. Runs
        /\ e.unsent \notin e.flying
    BY SMTT(30), <1>4
  <2>3. Cardinality(e.flying \cup {e.unsent}) = Cardinality(e.flying) + 1
    BY ZenonT(30), <1>4, <2>2, RunsFinite, FS_AddElement
  <2>4. /\ fetches' \in [FetchId -> FetchState]
        /\ \A h \in FetchId : h # f => fetches'[h] = fetches[h]
        /\ fetches'[f].slot = e.slot /\ fetches'[f].group = e.group /\ fetches'[f].key = e.key
        /\ fetches'[f].flying = e.flying \cup {e.unsent} /\ fetches'[f].unsent = e.unsent - 1
    BY ZenonT(30), <1>2, <1>3, <2>1, <2>2 DEF FetchState
  <2>5. e.unsent = 1 => ~Sending(t)'
    BY <1>7 DEF Sending
  <2> QED BY ZenonT(30), <2>3, <2>4, <2>5
<1>8. ASSUME Refused
      PROVE  /\ fetches' \in [FetchId -> FetchState]
             /\ \A h \in FetchId : h # f => fetches'[h] = fetches[h]
             /\ fetches'[f].slot = e.slot /\ fetches'[f].group = e.group /\ fetches'[f].key = e.key
             /\ fetches'[f].flying = e.flying /\ fetches'[f].unsent = e.unsent
             /\ FirstRunDecides => e.flying = {}
  <2>1. fetches' = [fetches EXCEPT ![f].ok = FALSE] /\ (FirstRunDecides => e.unsent = Runs)
    BY ZenonT(30), <1>8 DEF FetchSubmitFails, FirstRunDecides
  <2>2. FirstRunDecides => e.flying = {}
    BY <1>4, <2>1
  <2> QED BY ZenonT(30), <1>2, <1>3, <2>1, <2>2 DEF FetchState
<1>9. /\ fetches' \in [FetchId -> FetchState]
      /\ \A h \in FetchId : h # f => fetches'[h] = fetches[h]
      /\ fetches'[f].slot = e.slot /\ fetches'[f].group = e.group /\ fetches'[f].key = e.key
  BY ZenonT(30), <1>6, <1>7, <1>8
<1> HIDE DEF Sent, Refused
<1>10. Live(f)'
  BY <1>3, <1>9 DEF Live
<1>11. Sending(t)' => /\ fetches'[f].unsent # 0
                      /\ FirstRunDecides /\ th'[t].pc = "undo" => fetches'[f].flying = {}
  <2>1. CASE Sent
    <3>1. th'[t].pc # "undo" /\ (Sending(t)' => e.unsent # 1)
      BY ZenonT(30), <2>1 DEF Sent, Sending
    <3>2. e.unsent # 1 => e.unsent - 1 # 0
      BY <1>4
    <3> QED BY ZenonT(30), <1>7, <2>1, <3>1, <3>2
  <2>2. CASE Refused
    BY ZenonT(30), <1>3, <1>8, <2>2
  <2> QED BY ZenonT(30), <1>6, <2>1, <2>2
<1>12. /\ FetchesHeld' /\ Unsettled(f)'
       /\ \A h \in FetchId : h # f => (Unsettled(h)' <=> Unsettled(h))
  BY ZenonT(30), <1>3, <1>5, <1>6, <1>9, <1>10, <1>11, SenderMoves DEF Sent, Refused
<1>13. PlannerTypes'
  BY ZenonT(30), <1>1, <1>6, <1>9 DEF PlannerTypes, OnlyMoves, planVars
<1>14. ThreadsPlaced'
  BY ZenonT(30), <1>1, <1>5, <1>6 DEF ThreadsPlaced, Planning, FetchPc, PlanPc, Thread, OnlyMoves, Sent, Refused
<1>15. FetchesShaped'
  <2>1. fetches'[f].flying \subseteq fetches'[f].unsent + 1 .. Runs
    <3>1. CASE Sent
      <4>1. fetches'[f].flying = e.flying \cup {e.unsent} /\ fetches'[f].unsent = e.unsent - 1
        BY ZenonT(30), <1>7, <3>1
      <4>2. e.flying \cup {e.unsent} \subseteq (e.unsent - 1) + 1 .. Runs
        BY <1>4
      <4> QED BY ZenonT(30), <4>1, <4>2
    <3>2. CASE Refused
      BY ZenonT(30), <1>4, <1>8, <3>2
    <3> QED BY ZenonT(30), <1>6, <3>1, <3>2
  <2> QED BY ZenonT(30), <1>9, <1>10, <2>1 DEF FetchesShaped, Live
<1>16. FillsOwned' /\ NoOrphanFill'
  <2>1. runsDone[e.slot] \in Nat /\ Cardinality(e.flying) \in Nat
    BY ZenonT(30), <1>3, FillOf
  <2>2. runsDone[e.slot] + Cardinality(fetches'[f].flying) + fetches'[f].unsent
           = runsDone[e.slot] + Cardinality(e.flying) + e.unsent
    <3>1. CASE Sent
      <4>1. e.unsent \in Nat /\ e.unsent # 0
        BY <1>4
      <4>2. Cardinality(fetches'[f].flying) = Cardinality(e.flying) + 1 /\ fetches'[f].unsent = e.unsent - 1
        BY ZenonT(30), <1>7, <3>1
      <4>3. runsDone[e.slot] + (Cardinality(e.flying) + 1) + (e.unsent - 1)
               = runsDone[e.slot] + Cardinality(e.flying) + e.unsent
        <5> DEFINE n == runsDone[e.slot]
                   k == Cardinality(e.flying)
                   m == e.unsent
        <5>1. n \in Nat /\ k \in Nat /\ m \in Nat
          BY ZenonT(30), <2>1, <4>1
        <5> HIDE DEF n, k, m
        <5>2. n + (k + 1) + (m - 1) = n + k + m
          BY <5>1
        <5> QED BY ZenonT(30), <5>2 DEF n, k, m
      <4> QED BY ZenonT(30), <4>2, <4>3
    <3>2. CASE Refused
      BY ZenonT(30), <1>8, <3>2
    <3> QED BY ZenonT(30), <1>6, <3>1, <3>2
  <2> QED BY ZenonT(30), <1>3, <1>5, <1>9, <1>12, <2>2, OwnersKept
<1>17. FirstRunDecides => Counted' /\ NotStarted'
  <2>1. \A u \in Thread, c \in {"plan", "pump"} : Uncounted(u, c)' <=> Uncounted(u, c)
    BY ZenonT(30), <1>1, <1>6 DEF Uncounted, OnlyMoves, Sent, Refused
  <2>2. Outstanding(0)' = Outstanding(0) /\ \A g \in Layer : Outstanding(g)' = Outstanding(g)
    BY ZenonT(30), <1>9, EntriesKept
  <2>3. Pumping' = Pumping
    BY ZenonT(30), <2>1 DEF Pumping
  <2>4. Counted => GroupExact' /\ BackfillExact'
    BY ZenonT(30), <1>1, <1>5, <2>1, <2>2, <2>3 DEF Counted, GroupExact, BackfillExact, Pumping, Thread
  <2> QED BY ZenonT(30), <1>1, <2>4 DEF Counted, NotStarted
<1> QED BY ZenonT(30), <1>5, <1>12, <1>13, <1>14, <1>15, <1>16, <1>17

-----------------------------------------------------------------------------
(* Runs reported *)

\* A thread's fid can hold the number of any fetch.
LEMMA FetchIdFits == \A f \in FetchId : f \in 0 .. NumFetch
BY PlannerAssumption DEF FetchId

\* finish_run moves one slot: one run further, or out of Filling.
LEMMA FinishRunMoves ==
    ASSUME StoreInv, NEW s \in Slot, NEW ok \in BOOLEAN, NEW token \in Stamp, FinishRun(s, ok, token)
    PROVE  /\ StoreInv'
           /\ \A u \in Slot : u # s => /\ state'[u] = state[u] /\ key'[u] = key[u]
                                       /\ runsDone'[u] = runsDone[u] /\ runsTotal'[u] = runsTotal[u]
           /\ runsDone[s] + 1 # runsTotal[s] =>
                 /\ state'[s] = "Filling" /\ key'[s] = key[s]
                 /\ runsDone'[s] = runsDone[s] + 1 /\ runsTotal'[s] = runsTotal[s]
           /\ runsDone[s] + 1 = runsTotal[s] => state'[s] # "Filling"
<1>1. StoreInv'
  BY FinishRunKeepsInv
<1>2. CASE runsDone[s] + 1 < runsTotal[s]
  <2>1. runsDone[s] \in Nat /\ runsTotal[s] \in Nat
    BY SMTT(30), StoreAssumption DEF StoreInv, TypeOK
  <2>2. runsDone' = [runsDone EXCEPT ![s] = runsDone[s] + 1] /\ UNCHANGED <<state, key, runsTotal>>
    BY SMTT(30), <1>2, <2>1 DEF FinishRun
  <2>3. state[s] = "Filling" /\ runsDone[s] + 1 # runsTotal[s]
    BY <1>2, <2>1 DEF FinishRun
  <2>4. runsDone'[s] = runsDone[s] + 1 /\ \A u \in Slot : u # s => runsDone'[u] = runsDone[u]
    BY ZenonT(30), <2>2 DEF StoreInv, TypeOK
  <2> QED BY ZenonT(30), <1>1, <2>2, <2>3, <2>4
<1>3. CASE runsDone[s] + 1 = runsTotal[s]
  <2>1. runsDone[s] \in Nat /\ runsTotal[s] \in Nat
    BY StoreAssumption DEF StoreInv, TypeOK
  <2>2. \/ runsDone' = [runsDone EXCEPT ![s] = runsDone[s] + 1] /\ SettleResident(s, token)
           /\ UNCHANGED runsTotal
        \/ SettleFailed(s)
    <3>1. ~(runsDone[s] + 1 < runsTotal[s])
      BY SMTT(30), <1>3, <2>1
    <3> QED BY ZenonT(30), <1>3, <3>1 DEF FinishRun
  <2>3. CASE runsDone' = [runsDone EXCEPT ![s] = runsDone[s] + 1] /\ SettleResident(s, token)
             /\ UNCHANGED runsTotal
    BY ZenonT(30), <1>1, <1>3, <2>3 DEF SettleResident, StoreInv, TypeOK
  <2>4. CASE SettleFailed(s)
    BY ZenonT(30), <1>1, <1>3, <2>4 DEF SettleFailed, ReleaseLocked, StoreInv, TypeOK
  <2> QED BY ZenonT(30), <2>2, <2>3, <2>4
<1> QED BY ZenonT(30), <1>2, <1>3 DEF FinishRun

\* A run of fetch f reports: the other entries stay, and f stays unsettled
\* unless it was the last run.
Others(f) ==
    \A h \in FetchId : h # f => fetches'[h] = fetches[h] /\ (Unsettled(h)' <=> Unsettled(h))
Reports(f, s) ==
    /\ Unsettled(f)' <=> runsDone[s] + 1 # runsTotal[s]
    /\ Unsettled(f)' =>
          /\ fetches'[f].slot = s /\ fetches'[f].key = fetches[f].key
          /\ (runsDone[s] + 1) + Cardinality(fetches'[f].flying) + fetches'[f].unsent
                = runsDone[s] + Cardinality(fetches[f].flying) + fetches[f].unsent

\* Its slot is one run further on, or has settled and f no longer owns it; the
\* other fetches keep their slots.
LEMMA RunReported ==
    ASSUME PlannerInv, NEW f \in FetchId, Unsettled(f), NEW ok \in BOOLEAN,
           FinishRun(fetches[f].slot, ok, fetches[f].stamp),
           Others(f), Reports(f, fetches[f].slot)
    PROVE  StoreInv' /\ FillsOwned' /\ NoOrphanFill'
<1> USE DEF PlannerInv
<1> PICK s \in Slot : s = fetches[f].slot
  BY ZenonT(30), FillOf
<1>1. fetches[f].stamp \in Stamp
  BY DEF PlannerTypes, FetchState
<1>2. /\ StoreInv'
      /\ \A u \in Slot : u # s => /\ state'[u] = state[u] /\ key'[u] = key[u]
                                  /\ runsDone'[u] = runsDone[u] /\ runsTotal'[u] = runsTotal[u]
      /\ runsDone[s] + 1 # runsTotal[s] =>
            /\ state'[s] = "Filling" /\ key'[s] = key[s]
            /\ runsDone'[s] = runsDone[s] + 1 /\ runsTotal'[s] = runsTotal[s]
      /\ runsDone[s] + 1 = runsTotal[s] => state'[s] # "Filling"
  BY ZenonT(30), <1>1, FinishRunMoves
<1>3. Reports(f, s) /\ \A h \in FetchId : Unsettled(h) => fetches[h].slot \in Slot
  BY ZenonT(30), FillOf
<1>4. \A h \in FetchId : h # f /\ Unsettled(h) => fetches[h].slot # s
  BY ZenonT(30) DEF FillsOwned
<1>5. FillsOwned'
  <2>1. SUFFICES ASSUME NEW h \in FetchId, Unsettled(h)'
                 PROVE  /\ state'[fetches'[h].slot] = "Filling"
                        /\ key'[fetches'[h].slot] = fetches'[h].key
                        /\ runsDone'[fetches'[h].slot] + Cardinality(fetches'[h].flying)
                              + fetches'[h].unsent = runsTotal'[fetches'[h].slot]
                        /\ \A g \in FetchId \ {h} : Unsettled(g)' => fetches'[g].slot # fetches'[h].slot
    BY ZenonT(30) DEF FillsOwned
  <2>2. CASE h = f
    <3>1. /\ runsDone[s] + 1 # runsTotal[s] /\ fetches'[f].slot = s
          /\ fetches'[f].key = fetches[f].key
          /\ (runsDone[s] + 1) + Cardinality(fetches'[f].flying) + fetches'[f].unsent
                = runsDone[s] + Cardinality(fetches[f].flying) + fetches[f].unsent
      BY ZenonT(30), <1>3, <2>1, <2>2 DEF Reports
    <3>2. /\ key[s] = fetches[f].key
          /\ runsDone[s] + Cardinality(fetches[f].flying) + fetches[f].unsent = runsTotal[s]
      BY ZenonT(30) DEF FillsOwned
    <3>3. \A g \in FetchId \ {f} : Unsettled(g)' => fetches'[g].slot # s
      BY ZenonT(30), <1>4 DEF Others
    <3> QED BY ZenonT(30), <1>2, <2>2, <3>1, <3>2, <3>3
  <2>3. CASE h # f
    <3>1. fetches'[h] = fetches[h] /\ Unsettled(h) /\ fetches[h].slot \in Slot /\ fetches[h].slot # s
      BY ZenonT(30), <1>3, <1>4, <2>1, <2>3 DEF Others
    <3>2. ASSUME NEW g \in FetchId \ {h}, Unsettled(g)' PROVE fetches'[g].slot # fetches'[h].slot
      <4>1. CASE g = f
        BY ZenonT(30), <1>3, <3>1, <3>2, <4>1 DEF Reports
      <4>2. CASE g # f
        BY ZenonT(30), <3>1, <3>2, <4>2 DEF Others, FillsOwned
      <4> QED BY ZenonT(30), <4>1, <4>2
    <3>3. LET w == fetches[h].slot IN
            /\ state'[w] = state[w] /\ key'[w] = key[w]
            /\ runsDone'[w] = runsDone[w] /\ runsTotal'[w] = runsTotal[w]
      BY ZenonT(30), <1>2, <3>1
    <3> QED BY ZenonT(30), <3>1, <3>2, <3>3 DEF FillsOwned
  <2> QED BY ZenonT(30), <2>2, <2>3
<1>6. NoOrphanFill'
  <2>1. SUFFICES ASSUME NEW u \in Slot, state'[u] = "Filling"
                 PROVE  \E h \in FetchId : Unsettled(h)' /\ fetches'[h].slot = u
    BY ZenonT(30) DEF NoOrphanFill
  <2>2. CASE u = s
    BY ZenonT(30), <1>2, <1>3, <2>1, <2>2 DEF Reports
  <2>3. CASE u # s
    <3>1. PICK h \in FetchId : Unsettled(h) /\ fetches[h].slot = u
      BY ZenonT(30), <1>2, <2>1, <2>3 DEF NoOrphanFill
    <3> QED BY ZenonT(30), <2>3, <3>1 DEF Others
  <2> QED BY ZenonT(30), <2>2, <2>3
<1> QED BY ZenonT(30), <1>2, <1>5, <1>6

\* The completion of a run: it reports to the slot it was read into.
LEMMA DeliverKeeps ==
    ASSUME PlannerInv, NEW f \in FetchId, NEW run \in 1 .. Runs, NEW ok \in BOOLEAN, Deliver(f, run, ok)
    PROVE  PlannerInv'
<1> USE DEF PlannerInv
<1>1. /\ th["dispatch"].pc = "idle" /\ run \in fetches[f].flying
      /\ FinishRun(fetches[f].slot, ok, fetches[f].stamp)
      /\ UNCHANGED <<clock, planVars, todo, group, bf>> /\ layer' = layer
  BY ZenonT(30) DEF Deliver, At, planVars
<1>2. th \in [Thread -> ThreadState] /\ fetches \in [FetchId -> FetchState] /\ "dispatch" \in Thread
  BY DEF PlannerTypes, Thread
<1> PICK e \in FetchState : e = fetches[f]
  BY ZenonT(30), <1>2
<1>3. Live(f) /\ Unsettled(f) /\ \A h \in FetchId : Unsettled(h) <=> Live(h)
  BY ZenonT(30), <1>1 DEF FetchesShaped, Unsettled, Settled, At
<1>4. /\ e.slot \in Slot /\ e.flying \in SUBSET (1 .. Runs) /\ e.unsent \in Nat
      /\ runsDone[e.slot] \in Nat /\ runsTotal[e.slot] \in Nat
      /\ runsDone[e.slot] + Cardinality(e.flying) + e.unsent = runsTotal[e.slot]
  <2>1. \A m : m \in 0 .. Runs => m \in Nat
    BY PlannerAssumption
  <2> QED BY ZenonT(30), <1>3, <2>1, FillOf
<1>5. /\ Cardinality(e.flying) \in Nat \ {0}
      /\ Cardinality(e.flying \ {run}) = Cardinality(e.flying) - 1
  BY ZenonT(30), <1>1, <1>4, RunsFinite, FS_RemoveElement, FS_EmptySet
<1>6. /\ fetches' \in [FetchId -> FetchState]
      /\ \A h \in FetchId : h # f => fetches'[h] = fetches[h]
      /\ fetches'[f].slot = e.slot /\ fetches'[f].group = e.group /\ fetches'[f].key = e.key
      /\ fetches'[f].flying = e.flying \ {run} /\ fetches'[f].unsent = e.unsent
  <2>1. fetches' = [fetches EXCEPT ![f].flying = @ \ {run}, ![f].ok = @ /\ ok]
    BY DEF Deliver
  <2>2. (e.ok /\ ok) \in BOOLEAN /\ e.flying \ {run} \in SUBSET (1 .. Runs)
    BY ZenonT(30), <1>4
  <2> QED BY ZenonT(30), <1>2, <2>1, <2>2 DEF FetchState
<1> DEFINE last == runsDone[e.slot] + 1 = runsTotal[e.slot]
<1>7. /\ OnlyMoves("dispatch") /\ th'["dispatch"].ctx = th["dispatch"].ctx
      /\ last => th'["dispatch"].pc = "callback" /\ th'["dispatch"].fid = f
      /\ ~last => th'["dispatch"].pc = "idle"
  <2>1. "callback" \in Pc /\ f \in 0 .. NumFetch
    BY ZenonT(30), FetchIdFits DEF Pc
  <2>2. CASE last
    <3>1. th' = [th EXCEPT !["dispatch"].pc = "callback", !["dispatch"].fid = f]
      BY ZenonT(30), <2>2 DEF Deliver
    <3>2. /\ OnlyMoves("dispatch") /\ th'["dispatch"].ctx = th["dispatch"].ctx
          /\ th'["dispatch"].pc = "callback" /\ th'["dispatch"].fid = f
      <4>1. PICK d \in Thread : d = "dispatch"
        BY <1>2
      <4>2. th' = [th EXCEPT ![d].pc = "callback", ![d].fid = f]
        BY ZenonT(30), <3>1, <4>1
      <4>3. OnlyMoves(d) /\ th'[d].ctx = th[d].ctx /\ th'[d].pc = "callback" /\ th'[d].fid = f
        BY ZenonT(30), <1>2, <2>1, <4>2 DEF OnlyMoves, ThreadState
      <4> QED BY ZenonT(30), <4>1, <4>3
    <3> QED BY ZenonT(30), <2>2, <3>2
  <2>3. CASE ~last
    <3>1. th' = th
      BY ZenonT(30), <2>3 DEF Deliver
    <3> QED BY ZenonT(30), <1>1, <1>2, <2>3, <3>1 DEF OnlyMoves
  <2> QED BY ZenonT(30), <2>2, <2>3
<1>8. th'["submit"] = th["submit"]
  BY <1>7 DEF OnlyMoves, Thread
<1>9. (\A h \in FetchId : Live(h)' <=> Live(h)) /\ (last => e.unsent = 0)
  <2>1. last => e.unsent = 0
    <3> DEFINE n == runsDone[e.slot]
               k == Cardinality(e.flying)
               m == e.unsent
               r == runsTotal[e.slot]
    <3>1. n \in Nat /\ k \in Nat /\ k # 0 /\ m \in Nat /\ r \in Nat /\ n + k + m = r
      BY ZenonT(30), <1>4, <1>5
    <3> HIDE DEF n, k, m, r
    <3>2. n + 1 = r => m = 0
      BY <3>1
    <3> QED BY ZenonT(30), <3>2 DEF n, m, r
  <2> QED BY ZenonT(30), <1>6, <2>1 DEF Live
<1> HIDE DEF last
<1>10. /\ \A h \in FetchId : h # f => (Unsettled(h)' <=> Unsettled(h))
       /\ Unsettled(f)' <=> ~last
  BY ZenonT(30), <1>3, <1>7, <1>9 DEF Unsettled, Settled, At
<1>11. StoreInv' /\ FillsOwned' /\ NoOrphanFill'
  <2>1. (runsDone[e.slot] + 1) + Cardinality(fetches'[f].flying) + fetches'[f].unsent
           = runsDone[e.slot] + Cardinality(e.flying) + e.unsent
    <3>1. Cardinality(e.flying) \in Nat /\ Cardinality(e.flying) # 0
      BY ZenonT(30), <1>5
    <3>2. (runsDone[e.slot] + 1) + (Cardinality(e.flying) - 1) + e.unsent
             = runsDone[e.slot] + Cardinality(e.flying) + e.unsent
      <4> DEFINE n == runsDone[e.slot]
                 k == Cardinality(e.flying)
                 m == e.unsent
      <4>1. n \in Nat /\ k \in Nat /\ m \in Nat
        BY ZenonT(30), <1>4, <3>1
      <4> HIDE DEF n, k, m
      <4>2. (n + 1) + (k - 1) + m = n + k + m
        BY <4>1
      <4> QED BY ZenonT(30), <4>2 DEF n, k, m
    <3> QED BY ZenonT(30), <1>5, <1>6, <3>2
  <2>2. Unsettled(f)' <=> runsDone[e.slot] + 1 # runsTotal[e.slot]
    BY ZenonT(30), <1>10 DEF last
  <2>3. Others(f) /\ Reports(f, e.slot)
    BY ZenonT(30), <1>6, <1>10, <2>1, <2>2 DEF Others, Reports
  <2> QED BY ZenonT(30), <1>1, <1>3, <2>3, RunReported
<1>12. PlannerTypes'
  BY ZenonT(30), <1>1, <1>6, <1>7 DEF PlannerTypes, OnlyMoves, planVars
<1>13. ThreadsPlaced'
  BY ZenonT(30), <1>1, <1>7, <1>8 DEF ThreadsPlaced, Planning, FetchPc, PlanPc, Thread
<1>14. FetchesShaped'
  BY ZenonT(30), <1>6, <1>9 DEF FetchesShaped
<1>15. FetchesHeld'
  <2>1. ~Sending("dispatch")'
    BY <1>7 DEF Sending
  <2>2. Sending("submit")' =>
          (/\ th["submit"].fid \in FetchId
           /\ Unsettled(th["submit"].fid)
           /\ fetches[th["submit"].fid].unsent # 0
           /\ fetches[th["submit"].fid].group = IF th["submit"].ctx = "plan" THEN layer ELSE 0
           /\ FirstRunDecides /\ th["submit"].pc = "undo" => fetches[th["submit"].fid].flying = {})'
    <3>1. SUFFICES ASSUME Sending("submit")' PROVE
          (/\ th["submit"].fid \in FetchId
           /\ Unsettled(th["submit"].fid)
           /\ fetches[th["submit"].fid].unsent # 0
           /\ fetches[th["submit"].fid].group = IF th["submit"].ctx = "plan" THEN layer ELSE 0
           /\ FirstRunDecides /\ th["submit"].pc = "undo" => fetches[th["submit"].fid].flying = {})'
      BY ZenonT(30)
    <3> PICK h \in FetchId : h = th["submit"].fid /\ th'["submit"].fid = h /\ Sending("submit")
      BY ZenonT(30), <1>8, <3>1 DEF Sending, FetchesHeld, Thread
    <3>2. /\ Unsettled(h) /\ fetches[h].unsent # 0
          /\ fetches[h].group = IF th["submit"].ctx = "plan" THEN layer ELSE 0
          /\ FirstRunDecides /\ th["submit"].pc = "undo" => fetches[h].flying = {}
      BY ZenonT(30) DEF FetchesHeld, Thread
    <3>3. Unsettled(h)'
      BY ZenonT(30), <1>9, <1>10, <3>2
    <3>4. /\ fetches'[h].unsent = fetches[h].unsent /\ fetches'[h].group = fetches[h].group
          /\ (fetches[h].flying = {} => fetches'[h].flying = {})
      BY ZenonT(30), <1>6
    <3>5. Unsettled(th["submit"].fid)'
      BY ZenonT(30), <3>3 DEF Unsettled, Live, Settled
    <3> QED BY ZenonT(30), <1>1, <1>8, <3>2, <3>4, <3>5
  <2>3. (At("dispatch", "callback") => th["dispatch"].fid \in FetchId /\ Live(th["dispatch"].fid))'
    BY ZenonT(30), <1>3, <1>6, <1>7 DEF At, Live
  <2> QED BY ZenonT(30), <2>1, <2>2, <2>3 DEF FetchesHeld, Thread
<1>16. FirstRunDecides => Counted' /\ NotStarted'
  <2>1. \A u \in Thread, c \in {"plan", "pump"} : Uncounted(u, c)' <=> Uncounted(u, c)
    BY ZenonT(30), <1>1, <1>7, <1>8 DEF Uncounted, Thread
  <2>2. Outstanding(0)' = Outstanding(0) /\ \A g \in Layer : Outstanding(g)' = Outstanding(g)
    BY ZenonT(30), <1>6, EntriesKept
  <2>3. Pumping' = Pumping
    BY <2>1 DEF Pumping
  <2>4. Counted => GroupExact' /\ BackfillExact'
    BY ZenonT(30), <1>1, <2>1, <2>2, <2>3 DEF Counted, GroupExact, BackfillExact, Pumping, Thread
  <2> QED BY ZenonT(30), <1>1, <2>4 DEF Counted, NotStarted
<1> QED BY ZenonT(30), <1>11, <1>12, <1>13, <1>14, <1>15, <1>16

=============================================================================
