------------------------- MODULE FillPlannerProofs ---------------------------
(*****************************************************************************)
(* The undo of a refused fetch and the callback of a settled fill preserve   *)
(* the invariant, and so does every step: the theorems about the planner.    *)
(*****************************************************************************)
EXTENDS FillPlannerFetches

-----------------------------------------------------------------------------
(* The end of a fetch *)

\* An empty entry is an entry.
LEMMA NoFetchShape ==
    NoFetch \in FetchState /\ NoFetch.slot = NoSlot /\ NoFetch.flying = {} /\ NoFetch.unsent = 0
<1>1. DefaultKey \in Keys /\ 0 \in Stamp /\ 0 \in 0 .. MaxLayers /\ 0 \in 0 .. Runs
  BY StoreAssumption, PlannerAssumption DEF Stamp
<1> QED BY ZenonT(30), <1>1 DEF NoFetch, FetchState

\* fetch's error path reports a run it did not send. The last report settles the
\* slot, and the fill is counted by the thread that asked for it again.
LEMMA FetchUndoKeeps ==
    ASSUME PlannerInv, NEW t \in Thread, FetchUndo(t) PROVE PlannerInv'
<1> USE DEF PlannerInv
<1>1. th[t].pc = "undo" /\ UNCHANGED <<clock, planVars, todo, group, bf>> /\ layer' = layer
  BY DEF FetchUndo, At, planVars
<1>2. th \in [Thread -> ThreadState] /\ fetches \in [FetchId -> FetchState]
  BY DEF PlannerTypes
<1> PICK f \in FetchId : f = th[t].fid
  BY ZenonT(30), <1>1 DEF FetchesHeld, Sending
<1> PICK e \in FetchState : e = fetches[f]
  BY <1>2
<1>3. /\ Unsettled(f) /\ Live(f) /\ e.unsent # 0 /\ Sending(t)
      /\ e.group = (IF th[t].ctx = "plan" THEN layer ELSE 0)
      /\ (FirstRunDecides => e.flying = {})
  BY ZenonT(30), <1>1 DEF FetchesHeld, Sending, Unsettled
<1>4. /\ e.slot \in Slot /\ e.flying \in SUBSET (1 .. Runs) /\ e.unsent \in 0 .. Runs /\ Runs \in Nat
      /\ runsDone[e.slot] \in Nat /\ runsTotal[e.slot] \in Nat
      /\ Cardinality(e.flying) \in Nat /\ (Cardinality(e.flying) = 0 <=> e.flying = {})
      /\ runsDone[e.slot] + Cardinality(e.flying) + e.unsent = runsTotal[e.slot]
      /\ e.flying \subseteq e.unsent + 1 .. Runs
  BY ZenonT(30), <1>3, FillOf
<1>5. /\ e.unsent \in Nat /\ e.unsent - 1 \in 0 .. Runs /\ (e.unsent # 1 => e.unsent - 1 # 0)
      /\ e.flying \subseteq (e.unsent - 1) + 1 .. Runs
  <2> DEFINE m == e.unsent
  <2>1. m \in 0 .. Runs /\ m # 0 /\ Runs \in Nat /\ e.flying \subseteq m + 1 .. Runs
    BY ZenonT(30), <1>3, <1>4
  <2> HIDE DEF m
  <2>2. /\ m \in Nat /\ m - 1 \in 0 .. Runs /\ (m # 1 => m - 1 # 0)
        /\ m + 1 .. Runs \subseteq (m - 1) + 1 .. Runs
    BY <2>1
  <2>3. e.flying \subseteq (m - 1) + 1 .. Runs
    BY ZenonT(30), <2>1, <2>2
  <2> QED BY ZenonT(30), <2>2, <2>3 DEF m
<1> DEFINE last == e.unsent = 1 /\ e.flying = {}
<1>6. last <=> runsDone[e.slot] + 1 = runsTotal[e.slot]
  <2> DEFINE n == runsDone[e.slot]
             k == Cardinality(e.flying)
             m == e.unsent
             r == runsTotal[e.slot]
  <2>1. n \in Nat /\ k \in Nat /\ m \in Nat /\ m # 0 /\ r \in Nat /\ n + k + m = r
        /\ (k = 0 <=> e.flying = {})
    BY ZenonT(30), <1>3, <1>4, <1>5
  <2> HIDE DEF n, k, m, r
  <2>2. (m = 1 /\ k = 0) <=> n + 1 = r
    BY <2>1
  <2> QED BY ZenonT(30), <2>1, <2>2 DEF n, m, r
<1>7. FinishRun(e.slot, FALSE, e.stamp)
  BY ZenonT(30) DEF FetchUndo
<1>8. /\ OnlyMoves(t) /\ th'[t].pc \in {"undo", "ret"} /\ th'[t].ctx = th[t].ctx /\ th'[t].fid = f
      /\ e.unsent = 1 => th'[t].pc = "ret" /\ th'[t].err = "Io"
      /\ e.unsent # 1 => th' = th
  <2>1. "Io" \in Errors
    BY DEF Errors
  <2>2. CASE e.unsent = 1
    <3>1. Return(t, "Io")
      BY <2>2 DEF FetchUndo
    <3> QED BY ZenonT(30), <1>2, <2>1, <2>2, <3>1, ReturnMoves
  <2>3. CASE e.unsent # 1
    <3>1. th' = th
      BY <2>3 DEF FetchUndo
    <3> QED BY ZenonT(30), <1>1, <1>2, <2>3, <3>1 DEF OnlyMoves
  <2> QED BY ZenonT(30), <2>2, <2>3
<1>9. /\ fetches' \in [FetchId -> FetchState]
      /\ \A h \in FetchId : h # f => fetches'[h] = fetches[h]
      /\ last => fetches'[f] = NoFetch /\ fetches' = [fetches EXCEPT ![f] = NoFetch]
      /\ ~last => /\ fetches'[f].slot = e.slot /\ fetches'[f].group = e.group /\ fetches'[f].key = e.key
                  /\ fetches'[f].flying = e.flying /\ fetches'[f].unsent = e.unsent - 1
  <2>1. CASE last
    <3>1. fetches' = [fetches EXCEPT ![f] = NoFetch]
      BY <2>1 DEF FetchUndo
    <3> QED BY ZenonT(30), <1>2, <2>1, <3>1, NoFetchShape
  <2>2. CASE ~last
    <3>1. fetches' = [fetches EXCEPT ![f] = [e EXCEPT !.unsent = @ - 1]]
      BY ZenonT(30), <2>2 DEF FetchUndo
    <3>2. e.unsent - 1 \in 0 .. Runs
      BY ZenonT(30), <1>5
    <3>3. [e EXCEPT !.unsent = @ - 1] \in FetchState
      BY <3>2 DEF FetchState
    <3> QED BY ZenonT(30), <1>2, <2>2, <3>1, <3>3 DEF FetchState
  <2> QED BY ZenonT(30), <2>1, <2>2
<1>10. Live(f)' <=> ~last
  BY ZenonT(30), <1>3, <1>9, NoFetchShape DEF Live
<1>11. ~last => fetches'[f].flying = e.flying /\ fetches'[f].unsent = e.unsent - 1
  BY ZenonT(30), <1>9
<1>13. Sending(t)' => /\ ~last /\ fetches'[f].unsent # 0
                      /\ FirstRunDecides => fetches'[f].flying = {}
  <2>1. SUFFICES ASSUME Sending(t)' PROVE /\ ~last /\ fetches'[f].unsent # 0
                                          /\ FirstRunDecides => fetches'[f].flying = {}
    BY ZenonT(30)
  <2>2. e.unsent # 1
    BY ZenonT(30), <1>8, <2>1 DEF Sending
  <2> QED BY ZenonT(30), <1>3, <1>5, <1>11, <2>2
<1> HIDE DEF last
<1>14. /\ FetchesHeld' /\ (Unsettled(f)' <=> ~last)
       /\ \A h \in FetchId : h # f => (Unsettled(h)' <=> Unsettled(h))
  <2>1. th'[t].pc # "callback"
    BY <1>8
  <2>2. Sending(t)' => Live(f)' /\ th'[t].fid = f /\ th'[t].ctx = th[t].ctx
    BY ZenonT(30), <1>8, <1>10, <1>13
  <2>3. Live(f)' => fetches'[f].group = fetches[f].group /\ fetches'[f].slot = fetches[f].slot
    BY ZenonT(30), <1>9, <1>10
  <2> QED BY ZenonT(60), <1>1, <1>3, <1>8, <1>9, <1>10, <1>13, <2>1, <2>2, <2>3, SenderMoves
<1>15. StoreInv' /\ FillsOwned' /\ NoOrphanFill'
  <2>1. Unsettled(f)' =>
           (runsDone[e.slot] + 1) + Cardinality(fetches'[f].flying) + fetches'[f].unsent
               = runsDone[e.slot] + Cardinality(e.flying) + e.unsent
    <3>1. SUFFICES ASSUME ~last
                   PROVE  (runsDone[e.slot] + 1) + Cardinality(fetches'[f].flying) + fetches'[f].unsent
                             = runsDone[e.slot] + Cardinality(e.flying) + e.unsent
      BY ZenonT(30), <1>14
    <3>2. fetches'[f].flying = e.flying /\ fetches'[f].unsent = e.unsent - 1
      BY ZenonT(30), <1>11, <3>1
    <3>3. (runsDone[e.slot] + 1) + Cardinality(e.flying) + (e.unsent - 1)
             = runsDone[e.slot] + Cardinality(e.flying) + e.unsent
      <4> DEFINE n == runsDone[e.slot]
                 k == Cardinality(e.flying)
                 m == e.unsent
      <4>1. n \in Nat /\ k \in Nat /\ m \in Nat
        BY ZenonT(30), <1>4, <1>5
      <4> HIDE DEF n, k, m
      <4>2. (n + 1) + k + (m - 1) = n + k + m
        BY <4>1
      <4> QED BY ZenonT(30), <4>2 DEF n, k, m
    <3> QED BY ZenonT(30), <3>2, <3>3
  <2>2. Unsettled(f)' <=> runsDone[e.slot] + 1 # runsTotal[e.slot]
    BY ZenonT(30), <1>6, <1>14
  <2>3. Others(f) /\ Reports(f, e.slot)
    BY ZenonT(30), <1>9, <1>14, <2>1, <2>2 DEF Others, Reports
  <2> QED BY ZenonT(30), <1>3, <1>7, <2>3, RunReported
<1>16. PlannerTypes'
  BY ZenonT(30), <1>1, <1>8, <1>9 DEF PlannerTypes, OnlyMoves, planVars
<1>17. ThreadsPlaced'
  BY ZenonT(30), <1>1, <1>8 DEF ThreadsPlaced, Planning, FetchPc, PlanPc, Thread, OnlyMoves
<1>18. FetchesShaped'
  <2>1. (fetches[f].flying \subseteq fetches[f].unsent + 1 .. Runs)'
    <3>1. CASE last
      BY ZenonT(30), <1>9, <3>1, NoFetchShape
    <3>2. CASE ~last
      <4>1. fetches'[f].flying = e.flying /\ fetches'[f].unsent = e.unsent - 1
        BY ZenonT(30), <1>11, <3>2
      <4>2. e.flying \subseteq (e.unsent - 1) + 1 .. Runs
        BY ZenonT(30), <1>5
      <4> QED BY ZenonT(30), <4>1, <4>2
    <3> QED BY ZenonT(30), <3>1, <3>2
  <2>2. (~Live(f) => fetches[f].flying = {})'
    BY ZenonT(30), <1>9, <1>10, NoFetchShape
  <2> QED BY ZenonT(30), <1>9, <2>1, <2>2 DEF FetchesShaped, Live
<1>19. ASSUME FirstRunDecides PROVE Counted' /\ NotStarted'
  <2>1. e.flying = {} /\ (last <=> e.unsent = 1)
    BY ZenonT(30), <1>3, <1>19 DEF last
  <2>2. group' = group /\ bf' = bf
    BY ZenonT(30), <1>1
  <2>3. NotStarted'
    BY ZenonT(30), <1>19, <2>2 DEF NotStarted
  <2>4. CASE ~last
    <3>1. th' = th
      BY ZenonT(30), <1>8, <2>1, <2>4
    <3>2. Outstanding(0)' = Outstanding(0) /\ \A g \in Layer : Outstanding(g)' = Outstanding(g)
      BY ZenonT(30), <1>9, <2>4, EntriesKept
    <3>3. Pumping' = Pumping /\ (Uncounted("submit", "plan")' <=> Uncounted("submit", "plan"))
      BY ZenonT(30), <3>1 DEF Pumping, Uncounted
    <3>4. GroupExact' /\ BackfillExact'
      BY ZenonT(30), <1>1, <1>19, <2>2, <3>2, <3>3 DEF Counted, GroupExact, BackfillExact, Pumping
    <3> QED BY ZenonT(30), <2>3, <3>4 DEF Counted
  <2>5. CASE last
    <3>1. th'[t].pc = "ret" /\ th'[t].err # "Ok"
      BY ZenonT(30), <1>8, <2>1, <2>5
    <3>2. \A g : /\ Outstanding(g)' = IF g = e.group THEN Outstanding(g) - 1 ELSE Outstanding(g)
                 /\ g = e.group => Outstanding(g) >= 1
      BY ZenonT(30), <1>3, <1>9, <2>5, EntryRemoved
    <3>3. th[t].ctx \in {"plan", "pump"} /\ (th[t].ctx = "plan" => t = "submit" /\ layer # 0)
      BY <1>1, <1>2 DEF ThreadsPlaced, Planning, FetchPc, Thread, ThreadState
    <3>4. bf.inflight = Outstanding(0) + Cardinality(Pumping) /\ bf.inflight <= bf.max
          /\ Outstanding(0) \in Nat /\ Cardinality(Pumping) \in Nat
      <4>1. bf.inflight = Outstanding(0) + Cardinality(Pumping) /\ bf.inflight <= bf.max
        BY ZenonT(30), <1>19 DEF Counted, BackfillExact, Pumping
      <4>2. Outstanding(0) \in Nat
        BY ZenonT(30), EntriesFinite
      <4>3. Cardinality(Pumping) \in Nat
        BY PumpingSize
      <4> QED BY ZenonT(30), <4>1, <4>2, <4>3
    <3>5. \A g \in Layer : g # 0 /\ Outstanding(g) \in Nat
      BY ZenonT(30), EntriesFinite, LayerNotZero
    <3>6. CASE th[t].ctx = "plan"
      <4>1. ~Uncounted("submit", "plan") /\ Uncounted("submit", "plan")'
        BY ZenonT(30), <1>1, <1>8, <3>1, <3>3, <3>6 DEF Uncounted
      <4>2. Pumping' = Pumping
        BY ZenonT(30), <1>1, <1>8, <3>6 DEF Pumping, Uncounted, OnlyMoves
      <4>3. GroupExact'
        <5>1. SUFFICES ASSUME NEW g \in Layer
                       PROVE  (group[g].pending =
                                Outstanding(g) + (IF g = layer /\ Uncounted("submit", "plan") THEN 1 ELSE 0))'
          BY ZenonT(30) DEF GroupExact
        <5>2. group[g].pending = Outstanding(g) + (IF g = layer /\ Uncounted("submit", "plan") THEN 1 ELSE 0)
          BY ZenonT(30), <1>19 DEF Counted, GroupExact
        <5>3. layer' = layer /\ group' = group /\ e.group = layer
          BY ZenonT(30), <1>1, <1>3, <2>2, <3>6
        <5>4. CASE g = layer
          <6> DEFINE n == Outstanding(g)
          <6>1. n \in Nat /\ group'[g].pending = n + 0 /\ Outstanding(g)' = n - 1
            BY ZenonT(30), <3>2, <3>5, <4>1, <5>2, <5>3, <5>4
          <6> HIDE DEF n
          <6>2. n + 0 = (n - 1) + 1
            BY <6>1
          <6> QED BY ZenonT(30), <4>1, <5>3, <5>4, <6>1, <6>2
        <5>5. CASE g # layer
          BY ZenonT(30), <3>2, <5>2, <5>3, <5>5
        <5> QED BY ZenonT(30), <5>4, <5>5
      <4>4. Outstanding(0)' = Outstanding(0)
        BY ZenonT(30), <1>3, <3>2, <3>3, <3>6
      <4>5. BackfillExact'
        BY ZenonT(30), <2>2, <3>4, <4>2, <4>4 DEF BackfillExact, Pumping
      <4> QED BY ZenonT(30), <2>3, <4>3, <4>5 DEF Counted
    <3>7. CASE th[t].ctx = "pump"
      <4>1. Uncounted("submit", "plan")' <=> Uncounted("submit", "plan")
        BY ZenonT(30), <1>8, <3>7 DEF Uncounted, Thread, OnlyMoves
      <4>2. Pumping' = Pumping \cup {t} /\ t \notin Pumping
        BY ZenonT(30), <1>1, <1>8, <3>1, <3>7 DEF Pumping, Uncounted, OnlyMoves
      <4>3. GroupExact'
        BY ZenonT(30), <1>1, <1>3, <1>19, <2>2, <3>2, <3>5, <3>7, <4>1 DEF Counted, GroupExact
      <4>4. Outstanding(0)' = Outstanding(0) - 1 /\ Cardinality(Pumping') = Cardinality(Pumping) + 1
        BY ZenonT(30), <1>3, <3>2, <3>7, <4>2, PumpingSize
      <4>5. BackfillExact'
        <5> DEFINE m == Outstanding(0)
                   k == Cardinality(Pumping)
        <5>1. /\ m \in Nat /\ k \in Nat /\ bf.inflight = m + k /\ bf.inflight <= bf.max
              /\ Outstanding(0)' = m - 1 /\ Cardinality(Pumping') = k + 1
          BY ZenonT(30), <3>4, <4>4
        <5> HIDE DEF m, k
        <5>2. m + k = (m - 1) + (k + 1)
          BY <5>1
        <5> QED BY ZenonT(30), <2>2, <5>1, <5>2 DEF BackfillExact, Pumping
      <4> QED BY ZenonT(30), <2>3, <4>3, <4>5 DEF Counted
    <3> QED BY ZenonT(30), <3>3, <3>6, <3>7
  <2> QED BY ZenonT(30), <2>4, <2>5
<1> QED BY ZenonT(30), <1>14, <1>15, <1>16, <1>17, <1>18, <1>19

\* The callback of a settled fill counts it out, of its own group or of the
\* backfill's, and its entry goes.
LEMMA CallbackKeeps ==
    ASSUME PlannerInv, Callback PROVE PlannerInv'
<1> USE DEF PlannerInv
<1>1. /\ th["dispatch"].pc = "callback" /\ UNCHANGED <<vars, clock, planVars, todo>>
      /\ layer' = layer
  BY ZenonT(30) DEF Callback, At, planVars
<1>2. /\ th \in [Thread -> ThreadState] /\ fetches \in [FetchId -> FetchState] /\ bf \in BackfillState
      /\ group \in [Layer -> [pending : 0 .. Word - 1, failed : BOOLEAN]]
      /\ "dispatch" \in Thread /\ "submit" \in Thread
  BY DEF PlannerTypes, Thread
<1> PICK f \in FetchId : f = th["dispatch"].fid /\ Live(f)
  BY <1>1 DEF FetchesHeld, At
<1> PICK e \in FetchState : e = fetches[f]
  BY <1>2
<1>3. StoreInv' /\ SlotsCalm
  BY ZenonT(30), <1>1, QuietIsCalm
<1>4. e.group \in 0 .. MaxLayers /\ (e.group # 0 => e.group \in Layer) /\ e.ok \in BOOLEAN
  BY PlannerAssumption DEF FetchState, Layer
<1>5. OnlyMoves("dispatch") /\ th'["dispatch"].pc \in {"idle", "pump"} /\ th'["dispatch"].ctx = "none"
  <2>1. Leave("dispatch", "idle") \/ Leave("dispatch", "pump")
    BY ZenonT(30) DEF Callback
  <2> QED BY ZenonT(30), <1>2, <2>1, LeaveMoves DEF Pc
<1>6. th'["submit"] = th["submit"]
  BY <1>5 DEF OnlyMoves, Thread
<1>7. /\ fetches' = [fetches EXCEPT ![f] = NoFetch] /\ fetches' \in [FetchId -> FetchState]
      /\ fetches'[f] = NoFetch /\ \A h \in FetchId : h # f => fetches'[h] = fetches[h]
  <2>1. fetches' = [fetches EXCEPT ![f] = NoFetch]
    BY ZenonT(30) DEF Callback
  <2> QED BY ZenonT(30), <1>2, <2>1, NoFetchShape
<1>8. \/ /\ e.group # 0 /\ bf' = bf
         /\ group' = [group EXCEPT ![e.group].pending = (@ - 1) % Word, ![e.group].failed = @ \/ ~e.ok]
      \/ e.group = 0 /\ group' = group /\ bf' = [bf EXCEPT !.inflight = (@ - 1) % Word]
  BY ZenonT(30) DEF Callback
<1>9. /\ group' \in [Layer -> [pending : 0 .. Word - 1, failed : BOOLEAN]]
      /\ \A g \in Layer : g # e.group => group'[g] = group[g]
      /\ e.group # 0 => group'[e.group].pending = (group[e.group].pending - 1) % Word /\ bf' = bf
  <2>1. CASE e.group # 0
    <3> DEFINE n == (group[e.group].pending - 1) % Word
               b == group[e.group].failed \/ ~e.ok
    <3>1. n \in 0 .. Word - 1 /\ b \in BOOLEAN
      <4>1. PICK x \in [pending : 0 .. Word - 1, failed : BOOLEAN] : x = group[e.group]
        BY ZenonT(30), <1>2, <1>4, <2>1
      <4>2. Word \in Nat /\ Word > 0
        BY PlannerAssumption
      <4>3. \A p \in 0 .. Word - 1 : p - 1 \in Int
        BY <4>2
      <4>4. (x.pending - 1) % Word \in 0 .. Word - 1
        BY ZenonT(30), <4>2, <4>3, InWord
      <4> QED BY ZenonT(30), <4>1, <4>4
    <3>2. group' = [group EXCEPT ![e.group].pending = n, ![e.group].failed = b] /\ bf' = bf
      BY ZenonT(30), <1>8, <2>1
    <3> SUFFICES /\ group' \in [Layer -> [pending : 0 .. Word - 1, failed : BOOLEAN]]
                 /\ \A g \in Layer : g # e.group => group'[g] = group[g]
                 /\ group'[e.group].pending = n /\ bf' = bf
      BY ZenonT(30), <2>1
    <3>3. PICK g0 \in Layer : g0 = e.group
      BY ZenonT(30), <1>4, <2>1
    <3>4. group' = [group EXCEPT ![g0].pending = n, ![g0].failed = b]
      BY ZenonT(30), <3>2, <3>3
    <3> HIDE DEF n, b
    <3>5. /\ group' \in [Layer -> [pending : 0 .. Word - 1, failed : BOOLEAN]]
          /\ \A g \in Layer : g # g0 => group'[g] = group[g]
          /\ group'[g0].pending = n
      BY ZenonT(30), <1>2, <3>1, <3>4
    <3> QED BY ZenonT(30), <3>2, <3>3, <3>5
  <2>2. CASE e.group = 0
    BY ZenonT(30), <1>2, <1>8, <2>2
  <2> QED BY ZenonT(30), <2>1, <2>2
<1>10. /\ bf' \in BackfillState /\ bf'.started = bf.started /\ bf'.active = bf.active /\ bf'.max = bf.max
       /\ e.group = 0 => bf'.inflight = (bf.inflight - 1) % Word /\ group' = group
  <2>1. CASE e.group # 0
    BY ZenonT(30), <1>2, <1>8, <2>1
  <2>2. CASE e.group = 0
    <3> DEFINE n == (bf.inflight - 1) % Word
    <3>1. n \in 0 .. Word - 1
      BY <1>2, PlannerAssumption DEF BackfillState
    <3>2. bf' = [bf EXCEPT !.inflight = n] /\ group' = group
      BY ZenonT(30), <1>8, <2>2
    <3> SUFFICES /\ bf' \in BackfillState /\ bf'.started = bf.started /\ bf'.active = bf.active
                 /\ bf'.max = bf.max /\ bf'.inflight = n /\ group' = group
      OBVIOUS
    <3> HIDE DEF n
    <3> QED BY ZenonT(30), <1>2, <3>1, <3>2 DEF BackfillState
  <2> QED BY ZenonT(30), <2>1, <2>2
<1>11. PlannerTypes'
  BY ZenonT(30), <1>1, <1>5, <1>7, <1>9, <1>10 DEF PlannerTypes, OnlyMoves, planVars
<1>12. ThreadsPlaced'
  BY ZenonT(30), <1>1, <1>5, <1>6 DEF ThreadsPlaced, Planning, FetchPc, PlanPc, Thread
<1>13. FetchesShaped'
  BY ZenonT(30), <1>7, NoFetchShape, PlannerAssumption DEF FetchesShaped, Live
<1>14. ~Unsettled(f) /\ \A h \in FetchId : Unsettled(h)' <=> Unsettled(h)
  BY ZenonT(30), <1>1, <1>5, <1>7, NoFetchShape DEF Unsettled, Settled, Live, At
<1>15. FillsOwned' /\ NoOrphanFill'
  BY ZenonT(30), <1>3, <1>7, <1>14, OwnersKept
<1>16. FetchesHeld'
  <2>1. ~Sending("dispatch")' /\ ~At("dispatch", "callback")'
    BY ZenonT(30), <1>5 DEF Sending, At
  <2>2. ASSUME Sending("submit")' PROVE
          (/\ th["submit"].fid \in FetchId
           /\ Unsettled(th["submit"].fid)
           /\ fetches[th["submit"].fid].unsent # 0
           /\ fetches[th["submit"].fid].group = IF th["submit"].ctx = "plan" THEN layer ELSE 0
           /\ FirstRunDecides /\ th["submit"].pc = "undo" => fetches[th["submit"].fid].flying = {})'
    <3> PICK h \in FetchId : h = th["submit"].fid /\ th'["submit"].fid = h /\ Sending("submit")
      BY ZenonT(30), <1>6, <2>2 DEF Sending, FetchesHeld, Thread
    <3>1. /\ Unsettled(h) /\ fetches[h].unsent # 0
          /\ fetches[h].group = IF th["submit"].ctx = "plan" THEN layer ELSE 0
          /\ FirstRunDecides /\ th["submit"].pc = "undo" => fetches[h].flying = {}
      BY DEF FetchesHeld, Thread
    <3>2. Unsettled(h)' /\ fetches'[h] = fetches[h]
      BY ZenonT(30), <1>7, <1>14, <3>1
    <3>3. Unsettled(th["submit"].fid)'
      BY ZenonT(30), <3>2 DEF Unsettled, Live, Settled
    <3> QED BY ZenonT(30), <1>1, <1>6, <3>1, <3>2, <3>3
  <2> QED BY ZenonT(30), <2>1, <2>2 DEF FetchesHeld, Thread
<1>17. ASSUME FirstRunDecides PROVE Counted' /\ NotStarted'
  <2>1. \A g : /\ Outstanding(g)' = IF g = e.group THEN Outstanding(g) - 1 ELSE Outstanding(g)
               /\ g = e.group => Outstanding(g) >= 1
    BY ZenonT(30), <1>7, EntryRemoved
  <2>2. \A u \in Thread, c \in {"plan", "pump"} : Uncounted(u, c)' <=> Uncounted(u, c)
    BY ZenonT(30), <1>1, <1>5, <1>6 DEF Uncounted, Thread
  <2>3. Pumping' = Pumping
    BY <2>2 DEF Pumping
  <2>4. bf.inflight = Outstanding(0) + Cardinality(Pumping) /\ bf.inflight <= bf.max
        /\ Outstanding(0) \in Nat /\ Outstanding(0) <= NumFetch /\ Cardinality(Pumping) \in 0 .. 2
        /\ bf.max \in Nat
    BY ZenonT(30), <1>2, <1>17, EntriesFinite, PumpingSize DEF Counted, BackfillExact, Pumping, BackfillState
  <2>5. \A g \in Layer : g # 0 /\ Outstanding(g) \in Nat /\ Outstanding(g) <= NumFetch
    BY EntriesFinite DEF Layer
  <2>6. CASE e.group = 0
    <3>1. bf.inflight - 1 \in Nat /\ bf.inflight - 1 < Word /\ Word \in Nat /\ bf.inflight # 0
      BY SMTT(30), <2>1, <2>4, <2>6, PlannerAssumption
    <3>2. bf'.inflight = bf.inflight - 1
      BY ZenonT(30), <1>10, <2>6, <3>1, NoWrap
    <3>3. BackfillExact'
      <4>1. Outstanding(0)' = Outstanding(0) - 1
        BY ZenonT(30), <2>1, <2>6
      <4>2. bf'.inflight = Outstanding(0)' + Cardinality(Pumping') /\ bf'.inflight <= bf'.max
        BY SMTT(30), <1>10, <2>3, <2>4, <3>1, <3>2, <4>1
      <4> QED BY <4>2 DEF BackfillExact, Pumping
    <3>4. GroupExact'
      BY ZenonT(30), <1>1, <1>10, <1>17, <2>1, <2>2, <2>5, <2>6 DEF Counted, GroupExact, Thread
    <3>5. NotStarted'
      BY ZenonT(30), <1>10, <1>17, <3>1 DEF NotStarted
    <3> QED BY ZenonT(30), <3>3, <3>4, <3>5 DEF Counted
  <2>7. CASE e.group # 0
    <3>1. e.group \in Layer
      BY ZenonT(30), <1>4, <2>7
    <3> DEFINE one == IF e.group = layer /\ Uncounted("submit", "plan") THEN 1 ELSE 0
    <3>2. group[e.group].pending = Outstanding(e.group) + one /\ one \in 0 .. 1
      BY SMTT(30), <1>17, <3>1 DEF Counted, GroupExact
    <3> DEFINE p == group[e.group].pending
               n == Outstanding(e.group)
    <3> HIDE DEF p, n, one
    <3>3. p = n + one /\ p - 1 \in Nat /\ p - 1 < Word /\ Word \in Nat /\ (n - 1) + one = p - 1
      <4>1. n \in Nat /\ n <= NumFetch /\ n >= 1
        BY ZenonT(30), <2>1, <2>5, <3>1 DEF n
      <4>2. p = n + one /\ one \in 0 .. 1
        BY ZenonT(30), <3>2 DEF p, n
      <4> QED BY SMTT(30), <4>1, <4>2, PlannerAssumption
    <3>4. group'[e.group].pending = p - 1
      <4>1. group'[e.group].pending = (p - 1) % Word
        BY ZenonT(30), <1>9, <2>7 DEF p
      <4> QED BY ZenonT(30), <3>3, <4>1, NoWrap
    <3>5. GroupExact'
      <4>1. SUFFICES ASSUME NEW g \in Layer
                     PROVE  (group[g].pending =
                              Outstanding(g) + (IF g = layer /\ Uncounted("submit", "plan") THEN 1 ELSE 0))'
        BY DEF GroupExact
      <4>2. Uncounted("submit", "plan")' <=> Uncounted("submit", "plan")
        BY ZenonT(30), <1>2, <2>2
      <4>3. CASE g = e.group
        <5>1. Outstanding(g)' = n - 1
          BY ZenonT(30), <2>1, <4>3 DEF n
        <5>2. (IF g = layer /\ Uncounted("submit", "plan") THEN 1 ELSE 0)' = one
          BY ZenonT(30), <1>1, <4>2, <4>3 DEF one
        <5>3. group'[g].pending = (n - 1) + one
          BY ZenonT(30), <3>3, <3>4, <4>3
        <5> QED BY ZenonT(30), <5>1, <5>2, <5>3
      <4>4. CASE g # e.group
        BY ZenonT(30), <1>1, <1>9, <1>17, <2>1, <4>2, <4>4 DEF Counted, GroupExact
      <4> QED BY ZenonT(30), <4>3, <4>4
    <3>6. BackfillExact'
      <4>1. Outstanding(0)' = Outstanding(0) /\ bf' = bf
        BY ZenonT(30), <1>9, <2>1, <2>7
      <4> QED BY ZenonT(30), <2>3, <2>4, <4>1 DEF BackfillExact, Pumping
    <3>7. NotStarted'
      BY ZenonT(30), <1>9, <1>17, <2>7 DEF NotStarted
    <3> QED BY ZenonT(30), <3>5, <3>6, <3>7 DEF Counted
  <2> QED BY ZenonT(30), <2>6, <2>7
<1> QED BY ZenonT(30), <1>3, <1>11, <1>12, <1>13, <1>15, <1>16, <1>17

-----------------------------------------------------------------------------
(* The invariant *)

\* Nothing is in flight at first.
LEMMA PlannerInitInv == PlannerInit => PlannerInv
<1> SUFFICES ASSUME PlannerInit PROVE PlannerInv
  OBVIOUS
<1>1. StoreInv
  BY InitInv DEF PlannerInit
<1>2. Fresh("idle") \in ThreadState
  <2>1. 0 \in Stamp /\ 0 \in 0 .. NumFetch /\ DefaultKey \in Keys /\ <<>> \in Seq(Slot)
    BY StoreAssumption, PlannerAssumption DEF Stamp
  <2> QED BY <2>1 DEF Fresh, ThreadState, Errors, Pc
<1>3. /\ th = [t \in Thread |-> Fresh("idle")] /\ fetches = [f \in FetchId |-> NoFetch]
      /\ layer = 0 /\ bf.inflight = 0 /\ ~bf.active /\ bf.max = 1
      /\ \A g \in Layer : group[g].pending = 0
  BY DEF PlannerInit
<1>4. \A t \in Thread : th[t].pc = "idle" /\ th[t].ctx = "none"
  BY <1>3 DEF Fresh
<1>5. PlannerTypes
  <2>1. DemandBase \in DemandBase .. MaxStamp /\ 0 \in 0 .. MaxLayers /\ 0 \in 0 .. Word - 1
        /\ 1 \in 1 .. Len(Order) + 1
    BY StoreAssumption, PlannerAssumption DEF Stamp
  <2>2. bf \in BackfillState
    BY <2>1 DEF PlannerInit, BackfillState
  <2>3. joined \in Seq(Keys \X Stamp) /\ todo \in Seq(Keys)
    BY DEF PlannerInit
  <2>4. group \in [Layer -> [pending : 0 .. Word - 1, failed : BOOLEAN]]
    BY <2>1 DEF PlannerInit
  <2>5. th \in [Thread -> ThreadState] /\ fetches \in [FetchId -> FetchState]
    BY ZenonT(30), <1>2, <1>3, NoFetchShape
  <2> QED BY ZenonT(30), <2>1, <2>2, <2>3, <2>4, <2>5 DEF PlannerTypes, PlannerInit
<1>6. ThreadsPlaced
  BY <1>4 DEF ThreadsPlaced, Planning, FetchPc, PlanPc, Thread
<1>7. \A f \in FetchId : ~Live(f) /\ fetches[f].flying = {}
  BY ZenonT(30), <1>3, NoFetchShape DEF Live
<1>8. FetchesShaped /\ FetchesHeld
  BY ZenonT(30), <1>4, <1>7 DEF FetchesShaped, FetchesHeld, Sending, At, Thread
<1>9. FillsOwned /\ NoOrphanFill
  <2>1. \A s \in Slot : state[s] = "Free"
    BY DEF PlannerInit, Init
  <2> QED BY ZenonT(30), <1>7, <2>1 DEF FillsOwned, NoOrphanFill, Unsettled
<1>10. Counted /\ NotStarted
  <2>1. \A g : Entries(g) = {}
    BY <1>7 DEF Entries
  <2>2. \A g : Outstanding(g) = 0
    BY ZenonT(30), <2>1, EntriesFinite, FS_EmptySet
  <2>3. ~Uncounted("submit", "plan") /\ Pumping = {}
    BY <1>4 DEF Uncounted, Pumping, Thread
  <2>4. GroupExact
    BY <1>3, <2>2, <2>3 DEF GroupExact
  <2>5. Cardinality(Pumping) = 0
    BY ZenonT(30), <2>3, FS_EmptySet
  <2>6. BackfillExact
    BY <1>3, <2>2, <2>5 DEF BackfillExact, Pumping
  <2> QED BY ZenonT(30), <1>3, <2>4, <2>6 DEF Counted, NotStarted
<1> QED BY ZenonT(30), <1>1, <1>5, <1>6, <1>8, <1>9, <1>10 DEF PlannerInv

\* A stuttering step changes nothing.
LEMMA StutterKeeps ==
    ASSUME PlannerInv, UNCHANGED pvars PROVE PlannerInv'
<1>1. UNCHANGED <<vars, th, clock, layer, joined, hits, mask, todo, group, fetches, bf>>
  BY DEF pvars, planVars
<1>2. StoreInv' /\ SlotsCalm
  BY ZenonT(30), <1>1, QuietIsCalm DEF PlannerInv
<1>3. PlannerTypes' /\ ThreadsPlaced'
  BY ZenonT(30), <1>1 DEF PlannerInv, PlannerTypes, ThreadsPlaced, Planning
<1>4. ThreadsCalm /\ th' \in [Thread -> ThreadState]
  BY <1>1 DEF ThreadsCalm, PlannerInv, PlannerTypes
<1>5. FetchesShaped' /\ FetchesHeld' /\ FillsOwned' /\ NoOrphanFill'
  BY ZenonT(30), <1>1, <1>2, <1>4, CalmKeepsFills
<1>6. FirstRunDecides => Counted' /\ NotStarted'
  <2>1. \A t \in Thread, c \in {"plan", "pump"} : Uncounted(t, c)' <=> Uncounted(t, c)
    BY <1>1 DEF Uncounted
  <2>2. FirstRunDecides => Counted'
    BY ZenonT(30), <1>1, <2>1, CalmKeepsCounts DEF PlannerInv, Thread
  <2> QED BY ZenonT(30), <1>1, <2>2 DEF PlannerInv, NotStarted
<1> QED BY ZenonT(30), <1>2, <1>3, <1>5, <1>6 DEF PlannerInv

\* Every step of either thread preserves the invariant.
LEMMA PlannerNextKeeps == PlannerInv /\ [PlannerNext]_pvars => PlannerInv'
<1> SUFFICES ASSUME PlannerInv, [PlannerNext]_pvars PROVE PlannerInv'
  OBVIOUS
<1>1. ASSUME NEW t \in Thread, FetchStep(t) PROVE PlannerInv'
  BY ZenonT(30), <1>1, FetchBeginKeeps, FetchMovesKeep, FetchSubmitKeeps, FetchUndoKeeps, PumpKeeps,
     PumpFetchedKeeps DEF FetchStep
<1>2. CASE SubmitStep
  BY ZenonT(30), <1>1, <1>2, PlanLookupKeeps, PlanMovesKeep, PlanFetchKeeps, PlanFetchedKeeps, WaitMovesKeep
     DEF SubmitStep, Thread
<1>3. CASE DispatchStep
  <2>1. ASSUME NEW f \in FetchId, NEW run \in 1 .. Runs, NEW ok \in ReadOutcome, Deliver(f, run, ok)
        PROVE  PlannerInv'
    <3>1. ok \in BOOLEAN
      BY ZenonT(30) DEF ReadOutcome
    <3> QED BY ZenonT(30), <2>1, <3>1, DeliverKeeps
  <2> QED BY ZenonT(30), <1>1, <1>3, <2>1, CallbackKeeps DEF DispatchStep, Thread
<1>4. CASE WaitTimeout
  BY ZenonT(30), <1>4, WaitMovesKeep
<1>5. CASE (\E r \in Routes : StartLayer(r)) \/ (\E m \in Modes : SetResidentOnly(m)) \/ RequestOffPlain
  BY ZenonT(30), <1>5, IdleMovesKeep
<1>6. CASE (\E n \in Inflights : StartBackfill(n)) \/ StopBackfill
  BY ZenonT(30), <1>6, BackfillMovesKeep
<1>7. CASE UNCHANGED pvars
  BY ZenonT(30), <1>7, StutterKeeps
<1> QED BY ZenonT(30), <1>2, <1>3, <1>4, <1>5, <1>6, <1>7 DEF PlannerNext, Quiescent

\* The planner's invariant: types, where the threads can be, who owns which
\* fill, and the counts.
THEOREM PlannerInvariant == PlannerSpec => []PlannerInv
<1> QED BY PlannerInitInv, PlannerNextKeeps, PTL DEF PlannerSpec

\* A read in flight lands in the fill it was issued for, whatever is refused,
\* fails or times out, and with both threads in fetch.
THEOREM FillsAreOwned == PlannerSpec => []FillsOwned
<1>1. PlannerInv => FillsOwned
  BY DEF PlannerInv
<1> QED BY <1>1, PlannerInvariant, PTL

\* No error path of fetch leaves a slot in Filling for ever.
THEOREM NoFillOrphaned == PlannerSpec => []NoOrphanFill
<1>1. PlannerInv => NoOrphanFill
  BY DEF PlannerInv
<1> QED BY <1>1, PlannerInvariant, PTL

\* Fills are owned, none is orphaned and the backfill's are counted exactly, with
\* both threads pumping, unless a run after the first of a fetch is refused.
THEOREM FillsExactTheorem ==
    ASSUME FirstRunDecides PROVE PlannerSpec => []FillsExact
<1>1. PlannerInv => FillsExact
  BY DEF PlannerInv, FillsExact, Counted
<1> QED BY <1>1, PlannerInvariant, PTL

\* FetchGroup::pending is the number of the layer's fills that have not reported,
\* in every layer, whichever layers have timed out since. So wait_layer's test
\* for zero is a test that every fill of its layer has reported.
THEOREM GroupExactTheorem ==
    ASSUME FirstRunDecides PROVE PlannerSpec => []GroupExact
<1>1. PlannerInv => GroupExact
  BY DEF PlannerInv, Counted
<1> QED BY <1>1, PlannerInvariant, PTL

-----------------------------------------------------------------------------
(* The planner as a client of the store *)

\* Each step of the planner calls one method of the store, with arguments the
\* store takes, or none.
LEMMA StepsOfTheStore == PlannerInv /\ [PlannerNext]_pvars => [Next]_vars
<1> SUFFICES ASSUME PlannerInv, [PlannerNext]_pvars PROVE [Next]_vars
  OBVIOUS
<1> USE DEF PlannerInv
<1>1. /\ th \in [Thread -> ThreadState] /\ fetches \in [FetchId -> FetchState]
      /\ "submit" \in Thread /\ "dispatch" \in Thread
  BY DEF PlannerTypes, Thread
<1>2. ASSUME NEW t \in Thread, FetchStep(t) PROVE [Next]_vars
  <2>1. CASE FetchBegin(t)
    <3>1. BeginFill(th[t].key, "Cached", Runs)
      BY ZenonT(30), <2>1 DEF FetchBegin
    <3>2. Runs \in 1 .. MaxRuns /\ "Cached" \in Tier /\ th[t].key \in Keys
      BY ZenonT(30), <1>1, PlannerAssumption DEF Tier, ThreadState
    <3> QED BY ZenonT(30), <3>1, <3>2 DEF Next
  <2>2. CASE FetchEvict(t)
    <3>1. th[t].victims \in Seq(Slot)
      BY <1>1 DEF ThreadState
    <3>2. UNCHANGED vars \/ (th[t].victims # <<>> /\ Evict(Head(th[t].victims)))
      BY ZenonT(30), <2>2 DEF FetchEvict
    <3>3. th[t].victims # <<>> => Head(th[t].victims) \in Slot
      BY <3>1
    <3> QED BY ZenonT(30), <3>2, <3>3 DEF Next
  <2>3. CASE FetchUndo(t)
    <3>1. PICK f \in FetchId : f = th[t].fid /\ Live(f)
      BY <2>3 DEF FetchUndo, At, FetchesHeld, Sending, Unsettled
    <3>2. FinishRun(fetches[f].slot, FALSE, fetches[f].stamp)
      BY ZenonT(30), <2>3, <3>1 DEF FetchUndo
    <3>3. fetches[f].slot \in Slot /\ fetches[f].stamp \in Stamp
      BY ZenonT(30), <1>1, <3>1 DEF FetchState, Live
    <3> QED BY ZenonT(30), <3>2, <3>3 DEF Next
  <2>4. CASE FetchRefused(t) \/ FetchReclaim(t) \/ FetchSubmit(t) \/ FetchSubmitFails(t) \/ Pump(t)
             \/ PumpFetched(t)
    BY ZenonT(30), <2>4 DEF FetchRefused, FetchReclaim, FetchSubmit, FetchSubmitFails, Pump, PumpFetched
  <2> QED BY ZenonT(30), <1>2, <2>1, <2>2, <2>3, <2>4 DEF FetchStep
<1>3. CASE PlanLookup
  <2>1. clock' \in Stamp /\ (IF mask THEN layer ELSE 0) \in Timeline /\ Head(todo) \in Keys
    BY <1>3, Ranges DEF PlanLookup, PlannerTypes
  <2>2. Lookup(Head(todo), clock', IF mask THEN layer ELSE 0) \/ UNCHANGED vars
    BY <1>3 DEF PlanLookup, Miss
  <2> QED BY ZenonT(30), <2>1, <2>2 DEF Next
<1>4. CASE TouchJoined \/ MaskTouch
  <2>1. joined # <<>> => Head(joined)[1] \in Keys /\ Head(joined)[2] \in Stamp
    BY DEF PlannerTypes
  <2>2. \/ UNCHANGED vars
        \/ joined # <<>> /\ \E b \in BOOLEAN : Touch(Head(joined)[1], Head(joined)[2], b)
    BY ZenonT(30), <1>4 DEF TouchJoined, MaskTouch
  <2> QED BY ZenonT(30), <2>1, <2>2 DEF Next
<1>5. CASE LayerDone
  BY ZenonT(30), <1>5, Ranges DEF LayerDone, Next
<1>6. CASE PlanEvict
  BY <1>6 DEF PlanEvict, Next
<1>7. CASE PlanFull \/ PlanJoin \/ PlanMiss \/ PlanRoom \/ PlanFetch \/ PlanFetched \/ WaitGroup
           \/ WaitSettled \/ WaitTimeout
  BY ZenonT(30), <1>7 DEF PlanFull, PlanJoin, PlanMiss, PlanRoom, PlanFetch, PlanFetched, WaitGroup,
     WaitSettled, WaitTimeout
<1>8. CASE SubmitStep
  BY ZenonT(30), <1>1, <1>2, <1>3, <1>4, <1>5, <1>6, <1>7, <1>8 DEF SubmitStep
<1>9. ASSUME NEW f \in FetchId, NEW run \in 1 .. Runs, NEW ok \in ReadOutcome, Deliver(f, run, ok)
      PROVE  [Next]_vars
  <2>1. FinishRun(fetches[f].slot, ok, fetches[f].stamp) /\ ok \in BOOLEAN /\ run \in fetches[f].flying
    BY ZenonT(30), <1>9 DEF Deliver, ReadOutcome
  <2>2. fetches[f].slot \in Slot /\ fetches[f].stamp \in Stamp
    BY ZenonT(30), <1>1, <2>1 DEF FetchState, FetchesShaped, Live
  <2> QED BY ZenonT(30), <2>1, <2>2 DEF Next
<1>10. CASE DispatchStep
  BY ZenonT(30), <1>1, <1>2, <1>9, <1>10 DEF DispatchStep, Callback
<1>11. ASSUME NEW m \in Modes, SetResidentOnly(m) PROVE [Next]_vars
  BY ZenonT(30), <1>11 DEF SetResidentOnly, Next
<1>12. CASE (\E r \in Routes : StartLayer(r)) \/ (\E n \in Inflights : StartBackfill(n)) \/ StopBackfill
            \/ RequestOffPlain \/ UNCHANGED pvars
  BY <1>12 DEF StartLayer, StartBackfill, StopBackfill, RequestOffPlain, pvars
<1> QED BY ZenonT(30), <1>7, <1>8, <1>10, <1>11, <1>12 DEF PlannerNext, Quiescent

\* The planner implements the store's specification: whatever holds of the store
\* under its most general client holds with both of the planner's threads in it.
THEOREM PlannerUsesStore == PlannerSpec => Spec
<1>1. PlannerInit => Init
  BY DEF PlannerInit
<1> QED BY <1>1, PlannerInvariant, StepsOfTheStore, PTL DEF PlannerSpec, Spec

\* In particular, with a layer planning and the backfill pumping, the store's
\* tables agree, no reader loses its expert and no step touches what is frozen or
\* pinned.
THEOREM PlannerKeepsStore == PlannerSpec => []StoreConsistent /\ []ReadersKept /\ StoreSteps
<1> QED BY PlannerUsesStore, StoreConsistentTheorem, ReadersKeptTheorem, StoreStepsTheorem, PTL

-----------------------------------------------------------------------------
(* What an eviction takes. Demand is what the layers did; these say that the  *)
(* stamps express it, in a resident slot, in a fill and on the way to one.    *)

Aged(s) == IF s \in asked THEN lastUse[s] > DemandBase ELSE lastUse[s] < DemandBase
SlotsAged == \A s \in Slot : state[s] = "Resident" => Aged(s)

\* A fill settles with the later of its own stamp and the slot's.
FillAged(x) ==
    IF x.slot \in asked THEN x.stamp > DemandBase \/ lastUse[x.slot] > DemandBase
    ELSE x.stamp < DemandBase /\ lastUse[x.slot] < DemandBase
FillsAged == \A f \in FetchId : Unsettled(f) => FillAged(fetches[f])

Asking(t) == th[t].pc \in {"begin", "reclaim", "evict"}
ThreadsAged ==
    \A t \in Thread :
       Asking(t) => IF th[t].ctx = "plan" THEN th[t].stamp = 0
                    ELSE th[t].stamp # 0 /\ th[t].stamp < DemandBase
JoinsAged == \A i \in 1 .. Len(joined) : joined[i][2] > DemandBase

DemandInv == SlotsAged /\ FillsAged /\ ThreadsAged /\ JoinsAged

\* The steps that bring nothing in and stamp nothing leave slots and fills as old
\* as they were.
LEMMA NothingNewAged ==
    ASSUME SlotsAged, FillsAged, UNCHANGED <<lastUse, asked>>,
           \A s \in Slot : state'[s] = "Resident" => state[s] = "Resident",
           \A f \in FetchId : Unsettled(f)' =>
              Unsettled(f) /\ fetches'[f].slot = fetches[f].slot /\ fetches'[f].stamp = fetches[f].stamp
    PROVE  SlotsAged' /\ FillsAged'
<1>1. SlotsAged'
  BY ZenonT(30) DEF SlotsAged, Aged
<1>2. FillsAged'
  BY ZenonT(30) DEF FillsAged, FillAged
<1> QED BY <1>1, <1>2

\* A slot in use is stamped with a demand stamp and recorded as asked for.
LEMMA StampedAged ==
    ASSUME PlannerInv, SlotsAged, FillsAged, NEW s \in Slot, NEW n \in Stamp, n > DemandBase,
           \/ lastUse' = [lastUse EXCEPT ![s] = n]
           \/ lastUse' = [lastUse EXCEPT ![s] = Maximum(@, n)],
           asked' = asked \union {s}, UNCHANGED <<state, fetches>>,
           \A f \in FetchId : Unsettled(f)' => Unsettled(f)
    PROVE  SlotsAged' /\ FillsAged'
<1>1. lastUse \in [Slot -> Stamp]
  BY DEF PlannerInv, StoreInv, TypeOK
<1>2. Maximum(lastUse[s], n) > DemandBase
  BY <1>1, StampsAreNaturals, PlannerAssumption DEF Maximum
<1>3. lastUse'[s] > DemandBase /\ \A v \in Slot : v # s => lastUse'[v] = lastUse[v]
  BY ZenonT(30), <1>1, <1>2
<1>4. SlotsAged'
  BY ZenonT(30), <1>3 DEF SlotsAged, Aged
<1>5. \A f \in FetchId : Unsettled(f) => fetches[f].slot \in Slot
  BY DEF PlannerInv, PlannerTypes, FetchState, Unsettled, Live
<1>6. FillsAged'
  BY ZenonT(30), <1>3, <1>5 DEF FillsAged, FillAged
<1> QED BY <1>4, <1>6

\* plan_layer and wait_layer, except where they stamp: the submit thread asks for
\* a fill with no stamp, and joins one with a stamp of its own.
LEMMA SubmitMovesAged ==
    ASSUME PlannerInv, DemandInv,
           \/ PlanFull \/ PlanMiss \/ PlanRoom \/ PlanEvict \/ PlanFetch \/ PlanFetched
           \/ WaitGroup \/ WaitSettled \/ WaitTimeout \/ LayerDone \/ StopBackfill \/ RequestOffPlain
           \/ \E n \in Inflights : StartBackfill(n)
           \/ \E m \in Modes : SetResidentOnly(m)
    PROVE  DemandInv'
<1>1. th \in [Thread -> ThreadState] /\ "submit" \in Thread /\ "dispatch" \in Thread
  BY DEF PlannerInv, PlannerTypes, Thread
<1>2. UNCHANGED <<fetches, asked, joined>> /\ th'["dispatch"] = th["dispatch"]
  BY ZenonT(30), <1>1 DEF PlanFull, PlanMiss, PlanRoom, PlanEvict, PlanFetch, PlanFetched, WaitGroup, WaitSettled,
     WaitTimeout, LayerDone, StopBackfill, RequestOffPlain, StartBackfill, SetResidentOnly, Goto, Leave,
     Answer, planVars, histVars
<1>3. lastUse' = lastUse /\ \A s \in Slot : state'[s] = "Resident" => state[s] = "Resident"
  <2>1. \/ UNCHANGED vars
        \/ EvictLru
        \/ SetCompletedTimeline(layer)
        \/ \E m \in Modes : SetFixedCache(m = "FixedMask")
    BY ZenonT(30) DEF PlanFull, PlanMiss, PlanRoom, PlanEvict, PlanFetch, PlanFetched, WaitGroup, WaitSettled,
       WaitTimeout, LayerDone, StopBackfill, RequestOffPlain, StartBackfill, SetResidentOnly
  <2>2. CASE EvictLru
    BY ZenonT(30), <2>2 DEF EvictLru, EvictSlot, ReleaseLocked, PlannerInv, StoreInv, TypeOK
  <2>3. CASE UNCHANGED vars \/ SetCompletedTimeline(layer) \/ \E m \in Modes : SetFixedCache(m = "FixedMask")
    BY ZenonT(30), <2>3 DEF vars, slotVars, SetCompletedTimeline, SetFixedCache
  <2> QED BY <2>1, <2>2, <2>3
<1>4. SlotsAged' /\ FillsAged'
  BY ZenonT(30), <1>2, <1>3, NothingNewAged DEF DemandInv, Unsettled, Settled, Live, At
<1>5. ~Asking("submit")' \/ (th'["submit"].ctx = "plan" /\ th'["submit"].stamp = 0) \/ UNCHANGED th
  <2>1. CASE PlanFetch
    BY ZenonT(30), <1>1, <2>1 DEF PlanFetch, ThreadState
  <2>2. CASE UNCHANGED th
    BY <2>2
  <2>3. CASE \E q \in Pc \ {"begin", "reclaim", "evict"} : Goto("submit", q) \/ Leave("submit", q)
    BY ZenonT(30), <1>1, <2>3, GotoMoves, LeaveMoves DEF Asking
  <2>4. \A q \in {"plan", "held", "room", "evict_lru", "fetch", "join", "touch", "moe", "idle", "pump"} :
           q \in Pc \ {"begin", "reclaim", "evict"}
    BY DEF Pc, PlanPc
  <2>5. \/ PlanFetch
        \/ UNCHANGED th
        \/ \E q \in {"plan", "held", "room", "evict_lru", "fetch", "join", "touch", "moe", "idle", "pump"} :
              Goto("submit", q) \/ Leave("submit", q)
    BY ZenonT(30) DEF PlanFull, PlanMiss, PlanRoom, PlanEvict, PlanFetched, WaitGroup, WaitSettled,
       WaitTimeout, LayerDone, StopBackfill, RequestOffPlain, StartBackfill, SetResidentOnly, Answer
  <2> QED BY ZenonT(30), <2>1, <2>2, <2>3, <2>4, <2>5
<1>6. ThreadsAged' /\ JoinsAged'
  BY ZenonT(30), <1>2, <1>5 DEF DemandInv, ThreadsAged, JoinsAged, Asking, Thread
<1> QED BY ZenonT(30), <1>4, <1>6 DEF DemandInv

\* A layer starts with nothing joined; a join is stamped after every layer before.
LEMMA JoinsKeepAged ==
    ASSUME PlannerInv, DemandInv, PlanJoin \/ \E r \in Routes : StartLayer(r)
    PROVE  DemandInv'
<1>1. th \in [Thread -> ThreadState] /\ "submit" \in Thread /\ "dispatch" \in Thread
  BY DEF PlannerInv, PlannerTypes, Thread
<1>2. UNCHANGED <<vars, fetches, asked>> /\ Leave("submit", "plan")
  BY ZenonT(30) DEF PlanJoin, StartLayer, histVars
<1>3. th'["dispatch"] = th["dispatch"] /\ ~Asking("submit")'
  <2>1. "plan" \in Pc
    BY DEF Pc, PlanPc
  <2>2. OnlyMoves("submit") /\ th'["submit"].pc = "plan"
    BY ZenonT(30), <1>1, <1>2, <2>1, LeaveMoves
  <2> QED BY ZenonT(30), <2>2 DEF OnlyMoves, Asking, Thread
<1>4. SlotsAged' /\ FillsAged'
  BY ZenonT(30), <1>2, <1>3, NothingNewAged DEF DemandInv, Unsettled, Settled, Live, At, vars, slotVars
<1>5. JoinsAged'
  <2>1. CASE PlanJoin
    <3>1. joined \in Seq(Keys \X Stamp) /\ clock \in DemandBase .. MaxStamp /\ DemandBase \in Nat /\ MaxStamp \in Nat
      BY PlannerAssumption, StoreAssumption DEF PlannerInv, PlannerTypes, Stamp
    <3>2. joined' = Append(joined, <<th["submit"].key, clock + 1>>)
      BY ZenonT(30), <2>1 DEF PlanJoin
    <3> QED BY <3>1, <3>2 DEF DemandInv, JoinsAged
  <2>2. CASE \E r \in Routes : StartLayer(r)
    BY <2>2 DEF StartLayer, JoinsAged
  <2> QED BY <2>1, <2>2
<1> QED BY ZenonT(30), <1>3, <1>4, <1>5 DEF DemandInv, ThreadsAged, Asking, Thread

\* A lookup that hits, and the touch of a joined fill, stamp what they record.
LEMMA TouchesAged ==
    ASSUME PlannerInv, DemandInv, PlanLookup \/ TouchJoined \/ MaskTouch
    PROVE  DemandInv'
<1>1. /\ th \in [Thread -> ThreadState] /\ "submit" \in Thread /\ "dispatch" \in Thread
      /\ index \in [Keys -> Slot \union {NoSlot}]
  BY DEF PlannerInv, PlannerTypes, StoreInv, TypeOK, Thread
<1>2. fetches' = fetches /\ th'["dispatch"] = th["dispatch"]
  BY ZenonT(30), <1>1 DEF PlanLookup, Miss, TouchJoined, MaskTouch, Goto, Leave, Answer
<1>3. \A f \in FetchId : Unsettled(f)' <=> Unsettled(f)
  BY ZenonT(30), <1>2 DEF Unsettled, Settled, Live, At
<1>4. joined # <<>> => /\ Head(joined)[1] \in Keys /\ Head(joined)[2] \in Stamp /\ Head(joined)[2] > DemandBase
                       /\ \A i \in 1 .. Len(Tail(joined)) : Tail(joined)[i][2] > DemandBase
  <2>1. joined \in Seq(Keys \X Stamp)
    BY DEF PlannerInv, PlannerTypes
  <2> QED BY <2>1 DEF DemandInv, JoinsAged
<1>5. SlotsAged' /\ FillsAged'
  <2>1. CASE UNCHANGED <<lastUse, state, asked>>
    BY ZenonT(30), <1>2, <1>3, <2>1, NothingNewAged DEF DemandInv
  <2>2. ASSUME NEW k \in Keys, NEW n \in Stamp, n > DemandBase, Held(k),
               \/ lastUse' = [lastUse EXCEPT ![index[k]] = n]
               \/ lastUse' = [lastUse EXCEPT ![index[k]] = Maximum(@, n)],
               asked' = asked \union {index[k]}, UNCHANGED state
        PROVE  SlotsAged' /\ FillsAged'
    <3>1. index[k] \in Slot
      BY ZenonT(30), <1>1, <2>2 DEF Held
    <3> QED BY ZenonT(30), <1>2, <1>3, <2>2, <3>1, StampedAged DEF DemandInv
  <2>3. CASE PlanLookup
    <3>1. todo # <<>> /\ Head(todo) \in Keys
      BY <2>3 DEF PlanLookup, PlannerInv, PlannerTypes
    <3>2. ~fixedCache => clock' \in Stamp /\ clock' > DemandBase
      <4>1. clock \in DemandBase .. MaxStamp /\ DemandBase \in Nat /\ MaxStamp \in Nat
        BY PlannerAssumption, StoreAssumption DEF PlannerInv, PlannerTypes, Stamp
      <4>2. ~fixedCache => clock' = clock + 1 /\ clock < MaxStamp
        BY ZenonT(30), <2>3 DEF PlanLookup
      <4> QED BY <4>1, <4>2 DEF Stamp
    <3>3. \/ UNCHANGED <<lastUse, state, asked>>
          \/ /\ ~fixedCache /\ Held(Head(todo)) /\ asked' = asked \union {index[Head(todo)]}
             /\ lastUse' = [lastUse EXCEPT ![index[Head(todo)]] = clock'] /\ UNCHANGED state
      <4>1. CASE Miss(Head(todo))
        BY ZenonT(30), <4>1 DEF Miss, vars, slotVars
      <4>2. CASE fixedCache /\ ~Miss(Head(todo))
        <5>1. lastUse \in [Slot -> Stamp]
          BY DEF PlannerInv, StoreInv, TypeOK
        <5>2. lastUse' = [lastUse EXCEPT ![index[Head(todo)]] = lastUse[index[Head(todo)]]]
          BY ZenonT(30), <2>3, <4>2 DEF PlanLookup, Lookup
        <5>3. lastUse' = lastUse
          BY <5>1, <5>2
        <5> QED BY ZenonT(30), <2>3, <4>2, <5>3 DEF PlanLookup, Lookup
      <4>3. CASE ~fixedCache /\ ~Miss(Head(todo))
        BY ZenonT(30), <2>3, <4>3 DEF PlanLookup, Lookup, Resident
      <4> QED BY ZenonT(30), <4>1, <4>2, <4>3
    <3> QED BY ZenonT(30), <2>1, <2>2, <3>1, <3>2, <3>3
  <2>4. CASE TouchJoined \/ MaskTouch
    <3>1. \/ UNCHANGED <<lastUse, state, asked>>
          \/ /\ joined # <<>> /\ Held(Head(joined)[1])
             /\ asked' = asked \union {index[Head(joined)[1]]} /\ UNCHANGED state
             /\ lastUse' = [lastUse EXCEPT ![index[Head(joined)[1]]] = Maximum(@, Head(joined)[2])]
      BY ZenonT(30), <2>4 DEF TouchJoined, MaskTouch, Touch, Resident, FillingKey, vars, slotVars
    <3> QED BY ZenonT(30), <1>4, <2>1, <2>2, <3>1
  <2> QED BY ZenonT(30), <2>3, <2>4
<1>6. JoinsAged'
  <2>1. joined' = joined \/ (joined # <<>> /\ joined' = Tail(joined))
    BY ZenonT(30) DEF PlanLookup, TouchJoined, MaskTouch
  <2> QED BY ZenonT(30), <1>4, <2>1 DEF DemandInv, JoinsAged
<1>7. ~Asking("submit")'
  <2>1. ~Asking("submit")
    BY ZenonT(30) DEF PlanLookup, TouchJoined, MaskTouch, At, Asking
  <2>2. \/ UNCHANGED th
        \/ \E q \in {"join", "moe", "idle"} : Goto("submit", q)
        \/ \E k \in Keys, q \in {"full", "held"} : th' = [th EXCEPT !["submit"].pc = q, !["submit"].key = k]
    <3>1. PlanLookup => Head(todo) \in Keys
      BY DEF PlanLookup, PlannerInv, PlannerTypes
    <3> QED BY ZenonT(30), <3>1 DEF PlanLookup, Miss, TouchJoined, MaskTouch, Answer
  <2>3. ASSUME NEW q \in {"join", "moe", "idle"}, Goto("submit", q) PROVE th'["submit"].pc = q
    BY ZenonT(30), <1>1, <2>3 DEF Goto, ThreadState
  <2>4. ASSUME NEW k \in Keys, NEW q \in {"full", "held"}, th' = [th EXCEPT !["submit"].pc = q, !["submit"].key = k]
        PROVE  th'["submit"].pc = q
    BY ZenonT(30), <1>1, <2>4 DEF ThreadState
  <2> QED BY ZenonT(30), <2>1, <2>2, <2>3, <2>4 DEF Asking
<1> QED BY ZenonT(30), <1>2, <1>5, <1>6, <1>7 DEF DemandInv, ThreadsAged, Asking, Thread

\* The stamps of a backfill that is not to be kept are all older than demand, and
\* none is 0, which fetch would replace by a stamp of its own.
LEMMA GuessStamps ==
    ASSUME ~Keep
    PROVE  \A i \in 1 .. Len(Order) + 1 : i <= Len(Order) => BackfillStamp(i) # 0 /\ BackfillStamp(i) < DemandBase
<1> TAKE i \in 1 .. Len(Order) + 1
<1> HAVE i <= Len(Order)
<1>1. Len(Order) \in Nat /\ DemandBase \in Nat /\ Len(Order) < DemandBase
  BY StoreAssumption, PlannerAssumption DEF Stamp
<1>2. BackfillStamp(i) = DemandBase - 1 - (i - 1)
  BY ZenonT(30) DEF BackfillStamp
<1> QED BY <1>1, <1>2

\* fetch keeps what it was called with until it has a slot.
LEMMA AskersAged ==
    ASSUME ThreadsAged, NEW t \in Thread, \A u \in Thread : u # t => th'[u] = th[u],
           \/ ~Asking(t)'
           \/ Asking(t) /\ th'[t].ctx = th[t].ctx /\ th'[t].stamp = th[t].stamp
           \/ th'[t].ctx = "pump" /\ th'[t].stamp # 0 /\ th'[t].stamp < DemandBase
    PROVE  ThreadsAged'
BY ZenonT(30) DEF ThreadsAged, Asking

\* The ways out of fetch and of the pump's loop.
LEMMA StopsAsking ==
    ASSUME th \in [Thread -> ThreadState], NEW t \in Thread,
           \/ \E q \in {"undo", "idle", "pump"} : Goto(t, q) \/ Leave(t, q)
           \/ \E e : Return(t, e)
    PROVE  ~Asking(t)' /\ th'[t].pc # "callback"
<1>1. ASSUME NEW q \in {"undo", "idle", "pump"}, Goto(t, q) PROVE th'[t].pc = q
  BY ZenonT(30), <1>1 DEF Goto, ThreadState
<1>2. ASSUME NEW q \in {"undo", "idle", "pump"}, Leave(t, q) PROVE th'[t].pc = q
  BY ZenonT(30), <1>2 DEF Leave, Fresh
<1>3. ASSUME NEW e, Return(t, e) PROVE th'[t].pc = "ret"
  BY ZenonT(30), <1>3 DEF Return, ThreadState
<1> QED BY ZenonT(30), <1>1, <1>2, <1>3 DEF Asking

\* The steps of fetch and of the pump that bring nothing in.
LEMMA FetchMovesAged ==
    ASSUME ~Keep, PlannerInv, DemandInv, NEW t \in Thread,
           \/ FetchRefused(t) \/ FetchReclaim(t) \/ FetchEvict(t) \/ FetchSubmit(t)
           \/ FetchSubmitFails(t) \/ Pump(t) \/ PumpFetched(t)
    PROVE  DemandInv'
<1>1. th \in [Thread -> ThreadState] /\ th[t] \in ThreadState /\ fetches \in [FetchId -> FetchState]
  BY DEF PlannerInv, PlannerTypes
<1>2. UNCHANGED <<asked, joined>>
  BY ZenonT(30) DEF FetchRefused, FetchReclaim, FetchEvict, FetchSubmit, FetchSubmitFails, Pump, PumpFetched,
     planVars, histVars
<1>3. \A u \in Thread : u # t => th'[u] = th[u]
  BY ZenonT(30), <1>1 DEF FetchRefused, FetchReclaim, FetchEvict, FetchSubmit, FetchSubmitFails, Pump, PumpNext,
     PumpFetched, Goto, Leave, Return
<1>4. lastUse' = lastUse /\ \A s \in Slot : state'[s] = "Resident" => state[s] = "Resident"
  <2>1. UNCHANGED vars \/ \E s \in Slot : EvictSlot(s)
    BY ZenonT(30) DEF FetchRefused, FetchReclaim, FetchEvict, FetchSubmit, FetchSubmitFails, Pump,
       PumpFetched, Evict, Evictable
  <2>2. CASE \E s \in Slot : EvictSlot(s)
    BY ZenonT(30), <2>2 DEF EvictSlot, ReleaseLocked, PlannerInv, StoreInv, TypeOK
  <2>3. CASE UNCHANGED vars
    BY ZenonT(30), <2>3 DEF vars, slotVars
  <2> QED BY <2>1, <2>2, <2>3
<1>5. \A f \in FetchId : fetches'[f].slot = fetches[f].slot /\ fetches'[f].stamp = fetches[f].stamp
  <2>1. CASE fetches' = fetches
    BY <2>1
  <2>2. CASE FetchSubmit(t)
    BY ZenonT(30), <1>1, <2>2 DEF FetchSubmit, FetchState
  <2>3. CASE FetchSubmitFails(t)
    BY ZenonT(30), <1>1, <2>3 DEF FetchSubmitFails, FetchState
  <2>4. fetches' = fetches \/ FetchSubmit(t) \/ FetchSubmitFails(t)
    BY ZenonT(30) DEF FetchRefused, FetchReclaim, FetchEvict, Pump, PumpFetched
  <2> QED BY ZenonT(30), <2>1, <2>2, <2>3, <2>4
<1>6. \/ th' = th
      \/ ~Asking(t)' /\ th'[t].pc # "callback" /\ th[t].pc # "callback"
      \/ th[t].pc # "callback" /\ th'[t].pc # "callback"
         /\ Asking(t) /\ th'[t].ctx = th[t].ctx /\ th'[t].stamp = th[t].stamp
      \/ /\ th[t].pc # "callback" /\ th'[t].pc # "callback"
         /\ th'[t].ctx = "pump" /\ th'[t].stamp # 0 /\ th'[t].stamp < DemandBase
  <2>1. th[t].pc # "callback"
    BY ZenonT(30) DEF FetchRefused, FetchReclaim, FetchEvict, FetchSubmit, FetchSubmitFails, Pump, PumpFetched, At
  <2>2. CASE FetchReclaim(t)
    <3>1. \/ \E e : Return(t, e)
          \/ \E v : th' = [th EXCEPT ![t].pc = "evict", ![t].victims = v]
      BY ZenonT(30), <2>2 DEF FetchReclaim
    <3>2. Asking(t)
      BY ZenonT(30), <2>2 DEF FetchReclaim, At, Asking
    <3>3. ASSUME NEW v, th' = [th EXCEPT ![t].pc = "evict", ![t].victims = v]
          PROVE  th'[t].pc = "evict" /\ th'[t].ctx = th[t].ctx /\ th'[t].stamp = th[t].stamp
      BY ZenonT(30), <1>1, <3>3 DEF ThreadState
    <3> QED BY ZenonT(30), <1>1, <2>1, <3>1, <3>2, <3>3, StopsAsking
  <2>3. CASE FetchEvict(t)
    <3>1. \/ \E e : Return(t, e)
          \/ th' = [th EXCEPT ![t].pc = "begin", ![t].again = TRUE]
          \/ \E v : th' = [th EXCEPT ![t].victims = v]
      BY ZenonT(30), <2>3 DEF FetchEvict
    <3>2. Asking(t)
      BY ZenonT(30), <2>3 DEF FetchEvict, At, Asking
    <3>3. ASSUME th' = [th EXCEPT ![t].pc = "begin", ![t].again = TRUE]
          PROVE  th'[t].pc = "begin" /\ th'[t].ctx = th[t].ctx /\ th'[t].stamp = th[t].stamp
      BY ZenonT(30), <1>1, <3>3 DEF ThreadState
    <3>4. ASSUME NEW v, th' = [th EXCEPT ![t].victims = v]
          PROVE  th'[t].pc = th[t].pc /\ th'[t].ctx = th[t].ctx /\ th'[t].stamp = th[t].stamp
      BY ZenonT(30), <1>1, <3>4 DEF ThreadState
    <3> QED BY ZenonT(30), <1>1, <2>1, <3>1, <3>2, <3>3, <3>4, StopsAsking
  <2>4. CASE FetchRefused(t)
    <3>1. (\E e : Return(t, e)) \/ Goto(t, "reclaim")
      BY ZenonT(30), <2>4 DEF FetchRefused
    <3>2. Asking(t)
      BY ZenonT(30), <2>4 DEF FetchRefused, At, Asking
    <3>3. ASSUME Goto(t, "reclaim")
          PROVE  th'[t].pc = "reclaim" /\ th'[t].ctx = th[t].ctx /\ th'[t].stamp = th[t].stamp
      BY ZenonT(30), <1>1, <3>3 DEF ThreadState, Goto
    <3> QED BY ZenonT(30), <1>1, <2>1, <3>1, <3>2, <3>3, StopsAsking
  <2>5. CASE FetchSubmit(t) \/ FetchSubmitFails(t) \/ PumpFetched(t) \/ (Pump(t) /\ ~PumpNext(t))
    <3>1. \/ UNCHANGED th
          \/ \E q \in {"undo", "idle", "pump"} : Goto(t, q) \/ Leave(t, q)
          \/ \E e : Return(t, e)
      BY ZenonT(30), <2>5 DEF FetchSubmit, FetchSubmitFails, PumpFetched, Pump
    <3> QED BY ZenonT(30), <1>1, <2>1, <3>1, StopsAsking
  <2>6. CASE PumpNext(t)
    <3>1. bf.next \in 1 .. Len(Order) + 1 /\ bf.next <= Len(Order)
      BY ZenonT(30), <2>6 DEF PumpNext, PlannerInv, PlannerTypes, BackfillState
    <3>2. BackfillStamp(bf.next) # 0 /\ BackfillStamp(bf.next) < DemandBase
      BY ZenonT(30), <3>1, GuessStamps
    <3>3. \/ th' = th
          \/ th' = [th EXCEPT ![t] = [@ EXCEPT !.pc = "begin", !.ctx = "pump",
                                               !.key = Order[bf.next], !.again = FALSE,
                                               !.stamp = BackfillStamp(bf.next)]]
      BY ZenonT(30), <2>6 DEF PumpNext
    <3>4. ASSUME NEW n, NEW k,
                 th' = [th EXCEPT ![t] = [@ EXCEPT !.pc = "begin", !.ctx = "pump", !.key = k,
                                                   !.again = FALSE, !.stamp = n]]
          PROVE  th'[t].pc = "begin" /\ th'[t].ctx = "pump" /\ th'[t].stamp = n
      BY ZenonT(30), <1>1, <3>4 DEF ThreadState
    <3> QED BY ZenonT(30), <2>1, <3>2, <3>3, <3>4
  <2> QED BY ZenonT(30), <2>2, <2>3, <2>4, <2>5, <2>6
<1>7. \A f \in FetchId : Unsettled(f)' => Unsettled(f)
  <2>1. th'["dispatch"] = th["dispatch"] \/ (th["dispatch"].pc # "callback" /\ th'["dispatch"].pc # "callback")
    BY ZenonT(30), <1>3, <1>6 DEF Thread
  <2> QED BY ZenonT(30), <1>5, <2>1 DEF Unsettled, Settled, Live, At
<1>8. SlotsAged' /\ FillsAged'
  BY ZenonT(30), <1>2, <1>4, <1>5, <1>7, NothingNewAged DEF DemandInv
<1>9. ThreadsAged'
  BY ZenonT(30), <1>3, <1>6, AskersAged DEF DemandInv, ThreadsAged, Asking
<1> QED BY ZenonT(30), <1>2, <1>8, <1>9 DEF DemandInv, JoinsAged

\* begin_fill: the fill a layer asks for is stamped past every guess, the fill a
\* backfill asks for below all demand; the slot's own stamp is cleared.
LEMMA FetchBeginAged ==
    ASSUME PlannerInv, DemandInv, NEW t \in Thread, FetchBegin(t) PROVE DemandInv'
<1> DEFINE s == freeList[Len(freeList)]
           stamp == IF th[t].stamp # 0 THEN th[t].stamp ELSE clock'
<1>1. /\ th[t].pc = "begin" /\ BeginFill(th[t].key, "Cached", Runs) /\ joined' = joined
      /\ asked' = IF th[t].ctx = "plan" THEN asked \union {s} ELSE asked \ {s}
  BY ZenonT(30) DEF FetchBegin, At, planVars
<1>2. th \in [Thread -> ThreadState] /\ fetches \in [FetchId -> FetchState] /\ th[t] \in ThreadState
  BY DEF PlannerInv, PlannerTypes
<1>3. PICK f \in FetchId : /\ ~Live(f) /\ th' = [th EXCEPT ![t].pc = "submit", ![t].fid = f]
                           /\ fetches' = [fetches EXCEPT ![f] =
                                 [key |-> th[t].key, slot |-> s, stamp |-> stamp,
                                  group |-> IF th[t].ctx = "plan" THEN layer ELSE 0,
                                  ok |-> TRUE, flying |-> {}, unsent |-> Runs]]
  BY ZenonT(30) DEF FetchBegin
<1>4. s \in Slot /\ state[s] = "Free"
  <2>1. Len(freeList) \in Nat \ {0} /\ freeList # <<>> /\ freeList \in Seq(Slot)
    BY <1>1 DEF BeginFill, PlannerInv, StoreInv, TypeOK
  <2>2. Len(freeList) \in 1 .. Len(freeList)
    BY <2>1
  <2>3. s \in Slot
    BY <2>1, <2>2
  <2> QED BY ZenonT(30), <2>2, <2>3 DEF PlannerInv, StoreInv, Placement, FreeListExact
<1>5. IF th[t].ctx = "plan" THEN stamp > DemandBase ELSE stamp < DemandBase
  <2>1. th[t].ctx = "plan" => clock' = clock + 1 /\ stamp = clock'
    BY ZenonT(30), <1>1 DEF FetchBegin, DemandInv, ThreadsAged, Asking
  <2>2. th[t].ctx # "plan" => stamp = th[t].stamp /\ th[t].stamp < DemandBase
    BY ZenonT(30), <1>1 DEF DemandInv, ThreadsAged, Asking
  <2>3. clock \in DemandBase .. MaxStamp /\ DemandBase \in Nat /\ MaxStamp \in Nat
    BY PlannerAssumption, StoreAssumption DEF PlannerInv, PlannerTypes, Stamp
  <2> HIDE DEF stamp
  <2> QED BY <2>1, <2>2, <2>3
<1> HIDE DEF stamp, s
<1>6. lastUse'[s] = 0 /\ 0 < DemandBase /\ state'[s] = "Filling"
      /\ \A u \in Slot : u # s => lastUse'[u] = lastUse[u] /\ state'[u] = state[u]
  <2>1. 0 < DemandBase
    BY StoreAssumption, PlannerAssumption DEF Stamp
  <2>2. lastUse' = [lastUse EXCEPT ![s] = 0] /\ state' = [state EXCEPT ![s] = "Filling"]
    BY ZenonT(30), <1>1 DEF BeginFill, s
  <2> QED BY ZenonT(30), <1>4, <2>1, <2>2 DEF PlannerInv, StoreInv, TypeOK
<1>7. SlotsAged'
  BY ZenonT(30), <1>1, <1>6 DEF DemandInv, SlotsAged, Aged
<1>8. \A h \in FetchId : h # f => fetches'[h] = fetches[h]
  BY ZenonT(30), <1>2, <1>3
<1>9. fetches'[f].slot = s /\ fetches'[f].stamp = stamp
  BY ZenonT(30), <1>2, <1>3
<1>10. /\ \A u \in Thread : u # t => th'[u] = th[u]
       /\ th'[t].pc = "submit"
  BY ZenonT(30), <1>2, <1>3 DEF ThreadState
<1>11. \A h \in FetchId : h # f /\ Unsettled(h)' => Unsettled(h)
  <2>1. th'["dispatch"] = th["dispatch"] \/ (th["dispatch"].pc # "callback" /\ th'["dispatch"].pc # "callback")
    BY ZenonT(30), <1>1, <1>10 DEF Thread
  <2> QED BY ZenonT(30), <1>8, <2>1 DEF Unsettled, Settled, Live, At
<1>12. \A h \in FetchId : Unsettled(h) => fetches[h].slot \in Slot /\ fetches[h].slot # s
  BY ZenonT(30), <1>4, FillOf DEF PlannerInv, FillsOwned
<1>13. FillAged(fetches[f])'
  BY ZenonT(30), <1>1, <1>5, <1>6, <1>9 DEF FillAged
<1>14. ASSUME NEW h \in FetchId, h # f, Unsettled(h)' PROVE FillAged(fetches[h])'
  <2>1. Unsettled(h) /\ fetches'[h] = fetches[h] /\ fetches[h].slot \in Slot /\ fetches[h].slot # s
    BY ZenonT(30), <1>8, <1>11, <1>12, <1>14
  <2>2. lastUse'[fetches[h].slot] = lastUse[fetches[h].slot]
        /\ (fetches[h].slot \in asked' <=> fetches[h].slot \in asked)
    BY ZenonT(30), <1>1, <1>6, <2>1
  <2> QED BY ZenonT(30), <2>1, <2>2 DEF DemandInv, FillsAged, FillAged
<1>15. FillsAged'
  BY ZenonT(30), <1>13, <1>14 DEF FillsAged
<1>16. ThreadsAged'
  BY ZenonT(30), <1>10, AskersAged DEF DemandInv, Asking
<1> QED BY ZenonT(30), <1>1, <1>7, <1>15, <1>16 DEF DemandInv, JoinsAged

\* finish_run publishes a slot with the later of the two stamps, or nothing.
LEMMA ReportAged ==
    ASSUME PlannerInv, SlotsAged, FillsAged, NEW f \in FetchId, Unsettled(f), NEW ok \in BOOLEAN,
           FinishRun(fetches[f].slot, ok, fetches[f].stamp), asked' = asked, Others(f),
           Unsettled(f)' => /\ runsDone[fetches[f].slot] + 1 # runsTotal[fetches[f].slot]
                            /\ fetches'[f].slot = fetches[f].slot /\ fetches'[f].stamp = fetches[f].stamp
    PROVE  SlotsAged' /\ FillsAged'
<1> DEFINE s == fetches[f].slot
           n == fetches[f].stamp
<1>1. s \in Slot /\ n \in Stamp /\ lastUse \in [Slot -> Stamp] /\ state[s] = "Filling"
      /\ \A h \in FetchId : Unsettled(h) => fetches[h].slot \in Slot
  <2>1. \A h \in FetchId : fetches[h] \in FetchState /\ (Unsettled(h) => fetches[h].slot \in Slot)
    BY ZenonT(30), FillOf DEF PlannerInv, PlannerTypes
  <2> QED BY ZenonT(30), <2>1 DEF FetchState, FinishRun, PlannerInv, StoreInv, TypeOK
<1>2. \A h \in FetchId : h # f /\ Unsettled(h) => fetches[h].slot # s
  BY ZenonT(30) DEF PlannerInv, FillsOwned
<1>3. \/ UNCHANGED <<lastUse, state>>
      \/ runsDone[s] + 1 = runsTotal[s] /\ SettleResident(s, n)
      \/ runsDone[s] + 1 = runsTotal[s] /\ SettleFailed(s)
  BY ZenonT(30) DEF FinishRun
<1>4. /\ \A u \in Slot : u # s => lastUse'[u] = lastUse[u] /\ state'[u] = state[u]
      /\ runsDone[s] + 1 # runsTotal[s] => UNCHANGED <<lastUse, state>>
      /\ state'[s] = "Resident" => lastUse'[s] = Maximum(lastUse[s], n)
  <2> HIDE DEF s, n
  <2>1. CASE SettleResident(s, n)
    BY ZenonT(30), <1>1, <1>3, <2>1 DEF SettleResident, PlannerInv, StoreInv, TypeOK
  <2>2. CASE SettleFailed(s)
    BY ZenonT(30), <1>1, <1>3, <2>2 DEF SettleFailed, ReleaseLocked, PlannerInv, StoreInv, TypeOK
  <2>3. CASE UNCHANGED <<lastUse, state>>
    BY ZenonT(30), <1>1, <2>3
  <2> QED BY ZenonT(30), <1>3, <2>1, <2>2, <2>3
<1>5. IF s \in asked THEN Maximum(lastUse[s], n) > DemandBase ELSE Maximum(lastUse[s], n) < DemandBase
  <2>1. IF s \in asked THEN n > DemandBase \/ lastUse[s] > DemandBase
        ELSE n < DemandBase /\ lastUse[s] < DemandBase
    BY ZenonT(30) DEF FillsAged, FillAged
  <2>2. lastUse[s] \in Nat /\ n \in Nat /\ DemandBase \in Nat
    BY <1>1, StampsAreNaturals, PlannerAssumption
  <2> HIDE DEF s, n
  <2> QED BY <2>1, <2>2 DEF Maximum
<1> HIDE DEF s, n
<1>6. SlotsAged'
  BY ZenonT(30), <1>4, <1>5 DEF SlotsAged, Aged
<1>7. ASSUME NEW h \in FetchId, Unsettled(h)' PROVE FillAged(fetches[h])'
  <2>1. CASE h = f
    BY ZenonT(30), <1>4, <1>7, <2>1 DEF FillsAged, FillAged, s, n
  <2>2. CASE h # f
    <3>1. Unsettled(h) /\ fetches'[h] = fetches[h] /\ fetches[h].slot \in Slot /\ fetches[h].slot # s
      BY ZenonT(30), <1>1, <1>2, <1>7, <2>2 DEF Others
    <3> QED BY ZenonT(30), <1>4, <3>1 DEF FillsAged, FillAged
  <2> QED BY ZenonT(30), <2>1, <2>2
<1> QED BY ZenonT(30), <1>6, <1>7 DEF FillsAged

LEMMA DeliverAged ==
    ASSUME PlannerInv, DemandInv, NEW f \in FetchId, NEW run \in 1 .. Runs, NEW ok \in BOOLEAN,
           Deliver(f, run, ok)
    PROVE  DemandInv'
<1> DEFINE last == runsDone[fetches[f].slot] + 1 = runsTotal[fetches[f].slot]
<1>1. /\ th["dispatch"].pc = "idle" /\ run \in fetches[f].flying
      /\ FinishRun(fetches[f].slot, ok, fetches[f].stamp) /\ UNCHANGED <<asked, joined>>
      /\ fetches' = [fetches EXCEPT ![f].flying = @ \ {run}, ![f].ok = @ /\ ok]
  BY ZenonT(30) DEF Deliver, At, planVars, histVars
<1>2. th \in [Thread -> ThreadState] /\ fetches \in [FetchId -> FetchState] /\ "dispatch" \in Thread
  BY DEF PlannerInv, PlannerTypes, Thread
<1>3. /\ \A h \in FetchId : h # f => fetches'[h] = fetches[h]
      /\ fetches'[f].slot = fetches[f].slot /\ fetches'[f].stamp = fetches[f].stamp
  BY ZenonT(30), <1>1, <1>2 DEF FetchState
<1>4. \A h \in FetchId : (Live(h)' <=> Live(h)) /\ (Unsettled(h) <=> Live(h))
  BY ZenonT(30), <1>1, <1>3 DEF Live, Unsettled, Settled, At
<1>5. Unsettled(f)
  BY ZenonT(30), <1>1, <1>4 DEF PlannerInv, FetchesShaped
<1>6. IF last THEN th'["dispatch"].pc = "callback" /\ th'["dispatch"].fid = f ELSE th' = th
  <2>1. CASE last
    <3>1. th' = [th EXCEPT !["dispatch"].pc = "callback", !["dispatch"].fid = f]
      BY ZenonT(30), <2>1 DEF Deliver
    <3> QED BY ZenonT(30), <1>2, <2>1, <3>1 DEF ThreadState
  <2>2. CASE ~last
    BY ZenonT(30), <2>2 DEF Deliver
  <2> QED BY ZenonT(30), <2>1, <2>2
<1>7. \A u \in Thread : u # "dispatch" => th'[u] = th[u]
  BY ZenonT(30), <1>2 DEF Deliver
<1> HIDE DEF last
<1>8. Others(f) /\ (Unsettled(f)' => ~last)
  BY ZenonT(30), <1>1, <1>3, <1>4, <1>6 DEF Others, Unsettled, Settled, At
<1>9. SlotsAged' /\ FillsAged'
  BY ZenonT(30), <1>1, <1>3, <1>5, <1>8, ReportAged DEF DemandInv, last
<1>10. ThreadsAged'
  BY ZenonT(30), <1>2, <1>6, <1>7, AskersAged DEF DemandInv, Asking, ThreadsAged
<1> QED BY ZenonT(30), <1>1, <1>9, <1>10 DEF DemandInv, JoinsAged

LEMMA FetchUndoAged ==
    ASSUME PlannerInv, DemandInv, NEW t \in Thread, FetchUndo(t) PROVE DemandInv'
<1>1. th[t].pc = "undo" /\ UNCHANGED <<asked, joined>>
  BY ZenonT(30) DEF FetchUndo, At, planVars, histVars
<1>2. th \in [Thread -> ThreadState] /\ fetches \in [FetchId -> FetchState]
  BY DEF PlannerInv, PlannerTypes
<1> PICK f \in FetchId : f = th[t].fid
  BY ZenonT(30), <1>1 DEF FetchesHeld, Sending, PlannerInv
<1>3. Unsettled(f) /\ Live(f)
  BY ZenonT(30), <1>1 DEF FetchesHeld, Sending, Unsettled, PlannerInv
<1> DEFINE e == fetches[f]
           last == e.unsent = 1 /\ e.flying = {}
<1>4. /\ FinishRun(e.slot, FALSE, e.stamp)
      /\ fetches' = [fetches EXCEPT ![f] = IF last THEN NoFetch ELSE [e EXCEPT !.unsent = @ - 1]]
      /\ \/ UNCHANGED th
         \/ Return(t, "Io")
  BY ZenonT(30) DEF FetchUndo
<1>5. ~last => runsDone[e.slot] + 1 # runsTotal[e.slot]
  <2> DEFINE k == Cardinality(e.flying)
             m == e.unsent
             n == runsDone[e.slot]
             r == runsTotal[e.slot]
  <2>1. n \in Nat /\ k \in Nat /\ m \in 0 .. Runs /\ Runs \in Nat /\ r \in Nat /\ n + k + m = r
        /\ (k = 0 <=> e.flying = {}) /\ m # 0
    <3>1. m # 0
      BY ZenonT(30), <1>1 DEF PlannerInv, FetchesHeld, Sending
    <3> QED BY ZenonT(30), <1>3, <3>1, FillOf
  <2> HIDE DEF k, m, n, r, e
  <2>2. ~(m = 1 /\ k = 0) => n + 1 # r
    BY <2>1
  <2> QED BY ZenonT(30), <2>1, <2>2 DEF k, m, n, r
<1>6. \A h \in FetchId : h # f => fetches'[h] = fetches[h]
  BY ZenonT(30), <1>2, <1>4
<1>7. IF last THEN ~Live(f)' ELSE fetches'[f].slot = e.slot /\ fetches'[f].stamp = e.stamp
  <2>1. CASE last
    BY ZenonT(30), <1>2, <1>4, <2>1 DEF Live, NoFetch
  <2>2. CASE ~last
    BY ZenonT(30), <1>2, <1>4, <2>2 DEF FetchState
  <2> QED BY <2>1, <2>2
<1>8. /\ \A u \in Thread : u # t => th'[u] = th[u]
      /\ ~Asking(t)' /\ th'[t].pc # "callback"
  <2>1. CASE UNCHANGED th
    BY ZenonT(30), <1>1, <2>1 DEF Asking
  <2>2. CASE Return(t, "Io")
    <3>1. \A u \in Thread : u # t => th'[u] = th[u]
      BY ZenonT(30), <1>2, <2>2 DEF Return
    <3> QED BY ZenonT(30), <1>2, <2>2, <3>1, StopsAsking
  <2> QED BY <1>4, <2>1, <2>2
<1>9. Others(f)
  <2>1. \A h \in FetchId : Settled(h)' <=> Settled(h)
    BY ZenonT(30), <1>1, <1>8 DEF Settled, At, Thread
  <2> QED BY ZenonT(30), <1>6, <2>1 DEF Others, Unsettled, Live
<1>10. FinishRun(fetches[f].slot, FALSE, fetches[f].stamp) /\ FALSE \in BOOLEAN
  BY ZenonT(30), <1>4
<1>11. Unsettled(f)' => /\ runsDone[fetches[f].slot] + 1 # runsTotal[fetches[f].slot]
                        /\ fetches'[f].slot = fetches[f].slot /\ fetches'[f].stamp = fetches[f].stamp
  BY ZenonT(30), <1>5, <1>7 DEF Unsettled
<1>12. SlotsAged' /\ FillsAged'
  BY ZenonT(30), <1>1, <1>3, <1>9, <1>10, <1>11, ReportAged DEF DemandInv
<1>13. ThreadsAged'
  BY ZenonT(30), <1>8, AskersAged DEF DemandInv
<1> QED BY ZenonT(30), <1>1, <1>12, <1>13 DEF DemandInv, JoinsAged

\* The callback comes after its fill has settled.
LEMMA CallbackAged ==
    ASSUME PlannerInv, DemandInv, Callback PROVE DemandInv'
<1>1. /\ th \in [Thread -> ThreadState] /\ fetches \in [FetchId -> FetchState] /\ "dispatch" \in Thread
      /\ th["dispatch"].fid \in FetchId
  BY ZenonT(30) DEF PlannerInv, PlannerTypes, Thread, FetchesHeld, Callback
<1>2. /\ UNCHANGED <<vars, joined, asked>> /\ fetches' = [fetches EXCEPT ![th["dispatch"].fid] = NoFetch]
      /\ \E q \in {"undo", "idle", "pump"} : Leave("dispatch", q)
  BY ZenonT(30) DEF Callback, planVars, histVars
<1>3. ~Asking("dispatch")' /\ th'["dispatch"].pc # "callback"
  BY ZenonT(30), <1>1, <1>2, StopsAsking
<1>4. \A u \in Thread : u # "dispatch" => th'[u] = th[u]
  BY ZenonT(30), <1>1, <1>2 DEF Leave
<1>5. \A f \in FetchId : IF f = th["dispatch"].fid THEN ~Live(f)' ELSE fetches'[f] = fetches[f]
  BY ZenonT(30), <1>1, <1>2 DEF Live, NoFetch
<1>6. \A f \in FetchId : Unsettled(f)' => Unsettled(f) /\ fetches'[f] = fetches[f]
  BY ZenonT(30), <1>5 DEF Unsettled, Settled, Live
<1>7. SlotsAged' /\ FillsAged'
  BY ZenonT(30), <1>2, <1>6, NothingNewAged DEF DemandInv, vars, slotVars
<1>8. ThreadsAged'
  BY ZenonT(30), <1>1, <1>3, <1>4, AskersAged DEF DemandInv
<1> QED BY ZenonT(30), <1>2, <1>7, <1>8 DEF DemandInv, JoinsAged

\* Of two slots as old as their demand says, an asked-for one is never the older.
LEMMA DemandIsYounger ==
    ASSUME PlannerInv, DemandInv, NEW v \in Slot, NEW u \in Slot, Demanded(v), state[u] = "Resident",
           lastUse[v] < lastUse[u] \/ lastUse[v] = lastUse[u]
    PROVE  Demanded(u)
<1>1. lastUse[v] \in Nat /\ lastUse[u] \in Nat /\ DemandBase \in Nat
  BY StampsAreNaturals, PlannerAssumption DEF PlannerInv, StoreInv, TypeOK
<1>2. lastUse[v] > DemandBase /\ (u \notin asked => lastUse[u] < DemandBase)
  BY ZenonT(30) DEF DemandInv, SlotsAged, Aged, Demanded
<1>3. u \in asked
  BY <1>1, <1>2
<1> QED BY ZenonT(30), <1>3 DEF Demanded

LEMMA DemandInitInv == PlannerInit => DemandInv
<1> SUFFICES ASSUME PlannerInit PROVE DemandInv
  OBVIOUS
<1>1. \A s \in Slot : state[s] = "Free"
  BY DEF PlannerInit, Init
<1>2. \A f \in FetchId : ~Live(f)
  BY ZenonT(30), NoFetchShape DEF PlannerInit, Live
<1>3. \A t \in Thread : th[t].pc = "idle"
  BY DEF PlannerInit, Fresh
<1>4. Len(joined) = 0
  BY DEF PlannerInit
<1>5. JoinsAged
  BY <1>4 DEF JoinsAged
<1> QED BY ZenonT(30), <1>1, <1>2, <1>3, <1>5 DEF DemandInv, SlotsAged, FillsAged, Unsettled, ThreadsAged, Asking

LEMMA DemandNextKeeps == ASSUME ~Keep PROVE PlannerInv /\ DemandInv /\ [PlannerNext]_pvars => DemandInv'
<1> SUFFICES ASSUME PlannerInv, DemandInv, [PlannerNext]_pvars PROVE DemandInv'
  OBVIOUS
<1>1. ASSUME NEW t \in Thread, FetchStep(t) PROVE DemandInv'
  BY ZenonT(30), <1>1, FetchBeginAged, FetchMovesAged, FetchUndoAged DEF FetchStep
<1>2. CASE SubmitStep
  BY ZenonT(30), <1>1, <1>2, SubmitMovesAged, JoinsKeepAged, TouchesAged DEF SubmitStep, Thread
<1>3. CASE DispatchStep
  <2>1. ASSUME NEW f \in FetchId, NEW run \in 1 .. Runs, NEW ok \in ReadOutcome, Deliver(f, run, ok)
        PROVE  DemandInv'
    <3>1. ok \in BOOLEAN
      BY ZenonT(30) DEF ReadOutcome
    <3> QED BY ZenonT(30), <2>1, <3>1, DeliverAged
  <2> QED BY ZenonT(30), <1>1, <1>3, <2>1, CallbackAged DEF DispatchStep, Thread
<1>4. CASE \/ \E r \in Routes : StartLayer(r)
           \/ \E m \in Modes : SetResidentOnly(m)
           \/ RequestOffPlain \/ WaitTimeout \/ StopBackfill
           \/ \E n \in Inflights : StartBackfill(n)
  BY ZenonT(30), <1>4, SubmitMovesAged, JoinsKeepAged
<1>5. CASE UNCHANGED pvars
  BY ZenonT(30), <1>5 DEF pvars, vars, slotVars, planVars, histVars, DemandInv, SlotsAged, Aged, FillsAged, FillAged,
     Unsettled, Settled, Live, At, ThreadsAged, Asking, JoinsAged
<1> QED BY ZenonT(30), <1>2, <1>3, <1>4, <1>5 DEF PlannerNext, Quiescent

\* The dispatcher's steps leave the submit thread where it is.
LEMMA DispatchElsewhere ==
    ASSUME PlannerInv, DispatchStep PROVE th'["submit"] = th["submit"]
<1>1. th \in [Thread -> ThreadState] /\ "submit" \in Thread /\ "dispatch" \in Thread
  BY DEF PlannerInv, PlannerTypes, Thread
<1>2. CASE FetchStep("dispatch")
  BY ZenonT(30), <1>1, <1>2 DEF FetchStep, FetchBegin, FetchRefused, FetchReclaim, FetchEvict, FetchSubmit,
     FetchSubmitFails, FetchUndo, Pump, PumpNext, PumpFetched, Goto, Leave, Return
<1>3. CASE (\E f \in FetchId, run \in 1 .. Runs, ok \in ReadOutcome : Deliver(f, run, ok)) \/ Callback
  BY ZenonT(30), <1>1, <1>3 DEF Deliver, Callback, Leave
<1> QED BY <1>2, <1>3 DEF DispatchStep

\* Only plan_layer's own eviction takes the submit thread from evict_lru to fetch.
LEMMA EvictLruStep ==
    ASSUME PlannerInv, [PlannerNext]_pvars, th["submit"].pc = "evict_lru", th'["submit"].pc = "fetch"
    PROVE  PlanEvict
<1>1. th' # th /\ th'["submit"] # th["submit"]
  OBVIOUS
<1>2. ~FetchStep("submit")
  BY ZenonT(30) DEF FetchStep, FetchBegin, FetchRefused, FetchReclaim, FetchEvict, FetchSubmit,
         FetchSubmitFails, FetchUndo, Pump, PumpFetched, At
<1>3. SubmitStep => PlanEvict
  BY ZenonT(30), <1>2 DEF SubmitStep, PlanLookup, PlanFull, PlanJoin, PlanMiss, PlanRoom, PlanFetch, PlanFetched,
              WaitGroup, WaitSettled, TouchJoined, MaskTouch, LayerDone, At
<1>4. ~(\E r \in Routes : StartLayer(r)) /\ ~(\E n \in Inflights : StartBackfill(n)) /\ ~StopBackfill
      /\ ~(\E m \in Modes : SetResidentOnly(m)) /\ ~RequestOffPlain /\ ~WaitTimeout
  BY ZenonT(30) DEF StartLayer, StartBackfill, StopBackfill, SetResidentOnly, RequestOffPlain, WaitTimeout, At
<1>5. ~UNCHANGED pvars
  BY <1>1 DEF pvars
<1> QED BY ZenonT(30), <1>1, <1>3, <1>4, <1>5, DispatchElsewhere DEF PlannerNext, Quiescent

\* Only reclaim takes a thread from choosing victims to evicting them.
LEMMA ReclaimStep ==
    ASSUME PlannerInv, [PlannerNext]_pvars, NEW t \in Thread, th[t].pc = "reclaim", th'[t].pc = "evict"
    PROVE  FetchReclaim(t)
<1>1. th \in [Thread -> ThreadState] /\ th' # th /\ th'[t] # th[t]
  BY DEF PlannerInv, PlannerTypes
<1>2. ASSUME NEW u \in Thread, FetchStep(u) PROVE FetchReclaim(t)
  <2>1. CASE u = t
    BY ZenonT(30), <1>2, <2>1 DEF FetchStep, FetchBegin, FetchRefused, FetchEvict, FetchSubmit,
         FetchSubmitFails, FetchUndo, Pump, PumpFetched, At
  <2>2. CASE u # t
    <3>1. th'[t] = th[t]
      BY ZenonT(30), <1>1, <1>2, <2>2 DEF FetchStep, FetchBegin, FetchRefused, FetchReclaim, FetchEvict, FetchSubmit,
         FetchSubmitFails, FetchUndo, Pump, PumpNext, PumpFetched, Goto, Leave, Return
    <3> QED BY <1>1, <3>1
  <2> QED BY <2>1, <2>2
<1>3. CASE t = "submit"
  <2>1. SubmitStep => FetchStep("submit")
    BY ZenonT(30), <1>3 DEF SubmitStep, PlanLookup, PlanFull, PlanJoin, PlanMiss, PlanRoom, PlanEvict, PlanFetch,
       PlanFetched, WaitGroup, WaitSettled, TouchJoined, MaskTouch, LayerDone, At
  <2>2. ~(\E r \in Routes : StartLayer(r)) /\ ~(\E n \in Inflights : StartBackfill(n)) /\ ~StopBackfill
        /\ ~(\E m \in Modes : SetResidentOnly(m)) /\ ~RequestOffPlain /\ ~WaitTimeout
    BY ZenonT(30), <1>3 DEF StartLayer, StartBackfill, StopBackfill, SetResidentOnly, RequestOffPlain, WaitTimeout, At
  <2>3. ~UNCHANGED pvars
    BY <1>1 DEF pvars
  <2> QED BY ZenonT(30), <1>1, <1>2, <1>3, <2>1, <2>2, <2>3, DispatchElsewhere DEF PlannerNext, Quiescent
<1>4. CASE t = "dispatch"
  <2>1. DispatchStep => FetchStep("dispatch")
    BY ZenonT(30), <1>4 DEF DispatchStep, Deliver, Callback, At
  <2>2. CASE \/ \E r \in Routes : StartLayer(r)
             \/ \E n \in Inflights : StartBackfill(n)
             \/ StopBackfill \/ RequestOffPlain \/ WaitTimeout
             \/ \E m \in Modes : SetResidentOnly(m)
             \/ SubmitStep /\ ~FetchStep("submit")
    <3>1. \/ UNCHANGED th
          \/ \E x : th' = [th EXCEPT !["submit"] = x]
          \/ \E q : th' = [th EXCEPT !["submit"].pc = q]
          \/ \E q, k : th' = [th EXCEPT !["submit"].pc = q, !["submit"].key = k]
      <4>1. CASE PlanFetch
        BY ZenonT(30), <4>1 DEF PlanFetch
      <4>2. CASE PlanLookup
        BY ZenonT(30), <4>2 DEF PlanLookup, Miss
      <4> QED BY ZenonT(30), <2>2, <4>1, <4>2 DEF StartLayer, StartBackfill, StopBackfill, SetResidentOnly,
         RequestOffPlain, WaitTimeout, SubmitStep, PlanFull, PlanJoin, PlanMiss, PlanRoom, PlanEvict,
         PlanFetched, WaitGroup, WaitSettled, TouchJoined, MaskTouch, LayerDone, Answer, Goto, Leave
    <3>2. th'["dispatch"] = th["dispatch"]
      BY ZenonT(30), <1>1, <1>4, <3>1
    <3> QED BY ZenonT(30), <1>1, <1>4, <3>2
  <2>3. ~UNCHANGED pvars
    BY <1>1 DEF pvars
  <2> QED BY ZenonT(30), <1>2, <2>1, <2>2, <2>3 DEF PlannerNext, Quiescent, Thread
<1> QED BY ZenonT(30), <1>3, <1>4 DEF Thread

\* With the default (not kept) backfill, whatever memory path evict_lru prefers:
\* neither plan_layer's eviction nor the reclaim of either thread picks an expert
\* some layer asked for, hit or joined while an expert it could pick instead is
\* one no layer has asked for since it was read.
THEOREM GuessesGoFirstTheorem ==
    ASSUME ~Keep PROVE PlannerSpec => GuessesGoFirst
<1>1. ASSUME PlannerInv, DemandInv, [PlannerNext]_pvars, At("submit", "evict_lru"), At("submit", "fetch")',
             NEW s \in Slot, Demanded(s), state'[s] = "Free", NEW u \in LruCandidates
      PROVE  Demanded(u)
  <2>1. PlanEvict
    BY ZenonT(30), <1>1, EvictLruStep DEF At
  <2>2. state[s] = "Resident" /\ state' # state
    BY ZenonT(30), <1>1 DEF Demanded
  <2>3. PICK v \in Slot : LruVictim(v) /\ EvictSlot(v)
    BY ZenonT(30), <2>1, <2>2 DEF PlanEvict, EvictLru, vars, slotVars
  <2>4. s = v
    BY ZenonT(30), <1>1, <2>2, <2>3 DEF EvictSlot, ReleaseLocked, PlannerInv, StoreInv, TypeOK
  <2>5. lastUse[v] < lastUse[u] \/ lastUse[v] = lastUse[u]
    BY ZenonT(30), <1>1, <2>3 DEF LruVictim
  <2>6. u \in Evictable
    <3>1. LruCandidates \subseteq Evictable
      BY StoreAssumption DEF LruCandidates
    <3> QED BY ZenonT(30), <1>1, <3>1
  <2>7. u \in Slot /\ state[u] = "Resident"
    BY ZenonT(30), <2>6 DEF Evictable
  <2> QED BY ZenonT(30), <1>1, <2>4, <2>5, <2>7, DemandIsYounger
<1>2. ASSUME PlannerInv, DemandInv, [PlannerNext]_pvars, NEW t \in Thread, At(t, "reclaim"), At(t, "evict")',
             Demanded(th'[t].victims[1]), NEW u \in Evictable
      PROVE  Demanded(u)
  <2>1. FetchReclaim(t) /\ th \in [Thread -> ThreadState]
    BY ZenonT(30), <1>2, ReclaimStep DEF At, PlannerInv, PlannerTypes
  <2>2. Evictable \in SUBSET Slot /\ \A w \in Evictable : state[w] = "Resident"
    BY ZenonT(30) DEF Evictable
  <2>3. th'[t].pc # "ret"
    BY ZenonT(30), <1>2 DEF At
  <2>4. PICK v : /\ th' = [th EXCEPT ![t].pc = "evict", ![t].victims = v]
                 /\ v = <<Oldest(Evictable)>> \/ \E w : v = <<Oldest(Evictable), w>>
    <3>1. ASSUME Return(t, "ResourceExhausted") PROVE FALSE
      BY ZenonT(30), <2>1, <2>3, <3>1 DEF Return, ThreadState
    <3> QED BY ZenonT(30), <2>1, <3>1 DEF FetchReclaim
  <2>5. th'[t].victims = v
    BY ZenonT(30), <2>1, <2>4 DEF ThreadState
  <2>6. th'[t].victims[1] = Oldest(Evictable)
    BY <2>4, <2>5
  <2>7. /\ Oldest(Evictable) \in Evictable
        /\ lastUse[Oldest(Evictable)] < lastUse[u] \/ lastUse[Oldest(Evictable)] = lastUse[u]
    <3>1. TypeOK /\ Evictable # {}
      BY <1>2 DEF PlannerInv, StoreInv
    <3> QED BY ZenonT(30), <1>2, <2>2, <3>1, OldestIn
  <2> QED BY ZenonT(30), <1>2, <2>2, <2>6, <2>7, DemandIsYounger
<1>3. PlannerInv /\ DemandInv /\ [PlannerNext]_pvars =>
         [/\ At("submit", "evict_lru") /\ At("submit", "fetch")' =>
                \A s \in Slot : Demanded(s) /\ state'[s] = "Free"
                   => \A u \in LruCandidates : Demanded(u)
          /\ \A t \in Thread :
                At(t, "reclaim") /\ At(t, "evict")' =>
                   (Demanded(th'[t].victims[1]) => \A u \in Evictable : Demanded(u))]_pvars
  BY ZenonT(30), <1>1, <1>2
<1>4. PlannerInit => DemandInv
  BY DemandInitInv
<1>5. PlannerInv /\ DemandInv /\ [PlannerNext]_pvars => DemandInv'
  BY DemandNextKeeps
<1> QED BY <1>3, <1>4, <1>5, PlannerInvariant, PTL DEF PlannerSpec, GuessesGoFirst

=============================================================================
