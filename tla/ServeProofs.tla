---------------------------- MODULE ServeProofs ----------------------------
(***************************************************************************)
(* The steps of the session pool, the exit and the restart keep the        *)
(* invariant of ServeInvariant, and what follows for the sessions: a       *)
(* request resumes what the session's last turn left, no copy is dropped   *)
(* before the disk has it, and a cancel stops a turn.                      *)
(***************************************************************************)
EXTENDS ServeInvariant

-----------------------------------------------------------------------------
(* The steps of the session pool *)

\* Names in the pool.
LEMMA PoolNames ==
    ASSUME PoolShaped
    PROVE  /\ pool.active \in Names /\ (\A n \in DOMAIN pool.parked : n \in Names)
           /\ live \in Context /\ ghost.latest \in [Names -> Context]
           /\ ghost.gone \in SUBSET Names /\ \A n \in DOMAIN pool.parked : pool.parked[n] \in Context
<1>1. PICK D \in SUBSET Names : pool.parked \in [D -> Context]
  BY DEF PoolShaped, PoolType
<1>2. \A n \in DOMAIN pool.parked : n \in Names /\ pool.parked[n] \in Context
  BY <1>1
<1> QED BY <1>2 DEF PoolShaped, PoolType

\* Sessions the properties give up on.
LEMMA GoneFacts ==
    ASSUME PoolShaped, NEW n \in Names, PoolType(pool'), live' \in Context,
           ghost' = ghost \/ ghost' = [ghost EXCEPT !.gone = @ \cup {n}]
    PROVE  /\ PoolShaped' /\ ghost'.latest = ghost.latest /\ ghost'.failed = ghost.failed
           /\ \A m : Kept(m)' => Kept(m)
           /\ ghost.gone \subseteq ghost'.gone
           /\ ghost' # ghost => n \in ghost'.gone
<1> DEFINE T == [Names -> Context]
           G == [latest : T, gone : SUBSET Names, failed : SUBSET Names,
                 turns : Nat, lines : Nat, starts : Nat]
<1>1. ghost \in G
  BY ZenonT(30) DEF PoolShaped
<1> HIDE DEF T
<1>2. /\ ghost' \in G /\ ghost'.latest = ghost.latest /\ ghost'.failed = ghost.failed
      /\ ghost'.gone = ghost.gone \/ ghost'.gone = ghost.gone \cup {n}
      /\ ghost' # ghost => ghost'.gone = ghost.gone \cup {n}
  <2>1. CASE ghost' = ghost
    BY <1>1, <2>1
  <2>2. CASE ghost' = [ghost EXCEPT !.gone = @ \cup {n}]
    BY <1>1, <2>2
  <2> QED BY <2>1, <2>2
<1>3. PoolShaped'
  BY <1>2, ZenonT(30) DEF PoolShaped, T
<1>4. ghost.gone \subseteq ghost'.gone /\ (ghost' # ghost => n \in ghost'.gone)
  BY <1>2
<1>5. \A m : Kept(m)' => Kept(m)
  BY <1>2, <1>4 DEF Kept
<1> QED BY <1>2, <1>3, <1>4, <1>5

\* A fresh process loads the default session.
LEMMA StartKeeps ==
    ASSUME ServeInv, Start
    PROVE  ServeInv'
<1>1. /\ MainTypes /\ PoolShaped /\ DiskShaped /\ MemoryOwners /\ DiskOwners /\ Placed
      /\ OnDisk /\ InMemory /\ Saves /\ CancelSound
  BY DEF ServeInv, Owners
<1>a. PICK a \in Names : a = pool.active
  BY <1>1, PoolNames
<1>c. PICK c : c = IF conf.disk THEN Load(a) ELSE NoContext
  OBVIOUS
<1>2. /\ main.at = "start" /\ Goto("idle")
      /\ UNCHANGED <<writer, writeFaults, conf, inbox, pool>>
      /\ \/ live' = c /\ disk' = disk /\ ghost' = ghost
         \/ /\ c # NoContext /\ live' = NoContext /\ DropFile(a)
            /\ ghost' = [ghost EXCEPT !.gone = @ \cup {a}]
  BY <1>a, <1>c DEF Start
<1>3. /\ a \in Names /\ a \notin DOMAIN pool.parked /\ \A n \in DOMAIN pool.parked : n \in Names
  BY <1>1, <1>2, <1>a, PoolNames DEF Placed, Leaving
<1>4. MainTypes' /\ CancelSound' /\ main'.at = "idle"
  BY <1>1, <1>2, GotoFacts DEF Places, Starting
<1>5. c \in Context /\ Belongs(c, a) /\ NoContext \in Context /\ Belongs(NoContext, a)
  BY <1>1, <1>3, <1>c, LoadFacts DEF Context, Belongs
<1>6. live' \in Context /\ Belongs(live', a)
  BY <1>2, <1>5
<1>7. PoolType(pool')
  BY <1>1, <1>2, ZenonT(30) DEF PoolShaped
<1>8. /\ PoolShaped' /\ ghost'.latest = ghost.latest /\ ghost'.failed = ghost.failed
      /\ \A m : Kept(m)' => Kept(m)
      /\ ghost' # ghost => a \in ghost'.gone
  BY <1>1, <1>2, <1>3, <1>6, <1>7, GoneFacts
<1>9. Unawaited
  BY <1>1, <1>2, UnawaitedFacts
<1>10. /\ DiskShaped' /\ DiskOwners' /\ Unawaited' /\ (Drained' <=> Drained)
       /\ \A m \in Names : Kept(m)' => (Tracked(m) => Tracked(m)') /\ (Landed(m) => Landed(m)')
       /\ Kept(a)' => live' = c
       /\ ~conf.disk => disk' = disk
  <2>1. CASE live' = c /\ disk' = disk /\ ghost' = ghost
    BY <1>1, <1>2, <1>8, <1>9, <2>1, QuietFrame
  <2>2. CASE /\ c # NoContext /\ live' = NoContext /\ DropFile(a)
             /\ ghost' = [ghost EXCEPT !.gone = @ \cup {a}]
    <3>1. ~Kept(a)'
      <4>1. a \in ghost'.gone
        <5>1. ghost \in [latest : [Names -> Context], gone : SUBSET Names, failed : SUBSET Names,
                         turns : Nat, lines : Nat, starts : Nat]
          BY <1>1 DEF PoolShaped
        <5> QED BY <2>2, <5>1
      <4> QED BY <1>2, <4>1 DEF Kept
    <3>2. /\ DiskShaped' /\ DiskOwners' /\ (Unawaited => Unawaited') /\ (Drained' <=> Drained)
          /\ \A m \in Names \ {a} : ghost'.latest[m] = ghost.latest[m] =>
                (Tracked(m) => Tracked(m)') /\ (Landed(m) => Landed(m)')
      BY <1>1, <1>2, <1>3, <1>8, <2>2, DropFrame
    <3>3. conf.disk
      BY <1>c, <2>2
    <3> QED BY <1>8, <1>9, <3>1, <3>2, <3>3
  <2> QED BY <1>2, <2>1, <2>2
<1>11. Owners'
  BY <1>1, <1>2, <1>6, <1>10, <1>a, ZenonT(30) DEF Owners, MemoryOwners
<1>12. Placed'
  BY <1>a, <1>1, <1>2, <1>3, <1>4, <1>10 DEF Placed, Arrived, Leaving
<1>13. OnDisk'
  BY <1>1, <1>2, <1>4, <1>8, <1>10 DEF OnDisk
<1>14. InMemory'
  <2>1. \A n \in DOMAIN pool.parked : Kept(n)' => pool.parked[n] = ghost.latest[n]
    BY <1>1, <1>8, ZenonT(30) DEF InMemory
  <2>2. \A n \in Names \ DOMAIN pool.parked : Kept(n)' => conf.disk /\ Landed(n)'
    BY <1>1, <1>2, <1>8, <1>10, ZenonT(30) DEF InMemory
  <2>3. Kept(a)' => live' = ghost.latest[a]
    <3>1. Kept(a)' => conf.disk /\ Landed(a)
      BY <1>1, <1>2, <1>3, <1>8, ZenonT(30) DEF InMemory
    <3>2. Kept(a)' => live' = Load(a)
      BY <1>10, <1>c, <3>1
    <3> QED BY <3>1, <3>2 DEF Landed
  <2> QED BY <1>2, <1>4, <1>8, <1>a, <2>1, <2>2, <2>3 DEF InMemory
<1>15. Saves'
  BY <1>4, <1>10, UnawaitedSaves
<1> QED BY <1>4, <1>8, <1>10, <1>11, <1>12, <1>13, <1>14, <1>15, ZenonT(30) DEF ServeInv

\* The switch away from the active session.
LEMMA SwitchAwayKeeps ==
    ASSUME ServeInv, SwitchAway
    PROVE  ServeInv'
<1>1. /\ MainTypes /\ PoolShaped /\ DiskShaped /\ MemoryOwners /\ DiskOwners /\ Placed
      /\ OnDisk /\ InMemory /\ Saves /\ CancelSound
  BY DEF ServeInv, Owners
<1>a. PICK a \in Names : a = pool.active
  BY <1>1, PoolNames
<1>2. main.at = "switch" /\ UNCHANGED <<disk, writeFaults, conf, inbox, live, ghost>>
  BY DEF SwitchAway
<1>3. /\ a \in Names /\ a \notin DOMAIN pool.parked /\ (\A n \in DOMAIN pool.parked : n \in Names)
      /\ live \in Context /\ Belongs(live, a) /\ main.then \in {"reset", "prefill"}
      /\ Kept(a) => live = ghost.latest[a]
  BY <1>1, <1>2, <1>a, PoolNames DEF Placed, Leaving, MemoryOwners, InMemory, Generating
<1>4. Unawaited
  BY <1>1, <1>2, UnawaitedFacts
<1>5. CASE /\ UNCHANGED <<writer, pool>>
           /\ \/ main.s = a /\ Goto(main.then)
              \/ main.s # a /\ Goto("find") /\ live = NoContext
  <2>1. PICK p \in {"reset", "prefill", "find"} :
           /\ Goto(p) /\ (p = "find" => main.s # a /\ live = NoContext) /\ (p # "find" => main.s = a)
    BY <1>3, <1>5
  <2>2. /\ MainTypes' /\ CancelSound' /\ main'.at = p /\ main'.s = main.s /\ main'.then = main.then
    BY <1>1, <1>2, <2>1, GotoFacts DEF Places, Starting
  <2>3. (Unawaited => Unawaited') /\ (Drained' <=> Drained)
    BY <1>1, <1>2, <1>5, QuietFrame
  <2>4. Saves'
    BY <1>4, <2>2, <2>3, UnawaitedSaves
  <2>5. Placed'
    BY <1>a, <1>1, <1>2, <1>3, <1>5, <2>1, <2>2, <2>3 DEF Placed, Arrived, Leaving
  <2>6. PoolShaped'
    BY <1>1, <1>2, <1>5, ZenonT(30) DEF PoolShaped
  <2>7. p = "find" => ~Kept(a)
    BY <1>3, <2>1 DEF Kept
  <2>8. ~Generating
    BY <1>2 DEF Generating
  <2> QED BY ZenonT(30), <1>a, <1>2, <1>5, <2>2, <2>4, <2>5, <2>6, <2>7, <2>8, MovesOnly
<1>6. CASE /\ main.s # a /\ Goto("find") /\ pool' = Park(live)
           /\ IF conf.disk THEN Queue(a, live, FALSE) ELSE UNCHANGED writer
  <2>1. /\ PoolType(pool') /\ pool'.active = a
        /\ DOMAIN pool'.parked = DOMAIN pool.parked \cup {a} /\ pool'.parked[a] = live
        /\ \A m \in DOMAIN pool.parked : m # a => pool'.parked[m] = pool.parked[m]
    BY <1>a, <1>1, <1>6, ParkFacts
  <2>2. MainTypes' /\ CancelSound' /\ main'.at = "find" /\ main'.s = main.s /\ main'.then = main.then
    BY <1>1, <1>2, <1>6, GotoFacts DEF Places, Starting
  <2>3. PoolShaped' /\ \A n : (Kept(n)' <=> Kept(n))
    BY <1>1, <1>2, <2>1, ZenonT(30) DEF PoolShaped, Kept
  <2>4. /\ DiskShaped' /\ DiskOwners' /\ Unawaited'
        /\ conf.disk /\ live = ghost.latest[a] => Tracked(a)'
        /\ \A m \in Names \ {a} : (Tracked(m) => Tracked(m)') /\ (Landed(m) => Landed(m)')
        /\ ~conf.disk => writer' = writer
    <3>1. CASE conf.disk
      <4>1. Queue(a, live, FALSE)
        BY ZenonT(30), <1>6, <3>1
      <4>2. ghost'.failed = ghost.failed /\ ghost'.latest = ghost.latest /\ FALSE \in BOOLEAN
        BY <1>2
      <4>3. /\ DiskShaped' /\ DiskOwners' /\ Unawaited'
            /\ live = ghost'.latest[a] => Tracked(a)'
            /\ \A m \in Names \ {a} : ghost'.latest[m] = ghost.latest[m] =>
                  (Tracked(m) => Tracked(m)') /\ (Landed(m) => Landed(m)')
        BY <1>1, <1>2, <1>3, <1>4, <4>1, <4>2, QueueFrame, ZenonT(30)
      <4> QED BY <3>1, <4>2, <4>3
    <3>2. CASE ~conf.disk
      BY <1>1, <1>2, <1>4, <1>6, <3>2, QuietFrame
    <3> QED BY <3>1, <3>2
  <2>5. Owners'
    <3>1. \A n \in DOMAIN pool'.parked : Belongs(pool'.parked[n], n)
      BY <1>1, <1>3, <2>1 DEF MemoryOwners
    <3> QED BY <1>2, <1>3, <2>1, <2>4, <3>1, ZenonT(30) DEF Owners, MemoryOwners
  <2>6. Placed'
    <3>1. ~conf.disk => (Drained' <=> Drained)
      BY <2>4 DEF Drained, Busy
    <3> QED BY ZenonT(30), <1>a, <1>1, <1>2, <1>3, <1>6, <2>1, <2>2, <3>1 DEF Placed, Arrived, Leaving
  <2>7. OnDisk'
    <3> SUFFICES ASSUME conf.disk, NEW n \in Names, Kept(n) PROVE Tracked(n)'
      BY <1>2, <2>3, ZenonT(30) DEF OnDisk
    <3>1. Tracked(n)
      BY <1>1, <1>2 DEF OnDisk
    <3>2. n = a => live = ghost.latest[a]
      BY <1>3
    <3> QED BY <2>4, <3>1, <3>2
  <2>8. InMemory'
    <3>1. \A n \in DOMAIN pool'.parked : Kept(n) => pool'.parked[n] = ghost.latest[n]
      BY <1>1, <1>3, <2>1 DEF InMemory
    <3>2. \A n \in Names \ DOMAIN pool'.parked : n # a /\ (Kept(n) => conf.disk /\ Landed(n)')
      <4> TAKE n \in Names \ DOMAIN pool'.parked
      <4>1. n # a /\ n \notin DOMAIN pool.parked
        BY <2>1
      <4>2. Kept(n) => conf.disk /\ Landed(n)
        BY <1>a, <1>1, <4>1, ZenonT(30) DEF InMemory
      <4> QED BY <2>4, <4>1, <4>2
    <3>3. a \in DOMAIN pool'.parked
      BY <2>1
    <3>4. Kept(a) => live = ghost.latest[a]
      BY <1>3
    <3> QED BY <1>2, <2>1, <2>2, <2>3, <3>1, <3>2, <3>3, <3>4, ZenonT(30) DEF InMemory
  <2>9. Saves'
    BY <2>2, <2>4, UnawaitedSaves
  <2> QED BY <2>2, <2>3, <2>4, <2>5, <2>6, <2>7, <2>8, <2>9, ZenonT(30) DEF ServeInv
<1>7. CASE main.s = a
  BY <1>a, <1>5, <1>7 DEF SwitchAway
<1>8. CASE main.s # a /\ live = NoContext
  BY <1>a, <1>5, <1>8 DEF SwitchAway
<1>9. CASE main.s # a /\ live # NoContext
  BY ZenonT(30), <1>a, <1>6, <1>9 DEF SwitchAway
<1> QED BY <1>7, <1>8, <1>9

\* The session found: parked, on disk, or new.
LEMMA FindKeeps ==
    ASSUME ServeInv, Find
    PROVE  ServeInv'
<1>1. /\ MainTypes /\ PoolShaped /\ DiskShaped /\ MemoryOwners /\ DiskOwners /\ Placed
      /\ OnDisk /\ InMemory /\ Saves /\ CancelSound
  BY DEF ServeInv, Owners
<1>a. PICK a \in Names : a = pool.active
  BY <1>1, PoolNames
<1>s. PICK s \in Names : s = main.s
  BY ZenonT(30), <1>1 DEF MainTypes
<1>2. main.at = "find" /\ UNCHANGED <<disk, writeFaults, conf, inbox>>
  BY DEF Find
<1>3. /\ (\A n \in DOMAIN pool.parked : n \in Names /\ pool.parked[n] \in Context /\ Belongs(pool.parked[n], n))
      /\ s # a /\ main.then \in {"reset", "prefill"} /\ (Kept(a) => a \in DOMAIN pool.parked)
  BY <1>1, <1>2, <1>a, <1>s, PoolNames DEF Placed, MemoryOwners, InMemory
<1>4. Unawaited
  BY <1>1, <1>2, UnawaitedFacts
<1>e. PICK exact \in BOOLEAN :
         LET c == IF ~exact /\ s \in DOMAIN pool.parked THEN pool.parked[s]
                  ELSE IF ~exact /\ conf.disk THEN Load(s) ELSE NoContext
         IN  \/ /\ live' = c /\ pool' = [Erase(s) EXCEPT !.active = s] /\ Goto("budget")
                /\ ghost' = IF exact THEN [ghost EXCEPT !.gone = @ \cup {s}] ELSE ghost
                /\ UNCHANGED writer
             \/ /\ live' = NoContext /\ pool' = Erase(s) /\ Goto("cold")
                /\ ghost' = [ghost EXCEPT !.gone = @ \cup {s}]
                /\ IF conf.disk THEN Discard(s) ELSE UNCHANGED writer
  <2>1. conf.exact \subseteq BOOLEAN
    BY ZenonT(30), <1>1, ServeAssumption DEF MainTypes
  <2> QED BY ZenonT(30), <1>s, <2>1 DEF Find
<1>c. PICK c : c = IF ~exact /\ s \in DOMAIN pool.parked THEN pool.parked[s]
                   ELSE IF ~exact /\ conf.disk THEN Load(s) ELSE NoContext
  BY ZenonT(30)
<1>5. /\ c = IF ~exact /\ s \in DOMAIN pool.parked THEN pool.parked[s]
             ELSE IF ~exact /\ conf.disk THEN Load(s) ELSE NoContext
      /\ \/ /\ live' = c /\ pool' = [Erase(s) EXCEPT !.active = s] /\ Goto("budget")
            /\ ghost' = IF exact THEN [ghost EXCEPT !.gone = @ \cup {s}] ELSE ghost
            /\ UNCHANGED writer
         \/ /\ live' = NoContext /\ pool' = Erase(s) /\ Goto("cold")
            /\ ghost' = [ghost EXCEPT !.gone = @ \cup {s}]
            /\ IF conf.disk THEN Discard(s) ELSE UNCHANGED writer
  BY ZenonT(30), <1>e, <1>c
<1>6. NoContext \in Context /\ \A n : Belongs(NoContext, n)
  BY DEF Context, Belongs
<1>7. c \in Context /\ Belongs(c, s)
  <2>1. Load(s) \in Context /\ Belongs(Load(s), s)
    BY <1>1, LoadFacts
  <2> QED BY <1>3, <1>5, <1>6, <2>1
<1>8. CASE /\ live' = c /\ pool' = [Erase(s) EXCEPT !.active = s] /\ Goto("budget")
           /\ ghost' = IF exact THEN [ghost EXCEPT !.gone = @ \cup {s}] ELSE ghost
           /\ UNCHANGED writer
  <2>1. /\ PoolType(pool') /\ pool'.active = s
        /\ DOMAIN pool'.parked = DOMAIN pool.parked \ {s}
        /\ \A m \in DOMAIN pool'.parked : pool'.parked[m] = pool.parked[m]
    <3> DEFINE q == Erase(s)
    <3>1. q = Erase(s) /\ pool' = [q EXCEPT !.active = s]
      BY <1>8
    <3> HIDE DEF q
    <3>2. /\ PoolType(q) /\ DOMAIN q.parked = DOMAIN pool.parked \ {s}
          /\ \A m \in DOMAIN q.parked : q.parked[m] = pool.parked[m]
      BY <1>1, <3>1, EraseFacts
    <3>3. PoolType(pool') /\ pool'.active = s /\ pool'.parked = q.parked
      BY <3>1, <3>2, ActiveFacts
    <3> QED BY <3>2, <3>3
  <2>2. MainTypes' /\ CancelSound' /\ main'.at = "budget" /\ main'.s = main.s /\ main'.then = main.then
    BY <1>1, <1>2, <1>8, GotoFacts DEF Places, Starting
  <2>3. ghost' = ghost \/ ghost' = [ghost EXCEPT !.gone = @ \cup {s}]
    BY <1>8
  <2>4. /\ PoolShaped' /\ ghost'.latest = ghost.latest /\ ghost'.failed = ghost.failed
        /\ \A m : Kept(m)' => Kept(m)
    BY <1>1, <1>7, <1>8, <2>1, <2>3, GoneFacts
  <2>5. exact => ~Kept(s)'
    <3>1. ghost \in [latest : [Names -> Context], gone : SUBSET Names, failed : SUBSET Names,
                     turns : Nat, lines : Nat, starts : Nat]
      BY <1>1 DEF PoolShaped
    <3>2. exact => s \in ghost'.gone
      BY <1>8, <3>1
    <3> QED BY <3>2 DEF Kept
  <2>6. /\ DiskShaped' /\ DiskOwners' /\ Unawaited' /\ (Drained' <=> Drained)
        /\ \A m \in Names : (Tracked(m) => Tracked(m)') /\ (Landed(m) => Landed(m)')
    BY <1>1, <1>2, <1>4, <1>8, <2>4, QuietFrame
  <2>7. Owners'
    <3>1. \A n \in DOMAIN pool'.parked : Belongs(pool'.parked[n], n)
      BY <1>3, <2>1
    <3> QED BY <1>7, <1>8, <2>1, <2>6, <3>1, ZenonT(30) DEF Owners, MemoryOwners
  <2>8. Placed'
    BY ZenonT(30), <1>1, <1>2, <1>3, <1>s, <2>1, <2>2, <2>6 DEF Placed, Arrived, Leaving
  <2>9. OnDisk'
    <3> SUFFICES ASSUME conf.disk, NEW n \in Names, Kept(n) PROVE Tracked(n)'
      BY <1>2, <2>4, ZenonT(30) DEF OnDisk
    <3>1. Tracked(n)
      BY <1>1, <1>2 DEF OnDisk
    <3> QED BY <2>6, <3>1
  <2>10. InMemory'
    <3>1. \A n \in DOMAIN pool'.parked : Kept(n)' => pool'.parked[n] = ghost.latest[n]
      <4> TAKE n \in DOMAIN pool'.parked
      <4>1. n \in DOMAIN pool.parked /\ pool'.parked[n] = pool.parked[n]
        BY <2>1
      <4> QED BY <1>1, <2>4, <4>1 DEF InMemory
    <3>2. \A n \in Names \ DOMAIN pool'.parked : n # s => (Kept(n)' => conf.disk /\ Landed(n)')
      <4> SUFFICES ASSUME NEW n \in Names, n \notin DOMAIN pool'.parked, n # s, Kept(n)'
                   PROVE  conf.disk /\ Landed(n)'
        BY ZenonT(30)
      <4>1. n \notin DOMAIN pool.parked /\ Kept(n)
        BY <2>1, <2>4
      <4>2. n # a
        BY <1>3, <4>1
      <4>3. conf.disk /\ Landed(n)
        BY <1>1, <1>a, <4>1, <4>2, ZenonT(30) DEF InMemory
      <4> QED BY <2>6, <4>3
    <3>3. Kept(s)' => live' = ghost.latest[s]
      <4> SUFFICES ASSUME Kept(s)' PROVE c = ghost.latest[s]
        BY <1>8
      <4>1. Kept(s) /\ ~exact
        BY <2>4, <2>5
      <4>2. CASE s \in DOMAIN pool.parked
        BY <1>1, <1>5, <4>1, <4>2 DEF InMemory
      <4>3. CASE s \notin DOMAIN pool.parked
        <5>1. conf.disk /\ Landed(s)
          BY <1>1, <1>3, <1>a, <4>1, <4>3, ZenonT(30) DEF InMemory
        <5> QED BY <1>5, <4>1, <4>3, <5>1 DEF Landed
      <4> QED BY <4>2, <4>3
    <3>4. main'.at \notin {"start", "cold", "find"}
      BY <2>2
    <3> QED BY <1>2, <2>1, <2>4, <3>1, <3>2, <3>3, <3>4, ZenonT(30) DEF InMemory
  <2>11. Saves'
    BY <2>2, <2>6, UnawaitedSaves
  <2> QED BY <2>2, <2>4, <2>6, <2>7, <2>8, <2>9, <2>10, <2>11, ZenonT(30) DEF ServeInv
<1>9. CASE /\ live' = NoContext /\ pool' = Erase(s) /\ Goto("cold")
           /\ ghost' = [ghost EXCEPT !.gone = @ \cup {s}]
           /\ IF conf.disk THEN Discard(s) ELSE UNCHANGED writer
  <2>1. /\ PoolType(pool') /\ pool'.active = a
        /\ DOMAIN pool'.parked = DOMAIN pool.parked \ {s}
        /\ \A m \in DOMAIN pool'.parked : pool'.parked[m] = pool.parked[m]
    BY <1>1, <1>9, <1>a, EraseFacts
  <2>2. MainTypes' /\ CancelSound' /\ main'.at = "cold" /\ main'.s = main.s /\ main'.then = main.then
    BY <1>1, <1>2, <1>9, GotoFacts DEF Places, Starting
  <2>3. ghost' = ghost \/ ghost' = [ghost EXCEPT !.gone = @ \cup {s}]
    BY <1>9
  <2>4. /\ PoolShaped' /\ ghost'.latest = ghost.latest /\ ghost'.failed = ghost.failed
        /\ \A m : Kept(m)' => Kept(m)
    BY ZenonT(30), <1>1, <1>6, <1>9, <2>1, <2>3, GoneFacts
  <2>5. s \in ghost'.gone /\ ~Kept(s)'
    <3>1. ghost \in [latest : [Names -> Context], gone : SUBSET Names, failed : SUBSET Names,
                     turns : Nat, lines : Nat, starts : Nat]
      BY <1>1 DEF PoolShaped
    <3>2. s \in ghost'.gone
      BY <1>9, <3>1
    <3> QED BY <3>2 DEF Kept
  <2>6. /\ DiskShaped' /\ DiskOwners' /\ Unawaited' /\ (~conf.disk => (Drained' <=> Drained))
        /\ \A m \in Names : m # s => (Tracked(m) => Tracked(m)') /\ (Landed(m) => Landed(m)')
    <3>1. CASE conf.disk
      BY ZenonT(30), <1>1, <1>2, <1>4, <1>9, <2>4, <3>1, DiscardFrame
    <3>2. CASE ~conf.disk
      BY ZenonT(30), <1>1, <1>2, <1>4, <1>9, <2>4, <3>2, QuietFrame
    <3> QED BY <3>1, <3>2
  <2>7. Owners'
    <3>1. \A n \in DOMAIN pool'.parked : Belongs(pool'.parked[n], n)
      BY <1>3, <2>1
    <3> QED BY <1>6, <1>9, <2>1, <2>6, <3>1, ZenonT(30) DEF Owners, MemoryOwners
  <2>8. Placed'
    BY ZenonT(30), <1>1, <1>2, <1>3, <1>9, <1>s, <2>1, <2>2, <2>5, <2>6 DEF Placed, Arrived, Leaving
  <2>9. OnDisk'
    <3> SUFFICES ASSUME conf.disk, NEW n \in Names, Kept(n)' PROVE Tracked(n)'
      BY <1>2, ZenonT(30) DEF OnDisk
    <3>1. Tracked(n) /\ n # s
      BY <1>1, <1>2, <2>4, <2>5 DEF OnDisk
    <3> QED BY <2>6, <3>1
  <2>10. InMemory'
    <3>1. \A n \in DOMAIN pool'.parked : Kept(n)' => pool'.parked[n] = ghost.latest[n]
      <4> TAKE n \in DOMAIN pool'.parked
      <4>1. n \in DOMAIN pool.parked /\ pool'.parked[n] = pool.parked[n]
        BY <2>1
      <4> QED BY <1>1, <2>4, <4>1 DEF InMemory
    <3>2. \A n \in Names \ DOMAIN pool'.parked : n # a => (Kept(n)' => conf.disk /\ Landed(n)')
      <4> SUFFICES ASSUME NEW n \in Names, n \notin DOMAIN pool'.parked, n # a, Kept(n)'
                   PROVE  conf.disk /\ Landed(n)'
        BY ZenonT(30)
      <4>1. n # s /\ n \notin DOMAIN pool.parked /\ Kept(n)
        BY <2>1, <2>4, <2>5
      <4>2. conf.disk /\ Landed(n)
        BY <1>1, <1>a, <4>1, ZenonT(30) DEF InMemory
      <4> QED BY <2>6, <4>1, <4>2
    <3>3. Kept(a)' => a \in DOMAIN pool'.parked
      BY <1>3, <2>1, <2>4
    <3> QED BY ZenonT(30), <1>2, <2>1, <2>2, <2>4, <3>1, <3>2, <3>3 DEF InMemory
  <2>11. Saves'
    BY <2>2, <2>6, UnawaitedSaves
  <2> QED BY <2>2, <2>4, <2>6, <2>7, <2>8, <2>9, <2>10, <2>11, ZenonT(30) DEF ServeInv
<1> QED BY <1>5, <1>8, <1>9

\* The cold start of a session that could not be installed.
LEMMA GoColdKeeps ==
    ASSUME ServeInv, GoCold
    PROVE  ServeInv'
<1>1. /\ MainTypes /\ PoolShaped /\ DiskShaped /\ MemoryOwners /\ DiskOwners /\ Placed
      /\ OnDisk /\ InMemory /\ Saves /\ CancelSound
  BY DEF ServeInv, Owners
<1>a. PICK a \in Names : a = pool.active
  BY <1>1, PoolNames
<1>s. PICK s \in Names : s = main.s
  BY ZenonT(30), <1>1 DEF MainTypes
<1>2. /\ main.at = "cold" /\ UNCHANGED <<writer, writeFaults, conf, inbox, live, ghost>>
      /\ (IF conf.disk THEN DropFile(s) ELSE UNCHANGED disk)
      /\ pool' = [pool EXCEPT !.active = s] /\ Goto("budget")
  BY <1>s DEF GoCold
<1>3. /\ s # a /\ s \in ghost.gone /\ s \notin DOMAIN pool.parked /\ live = NoContext
      /\ main.then \in {"reset", "prefill"} /\ (Kept(a) => a \in DOMAIN pool.parked)
  BY <1>1, <1>2, <1>a, <1>s DEF Placed, InMemory
<1>4. Unawaited
  BY <1>1, <1>2, UnawaitedFacts
<1>5. MainTypes' /\ CancelSound' /\ main'.at = "budget" /\ main'.s = main.s /\ main'.then = main.then
  BY <1>1, <1>2, GotoFacts DEF Places, Starting
<1>6. PoolType(pool') /\ pool'.active = s /\ pool'.parked = pool.parked
  <2>1. PoolType(pool)
    BY <1>1 DEF PoolShaped
  <2> QED BY <1>2, <2>1, ActiveFacts
<1>7. PoolShaped' /\ \A n : (Kept(n)' <=> Kept(n))
  BY <1>1, <1>2, <1>6, ZenonT(30) DEF PoolShaped, Kept
<1>8. /\ DiskShaped' /\ DiskOwners' /\ Unawaited' /\ (Drained' <=> Drained)
      /\ \A m \in Names : m # s => (Tracked(m) => Tracked(m)') /\ (Landed(m) => Landed(m)')
      /\ ~conf.disk => disk' = disk
  <2>1. CASE conf.disk
    BY <1>1, <1>2, <1>4, <2>1, DropFrame
  <2>2. CASE ~conf.disk
    BY <1>1, <1>2, <1>4, <2>2, QuietFrame
  <2> QED BY <2>1, <2>2
<1>9. Owners'
  <2>1. Belongs(NoContext, s)
    BY DEF Belongs
  <2> QED BY <1>1, <1>2, <1>3, <1>6, <1>8, <2>1, ZenonT(30) DEF Owners, MemoryOwners
<1>10. Placed'
  BY <1>1, <1>2, <1>3, <1>s, <1>5, <1>6, <1>8 DEF Placed, Arrived, Leaving
<1>11. ~Kept(s)
  BY <1>3 DEF Kept
<1>12. OnDisk'
  <2> SUFFICES ASSUME conf.disk, NEW n \in Names, Kept(n) PROVE Tracked(n)'
    BY <1>2, <1>7, ZenonT(30) DEF OnDisk
  <2>1. Tracked(n) /\ n # s
    BY <1>1, <1>2, <1>11 DEF OnDisk
  <2> QED BY <1>8, <2>1
<1>13. InMemory'
  <2>1. \A n \in DOMAIN pool.parked : Kept(n) => pool.parked[n] = ghost.latest[n]
    BY <1>1, ZenonT(30) DEF InMemory
  <2>2. \A n \in Names \ DOMAIN pool.parked : Kept(n) => conf.disk /\ Landed(n)'
    <3> SUFFICES ASSUME NEW n \in Names, n \notin DOMAIN pool.parked, Kept(n)
                 PROVE  conf.disk /\ Landed(n)'
      BY ZenonT(30)
    <3>1. n # a /\ n # s
      BY <1>3, <1>11
    <3>2. conf.disk /\ Landed(n)
      BY <1>1, <1>a, <3>1, ZenonT(30) DEF InMemory
    <3> QED BY <1>8, <3>1, <3>2
  <2> QED BY <1>2, <1>5, <1>6, <1>7, <1>11, <2>1, <2>2 DEF InMemory
<1>14. Saves'
  BY <1>5, <1>8, UnawaitedSaves
<1> QED BY <1>5, <1>7, <1>8, <1>9, <1>10, <1>12, <1>13, <1>14, ZenonT(30) DEF ServeInv

\* The budget of parked sessions.
LEMMA EnforceBudgetKeeps ==
    ASSUME ServeInv, EnforceBudget
    PROVE  ServeInv'
<1>1. /\ MainTypes /\ PoolShaped /\ DiskShaped /\ MemoryOwners /\ DiskOwners /\ Placed
      /\ OnDisk /\ InMemory /\ Saves /\ CancelSound
  BY DEF ServeInv, Owners
<1>a. PICK a \in Names : a = pool.active
  BY <1>1, PoolNames
<1>2. main.at = "budget" /\ UNCHANGED <<disk, writeFaults, conf, inbox, live>>
  BY DEF EnforceBudget
<1>3. /\ main.s = a /\ a \notin DOMAIN pool.parked /\ main.then \in {"reset", "prefill"}
      /\ (\A n \in DOMAIN pool.parked : n \in Names /\ pool.parked[n] \in Context /\ Belongs(pool.parked[n], n))
      /\ Kept(a) => live = ghost.latest[a]
  BY <1>1, <1>2, <1>a, PoolNames DEF Placed, Arrived, Leaving, MemoryOwners, InMemory, Generating
<1>4. Unawaited /\ ~Generating
  BY <1>1, <1>2, UnawaitedFacts DEF Generating
<1>5. CASE Goto(main.then) /\ UNCHANGED <<writer, pool, ghost>>
  <2>1. PICK p \in {"reset", "prefill"} : Goto(p)
    BY <1>3, <1>5
  <2>2. /\ MainTypes' /\ CancelSound' /\ main'.at = p /\ main'.s = main.s /\ main'.then = main.then
    BY <1>1, <1>2, <2>1, GotoFacts DEF Places, Starting
  <2>3. (Unawaited => Unawaited') /\ (Drained' <=> Drained)
    BY <1>1, <1>2, <1>5, QuietFrame
  <2>4. Saves'
    BY ZenonT(30), <1>4, <2>2, <2>3, UnawaitedSaves
  <2>5. Placed'
    BY <1>a, <1>1, <1>2, <1>3, <1>5, <2>1, <2>2, <2>3 DEF Placed, Arrived, Leaving
  <2>6. PoolShaped'
    BY <1>1, <1>2, <1>5, ZenonT(30) DEF PoolShaped
  <2> QED BY ZenonT(30), <1>2, <1>4, <1>5, <2>2, <2>4, <2>5, <2>6, MovesOnly
<1>6. CASE conf.disk /\ OverBudget /\ Queue(Victim, pool.parked[Victim], TRUE) /\ Goto("saving")
           /\ UNCHANGED <<pool, ghost>>
  <2>1. PICK v \in Names : v = Victim /\ v \in DOMAIN pool.parked
    BY <1>1, <1>6, VictimFacts DEF OverBudget
  <2>2. PICK c \in Context : c = pool.parked[v] /\ Belongs(c, v)
    BY <1>3, <2>1
  <2>3. /\ MainTypes' /\ CancelSound' /\ main'.at = "saving" /\ main'.s = main.s /\ main'.then = main.then
    BY <1>1, <1>2, <1>6, GotoFacts DEF Places, Starting
  <2>4. Queue(v, c, TRUE) /\ ghost'.failed = ghost.failed /\ ghost'.latest = ghost.latest /\ TRUE \in BOOLEAN
    BY ZenonT(30), <1>6, <2>1, <2>2
  <2>5. /\ DiskShaped' /\ DiskOwners'
        /\ (\A e \in Pending' : e.save => e.name = v) /\ (Busy' => ~writer'.save)
        /\ writer'.result = "none"
        /\ c = ghost'.latest[v] => Tracked(v)'
        /\ \A m \in Names \ {v} : ghost'.latest[m] = ghost.latest[m] =>
              (Tracked(m) => Tracked(m)') /\ (Landed(m) => Landed(m)')
    BY ZenonT(30), <1>1, <1>2, <1>4, <2>2, <2>4, QueueFrame
  <2>6. PoolShaped' /\ \A n : (Kept(n)' <=> Kept(n))
    BY <1>1, <1>2, <1>6, ZenonT(30) DEF PoolShaped, Kept
  <2>7. Owners'
    BY <1>1, <1>2, <1>6, <2>5, ZenonT(30) DEF Owners, MemoryOwners
  <2>8. Placed'
    BY ZenonT(30), <1>1, <1>2, <1>3, <1>6, <1>a, <2>3 DEF Placed, Arrived, Leaving, OverBudget
  <2>9. OnDisk'
    <3> SUFFICES ASSUME conf.disk, NEW n \in Names, Kept(n) PROVE Tracked(n)'
      BY <1>2, <2>6, ZenonT(30) DEF OnDisk
    <3>1. Tracked(n)
      BY <1>1, <1>2 DEF OnDisk
    <3>2. n = v => c = ghost.latest[v]
      BY <1>1, <2>1, <2>2 DEF InMemory
    <3> QED BY <2>4, <2>5, <3>1, <3>2
  <2>10. InMemory'
    <3>1. \A n \in Names \ DOMAIN pool.parked : Landed(n) => Landed(n)'
      BY <2>1, <2>4, <2>5
    <3>2. main.at \notin {"start", "cold", "find"} /\ main'.at \notin {"start", "cold", "find"}
      BY ZenonT(30), <1>2, <2>3
    <3> QED BY <1>1, <1>2, <1>4, <1>6, <2>4, <2>6, <3>1, <3>2, ZenonT(30) DEF InMemory
  <2>11. Saves'
    <3>1. v = Victim'
      BY <1>6, <2>1 DEF Victim
    <3> QED BY ZenonT(30), <2>3, <2>5, <3>1 DEF Saves, Pending
  <2> QED BY <2>3, <2>5, <2>6, <2>7, <2>8, <2>9, <2>10, <2>11, ZenonT(30) DEF ServeInv
<1>7. CASE /\ ~conf.disk /\ OverBudget /\ pool' = Erase(Victim)
           /\ ghost' = [ghost EXCEPT !.gone = @ \cup {Victim}] /\ UNCHANGED <<main, writer>>
  <2>1. PICK v \in Names : v = Victim /\ v \in DOMAIN pool.parked
    BY <1>1, <1>7, VictimFacts DEF OverBudget
  <2>2. /\ PoolType(pool') /\ pool'.active = a
        /\ DOMAIN pool'.parked = DOMAIN pool.parked \ {v}
        /\ \A m \in DOMAIN pool'.parked : pool'.parked[m] = pool.parked[m]
    BY <1>1, <1>7, <1>a, <2>1, EraseFacts
  <2>3. ghost' = [ghost EXCEPT !.gone = @ \cup {v}] /\ live' \in Context
    BY <1>1, <1>2, <1>7, <2>1, PoolNames
  <2>4. /\ PoolShaped' /\ ghost'.latest = ghost.latest /\ ghost'.failed = ghost.failed
        /\ \A m : Kept(m)' => Kept(m)
    BY <1>1, <2>2, <2>3, GoneFacts
  <2>5. ~Kept(v)'
    <3>1. ghost \in [latest : [Names -> Context], gone : SUBSET Names, failed : SUBSET Names,
                     turns : Nat, lines : Nat, starts : Nat]
      BY <1>1 DEF PoolShaped
    <3>2. v \in ghost'.gone
      BY <2>3, <3>1
    <3> QED BY <3>2 DEF Kept
  <2>6. /\ DiskShaped' /\ DiskOwners' /\ Unawaited' /\ (Drained' <=> Drained)
        /\ \A m \in Names : (Tracked(m) => Tracked(m)') /\ (Landed(m) => Landed(m)')
    BY <1>1, <1>2, <1>4, <1>7, <2>4, QuietFrame
  <2>7. Owners'
    <3>1. \A n \in DOMAIN pool'.parked : Belongs(pool'.parked[n], n)
      BY <1>3, <2>2
    <3> QED BY <1>1, <1>2, <1>a, <2>2, <2>6, <3>1, ZenonT(30) DEF Owners, MemoryOwners
  <2>8. Placed'
    BY <1>1, <1>2, <1>3, <1>7, <2>2, <2>6 DEF Placed, Arrived, Leaving
  <2>9. MainTypes' /\ CancelSound' /\ OnDisk'
    BY <1>1, <1>2, <1>7, ZenonT(30) DEF MainTypes, CancelSound, Cancelled, OnDisk
  <2>10. InMemory'
    <3>1. \A n \in DOMAIN pool'.parked : Kept(n)' => pool'.parked[n] = ghost.latest[n]
      <4> TAKE n \in DOMAIN pool'.parked
      <4>1. n \in DOMAIN pool.parked /\ pool'.parked[n] = pool.parked[n]
        BY <2>2
      <4> QED BY <1>1, <2>4, <4>1 DEF InMemory
    <3>2. \A n \in Names \ DOMAIN pool'.parked : n # a => (Kept(n)' => conf.disk /\ Landed(n)')
      <4> SUFFICES ASSUME NEW n \in Names, n \notin DOMAIN pool'.parked, n # a, Kept(n)'
                   PROVE  conf.disk /\ Landed(n)'
        BY ZenonT(30)
      <4>1. n \notin DOMAIN pool.parked /\ Kept(n)
        BY <2>2, <2>4, <2>5
      <4>2. conf.disk /\ Landed(n)
        BY <1>1, <1>a, <4>1, ZenonT(30) DEF InMemory
      <4> QED BY <2>6, <4>2
    <3>3. main'.at \notin {"start", "cold", "find"}
      BY <1>2, <1>7
    <3>4. Kept(a)' => live = ghost.latest[a]
      BY <1>3, <2>4
    <3> QED BY <1>2, <2>2, <2>4, <3>1, <3>2, <3>3, <3>4, ZenonT(30) DEF InMemory
  <2>11. Saves'
    BY <1>2, <1>7, <2>6, UnawaitedSaves
  <2> QED BY <2>4, <2>6, <2>7, <2>8, <2>9, <2>10, <2>11, ZenonT(30) DEF ServeInv
<1>8. CASE ~OverBudget
  BY <1>5, <1>8 DEF EnforceBudget
<1>9. CASE OverBudget /\ conf.disk
  BY <1>6, <1>9 DEF EnforceBudget
<1>10. CASE OverBudget /\ ~conf.disk
  BY <1>7, <1>10 DEF EnforceBudget
<1> QED BY <1>8, <1>9, <1>10

\* The answer to a save.
LEMMA SavedKeeps ==
    ASSUME ServeInv, Saved
    PROVE  ServeInv'
<1>1. /\ MainTypes /\ PoolShaped /\ DiskShaped /\ MemoryOwners /\ DiskOwners /\ Placed
      /\ OnDisk /\ InMemory /\ Saves /\ CancelSound
  BY DEF ServeInv, Owners
<1>a. PICK a \in Names : a = pool.active
  BY <1>1, PoolNames
<1>2. /\ main.at = "saving" /\ writer.result # "none"
      /\ UNCHANGED <<disk, writer, writeFaults, conf, inbox, live, ghost>>
  BY ZenonT(30) DEF Saved
<1>3. /\ main.s = a /\ a \notin DOMAIN pool.parked /\ main.then \in {"reset", "prefill"}
      /\ (\A n \in DOMAIN pool.parked : n \in Names /\ Belongs(pool.parked[n], n))
      /\ Kept(a) => live = ghost.latest[a]
      /\ conf.disk /\ pool.lru # <<>>
  BY ZenonT(30), <1>1, <1>2, <1>a, PoolNames DEF Placed, Arrived, Leaving, MemoryOwners, InMemory, Generating
<1>4. Unawaited /\ ~Generating
  BY <1>1, <1>2 DEF Saves, Unawaited, Pending, Generating
<1>5. /\ DiskShaped' /\ DiskOwners' /\ Unawaited' /\ (Drained' <=> Drained)
      /\ \A m \in Names : (Tracked(m) => Tracked(m)') /\ (Landed(m) => Landed(m)')
  BY <1>1, <1>2, <1>4, QuietFrame
<1>6. CASE writer.result = "ok" /\ pool' = Erase(Victim) /\ Goto("budget")
  <2>1. PICK v \in Names : v = Victim /\ v \in DOMAIN pool.parked
    BY <1>1, <1>3, VictimFacts
  <2>2. /\ PoolType(pool') /\ pool'.active = a
        /\ DOMAIN pool'.parked = DOMAIN pool.parked \ {v}
        /\ \A m \in DOMAIN pool'.parked : pool'.parked[m] = pool.parked[m]
    BY <1>1, <1>6, <1>a, <2>1, EraseFacts
  <2>3. /\ MainTypes' /\ CancelSound' /\ main'.at = "budget" /\ main'.s = main.s /\ main'.then = main.then
    BY <1>1, <1>2, <1>6, GotoFacts DEF Places, Starting
  <2>4. PoolShaped' /\ \A n : (Kept(n)' <=> Kept(n))
    BY <1>1, <1>2, <2>2, ZenonT(30) DEF PoolShaped, Kept
  <2>5. Kept(v) => Landed(v)
    <3>1. ~Pends(v) /\ ~Writes(v) /\ v \notin ghost.failed
      BY <1>1, <1>2, <1>6, <2>1 DEF Saves
    <3>2. Kept(v) => Tracked(v)
      BY <1>1, <1>2, <1>3 DEF OnDisk
    <3> QED BY <3>1, <3>2, ZenonT(30) DEF Tracked, Landed
  <2>6. Owners'
    <3>1. \A n \in DOMAIN pool'.parked : Belongs(pool'.parked[n], n)
      BY ZenonT(30), <1>3, <2>2
    <3> QED BY <1>1, <1>2, <1>a, <2>2, <1>5, <3>1, ZenonT(30) DEF Owners, MemoryOwners
  <2>7. Placed'
    BY ZenonT(30), <1>1, <1>2, <1>3, <1>5, <2>2, <2>3 DEF Placed, Arrived, Leaving
  <2>8. OnDisk'
    BY <1>1, <1>2, <1>5, <2>3, <2>4 DEF OnDisk
  <2>9. InMemory'
    <3>1. \A n \in DOMAIN pool'.parked : Kept(n) => pool'.parked[n] = ghost.latest[n]
      <4> TAKE n \in DOMAIN pool'.parked
      <4>1. n \in DOMAIN pool.parked /\ pool'.parked[n] = pool.parked[n]
        BY <2>2
      <4> QED BY <1>1, <4>1 DEF InMemory
    <3>2. \A n \in Names \ DOMAIN pool'.parked : n # a => (Kept(n) => Landed(n)')
      <4> SUFFICES ASSUME NEW n \in Names, n \notin DOMAIN pool'.parked, n # a, Kept(n)
                   PROVE  Landed(n)'
        BY ZenonT(30)
      <4>1. n = v \/ n \notin DOMAIN pool.parked
        BY <2>2
      <4>2. n # v => Landed(n)
        BY <1>1, <1>a, <4>1, ZenonT(30) DEF InMemory
      <4> QED BY <1>5, <2>5, <4>2
    <3>3. main'.at \notin {"start", "cold", "find"}
      BY <2>3
    <3> QED BY <1>2, <1>3, <2>2, <2>4, <3>1, <3>2, <3>3, ZenonT(30) DEF InMemory
  <2>10. Saves'
    BY <1>5, <2>3, UnawaitedSaves
  <2> QED BY <1>5, <2>3, <2>4, <2>6, <2>7, <2>8, <2>9, <2>10, ZenonT(30) DEF ServeInv
<1>7. CASE Goto("idle") /\ UNCHANGED pool
  <2>1. /\ MainTypes' /\ CancelSound' /\ main'.at = "idle" /\ main'.s = main.s
    BY <1>1, <1>2, <1>7, GotoFacts DEF Places, Starting
  <2>2. Saves'
    BY ZenonT(30), <1>5, <2>1, UnawaitedSaves
  <2>3. Placed'
    BY ZenonT(30), <1>a, <1>1, <1>2, <1>3, <1>5, <1>7, <2>1 DEF Placed, Arrived, Leaving
  <2>4. PoolShaped'
    BY <1>1, <1>2, <1>7, ZenonT(30) DEF PoolShaped
  <2> QED BY ZenonT(30), <1>2, <1>4, <1>7, <2>1, <2>2, <2>3, <2>4, MovesOnly
<1>8. CASE writer.result = "ok"
  BY <1>6, <1>8 DEF Saved
<1>9. CASE writer.result # "ok"
  BY <1>7, <1>9 DEF Saved
<1> QED BY <1>8, <1>9

\* A drop, its first half: what is pending goes.
LEMMA DropKeeps ==
    ASSUME ServeInv, Drop
    PROVE  ServeInv'
<1>1. /\ MainTypes /\ PoolShaped /\ DiskShaped /\ MemoryOwners /\ DiskOwners /\ Placed
      /\ OnDisk /\ InMemory /\ Saves /\ CancelSound
  BY DEF ServeInv, Owners
<1>s. PICK s \in Names : s = main.s
  BY ZenonT(30), <1>1 DEF MainTypes
<1>2. /\ main.at = "drop" /\ UNCHANGED <<disk, writeFaults, conf, inbox, pool, live, ghost>>
      /\ (IF conf.disk THEN Discard(s) ELSE UNCHANGED writer) /\ Goto("dropping")
  BY <1>s DEF Drop
<1>3. Unawaited /\ ~Generating
  BY <1>1, <1>2, UnawaitedFacts DEF Generating
<1>4. MainTypes' /\ CancelSound' /\ main'.at = "dropping" /\ main'.s = s
  BY <1>1, <1>2, <1>s, GotoFacts DEF Places, Starting
<1>5. PoolShaped' /\ \A n : (Kept(n)' <=> Kept(n))
  BY <1>1, <1>2, ZenonT(30) DEF PoolShaped, Kept
<1>6. /\ DiskShaped' /\ DiskOwners' /\ Unawaited' /\ (~conf.disk => (Drained' <=> Drained))
      /\ \A m \in Names : (m # s /\ Tracked(m) => Tracked(m)') /\ (Landed(m) => Landed(m)')
  <2>1. CASE conf.disk
    BY <1>1, <1>2, <1>3, <2>1, DiscardFrame
  <2>2. CASE ~conf.disk
    BY <1>1, <1>2, <1>3, <2>2, QuietFrame
  <2> QED BY <2>1, <2>2
<1>7. Owners'
  BY <1>1, <1>2, <1>6, ZenonT(30) DEF Owners, MemoryOwners
<1>8. Placed'
  BY <1>1, <1>2, <1>4, <1>6 DEF Placed, Arrived, Leaving
<1>9. OnDisk'
  BY ZenonT(30), <1>1, <1>2, <1>4, <1>5, <1>6 DEF OnDisk
<1>10. InMemory'
  <2>1. main.at \notin {"start", "cold", "find"} /\ main'.at \notin {"start", "cold", "find"}
    BY <1>2, <1>4
  <2> QED BY <1>1, <1>2, <1>3, <1>5, <1>6, <2>1, ZenonT(30) DEF InMemory
<1>11. Saves'
  BY <1>4, <1>6, UnawaitedSaves
<1> QED BY <1>4, <1>5, <1>6, <1>7, <1>8, <1>9, <1>10, <1>11, ZenonT(30) DEF ServeInv

\* A drop, its second half: the context and its file go.
LEMMA DropRestKeeps ==
    ASSUME ServeInv, DropRest
    PROVE  ServeInv'
<1>1. /\ MainTypes /\ PoolShaped /\ DiskShaped /\ MemoryOwners /\ DiskOwners /\ Placed
      /\ OnDisk /\ InMemory /\ Saves /\ CancelSound
  BY DEF ServeInv, Owners
<1>a. PICK a \in Names : a = pool.active
  BY <1>1, PoolNames
<1>s. PICK s \in Names : s = main.s
  BY ZenonT(30), <1>1 DEF MainTypes
<1>2. /\ main.at = "dropping" /\ Goto("idle") /\ UNCHANGED <<writer, writeFaults, conf, inbox>>
      /\ live' = IF s = a THEN NoContext ELSE live
      /\ pool' = IF s = a THEN pool ELSE Erase(s)
      /\ (IF conf.disk /\ (s = a \/ s \in DOMAIN pool.parked) THEN DropFile(s) ELSE UNCHANGED disk)
      /\ ghost' = Forget(s)
  BY <1>a, <1>s DEF DropRest
<1>3. /\ a \notin DOMAIN pool.parked
      /\ (\A n \in DOMAIN pool.parked : n \in Names /\ Belongs(pool.parked[n], n))
      /\ Kept(a) => live = ghost.latest[a]
      /\ live \in Context /\ Belongs(live, a)
  BY ZenonT(30), <1>1, <1>2, <1>a, PoolNames DEF Placed, Leaving, MemoryOwners, InMemory, Generating
<1>4. Unawaited
  BY <1>1, <1>2, UnawaitedFacts
<1>5. MainTypes' /\ CancelSound' /\ main'.at = "idle"
  BY <1>1, <1>2, GotoFacts DEF Places, Starting
<1>6. /\ PoolType(pool') /\ pool'.active = a
      /\ DOMAIN pool'.parked = DOMAIN pool.parked \ {s}
      /\ \A m \in DOMAIN pool'.parked : pool'.parked[m] = pool.parked[m]
  <2>1. CASE s = a
    BY ZenonT(30), <1>1, <1>2, <1>3, <1>a, <2>1 DEF PoolShaped
  <2>2. CASE s # a
    BY <1>1, <1>2, <1>a, <2>2, EraseFacts
  <2> QED BY <2>1, <2>2
<1>7. /\ PoolShaped' /\ ghost'.gone = ghost.gone /\ ghost'.failed = ghost.failed
      /\ \A m \in Names \ {s} : ghost'.latest[m] = ghost.latest[m]
      /\ ghost'.latest[s] = NoContext
  <2> DEFINE T == [Names -> Context]
             G == [latest : T, gone : SUBSET Names, failed : SUBSET Names,
                   turns : Nat, lines : Nat, starts : Nat]
             f == [ghost.latest EXCEPT ![s] = NoContext]
  <2>1. ghost \in G /\ ghost.latest \in T
    BY <1>1, ZenonT(30) DEF PoolShaped
  <2>2. f \in T /\ f[s] = NoContext /\ \A m \in Names \ {s} : f[m] = ghost.latest[m]
    BY <2>1 DEF Context
  <2>3. ghost' = [ghost EXCEPT !.latest = f]
    BY ZenonT(30), <1>2, <2>1 DEF Forget
  <2>4. live' \in Context
    BY <1>2, <1>3 DEF Context
  <2> HIDE DEF T, f
  <2>5. ghost' \in G /\ ghost'.gone = ghost.gone /\ ghost'.failed = ghost.failed /\ ghost'.latest = f
    BY <2>1, <2>2, <2>3
  <2>6. PoolShaped'
    BY <1>6, <2>4, <2>5, ZenonT(30) DEF PoolShaped, T
  <2> QED BY <2>2, <2>5, <2>6
<1>8. \A n \in Names : Kept(n)' => Kept(n) /\ n # s /\ ghost'.latest[n] = ghost.latest[n]
  BY <1>7 DEF Kept
<1>9. /\ DiskShaped' /\ DiskOwners' /\ Unawaited' /\ (Drained' <=> Drained)
      /\ \A m \in Names : m # s => (Tracked(m) => Tracked(m)') /\ (Landed(m) => Landed(m)')
      /\ ~conf.disk => disk' = disk
  <2>1. CASE conf.disk /\ DropFile(s)
    BY ZenonT(30), <1>1, <1>2, <1>4, <1>7, <2>1, DropFrame
  <2>2. CASE UNCHANGED disk
    BY ZenonT(30), <1>1, <1>2, <1>4, <1>7, <2>2, QuietFrame
  <2> QED BY ZenonT(30), <1>2, <2>1, <2>2
<1>10. Owners'
  <2>1. Belongs(live', a)
    BY <1>2, <1>3 DEF Belongs
  <2>2. \A n \in DOMAIN pool'.parked : Belongs(pool'.parked[n], n)
    BY <1>3, <1>6
  <2> QED BY <1>6, <1>9, <2>1, <2>2, ZenonT(30) DEF Owners, MemoryOwners
<1>11. Placed'
  BY ZenonT(30), <1>1, <1>2, <1>3, <1>5, <1>6, <1>9 DEF Placed, Arrived, Leaving
<1>12. OnDisk'
  <2> SUFFICES ASSUME conf.disk, NEW n \in Names, Kept(n)' PROVE Tracked(n)'
    BY <1>2, ZenonT(30) DEF OnDisk
  <2>1. Tracked(n) /\ n # s
    BY <1>1, <1>8, <1>s DEF OnDisk
  <2> QED BY <1>9, <2>1
<1>13. InMemory'
  <2>1. \A n \in DOMAIN pool'.parked : Kept(n)' => pool'.parked[n] = ghost'.latest[n]
    <3> TAKE n \in DOMAIN pool'.parked
    <3>1. n \in DOMAIN pool.parked /\ n \in Names /\ pool'.parked[n] = pool.parked[n]
      BY ZenonT(30), <1>3, <1>6
    <3> QED BY ZenonT(30), <1>1, <1>8, <3>1 DEF InMemory
  <2>2. \A n \in Names \ DOMAIN pool'.parked : n # a => (Kept(n)' => conf.disk /\ Landed(n)')
    <3> SUFFICES ASSUME NEW n \in Names, n \notin DOMAIN pool'.parked, n # a, Kept(n)'
                 PROVE  conf.disk /\ Landed(n)'
      BY ZenonT(30)
    <3>1. n \notin DOMAIN pool.parked /\ Kept(n) /\ n # s
      BY <1>6, <1>8
    <3>2. conf.disk /\ Landed(n)
      BY <1>1, <1>a, <3>1, ZenonT(30) DEF InMemory
    <3> QED BY <1>9, <3>1, <3>2
  <2>3. Kept(a)' => live' = ghost'.latest[a]
    BY <1>2, <1>3, <1>8
  <2>4. main'.at \notin {"start", "cold", "find"}
    BY <1>5
  <2> QED BY <1>2, <1>6, <2>1, <2>2, <2>3, <2>4, ZenonT(30) DEF InMemory
<1>14. Saves'
  BY <1>5, <1>9, UnawaitedSaves
<1> QED BY <1>5, <1>7, <1>9, <1>10, <1>11, <1>12, <1>13, <1>14, ZenonT(30) DEF ServeInv

\* The end of a turn.
LEMMA CheckpointKeeps ==
    ASSUME ServeInv, Checkpoint
    PROVE  ServeInv'
<1>1. /\ MainTypes /\ PoolShaped /\ DiskShaped /\ MemoryOwners /\ DiskOwners /\ Placed
      /\ OnDisk /\ InMemory /\ Saves /\ CancelSound
  BY DEF ServeInv, Owners
<1>a. PICK a \in Names : a = pool.active
  BY <1>1, PoolNames
<1>c. PICK c \in Context : c = live
  BY <1>1, PoolNames
<1>2. /\ main.at = "checkpoint" /\ main.s = a
      /\ UNCHANGED <<disk, writeFaults, conf, inbox, pool, live>> /\ Goto("idle")
      /\ (IF conf.disk /\ c # NoContext THEN Queue(a, c, FALSE) ELSE UNCHANGED writer)
      /\ ghost' = [ghost EXCEPT !.latest[a] = c, !.gone = @ \ {a}]
  <2>1. main.at = "checkpoint"
    BY DEF Checkpoint
  <2>2. main.s = a
    BY <1>1, <1>a, <2>1 DEF Placed, Arrived
  <2> QED BY ZenonT(30), <1>a, <1>c, <2>1, <2>2 DEF Checkpoint
<1>3. /\ a \notin DOMAIN pool.parked /\ (\A n \in DOMAIN pool.parked : n \in Names)
      /\ Belongs(c, a)
  BY <1>1, <1>2, <1>a, <1>c, PoolNames DEF Placed, Leaving, MemoryOwners
<1>4. Unawaited
  BY <1>1, <1>2, UnawaitedFacts
<1>5. MainTypes' /\ CancelSound' /\ main'.at = "idle"
  BY ZenonT(30), <1>1, <1>2, GotoFacts DEF Places, Starting
<1>6. /\ PoolShaped' /\ ghost'.gone = ghost.gone \ {a} /\ ghost'.failed = ghost.failed
      /\ \A m \in Names \ {a} : ghost'.latest[m] = ghost.latest[m]
      /\ ghost'.latest[a] = c
  <2> DEFINE T == [Names -> Context]
             G == [latest : T, gone : SUBSET Names, failed : SUBSET Names,
                   turns : Nat, lines : Nat, starts : Nat]
             f == [ghost.latest EXCEPT ![a] = c]
  <2>1. ghost \in G /\ ghost.latest \in T
    BY <1>1, ZenonT(30) DEF PoolShaped
  <2>2. f \in T /\ f[a] = c /\ \A m \in Names \ {a} : f[m] = ghost.latest[m]
    BY <2>1
  <2>3. ghost' = [ghost EXCEPT !.latest = f, !.gone = ghost.gone \ {a}]
    BY <1>2, <2>1
  <2> HIDE DEF T, f
  <2>4. ghost' \in G /\ ghost'.gone = ghost.gone \ {a} /\ ghost'.failed = ghost.failed /\ ghost'.latest = f
    BY ZenonT(30), <2>1, <2>2, <2>3
  <2>5. PoolShaped'
    BY <1>1, <1>2, <2>4, ZenonT(30) DEF PoolShaped, T
  <2> QED BY <2>2, <2>4, <2>5
<1>7. /\ \A n \in Names : Kept(n)' /\ n # a => Kept(n) /\ ghost'.latest[n] = ghost.latest[n]
      /\ Kept(a)' => c # NoContext
  BY <1>6 DEF Kept
<1>8. /\ DiskShaped' /\ DiskOwners' /\ Unawaited' /\ (~conf.disk => (Drained' <=> Drained))
      /\ \A m \in Names : m # a => (Tracked(m) => Tracked(m)') /\ (Landed(m) => Landed(m)')
      /\ conf.disk /\ c # NoContext => Tracked(a)'
  <2>1. CASE conf.disk /\ c # NoContext
    <3>1. Queue(a, c, FALSE) /\ FALSE \in BOOLEAN
      BY ZenonT(30), <1>2, <2>1
    <3>2. /\ DiskShaped' /\ DiskOwners' /\ Unawaited'
          /\ c = ghost'.latest[a] => Tracked(a)'
          /\ \A m \in Names \ {a} : ghost'.latest[m] = ghost.latest[m] =>
                (Tracked(m) => Tracked(m)') /\ (Landed(m) => Landed(m)')
      BY ZenonT(30), <1>1, <1>2, <1>3, <1>4, <1>6, <3>1, QueueFrame
    <3> QED BY <1>6, <2>1, <3>2
  <2>2. CASE ~(conf.disk /\ c # NoContext)
    BY ZenonT(30), <1>1, <1>2, <1>4, <1>6, <2>2, QuietFrame
  <2> QED BY <2>1, <2>2
<1>9. Owners'
  BY <1>1, <1>2, <1>8, ZenonT(30) DEF Owners, MemoryOwners
<1>10. Placed'
  BY ZenonT(30), <1>1, <1>2, <1>3, <1>5, <1>8, <1>a DEF Placed, Arrived, Leaving
<1>11. OnDisk'
  <2> SUFFICES ASSUME conf.disk, NEW n \in Names, Kept(n)' PROVE Tracked(n)'
    BY <1>2, ZenonT(30) DEF OnDisk
  <2>1. n # a => Tracked(n)
    BY <1>1, <1>2, <1>7 DEF OnDisk
  <2> QED BY <1>7, <1>8, <2>1
<1>12. InMemory'
  <2>1. \A n \in DOMAIN pool.parked : Kept(n)' => pool.parked[n] = ghost'.latest[n]
    BY <1>1, <1>3, <1>7 DEF InMemory
  <2>2. \A n \in Names \ DOMAIN pool.parked : n # a => (Kept(n)' => conf.disk /\ Landed(n)')
    <3> SUFFICES ASSUME NEW n \in Names, n \notin DOMAIN pool.parked, n # a, Kept(n)'
                 PROVE  conf.disk /\ Landed(n)'
      BY ZenonT(30)
    <3>1. conf.disk /\ Landed(n)
      BY <1>1, <1>7, <1>a, ZenonT(30) DEF InMemory
    <3> QED BY <1>8, <3>1
  <2>3. live' = ghost'.latest[a]
    BY <1>2, <1>6, <1>c
  <2>4. main'.at \notin {"start", "cold", "find"}
    BY <1>5
  <2> QED BY <1>2, <1>a, <2>1, <2>2, <2>3, <2>4, ZenonT(30) DEF InMemory
<1>13. Saves'
  BY <1>5, <1>8, UnawaitedSaves
<1> QED BY <1>5, <1>6, <1>8, <1>9, <1>10, <1>11, <1>12, <1>13, ZenonT(30) DEF ServeInv

\* Shutdown: the live context is parked and saved.
LEMMA ParkActiveKeeps ==
    ASSUME ServeInv, ParkActive
    PROVE  ServeInv'
<1>1. /\ MainTypes /\ PoolShaped /\ DiskShaped /\ MemoryOwners /\ DiskOwners /\ Placed
      /\ OnDisk /\ InMemory /\ Saves /\ CancelSound
  BY DEF ServeInv, Owners
<1>a. PICK a \in Names : a = pool.active
  BY <1>1, PoolNames
<1>c. PICK c \in Context : c = live
  BY <1>1, PoolNames
<1>2. main.at = "park" /\ UNCHANGED <<disk, writeFaults, conf, inbox, live, ghost>>
  BY ZenonT(30) DEF ParkActive
<1>3. /\ a \notin DOMAIN pool.parked
      /\ (\A n \in DOMAIN pool.parked : n \in Names /\ Belongs(pool.parked[n], n))
      /\ Belongs(c, a) /\ (Kept(a) => c = ghost.latest[a])
  BY <1>1, <1>2, <1>a, <1>c, PoolNames DEF Placed, Leaving, MemoryOwners, InMemory, Generating
<1>4. Unawaited /\ ~Generating
  BY <1>1, <1>2, UnawaitedFacts DEF Generating
<1>5. CASE conf.disk /\ Queue(a, c, TRUE) /\ pool' = Park(live) /\ Goto("parking")
  <2>1. /\ PoolType(pool') /\ pool'.active = a
        /\ DOMAIN pool'.parked = DOMAIN pool.parked \cup {a} /\ pool'.parked[a] = c
        /\ \A m \in DOMAIN pool.parked : m # a => pool'.parked[m] = pool.parked[m]
    BY ZenonT(30), <1>1, <1>5, <1>a, <1>c, ParkFacts
  <2>2. MainTypes' /\ CancelSound' /\ main'.at = "parking"
    BY <1>1, <1>2, <1>5, GotoFacts DEF Places, Starting
  <2>3. PoolShaped' /\ \A n : (Kept(n)' <=> Kept(n))
    BY <1>1, <1>2, <2>1, ZenonT(30) DEF PoolShaped, Kept
  <2>4. ghost'.failed = ghost.failed /\ ghost'.latest = ghost.latest /\ TRUE \in BOOLEAN
    BY <1>2
  <2>5. /\ DiskShaped' /\ DiskOwners'
        /\ c = ghost'.latest[a] => Tracked(a)'
        /\ \A m \in Names \ {a} : ghost'.latest[m] = ghost.latest[m] =>
              (Tracked(m) => Tracked(m)') /\ (Landed(m) => Landed(m)')
    BY ZenonT(30), <1>1, <1>2, <1>3, <1>4, <1>5, <2>4, QueueFrame
  <2>6. Owners'
    <3>1. \A n \in DOMAIN pool'.parked : Belongs(pool'.parked[n], n)
      BY ZenonT(30), <1>3, <2>1
    <3> QED BY <1>2, <1>3, <1>c, <2>1, <2>5, <3>1, ZenonT(30) DEF Owners, MemoryOwners
  <2>7. Placed'
    BY ZenonT(30), <1>1, <1>2, <1>5, <2>2 DEF Placed, Arrived, Leaving
  <2>8. OnDisk'
    <3> SUFFICES ASSUME conf.disk, NEW n \in Names, Kept(n) PROVE Tracked(n)'
      BY <1>2, <2>3, ZenonT(30) DEF OnDisk
    <3>1. Tracked(n)
      BY <1>1, <1>2 DEF OnDisk
    <3> QED BY <1>3, <2>4, <2>5, <3>1
  <2>9. InMemory'
    <3>1. \A n \in DOMAIN pool'.parked : Kept(n) => pool'.parked[n] = ghost.latest[n]
      BY ZenonT(30), <1>1, <1>3, <2>1 DEF InMemory
    <3>2. \A n \in Names \ DOMAIN pool'.parked : n # a /\ (Kept(n) => conf.disk /\ Landed(n)')
      <4> TAKE n \in Names \ DOMAIN pool'.parked
      <4>1. n # a /\ n \notin DOMAIN pool.parked
        BY <2>1
      <4>2. Kept(n) => conf.disk /\ Landed(n)
        BY <1>a, <1>1, <4>1, ZenonT(30) DEF InMemory
      <4> QED BY ZenonT(30), <2>4, <2>5, <4>1, <4>2
    <3>3. main'.at \notin {"start", "cold", "find"}
      BY ZenonT(30), <2>2
    <3> QED BY <1>2, <1>3, <1>c, <2>1, <2>3, <2>4, <3>1, <3>2, <3>3, ZenonT(30) DEF InMemory
  <2>10. Saves'
    BY <2>2 DEF Saves
  <2> QED BY <2>2, <2>3, <2>5, <2>6, <2>7, <2>8, <2>9, <2>10, ZenonT(30) DEF ServeInv
<1>6. CASE UNCHANGED <<writer, pool>> /\ Goto("flush")
  <2>1. MainTypes' /\ CancelSound' /\ main'.at = "flush"
    BY <1>1, <1>2, <1>6, GotoFacts DEF Places, Starting
  <2>2. (Drained' <=> Drained)
    BY ZenonT(30), <1>1, <1>2, <1>6, QuietFrame
  <2>3. Placed'
    BY ZenonT(30), <1>1, <1>2, <1>6, <2>1, <2>2 DEF Placed, Arrived, Leaving
  <2>4. Saves'
    BY <2>1 DEF Saves
  <2>5. PoolShaped'
    BY <1>1, <1>2, <1>6, ZenonT(30) DEF PoolShaped
  <2> QED BY ZenonT(30), <1>2, <1>4, <1>6, <2>1, <2>3, <2>4, <2>5, MovesOnly
<1>7. CASE conf.disk /\ live # NoContext
  BY <1>a, <1>c, <1>5, <1>7 DEF ParkActive
<1>8. CASE ~(conf.disk /\ live # NoContext)
  BY ZenonT(30), <1>6, <1>8 DEF ParkActive
<1> QED BY <1>7, <1>8

\* Shutdown: the queue is drained.
LEMMA FlushDiskKeeps ==
    ASSUME ServeInv, FlushDisk
    PROVE  ServeInv'
<1>1. /\ MainTypes /\ PoolShaped /\ DiskShaped /\ DiskOwners /\ Placed /\ CancelSound
  BY DEF ServeInv, Owners
<1>2. /\ UNCHANGED <<disk, writer, writeFaults, conf, inbox, pool, live, ghost>>
      /\ main.at \in {"parking", "flush"}
  BY DEF FlushDisk
<1>3. PICK p \in {"flush", "exit"} : Goto(p) /\ (p = "exit" => Drained)
  BY DEF FlushDisk
<1>4. MainTypes' /\ CancelSound' /\ main'.at = p
  BY <1>1, <1>2, <1>3, GotoFacts DEF Places, Starting
<1>5. (Drained' <=> Drained)
  BY ZenonT(30), <1>1, <1>2, QuietFrame
<1>6. Placed'
  BY ZenonT(30), <1>1, <1>2, <1>3, <1>4, <1>5 DEF Placed, Arrived, Leaving
<1>7. Saves'
  BY <1>3, <1>4 DEF Saves
<1>8. PoolShaped'
  BY <1>1, <1>2, ZenonT(30) DEF PoolShaped
<1>9. ~Generating
  BY <1>2 DEF Generating
<1> QED BY ZenonT(30), <1>2, <1>3, <1>4, <1>6, <1>7, <1>8, <1>9, MovesOnly

\* What a fresh process starts with: nothing parked, nothing queued, nothing live.
LEMMA FreshFacts ==
    ASSUME NEW c \in Configs, NEW m, m = [Waiting EXCEPT !.at = "start"], NEW b, b = NoLines,
           NEW p, p = Fresh, NEW w, w = Idle
    PROVE  /\ m \in [at : Places, s : Names, then : {"", "reset", "prefill"}, seq : Nat,
                     tokens : Nat, burst : Nat, late : Nat]
           /\ m.at = "start" /\ m.late = 0 /\ m.burst = 1 /\ 0 <= c.burst /\ 0 <= 0
           /\ b.read = 0 /\ b.cancel = 0
           /\ b \in [queue : Seq([op : {"generate", "drop", "reset", "quit"}, s : Names, seq : Nat]),
                     read : Nat, cancel : Nat, open : BOOLEAN]
           /\ PoolType(p) /\ p.active \in Names /\ DOMAIN p.parked = {}
           /\ w \in WriterType /\ w.pending = <<>> /\ w.phase = "idle"
           /\ OnePerName(w.pending) /\ Range(w.pending) = {}
           /\ NoContext \in Context /\ \A n : Belongs(NoContext, n)
<1>1. Default \in Names /\ c.burst \in Nat
  BY ServeAssumption
<1>2. /\ m \in [at : Places, s : Names, then : {"", "reset", "prefill"}, seq : Nat,
                tokens : Nat, burst : Nat, late : Nat]
      /\ m.at = "start" /\ m.late = 0 /\ m.burst = 1
  BY <1>1, ZenonT(30) DEF Waiting, Places
<1>3. 0 <= c.burst /\ 0 <= 0
  BY <1>1
<1>4. /\ b.read = 0 /\ b.cancel = 0
      /\ b \in [queue : Seq([op : {"generate", "drop", "reset", "quit"}, s : Names, seq : Nat]),
                read : Nat, cancel : Nat, open : BOOLEAN]
  <2> DEFINE Line == [op : {"generate", "drop", "reset", "quit"}, s : Names, seq : Nat]
  <2>1. <<>> \in Seq(Line) /\ 0 \in Nat /\ TRUE \in BOOLEAN
    OBVIOUS
  <2> HIDE DEF Line
  <2>2. b \in [queue : Seq(Line), read : Nat, cancel : Nat, open : BOOLEAN]
    BY <2>1, ZenonT(30) DEF NoLines
  <2> QED BY <2>2, ZenonT(30) DEF NoLines, Line
<1>5. p.active \in Names /\ p.lru = <<>> /\ DOMAIN p.parked = {}
  BY <1>1 DEF Fresh
<1>6. PoolType(p)
  <2> DEFINE P == UNION {[E -> Context] : E \in SUBSET Names}
             f == [n \in {} |-> NoContext]
  <2>1. f \in [{} -> Context] /\ {} \in SUBSET Names
    OBVIOUS
  <2>2. f \in P
    BY <2>1, ZenonT(30)
  <2>3. p = [active |-> Default, parked |-> f, lru |-> <<>>] /\ <<>> \in Seq(Names)
    BY DEF Fresh
  <2> HIDE DEF P, f
  <2>4. p \in [active : Names, parked : P, lru : Seq(Names)]
    BY <1>1, <2>2, <2>3
  <2> QED BY <1>5, <2>4 DEF PoolType, P
<1>7. NoContext \in Context /\ \A n : Belongs(NoContext, n)
  BY DEF Context, Belongs
<1>8. w.pending = <<>> /\ w.phase = "idle"
  BY ZenonT(30) DEF Idle
<1>9. OnePerName(<<>>) /\ <<>> \in Seq(Snapshot) /\ Range(<<>>) = {}
  BY DEF OnePerName, Range
<1>10. w \in WriterType
  BY <1>7, <1>9, ZenonT(30) DEF Idle, WriterType
<1> QED BY <1>2, <1>3, <1>4, <1>5, <1>6, <1>7, <1>8, <1>9, <1>10, ZenonT(30)

\* The first start.
LEMMA InitEstablishes ==
    ASSUME Init
    PROVE  ServeInv
<1>1. /\ conf \in Configs /\ disk = <<>> /\ writer = Idle /\ writeFaults = 0
      /\ main = [Waiting EXCEPT !.at = "start"] /\ inbox = NoLines /\ pool = Fresh
      /\ live = NoContext
      /\ ghost = [latest |-> [n \in Names |-> NoContext], gone |-> {}, failed |-> {},
                  turns |-> 0, lines |-> 0, starts |-> 1]
  BY DEF Init
<1>2. /\ main \in [at : Places, s : Names, then : {"", "reset", "prefill"}, seq : Nat,
                   tokens : Nat, burst : Nat, late : Nat]
      /\ main.at = "start" /\ main.late = 0 /\ main.burst = 1 /\ 0 <= conf.burst /\ 0 <= 0
      /\ inbox.read = 0 /\ inbox.cancel = 0
      /\ inbox \in [queue : Seq([op : {"generate", "drop", "reset", "quit"}, s : Names, seq : Nat]),
                    read : Nat, cancel : Nat, open : BOOLEAN]
      /\ PoolType(pool) /\ pool.active \in Names /\ DOMAIN pool.parked = {}
      /\ writer \in WriterType /\ writer.pending = <<>> /\ writer.phase = "idle"
      /\ OnePerName(writer.pending) /\ Range(writer.pending) = {}
      /\ NoContext \in Context /\ \A n : Belongs(NoContext, n)
  BY <1>1, FreshFacts, ZenonT(30)
<1>3. /\ ghost \in [latest : [Names -> Context], gone : SUBSET Names, failed : SUBSET Names,
                    turns : Nat, lines : Nat, starts : Nat]
      /\ \A n \in Names : ghost.latest[n] = NoContext
  <2> DEFINE f == [n \in Names |-> NoContext]
             T == [Names -> Context]
  <2>1. f \in T /\ \A n \in Names : f[n] = NoContext
    BY ZenonT(30), <1>2
  <2> HIDE DEF f, T
  <2>2. ghost = [latest |-> f, gone |-> {}, failed |-> {}, turns |-> 0, lines |-> 0, starts |-> 1]
    BY ZenonT(30), <1>1 DEF f
  <2>3. /\ ghost \in [latest : T, gone : SUBSET Names, failed : SUBSET Names,
                      turns : Nat, lines : Nat, starts : Nat]
        /\ ghost.latest = f
    BY <2>1, <2>2
  <2> QED BY <2>1, <2>3 DEF T
<1>4. MainTypes /\ PoolShaped
  BY <1>1, <1>2, <1>3, ZenonT(30) DEF MainTypes, PoolShaped
<1>5. CancelSound
  <2>1. main.at \in Starting => main.burst = 1 /\ main.late = 0
    BY <1>2, ZenonT(30)
  <2> QED BY <1>2, <2>1, ZenonT(30) DEF CancelSound
<1>6. DiskShaped /\ Owners
  <2>1. OnePerFile(<<>>) /\ Range(<<>>) = {} /\ 0 \in Nat
    BY DEF OnePerFile, Range
  <2>2. ~Busy
    BY ZenonT(30), <1>2 DEF Busy
  <2> QED BY ZenonT(30), <1>1, <1>2, <2>1, <2>2 DEF DiskShaped, Owners, MemoryOwners, DiskOwners
<1>7. Placed
  BY ZenonT(30), <1>1, <1>2 DEF Placed, Arrived, Leaving, Drained, Busy
<1>8. OnDisk /\ InMemory
  <2>1. \A n \in Names : ~Kept(n)
    BY <1>3 DEF Kept
  <2> QED BY ZenonT(30), <1>2, <2>1 DEF OnDisk, InMemory
<1>9. Saves
  BY ZenonT(30), <1>2 DEF Saves, Busy
<1> QED BY <1>4, <1>5, <1>6, <1>7, <1>8, <1>9, ZenonT(30) DEF ServeInv

\* A new process on the files of the last one.
LEMMA RestartKeeps ==
    ASSUME ServeInv, Restart
    PROVE  ServeInv'
<1>0. /\ MainTypes /\ PoolShaped /\ DiskShaped /\ DiskOwners /\ Placed
  BY DEF ServeInv, Owners
<1>1. /\ writer' = Idle /\ main' = [Waiting EXCEPT !.at = "start"] /\ inbox' = NoLines
      /\ pool' = Fresh /\ live' = NoContext /\ UNCHANGED <<disk, writeFaults, conf>>
      /\ ghost' = [ghost EXCEPT !.starts = @ + 1, !.failed = {},
                      !.gone = @ \cup {n \in Names : Load(n) # ghost.latest[n]}]
  BY DEF Restart
<1>2. /\ main' \in [at : Places, s : Names, then : {"", "reset", "prefill"}, seq : Nat,
                    tokens : Nat, burst : Nat, late : Nat]
      /\ main'.at = "start" /\ main'.late = 0 /\ main'.burst = 1 /\ 0 <= conf.burst /\ 0 <= 0
      /\ inbox'.read = 0 /\ inbox'.cancel = 0
      /\ inbox' \in [queue : Seq([op : {"generate", "drop", "reset", "quit"}, s : Names, seq : Nat]),
                     read : Nat, cancel : Nat, open : BOOLEAN]
      /\ PoolType(pool') /\ pool'.active \in Names /\ DOMAIN pool'.parked = {}
      /\ writer' \in WriterType /\ writer'.pending = <<>> /\ writer'.phase = "idle"
      /\ OnePerName(writer'.pending) /\ Range(writer'.pending) = {}
      /\ NoContext \in Context /\ \A n : Belongs(NoContext, n)
  <2>1. conf \in Configs
    BY <1>0, ZenonT(30) DEF MainTypes
  <2> QED BY <1>1, <2>1, FreshFacts, ZenonT(30)
<1>3. /\ ghost' \in [latest : [Names -> Context], gone : SUBSET Names, failed : SUBSET Names,
                     turns : Nat, lines : Nat, starts : Nat]
      /\ ghost'.latest = ghost.latest
      /\ \A n \in Names : Kept(n)' => Load(n) = ghost.latest[n] /\ ghost.latest[n] # NoContext
  <2> DEFINE T == [Names -> Context]
             g == ghost.gone \cup {n \in Names : Load(n) # ghost.latest[n]}
             k == ghost.starts + 1
  <2>1. ghost \in [latest : T, gone : SUBSET Names, failed : SUBSET Names,
                   turns : Nat, lines : Nat, starts : Nat]
    BY <1>0 DEF PoolShaped
  <2>2. /\ ghost' = [ghost EXCEPT !.starts = k, !.failed = {}, !.gone = g]
        /\ g \in SUBSET Names /\ k \in Nat
        /\ \A n \in Names : n \notin g => Load(n) = ghost.latest[n]
    BY <1>1, <2>1
  <2> HIDE DEF T, g, k
  <2>3. /\ ghost' \in [latest : T, gone : SUBSET Names, failed : SUBSET Names,
                       turns : Nat, lines : Nat, starts : Nat]
        /\ ghost'.latest = ghost.latest /\ ghost'.gone = g
    BY ZenonT(30), <2>1, <2>2
  <2> QED BY <2>2, <2>3 DEF T, Kept
<1>4. MainTypes' /\ PoolShaped'
  BY <1>0, <1>1, <1>2, <1>3, ZenonT(30) DEF MainTypes, PoolShaped
<1>5. CancelSound'
  <2>1. main'.at \in Starting => main'.burst = 1 /\ main'.late = 0
    BY <1>2, ZenonT(30)
  <2> QED BY <1>1, <1>2, <2>1, ZenonT(30) DEF CancelSound
<1>6. DiskShaped' /\ Owners' /\ ~Busy'
  <2>1. ~Busy'
    BY ZenonT(30), <1>2 DEF Busy
  <2> QED BY ZenonT(30), <1>0, <1>1, <1>2, <2>1 DEF DiskShaped, Owners, MemoryOwners, DiskOwners
<1>7. Placed'
  BY ZenonT(30), <1>0, <1>1, <1>2, <1>6 DEF Placed, Arrived, Leaving, Drained
<1>8. \A n \in Names : Kept(n)' => conf.disk /\ Landed(n)' /\ Tracked(n)'
  <2> SUFFICES ASSUME NEW n \in Names, Kept(n)' PROVE conf.disk /\ Landed(n)' /\ Tracked(n)'
    OBVIOUS
  <2>1. Load(n)' = ghost'.latest[n] /\ Load(n) # NoContext
    <3>1. Load(n)' = Load(n)
      BY <1>1 DEF Load
    <3> QED BY <1>3, <3>1
  <2>2. conf.disk
    <3>1. disk = <<>> => Load(n) = NoContext
      BY DEF Load, Range
    <3> QED BY <1>0, <2>1, <3>1 DEF Placed
  <2>3. ~Pends(n)' /\ ~Writes(n)'
    BY ZenonT(30), <1>2, <1>6 DEF Pends, Writes
  <2> QED BY <1>2, <2>1, <2>2, <2>3, ZenonT(30) DEF Landed, Tracked
<1>9. OnDisk' /\ InMemory'
  BY ZenonT(30), <1>1, <1>2, <1>8 DEF OnDisk, InMemory
<1>10. Saves'
  BY ZenonT(30), <1>2, <1>6 DEF Saves
<1> QED BY <1>4, <1>5, <1>6, <1>7, <1>9, <1>10, ZenonT(30) DEF ServeInv

\* A step that changes nothing.
LEMMA StutterKeeps ==
    ASSUME ServeInv, UNCHANGED vars
    PROVE  ServeInv'
<1>1. /\ MainTypes /\ PoolShaped /\ DiskShaped /\ Owners /\ Placed /\ OnDisk /\ InMemory
      /\ Saves /\ CancelSound
  BY DEF ServeInv
<1>2. /\ UNCHANGED <<disk, writer, writeFaults, conf, main, inbox, pool, live, ghost>>
  BY DEF vars
<1>3. MainTypes' /\ PoolShaped' /\ CancelSound'
  BY <1>1, <1>2, ZenonT(30) DEF MainTypes, PoolShaped, CancelSound, Cancelled
<1>4. DiskShaped' /\ Owners' /\ Placed'
  BY <1>1, <1>2, ZenonT(30) DEF DiskShaped, Owners, MemoryOwners, DiskOwners, Placed, Drained, Busy
<1>5. /\ (\A n : (Kept(n)' <=> Kept(n)) /\ (Tracked(n)' <=> Tracked(n)) /\ (Landed(n)' <=> Landed(n)))
      /\ (Generating' <=> Generating)
  BY <1>2, ZenonT(30) DEF Kept, Tracked, Landed, Pends, Writes, Busy, Load, Generating
<1>6. OnDisk' /\ InMemory'
  BY <1>1, <1>2, <1>5, ZenonT(30) DEF OnDisk, InMemory
<1>7. Saves'
  BY <1>1, <1>2, ZenonT(30) DEF Saves, Victim, Pends, Writes, Busy
<1> QED BY <1>3, <1>4, <1>6, <1>7, ZenonT(30) DEF ServeInv

-----------------------------------------------------------------------------
(* The theorems *)

\* The invariant holds of every behaviour of the serve loop: the pool's LRU list
\* names parked sessions once each, every copy of a context is its session's, the
\* newest snapshot queued for a session is what its last turn left, and a session
\* that is in memory nowhere is whole on disk.
THEOREM ServeInvariantHolds == Spec => []ServeInv
<1>1. Init => ServeInv
  BY InitEstablishes
<1>2. ServeInv /\ [Next]_vars => ServeInv'
  <2> SUFFICES ASSUME ServeInv, [Next]_vars PROVE ServeInv'
    OBVIOUS
  <2>1. CASE ReadLine
    BY <2>1, ReadLineKeeps
  <2>2. CASE Main
    <3>1. CASE Start
      BY <3>1, StartKeeps
    <3>2. CASE Pop
      BY <3>2, PopKeeps
    <3>3. CASE SwitchAway
      BY <3>3, SwitchAwayKeeps
    <3>4. CASE Find
      BY <3>4, FindKeeps
    <3>5. CASE GoCold
      BY <3>5, GoColdKeeps
    <3>6. CASE EnforceBudget
      BY <3>6, EnforceBudgetKeeps
    <3>7. CASE Saved
      BY <3>7, SavedKeeps
    <3>8. CASE Drop
      BY <3>8, DropKeeps
    <3>9. CASE DropRest
      BY <3>9, DropRestKeeps
    <3>10. CASE Reset \/ GenerateFails
      BY <3>10, ForgetKeeps
    <3>11. CASE Prefill \/ FeedChunk
      BY <3>11, PrefillKeeps
    <3>12. CASE Emit
      BY <3>12, EmitKeeps
    <3>13. CASE DecodeToken
      BY <3>13, DecodeTokenKeeps
    <3>14. CASE Checkpoint
      BY <3>14, CheckpointKeeps
    <3>15. CASE ParkActive
      BY <3>15, ParkActiveKeeps
    <3>16. CASE FlushDisk
      BY <3>16, FlushDiskKeeps
    <3> QED BY ZenonT(30), <2>2, <3>1, <3>2, <3>3, <3>4, <3>5, <3>6, <3>7, <3>8, <3>9, <3>10, <3>11,
               <3>12, <3>13, <3>14, <3>15, <3>16 DEF Main
  <2>3. CASE WriterStep
    BY <2>3, WriterKeeps
  <2>4. CASE Restart
    BY <2>4, RestartKeeps
  <2>5. CASE UNCHANGED vars
    BY <2>5, StutterKeeps
  <2> QED BY <2>1, <2>2, <2>3, <2>4, <2>5 DEF Next
<1> QED BY <1>1, <1>2, PTL DEF Spec

\* Between requests the live context is the active session's own and is what its last
\* turn left, through any parking, saving, eviction, reload and restart:
\* SessionPool::activate.
THEOREM ResumesHolds == Spec => []Resumes
<1>1. ServeInv => Resumes
  <2> SUFFICES ASSUME ServeInv, main.at = "idle"
               PROVE  /\ live # NoContext => live.owner = pool.active
                      /\ Kept(pool.active) => live = ghost.latest[pool.active]
    BY DEF Resumes
  <2>1. MemoryOwners /\ InMemory
    BY DEF ServeInv, Owners
  <2> QED BY <2>1 DEF MemoryOwners, Belongs, InMemory, Generating
<1> QED BY <1>1, ServeInvariantHolds, PTL

\* The context a session's last turn left is live, parked or in its file, and after a
\* clean exit in its file unless its write failed: enforce_budget, KvDiskWriter.
THEOREM NothingLostHolds == Spec => []NothingLost
<1>1. ServeInv => NothingLost
  <2> SUFFICES ASSUME ServeInv, NEW n \in Names, Kept(n)
               PROVE  \/ Load(n) = ghost.latest[n]
                      \/ /\ main.at # "exit"
                         /\ \/ pool.active = n /\ (live = ghost.latest[n] \/ Generating)
                            \/ n \in DOMAIN pool.parked /\ pool.parked[n] = ghost.latest[n]
                      \/ main.at = "exit" /\ (conf.disk => n \in ghost.failed)
    BY DEF NothingLost
  <2>1. OnDisk /\ InMemory /\ Placed
    BY DEF ServeInv
  <2>2. CASE main.at = "exit"
    <3>1. ~Pends(n) /\ ~Writes(n)
      BY <2>1, <2>2 DEF Placed, Drained, Pends, Writes, Range
    <3>2. conf.disk => Tracked(n)
      BY ZenonT(30), <2>1, <2>2 DEF OnDisk
    <3> QED BY <2>2, <3>1, <3>2, ZenonT(30) DEF Tracked
  <2>3. CASE main.at # "exit"
    <3>1. CASE n \in DOMAIN pool.parked
      BY ZenonT(30), <2>1, <2>3, <3>1 DEF InMemory
    <3>2. CASE n \notin DOMAIN pool.parked /\ (n # pool.active \/ main.at = "start")
      BY ZenonT(30), <2>1, <3>2 DEF InMemory, Landed
    <3>3. CASE n \notin DOMAIN pool.parked /\ n = pool.active /\ main.at # "start"
      BY <2>1, <2>3, <3>3 DEF InMemory
    <3> QED BY ZenonT(30), <3>1, <3>2, <3>3
  <2> QED BY ZenonT(30), <2>2, <2>3
<1> QED BY <1>1, ServeInvariantHolds, PTL

\* After a cancel a turn emits no more than the tokens of the step it was in:
\* turn_emit, Inbox::cancel_upto.
THEOREM CancelStopsHolds == Spec => []CancelStops
<1>1. ServeInv => CancelStops
  BY DEF ServeInv, CancelSound, CancelStops
<1> QED BY <1>1, ServeInvariantHolds, PTL

=============================================================================
