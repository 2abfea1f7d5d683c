--------------------------- MODULE ServeInvariant ---------------------------
(***************************************************************************)
(* The inductive invariant of the serve loop, its sessions and the disk    *)
(* writer, what the operations on files, queues and the pool do to it, and *)
(* its preservation by the writer thread, by the reader thread and by a    *)
(* turn.  Any session names, budgets, requests, failures, kills and        *)
(* restarts.                                                               *)
(***************************************************************************)
EXTENDS Serve, SequenceTheorems, FiniteSetTheorems, TLAPS

-----------------------------------------------------------------------------
(* The inductive invariant *)

Context == {NoContext} \cup [owner : Names, turn : Nat]
Places == {"start", "idle", "switch", "find", "cold", "budget", "saving", "drop", "dropping", "reset",
           "prefill", "feeding", "emit", "decode", "checkpoint", "park", "parking", "flush", "exit"}

MainTypes ==
    /\ conf \in Configs
    /\ main \in [at : Places, s : Names, then : {"", "reset", "prefill"}, seq : Nat,
                 tokens : Nat, burst : Nat, late : Nat]
    /\ inbox \in [queue : Seq([op : {"generate", "drop", "reset", "quit"}, s : Names, seq : Nat]),
                  read : Nat, cancel : Nat, open : BOOLEAN]

\* The LRU list names parked sessions, each once.
PoolType(p) ==
    /\ p \in [active : Names, parked : UNION {[D -> Context] : D \in SUBSET Names},
              lru : Seq(Names)]
    /\ \A i, j \in DOMAIN p.lru : p.lru[i] = p.lru[j] => i = j
    /\ \A i \in DOMAIN p.lru : p.lru[i] \in DOMAIN p.parked
PoolShaped ==
    /\ PoolType(pool)
    /\ live \in Context
    /\ ghost \in [latest : [Names -> Context], gone : SUBSET Names, failed : SUBSET Names,
                  turns : Nat, lines : Nat, starts : Nat]

\* A session has one file and one pending snapshot at most.
SavedFile == [file : {FileOf[n] : n \in Names}, ctx : Context]
OnePerFile(d) == d \in Seq(SavedFile) /\ \A i, j \in DOMAIN d : d[i].file = d[j].file => i = j
Snapshot == [name : Names, ctx : Context, save : BOOLEAN]
OnePerName(q) == q \in Seq(Snapshot) /\ \A i, j \in DOMAIN q : q[i].name = q[j].name => i = j
WriterType ==
    [pending : Seq(Snapshot), phase : {"idle", "write", "remove", "rename", "complete"},
     name : Names \cup {""}, ctx : Context, save : BOOLEAN, ok : BOOLEAN,
     result : {"none", "ok", "failed"}]
DiskShaped ==
    /\ OnePerFile(disk)
    /\ writer \in WriterType /\ OnePerName(writer.pending)
    /\ Busy => writer.name \in Names
    /\ writeFaults \in Nat

\* Every copy of a session's context is that session's.
Belongs(c, n) == c = NoContext \/ c.owner = n
MemoryOwners ==
    /\ Belongs(live, pool.active)
    /\ \A n \in DOMAIN pool.parked : Belongs(pool.parked[n], n)
DiskOwners ==
    /\ \A e \in Range(writer.pending) : Belongs(e.ctx, e.name)
    /\ Busy => Belongs(writer.ctx, writer.name)
    /\ \A e \in Range(disk) : \A n \in Names : e.file = FileOf[n] => Belongs(e.ctx, n)
Owners == MemoryOwners /\ DiskOwners

\* Where the main thread is says which session is active and what is parked.
Arrived == {"budget", "saving", "reset", "prefill", "feeding", "emit", "decode", "checkpoint"}
Leaving == {"find", "cold", "parking", "flush", "exit"}
Placed ==
    /\ main.at \in Arrived => main.s = pool.active
    /\ main.at \in {"find", "cold"} => main.s # pool.active
    /\ main.at \notin Leaving => pool.active \notin DOMAIN pool.parked
    /\ main.at \in {"switch", "find", "cold", "budget", "saving"} => main.then \in {"reset", "prefill"}
    /\ main.at = "cold" => main.s \in ghost.gone /\ main.s \notin DOMAIN pool.parked /\ live = NoContext
    /\ main.at = "saving" => conf.disk /\ pool.lru # <<>>
    /\ main.at = "exit" => Drained
    /\ ~conf.disk => disk = <<>> /\ Drained

Pends(n) == \E e \in Range(writer.pending) : e.name = n
Writes(n) == Busy /\ writer.name = n
Landed(n) == ~Pends(n) /\ ~Writes(n) /\ Load(n) = ghost.latest[n]

\* The newest snapshot queued for a session is its last turn's: pending, being
\* written, or in the file unless the write failed.
Tracked(n) ==
    /\ \A e \in Range(writer.pending) : e.name = n => e.ctx = ghost.latest[n]
    /\ ~Pends(n) /\ Writes(n) =>
         /\ writer.ctx = ghost.latest[n]
         /\ writer.phase = "complete" /\ writer.ok => Load(n) = ghost.latest[n]
    /\ ~Pends(n) /\ ~Writes(n) => Load(n) = ghost.latest[n] \/ n \in ghost.failed
OnDisk ==
    conf.disk => \A n \in Names :
        Kept(n) /\ ~(main.at = "dropping" /\ main.s = n) => Tracked(n)

\* A session's last context is parked, live, or settled on disk.
InMemory ==
    /\ \A n \in DOMAIN pool.parked : Kept(n) => pool.parked[n] = ghost.latest[n]
    /\ \A n \in Names \ DOMAIN pool.parked :
         Kept(n) /\ (n # pool.active \/ main.at = "start") => conf.disk /\ Landed(n)
    /\ Kept(pool.active) /\ ~Generating /\ main.at \notin {"start", "cold"} =>
         live = ghost.latest[pool.active]
    /\ Kept(pool.active) /\ main.at \in {"find", "cold"} => pool.active \in DOMAIN pool.parked

\* The one snapshot somebody waits for is the victim's, and its result is known once
\* it has been written.
Saves ==
    /\ \A e \in Range(writer.pending) : e.save =>
         /\ main.at \in {"saving", "parking", "flush", "exit"}
         /\ main.at = "saving" => e.name = Victim /\ writer.result = "none"
    /\ Busy /\ writer.save =>
         /\ main.at \in {"saving", "parking", "flush", "exit"}
         /\ main.at = "saving" => writer.name = Victim /\ writer.result = "none" /\ ~Pends(Victim)
    /\ main.at = "saving" /\ writer.result = "ok" =>
         ~Pends(Victim) /\ ~Writes(Victim) /\ Victim \notin ghost.failed

\* A turn that emits a token after a cancel is in the step the cancel fell into.
Starting == {"switch", "find", "cold", "budget", "saving", "prefill", "feeding"}
CancelSound ==
    /\ inbox.cancel <= inbox.read
    /\ main.late <= conf.burst
    /\ main.at \in Starting => main.burst = 1 /\ main.late = 0
    /\ main.at = "decode" => main.late = 0
    /\ main.at = "emit" =>
         /\ main.burst >= 1 /\ main.late + main.burst <= conf.burst
         /\ main.late > 0 => Cancelled

ServeInv ==
    /\ MainTypes /\ PoolShaped /\ DiskShaped
    /\ Owners /\ Placed /\ OnDisk /\ InMemory /\ Saves /\ CancelSound

-----------------------------------------------------------------------------
(* Sequences that hold one element of each key *)

\* A sequence without one of its elements.
LEMMA OmitFacts ==
    ASSUME NEW S, NEW s \in Seq(S), NEW I \in SUBSET DOMAIN s, \A i, j \in I : i = j
    PROVE  /\ Omit(s, I) \in Seq(S)
           /\ Range(Omit(s, I)) = {s[k] : k \in DOMAIN s \ I}
           /\ \A i, j \in DOMAIN Omit(s, I) : i # j =>
                 \E k, l \in DOMAIN s \ I : k # l /\ Omit(s, I)[i] = s[k] /\ Omit(s, I)[j] = s[l]
<1>1. CASE I = {}
  <2>1. Omit(s, I) = s
    BY <1>1 DEF Omit
  <2> QED BY <1>1, <2>1 DEF Range
<1>2. CASE I # {}
  <2> DEFINE n == CHOOSE i \in I : TRUE
             t == [j \in 1 .. Len(s) - 1 |-> IF j < n THEN s[j] ELSE s[j + 1]]
  <2>1. n \in I /\ I = {n}
    BY <1>2
  <2>2. Omit(s, I) = t
    BY <1>2 DEF Omit
  <2> HIDE DEF n
  <2>3. n \in 1 .. Len(s) /\ Len(s) \in Nat /\ DOMAIN s = 1 .. Len(s)
    BY <2>1
  <2>4. \A j \in 1 .. Len(s) - 1 :
           t[j] = IF j < n THEN s[j] ELSE s[j + 1]
    BY DEF t
  <2>5. t \in Seq(S) /\ DOMAIN t = 1 .. Len(s) - 1
    BY <2>3
  <2> HIDE DEF t
  <2>6. \A j \in DOMAIN t : \E k \in DOMAIN s \ I : t[j] = s[k] /\ k = IF j < n THEN j ELSE j + 1
    BY <2>1, <2>3, <2>4, <2>5
  <2>7. \A k \in DOMAIN s \ I : \E j \in DOMAIN t : t[j] = s[k]
    <3> TAKE k \in DOMAIN s \ I
    <3>1. CASE k < n
      <4>1. k \in 1 .. Len(s) - 1 /\ t[k] = s[k]
        BY <2>3, <2>4, <3>1
      <4> QED BY <2>5, <4>1
    <3>2. CASE k > n
      <4>1. k - 1 \in 1 .. Len(s) - 1 /\ ~(k - 1 < n) /\ (k - 1) + 1 = k
        BY <2>3, <3>2
      <4>2. t[k - 1] = s[k]
        BY <2>4, <4>1
      <4> QED BY <2>5, <4>1, <4>2
    <3>3. k # n
      BY <2>1
    <3> QED BY <2>3, <3>1, <3>2, <3>3
  <2>8. Range(t) = {s[k] : k \in DOMAIN s \ I}
    BY <2>6, <2>7 DEF Range
  <2>9. \A i, j \in DOMAIN t : i # j =>
           \E k, l \in DOMAIN s \ I : k # l /\ t[i] = s[k] /\ t[j] = s[l]
    BY <2>3, <2>5, <2>6
  <2> QED BY <2>2, <2>5, <2>8, <2>9
<1> QED BY <1>1, <1>2

\* A sequence with one more element.
LEMMA AppendFacts ==
    ASSUME NEW S, NEW s \in Seq(S), NEW e \in S
    PROVE  /\ Append(s, e) \in Seq(S)
           /\ Range(Append(s, e)) = Range(s) \cup {e}
           /\ \A i, j \in DOMAIN Append(s, e) : i # j =>
                 \/ i \in DOMAIN s /\ j \in DOMAIN s /\ Append(s, e)[i] = s[i] /\ Append(s, e)[j] = s[j]
                 \/ i \in DOMAIN s /\ Append(s, e)[i] = s[i] /\ Append(s, e)[j] = e
                 \/ j \in DOMAIN s /\ Append(s, e)[j] = s[j] /\ Append(s, e)[i] = e
<1> DEFINE t == Append(s, e)
<1>1. /\ t \in Seq(S) /\ Len(t) = Len(s) + 1 /\ Len(s) \in Nat
      /\ DOMAIN t = 1 .. Len(s) + 1 /\ DOMAIN s = 1 .. Len(s)
  OBVIOUS
<1>2. (\A i \in 1 .. Len(s) : t[i] = s[i]) /\ t[Len(s) + 1] = e
  OBVIOUS
<1> HIDE DEF t
<1>3. \A i \in DOMAIN t : (i \in DOMAIN s /\ t[i] = s[i]) \/ (i = Len(s) + 1 /\ t[i] = e)
  BY <1>1, <1>2
<1>4. DOMAIN s \subseteq DOMAIN t /\ Len(s) + 1 \in DOMAIN t
  BY <1>1
<1>5. Range(t) = Range(s) \cup {e}
  BY <1>1, <1>2, <1>3, <1>4, ZenonT(30) DEF Range
<1>6. \A i, j \in DOMAIN t : i # j =>
         \/ i \in DOMAIN s /\ j \in DOMAIN s /\ t[i] = s[i] /\ t[j] = s[j]
         \/ i \in DOMAIN s /\ t[i] = s[i] /\ t[j] = e
         \/ j \in DOMAIN s /\ t[j] = s[j] /\ t[i] = e
  BY <1>3, ZenonT(30)
<1> QED BY <1>1, <1>5, <1>6 DEF t

-----------------------------------------------------------------------------
(* Files *)

Found(d, n) ==
    IF \E e \in Range(d) : e.file = FileOf[n]
      THEN (CHOOSE e \in Range(d) : e.file = FileOf[n]).ctx
      ELSE NoContext

\* A file per session at most: what is loaded is its content.
LEMMA FoundFacts ==
    ASSUME NEW d, OnePerFile(d), NEW n \in Names
    PROVE  /\ \A e \in Range(d) : e.file = FileOf[n] => Found(d, n) = e.ctx
           /\ (\A e \in Range(d) : e.file # FileOf[n]) => Found(d, n) = NoContext
           /\ Found(d, n) \in Context
<1>1. \A e, f \in Range(d) : e.file = f.file => e = f
  BY DEF OnePerFile, Range
<1>2. \A i \in DOMAIN d : d[i] \in SavedFile
  BY DEF OnePerFile
<1>3. \A e \in Range(d) : e.ctx \in Context
  BY <1>2 DEF Range, SavedFile
<1>4. CASE \E e \in Range(d) : e.file = FileOf[n]
  <2> DEFINE c == CHOOSE e \in Range(d) : e.file = FileOf[n]
  <2>1. c \in Range(d) /\ c.file = FileOf[n]
    BY <1>4
  <2>2. Found(d, n) = c.ctx
    BY <1>4 DEF Found
  <2> HIDE DEF c
  <2> QED BY <1>1, <1>3, <1>4, <2>1, <2>2
<1>5. CASE ~\E e \in Range(d) : e.file = FileOf[n]
  BY <1>5 DEF Found, Context
<1> QED BY <1>4, <1>5

\* What is loaded depends on the session's own file only.
LEMMA FoundKept ==
    ASSUME NEW d, OnePerFile(d), NEW f, OnePerFile(f), NEW n \in Names,
           \A e \in Range(d) : e.file = FileOf[n] => e \in Range(f),
           \A e \in Range(f) : e.file = FileOf[n] => e \in Range(d)
    PROVE  Found(f, n) = Found(d, n)
<1>1. CASE \E e \in Range(d) : e.file = FileOf[n]
  BY <1>1, FoundFacts
<1>2. CASE \A e \in Range(d) : e.file # FileOf[n]
  BY <1>2, FoundFacts
<1> QED BY <1>1, <1>2

\* Removing a file leaves the others.
LEMMA OthersFacts ==
    ASSUME NEW d, OnePerFile(d), NEW n \in Names
    PROVE  /\ OnePerFile(Others(d, FileOf[n]))
           /\ Range(Others(d, FileOf[n])) = {e \in Range(d) : e.file # FileOf[n]}
           /\ Found(Others(d, FileOf[n]), n) = NoContext
           /\ \A m \in Names \ {n} : Found(Others(d, FileOf[n]), m) = Found(d, m)
<1> DEFINE I == {i \in DOMAIN d : d[i].file = FileOf[n]}
           t == Others(d, FileOf[n])
<1>1. t = Omit(d, I)
  BY DEF Others
<1>2. I \in SUBSET DOMAIN d /\ \A i, j \in I : i = j
  BY DEF OnePerFile
<1>3. /\ t \in Seq(SavedFile)
      /\ Range(t) = {d[k] : k \in DOMAIN d \ I}
      /\ \A i, j \in DOMAIN t : i # j =>
            \E k, l \in DOMAIN d \ I : k # l /\ t[i] = d[k] /\ t[j] = d[l]
  <2>1. d \in Seq(SavedFile)
    BY DEF OnePerFile
  <2> HIDE DEF I, t
  <2>2. /\ Omit(d, I) \in Seq(SavedFile)
        /\ Range(Omit(d, I)) = {d[k] : k \in DOMAIN d \ I}
        /\ \A i, j \in DOMAIN Omit(d, I) : i # j =>
              \E k, l \in DOMAIN d \ I : k # l /\ Omit(d, I)[i] = d[k] /\ Omit(d, I)[j] = d[l]
    BY <1>2, <2>1, OmitFacts
  <2> QED BY <1>1, <2>2
<1>4. Range(t) = {e \in Range(d) : e.file # FileOf[n]}
  <2>1. {d[k] : k \in DOMAIN d \ I} = {e \in Range(d) : e.file # FileOf[n]}
    BY DEF Range
  <2> HIDE DEF t, I
  <2> QED BY <1>3, <2>1
<1> HIDE DEF I, t
<1>5. OnePerFile(t)
  BY <1>2, <1>3 DEF OnePerFile
<1>6. Found(t, n) = NoContext
  BY <1>4, <1>5, FoundFacts
<1>7. \A m \in Names \ {n} : Found(t, m) = Found(d, m)
  <2> TAKE m \in Names \ {n}
  <2>1. FileOf[m] # FileOf[n]
    BY ServeAssumption
  <2> QED BY <1>4, <1>5, <2>1, FoundKept
<1> QED BY <1>4, <1>5, <1>6, <1>7 DEF t

\* The disk budget takes the oldest files; the last written goes only when none is left.
LEMMA BudgetFacts ==
    ASSUME NEW d, OnePerFile(d), d # <<>>
    PROVE  /\ OnePerFile(EnforceDiskBudget(d))
           /\ Range(EnforceDiskBudget(d)) \subseteq Range(d)
           /\ d[Len(d)] \in Range(EnforceDiskBudget(d)) \/ EnforceDiskBudget(d) = <<>>
<1>1. d \in Seq(SavedFile) /\ Len(d) \in Nat /\ Len(d) # 0 /\ DOMAIN d = 1 .. Len(d)
  BY DEF OnePerFile
<1>2. CASE EnforceDiskBudget(d) = d
  BY <1>1, <1>2 DEF Range
<1>3. CASE EnforceDiskBudget(d) # d
  <2> DEFINE bytes == [i \in DOMAIN d |-> Bytes(d[i].ctx.owner)]
             fit == {i \in DOMAIN d : SumFunctionOnSet(bytes, i .. Len(d)) <= conf.diskBudget}
             b == Cardinality(fit)
             t == SubSeq(d, Len(d) - b + 1, Len(d))
  <2>1. EnforceDiskBudget(d) = t
    BY <1>3, Zenon DEF EnforceDiskBudget
  <2>2. fit \in SUBSET (1 .. Len(d))
    BY <1>1
  <2> HIDE DEF fit
  <2>3. b \in Nat /\ b <= Len(d)
    <3>1. IsFiniteSet(1 .. Len(d)) /\ Cardinality(1 .. Len(d)) = Len(d)
      BY <1>1, FS_Interval
    <3>2. IsFiniteSet(fit) /\ Cardinality(fit) <= Cardinality(1 .. Len(d))
      BY <2>2, <3>1, FS_Subset
    <3> QED BY <3>1, <3>2, FS_CardinalityType
  <2> HIDE DEF b
  <2>4. CASE b = 0
    <3>1. Len(d) - b + 1 \in Int /\ Len(d) \in Int /\ Len(d) < Len(d) - b + 1
      BY <1>1, <2>4
    <3>2. t = <<>>
      BY <3>1, SubSeqEmpty
    <3> HIDE DEF t
    <3>3. OnePerFile(t) /\ Range(t) = {}
      BY <3>2 DEF OnePerFile, Range
    <3> QED BY <2>1, <3>2, <3>3
  <2>5. CASE b # 0
    <3>1. /\ t \in Seq(SavedFile) /\ Len(t) = b
          /\ \A i \in 1 .. b : t[i] = d[i + (Len(d) - b)]
      <4>1. /\ Len(d) - b + 1 \in Int /\ Len(d) \in Int /\ Len(d) - b + 1 <= Len(d)
        BY <1>1, <2>3, <2>5
      <4>2. \A i \in Len(d) - b + 1 .. Len(d) : d[i] \in SavedFile
        BY <1>1, <2>3
      <4>3. /\ t \in Seq(SavedFile)
            /\ Len(t) = Len(d) - (Len(d) - b + 1) + 1
            /\ \A i \in 1 .. Len(d) - (Len(d) - b + 1) + 1 : t[i] = d[(Len(d) - b + 1) + i - 1]
        BY <4>1, <4>2, SubSeqProperties
      <4> HIDE DEF t
      <4>4. Len(d) - (Len(d) - b + 1) + 1 = b
        BY <1>1, <2>3
      <4>5. \A i \in 1 .. b : (Len(d) - b + 1) + i - 1 = i + (Len(d) - b)
        BY <1>1, <2>3
      <4> QED BY <4>3, <4>4, <4>5
    <3> HIDE DEF t
    <3>2. \A i \in 1 .. b : i + (Len(d) - b) \in DOMAIN d /\ t[i] = d[i + (Len(d) - b)]
      BY <1>1, <2>3, <3>1
    <3>3. DOMAIN t = 1 .. b
      BY <2>3, <3>1
    <3>4. \A i, j \in DOMAIN t : t[i].file = t[j].file => i = j
      <4> SUFFICES ASSUME NEW i \in 1 .. b, NEW j \in 1 .. b, t[i].file = t[j].file
                   PROVE  i = j
        BY <3>3
      <4>1. i + (Len(d) - b) = j + (Len(d) - b)
        BY <3>2 DEF OnePerFile
      <4> QED BY <1>1, <2>3, <4>1
    <3>5. Range(t) \subseteq Range(d)
      BY <3>2, <3>3 DEF Range
    <3>6. b \in DOMAIN t /\ t[b] = d[Len(d)]
      BY <1>1, <2>3, <2>5, <3>2, <3>3
    <3>7. d[Len(d)] \in Range(t)
      BY <3>6 DEF Range
    <3> QED BY <2>1, <3>1, <3>4, <3>5, <3>7 DEF OnePerFile
  <2> QED BY <2>4, <2>5
<1> QED BY <1>2, <1>3

-----------------------------------------------------------------------------
(* The writer's queue *)

Pending == Range(writer.pending)
WriteKept ==
    /\ writer'.phase = writer.phase /\ writer'.name = writer.name /\ writer'.ctx = writer.ctx
    /\ writer'.save = writer.save /\ writer'.ok = writer.ok

\* A session's snapshot out of the queue.
LEMMA OtherFacts ==
    ASSUME OnePerName(writer.pending), NEW n \in Names
    PROVE  /\ OnePerName(OtherPending(n))
           /\ Range(OtherPending(n)) = {e \in Pending : e.name # n}
<1> DEFINE q == writer.pending
           I == {i \in DOMAIN q : q[i].name = n}
           t == OtherPending(n)
<1>1. t = Omit(q, I)
  BY DEF OtherPending
<1>2. I \in SUBSET DOMAIN q /\ \A i, j \in I : i = j
  BY DEF OnePerName
<1>3. /\ t \in Seq(Snapshot)
      /\ Range(t) = {q[k] : k \in DOMAIN q \ I}
      /\ \A i, j \in DOMAIN t : i # j =>
            \E k, l \in DOMAIN q \ I : k # l /\ t[i] = q[k] /\ t[j] = q[l]
  <2>1. q \in Seq(Snapshot)
    BY DEF OnePerName
  <2> HIDE DEF q, I, t
  <2>2. /\ Omit(q, I) \in Seq(Snapshot)
        /\ Range(Omit(q, I)) = {q[k] : k \in DOMAIN q \ I}
        /\ \A i, j \in DOMAIN Omit(q, I) : i # j =>
              \E k, l \in DOMAIN q \ I : k # l /\ Omit(q, I)[i] = q[k] /\ Omit(q, I)[j] = q[l]
    BY <1>2, <2>1, OmitFacts
  <2> QED BY <1>1, <2>2
<1>4. Range(t) = {e \in Pending : e.name # n}
  <2>1. {q[k] : k \in DOMAIN q \ I} = {e \in Range(q) : e.name # n}
    BY DEF Range
  <2> HIDE DEF t, I
  <2> QED BY <1>3, <2>1 DEF Pending
<1>5. OnePerName(t)
  <2> HIDE DEF t, I
  <2> QED BY <1>2, <1>3 DEF OnePerName
<1> QED BY <1>4, <1>5

\* Queueing a snapshot replaces the session's pending one and leaves the others and
\* the write in progress.
LEMMA QueueFacts ==
    ASSUME DiskShaped, NEW n \in Names, NEW c \in Context, NEW save \in BOOLEAN, Queue(n, c, save),
           UNCHANGED <<disk, writeFaults>>
    PROVE  /\ DiskShaped'
           /\ \E b \in BOOLEAN :
                 /\ b => save \/ \E e \in Pending : e.name = n /\ e.save
                 /\ Pending' = {e \in Pending : e.name # n} \cup {[name |-> n, ctx |-> c, save |-> b]}
           /\ WriteKept
           /\ writer'.result = IF save THEN "none" ELSE writer.result
<1> DEFINE b == save \/ \E e \in Range(writer.pending) : e.name = n /\ e.save
           x == [name |-> n, ctx |-> c, save |-> b]
           t == OtherPending(n)
           r == IF save THEN "none" ELSE writer.result
<1>1. writer' = [writer EXCEPT !.pending = Append(t, x), !.result = r]
  BY DEF Queue
<1>2. b \in BOOLEAN /\ x \in Snapshot /\ r \in {"none", "ok", "failed"}
  BY ZenonT(30) DEF Snapshot, DiskShaped, WriterType
<1>3. OnePerName(t) /\ Range(t) = {e \in Pending : e.name # n}
  BY OtherFacts, ZenonT(30) DEF DiskShaped
<1>4. x.name = n /\ x.ctx = c /\ x.save = b
  OBVIOUS
<1>5. b => save \/ \E e \in Pending : e.name = n /\ e.save
  BY DEF Pending
<1>6. x = [name |-> n, ctx |-> c, save |-> b]
  OBVIOUS
<1> HIDE DEF b, t, x, r
<1>7. /\ Append(t, x) \in Seq(Snapshot)
      /\ Range(Append(t, x)) = Range(t) \cup {x}
      /\ \A i, j \in DOMAIN Append(t, x) : i # j =>
            \/ i \in DOMAIN t /\ j \in DOMAIN t /\ Append(t, x)[i] = t[i] /\ Append(t, x)[j] = t[j]
            \/ i \in DOMAIN t /\ Append(t, x)[i] = t[i] /\ Append(t, x)[j] = x
            \/ j \in DOMAIN t /\ Append(t, x)[j] = t[j] /\ Append(t, x)[i] = x
  BY <1>2, <1>3, AppendFacts DEF OnePerName
<1>8. OnePerName(Append(t, x))
  <2>1. \A i \in DOMAIN t : t[i].name # n
    BY <1>3 DEF Range
  <2> DEFINE u == Append(t, x)
  <2> HIDE DEF u
  <2>2. \A i, j \in DOMAIN u : i # j => u[i].name # u[j].name
    BY <1>3, <1>4, <1>7, <2>1 DEF OnePerName, u
  <2> QED BY <1>7, <2>2 DEF OnePerName, u
<1>9. /\ writer' \in WriterType /\ writer'.pending = Append(t, x) /\ writer'.result = r
      /\ WriteKept
  BY ZenonT(30), <1>1, <1>2, <1>7 DEF DiskShaped, WriterType, WriteKept
<1>10. Pending' = {e \in Pending : e.name # n} \cup {x}
  BY <1>3, <1>7, <1>9 DEF Pending
<1>11. DiskShaped'
  BY <1>8, <1>9, ZenonT(30) DEF DiskShaped, Busy, WriteKept
<1> QED BY <1>2, <1>5, <1>6, <1>9, <1>10, <1>11 DEF r

\* Discarding takes the session's pending snapshot out.
LEMMA DiscardFacts ==
    ASSUME DiskShaped, NEW n \in Names, Discard(n), UNCHANGED <<disk, writeFaults>>
    PROVE  /\ DiskShaped'
           /\ Pending' = {e \in Pending : e.name # n}
           /\ WriteKept /\ writer'.result = writer.result
<1> DEFINE t == OtherPending(n)
<1>1. writer' = [writer EXCEPT !.pending = t]
  BY DEF Discard
<1>2. OnePerName(t) /\ Range(t) = {e \in Pending : e.name # n}
  BY OtherFacts DEF DiskShaped
<1> HIDE DEF t
<1>3. writer' \in WriterType /\ writer'.pending = t /\ writer'.result = writer.result /\ WriteKept
  BY ZenonT(30), <1>1, <1>2 DEF DiskShaped, WriterType, WriteKept, OnePerName
<1>4. DiskShaped'
  BY <1>2, <1>3, ZenonT(30) DEF DiskShaped, Busy, WriteKept
<1> QED BY <1>2, <1>3, <1>4 DEF Pending

-----------------------------------------------------------------------------
(* The writer thread *)

\* The oldest snapshot out of the queue.
LEMMA TailFacts ==
    ASSUME NEW q, OnePerName(q), q # <<>>
    PROVE  /\ Head(q) \in Snapshot /\ Head(q) \in Range(q)
           /\ OnePerName(Tail(q))
           /\ Range(Tail(q)) = {e \in Range(q) : e.name # Head(q).name}
<1> DEFINE t == Tail(q)
<1>1. q \in Seq(Snapshot) /\ Len(q) \in Nat /\ Len(q) # 0 /\ DOMAIN q = 1 .. Len(q)
  BY DEF OnePerName
<1>2. Head(q) = q[1] /\ 1 \in DOMAIN q /\ q[1] \in Snapshot
  BY <1>1
<1>3. /\ t \in Seq(Snapshot) /\ DOMAIN t = 1 .. Len(q) - 1
      /\ \A i \in 1 .. Len(q) - 1 : t[i] = q[i + 1]
  BY <1>1
<1> HIDE DEF t
<1>4. \A i \in DOMAIN t : i + 1 \in DOMAIN q /\ i + 1 # 1 /\ t[i] = q[i + 1]
  BY <1>1, <1>3
<1>5. \A i \in DOMAIN q : i # 1 => \E j \in DOMAIN t : t[j] = q[i]
  <2> TAKE i \in DOMAIN q
  <2> HAVE i # 1
  <2>1. i - 1 \in 1 .. Len(q) - 1 /\ (i - 1) + 1 = i
    BY <1>1
  <2> QED BY <1>3, <2>1
<1>6. \A i, j \in DOMAIN t : t[i].name = t[j].name => i = j
  <2> SUFFICES ASSUME NEW i \in DOMAIN t, NEW j \in DOMAIN t, t[i].name = t[j].name
               PROVE  i = j
    OBVIOUS
  <2>1. i + 1 = j + 1
    BY <1>4 DEF OnePerName
  <2> QED BY <1>1, <1>3, <2>1
<1>7. Range(t) = {e \in Range(q) : e.name # Head(q).name}
  <2>1. ASSUME NEW i \in DOMAIN t PROVE t[i] \in Range(q) /\ t[i].name # q[1].name
    BY <1>2, <1>4 DEF Range, OnePerName
  <2>2. ASSUME NEW i \in DOMAIN q, q[i].name # q[1].name PROVE q[i] \in Range(t)
    BY <1>5, <2>2 DEF Range
  <2> QED BY <1>2, <2>1, <2>2 DEF Range
<1>8. Head(q) \in Range(q)
  BY <1>2 DEF Range
<1> QED BY <1>2, <1>3, <1>6, <1>7, <1>8 DEF OnePerName, t

Present(n) == \E e \in Range(disk) : e.file = FileOf[n]

\* What the properties remember of a step of the writer.
LEMMA WriterGhost ==
    ASSUME PoolShaped, DiskShaped, WriterStep
    PROVE  /\ ghost'.latest = ghost.latest /\ ghost.gone \subseteq ghost'.gone
           /\ PoolShaped' /\ UNCHANGED <<conf, main, inbox, pool, live>>
           /\ \A n \in Names : n # writer.name /\ Present(n) /\ ~Present(n)' => n \in ghost'.gone
           /\ \A n \in Names : n = writer.name /\ writer'.phase = "complete" /\ writer'.ok
                               /\ writer.ctx = ghost.latest[n] /\ ~Present(n)' => n \in ghost'.gone
           /\ ghost'.failed = IF writer.phase # "complete" THEN ghost.failed
                              ELSE IF writer.ok THEN ghost.failed \ {writer.name}
                              ELSE ghost.failed \cup {writer.name}
<1> DEFINE G == {n \in Names \ {writer.name} : Present(n) /\ ~Present(n)'}
           O == {n \in Names : /\ n = writer.name /\ writer'.phase = "complete" /\ writer'.ok
                               /\ writer.ctx = ghost.latest[n] /\ ~Present(n)'}
           F == IF writer.phase # "complete" THEN ghost.failed
                ELSE IF writer.ok THEN ghost.failed \ {writer.name}
                ELSE ghost.failed \cup {writer.name}
<1>1. ghost' = [ghost EXCEPT !.gone = @ \cup G \cup O, !.failed = F] /\ UNCHANGED <<conf, main, inbox, pool, live>>
  BY DEF WriterStep, Present
<1>2. ghost \in [latest : [Names -> Context], gone : SUBSET Names, failed : SUBSET Names,
                 turns : Nat, lines : Nat, starts : Nat]
  BY DEF PoolShaped
<1>3. F \in SUBSET Names
  BY <1>2 DEF DiskShaped, Busy
<1>4. G \in SUBSET Names /\ O \in SUBSET Names
  OBVIOUS
<1>5. /\ \A n \in Names : n # writer.name /\ Present(n) /\ ~Present(n)' => n \in G
      /\ \A n \in Names : n = writer.name /\ writer'.phase = "complete" /\ writer'.ok
                          /\ writer.ctx = ghost.latest[n] /\ ~Present(n)' => n \in O
  OBVIOUS
<1> HIDE DEF F, G, O
<1>6. /\ ghost' \in [latest : [Names -> Context], gone : SUBSET Names, failed : SUBSET Names,
                      turns : Nat, lines : Nat, starts : Nat]
      /\ ghost'.latest = ghost.latest /\ ghost'.gone = ghost.gone \cup G \cup O /\ ghost'.failed = F
  BY ZenonT(30), <1>1, <1>2, <1>3, <1>4
<1>7. PoolShaped'
  BY <1>1, <1>6, ZenonT(30) DEF PoolShaped
<1> QED BY <1>1, <1>5, <1>6, <1>7, ZenonT(30) DEF F

\* Taking the oldest snapshot.
LEMMA TakeMoves ==
    ASSUME DiskShaped, Take
    PROVE  /\ DiskShaped' /\ ~Busy /\ writer.pending # <<>> /\ disk' = disk
           /\ writer.phase # "complete"
           /\ \E e \in Pending :
                 /\ Pending' = {f \in Pending : f.name # e.name}
                 /\ writer'.phase = "write" /\ writer'.name = e.name /\ writer'.ctx = e.ctx
                 /\ writer'.save = e.save /\ writer'.result = writer.result
<1> DEFINE q == writer.pending
           e == Head(q)
<1>1. /\ ~Busy /\ q # <<>> /\ UNCHANGED <<disk, writeFaults>>
      /\ writer' = [writer EXCEPT !.pending = Tail(q), !.phase = "write",
                                  !.name = e.name, !.ctx = e.ctx, !.save = e.save]
  BY DEF Take
<1>2. OnePerName(q)
  BY ZenonT(30) DEF DiskShaped
<1>3. /\ e \in Snapshot /\ e \in Range(q) /\ OnePerName(Tail(q))
      /\ Range(Tail(q)) = {f \in Range(q) : f.name # e.name}
  BY <1>1, <1>2, TailFacts, ZenonT(30)
<1> HIDE DEF e
<1>4. e.name \in Names /\ e.ctx \in Context /\ e.save \in BOOLEAN
  BY <1>3 DEF Snapshot
<1>5. /\ writer' \in WriterType /\ writer'.pending = Tail(q) /\ writer'.phase = "write"
      /\ writer'.name = e.name /\ writer'.ctx = e.ctx /\ writer'.save = e.save
      /\ writer'.result = writer.result
  <2>1. Tail(q) \in Seq(Snapshot) /\ writer \in WriterType
    BY <1>3, ZenonT(30) DEF OnePerName, DiskShaped
  <2> DEFINE t == Tail(q)
  <2> HIDE DEF t, q
  <2>2. writer' = [writer EXCEPT !.pending = t, !.phase = "write",
                                 !.name = e.name, !.ctx = e.ctx, !.save = e.save]
    BY <1>1 DEF t
  <2>3. t \in Seq(Snapshot)
    BY <2>1 DEF t
  <2> QED BY ZenonT(30), <1>4, <2>1, <2>2, <2>3 DEF WriterType, t
<1>6. DiskShaped'
  BY <1>1, <1>3, <1>4, <1>5, ZenonT(30) DEF DiskShaped
<1>7. Pending' = {f \in Pending : f.name # e.name} /\ e \in Pending
  BY <1>3, <1>5, ZenonT(30) DEF Pending
<1>8. writer.phase # "complete"
  BY <1>1 DEF Busy
<1> QED BY <1>1, <1>5, <1>6, <1>7, <1>8, ZenonT(30)

\* Writing the temporary file.
LEMMA WriteTmpMoves ==
    ASSUME DiskShaped, WriteTmp
    PROVE  /\ DiskShaped' /\ Busy /\ disk' = disk /\ Pending' = Pending /\ writer.phase = "write"
           /\ writer'.phase = "remove" \/ (writer'.phase = "complete" /\ writer'.ok = FALSE)
           /\ writer'.name = writer.name /\ writer'.ctx = writer.ctx
           /\ writer'.save = writer.save /\ writer'.result = writer.result
<1>1. writer \in WriterType /\ writeFaults \in Nat /\ WriteFaults \in Nat
  BY ServeAssumption, ZenonT(30) DEF DiskShaped
<1>2. /\ writer.phase = "write" /\ disk' = disk /\ writeFaults' \in Nat
      /\ \/ writer' = [writer EXCEPT !.phase = "remove", !.ok = TRUE]
         \/ writer' = [writer EXCEPT !.phase = "complete", !.ok = FALSE]
  BY <1>1 DEF WriteTmp
<1>3. /\ writer' \in WriterType /\ writer'.pending = writer.pending
      /\ writer'.phase = "remove" \/ (writer'.phase = "complete" /\ writer'.ok = FALSE)
      /\ writer'.name = writer.name /\ writer'.ctx = writer.ctx
      /\ writer'.save = writer.save /\ writer'.result = writer.result
  BY ZenonT(30), <1>1, <1>2 DEF WriterType
<1>4. Busy
  BY <1>2 DEF Busy
<1>5. DiskShaped'
  BY <1>2, <1>3, <1>4, ZenonT(30) DEF DiskShaped
<1> QED BY <1>2, <1>3, <1>4, <1>5, ZenonT(30) DEF Pending

\* Removing the previous file.
LEMMA RemoveMoves ==
    ASSUME DiskShaped, RemoveFinal
    PROVE  /\ DiskShaped' /\ Busy /\ Pending' = Pending /\ writer.phase = "remove"
           /\ writer'.phase = "rename"
           /\ writer'.name = writer.name /\ writer'.ctx = writer.ctx
           /\ writer'.save = writer.save /\ writer'.result = writer.result
           /\ Range(disk') \subseteq Range(disk)
           /\ \A n \in Names \ {writer.name} : Load(n)' = Load(n)
<1>1. writer \in WriterType /\ OnePerFile(disk)
  BY ZenonT(30) DEF DiskShaped
<1>2. /\ writer.phase = "remove" /\ disk' = Others(disk, FileOf[writer.name])
      /\ writer' = [writer EXCEPT !.phase = "rename"] /\ writeFaults' = writeFaults
  BY ZenonT(30) DEF RemoveFinal
<1>3. /\ writer' \in WriterType /\ writer'.pending = writer.pending /\ writer'.phase = "rename"
      /\ writer'.name = writer.name /\ writer'.ctx = writer.ctx
      /\ writer'.save = writer.save /\ writer'.result = writer.result
  BY ZenonT(30), <1>1, <1>2 DEF WriterType
<1>4. Busy /\ writer.name \in Names
  BY <1>2 DEF Busy, DiskShaped
<1>5. /\ OnePerFile(disk') /\ Range(disk') = {e \in Range(disk) : e.file # FileOf[writer.name]}
      /\ \A n \in Names \ {writer.name} : Found(disk', n) = Found(disk, n)
  BY <1>1, <1>2, <1>4, OthersFacts, ZenonT(30)
<1>6. DiskShaped'
  BY <1>2, <1>3, <1>4, <1>5, ZenonT(30) DEF DiskShaped
<1>7. \A n \in Names \ {writer.name} : Load(n)' = Load(n)
  BY <1>5 DEF Load, Found
<1> QED BY <1>2, <1>3, <1>4, <1>5, <1>6, <1>7 DEF Pending

\* Renaming the temporary file.
LEMMA RenameMoves ==
    ASSUME DiskShaped, conf \in Configs, Rename
    PROVE  /\ DiskShaped' /\ Busy /\ Pending' = Pending /\ writer.phase = "rename"
           /\ writer'.phase = "complete"
           /\ writer'.name = writer.name /\ writer'.ctx = writer.ctx
           /\ writer'.save = writer.save /\ writer'.result = writer.result
           /\ Range(disk') \subseteq
                 Range(disk) \cup {[file |-> FileOf[writer.name], ctx |-> writer.ctx]}
           /\ writer'.ok => \A n \in Names : n = writer.name =>
                                Load(n)' = writer.ctx \/ ~Present(n)'
           /\ \A n \in Names \ {writer.name} :
                 Load(n)' = Load(n) \/ (Present(n) /\ ~Present(n)')
<1> DEFINE x == [file |-> FileOf[writer.name], ctx |-> writer.ctx]
           o == Others(disk, FileOf[writer.name])
           d == Append(o, x)
<1>1. writer \in WriterType /\ OnePerFile(disk) /\ writeFaults \in Nat /\ WriteFaults \in Nat
  BY ServeAssumption, ZenonT(30) DEF DiskShaped
<1>2. /\ writer.phase = "rename" /\ writeFaults' \in Nat
      /\ \/ writer' = [writer EXCEPT !.phase = "complete", !.ok = TRUE] /\ disk' = EnforceDiskBudget(d)
         \/ writer' = [writer EXCEPT !.phase = "complete", !.ok = FALSE] /\ disk' = disk
  BY <1>1 DEF Rename
<1>3. /\ writer' \in WriterType /\ writer'.pending = writer.pending /\ writer'.phase = "complete"
      /\ writer'.name = writer.name /\ writer'.ctx = writer.ctx
      /\ writer'.save = writer.save /\ writer'.result = writer.result
      /\ (writer'.ok /\ disk' = EnforceDiskBudget(d)) \/ (~writer'.ok /\ disk' = disk)
  BY ZenonT(30), <1>1, <1>2 DEF WriterType
<1>4. Busy /\ writer.name \in Names
  BY <1>2 DEF Busy, DiskShaped
<1>5. x \in SavedFile /\ x.file = FileOf[writer.name] /\ x.ctx = writer.ctx
  BY ZenonT(30), <1>1, <1>4 DEF SavedFile, WriterType
<1>6. /\ OnePerFile(o) /\ Range(o) = {e \in Range(disk) : e.file # FileOf[writer.name]}
      /\ \A n \in Names \ {writer.name} : Found(o, n) = Found(disk, n)
  BY <1>1, <1>4, OthersFacts, ZenonT(30)
<1>7. Range(disk') \subseteq Range(disk) \cup {x} /\ OnePerFile(disk')
      /\ (~writer'.ok \/ x \in Range(disk') \/ disk' = <<>>)
  <2>1. CASE ~writer'.ok /\ disk' = disk
    BY <1>1, <2>1
  <2>2. CASE writer'.ok /\ disk' = EnforceDiskBudget(d)
    <3> HIDE DEF x, o
    <3>1. /\ d \in Seq(SavedFile) /\ Range(d) = Range(o) \cup {x}
          /\ \A i, j \in DOMAIN d : i # j =>
                \/ i \in DOMAIN o /\ j \in DOMAIN o /\ d[i] = o[i] /\ d[j] = o[j]
                \/ i \in DOMAIN o /\ d[i] = o[i] /\ d[j] = x
                \/ j \in DOMAIN o /\ d[j] = o[j] /\ d[i] = x
      BY <1>5, <1>6, AppendFacts DEF OnePerFile
    <3>2. \A i \in DOMAIN o : o[i].file # x.file
      BY <1>5, <1>6 DEF Range
    <3>3. d[Len(d)] = x /\ d # <<>>
      <4>1. o \in Seq(SavedFile)
        BY <1>6 DEF OnePerFile
      <4> QED BY <1>5, <4>1
    <3> HIDE DEF d
    <3>4. OnePerFile(d)
      BY <1>6, <3>1, <3>2 DEF OnePerFile
    <3>5. /\ OnePerFile(disk') /\ Range(disk') \subseteq Range(d)
          /\ x \in Range(disk') \/ disk' = <<>>
      BY <2>2, <3>3, <3>4, BudgetFacts
    <3> QED BY <1>6, <3>1, <3>5
  <2> QED BY <1>3, <2>1, <2>2
<1>8. DiskShaped'
  BY <1>2, <1>3, <1>4, <1>7, ZenonT(30) DEF DiskShaped
<1>9. \A n \in Names \ {writer.name} : Load(n)' = Load(n) \/ (Present(n) /\ ~Present(n)')
  <2> TAKE n \in Names \ {writer.name}
  <2>1. x.file # FileOf[n]
    BY <1>4, <1>5, ServeAssumption
  <2> HIDE DEF x
  <2>2. \A e \in Range(disk') : e.file = FileOf[n] => e \in Range(disk)
    BY <1>7, <2>1
  <2>3. CASE Present(n)' \/ ~Present(n)
    <3>1. \A e, f \in Range(disk) : e.file = f.file => e = f
      BY <1>1 DEF OnePerFile, Range
    <3>2. \A e \in Range(disk) : e.file = FileOf[n] => e \in Range(disk')
      BY <2>2, <2>3, <3>1 DEF Present
    <3>3. Found(disk', n) = Found(disk, n)
      BY <1>1, <1>7, <2>2, <3>2, FoundKept
    <3> QED BY <3>3 DEF Load, Found
  <2> QED BY <2>3
<1>10. writer'.ok => \A n \in Names : n = writer.name => Load(n)' = writer.ctx \/ ~Present(n)'
  <2> SUFFICES ASSUME writer'.ok, NEW n \in Names, n = writer.name
               PROVE  Load(n)' = writer.ctx \/ ~Present(n)'
    OBVIOUS
  <2>1. ASSUME disk' = <<>> PROVE ~Present(n)'
    BY <2>1 DEF Present, Range
  <2>2. ASSUME x \in Range(disk') PROVE Load(n)' = writer.ctx
    <3>1. Found(disk', n) = x.ctx
      <4> HIDE DEF x
      <4> QED BY <1>5, <1>7, <2>2, FoundFacts
    <3> QED BY <1>5, <3>1 DEF Load, Found
  <2> QED BY <1>7, <2>1, <2>2
<1> QED BY <1>2, <1>3, <1>4, <1>7, <1>8, <1>9, <1>10, ZenonT(30) DEF Pending

\* Reporting the write.
LEMMA CompleteMoves ==
    ASSUME DiskShaped, Complete
    PROVE  /\ DiskShaped' /\ Busy /\ ~Busy' /\ disk' = disk /\ Pending' = Pending
           /\ writer.phase = "complete"
           /\ writer'.result = IF ~writer.save THEN writer.result
                               ELSE IF writer.ok THEN "ok" ELSE "failed"
<1> DEFINE r == IF ~writer.save THEN writer.result ELSE IF writer.ok THEN "ok" ELSE "failed"
<1>1. writer \in WriterType
  BY ZenonT(30) DEF DiskShaped
<1>2. /\ writer.phase = "complete" /\ UNCHANGED <<disk, writeFaults>>
      /\ writer' = [pending |-> writer.pending, phase |-> "idle", name |-> "", ctx |-> NoContext,
                    save |-> FALSE, ok |-> TRUE, result |-> r]
  BY ZenonT(30) DEF Complete, Idle
<1>3. r \in {"none", "ok", "failed"}
  BY ZenonT(30), <1>1 DEF WriterType
<1> HIDE DEF r
<1>4. /\ writer' \in WriterType /\ writer'.pending = writer.pending /\ writer'.phase = "idle"
      /\ writer'.result = r
  BY ZenonT(30), <1>1, <1>2, <1>3 DEF WriterType, Context
<1>5. DiskShaped'
  BY <1>2, <1>4, ZenonT(30) DEF DiskShaped, Busy
<1> QED BY ZenonT(30), <1>2, <1>4, <1>5 DEF Pending, Busy, r

\* What is left to show of a step of the writer: it tracks every session it tracked,
\* leaves what has landed, and answers the one who waits.
LEMMA WriterFrame ==
    ASSUME ServeInv, WriterStep, DiskShaped', ~Drained, Owners', Saves',
           \A n \in Names : Kept(n)' /\ Tracked(n) => Tracked(n)',
           \A n \in Names : Kept(n)' /\ Landed(n) => Landed(n)'
    PROVE  ServeInv'
<1>1. /\ MainTypes /\ PoolShaped /\ DiskShaped /\ Placed /\ OnDisk /\ InMemory /\ CancelSound
  BY DEF ServeInv
<1>2. /\ ghost'.latest = ghost.latest /\ ghost.gone \subseteq ghost'.gone
      /\ PoolShaped' /\ conf' = conf /\ main' = main /\ inbox' = inbox /\ pool' = pool /\ live' = live
  BY <1>1, WriterGhost
<1>3. main.at # "exit" /\ conf.disk
  BY <1>1 DEF Placed
<1>4. \A n : Kept(n)' => Kept(n)
  BY <1>2 DEF Kept
<1>5. MainTypes' /\ CancelSound'
  BY <1>1, <1>2, ZenonT(30) DEF MainTypes, CancelSound, Cancelled
<1>6. Placed'
  BY <1>1, <1>2, <1>3, ZenonT(30) DEF Placed
<1>7. OnDisk'
  BY <1>1, <1>2, <1>4, ZenonT(30) DEF OnDisk
<1>8. InMemory'
  BY <1>1, <1>2, <1>4, ZenonT(30) DEF InMemory, Generating
<1> QED BY <1>2, <1>5, <1>6, <1>7, <1>8, ZenonT(30) DEF ServeInv

LEMMA TakeKeeps ==
    ASSUME ServeInv, WriterStep, Take
    PROVE  ServeInv'
<1>1. /\ MainTypes /\ PoolShaped /\ DiskShaped /\ Owners /\ Placed /\ Saves
  BY DEF ServeInv
<1>2. /\ ghost'.latest = ghost.latest /\ ghost.gone \subseteq ghost'.gone
      /\ main' = main /\ pool' = pool /\ live' = live
  BY <1>1, WriterGhost
<1>3. /\ DiskShaped' /\ ~Busy /\ writer.pending # <<>> /\ disk' = disk
      /\ writer.phase # "complete"
  BY <1>1, TakeMoves, ZenonT(30)
<1>4. PICK e \in Pending :
                 /\ Pending' = {f \in Pending : f.name # e.name}
                 /\ writer'.phase = "write" /\ writer'.name = e.name /\ writer'.ctx = e.ctx
                 /\ writer'.save = e.save /\ writer'.result = writer.result
  BY <1>1, TakeMoves, ZenonT(30)
<1>5. ghost'.failed = ghost.failed
  BY <1>1, <1>3, WriterGhost
<1>6. \A n \in Names : Load(n)' = Load(n)
  BY <1>3 DEF Load
<1>7. /\ \A n : Pends(n)' <=> Pends(n) /\ n # e.name
      /\ \A n : Writes(n)' <=> n = e.name
      /\ Busy' /\ Pends(e.name)
  BY <1>4 DEF Pends, Writes, Busy, Pending
<1>8. \A f \in Pending' : f \in Pending
  BY <1>4
<1>9. ~Drained
  BY <1>3 DEF Drained
<1>10. Owners'
  BY <1>1, <1>2, <1>3, <1>4, <1>8, ZenonT(30) DEF Owners, MemoryOwners, DiskOwners, Pending
<1>11. Saves'
  <2>1. \A f \in Pending : f.save =>
          /\ main.at \in {"saving", "parking", "flush", "exit"}
          /\ main.at = "saving" => f.name = Victim /\ writer.result = "none"
    BY <1>1, ZenonT(30) DEF Saves, Pending
  <2>2. main.at = "saving" /\ writer.result = "ok" =>
         ~Pends(Victim) /\ ~Writes(Victim) /\ Victim \notin ghost.failed
    BY <1>1, ZenonT(30) DEF Saves
  <2>3. Victim' = Victim
    BY <1>2 DEF Victim
  <2>4. \A f \in Pending' : f.save =>
          /\ main.at \in {"saving", "parking", "flush", "exit"}
          /\ main.at = "saving" => f.name = Victim /\ writer.result = "none"
    BY <1>8, <2>1
  <2>5. e.save => /\ main.at \in {"saving", "parking", "flush", "exit"}
                  /\ main.at = "saving" => e.name = Victim /\ writer.result = "none"
    BY <2>1
  <2>6. main.at = "saving" /\ writer.result = "ok" =>
         ~Pends(Victim)' /\ ~Writes(Victim)' /\ Victim \notin ghost.failed
    <3>1. PICK v : v = Victim /\ v = Victim'
      BY <2>3
    <3> QED BY <1>7, <2>2, <3>1 DEF Pends, Writes
  <2> QED BY <1>2, <1>4, <1>5, <1>7, <2>3, <2>4, <2>5, <2>6, ZenonT(30) DEF Saves, Pending
<1>12. \A n \in Names : Kept(n)' /\ Tracked(n) => Tracked(n)'
  <2> SUFFICES ASSUME NEW n \in Names, Tracked(n) PROVE Tracked(n)'
    OBVIOUS
  <2>1. \A f \in Pending : f.name = n => f.ctx = ghost.latest[n]
    BY ZenonT(30) DEF Tracked, Pending
  <2>2. CASE n = e.name
    <3>1. ~Pends(n)' /\ Writes(n)' /\ writer'.ctx = ghost.latest[n] /\ writer'.phase # "complete"
      BY <1>4, <1>7, <2>1, <2>2
    <3> QED BY <1>2, <1>8, <2>1, <3>1, ZenonT(30) DEF Tracked, Pending
  <2>3. CASE n # e.name
    <3>1. (Pends(n)' <=> Pends(n)) /\ ~Writes(n)' /\ ~Writes(n)
      BY <1>3, <1>7, <2>3 DEF Writes
    <3> QED BY <1>2, <1>5, <1>6, <1>8, <2>1, <3>1, ZenonT(30) DEF Tracked, Pending
  <2> QED BY <2>2, <2>3
<1>13. \A n \in Names : Kept(n)' /\ Landed(n) => Landed(n)'
  BY <1>2, <1>6, <1>7, ZenonT(30) DEF Landed
<1> QED BY <1>3, <1>9, <1>10, <1>11, <1>12, <1>13, WriterFrame, ZenonT(30)

\* A step in the middle of a write.
LEMMA WritingKeeps ==
    ASSUME ServeInv, WriterStep, WriteTmp \/ RemoveFinal \/ Rename
    PROVE  ServeInv'
<1>1. /\ MainTypes /\ PoolShaped /\ DiskShaped /\ Owners /\ Placed /\ Saves
  BY DEF ServeInv
<1>2. /\ ghost'.latest = ghost.latest /\ ghost.gone \subseteq ghost'.gone
      /\ main' = main /\ pool' = pool /\ live' = live
      /\ \A n \in Names : n # writer.name /\ Present(n) /\ ~Present(n)' => n \in ghost'.gone
      /\ \A n \in Names : n = writer.name /\ writer'.phase = "complete" /\ writer'.ok
                          /\ writer.ctx = ghost.latest[n] /\ ~Present(n)' => n \in ghost'.gone
  BY ZenonT(30), <1>1, WriterGhost
<1>3. /\ DiskShaped' /\ Busy /\ Busy' /\ Pending' = Pending /\ writer.phase # "complete"
      /\ writer'.name = writer.name /\ writer'.ctx = writer.ctx
      /\ writer'.save = writer.save /\ writer'.result = writer.result
      /\ Range(disk') \subseteq
            Range(disk) \cup {[file |-> FileOf[writer.name], ctx |-> writer.ctx]}
      /\ writer'.phase = "complete" /\ writer'.ok =>
            \A n \in Names : n = writer.name => Load(n)' = writer.ctx \/ ~Present(n)'
      /\ \A n \in Names \ {writer.name} :
            Load(n)' = Load(n) \/ (Present(n) /\ ~Present(n)')
  <2>1. CASE WriteTmp
    <3>1. \A n \in Names : Load(n)' = Load(n)
      BY <1>1, <2>1, WriteTmpMoves DEF Load
    <3> QED BY ZenonT(30), <1>1, <2>1, <3>1, WriteTmpMoves DEF Busy
  <2>2. CASE RemoveFinal
    BY <1>1, <2>2, RemoveMoves DEF Busy
  <2>3. CASE Rename
    BY ZenonT(30), <1>1, <2>3, RenameMoves DEF Busy, MainTypes
  <2> QED BY <2>1, <2>2, <2>3
<1>4. ghost'.failed = ghost.failed
  BY ZenonT(30), <1>1, <1>3, WriterGhost
<1>5. \A n \in Names : Kept(n)' /\ n # writer.name => Load(n)' = Load(n)
  BY <1>2, <1>3 DEF Kept
<1>6. /\ \A n : Pends(n)' <=> Pends(n)
      /\ \A n : Writes(n)' <=> n = writer.name
      /\ \A n : Writes(n) <=> n = writer.name
  BY <1>3, ZenonT(30) DEF Pends, Writes, Pending
<1>7. ~Drained
  BY <1>3 DEF Drained
<1>8. Owners'
  <2> DEFINE x == [file |-> FileOf[writer.name], ctx |-> writer.ctx]
  <2>1. writer.name \in Names /\ Belongs(writer.ctx, writer.name)
    BY <1>1, <1>3, ZenonT(30) DEF Owners, MemoryOwners, DiskOwners, DiskShaped
  <2>2. \A n \in Names : x.file = FileOf[n] => Belongs(x.ctx, n)
    BY <2>1, ServeAssumption
  <2>3. \A e \in Range(disk') : e \in Range(disk) \/ e = x
    BY <1>3
  <2> HIDE DEF x
  <2>4. \A e \in Range(disk') : \A n \in Names : e.file = FileOf[n] => Belongs(e.ctx, n)
    BY <1>1, <2>2, <2>3, ZenonT(30) DEF Owners, MemoryOwners, DiskOwners
  <2> QED BY <1>1, <1>2, <1>3, <2>1, <2>4, ZenonT(30) DEF Owners, MemoryOwners, DiskOwners, Pending
<1>9. Saves'
  <2>1. Victim' = Victim
    BY <1>2 DEF Victim
  <2> QED BY <1>1, <1>2, <1>3, <1>4, <1>6, <2>1, ZenonT(30) DEF Saves, Pending
<1>10. \A n \in Names : Kept(n)' /\ Tracked(n) => Tracked(n)'
  <2> SUFFICES ASSUME NEW n \in Names, Kept(n)', Tracked(n) PROVE Tracked(n)'
    OBVIOUS
  <2>1. CASE n = writer.name
    <3>1. writer'.phase = "complete" /\ writer'.ok /\ writer.ctx = ghost.latest[n] =>
            Load(n)' = ghost.latest[n]
      BY <1>2, <1>3, <2>1 DEF Kept
    <3> QED BY <1>2, <1>3, <1>6, <2>1, <3>1, ZenonT(30) DEF Tracked, Pending
  <2>2. CASE n # writer.name
    BY <1>2, <1>3, <1>4, <1>5, <1>6, <2>2, ZenonT(30) DEF Tracked, Pending
  <2> QED BY <2>1, <2>2
<1>11. \A n \in Names : Kept(n)' /\ Landed(n) => Landed(n)'
  BY <1>2, <1>5, <1>6, ZenonT(30) DEF Landed
<1> QED BY <1>3, <1>7, <1>8, <1>9, <1>10, <1>11, WriterFrame, ZenonT(30)

LEMMA CompleteKeeps ==
    ASSUME ServeInv, WriterStep, Complete
    PROVE  ServeInv'
<1>1. /\ MainTypes /\ PoolShaped /\ DiskShaped /\ Owners /\ Placed /\ Saves
  BY DEF ServeInv
<1>2. /\ ghost'.latest = ghost.latest /\ ghost.gone \subseteq ghost'.gone
      /\ main' = main /\ pool' = pool /\ live' = live
  BY <1>1, WriterGhost
<1>3. /\ DiskShaped' /\ Busy /\ ~Busy' /\ disk' = disk /\ Pending' = Pending
      /\ writer.phase = "complete"
      /\ writer'.result = IF ~writer.save THEN writer.result
                          ELSE IF writer.ok THEN "ok" ELSE "failed"
  BY <1>1, CompleteMoves
<1>4. ghost'.failed = IF writer.ok THEN ghost.failed \ {writer.name}
                      ELSE ghost.failed \cup {writer.name}
  BY <1>1, <1>3, WriterGhost
<1>5. \A n \in Names : Load(n)' = Load(n)
  BY <1>3 DEF Load
<1>6. /\ \A n : Pends(n)' <=> Pends(n)
      /\ \A n : ~Writes(n)'
      /\ \A n : Writes(n) <=> n = writer.name
  BY <1>3, ZenonT(30) DEF Pends, Writes, Pending
<1>7. ~Drained
  BY <1>3 DEF Drained
<1>8. Owners'
  BY <1>1, <1>2, <1>3, ZenonT(30) DEF Owners, MemoryOwners, DiskOwners, Pending
<1>9. Saves'
  <2>1. Victim' = Victim
    BY <1>2 DEF Victim
  <2>2. \A e \in Pending : e.save =>
          /\ main.at \in {"saving", "parking", "flush", "exit"}
          /\ main.at = "saving" => e.name = Victim /\ writer.result = "none"
    BY <1>1, ZenonT(30) DEF Saves, Pending
  <2>3. writer.save =>
         /\ main.at \in {"saving", "parking", "flush", "exit"}
         /\ main.at = "saving" => writer.name = Victim /\ writer.result = "none" /\ ~Pends(Victim)
    BY <1>1, <1>3, ZenonT(30) DEF Saves
  <2>4. main.at = "saving" /\ writer.result = "ok" =>
         ~Pends(Victim) /\ ~Writes(Victim) /\ Victim \notin ghost.failed
    BY <1>1, ZenonT(30) DEF Saves
  <2>5. CASE ~writer.save
    <3>1. writer'.result = writer.result
      BY <1>3, <2>5
    <3>2. main.at = "saving" /\ writer.result = "ok" => Victim \notin ghost'.failed
      BY <1>4, <1>6, <2>4
    <3> QED BY <1>2, <1>3, <1>6, <2>1, <2>2, <2>4, <3>1, <3>2, ZenonT(30) DEF Saves, Pending
  <2>6. CASE writer.save
    <3>1. main.at = "saving" => \A e \in Pending : ~e.save
      BY <2>2, <2>3, <2>6, ZenonT(30) DEF Pends, Pending
    <3>2. main.at = "saving" /\ writer'.result = "ok" => Victim \notin ghost'.failed
      BY <1>3, <1>4, <2>3, <2>6
    <3> QED BY <1>2, <1>3, <1>6, <2>1, <2>2, <2>3, <2>6, <3>1, <3>2, ZenonT(30) DEF Saves, Pending
  <2> QED BY ZenonT(30), <1>1, <2>5, <2>6 DEF DiskShaped, WriterType
<1>10. \A n \in Names : Kept(n)' /\ Tracked(n) => Tracked(n)'
  <2> SUFFICES ASSUME NEW n \in Names, Tracked(n) PROVE Tracked(n)'
    OBVIOUS
  <2>1. CASE n = writer.name
    <3>1. ~Pends(n) => Load(n) = ghost.latest[n] \/ n \in ghost'.failed
      BY <1>3, <1>4, <1>6, <2>1 DEF Tracked
    <3> QED BY <1>2, <1>3, <1>5, <1>6, <3>1, ZenonT(30) DEF Tracked, Pending
  <2>2. CASE n # writer.name
    <3>1. n \in ghost.failed => n \in ghost'.failed
      BY <1>4, <2>2
    <3> QED BY <1>2, <1>3, <1>5, <1>6, <2>2, <3>1, ZenonT(30) DEF Tracked, Pending
  <2> QED BY <2>1, <2>2
<1>11. \A n \in Names : Kept(n)' /\ Landed(n) => Landed(n)'
  BY <1>2, <1>5, <1>6, ZenonT(30) DEF Landed
<1> QED BY <1>3, <1>7, <1>8, <1>9, <1>10, <1>11, WriterFrame, ZenonT(30)

\* A step of the writer keeps the invariant.
LEMMA WriterKeeps ==
    ASSUME ServeInv, WriterStep
    PROVE  ServeInv'
<1>1. Take \/ (WriteTmp \/ RemoveFinal \/ Rename) \/ Complete
  BY DEF WriterStep, Writer
<1> QED BY <1>1, TakeKeeps, WritingKeeps, CompleteKeeps

-----------------------------------------------------------------------------
(* The pool *)

\* A name out of the LRU list.
LEMMA LruFacts ==
    ASSUME PoolShaped, NEW n \in Names
    PROVE  /\ LruWithout(n) \in Seq(Names)
           /\ \A i, j \in DOMAIN LruWithout(n) : LruWithout(n)[i] = LruWithout(n)[j] => i = j
           /\ \A i \in DOMAIN LruWithout(n) :
                 LruWithout(n)[i] # n /\ LruWithout(n)[i] \in DOMAIN pool.parked
<1> DEFINE q == pool.lru
           I == {i \in DOMAIN q : q[i] = n}
           t == LruWithout(n)
<1>1. /\ q \in Seq(Names) /\ \A i, j \in DOMAIN q : q[i] = q[j] => i = j
      /\ \A i \in DOMAIN q : q[i] \in DOMAIN pool.parked
  BY DEF PoolShaped, PoolType
<1>2. t = Omit(q, I) /\ I \in SUBSET DOMAIN q /\ \A i, j \in I : i = j
  BY <1>1 DEF LruWithout
<1>3. \A k \in DOMAIN q \ I : q[k] # n
  OBVIOUS
<1> HIDE DEF q, I, t
<1>4. /\ Omit(q, I) \in Seq(Names)
      /\ Range(Omit(q, I)) = {q[k] : k \in DOMAIN q \ I}
      /\ \A i, j \in DOMAIN Omit(q, I) : i # j =>
            \E k, l \in DOMAIN q \ I : k # l /\ Omit(q, I)[i] = q[k] /\ Omit(q, I)[j] = q[l]
  BY <1>1, <1>2, OmitFacts
<1>5. \A i \in DOMAIN t : \E k \in DOMAIN q \ I : t[i] = q[k]
  BY <1>2, <1>4 DEF Range
<1>6. \A i \in DOMAIN t : t[i] # n /\ t[i] \in DOMAIN pool.parked
  BY <1>1, <1>3, <1>5
<1>7. \A i, j \in DOMAIN t : t[i] = t[j] => i = j
  BY <1>1, <1>2, <1>4
<1> QED BY <1>2, <1>4, <1>6, <1>7 DEF t

\* Erasing a session.
LEMMA EraseFacts ==
    ASSUME PoolShaped, NEW n \in Names, NEW p, p = Erase(n)
    PROVE  /\ PoolType(p) /\ p.active = pool.active
           /\ DOMAIN p.parked = DOMAIN pool.parked \ {n}
           /\ \A m \in DOMAIN p.parked : p.parked[m] = pool.parked[m]
<1> DEFINE t == LruWithout(n)
           f == [m \in DOMAIN pool.parked \ {n} |-> pool.parked[m]]
           P == UNION {[E -> Context] : E \in SUBSET Names}
<1>1. /\ t \in Seq(Names) /\ \A i, j \in DOMAIN t : t[i] = t[j] => i = j
      /\ \A i \in DOMAIN t : t[i] # n /\ t[i] \in DOMAIN pool.parked
  BY LruFacts
<1>2. PICK D \in SUBSET Names : pool.parked \in [D -> Context]
  BY DEF PoolShaped, PoolType
<1>3. /\ f \in [D \ {n} -> Context] /\ DOMAIN f = DOMAIN pool.parked \ {n} /\ D = DOMAIN pool.parked
      /\ \A m \in DOMAIN f : f[m] = pool.parked[m]
  BY <1>2
<1>4. Erase(n) = [pool EXCEPT !.parked = f, !.lru = t]
  BY DEF Erase
<1> HIDE DEF f, t
<1>5. f \in P
  BY <1>3
<1>6. /\ pool.active \in Names
      /\ pool \in [active : Names, parked : P, lru : Seq(Names)]
  BY DEF PoolShaped, PoolType
<1>7. /\ p \in [active : Names, parked : P, lru : Seq(Names)]
      /\ p.active = pool.active /\ p.parked = f /\ p.lru = t
  <2> HIDE DEF P
  <2> QED BY ZenonT(30), <1>1, <1>4, <1>5, <1>6
<1>8. PoolType(p)
  BY <1>1, <1>3, <1>7 DEF PoolType
<1> QED BY <1>3, <1>7, <1>8

\* Another session active.
LEMMA ActiveFacts ==
    ASSUME NEW p, PoolType(p), NEW a \in Names, NEW q, q = [p EXCEPT !.active = a]
    PROVE  PoolType(q) /\ q.active = a /\ q.parked = p.parked
<1> DEFINE P == UNION {[E -> Context] : E \in SUBSET Names}
<1>1. p \in [active : Names, parked : P, lru : Seq(Names)]
  BY DEF PoolType
<1> HIDE DEF P
<1>2. /\ q \in [active : Names, parked : P, lru : Seq(Names)]
      /\ q.active = a /\ q.parked = p.parked /\ q.lru = p.lru
  BY <1>1
<1> QED BY <1>2, ZenonT(30) DEF PoolType, P

\* Parking the live context.
LEMMA ParkFacts ==
    ASSUME PoolShaped, pool' = Park(live)
    PROVE  /\ PoolType(pool') /\ pool'.active = pool.active
           /\ DOMAIN pool'.parked = DOMAIN pool.parked \cup {pool.active}
           /\ pool'.parked[pool.active] = live
           /\ \A m \in DOMAIN pool.parked : m # pool.active => pool'.parked[m] = pool.parked[m]
<1> DEFINE a == pool.active
           t == LruWithout(a)
           u == <<a>> \o t
           f == [m \in DOMAIN pool.parked \cup {a} |-> IF m = a THEN live ELSE pool.parked[m]]
           P == UNION {[E -> Context] : E \in SUBSET Names}
<1>1. /\ a \in Names /\ live \in Context
      /\ pool \in [active : Names, parked : P, lru : Seq(Names)]
  BY DEF PoolShaped, PoolType
<1>2. /\ t \in Seq(Names) /\ \A i, j \in DOMAIN t : t[i] = t[j] => i = j
      /\ \A i \in DOMAIN t : t[i] # a /\ t[i] \in DOMAIN pool.parked
  BY <1>1, LruFacts
<1>3. PICK D \in SUBSET Names : pool.parked \in [D -> Context]
  BY DEF PoolShaped, PoolType
<1>4. /\ f \in [D \cup {a} -> Context] /\ DOMAIN f = DOMAIN pool.parked \cup {a} /\ f[a] = live
      /\ \A m \in DOMAIN pool.parked : m # a => f[m] = pool.parked[m]
  BY <1>1, <1>3
<1>5. pool' = [pool EXCEPT !.parked = f, !.lru = u]
  BY DEF Park
<1>6. /\ u \in Seq(Names) /\ DOMAIN u = 1 .. Len(t) + 1 /\ u[1] = a
      /\ \A i \in DOMAIN u : i # 1 => i - 1 \in DOMAIN t /\ u[i] = t[i - 1]
  <2>1. <<a>> \in Seq(Names) /\ Len(<<a>>) = 1 /\ <<a>>[1] = a
    BY <1>1
  <2> HIDE DEF t, f, a
  <2>2. /\ u \in Seq(Names) /\ Len(u) = 1 + Len(t) /\ Len(t) \in Nat /\ DOMAIN t = 1 .. Len(t)
        /\ \A i \in 1 .. Len(u) : u[i] = IF i <= 1 THEN <<a>>[i] ELSE t[i - 1]
    BY <1>2, <2>1, ConcatProperties
  <2> HIDE DEF u
  <2>3. DOMAIN u = 1 .. Len(u)
    BY <2>2
  <2> QED BY <2>1, <2>2, <2>3
<1> HIDE DEF f, t, u, a
<1>7. \A i, j \in DOMAIN u : u[i] = u[j] => i = j
  <2> SUFFICES ASSUME NEW i \in DOMAIN u, NEW j \in DOMAIN u, u[i] = u[j] PROVE i = j
    OBVIOUS
  <2>1. i \in Int /\ j \in Int
    BY <1>2, <1>6
  <2>2. CASE i = 1 \/ j = 1
    BY <1>2, <1>6, <2>2
  <2>3. CASE i # 1 /\ j # 1
    <3>1. i - 1 = j - 1
      BY <1>2, <1>6, <2>3
    <3> QED BY <2>1, <3>1
  <2> QED BY <2>2, <2>3
<1>8. \A i \in DOMAIN u : u[i] \in DOMAIN f
  BY <1>2, <1>4, <1>6
<1>9. f \in P
  <2>1. PICK E \in SUBSET Names : E = D \cup {a}
    BY ZenonT(30), <1>1
  <2>2. f \in [E -> Context]
    BY <1>4, <2>1
  <2> QED BY <2>2
<1>10. /\ pool' \in [active : Names, parked : P, lru : Seq(Names)]
       /\ pool'.active = a /\ pool'.parked = f /\ pool'.lru = u
  <2> HIDE DEF P
  <2> QED BY ZenonT(30), <1>1, <1>5, <1>6, <1>9 DEF a
<1>11. PoolType(pool')
  BY <1>7, <1>8, <1>10 DEF PoolType
<1> QED BY ZenonT(30), <1>4, <1>10, <1>11 DEF a

\* The victim is a parked session.
LEMMA VictimFacts ==
    ASSUME PoolShaped, pool.lru # <<>>
    PROVE  /\ Victim \in Names /\ Victim \in DOMAIN pool.parked
           /\ pool.parked[Victim] \in Context
<1>1. pool.lru \in Seq(Names) /\ \A i \in DOMAIN pool.lru : pool.lru[i] \in DOMAIN pool.parked
  BY DEF PoolShaped, PoolType
<1>2. Len(pool.lru) \in DOMAIN pool.lru
  <2> DEFINE q == pool.lru
  <2>1. q \in Seq(Names) /\ q # <<>>
    BY <1>1
  <2> HIDE DEF q
  <2>2. Len(q) \in DOMAIN q
    BY <2>1
  <2> QED BY <2>2 DEF q
<1>3. Victim \in Names /\ Victim \in DOMAIN pool.parked
  <2> DEFINE q == pool.lru
             k == Len(pool.lru)
  <2>1. q[k] \in Names /\ q[k] \in DOMAIN pool.parked
    <3> HIDE DEF k
    <3> QED BY <1>1, <1>2 DEF k
  <2> QED BY <2>1 DEF Victim
<1>4. PICK D \in SUBSET Names : pool.parked \in [D -> Context]
  BY DEF PoolShaped, PoolType
<1>5. pool.parked[Victim] \in Context
  <2> DEFINE v == Victim
  <2>1. v \in DOMAIN pool.parked
    BY <1>3
  <2> HIDE DEF v
  <2>2. pool.parked[v] \in Context
    BY <1>4, <2>1
  <2> QED BY <2>2 DEF v
<1> QED BY <1>3, <1>5

-----------------------------------------------------------------------------
(* What a step of the main thread does to the disk and its writer *)

\* Nobody waits for a write.
Unawaited == (\A e \in Pending : ~e.save) /\ (Busy => ~writer.save)

LEMMA UnawaitedFacts ==
    ASSUME Saves, main.at \notin {"saving", "parking", "flush", "exit"}
    PROVE  Unawaited
BY ZenonT(30) DEF Saves, Unawaited, Pending

LEMMA UnawaitedSaves ==
    ASSUME Unawaited', main'.at # "saving"
    PROVE  Saves'
BY ZenonT(30) DEF Saves, Unawaited, Pending

\* A step that leaves the disk and the writer alone.
LEMMA QuietFrame ==
    ASSUME DiskShaped, DiskOwners, UNCHANGED <<disk, writer, writeFaults>>,
           ghost'.failed = ghost.failed
    PROVE  /\ DiskShaped' /\ DiskOwners' /\ (Unawaited => Unawaited') /\ (Drained' <=> Drained)
           /\ \A m \in Names : ghost'.latest[m] = ghost.latest[m] =>
                 (Tracked(m) => Tracked(m)') /\ (Landed(m) => Landed(m)')
<1>1. DiskShaped' /\ DiskOwners'
  BY ZenonT(30) DEF DiskShaped, DiskOwners, Busy
<1>2. (Unawaited => Unawaited') /\ (Drained' <=> Drained)
  BY ZenonT(30) DEF Unawaited, Drained, Busy, Pending
<1>3. \A m \in Names : /\ Load(m)' = Load(m) /\ (Pends(m)' <=> Pends(m))
                       /\ (Writes(m)' <=> Writes(m))
  BY DEF Load, Pends, Writes, Busy
<1>4. \A m \in Names : ghost'.latest[m] = ghost.latest[m] =>
                 (Tracked(m) => Tracked(m)') /\ (Landed(m) => Landed(m)')
  BY <1>3, ZenonT(30) DEF Tracked, Landed
<1> QED BY <1>1, <1>2, <1>4, ZenonT(30)

\* A step that queues a snapshot.
LEMMA QueueFrame ==
    ASSUME DiskShaped, DiskOwners, UNCHANGED <<disk, writeFaults>>,
           NEW n \in Names, NEW c \in Context, NEW save \in BOOLEAN, Queue(n, c, save),
           Belongs(c, n), ghost'.failed = ghost.failed, Unawaited
    PROVE  /\ DiskShaped' /\ DiskOwners' /\ (~save => Unawaited')
           /\ (\A e \in Pending' : e.save => e.name = n) /\ (Busy' => ~writer'.save)
           /\ save => writer'.result = "none"
           /\ c = ghost'.latest[n] => Tracked(n)'
           /\ \A m \in Names \ {n} : ghost'.latest[m] = ghost.latest[m] =>
                 (Tracked(m) => Tracked(m)') /\ (Landed(m) => Landed(m)')
<1>1. /\ DiskShaped' /\ WriteKept
      /\ writer'.result = IF save THEN "none" ELSE writer.result
  BY QueueFacts, ZenonT(30)
<1>2. PICK b \in BOOLEAN :
         /\ b => save \/ \E e \in Pending : e.name = n /\ e.save
         /\ Pending' = {e \in Pending : e.name # n} \cup {[name |-> n, ctx |-> c, save |-> b]}
  BY QueueFacts, ZenonT(30)
<1> DEFINE x == [name |-> n, ctx |-> c, save |-> b]
<1>3. x.name = n /\ x.ctx = c /\ x.save = b
  OBVIOUS
<1>4. \A e : e \in Pending' <=> (e \in Pending /\ e.name # n) \/ e = x
  BY <1>2
<1>5. b => save
  BY <1>2 DEF Unawaited
<1> HIDE DEF x
<1>6. Busy' <=> Busy
  BY <1>1 DEF Busy, WriteKept
<1>7. DiskOwners'
  <2>1. \A e \in Pending' : Belongs(e.ctx, e.name)
    BY <1>3, <1>4, ZenonT(30) DEF DiskOwners, Pending
  <2> QED BY <1>1, <1>6, <2>1, ZenonT(30) DEF DiskOwners, Pending, WriteKept
<1>8. /\ \A e \in Pending' : e.save => e.name = n /\ save
      /\ Busy' => ~writer'.save
  BY <1>1, <1>3, <1>4, <1>5, <1>6, ZenonT(30) DEF Unawaited, WriteKept
<1>9. ~save => Unawaited'
  BY <1>8, ZenonT(30) DEF Unawaited
<1>10. c = ghost'.latest[n] => Tracked(n)'
  <2>1. Pends(n)' /\ \A e \in Pending' : e.name = n => e.ctx = c
    BY <1>3, <1>4, ZenonT(30) DEF Pends, Pending
  <2> QED BY <2>1, ZenonT(30) DEF Tracked, Pending
<1>11. \A m \in Names \ {n} : /\ Load(m)' = Load(m) /\ (Pends(m)' <=> Pends(m))
                              /\ (Writes(m)' <=> Writes(m))
                              /\ \A e \in Pending' : e.name = m => e \in Pending
  <2> TAKE m \in Names \ {n}
  <2>1. Load(m)' = Load(m)
    BY DEF Load
  <2>2. Writes(m)' <=> Writes(m)
    BY <1>1, <1>6 DEF Writes, WriteKept
  <2>3. (Pends(m)' <=> Pends(m)) /\ \A e \in Pending' : e.name = m => e \in Pending
    BY <1>3, <1>4 DEF Pends, Pending
  <2> QED BY <2>1, <2>2, <2>3, ZenonT(30)
<1>12. \A m \in Names \ {n} : ghost'.latest[m] = ghost.latest[m] =>
                 (Tracked(m) => Tracked(m)') /\ (Landed(m) => Landed(m)')
  BY <1>1, <1>11, ZenonT(30) DEF Tracked, Landed, Pending, WriteKept
<1> QED BY <1>1, <1>7, <1>8, <1>9, <1>10, <1>12

\* A step that discards a session's snapshot.
LEMMA DiscardFrame ==
    ASSUME DiskShaped, DiskOwners, UNCHANGED <<disk, writeFaults>>,
           NEW n \in Names, Discard(n), ghost'.failed = ghost.failed, Unawaited
    PROVE  /\ DiskShaped' /\ DiskOwners' /\ Unawaited'
           /\ \A m \in Names : ghost'.latest[m] = ghost.latest[m] =>
                 (m # n /\ Tracked(m) => Tracked(m)') /\ (Landed(m) => Landed(m)')
<1>1. /\ DiskShaped' /\ WriteKept /\ Pending' = {e \in Pending : e.name # n}
  BY DiscardFacts, ZenonT(30)
<1>2. \A e : e \in Pending' <=> e \in Pending /\ e.name # n
  BY <1>1
<1>3. Busy' <=> Busy
  BY <1>1 DEF Busy, WriteKept
<1>4. DiskOwners'
  <2>1. \A e \in Pending' : Belongs(e.ctx, e.name)
    BY <1>2, ZenonT(30) DEF DiskOwners, Pending
  <2> QED BY <1>1, <1>3, <2>1, ZenonT(30) DEF DiskOwners, Pending, WriteKept
<1>5. Unawaited'
  BY <1>1, <1>2, <1>3, ZenonT(30) DEF Unawaited, WriteKept
<1>6. \A m \in Names : /\ Load(m)' = Load(m) /\ (Writes(m)' <=> Writes(m))
                       /\ (Pends(m)' <=> Pends(m) /\ m # n)
                       /\ \A e \in Pending' : e \in Pending
  <2> TAKE m \in Names
  <2>1. Load(m)' = Load(m)
    BY DEF Load
  <2>2. Writes(m)' <=> Writes(m)
    BY <1>1, <1>3 DEF Writes, WriteKept
  <2>3. (Pends(m)' <=> Pends(m) /\ m # n) /\ \A e \in Pending' : e \in Pending
    BY <1>2 DEF Pends, Pending
  <2> QED BY <2>1, <2>2, <2>3, ZenonT(30)
<1>7. \A m \in Names : ghost'.latest[m] = ghost.latest[m] =>
                 (m # n /\ Tracked(m) => Tracked(m)') /\ (Landed(m) => Landed(m)')
  BY <1>1, <1>6, ZenonT(30) DEF Tracked, Landed, Pending, WriteKept
<1> QED BY <1>1, <1>4, <1>5, <1>7

\* A step that drops a session's file.
LEMMA DropFrame ==
    ASSUME DiskShaped, DiskOwners, UNCHANGED <<writer, writeFaults>>,
           NEW n \in Names, DropFile(n), ghost'.failed = ghost.failed
    PROVE  /\ DiskShaped' /\ DiskOwners' /\ (Unawaited => Unawaited') /\ (Drained' <=> Drained)
           /\ \A m \in Names \ {n} : ghost'.latest[m] = ghost.latest[m] =>
                 (Tracked(m) => Tracked(m)') /\ (Landed(m) => Landed(m)')
<1>1. disk' = Others(disk, FileOf[n]) /\ OnePerFile(disk)
  BY ZenonT(30) DEF DropFile, DiskShaped
<1>2. /\ OnePerFile(disk') /\ Range(disk') = {e \in Range(disk) : e.file # FileOf[n]}
      /\ \A m \in Names \ {n} : Found(disk', m) = Found(disk, m)
  BY <1>1, OthersFacts
<1>3. (Unawaited => Unawaited') /\ (Drained' <=> Drained) /\ (Busy' <=> Busy)
  BY ZenonT(30) DEF Unawaited, Drained, Busy, Pending
<1>4. \A e \in Range(disk') : e \in Range(disk)
  BY <1>2
<1>5. DiskShaped' /\ DiskOwners'
  BY <1>2, <1>3, <1>4, ZenonT(30) DEF DiskShaped, DiskOwners
<1>6. \A m \in Names \ {n} : /\ Load(m)' = Load(m) /\ (Pends(m)' <=> Pends(m))
                             /\ (Writes(m)' <=> Writes(m))
  BY <1>2, <1>3 DEF Load, Found, Pends, Writes
<1>7. \A m \in Names \ {n} : ghost'.latest[m] = ghost.latest[m] =>
                 (Tracked(m) => Tracked(m)') /\ (Landed(m) => Landed(m)')
  BY <1>6, ZenonT(30) DEF Tracked, Landed
<1> QED BY <1>3, <1>5, <1>7, ZenonT(30)

\* What is loaded is a context of the session.
LEMMA LoadFacts ==
    ASSUME DiskShaped, DiskOwners, NEW n \in Names
    PROVE  Load(n) \in Context /\ Belongs(Load(n), n)
<1>1. Load(n) = Found(disk, n) /\ OnePerFile(disk)
  BY DEF Load, Found, DiskShaped
<1>2. /\ \A e \in Range(disk) : e.file = FileOf[n] => Found(disk, n) = e.ctx
      /\ (\A e \in Range(disk) : e.file # FileOf[n]) => Found(disk, n) = NoContext
      /\ Found(disk, n) \in Context
  BY <1>1, FoundFacts
<1>3. \A e \in Range(disk) : e.file = FileOf[n] => Belongs(e.ctx, n)
  BY ZenonT(30) DEF DiskOwners
<1> QED BY <1>1, <1>2, <1>3, ZenonT(30) DEF Belongs

\* The main thread moves on.
LEMMA GotoFacts ==
    ASSUME MainTypes, CancelSound, NEW p \in Places, Goto(p), UNCHANGED <<conf, inbox>>,
           p # "decode", p \in Starting \/ p = "emit" => main.at \in Starting
    PROVE  /\ MainTypes' /\ CancelSound'
           /\ main'.at = p /\ main'.s = main.s /\ main'.then = main.then
<1> DEFINE Rest == [at : Places, s : Names, then : {"", "reset", "prefill"}, seq : Nat,
                    tokens : Nat, burst : Nat, late : Nat]
<1>1. main \in Rest /\ main' = [main EXCEPT !.at = p]
  BY ZenonT(30) DEF MainTypes, Goto
<1>2. /\ main' \in Rest /\ main'.at = p /\ main'.s = main.s /\ main'.then = main.then
      /\ main'.seq = main.seq /\ main'.burst = main.burst /\ main'.late = main.late
  BY ZenonT(30), <1>1
<1>3. MainTypes'
  BY <1>2, ZenonT(30) DEF MainTypes
<1>4. conf.burst \in Nat \ {0} /\ main.burst \in Nat /\ main.late \in Nat
  BY ZenonT(30), <1>1, ServeAssumption DEF MainTypes
<1>5. p = "emit" => /\ main.burst >= 1 /\ main.late + main.burst <= conf.burst
                    /\ ~(main.late > 0)
  BY <1>4 DEF CancelSound
<1>6. CancelSound'
  BY <1>2, <1>5, ZenonT(30) DEF CancelSound, Cancelled
<1> QED BY ZenonT(30), <1>2, <1>3, <1>6

-----------------------------------------------------------------------------
(* The steps of the main thread and of the reader *)

\* A step that moves the main thread only.
LEMMA MovesOnly ==
    ASSUME ServeInv, UNCHANGED <<disk, writer, writeFaults, conf, pool, live>>,
           ghost'.latest = ghost.latest, ghost'.gone = ghost.gone, ghost'.failed = ghost.failed,
           PoolShaped', MainTypes', CancelSound', Placed', Saves',
           main.at # "dropping", main.at \notin {"start", "cold"},
           ~Generating, main'.at # "start", main'.at \in {"find", "cold"} => ~Kept(pool.active)
    PROVE  ServeInv'
<1>1. /\ DiskShaped /\ MemoryOwners /\ DiskOwners /\ Placed /\ OnDisk /\ InMemory
  BY DEF ServeInv, Owners
<1>2. /\ DiskShaped' /\ DiskOwners'
      /\ \A m \in Names : ghost'.latest[m] = ghost.latest[m] =>
            (Tracked(m) => Tracked(m)') /\ (Landed(m) => Landed(m)')
  BY <1>1, QuietFrame, ZenonT(30)
<1>3. \A n \in Names : (Kept(n)' <=> Kept(n)) /\ (Tracked(n) => Tracked(n)')
                       /\ (Landed(n) => Landed(n)')
  BY <1>2 DEF Kept
<1>4. Owners'
  BY <1>1, <1>2, ZenonT(30) DEF Owners, MemoryOwners
<1>5. OnDisk'
  BY <1>1, <1>3, ZenonT(30) DEF OnDisk
<1>6. pool.active \in Names /\ \A n \in DOMAIN pool.parked : n \in Names
  BY DEF ServeInv, PoolShaped, PoolType
<1>7. InMemory'
  <2>1. \A n \in DOMAIN pool.parked : Kept(n)' => pool.parked[n] = ghost.latest[n]
    BY <1>1, <1>3, <1>6, ZenonT(30) DEF InMemory
  <2>2. \A n \in Names \ DOMAIN pool.parked :
          Kept(n)' /\ n # pool.active => conf.disk /\ Landed(n)'
    BY <1>1, <1>3, ZenonT(30) DEF InMemory
  <2>3. Kept(pool.active)' /\ ~Generating => live = ghost.latest[pool.active]
    BY <1>1, <1>3, <1>6, ZenonT(30) DEF InMemory
  <2>4. main'.at \in {"find", "cold"} => ~Kept(pool.active)'
    BY <1>3, <1>6
  <2> QED BY <2>1, <2>2, <2>3, <2>4, ZenonT(30) DEF InMemory
<1> QED BY <1>2, <1>4, <1>5, <1>7, ZenonT(30) DEF ServeInv

\* The reader thread.
LEMMA ReadLineKeeps ==
    ASSUME ServeInv, ReadLine
    PROVE  ServeInv'
<1>1. /\ MainTypes /\ PoolShaped /\ DiskShaped /\ MemoryOwners /\ DiskOwners /\ Placed
      /\ OnDisk /\ InMemory /\ Saves /\ CancelSound
  BY DEF ServeInv, Owners
<1>2. PICK l \in conf.ops :
         inbox' = IF l.op = "cancel" THEN [inbox EXCEPT !.cancel = inbox.read]
                  ELSE [inbox EXCEPT
                          !.read = IF l.op = "generate" THEN @ + 1 ELSE @,
                          !.queue = Append(@, [op |-> l.op, s |-> l.s, seq |-> inbox.read + 1]),
                          !.open = l.op # "quit"]
  BY ZenonT(30) DEF ReadLine
<1>3. /\ UNCHANGED <<disk, writer, writeFaults, conf, main, pool, live>>
      /\ ghost' = [ghost EXCEPT !.lines = @ + 1]
  BY DEF ReadLine
<1>4. /\ ghost'.latest = ghost.latest /\ ghost'.gone = ghost.gone /\ ghost'.failed = ghost.failed
      /\ PoolShaped'
  <2>1. ghost \in [latest : [Names -> Context], gone : SUBSET Names, failed : SUBSET Names,
                   turns : Nat, lines : Nat, starts : Nat]
    BY <1>1 DEF PoolShaped
  <2> DEFINE T == [Names -> Context]
  <2> HIDE DEF T
  <2>2. ghost \in [latest : T, gone : SUBSET Names, failed : SUBSET Names,
                   turns : Nat, lines : Nat, starts : Nat]
    BY <2>1 DEF T
  <2>3. /\ ghost' \in [latest : T, gone : SUBSET Names, failed : SUBSET Names,
                       turns : Nat, lines : Nat, starts : Nat]
        /\ ghost'.latest = ghost.latest /\ ghost'.gone = ghost.gone /\ ghost'.failed = ghost.failed
    BY <1>3, <2>2
  <2> QED BY <1>1, <1>3, <2>3, ZenonT(30) DEF PoolShaped, T
<1>5. MainTypes' /\ inbox'.cancel >= inbox.cancel /\ inbox'.cancel <= inbox'.read
  <2> DEFINE Line == [op : {"generate", "drop", "reset", "quit"}, s : Names, seq : Nat]
  <2>1. /\ inbox \in [queue : Seq(Line), read : Nat, cancel : Nat, open : BOOLEAN]
        /\ inbox.cancel <= inbox.read
    BY ZenonT(30), <1>1 DEF MainTypes, CancelSound
  <2>2. l.op \in {"generate", "cancel", "drop", "reset", "quit"} /\ l.s \in Names
    BY ZenonT(30), <1>1, ServeAssumption DEF MainTypes
  <2> DEFINE x == [op |-> l.op, s |-> l.s, seq |-> inbox.read + 1]
  <2>3. l.op # "cancel" => x \in Line
    BY <2>1, <2>2
  <2> HIDE DEF Line, x
  <2>4. l.op # "cancel" => Append(inbox.queue, x) \in Seq(Line)
    BY <2>1, <2>3
  <2> DEFINE w == Append(inbox.queue, x)
             k == IF l.op = "generate" THEN inbox.read + 1 ELSE inbox.read
             b == l.op # "quit"
  <2>5. /\ l.op # "cancel" => inbox' = [inbox EXCEPT !.read = k, !.queue = w, !.open = b]
        /\ k \in Nat /\ k >= inbox.read /\ b \in BOOLEAN
    BY <1>2, <2>1 DEF x
  <2> HIDE DEF w, k, b
  <2>6. /\ inbox' \in [queue : Seq(Line), read : Nat, cancel : Nat, open : BOOLEAN]
        /\ inbox'.cancel >= inbox.cancel /\ inbox'.cancel <= inbox'.read
    <3>1. CASE l.op = "cancel"
      BY <1>2, <2>1, <3>1
    <3>2. CASE l.op # "cancel"
      <4>1. w \in Seq(Line) /\ inbox' = [inbox EXCEPT !.read = k, !.queue = w, !.open = b]
        BY <2>4, <2>5, <3>2 DEF w
      <4>2. /\ inbox' \in [queue : Seq(Line), read : Nat, cancel : Nat, open : BOOLEAN]
            /\ inbox'.cancel = inbox.cancel /\ inbox'.read = k
        BY <2>1, <2>5, <4>1, ZenonT(30)
      <4>3. inbox.cancel \in Nat /\ inbox.read \in Nat
        BY <2>1
      <4> QED BY <2>1, <2>5, <4>2, <4>3
    <3> QED BY <3>1, <3>2
  <2> QED BY <1>1, <1>3, <2>6, ZenonT(30) DEF MainTypes, Line
<1>6. CancelSound'
  <2>1. Cancelled => Cancelled'
    <3>1. inbox.cancel \in Nat /\ inbox'.cancel \in Nat /\ main.seq \in Nat
      BY ZenonT(30), <1>1, <1>5 DEF MainTypes
    <3> QED BY <1>3, <1>5, <3>1 DEF Cancelled
  <2> QED BY <1>1, <1>3, <1>5, <2>1, ZenonT(30) DEF CancelSound
<1>7. /\ DiskShaped' /\ DiskOwners' /\ (Drained' <=> Drained)
      /\ \A m \in Names : ghost'.latest[m] = ghost.latest[m] =>
            (Tracked(m) => Tracked(m)') /\ (Landed(m) => Landed(m)')
  BY <1>1, <1>3, <1>4, QuietFrame, ZenonT(30)
<1>8. \A n : (Kept(n)' <=> Kept(n))
  BY <1>4 DEF Kept
<1>9. Owners'
  BY <1>1, <1>3, <1>7, ZenonT(30) DEF Owners, MemoryOwners
<1>10. Placed'
  BY <1>1, <1>3, <1>4, <1>7, ZenonT(30) DEF Placed
<1>11. OnDisk'
  BY <1>1, <1>3, <1>4, <1>7, <1>8, ZenonT(30) DEF OnDisk
<1>12. InMemory'
  BY <1>1, <1>3, <1>4, <1>7, <1>8, ZenonT(30) DEF InMemory, Generating
<1>13. Saves'
  BY <1>1, <1>3, <1>4, ZenonT(30) DEF Saves, Victim, Pends, Writes, Busy
<1> QED BY <1>4, <1>5, <1>6, <1>7, <1>9, <1>10, <1>11, <1>12, <1>13, ZenonT(30) DEF ServeInv

\* The next request.
LEMMA PopKeeps ==
    ASSUME ServeInv, Pop
    PROVE  ServeInv'
<1>1. /\ MainTypes /\ PoolShaped /\ DiskShaped /\ DiskOwners /\ Placed /\ Saves /\ CancelSound
  BY DEF ServeInv, Owners
<1> DEFINE r == Head(inbox.queue)
           Line == [op : {"generate", "drop", "reset", "quit"}, s : Names, seq : Nat]
           Box == [queue : Seq(Line), read : Nat, cancel : Nat, open : BOOLEAN]
           Rest == [at : Places, s : Names, then : {"", "reset", "prefill"}, seq : Nat,
                    tokens : Nat, burst : Nat, late : Nat]
<1>2. /\ main.at = "idle" /\ inbox.queue # <<>> /\ inbox' = [inbox EXCEPT !.queue = Tail(@)]
      /\ UNCHANGED <<disk, writer, writeFaults, conf, pool, live, ghost>>
  BY DEF Pop
<1>3. inbox \in Box /\ conf \in Configs
  BY ZenonT(30), <1>1 DEF MainTypes
<1>4. r \in Line /\ Tail(inbox.queue) \in Seq(Line)
  <2> HIDE DEF Line
  <2> QED BY <1>2, <1>3
<1>5. inbox' \in Box /\ inbox'.cancel = inbox.cancel /\ inbox'.read = inbox.read
  <2> DEFINE t == Tail(inbox.queue)
  <2>1. inbox' = [inbox EXCEPT !.queue = t] /\ t \in Seq(Line)
    BY ZenonT(30), <1>2, <1>4
  <2> HIDE DEF t, Line
  <2> QED BY <1>3, <2>1
<1>6. \/ main' = [Waiting EXCEPT !.at = "park"]
      \/ main' = Waiting
      \/ \E at \in {"drop", "switch"}, then \in {"", "reset", "prefill"} :
            /\ main' = [Waiting EXCEPT !.at = at, !.s = r.s, !.then = then, !.seq = r.seq]
            /\ at = "switch" => then # ""
  BY <1>4 DEF Pop
<1>7. /\ main' \in Rest /\ main'.burst = 1 /\ main'.late = 0
      /\ main'.at \in {"park", "idle", "drop", "switch"}
      /\ main'.at = "switch" => main'.then \in {"reset", "prefill"}
  <2>1. r.s \in Names /\ r.seq \in Nat /\ Default \in Names
    BY <1>4, ServeAssumption
  <2> HIDE DEF r
  <2>2. CASE main' = [Waiting EXCEPT !.at = "park"]
    BY ZenonT(30), <2>1, <2>2 DEF Waiting, Places
  <2>3. CASE main' = Waiting
    BY ZenonT(30), <2>1, <2>3 DEF Waiting, Places
  <2>4. ASSUME NEW at \in {"drop", "switch"}, NEW then \in {"", "reset", "prefill"},
               main' = [Waiting EXCEPT !.at = at, !.s = r.s, !.then = then, !.seq = r.seq],
               at = "switch" => then # ""
        PROVE  <1>7!:
    BY ZenonT(30), <2>1, <2>4 DEF Waiting, Places
  <2> QED BY ZenonT(30), <1>6, <2>2, <2>3, <2>4
<1>8. MainTypes'
  BY <1>2, <1>3, <1>5, <1>7, ZenonT(30) DEF MainTypes
<1>9. CancelSound'
  <2>1. conf.burst \in Nat \ {0}
    BY <1>3, ServeAssumption
  <2>2. 0 <= conf.burst
    BY <2>1
  <2>3. inbox.cancel <= inbox.read
    BY <1>1 DEF CancelSound
  <2> QED BY ZenonT(30), <1>2, <1>5, <1>7, <2>2, <2>3 DEF CancelSound
<1>10. Placed'
  <2>1. Drained' <=> Drained
    BY <1>2 DEF Drained, Busy
  <2> QED BY ZenonT(30), <1>1, <1>2, <1>7, <2>1 DEF Placed, Arrived, Leaving
<1>11. Saves'
  <2>1. Unawaited
    BY <1>1, <1>2, UnawaitedFacts
  <2>2. Unawaited'
    BY <1>2, <2>1, ZenonT(30) DEF Unawaited, Busy, Pending
  <2> QED BY ZenonT(30), <1>7, <2>2, UnawaitedSaves
<1>12. PoolShaped'
  BY <1>1, <1>2, ZenonT(30) DEF PoolShaped
<1>13. ~Generating /\ main'.at \notin {"find", "cold", "start"}
  BY ZenonT(30), <1>2, <1>7 DEF Generating
<1> QED BY <1>2, <1>8, <1>9, <1>10, <1>11, <1>12, <1>13, MovesOnly

\* A step of the request on the live context of the active session.
LEMMA TurnFrame ==
    ASSUME ServeInv, UNCHANGED <<disk, writer, writeFaults, conf, pool>>,
           main.at \in {"reset", "prefill", "feeding", "emit", "decode"},
           MainTypes', CancelSound', PoolShaped',
           main'.s = main.s, main'.at \in {"idle", "feeding", "emit", "decode", "checkpoint"},
           Belongs(live', main.s),
           ghost'.gone = ghost.gone, ghost'.failed = ghost.failed,
           \A n \in Names \ {main.s} : ghost'.latest[n] = ghost.latest[n],
           \/ ghost'.latest[main.s] = NoContext
           \/ ghost'.latest[main.s] = ghost.latest[main.s] /\ main'.at # "idle"
    PROVE  ServeInv'
<1>1. /\ DiskShaped /\ MemoryOwners /\ DiskOwners /\ Placed /\ OnDisk /\ InMemory /\ Saves
  BY DEF ServeInv, Owners
<1>2. Unawaited
  BY <1>1, UnawaitedFacts
<1>3. /\ DiskShaped' /\ DiskOwners' /\ Unawaited' /\ (Drained' <=> Drained)
      /\ \A m \in Names : ghost'.latest[m] = ghost.latest[m] =>
            (Tracked(m) => Tracked(m)') /\ (Landed(m) => Landed(m)')
  BY <1>1, <1>2, QuietFrame, ZenonT(30)
<1>4. /\ main.s = pool.active /\ pool.active \notin DOMAIN pool.parked
      /\ \A n \in DOMAIN pool.parked : n \in Names
  <2>1. main.s = pool.active /\ pool.active \notin DOMAIN pool.parked
    BY ZenonT(30), <1>1 DEF Placed, Arrived, Leaving
  <2>2. \A n \in DOMAIN pool.parked : n \in Names
    BY DEF ServeInv, PoolShaped, PoolType
  <2> QED BY ZenonT(30), <2>1, <2>2
<1>5. \A n \in Names : Kept(n)' =>
         /\ Kept(n) /\ ghost'.latest[n] = ghost.latest[n]
         /\ (Tracked(n) => Tracked(n)') /\ (Landed(n) => Landed(n)')
         /\ n = main.s => main'.at # "idle"
  BY ZenonT(30), <1>3 DEF Kept
<1>6. Owners'
  BY <1>1, <1>3, <1>4, ZenonT(30) DEF Owners, MemoryOwners
<1>7. Placed'
  BY ZenonT(30), <1>1, <1>3, <1>4 DEF Placed, Arrived, Leaving
<1>8. OnDisk'
  BY ZenonT(30), <1>1, <1>5 DEF OnDisk
<1>9. InMemory'
  <2>1. \A n \in DOMAIN pool.parked : Kept(n)' => pool.parked[n] = ghost'.latest[n]
    BY <1>1, <1>4, <1>5, ZenonT(30) DEF InMemory
  <2>2. \A n \in Names \ DOMAIN pool.parked :
          Kept(n)' /\ n # pool.active => conf.disk /\ Landed(n)'
    BY <1>1, <1>5, ZenonT(30) DEF InMemory
  <2>3. main'.at # "start" /\ main'.at \notin {"find", "cold"} /\ (main'.at = "idle" \/ Generating')
    BY ZenonT(30) DEF Generating
  <2>4. pool.active \in Names
    BY DEF ServeInv, PoolShaped, PoolType
  <2> QED BY <1>4, <1>5, <2>1, <2>2, <2>3, <2>4, ZenonT(30) DEF InMemory
<1>10. Saves'
  BY ZenonT(30), <1>3, UnawaitedSaves
<1> QED BY <1>3, <1>6, <1>7, <1>8, <1>9, <1>10, ZenonT(30) DEF ServeInv

\* A turn counted, or a session's last context forgotten.
LEMMA GhostFacts ==
    ASSUME PoolShaped, NEW n \in Names, live' \in Context, pool' = pool,
           ghost' = ghost \/ ghost' = Forget(n) \/ ghost' = [ghost EXCEPT !.turns = @ + 1]
    PROVE  /\ PoolShaped' /\ ghost'.gone = ghost.gone /\ ghost'.failed = ghost.failed
           /\ \A m \in Names \ {n} : ghost'.latest[m] = ghost.latest[m]
           /\ ghost' = Forget(n) => ghost'.latest[n] = NoContext
           /\ ghost' # Forget(n) => ghost'.latest[n] = ghost.latest[n]
<1> DEFINE T == [Names -> Context]
           G == [latest : T, gone : SUBSET Names, failed : SUBSET Names,
                 turns : Nat, lines : Nat, starts : Nat]
           f == [ghost.latest EXCEPT ![n] = NoContext]
<1>1. ghost \in G /\ ghost.latest \in T
  BY ZenonT(30) DEF PoolShaped
<1>2. f \in T /\ f[n] = NoContext /\ \A m \in Names \ {n} : f[m] = ghost.latest[m]
  BY <1>1 DEF Context
<1>3. Forget(n) = [ghost EXCEPT !.latest = f]
  BY <1>1 DEF Forget
<1> HIDE DEF T, f
<1>4. /\ ghost' \in G /\ ghost'.gone = ghost.gone /\ ghost'.failed = ghost.failed
      /\ ghost'.latest = ghost.latest \/ ghost'.latest = f
      /\ ghost' = Forget(n) => ghost'.latest = f
      /\ ghost' # Forget(n) => ghost'.latest = ghost.latest
  <2>1. CASE ghost' = Forget(n)
    BY <1>1, <1>2, <1>3, <2>1
  <2>2. CASE ghost' = ghost
    BY <1>1, <1>3, <2>2
  <2>3. CASE ghost' # Forget(n) /\ ghost' = [ghost EXCEPT !.turns = @ + 1]
    <3> DEFINE k == ghost.turns + 1
    <3>1. k \in Nat /\ ghost' = [ghost EXCEPT !.turns = k]
      BY <1>1, <2>3
    <3> HIDE DEF k
    <3> QED BY <1>1, <2>3, <3>1
  <2> QED BY <2>1, <2>2, <2>3
<1>5. PoolShaped'
  BY <1>4, ZenonT(30) DEF PoolShaped, T
<1> QED BY <1>2, <1>4, <1>5

\* A reset, and a generate that fails.
LEMMA ForgetKeeps ==
    ASSUME ServeInv, Reset \/ GenerateFails
    PROVE  ServeInv'
<1>1. /\ MainTypes /\ PoolShaped /\ CancelSound /\ main.s \in Names
  BY ZenonT(30) DEF ServeInv, MainTypes
<1>2. /\ main.at \in {"reset", "feeding", "decode"} /\ live' = NoContext /\ ghost' = Forget(main.s)
      /\ Goto("idle") /\ UNCHANGED <<disk, writer, writeFaults, conf, inbox, pool>>
  BY DEF Reset, GenerateFails
<1>3. /\ PoolShaped' /\ ghost'.gone = ghost.gone /\ ghost'.failed = ghost.failed
      /\ \A m \in Names \ {main.s} : ghost'.latest[m] = ghost.latest[m]
      /\ ghost'.latest[main.s] = NoContext
  BY <1>1, <1>2, GhostFacts DEF Context
<1>4. MainTypes' /\ CancelSound' /\ main'.at = "idle" /\ main'.s = main.s
  BY <1>1, <1>2, GotoFacts DEF Places, Starting
<1>5. Belongs(live', main.s)
  BY <1>2 DEF Belongs
<1> QED BY ZenonT(30), <1>2, <1>3, <1>4, <1>5, TurnFrame

\* The context of the turn in progress.
LEMMA TurnFacts ==
    ASSUME MainTypes, PoolShaped
    PROVE  /\ Turn \in Context /\ [Turn EXCEPT !.turn = @ + 1] \in Context
           /\ Belongs(Turn, main.s) /\ Belongs([Turn EXCEPT !.turn = @ + 1], main.s)
<1>1. main.s \in Names /\ ghost.turns \in Nat
  BY ZenonT(30) DEF MainTypes, PoolShaped
<1> QED BY <1>1 DEF Turn, Context, Belongs

\* The prompt.
LEMMA PrefillKeeps ==
    ASSUME ServeInv, Prefill \/ FeedChunk
    PROVE  ServeInv'
<1>1. /\ MainTypes /\ PoolShaped /\ CancelSound /\ main.s \in Names /\ live \in Context
      /\ Belongs(live, pool.active) /\ Placed
  BY ZenonT(30) DEF ServeInv, MainTypes, PoolShaped, Owners, MemoryOwners
<1>2. /\ main.at \in {"prefill", "feeding"}
      /\ ghost' = ghost \/ ghost' = [ghost EXCEPT !.turns = @ + 1]
      /\ UNCHANGED <<disk, writer, writeFaults, conf, inbox, pool>>
      /\ live' \in {live, NoContext, Turn, [Turn EXCEPT !.turn = @ + 1]}
      /\ \E p \in {"feeding", "emit", "checkpoint"} : Goto(p)
  BY DEF Prefill, FeedChunk
<1>3. main.s = pool.active
  BY <1>1, <1>2 DEF Placed, Arrived
<1>4. live' \in Context /\ Belongs(live', main.s)
  <2>1. NoContext \in Context /\ Belongs(NoContext, main.s)
    BY DEF Context, Belongs
  <2> QED BY <1>1, <1>2, <1>3, <2>1, TurnFacts
<1>5. ghost'.latest = ghost.latest /\ ghost'.gone = ghost.gone /\ ghost'.failed = ghost.failed
  <2>1. ghost \in [latest : [Names -> Context], gone : SUBSET Names, failed : SUBSET Names,
                   turns : Nat, lines : Nat, starts : Nat]
    BY <1>1 DEF PoolShaped
  <2> QED BY <1>2, <2>1
<1>6. PoolShaped'
  BY <1>1, <1>2, <1>4, GhostFacts
<1>7. /\ MainTypes' /\ CancelSound' /\ main'.at \in {"feeding", "emit", "checkpoint"}
      /\ main'.s = main.s
  <2>1. PICK p \in {"feeding", "emit", "checkpoint"} : Goto(p)
    BY <1>2
  <2>2. p \in Places /\ p # "decode" /\ main.at \in Starting
    BY <1>2 DEF Places, Starting
  <2> QED BY <1>1, <1>2, <2>1, <2>2, GotoFacts
<1> QED BY <1>2, <1>4, <1>5, <1>6, <1>7, TurnFrame

\* A token goes out.
LEMMA EmitKeeps ==
    ASSUME ServeInv, Emit
    PROVE  ServeInv'
<1> DEFINE Rest == [at : Places, s : Names, then : {"", "reset", "prefill"}, seq : Nat,
                    tokens : Nat, burst : Nat, late : Nat]
           late == IF Cancelled THEN main.late + 1 ELSE main.late
           k == main.tokens + 1
           b == main.burst - 1
<1>1. /\ MainTypes /\ PoolShaped /\ CancelSound /\ Placed /\ main \in Rest
      /\ Belongs(live, pool.active) /\ conf.burst \in Nat /\ inbox.cancel <= inbox.read
  BY ZenonT(30), ServeAssumption DEF ServeInv, MainTypes, Owners, MemoryOwners, CancelSound
<1>2. /\ main.at = "emit" /\ UNCHANGED <<disk, writer, writeFaults, conf, inbox, pool, live, ghost>>
      /\ \/ main' = [main EXCEPT !.tokens = k, !.late = late, !.at = "checkpoint"]
         \/ /\ main.burst = 1 /\ ~Cancelled
            /\ main' = [main EXCEPT !.tokens = k, !.late = late, !.at = "decode"]
         \/ /\ main.burst # 1
            /\ main' = [main EXCEPT !.tokens = k, !.late = late, !.burst = b]
  BY ZenonT(30), <1>1 DEF Emit, EmitWith
<1>3. /\ main.burst >= 1 /\ main.late + main.burst <= conf.burst /\ (main.late > 0 => Cancelled)
      /\ main.burst \in Nat /\ main.late \in Nat /\ main.tokens \in Nat
  BY ZenonT(30), <1>1, <1>2 DEF CancelSound
<1>4. /\ late \in Nat /\ late <= conf.burst /\ k \in Nat /\ b \in Nat
      /\ main.burst # 1 => b >= 1 /\ late + b <= conf.burst
      /\ late > 0 => Cancelled
      /\ ~Cancelled => late = 0
  <2> DEFINE L == main.late
             B == main.burst
             C == conf.burst
             T == main.tokens
  <2>1. /\ B >= 1 /\ L + B <= C /\ (L > 0 => Cancelled)
        /\ B \in Nat /\ L \in Nat /\ T \in Nat /\ C \in Nat
    BY <1>1, <1>3, ZenonT(30)
  <2>2. /\ late = IF Cancelled THEN L + 1 ELSE L
        /\ k = T + 1 /\ b = B - 1
    BY ZenonT(30)
  <2> HIDE DEF L, B, C, T, late, k, b, Rest
  <2>3. /\ late \in Nat /\ late <= C /\ k \in Nat /\ b \in Nat
        /\ B # 1 => b >= 1 /\ late + b <= C
        /\ late > 0 => Cancelled
        /\ ~Cancelled => late = 0
    BY <2>1, <2>2
  <2> QED BY <2>3, ZenonT(30) DEF C, B
<1> HIDE DEF late, k, b
<1>5. /\ main' \in Rest /\ main'.s = main.s /\ main'.seq = main.seq /\ main'.late = late
      /\ \/ main'.at = "checkpoint"
         \/ main'.at = "decode" /\ late = 0
         \/ main'.at = "emit" /\ main'.burst = b /\ main.burst # 1
  <2>1. "checkpoint" \in Places /\ "decode" \in Places
    BY DEF Places
  <2> QED BY ZenonT(30), <1>1, <1>2, <1>4, <2>1
<1>6. MainTypes'
  BY <1>1, <1>2, <1>5, ZenonT(30) DEF MainTypes
<1>7. CancelSound'
  <2>1. Cancelled' <=> Cancelled
    BY ZenonT(30), <1>2, <1>5 DEF Cancelled
  <2> QED BY ZenonT(30), <1>1, <1>2, <1>4, <1>5, <2>1 DEF CancelSound, Starting
<1>8. main.s = pool.active /\ main'.at \in {"checkpoint", "decode", "emit"}
  BY ZenonT(30), <1>1, <1>2, <1>5 DEF Placed, Arrived
<1>9. PoolShaped'
  BY <1>1, <1>2, ZenonT(30) DEF PoolShaped
<1> QED BY ZenonT(30), <1>1, <1>2, <1>5, <1>6, <1>7, <1>8, <1>9, TurnFrame

\* The next step of the decode.
LEMMA DecodeTokenKeeps ==
    ASSUME ServeInv, DecodeToken
    PROVE  ServeInv'
<1> DEFINE Rest == [at : Places, s : Names, then : {"", "reset", "prefill"}, seq : Nat,
                    tokens : Nat, burst : Nat, late : Nat]
<1>1. /\ MainTypes /\ PoolShaped /\ CancelSound /\ Placed /\ main \in Rest
      /\ Belongs(live, pool.active) /\ conf.burst \in Nat /\ inbox.cancel <= inbox.read
  BY ZenonT(30), ServeAssumption DEF ServeInv, MainTypes, Owners, MemoryOwners, CancelSound
<1>2. /\ main.at = "decode"
      /\ UNCHANGED <<disk, writer, writeFaults, conf, inbox, pool, live, ghost>>
  BY DEF DecodeToken
<1>3. PICK n \in 1 .. conf.burst : main' = [main EXCEPT !.at = "emit", !.burst = n]
  BY ZenonT(30) DEF DecodeToken
<1>4. main.late = 0 /\ n \in Nat /\ n >= 1 /\ 0 + n <= conf.burst /\ 0 <= conf.burst
  <2>1. main.late = 0
    BY ZenonT(30), <1>1, <1>2 DEF CancelSound
  <2> DEFINE C == conf.burst
  <2>2. C \in Nat /\ n \in 1 .. C
    BY ZenonT(30), <1>1
  <2> HIDE DEF C, Rest
  <2>3. n \in Nat /\ n >= 1 /\ 0 + n <= C /\ 0 <= C
    BY <2>2
  <2> QED BY <2>1, <2>3 DEF C
<1>5. /\ main' \in Rest /\ main'.s = main.s /\ main'.late = 0
      /\ main'.at = "emit" /\ main'.burst = n
  <2>1. "emit" \in Places
    BY DEF Places
  <2> QED BY ZenonT(30), <1>1, <1>3, <1>4, <2>1
<1>6. MainTypes'
  BY <1>1, <1>2, <1>5, ZenonT(30) DEF MainTypes
<1>7. CancelSound'
  <2>0. ~(0 > 0)
    OBVIOUS
  <2>1. main'.at \notin Starting
    BY <1>5, ZenonT(30) DEF Starting
  <2> QED BY <1>1, <1>2, <1>4, <1>5, <2>0, <2>1, ZenonT(30) DEF CancelSound
<1>8. main.s = pool.active
  BY ZenonT(30), <1>1, <1>2 DEF Placed, Arrived
<1>9. PoolShaped'
  BY <1>1, <1>2, ZenonT(30) DEF PoolShaped
<1> QED BY ZenonT(30), <1>1, <1>2, <1>5, <1>6, <1>7, <1>8, <1>9, TurnFrame

=============================================================================
