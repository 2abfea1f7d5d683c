-------------------------------- MODULE Serve --------------------------------
(***************************************************************************)
(* `cachedmoe serve`: the reader thread that owns stdin (Inbox), the main  *)
(* thread that takes one request at a time, the pool of named sessions it  *)
(* switches between (SessionPool, and Session::generate as serve drives    *)
(* it), and the background writer of KvDisk underneath; a process that     *)
(* exits or is killed, and starts again on the files it left.              *)
(*                                                                         *)
(* The main thread is a program counter, `main.at`: it stops between two   *)
(* steps exactly where the code waits on the writer or polls for a cancel, *)
(* since those are the points another thread's step can fall between.      *)
(***************************************************************************)
EXTENDS KvDisk, FiniteSets

CONSTANTS
    Configs,      \* configurations: disk, budgets, requests and faults
    Default,      \* active_ of a fresh process
    MaxStarts     \* bound: how many times the process starts

(* session_file_name gives different sessions different files: names that
   collide once they are escaped are not modelled. *)
ASSUME ServeAssumption ==
    /\ Default \in Names
    /\ \A m, n \in Names : FileOf[m] = FileOf[n] => m = n
    /\ WriteFaults \in Nat /\ MaxStarts \in Nat
    /\ \A c \in Configs :
          /\ c.disk \in BOOLEAN /\ c.cold \in BOOLEAN /\ c.fails \in BOOLEAN /\ c.kill \in BOOLEAN
          /\ c.diskBudget \in Nat /\ c.queueBudget \in Nat /\ c.maxParked \in Nat
          /\ c.lines \in Nat /\ c.tokens \in Nat \ {0} /\ c.burst \in Nat \ {0}
          /\ c.ops \subseteq [op : {"generate", "cancel", "drop", "reset", "quit"}, s : Names]
          /\ c.exact \subseteq BOOLEAN /\ c.large \subseteq Names

VARIABLES
    main,         \* the request being served and where the main thread is
    inbox,        \* Inbox: queued lines, generates read, cancel_upto
    pool,         \* SessionPool: active_, parked_, lru_
    live,         \* the context in the KV store
    ghost         \* what the properties remember, and the bounds' counters

vars == <<disk, writer, writeFaults, conf, main, inbox, pool, live, ghost>>

(* ghost.latest: the context each session's last completed turn left.
   ghost.gone: the sessions that lost it by design (no disk and past the
   budget, the disk budget, a cold fallback, a kill before the write).
   ghost.failed: those whose last write failed. *)

Waiting == [at |-> "idle", s |-> Default, then |-> "", seq |-> 0,
            tokens |-> 0, burst |-> 1, late |-> 0]

NoLines == [queue |-> <<>>, read |-> 0, cancel |-> 0, open |-> TRUE]

Fresh == [active |-> Default, parked |-> [n \in {} |-> NoContext], lru |-> <<>>]

Init ==
    /\ conf \in Configs
    /\ disk = <<>>
    /\ writer = Idle
    /\ writeFaults = 0
    /\ main = [Waiting EXCEPT !.at = "start"]
    /\ inbox = NoLines
    /\ pool = Fresh
    /\ live = NoContext
    /\ ghost = [latest |-> [n \in Names |-> NoContext], gone |-> {}, failed |-> {},
                turns |-> 0, lines |-> 0, starts |-> 1]

-----------------------------------------------------------------------------
(* The reader thread. *)

(* Inbox::run for one line.  A cancel is answered at once and covers every
   generate read so far; anything else is queued, a generate with its number;
   the loop ends at a quit or at the end of stdin. *)
ReadLine ==
    /\ main.at # "exit"
    /\ inbox.open
    /\ ghost.lines < conf.lines
    /\ \E l \in conf.ops :
         inbox' =
           IF l.op = "cancel" THEN [inbox EXCEPT !.cancel = inbox.read]
           ELSE [inbox EXCEPT
                    !.read = IF l.op = "generate" THEN @ + 1 ELSE @,
                    !.queue = Append(@, [op |-> l.op, s |-> l.s, seq |-> inbox.read + 1]),
                    !.open = l.op # "quit"]
    /\ ghost' = [ghost EXCEPT !.lines = @ + 1]
    /\ UNCHANGED <<disk, writer, writeFaults, conf, main, pool, live>>

Cancelled == inbox.cancel >= main.seq

-----------------------------------------------------------------------------
(* The pool. *)

Goto(at) == main' = [main EXCEPT !.at = at]

Forget(n) == [ghost EXCEPT !.latest[n] = NoContext]

(* lru_.remove: a name is in the list at most once. *)
LruWithout(n) == Omit(pool.lru, {i \in DOMAIN pool.lru : pool.lru[i] = n})

Erase(n) ==
    [pool EXCEPT !.parked = [m \in DOMAIN pool.parked \ {n} |-> pool.parked[m]],
                 !.lru = LruWithout(n)]

Park(c) ==
    [pool EXCEPT
        !.parked = [m \in DOMAIN pool.parked \cup {pool.active} |->
                       IF m = pool.active THEN c ELSE pool.parked[m]],
        !.lru = <<pool.active>> \o LruWithout(pool.active)]

(* activate(), its first part: a live context that is not empty is parked and
   its snapshot is queued, once the queue has room. *)
SwitchAway ==
    /\ main.at = "switch"
    /\ IF main.s = pool.active
         THEN /\ Goto(main.then)
              /\ UNCHANGED <<writer, pool>>
       ELSE IF live = NoContext
         THEN /\ Goto("find")
              /\ UNCHANGED <<writer, pool>>
       ELSE /\ Goto("find")
            /\ pool' = Park(live)
            /\ IF conf.disk
                 THEN HasSpace(pool.active) /\ Queue(pool.active, live, FALSE)
                 ELSE UNCHANGED writer
    /\ UNCHANGED <<disk, writeFaults, conf, inbox, live, ghost>>

(* activate(), its middle: the target's parked copy, or else its file once the
   writer has nothing left to write; neither is a new session, and so is one
   that starts on a baked prompt.  A restore that is refused (a replay or an
   allocation that fails) goes cold. *)
Find ==
    /\ main.at = "find"
    /\ \E exact \in (IF main.then = "prefill" THEN conf.exact ELSE {FALSE}) :
         LET parked == ~exact /\ main.s \in DOMAIN pool.parked
             load   == ~exact /\ ~parked /\ conf.disk
             c      == IF parked THEN pool.parked[main.s]
                       ELSE IF load THEN Load(main.s) ELSE NoContext
         IN  /\ load => Drained
             /\ \/ /\ live' = c
                   /\ pool' = [Erase(main.s) EXCEPT !.active = main.s]
                   /\ Goto("budget")
                   /\ ghost' = IF exact THEN [ghost EXCEPT !.gone = @ \cup {main.s}] ELSE ghost
                   /\ UNCHANGED writer
                \/ /\ conf.cold
                   /\ c # NoContext
                   /\ live' = NoContext
                   /\ pool' = Erase(main.s)
                   /\ Goto("cold")
                   /\ ghost' = [ghost EXCEPT !.gone = @ \cup {main.s}]
                   /\ IF conf.disk THEN Discard(main.s) ELSE UNCHANGED writer
    /\ UNCHANGED <<disk, writeFaults, conf, inbox>>

(* The cold path drops the state that could not be installed, on disk too. *)
GoCold ==
    /\ main.at = "cold"
    /\ Discarded(main.s)
    /\ IF conf.disk THEN DropFile(main.s) ELSE UNCHANGED disk
    /\ pool' = [pool EXCEPT !.active = main.s]
    /\ Goto("budget")
    /\ UNCHANGED <<writer, writeFaults, conf, inbox, live, ghost>>

Victim == pool.lru[Len(pool.lru)]

OverBudget == pool.lru # <<>> /\ Cardinality(DOMAIN pool.parked) > conf.maxParked

(* enforce_budget: the least recently used parked session is dropped, after a
   save that the main thread waits for when there is a disk. *)
EnforceBudget ==
    /\ main.at = "budget"
    /\ IF ~OverBudget
         THEN /\ Goto(main.then)
              /\ UNCHANGED <<writer, pool, ghost>>
       ELSE IF conf.disk
         THEN /\ HasSpace(Victim)
              /\ Queue(Victim, pool.parked[Victim], TRUE)
              /\ Goto("saving")
              /\ UNCHANGED <<pool, ghost>>
       ELSE /\ pool' = Erase(Victim)
            /\ ghost' = [ghost EXCEPT !.gone = @ \cup {Victim}]
            /\ UNCHANGED <<main, writer>>
    /\ UNCHANGED <<disk, writeFaults, conf, inbox, live>>

SavedAnyway ==
    /\ main.at = "saving"
    /\ writer.result # "none"
    /\ pool' = Erase(Victim)
    /\ Goto("budget")
    /\ UNCHANGED <<disk, writer, writeFaults, conf, inbox, live, ghost>>

(* "Retain the only current copy after a failed disk write": the request is
   refused instead, with the target session already live. *)
Saved ==
    /\ main.at = "saving"
    /\ writer.result # "none"
    /\ IF writer.result = "ok"
         THEN pool' = Erase(Victim) /\ Goto("budget")
         ELSE Goto("idle") /\ UNCHANGED pool
    /\ UNCHANGED <<disk, writer, writeFaults, conf, inbox, live, ghost>>

(* drop(): what is pending is discarded, then what is live or parked goes and
   its file with it. *)
Drop ==
    /\ main.at = "drop"
    /\ IF conf.disk THEN Discard(main.s) ELSE UNCHANGED writer
    /\ Goto("dropping")
    /\ UNCHANGED <<disk, writeFaults, conf, inbox, pool, live, ghost>>

DropRest ==
    /\ main.at = "dropping"
    /\ conf.disk => Discarded(main.s)
    /\ LET held == main.s = pool.active \/ main.s \in DOMAIN pool.parked
       IN  /\ live' = IF main.s = pool.active THEN NoContext ELSE live
           /\ pool' = IF main.s = pool.active THEN pool ELSE Erase(main.s)
           /\ IF held /\ conf.disk THEN DropFile(main.s) ELSE UNCHANGED disk
           /\ ghost' = Forget(main.s)
    /\ Goto("idle")
    /\ UNCHANGED <<writer, writeFaults, conf, inbox>>

-----------------------------------------------------------------------------
(* The request loop. *)

(* restore_active_from_disk in a fresh process. *)
Start ==
    /\ main.at = "start"
    /\ LET c == IF conf.disk THEN Load(pool.active) ELSE NoContext
       IN  \/ live' = c /\ UNCHANGED <<disk, ghost>>
           \/ /\ conf.cold
              /\ c # NoContext
              /\ live' = NoContext
              /\ DropFile(pool.active)
              /\ ghost' = [ghost EXCEPT !.gone = @ \cup {pool.active}]
    /\ Goto("idle")
    /\ UNCHANGED <<writer, writeFaults, conf, inbox, pool>>

(* cmd_serve's loop takes the next line.  A generate that was cancelled before
   it started is only reported. *)
Pop ==
    /\ main.at = "idle"
    /\ inbox.queue # <<>>
    /\ inbox' = [inbox EXCEPT !.queue = Tail(@)]
    /\ LET r == Head(inbox.queue)
           begun(at, then) == [Waiting EXCEPT !.at = at, !.s = r.s, !.then = then,
                                              !.seq = r.seq]
       IN  main' = CASE r.op = "quit" -> [Waiting EXCEPT !.at = "park"]
                     [] r.op = "drop" -> begun("drop", "")
                     [] r.op = "reset" -> begun("switch", "reset")
                     [] r.op = "generate" /\ inbox.cancel >= r.seq -> Waiting
                     [] OTHER -> begun("switch", "prefill")
    /\ UNCHANGED <<disk, writer, writeFaults, conf, pool, live, ghost>>

(* The reset request, after its switch: reset_live. *)
Reset ==
    /\ main.at = "reset"
    /\ live' = NoContext
    /\ ghost' = Forget(main.s)
    /\ Goto("idle")
    /\ UNCHANGED <<disk, writer, writeFaults, conf, inbox, pool>>

Turn == [owner |-> main.s, turn |-> ghost.turns]

(* turn_prepare, up to the feed: the history is extended or rolled back (live
   stays), or dropped; a snapshot or the GPU prefills the prompt in one piece,
   without a poll. *)
Prefill ==
    /\ main.at = "prefill"
    /\ ghost' = [ghost EXCEPT !.turns = @ + 1]
    /\ \/ live' \in {live, NoContext} /\ Goto("feeding")
       \/ live' = [Turn EXCEPT !.turn = @ + 1] /\ Goto("emit")
    /\ UNCHANGED <<disk, writer, writeFaults, conf, inbox, pool>>

(* turn_prepare's decode path: a poll before every chunk of the prompt. *)
FeedChunk ==
    /\ main.at = "feeding"
    /\ IF Cancelled
         THEN Goto("checkpoint") /\ UNCHANGED live
         ELSE /\ live' = Turn
              /\ \E at \in {"emit"} \cup (IF live = Turn THEN {} ELSE {"feeding"}) : Goto(at)
    /\ UNCHANGED <<disk, writer, writeFaults, conf, inbox, pool, ghost>>

EmitWith(cancelled) ==
    /\ main.at = "emit"
    /\ LET last == main.burst = 1
           ends == main.tokens + 1 = conf.tokens
           on   == [main EXCEPT !.tokens = @ + 1,
                                !.late = IF Cancelled THEN @ + 1 ELSE @]
       IN  \/ main' = [on EXCEPT !.at = "checkpoint"]
           \/ /\ ~ends
              /\ ~(last /\ cancelled)
              /\ main' = IF last THEN [on EXCEPT !.at = "decode"]
                         ELSE [on EXCEPT !.burst = @ - 1]
    /\ UNCHANGED <<disk, writer, writeFaults, conf, inbox, pool, live, ghost>>

EmitUnpolled == EmitWith(FALSE)

(* turn_emit: the token goes out; a stop token, the length or (between steps) a
   cancel ends the turn.  A token inside a speculative burst is not a place to
   stop for a cancel. *)
Emit == EmitWith(Cancelled)

(* feed of one token, or a speculative step that returns several rows. *)
DecodeToken ==
    /\ main.at = "decode"
    /\ \E n \in 1..conf.burst : main' = [main EXCEPT !.at = "emit", !.burst = n]
    /\ UNCHANGED <<disk, writer, writeFaults, conf, inbox, pool, live, ghost>>

(* Any of them failing: "A failure mid-step leaves the KV store in an unknown
   state", and reset_live. *)
GenerateFails ==
    /\ conf.fails
    /\ main.at \in {"feeding", "decode"}
    /\ live' = NoContext
    /\ ghost' = Forget(main.s)
    /\ Goto("idle")
    /\ UNCHANGED <<disk, writer, writeFaults, conf, inbox, pool>>

(* The turn is over: checkpoint_active queues a snapshot and the live context
   stays. *)
Checkpoint ==
    /\ main.at = "checkpoint"
    /\ IF conf.disk /\ live # NoContext
         THEN HasSpace(pool.active) /\ Queue(pool.active, live, FALSE)
         ELSE UNCHANGED writer
    /\ ghost' = [ghost EXCEPT !.latest[main.s] = live, !.gone = @ \ {main.s}]
    /\ Goto("idle")
    /\ UNCHANGED <<disk, writeFaults, conf, inbox, pool, live>>

(* Shutdown: park_active saves the live context and waits, flush_disk drains
   the rest. *)
ParkActive ==
    /\ main.at = "park"
    /\ IF conf.disk /\ live # NoContext
         THEN /\ HasSpace(pool.active)
              /\ Queue(pool.active, live, TRUE)
              /\ pool' = Park(live)
              /\ Goto("parking")
         ELSE UNCHANGED <<writer, pool>> /\ Goto("flush")
    /\ UNCHANGED <<disk, writeFaults, conf, inbox, live, ghost>>

FlushDisk ==
    /\ \/ main.at = "parking" /\ writer.result # "none" /\ Goto("flush")
       \/ main.at = "flush" /\ Drained /\ Goto("exit")
    /\ UNCHANGED <<disk, writer, writeFaults, conf, inbox, pool, live, ghost>>

Main ==
    \/ Start \/ Pop \/ SwitchAway \/ Find \/ GoCold \/ EnforceBudget \/ Saved
    \/ Drop \/ DropRest \/ Reset \/ Prefill \/ FeedChunk \/ Emit \/ DecodeToken
    \/ GenerateFails \/ Checkpoint \/ ParkActive \/ FlushDisk

(* The writer's step, and what the properties remember of it: a file the budget
   evicts, the one just written among them, and how the last write of a session
   ended. *)
WriterStep ==
    /\ Writer
    /\ LET present(d, n) == \E e \in Range(d) : e.file = FileOf[n]
           evicted == {n \in Names \ {writer.name} : present(disk, n) /\ ~present(disk', n)}
           oversized == {n \in Names : /\ n = writer.name /\ writer'.phase = "complete" /\ writer'.ok
                                       /\ writer.ctx = ghost.latest[n] /\ ~present(disk', n)}
       IN  ghost' = [ghost EXCEPT
               !.gone = @ \cup evicted \cup oversized,
               !.failed = IF writer.phase # "complete" THEN @
                          ELSE IF writer.ok THEN @ \ {writer.name} ELSE @ \cup {writer.name}]
    /\ UNCHANGED <<conf, main, inbox, pool, live>>

(* A new process on the files of the last one: after a clean exit, or after a
   kill at any point, which takes everything in memory with it. *)
Restart ==
    /\ ghost.starts < MaxStarts
    /\ main.at = "exit" \/ conf.kill
    /\ main' = [Waiting EXCEPT !.at = "start"]
    /\ inbox' = NoLines
    /\ pool' = Fresh
    /\ live' = NoContext
    /\ writer' = Idle
    /\ ghost' = [ghost EXCEPT
            !.starts = @ + 1,
            !.failed = {},
            !.gone = @ \cup {n \in Names : Load(n) # ghost.latest[n]}]
    /\ UNCHANGED <<disk, writeFaults, conf>>

Next == ReadLine \/ Main \/ WriterStep \/ Restart

Spec == Init /\ [][Next]_vars /\ WF_vars(Main) /\ WF_vars(WriterStep)

-----------------------------------------------------------------------------
(* Properties. *)

Generating == main.at \in {"feeding", "emit", "decode", "checkpoint"}

Kept(n) == ghost.latest[n] # NoContext /\ n \notin ghost.gone

(* Between requests the context in the KV store is the active session's own, and
   it is what that session's last completed turn left, however often it was
   parked, saved, evicted from memory, loaded back or reopened by a new process
   in between, and whatever the writer was doing: SessionPool::activate. *)
Resumes ==
    main.at = "idle" =>
        /\ live # NoContext => live.owner = pool.active
        /\ Kept(pool.active) => live = ghost.latest[pool.active]

(* The context a session's last turn left is never dropped from memory before
   the disk has it: it is live, parked, or in its file; once the process has
   exited it is in the file, unless a write of it failed (enforce_budget: "Retain
   the only current copy after a failed disk write"). *)
NothingLost ==
    \A n \in Names : Kept(n) =>
        \/ Load(n) = ghost.latest[n]
        \/ /\ main.at # "exit"
           /\ \/ pool.active = n /\ (live = ghost.latest[n] \/ Generating)
              \/ n \in DOMAIN pool.parked /\ pool.parked[n] = ghost.latest[n]
        \/ main.at = "exit" /\ (conf.disk => n \in ghost.failed)

(* A cancel stops every generate read before it "between tokens": after it the
   turn emits no more than the tokens of the step it was in (turn_emit, the
   request's cancel callback, Inbox::cancel_upto). *)
CancelStops == main.late <= conf.burst

(* Every request that was read is served and the main thread comes back for the
   next, whatever it waits for: room in the queue, a flush, a save, a write of
   the session it discards (KvDiskWriter's condition variable). *)
Served == []<>(main.at = "exit" \/ (main.at = "idle" /\ inbox.queue = <<>>))

=============================================================================
