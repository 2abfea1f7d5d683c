-------------------------------- MODULE Iocp ---------------------------------
(***************************************************************************)
(* The IOCP backend (storage/windows/iocp.cpp): submitting threads, the    *)
(* threads of completion_loop, and the poller.  An operation is an object  *)
(* of the pool; the packet the system queues to the port points at it.     *)
(***************************************************************************)
EXTENDS Integers, Sequences, FiniteSets, FiniteSetsExt

CONSTANTS Chunks,       \* 1..n
          FileOf,       \* [Chunks -> Files]: the file each chunk is read from
          Files,
          Submitters,
          Workers,      \* completion threads
          Depth,        \* caps_.max_queue_depth
          PoolMax       \* operations kept for reuse (512)

VARIABLES port,         \* "none", "up", "stopping" or "closed"
          todo,         \* chunks not accepted yet
          at,           \* each submitter: <<>>, or <<chunk, operation>>
          associated,   \* files bound to the port
          ops,          \* operation |-> chunk, for the live operations
          pool,         \* operations kept for reuse, a stack
          inflight,     \* inflight_
          system,       \* operations the system is reading for
          packets,      \* the port's queue: <<operation, outcome>>, operation 0 = quit
          worker,       \* each worker: "idle", "gone" or what it is handing over
          done,         \* done_
          polled        \* completions the engine has taken

iocpVars == <<port, todo, at, associated, ops, pool, inflight, system, packets, worker, done, polled>>

Idle == <<>>
NoOp == 0
Gone == <<"gone">>
Outcomes == {"ok", "short", "error"}

Init ==
    /\ port = "none"
    /\ todo = Chunks
    /\ at = [s \in Submitters |-> Idle]
    /\ associated = {}
    /\ ops = <<>>
    /\ pool = <<>>
    /\ inflight = 0
    /\ system = {}
    /\ packets = <<>>
    /\ worker = [w \in Workers |-> Gone]
    /\ done = <<>>
    /\ polled = <<>>

\* init: the port and its threads, or neither.
IocpInit ==
    /\ port = "none"
    /\ port' = "up"
    /\ worker' = [w \in Workers |-> Idle]
    /\ UNCHANGED <<todo, at, associated, ops, pool, inflight, system, packets, done, polled>>

\* associate: a file is bound to the port once, and binding can fail.
Associated(f) == associated' = associated \cup {f}

\* acquire_op: one of the pool, or a new one.
AcquireOp == IF pool = <<>> THEN 1 + Cardinality(DOMAIN ops) ELSE pool[Len(pool)]

PoolAfter == IF pool = <<>> THEN pool ELSE SubSeq(pool, 1, Len(pool) - 1)

\* release_op: kept while the pool has room.
ReleaseOp(p, o) == IF Len(p) < PoolMax THEN Append(p, o) ELSE p

\* submit, the check: refused when the queue is full.  The count is raised
\* later, so threads can pass the check together.
Submit(s) ==
    /\ port = "up"
    /\ at[s] = Idle
    /\ inflight < Depth
    /\ \E c \in todo : at' = [at EXCEPT ![s] = <<c, NoOp>>] /\ todo' = todo \ {c}
    /\ UNCHANGED <<port, associated, ops, pool, inflight, system, packets, worker, done, polled>>

\* submit, up to the read: refused when the file cannot be bound, otherwise
\* counted before the read is issued.
Accept(s) ==
    /\ at[s] # Idle
    /\ at[s][2] = NoOp
    /\ LET c == at[s][1]
           o == AcquireOp
       IN  \/ /\ Associated(FileOf[c])
              /\ ops' = [i \in DOMAIN ops \cup {o} |-> IF i = o THEN c ELSE ops[i]]
              /\ pool' = PoolAfter
              /\ at' = [at EXCEPT ![s] = <<c, o>>]
              /\ inflight' = inflight + 1
              /\ UNCHANGED todo
           \/ /\ FileOf[c] \notin associated
              /\ at' = [at EXCEPT ![s] = Idle]
              /\ todo' = todo \cup {c}
              /\ UNCHANGED <<associated, ops, pool, inflight>>
    /\ UNCHANGED <<port, system, packets, worker, done, polled>>

\* ReadFile: the system takes it, or fails at once, which is reported like any
\* other completion.
ReadFailedTwice(s) ==
    /\ inflight' = inflight - 1
    /\ done' = Append(done, <<at[s][1], "error">>)
    /\ packets' = Append(packets, <<at[s][2], "error">>)
    /\ UNCHANGED <<system, pool>>

ReadFailed(s) ==
    /\ inflight' = inflight - 1
    /\ pool' = ReleaseOp(pool, at[s][2])
    /\ done' = Append(done, <<at[s][1], "error">>)
    /\ UNCHANGED <<system, packets>>

ReadFile(s) ==
    /\ at[s] # Idle
    /\ at[s][2] # NoOp
    /\ \/ system' = system \cup {at[s][2]} /\ UNCHANGED <<inflight, pool, done, packets>>
       \/ ReadFailed(s)
    /\ at' = [at EXCEPT ![s] = Idle]
    /\ UNCHANGED <<port, todo, associated, ops, worker, polled>>

\* external: the system finishes a read and queues its packet.
SystemEnds ==
    /\ \E o \in system, r \in Outcomes :
          system' = system \ {o} /\ packets' = Append(packets, <<o, r>>)
    /\ UNCHANGED <<port, todo, at, associated, ops, pool, inflight, worker, done, polled>>

\* completion_loop, one packet: the completion is read out of the operation,
\* the operation released and the count lowered, then the completion pushed.
Dequeue(w) ==
    /\ worker[w] = Idle
    /\ packets # <<>>
    /\ packets' = Tail(packets)
    /\ LET o == Head(packets)[1]
       IN  IF o = 0 THEN worker' = [worker EXCEPT ![w] = Gone] /\ UNCHANGED <<pool, inflight>>
           ELSE /\ worker' = [worker EXCEPT ![w] = <<ops[o], Head(packets)[2]>>]
                /\ pool' = ReleaseOp(pool, o)
                /\ inflight' = inflight - 1
    /\ UNCHANGED <<port, todo, at, associated, ops, system, done, polled>>

PushDone(w) ==
    /\ worker[w] \notin {Idle, Gone}
    /\ done' = Append(done, worker[w])
    /\ worker' = [worker EXCEPT ![w] = Idle]
    /\ UNCHANGED <<port, todo, at, associated, ops, pool, inflight, system, packets, polled>>

Poll ==
    /\ done # <<>>
    /\ polled' = polled \o done
    /\ done' = <<>>
    /\ UNCHANGED <<port, todo, at, associated, ops, pool, inflight, system, packets, worker>>

\* shutdown, from the destructor: the engine's dispatcher has taken every
\* completion, so nothing is left to cancel.  One quit packet per thread.
Shutdown ==
    /\ port = "up"
    /\ \A s \in Submitters : at[s] = Idle
    /\ Len(polled) = Cardinality(Chunks \ todo)
    /\ port' = "stopping"
    /\ packets' = packets \o [i \in 1..Cardinality(Workers) |-> <<0, "quit">>]
    /\ UNCHANGED <<todo, at, associated, ops, pool, inflight, system, worker, done, polled>>

\* The threads are joined, the port closed, the pool freed.
ShutdownEnds ==
    /\ port = "stopping"
    /\ \A w \in Workers : worker[w] = Gone
    /\ port' = "closed"
    /\ pool' = <<>>
    /\ UNCHANGED <<todo, at, associated, ops, inflight, system, packets, worker, done, polled>>

Next ==
    \/ IocpInit
    \/ \E s \in Submitters : Submit(s) \/ Accept(s) \/ ReadFile(s)
    \/ SystemEnds
    \/ \E w \in Workers : Dequeue(w) \/ PushDone(w)
    \/ Poll
    \/ Shutdown
    \/ ShutdownEnds

Spec == Init /\ [][Next]_iocpVars

Handed(c) == Len(SelectSeq(done \o polled, LAMBDA x : x[1] = c))
             + Cardinality({w \in Workers : worker[w] \notin {Idle, Gone} /\ worker[w][1] = c})
Issued(c) == Cardinality({i \in DOMAIN packets : packets[i][1] # 0 /\ ops[packets[i][1]] = c})
             + Cardinality({o \in system : ops[o] = c})
             + Cardinality({s \in Submitters : at[s] # Idle /\ at[s][2] # NoOp /\ at[s][1] = c})
Asked(c) == \E s \in Submitters : at[s] # Idle /\ at[s] = <<c, NoOp>>
LiveOps == system \cup {packets[i][1] : i \in DOMAIN packets}
           \cup {at[s][2] : s \in {t \in Submitters : at[t] # Idle}}

\* submit's comment: exactly one completion per accepted submit, on every path.
\* A chunk is in one place only; the count is the chunks not yet handed over and
\* passes the depth by less than the number of submitters; an operation the
\* system may still write is not in the pool; and the port closes with every
\* completion taken.
IocpExact ==
    /\ \A c \in Chunks : Handed(c) + Issued(c) = IF c \in todo \/ Asked(c) THEN 0 ELSE 1
    /\ inflight = Cardinality({c \in Chunks : Issued(c) = 1})
    /\ inflight < Depth + Cardinality(Submitters)
    /\ LiveOps \cap {pool[i] : i \in DOMAIN pool} = {}
    /\ Cardinality({pool[i] : i \in DOMAIN pool}) = Len(pool)
    /\ port = "closed" => inflight = 0 /\ packets = <<>> /\ done = <<>>

==============================================================================
