------------------------------- MODULE IoUring -------------------------------
(***************************************************************************)
(* The io_uring backend (storage/linux/io_uring.cpp): the threads that     *)
(* submit chunks, the kernel, and the one thread that polls.               *)
(*                                                                         *)
(* A chunk asks for `bytes` of which the first `want` are inside the file, *)
(* counted in half pages (Page = 2), so that a read can stop on a page and *)
(* off one.  Its destination is ordinary host memory, a device mapping the *)
(* process map names, or one it does not name ("hidden": the kernel        *)
(* refuses it with EFAULT).  Destinations and bounce buffers hold, per     *)
(* half page, which chunk's which half page was last written there.        *)
(***************************************************************************)
EXTENDS Integers, Sequences, FiniteSets, FiniteSetsExt

CONSTANTS Chunks,        \* 1..n
          Request,       \* [Chunks -> [bytes, want, place]]
          Submitters,    \* the threads that submit
          Entries,       \* the ring's entries, a power of two
          MaxFaults      \* short reads, read errors and failed enters together

VARIABLES ring,          \* the ring's descriptor and mappings that are held
          todo,          \* chunks the engine has not got accepted yet
          hand,          \* what each submitter holds between its two halves
          slots,         \* one record per ring entry
          freeSlots,     \* records not in flight, as a stack
          inflight,      \* inflight_
          sq,            \* published entries the kernel has not consumed
          kernel,        \* reads the kernel works on
          cq,            \* completions posted and not yet read
          unacked,       \* completions read whose head is not published yet
          batch,         \* completions left in this pass of the poll thread
          retiring,      \* a completion handed out, inflight_ not yet lowered
          known,         \* MappingClassifier: what is known of a destination
          bounceFree,    \* idle bounce buffers
          bounceUsed,    \* bounce buffers handed out
          buffer,        \* what each bounce buffer holds
          mem,           \* what each destination holds
          answers,       \* the completions of each chunk
          faults         \* faults so far

uringVars == <<ring, todo, hand, slots, freeSlots, inflight, sq, kernel, cq, unacked, batch,
               retiring, known, bounceFree, bounceUsed, buffer, mem, answers, faults>>

Page == 2
Nothing == <<0, 0>>
NoBounce == 0
MaxUnits == Max({Request[c].bytes : c \in Chunks})
Bounces == 1..(Cardinality(Chunks) + Cardinality(Submitters))
Blank == [i \in 1..MaxUnits |-> Nothing]
EmptySlot == [chunk |-> 0, off |-> 0, bytes |-> 0, want |-> 0, moved |-> 0, bounce |-> NoBounce]
NoHand == [chunk |-> 0, bounce |-> NoBounce]

Init ==
    /\ ring = {}
    /\ todo = Chunks
    /\ hand = [s \in Submitters |-> NoHand]
    /\ slots = [i \in 0..(Entries - 1) |-> EmptySlot]
    /\ freeSlots = [i \in 1..Entries |-> Entries - i]
    /\ inflight = 0
    /\ sq = <<>>
    /\ kernel = {}
    /\ cq = <<>>
    /\ unacked = 0
    /\ batch = 0
    /\ retiring = FALSE
    /\ known = [c \in Chunks |-> "unknown"]
    /\ bounceFree = {}
    /\ bounceUsed = {}
    /\ buffer = [b \in Bounces |-> Blank]
    /\ mem = [c \in Chunks |-> Blank]
    /\ answers = [c \in Chunks |-> <<>>]
    /\ faults = 0

(* --------------------------- set-up and teardown ------------------------ *)

Up == {"fd", "sq", "sqe"} \subseteq ring

\* init: the descriptor, then each mapping; with one mapping for both queues
\* the completion queue has none of its own.
Acquires == {<<"fd", "sq", "sqe">>, <<"fd", "sq", "cq", "sqe">>}

\* teardown unmaps what was mapped and closes the descriptor.
TornDown(held) == held \ {"sqe", "cq", "sq", "fd"}

\* init, which tears down what it has when a step fails.
RingInit ==
    /\ ring = {}
    /\ \E order \in Acquires, n \in 0..4 :
          LET got == {order[i] : i \in {j \in DOMAIN order : j <= n}}
          IN  /\ ring' = IF n >= Len(order) THEN got ELSE TornDown(got)
              /\ faults' = IF n >= Len(order) THEN faults ELSE faults + 1
              /\ faults' <= MaxFaults
    /\ UNCHANGED <<todo, hand, slots, freeSlots, inflight, sq, kernel, cq, unacked, batch,
                   retiring, known, bounceFree, bounceUsed, buffer, mem, answers>>

\* teardown, once the engine has drained: every buffer is freed.
Teardown ==
    /\ Up
    /\ todo = {}
    /\ inflight = 0
    /\ \A s \in Submitters : hand[s] = NoHand
    /\ ring' = TornDown(ring)
    /\ bounceFree' = {}
    /\ bounceUsed' = {}
    /\ UNCHANGED <<todo, hand, slots, freeSlots, inflight, sq, kernel, cq, unacked, batch,
                   retiring, known, buffer, mem, answers, faults>>

(* ---------------------------- the classifier ---------------------------- *)

\* reload: the process map names DRM mappings; one that was marked stays so.
Reload == [c \in Chunks |-> IF known[c] = "device" THEN "device"
                            ELSE IF Request[c].place = "named" THEN "device" ELSE "host"]

IsDevice(c) == (IF known[c] = "unknown" THEN Reload ELSE known)[c] = "device"

Looked(c) == IF known[c] = "unknown" THEN Reload ELSE known

MarkDevice(c) == [known EXCEPT ![c] = "device"]

(* ------------------------------- submitting ----------------------------- *)

\* take_bounce: an idle buffer, or else a new one.
TakeBounce == IF bounceFree # {} THEN Min(bounceFree)
              ELSE Min(Bounces \ bounceUsed)

Took(b) == /\ bounceFree' = bounceFree \ {b}
           /\ bounceUsed' = bounceUsed \cup {b}

Gave(b) == /\ bounceFree' = IF b = NoBounce THEN bounceFree ELSE bounceFree \cup {b}
           /\ bounceUsed' = bounceUsed \ {b}

\* take_bounce finds no idle buffer and cannot get a new one.
NoBufferLeft == bounceFree = {} /\ faults < MaxFaults /\ faults' = faults + 1

\* submit, before the lock: look the destination up and get a bounce buffer.
\* Without a buffer the chunk is refused.
Prepare(s) ==
    /\ Up
    /\ hand[s] = NoHand
    /\ \E c \in todo :
          /\ known' = Looked(c)
          /\ \/ /\ ~IsDevice(c)
                /\ todo' = todo \ {c}
                /\ hand' = [hand EXCEPT ![s] = [chunk |-> c, bounce |-> NoBounce]]
                /\ UNCHANGED <<bounceFree, bounceUsed, faults>>
             \/ /\ IsDevice(c)
                /\ todo' = todo \ {c}
                /\ hand' = [hand EXCEPT ![s] = [chunk |-> c, bounce |-> TakeBounce]]
                /\ Took(TakeBounce)
                /\ UNCHANGED faults
             \/ /\ IsDevice(c)
                /\ NoBufferLeft
                /\ UNCHANGED <<todo, hand, bounceFree, bounceUsed>>
    /\ UNCHANGED <<ring, slots, freeSlots, inflight, sq, kernel, cq, unacked, batch, retiring,
                   buffer, mem, answers>>

\* What the entry published for record r asks of the kernel.
Entry(idx, r) == [idx |-> idx, chunk |-> r.chunk, off |-> r.off, len |-> r.bytes, bounce |-> r.bounce]

SqFull == Len(sq) >= Entries

\* io_uring_enter consumes the whole backlog; a failed one leaves it published.
Enter(queue) ==
    \/ sq' = <<>> /\ kernel' = kernel \cup {queue[i] : i \in DOMAIN queue} /\ UNCHANGED faults
    \/ /\ faults < MaxFaults
       /\ faults' = faults + 1
       /\ sq' = queue
       /\ UNCHANGED kernel

\* submit_locked: the record is written, the entry published, the kernel told.
SubmitLocked(idx, r) ==
    /\ slots' = [slots EXCEPT ![idx] = r]
    /\ Enter(Append(sq, Entry(idx, r)))

\* The record a new chunk gets: the top of the free stack.  (Once it was the
\* chunk's number modulo the table's size.)
TakeRecordByChunk(c) == c % Entries

TakeRecord(c) == freeSlots[Len(freeSlots)]

Fresh(c, b) == [chunk |-> c, off |-> 0, bytes |-> Request[c].bytes,
                want |-> IF Request[c].want # 0 THEN Request[c].want ELSE Request[c].bytes,
                moved |-> 0, bounce |-> b]

\* submit refused: the chunk stays the engine's, the bounce buffer goes back.
Refused(s) ==
    /\ todo' = todo \cup {hand[s].chunk}
    /\ Gave(hand[s].bounce)
    /\ UNCHANGED <<slots, freeSlots, inflight, sq, kernel, faults>>

\* submit, under the lock.
Push(s) ==
    /\ hand[s] # NoHand
    /\ IF inflight >= Entries \/ freeSlots = <<>> \/ SqFull
       THEN Refused(s)
       ELSE /\ SubmitLocked(TakeRecord(hand[s].chunk), Fresh(hand[s].chunk, hand[s].bounce))
            /\ freeSlots' = SubSeq(freeSlots, 1, Len(freeSlots) - 1)
            /\ inflight' = inflight + 1
            /\ UNCHANGED <<todo, bounceFree, bounceUsed>>
    /\ hand' = [hand EXCEPT ![s] = NoHand]
    /\ UNCHANGED <<ring, cq, unacked, batch, retiring, known, buffer, mem, answers>>

(* -------------------------------- the kernel ---------------------------- *)

\* external: a read ends, whole, short, failed, or refused for its address.
InFile(e) == Min({e.len, Max({Request[e.chunk].want - e.off, 0})})

Written(e, got) ==
    IF e.bounce # NoBounce
    THEN /\ buffer' = [buffer EXCEPT ![e.bounce] =
                          [i \in 1..MaxUnits |-> IF i <= got THEN <<e.chunk, e.off + i>> ELSE @[i]]]
         /\ UNCHANGED mem
    ELSE /\ mem' = [mem EXCEPT ![e.chunk] =
                       [i \in 1..MaxUnits |-> IF i > e.off /\ i <= e.off + got
                                              THEN <<e.chunk, i>> ELSE @[i]]]
         /\ UNCHANGED buffer

Post(e, res) == kernel' = kernel \ {e} /\ cq' = Append(cq, [idx |-> e.idx, res |-> res])

KernelEnds ==
    /\ \E e \in kernel :
          IF e.bounce = NoBounce /\ Request[e.chunk].place # "host"
          THEN Post(e, -14) /\ UNCHANGED <<buffer, mem, faults>>
          ELSE \/ Post(e, InFile(e)) /\ Written(e, InFile(e)) /\ UNCHANGED faults
               \/ /\ faults < MaxFaults
                  /\ faults' = faults + 1
                  /\ \/ Post(e, -5) /\ UNCHANGED <<buffer, mem>>
                     \/ \E got \in 0..(InFile(e) - 1) : Post(e, got) /\ Written(e, got)
    /\ UNCHANGED <<ring, todo, hand, slots, freeSlots, inflight, sq, unacked, batch, retiring,
                   known, bounceFree, bounceUsed, answers>>

(* --------------------------------- polling ------------------------------ *)

\* drain reads the completion queue's tail once, and stops early when the
\* caller's array is full.
DrainStart ==
    /\ batch = 0
    /\ ~retiring
    /\ cq # <<>>
    /\ batch' \in 1..Len(cq)
    /\ UNCHANGED <<ring, todo, hand, slots, freeSlots, inflight, sq, kernel, cq, unacked, retiring,
                   known, bounceFree, bounceUsed, buffer, mem, answers, faults>>

\* After the last completion of the pass the head is published.
Consumed ==
    /\ cq' = Tail(cq)
    /\ batch' = batch - 1
    /\ unacked' = IF batch = 1 THEN 0 ELSE unacked + 1

\* The bounce buffer's bytes, copied to the destination.
Landed(r, got) ==
    IF r.bounce = NoBounce THEN mem
    ELSE [mem EXCEPT ![r.chunk] =
             [i \in 1..MaxUnits |-> IF i > r.off /\ i <= r.off + got
                                    THEN buffer[r.bounce][i - r.off] ELSE @[i]]]

\* The same chunk again, from where it stopped.
Advanced(r, got) == [r EXCEPT !.off = @ + got, !.bytes = @ - got, !.want = @ - got,
                              !.moved = @ + got]

\* A completion that ends its chunk: answer, give the bounce buffer back, free
\* the record, and only then lower the count.
Answer(idx, r, ok, moved) ==
    /\ answers' = [answers EXCEPT ![r.chunk] = Append(@, [ok |-> ok, moved |-> moved])]
    /\ Gave(r.bounce)
    /\ slots' = [slots EXCEPT ![idx].bounce = NoBounce]
    /\ freeSlots' = Append(freeSlots, idx)
    /\ retiring' = TRUE

\* drain, for one completion.
Drain ==
    /\ batch > 0
    /\ ~retiring
    /\ Consumed
    /\ LET idx == Head(cq).idx
           res == Head(cq).res
           r == slots[idx]
           fault == res = -14 /\ r.bounce = NoBounce
           short == res > 0 /\ res < r.want /\ res % Page = 0
       IN  \/ /\ fault
              /\ ~SqFull
              /\ known' = MarkDevice(r.chunk)
              /\ Took(TakeBounce)
              /\ SubmitLocked(idx, [r EXCEPT !.bounce = TakeBounce])
              /\ UNCHANGED <<mem, answers, freeSlots, retiring>>
           \/ /\ fault
              /\ NoBufferLeft
              /\ known' = MarkDevice(r.chunk)
              /\ Answer(idx, r, FALSE, 0)
              /\ UNCHANGED <<mem, sq, kernel>>
           \/ /\ ~fault
              /\ UNCHANGED known
              /\ mem' = IF res < 0 THEN mem ELSE Landed(r, res)
              /\ IF short /\ ~SqFull
                 THEN /\ SubmitLocked(idx, Advanced(r, res))
                      /\ UNCHANGED <<answers, bounceFree, bounceUsed, freeSlots, retiring>>
                 ELSE /\ Answer(idx, r, res >= r.want, IF res < 0 THEN 0 ELSE r.moved + res)
                      /\ UNCHANGED <<sq, kernel, faults>>
    /\ UNCHANGED <<ring, todo, hand, inflight, buffer>>

Retire ==
    /\ retiring
    /\ retiring' = FALSE
    /\ inflight' = inflight - 1
    /\ UNCHANGED <<ring, todo, hand, slots, freeSlots, sq, kernel, cq, unacked, batch, known,
                   bounceFree, bounceUsed, buffer, mem, answers, faults>>

Next ==
    \/ RingInit
    \/ \E s \in Submitters : Prepare(s) \/ Push(s)
    \/ KernelEnds
    \/ DrainStart
    \/ Drain
    \/ Retire
    \/ Teardown

Spec == Init /\ [][Next]_uringVars

(* ------------------------------- properties ----------------------------- *)

Busy == {sq[i].idx : i \in DOMAIN sq} \cup {e.idx : e \in kernel} \cup {cq[i].idx : i \in DOMAIN cq}

\* A chunk is answered once; when it is answered with success its in-file part
\* is at its destination, byte for byte; no destination ever holds another
\* chunk's bytes; and once it is answered the kernel no longer works on it.
UringExact ==
    \A c \in Chunks :
       /\ Len(answers[c]) <= 1
       /\ \A i \in 1..MaxUnits : mem[c][i] \in {Nothing, <<c, i>>}
       /\ answers[c] # <<>> =>
             /\ answers[c][1].ok =>
                   /\ \A i \in 1..Request[c].want : mem[c][i] = <<c, i>>
                   /\ answers[c][1].moved >= Request[c].want
             /\ \A e \in kernel : e.chunk # c
             /\ \A i \in DOMAIN sq : sq[i].chunk # c

\* A ring that is not up holds nothing; every record has one user or is free,
\* every bounce buffer handed out is held
\* by one submitter or one record in flight, a chunk read again always finds
\* room in the ring, and the completion queue, twice the ring, never overflows.
UringOwned ==
    /\ Up \/ (ring = {} /\ bounceUsed = {} /\ bounceFree = {})
    /\ Cardinality(Busy) = Len(sq) + Cardinality(kernel) + Len(cq)
    /\ Cardinality(Busy) + Len(freeSlots) = Entries
    /\ Busy \cap {freeSlots[i] : i \in DOMAIN freeSlots} = {}
    /\ bounceUsed = ({hand[s].bounce : s \in Submitters} \cup {slots[i].bounce : i \in Busy})
                    \ {NoBounce}
    /\ \A i, j \in Busy : slots[i].bounce = slots[j].bounce /\ slots[i].bounce # NoBounce => i = j
    /\ bounceUsed \cap bounceFree = {}
    /\ Len(cq) + unacked <= 2 * Entries
    /\ (batch > 0 /\ ~retiring) => ~SqFull

==============================================================================
