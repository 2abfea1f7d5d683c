------------------------------- MODULE KvDisk -------------------------------
(***************************************************************************)
(* Parked contexts on disk: the .pkv files (save_parked_context,           *)
(* load_parked_context, drop_parked_context, the disk budget) and the      *)
(* background writer that saves them (KvDiskWriter).                       *)
(*                                                                         *)
(* A context is abstracted to the session it belongs to and the turn that  *)
(* left it; a snapshot has one unit of bytes, or two if its session is     *)
(* large.  The main thread's calls (Queue, Discard, ...) are operators on  *)
(* the writer's state: Serve takes them between its own steps.  The writer *)
(* thread is the actions below; a write is four steps because a process    *)
(* can die between them and because the other thread can queue, discard or *)
(* wait meanwhile.                                                         *)
(***************************************************************************)
EXTENDS Naturals, Sequences, FiniteSets, Functions

CONSTANTS
    Names,         \* session names
    FileOf,        \* session_file_name: the file a name is saved under
    WriteFaults    \* bound: how many writes may fail

VARIABLES
    disk,          \* the .pkv files, least recently written first
    writer,        \* the writer's queue and the write in progress
    writeFaults,   \* failed writes so far
    conf           \* the configuration of this behaviour

kvDiskVars == <<disk, writer, writeFaults>>

NoContext == [owner |-> "", turn |-> 0]

(* A sequence without the element whose index is in I, if there is one. *)
Omit(s, I) ==
    IF I = {} THEN s
    ELSE LET n == CHOOSE i \in I : TRUE
         IN  [j \in 1 .. Len(s) - 1 |-> IF j < n THEN s[j] ELSE s[j + 1]]

Others(d, f) == Omit(d, {i \in DOMAIN d : d[i].file = f})

(* load_parked_context of a whole file; NoContext is the NotFound miss.  A
   half-written file fails the trailer check (Corrupt). *)
Load(n) ==
    IF \E e \in Range(disk) : e.file = FileOf[n]
      THEN (CHOOSE e \in Range(disk) : e.file = FileOf[n]).ctx
      ELSE NoContext

(* ParkedContext::bytes of a session's snapshot. *)
Bytes(n) == IF n \in conf.large THEN 2 ELSE 1

(* enforce_disk_budget: the least recently written files go until the rest fit,
   the one just written too when it alone does not; a budget of 0 is none.  The
   budget here is what the baked prompts' files leave of max_bytes. *)
EnforceDiskBudget(d) ==
    LET bytes == [i \in DOMAIN d |-> Bytes(d[i].ctx.owner)]
        fit == {i \in DOMAIN d : SumFunctionOnSet(bytes, i .. Len(d)) <= conf.diskBudget}
    IN  IF conf.diskBudget = 0 THEN d
        ELSE SubSeq(d, Len(d) - Cardinality(fit) + 1, Len(d))

(* drop_parked_context *)
DropFile(n) == disk' = Others(disk, FileOf[n])

-----------------------------------------------------------------------------
(* The writer's queue, as the main thread sees it under the mutex. *)

Idle == [pending |-> <<>>, phase |-> "idle", name |-> "", ctx |-> NoContext,
         save |-> FALSE, ok |-> TRUE, result |-> "none"]

Busy == writer.phase # "idle"

OtherPending(n) ==
    Omit(writer.pending, {i \in DOMAIN writer.pending : writer.pending[i].name = n})

OtherBytes(n) ==
    SumFunction([i \in DOMAIN OtherPending(n) |-> Bytes(OtherPending(n)[i].name)])

HasSpaceFits(n) == OtherBytes(n) + Bytes(n) <= conf.queueBudget

(* KvDiskWriter::queue's has_space: this name's older snapshot is about to be
   replaced, and one oversized snapshot may occupy the queue alone. *)
HasSpace(n) ==
    \/ OtherBytes(n) = 0
    \/ Bytes(n) <= conf.queueBudget /\ OtherBytes(n) <= conf.queueBudget - Bytes(n)

QueueKeepOlder(n, c, save) ==
    LET older == SelectSeq(writer.pending, LAMBDA e : e.name = n)
    IN  writer' = [writer EXCEPT
            !.pending = Append(OtherPending(n),
                               [name |-> n, save |-> save,
                                ctx |-> IF older = <<>> THEN c ELSE older[1].ctx]),
            !.result = IF save THEN "none" ELSE @]

(* The rest of queue(): a pending snapshot of the same name is replaced, the
   callers waiting for it are carried over, and the new one goes last. *)
Queue(n, c, save) ==
    LET carried == \E e \in Range(writer.pending) : e.name = n /\ e.save
    IN  writer' = [writer EXCEPT
            !.pending = Append(OtherPending(n),
                               [name |-> n, ctx |-> c, save |-> save \/ carried]),
            !.result = IF save THEN "none" ELSE @]

Drained == writer.pending = <<>> /\ ~Busy

(* discard(): the first half removes what is pending, the second waits. *)
Discard(n) == writer' = [writer EXCEPT !.pending = OtherPending(n)]

Discarded(n) == ~Busy \/ writer.name # n

-----------------------------------------------------------------------------
(* The writer thread. *)

(* run(): the oldest pending snapshot is taken under the lock. *)
Take ==
    /\ ~Busy
    /\ writer.pending # <<>>
    /\ LET e == Head(writer.pending)
       IN  writer' = [writer EXCEPT !.pending = Tail(@), !.phase = "write",
                                    !.name = e.name, !.ctx = e.ctx, !.save = e.save]
    /\ UNCHANGED <<disk, writeFaults>>

(* save_parked_context up to the close: <file>.tmp is written and flushed; a
   failure removes it and is the result of the write. *)
WriteTmp ==
    /\ writer.phase = "write"
    /\ \/ /\ writer' = [writer EXCEPT !.phase = "remove", !.ok = TRUE]
          /\ UNCHANGED writeFaults
       \/ /\ writeFaults < WriteFaults
          /\ writeFaults' = writeFaults + 1
          /\ writer' = [writer EXCEPT !.phase = "complete", !.ok = FALSE]
    /\ UNCHANGED disk

(* The previous file is removed: "Windows rename does not replace". *)
RemoveFinal ==
    /\ writer.phase = "remove"
    /\ disk' = Others(disk, FileOf[writer.name])
    /\ writer' = [writer EXCEPT !.phase = "rename"]
    /\ UNCHANGED writeFaults

(* The rename and the budget; a rename that fails leaves neither file. *)
Rename ==
    /\ writer.phase = "rename"
    /\ \/ /\ disk' = EnforceDiskBudget(
                        Append(Others(disk, FileOf[writer.name]),
                               [file |-> FileOf[writer.name], ctx |-> writer.ctx]))
          /\ writer' = [writer EXCEPT !.phase = "complete", !.ok = TRUE]
          /\ UNCHANGED writeFaults
       \/ /\ writeFaults < WriteFaults
          /\ writeFaults' = writeFaults + 1
          /\ writer' = [writer EXCEPT !.phase = "complete", !.ok = FALSE]
          /\ UNCHANGED disk

(* run(), after write_: the callers of save() get their result. *)
Complete ==
    /\ writer.phase = "complete"
    /\ writer' = [Idle EXCEPT
            !.pending = writer.pending,
            !.result = IF ~writer.save THEN writer.result
                       ELSE IF writer.ok THEN "ok" ELSE "failed"]
    /\ UNCHANGED <<disk, writeFaults>>

Writer == Take \/ WriteTmp \/ RemoveFinal \/ Rename \/ Complete
=============================================================================
