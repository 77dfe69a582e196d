------------------------------- MODULE DgoLoad -------------------------------
(***************************************************************************)
(* Loading and linking a DGO file: the loader on the EE (kdgo.cpp, and its *)
(* GOAL twin load-dgo.gc, which may also cancel), the DGO RPC thread and   *)
(* the state machine that the ISO thread runs on each buffer it has read   *)
(* (iso.cpp).  One object is linked while the next is loaded, through two  *)
(* temporary buffers; the last object goes straight to the top of the      *)
(* heap, where linking also allocates, so it waits for all other links.    *)
(*                                                                         *)
(* The EE runs concurrently with the IOP; on the IOP the DGO thread runs   *)
(* only between two calls of the state machine.  The channel between them  *)
(* is RpcChannel.  A file is read in pages of PAGE units; both headers are *)
(* HEADER units (64 bytes), an object is its header and its data.          *)
(***************************************************************************)
EXTENDS Integers, Sequences

CONSTANTS
    Files,            \* a file: where each of its objects begins, and where it ends
    Missing,          \* files that the file system does not find
    HEADER, PAGE,
    MayCancel,        \* may the loader (GOAL) cancel?
    MaxHeap,          \* bound: links before the heap must be emptied again
    NoFile

ASSUME DgoAssumption ==
    /\ HEADER \in Nat \ {0} /\ PAGE \in Nat \ {0}
    /\ \A f \in Files :
           /\ f \in Seq(Nat) /\ Len(f) > 1 /\ f[1] = HEADER
           /\ \A m, n \in 1 .. Len(f) : m < n => f[m] + HEADER < f[n]
    /\ Missing \subseteq Files /\ NoFile \notin Files
    /\ MayCancel \in BOOLEAN /\ MaxHeap \in Nat

VARIABLES
    ee,               \* the loader: "idle", "waiting" for its call, "linking" or "linked"
    file,             \* the file it loads
    obj,              \* where the object that it got is
    last,             \* lastObjectLoaded
    count,            \* objects linked so far
    heap,             \* heap->current, as the number of links since it was emptied
    temps,            \* the temporary buffers are allocated
    mem,              \* EE memory that the IOP writes: the two buffers, the heap top
    rpc,              \* the DGO channel's call: function, heap top; then result, object
    thread,           \* the DGO thread: "loop" or "wait"ing for dgo_mbx
    scmd,             \* the DgoCommand shared by the DGO and the ISO thread
    sync_mbx, dgo_mbx,\* messages in the two mailboxes
    queued,           \* scmd is in the ISO thread's mailbox or queue
    running,          \* the ISO thread is in RunDGOStateMachine
    left, pos         \* units left in its buffer; units of the file consumed

eeVars  == <<ee, file, obj, last, count, heap, temps>>
isoVars == <<scmd, sync_mbx, dgo_mbx, queued, running, left, pos>>
smVars  == <<isoVars, mem>>
vars    == <<eeVars, smVars, rpc, thread>>

Top(h) == <<"top", h>>
B1 == <<"buffer1", 0>>
B2 == <<"buffer2", 0>>
Nowhere == <<"null", 0>>
Places == {B1, B2} \cup {Top(h) : h \in 0 .. MaxHeap}

\* The file's header says how many objects it has, and an object's header how
\* many units of data follow it.
ObjectCount(f) == Len(f) - 1
DataSize(f, n) == f[n + 1] - f[n] - HEADER

FreshCmd ==
    [cmd_id |-> FALSE, status |-> "DONE", heaptop |-> Nowhere, selected |-> Nowhere, toggle |-> 0,
     dest |-> Nowhere, state |-> "Init", processed |-> 0, loaded |-> 0, header |-> 0,
     first |-> FALSE, abort |-> FALSE]

Init ==
    /\ ee = "idle" /\ file = NoFile /\ obj = Nowhere /\ last = FALSE
    /\ count = 0 /\ heap = 0 /\ temps = FALSE
    /\ mem = [p \in Places |-> <<>>]
    /\ rpc = [phase |-> "idle", fno |-> "LOAD", heap_top |-> Nowhere, result |-> "INIT", buffer1 |-> Nowhere]
    /\ thread = "loop"
    /\ scmd = FreshCmd
    /\ sync_mbx = 0 /\ dgo_mbx = 0
    /\ queued = FALSE /\ running = FALSE /\ left = 0 /\ pos = 0

-----------------------------------------------------------------------------
(* The EE.                                                                 *)

Call(fno) ==
    /\ rpc.phase = "idle"
    /\ rpc' = [phase |-> "called", fno |-> fno, heap_top |-> Top(heap), result |-> "INIT",
               buffer1 |-> IF fno = "LOAD" THEN B1 ELSE Nowhere]

\* load_and_link_dgo_from_c up to BeginLoadingDGO: two temporary buffers,
\* RpcSync, and the call.  What the memory held before does not matter.
BeginLoadingDGO(f) ==
    /\ ee = "idle" /\ heap + ObjectCount(f) <= MaxHeap
    /\ Call("LOAD")
    /\ file' = f /\ temps' = TRUE /\ count' = 0 /\ ee' = "waiting"
    /\ mem' = [p \in Places |-> <<>>]
    /\ UNCHANGED <<obj, last, heap, isoVars, thread>>

\* The temporary buffers are freed when the last object is there.
TempsStay(result) == result = "MORE"

\* GetNextDGO: RpcSync; an object to link, or none (the load is over).  On
\* the last object the temporary buffers are freed before it is linked.
GetNextDGO ==
    /\ ee = "waiting" /\ rpc.phase = "idle" /\ rpc.fno # "CANCEL"
    /\ last' = (rpc.result # "MORE")
    /\ \/ /\ rpc.result \in {"MORE", "DONE"}
          /\ obj' = rpc.buffer1 /\ ee' = "linking"
          /\ temps' = TempsStay(rpc.result)
          /\ UNCHANGED <<file, count>>
       \/ /\ rpc.result \notin {"MORE", "DONE"}
          /\ ee' = "idle" /\ file' = NoFile /\ count' = 0
          /\ UNCHANGED <<obj, temps>>
    /\ UNCHANGED <<heap, smVars, rpc, thread>>

\* link_and_exec: allocates on the heap.
FinishLink ==
    /\ ee = "linking"
    /\ obj' = Nowhere
    /\ IF last
       THEN ee' = "idle" /\ file' = NoFile /\ count' = 0
       ELSE ee' = "linked" /\ count' = count + 1 /\ UNCHANGED file
    /\ heap' = heap + 1
    /\ UNCHANGED <<last, temps, smVars, rpc, thread>>

\* Mutant: the message keeps the heap pointer of the one before.
ContinueWithOldHeap ==
    /\ ee = "linked" /\ rpc.phase = "idle"
    /\ rpc' = [rpc EXCEPT !.phase = "called", !.fno = "NEXT", !.result = "INIT"]
    /\ ee' = "waiting"
    /\ UNCHANGED <<file, obj, last, count, heap, temps, smVars, thread>>

ContinueLoadingDGO ==
    /\ ee = "linked"
    /\ Call("NEXT")
    /\ ee' = "waiting"
    /\ UNCHANGED <<file, obj, last, count, heap, temps, smVars, thread>>

\* dgo-load-cancel, between dgo-load-get-next and dgo-load-continue (also
\* after the last object); the level's loading buffers are given up.  The
\* next dgo-load-begin waits for the answer (sync), and ignores it.
DgoLoadCancel ==
    /\ MayCancel /\ ee \in {"linking", "linked"}
    /\ Call("CANCEL")
    /\ ee' = "waiting" /\ obj' = Nowhere /\ temps' = FALSE
    /\ UNCHANGED <<file, last, count, heap, smVars, thread>>

SyncAfterCancel ==
    /\ ee = "waiting" /\ rpc.phase = "idle" /\ rpc.fno = "CANCEL"
    /\ ee' = "idle" /\ file' = NoFile /\ count' = 0
    /\ UNCHANGED <<obj, last, heap, temps, smVars, rpc, thread>>

\* A level's heap is emptied (kinitheap, or heap->current put back).
EmptyHeap ==
    /\ ee = "idle" /\ heap > 0
    /\ heap' = 0
    /\ UNCHANGED <<ee, file, obj, last, count, temps, smVars, rpc, thread>>

-----------------------------------------------------------------------------
(* The DGO RPC thread.                                                     *)

DgoThreadMayRun == ~running

Reply(result, where) ==
    rpc' = [rpc EXCEPT !.phase = "idle", !.result = result, !.buffer1 = where]

Called(fno) == DgoThreadMayRun /\ thread = "loop" /\ rpc.phase = "called" /\ rpc.fno = fno

\* LoadDGO: the file is not there; a load is still active, which CancelDGO
\* cannot handle without a command to answer; or send the command.  A build
\* with assertions stops in FS_FindIN for a missing file; this is the other one.
LoadDGO ==
    /\ Called("LOAD")
    /\ \/ /\ file \in Missing
          /\ Reply("ERROR", rpc.buffer1)
          /\ UNCHANGED <<thread, scmd, queued>>
       \/ /\ file \notin Missing /\ ~scmd.cmd_id
          /\ scmd' = [scmd EXCEPT !.cmd_id = TRUE, !.heaptop = rpc.heap_top,
                                  !.state = "Init", !.status = "IN_PROGRESS"]
          /\ queued' = TRUE
          /\ thread' = "wait"
          /\ UNCHANGED rpc
    /\ UNCHANGED <<eeVars, sync_mbx, dgo_mbx, running, left, pos, mem>>

LoadNextDGO ==
    /\ Called("NEXT")
    /\ IF scmd.cmd_id
       THEN /\ scmd' = [scmd EXCEPT !.heaptop = rpc.heap_top]
            /\ sync_mbx' = sync_mbx + 1
            /\ thread' = "wait"
            /\ UNCHANGED rpc
       ELSE /\ Reply("ERROR", rpc.buffer1)
            /\ UNCHANGED <<scmd, sync_mbx, thread>>
    /\ UNCHANGED <<eeVars, dgo_mbx, queued, running, left, pos, mem>>

CancelDGO ==
    /\ Called("CANCEL")
    /\ IF scmd.cmd_id
       THEN /\ scmd' = [scmd EXCEPT !.abort = TRUE]
            /\ sync_mbx' = sync_mbx + 1
            /\ thread' = "wait"
            /\ UNCHANGED rpc
       ELSE /\ Reply(rpc.result, rpc.buffer1)
            /\ UNCHANGED <<scmd, sync_mbx, thread>>
    /\ UNCHANGED <<eeVars, dgo_mbx, queued, running, left, pos, mem>>

\* WaitMbx(dgo_mbx) returned: answer the EE.
Answer ==
    /\ DgoThreadMayRun /\ thread = "wait" /\ dgo_mbx > 0
    /\ dgo_mbx' = dgo_mbx - 1
    /\ thread' = "loop"
    /\ \/ /\ rpc.fno = "CANCEL"
          /\ Reply("ABORTED", rpc.buffer1)
          /\ scmd' = [scmd EXCEPT !.cmd_id = FALSE]
       \/ /\ rpc.fno # "CANCEL" /\ scmd.status = "IN_PROGRESS"
          /\ Reply("MORE", IF rpc.fno = "NEXT" THEN scmd.selected ELSE rpc.buffer1)
          /\ UNCHANGED scmd
       \/ /\ rpc.fno # "CANCEL" /\ scmd.status = "DONE"
          /\ Reply("DONE", rpc.heap_top)
          /\ scmd' = [scmd EXCEPT !.cmd_id = FALSE]
    /\ UNCHANGED <<eeVars, sync_mbx, queued, running, left, pos, mem>>

-----------------------------------------------------------------------------
(* The ISO thread: RunDGOStateMachine on the buffers of the file.           *)

\* What the units of a file are: <<0, k>> of its header, <<n, k>> of object n.
Content(f, n) == [k \in 1 .. HEADER + DataSize(f, n) |-> <<n, k>>]
ObjectAt(f, i) == CHOOSE n \in 1 .. ObjectCount(f) : f[n] < i /\ i <= f[n + 1]
Unit(f, i) == IF i <= HEADER THEN <<0, i>> ELSE <<ObjectAt(f, i), i - f[ObjectAt(f, i)]>>

\* The k units of the file that follow the first i.
Data(i, k) == [u \in 1 .. k |-> Unit(file, i + u)]

\* ISOThread calls the callback of a command that has a buffer, and reads on
\* for one that has used its buffer up (past the end of the file as well).
EnterStateMachine ==
    /\ queued /\ ~running
    /\ running' = TRUE
    /\ left' = IF left = 0 THEN PAGE ELSE left
    /\ UNCHANGED <<eeVars, rpc, thread, scmd, sync_mbx, dgo_mbx, queued, pos, mem>>

\* All data consumed, or nothing to do before the EE is ready.
Leave == running' = FALSE /\ UNCHANGED <<sync_mbx, dgo_mbx, queued, left, pos, mem>>

OutOfData ==
    /\ running /\ left = 0
    /\ Leave
    /\ UNCHANGED <<eeVars, rpc, thread, scmd>>

InState(s) == running /\ left > 0 /\ scmd.state = s
Consume(k) == left' = left - k /\ pos' = pos + k

AtMost(k) == IF left < k THEN left ELSE k

SM_Init ==
    /\ InState("Init")
    /\ scmd' = [scmd EXCEPT !.processed = 0, !.first = FALSE, !.abort = FALSE, !.state = "Read_Header"]
    /\ UNCHANGED <<eeVars, rpc, thread, sync_mbx, dgo_mbx, queued, running, left, pos, mem>>

\* The header may come in two buffers.  A file with one object is loaded to
\* the heap top at once, any other starts with buffer 1.
SM_ReadHeader ==
    /\ InState("Read_Header")
    /\ LET k == AtMost(HEADER - scmd.processed)
       IN  /\ Consume(k)
           /\ scmd' = IF scmd.processed + k < HEADER
                      THEN [scmd EXCEPT !.processed = @ + k]
                      ELSE [scmd EXCEPT !.processed = 0, !.loaded = 0, !.state = "Read_Obj_Header",
                                        !.toggle = IF ObjectCount(file) = 1 THEN 0 ELSE 1,
                                        !.dest = IF ObjectCount(file) = 1 THEN scmd.heaptop ELSE B1]
    /\ UNCHANGED <<eeVars, rpc, thread, sync_mbx, dgo_mbx, queued, running, mem>>

\* LookMbx(sync_mbx), which takes the message.
LookSync == sync_mbx > 0

\* Mutant: the buffers are not swapped.
ReportSameBuffer ==
    /\ dgo_mbx' = dgo_mbx + 1
    /\ scmd' = [scmd EXCEPT !.first = TRUE, !.status = "IN_PROGRESS", !.selected = B1, !.dest = B1,
                  !.state = IF scmd.loaded + 1 = ObjectCount(file) THEN "Read_Last_Obj" ELSE "Read_Obj_Header"]

\* Tell the DGO thread (ReturnMessage) which buffer to answer with, and go on
\* with the other one.
Report ==
    /\ dgo_mbx' = dgo_mbx + 1
    /\ scmd' = [scmd EXCEPT !.first = TRUE, !.status = "IN_PROGRESS",
                  !.selected = IF scmd.toggle = 1 THEN B1 ELSE B2,
                  !.dest = IF scmd.toggle = 1 THEN B2 ELSE B1,
                  !.toggle = IF scmd.toggle = 1 THEN 2 ELSE 1,
                  !.state = IF scmd.loaded + 1 = ObjectCount(file) THEN "Read_Last_Obj" ELSE "Read_Obj_Header"]

\* An object is complete: the first is reported at once, the others when the
\* EE is done with the buffer that will be overwritten next.
SM_FinishObj ==
    /\ InState("Finish_Obj")
    /\ \/ /\ ~scmd.first
          /\ Report
          /\ UNCHANGED <<sync_mbx, running>>
       \/ /\ scmd.first /\ LookSync
          /\ sync_mbx' = sync_mbx - 1
          /\ IF scmd.abort
             THEN scmd' = [scmd EXCEPT !.state = "Finish_Dgo"] /\ UNCHANGED dgo_mbx
             ELSE Report
          /\ UNCHANGED running
       \/ /\ scmd.first /\ ~LookSync
          /\ running' = FALSE
          /\ UNCHANGED <<scmd, sync_mbx, dgo_mbx>>
    /\ UNCHANGED <<eeVars, rpc, thread, queued, left, pos, mem>>

\* Mutant: the last object does not wait for the EE.
SM_ReadLastObjAtOnce ==
    /\ InState("Read_Last_Obj")
    /\ scmd' = [scmd EXCEPT !.dest = scmd.heaptop, !.toggle = 0, !.state = "Read_Obj_Header"]
    /\ UNCHANGED <<eeVars, rpc, thread, sync_mbx, dgo_mbx, queued, running, left, pos, mem>>

\* The last object waits until nothing is being linked.
SM_ReadLastObj ==
    /\ InState("Read_Last_Obj")
    /\ \/ /\ LookSync
          /\ sync_mbx' = sync_mbx - 1
          /\ scmd' = IF scmd.abort
                     THEN [scmd EXCEPT !.state = "Finish_Dgo"]
                     ELSE [scmd EXCEPT !.dest = scmd.heaptop, !.toggle = 0, !.state = "Read_Obj_Header"]
          /\ UNCHANGED running
       \/ /\ ~LookSync
          /\ running' = FALSE
          /\ UNCHANGED <<scmd, sync_mbx>>
    /\ UNCHANGED <<eeVars, rpc, thread, dgo_mbx, queued, left, pos, mem>>

\* The object's header is kept until it is complete, then sent to the EE; it
\* is found at the start of the destination.
SM_ReadObjHeader ==
    /\ InState("Read_Obj_Header")
    /\ LET k == AtMost(HEADER - scmd.processed)
       IN  /\ Consume(k)
           /\ IF scmd.processed + k < HEADER
              THEN scmd' = [scmd EXCEPT !.processed = @ + k] /\ UNCHANGED mem
              ELSE /\ mem' = [mem EXCEPT ![scmd.dest] =
                                Data(pos + k - HEADER, HEADER)]
                   /\ scmd' = [scmd EXCEPT !.processed = 0, !.state = "Read_Obj_data",
                                           !.header = DataSize(file, ObjectAt(file, pos + k))]
    /\ UNCHANGED <<eeVars, rpc, thread, sync_mbx, dgo_mbx, queued, running>>

SM_ReadObjData ==
    /\ InState("Read_Obj_data")
    /\ LET k == AtMost(scmd.header - scmd.processed)
       IN  /\ Consume(k)
           /\ mem' = [mem EXCEPT ![scmd.dest] = @ \o Data(pos, k)]
           /\ scmd' = IF scmd.processed + k < scmd.header
                      THEN [scmd EXCEPT !.processed = @ + k]
                      ELSE IF scmd.loaded + 1 = ObjectCount(file)
                      THEN [scmd EXCEPT !.processed = @ + k, !.loaded = @ + 1, !.state = "Finish_Dgo"]
                      ELSE [scmd EXCEPT !.processed = 0, !.loaded = @ + 1, !.state = "Finish_Obj"]
    /\ UNCHANGED <<eeVars, rpc, thread, sync_mbx, dgo_mbx, queued, running>>

\* Mutant: the command ends without a message to the DGO thread.
SM_FinishDgoSilently ==
    /\ InState("Finish_Dgo")
    /\ scmd' = [scmd EXCEPT !.status = "DONE"]
    /\ queued' = FALSE /\ running' = FALSE /\ left' = 0 /\ pos' = 0
    /\ UNCHANGED <<eeVars, rpc, thread, sync_mbx, dgo_mbx, mem>>

\* The callback returns CMD_STATUS_DONE: ReleaseMessage, ReturnMessage.
SM_FinishDgo ==
    /\ InState("Finish_Dgo")
    /\ scmd' = [scmd EXCEPT !.status = "DONE"]
    /\ dgo_mbx' = dgo_mbx + 1
    /\ queued' = FALSE /\ running' = FALSE /\ left' = 0 /\ pos' = 0
    /\ UNCHANGED <<eeVars, rpc, thread, sync_mbx, mem>>

StateMachine ==
    \/ EnterStateMachine \/ OutOfData
    \/ SM_Init \/ SM_ReadHeader \/ SM_FinishObj \/ SM_ReadLastObj
    \/ SM_ReadObjHeader \/ SM_ReadObjData \/ SM_FinishDgo

DgoThread == LoadDGO \/ LoadNextDGO \/ CancelDGO \/ Answer

Loader == GetNextDGO \/ FinishLink \/ ContinueLoadingDGO \/ SyncAfterCancel

Next ==
    \/ StateMachine \/ DgoThread \/ Loader
    \/ \E f \in Files : BeginLoadingDGO(f)
    \/ DgoLoadCancel \/ EmptyHeap

Spec == Init /\ [][Next]_vars

\* The kernel dispatches both IOP threads in every pass, and the EE's loader
\* runs on.
FairSpec == Spec /\ WF_vars(StateMachine) /\ SF_vars(DgoThread) /\ WF_vars(Loader)

-----------------------------------------------------------------------------
(* Properties.                                                             *)

\* Every variable has its type: the state machine never consumes more of a
\* buffer than is left in it, and each mailbox holds at most one message.
TypeOK ==
    /\ ee \in {"idle", "waiting", "linking", "linked"}
    /\ file \in Files \cup {NoFile}
    /\ obj \in Places \cup {Nowhere}
    /\ last \in BOOLEAN /\ temps \in BOOLEAN
    /\ count \in Nat /\ heap \in 0 .. MaxHeap
    /\ rpc \in [phase : {"idle", "called"}, fno : {"LOAD", "NEXT", "CANCEL"},
                heap_top : Places \cup {Nowhere}, buffer1 : Places \cup {Nowhere},
                result : {"INIT", "MORE", "DONE", "ERROR", "ABORTED"}]
    /\ thread \in {"loop", "wait"}
    /\ scmd.state \in {"Init", "Read_Header", "Finish_Obj", "Read_Last_Obj", "Read_Obj_Header",
                       "Read_Obj_data", "Finish_Dgo"}
    /\ scmd.dest \in Places \cup {Nowhere}
    /\ scmd.processed \in Nat /\ scmd.loaded \in Nat
    /\ sync_mbx \in 0 .. 1 /\ dgo_mbx \in 0 .. 1
    /\ queued \in BOOLEAN /\ running \in BOOLEAN
    /\ left \in 0 .. PAGE /\ pos \in Nat
    /\ mem \in [Places -> Seq(Nat \X Nat)]

\* From dgo-load-cancel on, the loader wants no more objects.
Cancelling == ee = "waiting" /\ rpc.fno = "CANCEL"

Stream == INSTANCE ObjectStream
    WITH loading <- IF Cancelling THEN NoFile ELSE file,
         linked <- IF Cancelling THEN 0 ELSE count,
         using <- IF ee = "linking" THEN mem[obj] ELSE <<>>

\* The loader hands the linker whole objects, in order, and the IOP does not
\* write to an object's memory while it is being linked.
ImplementsObjectStream == Stream!StreamSpec

\* While an object is linked (and allocates), the IOP writes nothing at or
\* above the top of the heap: "the linking object could allocate on the heap
\* where the final loading object is being copied".
HeapFreeWhileLinking ==
    [][ee = "linking" /\ ee' = "linking" => \A h \in heap .. MaxHeap : mem'[Top(h)] = mem[Top(h)]]_vars

\* The last object is found at the top of the heap as it is when it is
\* handed over, not where the top was at an earlier call.
LastAtHeapTop == ee = "linking" /\ last => obj = Top(heap)

\* LoadDGO never has to cancel a load that is still active (CancelDGO would
\* dereference null), and no message of one load is left for the next.
CleanStart ==
    rpc.phase = "called" /\ rpc.fno = "LOAD" /\ thread = "loop" =>
        ~scmd.cmd_id /\ ~queued /\ sync_mbx = 0 /\ dgo_mbx = 0

\* Every load of load_and_link_dgo_from_c ends, whatever the layout of the
\* DGO file and wherever its pages break.
LoadEnds == ee # "idle" ~> ee = "idle"

\* "remember where the heap top point is so we can clear temporary
\* allocations": when a load that found its file ends, they are cleared.
TemporariesCleared ==
    [][ee # "idle" /\ ee' = "idle" /\ file \notin Missing => ~temps']_vars

\* What the loader relies on between its messages.
LoaderSound == TypeOK /\ LastAtHeapTop /\ CleanStart

\* The heap belongs to the linker while it links, and is whole after the load.
HeapRespected == HeapFreeWhileLinking /\ TemporariesCleared
=============================================================================
