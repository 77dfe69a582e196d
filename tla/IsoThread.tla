------------------------------ MODULE IsoThread ------------------------------
(***************************************************************************)
(* The ISO thread of the IOP's overlord driver (game/overlord/iso.cpp),    *)
(* its priority stacks and read buffers (iso_queue.cpp), the file system   *)
(* under it (fake_iso.cpp) and the threads that ask it to load             *)
(* (iso_api.cpp).                                                          *)
(*                                                                         *)
(* IOP threads are cooperative: another thread runs only while the ISO     *)
(* thread is in DelayThread, so the steps of one pass of its loop           *)
(* (receive, begin a read, run callbacks, sync the read) are interleaved   *)
(* with nothing.  A file is a sequence of pages of BUFFER_PAGE_SIZE bytes; *)
(* page p of file f is <<f, p>>.  A command is named by the thread that    *)
(* sends it, since a thread sleeps until its command comes back.            *)
(***************************************************************************)
EXTENDS Integers, FiniteSets, SequencesExt

CONSTANTS
    Cmds,             \* the commands (one per requesting thread)
    KindOf,           \* "ee" | "iop" (single loads), "dgo", "bank"
    FileLen,          \* pages of the file each loading command names
    N_BUFFERS,        \* read buffers (4 in the code)
    PRI_STACK_LENGTH, \* commands per priority (4 in the code)
    MAX_OPEN_FILES,   \* slots of sLoadStack (16 in the code)
    Shutdown,         \* may the kernel ask the thread to exit?
    NoCmd             \* no command

N_PRIORITIES == 4
Priorities   == 0 .. N_PRIORITIES - 1
Buffers      == 1 .. N_BUFFERS
Slots        == 1 .. MAX_OPEN_FILES
Singles      == {c \in Cmds : KindOf[c] \in {"ee", "iop"}}
Loading      == {c \in Cmds : KindOf[c] # "bank"}
NoPage       == <<NoCmd, 0>>

ASSUME IsoAssumption ==
    /\ NoCmd \notin Cmds
    /\ KindOf \in [Cmds -> {"ee", "iop", "dgo", "bank"}]
    /\ \A c, d \in Cmds : KindOf[c] = "dgo" /\ KindOf[d] = "dgo" => c = d
    /\ FileLen \in [Cmds -> Nat \ {0}]
    /\ {N_BUFFERS, PRI_STACK_LENGTH, MAX_OPEN_FILES} \subseteq Nat \ {0}
    /\ N_BUFFERS >= 4
    /\ MAX_OPEN_FILES > PRI_STACK_LENGTH
    /\ Shutdown \in BOOLEAN

VARIABLES
    pc,               \* where the ISO thread is
    iso_mbx,          \* its mailbox
    gPriStack,        \* per priority, the queued commands
    msg,              \* per command: status, fd, callback_buffer list, copy progress
    sFreeBuffer,      \* free list of read buffers
    sLoadStack,       \* open files: owner of the slot and next page
    read_in_progress, \* fake_iso's one read
    read,             \* cmd_to_process and read_buffer of this pass
    cursor,           \* priority and index ProcessMessageData has reached
    client,           \* requesting threads: idle, waiting (asleep), returned
    mem,              \* what has been copied to each single load's destination
    wantExit          \* the kernel wants the ISO thread to exit

vars == <<pc, iso_mbx, gPriStack, msg, sFreeBuffer, sLoadStack,
          read_in_progress, read, cursor, client, mem, wantExit>>
threadVars == <<client, wantExit>>
fsVars     == <<sLoadStack, read_in_progress>>

NoRead == [cmd |-> NoCmd, buf |-> 0, page |-> NoPage]
Closed == [fr |-> NoCmd, location |-> 0]
FreshMsg == [status |-> "none", fd |-> 0, bufs |-> <<>>, offset |-> 0, length |-> 0,
             length_to_copy |-> 0, done |-> 0]

Init ==
    /\ pc = "receive"
    /\ iso_mbx = <<>>
    /\ gPriStack = [p \in Priorities |-> <<>>]
    /\ msg = [c \in Cmds |-> FreshMsg]
    /\ sFreeBuffer = [b \in Buffers |-> b]
    /\ sLoadStack = [s \in Slots |-> Closed]
    /\ read_in_progress = FALSE
    /\ read = NoRead
    /\ cursor = [pri |-> 0, idx |-> 0]
    /\ client = [c \in Cmds |-> "idle"]
    /\ mem = [c \in Cmds |-> <<>>]
    /\ wantExit = FALSE

Queued == UNION {Range(gPriStack[p]) : p \in Priorities}
PriorityOf(c) == IF KindOf[c] = "dgo" THEN 0 ELSE 2

-----------------------------------------------------------------------------
(* Receive a message and queue it.                                         *)

\* PollMbx of a thread that the kernel wants to exit: leave the loop.
ReceiveExit ==
    /\ pc = "receive" /\ wantExit
    /\ pc' = "exit"
    /\ UNCHANGED <<iso_mbx, gPriStack, msg, sFreeBuffer, fsVars, read, cursor, mem, threadVars>>

ReceiveNothing ==
    /\ pc = "receive" /\ ~wantExit /\ iso_mbx = <<>>
    /\ pc' = "begin"
    /\ UNCHANGED <<iso_mbx, gPriStack, msg, sFreeBuffer, fsVars, read, cursor, mem, threadVars>>

FreeSlots == {s \in Slots : sLoadStack[s].fr = NoCmd}
FirstFree == CHOOSE s \in FreeSlots : \A t \in FreeSlots : s <= t

\* Mutant: the length the caller asked for is ignored.
LengthToCopyWholeFile(c) == FileLen[c]

\* The whole file, or less if the caller asked for less.
LengthToCopy(c) ==
    IF msg[c].length < FileLen[c] THEN msg[c].length ELSE FileLen[c]

QueueFull(p) == Len(gPriStack[p]) = PRI_STACK_LENGTH

\* A load command: refused when its priority stack is full, otherwise
\* queued and its file opened (in the first unused slot; ExitIOP, which
\* loops forever, when there is none).
ReceiveLoad ==
    /\ pc = "receive" /\ ~wantExit /\ iso_mbx # <<>> /\ Head(iso_mbx) \in Loading
    /\ iso_mbx' = Tail(iso_mbx)
    /\ LET c == Head(iso_mbx)
           p == PriorityOf(c)
       IN  \/ /\ QueueFull(p)
              /\ msg' = [msg EXCEPT ![c].status = "FAILED_TO_QUEUE", ![c].bufs = <<>>, ![c].fd = 0]
              /\ client' = [client EXCEPT ![c] = "returned"]
              /\ pc' = "begin"
              /\ UNCHANGED <<gPriStack, fsVars>>
           \/ /\ ~QueueFull(p)
              /\ gPriStack' = [gPriStack EXCEPT ![p] = Append(@, c)]
              /\ IF FreeSlots = {}
                 THEN /\ pc' = "stuck"
                      /\ UNCHANGED <<msg, fsVars>>
                 ELSE /\ sLoadStack' = [sLoadStack EXCEPT ![FirstFree] =
                                          [fr |-> c, location |-> msg[c].offset]]
                      /\ msg' = [msg EXCEPT ![c].status = "IN_PROGRESS", ![c].bufs = <<>>,
                                            ![c].fd = FirstFree, ![c].done = 0,
                                            ![c].length_to_copy =
                                               IF c \in Singles THEN LengthToCopy(c) ELSE @]
                      /\ pc' = "begin"
                      /\ UNCHANGED read_in_progress
              /\ UNCHANGED client
    /\ UNCHANGED <<sFreeBuffer, read, cursor, mem, wantExit>>

\* Mutant: the request is ignored and its sender never woken.
ReceiveBankIgnored ==
    /\ pc = "receive" /\ ~wantExit /\ iso_mbx # <<>> /\ Head(iso_mbx) \notin Loading
    /\ iso_mbx' = Tail(iso_mbx)
    /\ pc' = "begin"
    /\ UNCHANGED <<gPriStack, msg, sFreeBuffer, fsVars, read, cursor, mem, threadVars>>

\* A sound bank command (the load itself is not implemented): sent back to
\* the mailbox while no buffer is free, else answered at once.
ReceiveBank ==
    /\ pc = "receive" /\ ~wantExit /\ iso_mbx # <<>> /\ Head(iso_mbx) \notin Loading
    /\ LET c == Head(iso_mbx)
       IN  \/ /\ sFreeBuffer = <<>>
              /\ iso_mbx' = Append(Tail(iso_mbx), c)
              /\ UNCHANGED client
           \/ /\ sFreeBuffer # <<>>
              /\ iso_mbx' = Tail(iso_mbx)
              /\ client' = [client EXCEPT ![c] = "returned"]
    /\ pc' = "begin"
    /\ UNCHANGED <<gPriStack, msg, sFreeBuffer, fsVars, read, cursor, mem, wantExit>>

-----------------------------------------------------------------------------
(* Begin a read for the command GetMessage selects.                        *)

\* Mutant: one read too many is allowed ahead of a callback.
BufferLimitThree(p) == IF p = N_PRIORITIES - 1 THEN 1 ELSE 3

\* Commands below the highest priority may have one buffer waiting.
BufferLimit(p) == IF p = N_PRIORITIES - 1 THEN 1 ELSE 2

Wanting ==
    {x \in Priorities \X (1 .. PRI_STACK_LENGTH) :
        /\ x[2] <= Len(gPriStack[x[1]])
        /\ LET m == msg[gPriStack[x[1]][x[2]]]
           IN  m.fd # 0 /\ m.status = "IN_PROGRESS" /\ Len(m.bufs) < BufferLimit(x[1])}

\* Highest priority first, and in it the newest command.
GetMessage ==
    IF Wanting = {} THEN NoCmd
    ELSE LET w == CHOOSE x \in Wanting : \A y \in Wanting :
                     y[1] < x[1] \/ (y[1] = x[1] /\ y[2] <= x[2])
         IN  gPriStack[w[1]][w[2]]

\* ProcessMessageData at priority p: the newest command of the highest
\* priority up to p that has any, or the end of the pass.
ProcessFrom(p, stack) ==
    LET busy == {q \in 0 .. p : stack[q] # <<>>}
    IN  IF busy = {}
        THEN pc' = "sync" /\ cursor' = [pri |-> 0, idx |-> 0]
        ELSE /\ pc' = "process"
             /\ cursor' = [pri |-> Max(busy), idx |-> Len(stack[Max(busy)])]

\* FS_BeginRead: the page at the file's location, or nothing past its end
\* (the buffer keeps what it held, NoPage); the location moves on either way.
ReadPage(fd) ==
    LET f == sLoadStack[fd].fr
        l == sLoadStack[fd].location
    IN  IF l < FileLen[f] THEN <<f, l>> ELSE NoPage

BeginRead ==
    /\ pc = "begin"
    /\ LET c == GetMessage
       IN  \/ /\ c = NoCmd
              /\ ProcessFrom(N_PRIORITIES - 1, gPriStack)
              /\ UNCHANGED <<sFreeBuffer, fsVars, read>>
           \/ /\ c # NoCmd /\ sFreeBuffer = <<>>   \* AllocateBuffer loops forever
              /\ pc' = "stuck"
              /\ UNCHANGED <<sFreeBuffer, fsVars, read, cursor>>
           \/ /\ c # NoCmd /\ sFreeBuffer # <<>>
              /\ read' = [cmd |-> c, buf |-> Head(sFreeBuffer), page |-> ReadPage(msg[c].fd)]
              /\ sFreeBuffer' = Tail(sFreeBuffer)
              /\ sLoadStack' = [sLoadStack EXCEPT ![msg[c].fd].location = @ + 1]
              /\ read_in_progress' = TRUE
              /\ ProcessFrom(N_PRIORITIES - 1, gPriStack)
    /\ UNCHANGED <<iso_mbx, gPriStack, msg, mem, threadVars>>

-----------------------------------------------------------------------------
(* ProcessMessageData: run the callbacks of commands with a filled buffer. *)

Current == gPriStack[cursor.pri][cursor.idx]

\* On to the next command: the older ones first, then lower priorities.
NextCommand ==
    IF cursor.idx > 1
    THEN pc' = "process" /\ cursor' = [cursor EXCEPT !.idx = @ - 1]
    ELSE ProcessFrom(cursor.pri - 1, gPriStack)

\* No read has finished for this command.
SkipCommand ==
    /\ pc = "process" /\ msg[Current].bufs = <<>>
    /\ NextCommand
    /\ UNCHANGED <<iso_mbx, gPriStack, msg, sFreeBuffer, fsVars, read, mem, threadVars>>

FreeBuffer(b) == <<b>> \o sFreeBuffer

\* The callback used up the first buffer and wants more.
Consume(c) ==
    /\ sFreeBuffer' = FreeBuffer(Head(msg[c].bufs).buf)
    /\ NextCommand
    /\ UNCHANGED <<gPriStack, fsVars>>

\* Mutant: only the first buffer of a command is released.
FreeHeadOnly(bufs) == IF bufs = <<>> THEN sFreeBuffer ELSE <<Head(bufs).buf>> \o sFreeBuffer

\* ReleaseMessage frees the command's buffers from the first on.
FreeAll(bufs) == Reverse([i \in 1 .. Len(bufs) |-> bufs[i].buf]) \o sFreeBuffer

\* FS_Close: forget the slot, and any read in progress.
CloseFile(c) ==
    /\ sLoadStack' = [sLoadStack EXCEPT ![msg[c].fd] = Closed]
    /\ read_in_progress' = FALSE

\* Mutant: the newest command of the priority is removed.
UnqueueNewest(stack) == Front(stack)

UnqueueMessage(stack) == RemoveAt(stack, cursor.idx)

\* The callback returned a final status: ReleaseMessage (free the buffers,
\* close the file, leave the queue), ReturnMessage, and this priority again.
Finish(c) ==
    /\ sFreeBuffer' = FreeAll(msg[c].bufs)
    /\ CloseFile(c)
    /\ LET stack == [gPriStack EXCEPT ![cursor.pri] = UnqueueMessage(@)]
       IN  gPriStack' = stack /\ ProcessFrom(cursor.pri, stack)
    /\ client' = [client EXCEPT ![c] = "returned"]
    /\ UNCHANGED wantExit

\* Page n (from 1) of the destination, given how many pages were copied:
\* CopyDataToEE moves its destination on, CopyDataToIOP copies to dst_ptr,
\* which it does not move.
CopyIndex(c) == IF KindOf[c] = "ee" THEN msg[c].done + 1 ELSE 1

Written(m, n, page) == [i \in 1 .. IF n > Len(m) THEN n ELSE Len(m) |->
                           IF i = n THEN page ELSE m[i]]

\* CopyDataToEE and CopyDataToIOP: copy the first buffer, all of it or what
\* is left to copy; done when the whole length has been copied.
CopyData ==
    /\ pc = "process" /\ Current \in Singles /\ msg[Current].bufs # <<>>
    /\ LET c == Current
           n == msg[c].done + 1
       IN  /\ mem' = [mem EXCEPT ![c] = Written(@, CopyIndex(c), Head(msg[c].bufs).page)]
           /\ \/ /\ n < msg[c].length_to_copy
                 /\ Consume(c)
                 /\ msg' = [msg EXCEPT ![c].done = n, ![c].bufs = Tail(@)]
                 /\ UNCHANGED threadVars
              \/ /\ n = msg[c].length_to_copy
                 /\ Finish(c)
                 /\ msg' = [msg EXCEPT ![c].done = n, ![c].bufs = <<>>, ![c].fd = 0,
                                       ![c].status = "DONE"]
    /\ UNCHANGED <<iso_mbx, read>>

\* RunDGOStateMachine seen from here: it uses up the buffer or leaves some
\* of it (it waits for the EE); it may report an object (ReturnMessage, the
\* command stays queued) when the DGO thread waits for one, and finishes
\* only then.  The last object ends in the last page.
MayReport(c) ==
    \/ UNCHANGED client
    \/ client[c] = "waiting" /\ client' = [client EXCEPT ![c] = "returned"]

DgoCallback ==
    /\ pc = "process" /\ Current \notin Singles /\ msg[Current].bufs # <<>>
    /\ LET c == Current
       IN  \/ /\ Head(msg[c].bufs).page[2] < FileLen[c] - 1
              /\ Consume(c)
              /\ msg' = [msg EXCEPT ![c].bufs = Tail(@)]
              /\ MayReport(c)
              /\ UNCHANGED wantExit
           \/ /\ NextCommand
              /\ MayReport(c)
              /\ UNCHANGED <<gPriStack, fsVars, sFreeBuffer, msg, wantExit>>
           \/ /\ client[c] = "waiting"
              /\ Finish(c)
              /\ msg' = [msg EXCEPT ![c].bufs = <<>>, ![c].fd = 0, ![c].status = "DONE"]
    /\ UNCHANGED <<iso_mbx, read, mem>>

-----------------------------------------------------------------------------
(* Sync the read of this pass and give its buffer to its command.          *)

\* No read was begun: DelayThread, other threads run.
Delay ==
    /\ pc = "sync" /\ read = NoRead
    /\ pc' = "delay"
    /\ UNCHANGED <<iso_mbx, gPriStack, msg, sFreeBuffer, fsVars, read, cursor, mem, threadVars>>

\* FS_SyncRead fails if a file was closed since the read was begun; the
\* buffer is then freed, otherwise it is appended to the command's list.
SyncRead ==
    /\ pc = "sync" /\ read # NoRead
    /\ \/ /\ ~read_in_progress
          /\ sFreeBuffer' = FreeBuffer(read.buf)
          /\ UNCHANGED <<msg, read_in_progress>>
       \/ /\ read_in_progress
          /\ read_in_progress' = FALSE
          /\ msg' = [msg EXCEPT ![read.cmd].bufs = Append(@, [buf |-> read.buf, page |-> read.page])]
          /\ UNCHANGED sFreeBuffer
    /\ read' = NoRead
    /\ pc' = "receive"
    /\ UNCHANGED <<iso_mbx, gPriStack, sLoadStack, cursor, mem, threadVars>>

\* The kernel dispatches the ISO thread again.
Resume ==
    /\ pc = "delay"
    /\ pc' = "receive"
    /\ UNCHANGED <<iso_mbx, gPriStack, msg, sFreeBuffer, fsVars, read, cursor, mem, threadVars>>

-----------------------------------------------------------------------------
(* The requesting threads, and the kernel.                                 *)

OthersRun == pc \in {"delay", "exit"}

\* LoadISOFileToEE, LoadISOFileChunkToEE (with an offset), LoadISOFileToIOP,
\* LoadSoundBank and LoadDGO: send the command and sleep.  Callers ask for
\* chunks that the file has.
Request(c, offset, length) ==
    /\ OthersRun /\ client[c] = "idle"
    /\ msg' = [msg EXCEPT ![c] = [FreshMsg EXCEPT !.offset = offset, !.length = length]]
    /\ iso_mbx' = Append(iso_mbx, c)
    /\ client' = [client EXCEPT ![c] = "waiting"]
    /\ UNCHANGED <<pc, gPriStack, sFreeBuffer, fsVars, read, cursor, mem, wantExit>>

\* The thread runs again.  A DGO thread that got an object but not the last
\* asks for the next one; every other thread is done with its command.
Wake(c) ==
    /\ OthersRun /\ client[c] = "returned"
    /\ IF KindOf[c] = "dgo" /\ msg[c].status = "IN_PROGRESS"
       THEN /\ client' = [client EXCEPT ![c] = "waiting"]
            /\ UNCHANGED <<msg, mem>>
       ELSE /\ client' = [client EXCEPT ![c] = "idle"]
            /\ msg' = [msg EXCEPT ![c] = FreshMsg]
            /\ mem' = [mem EXCEPT ![c] = <<>>]
    /\ UNCHANGED <<pc, iso_mbx, gPriStack, sFreeBuffer, fsVars, read, cursor, wantExit>>

\* IOP_Kernel::shutdown, from the kernel, while the thread is suspended.
WantExit ==
    /\ Shutdown /\ pc = "delay" /\ ~wantExit
    /\ wantExit' = TRUE
    /\ UNCHANGED <<pc, iso_mbx, gPriStack, msg, sFreeBuffer, fsVars, read, cursor, client, mem>>

IsoStep ==
    \/ ReceiveExit \/ ReceiveNothing \/ ReceiveLoad \/ ReceiveBank
    \/ BeginRead
    \/ SkipCommand \/ CopyData \/ DgoCallback
    \/ SyncRead \/ Delay \/ Resume

\* What callers ask for: the start of a file, with a length that may exceed
\* the file's (the caller does not know it); a chunk of a file, for the EE.
Asked(c) ==
    IF c \notin Singles THEN {<<0, 0>>}
    ELSE {a \in (0 .. FileLen[c] - 1) \X (1 .. FileLen[c] + 1) :
            a[1] = 0 \/ (KindOf[c] = "ee" /\ a[1] + a[2] <= FileLen[c])}

Next ==
    \/ IsoStep
    \/ \E c \in Cmds : \E a \in Asked(c) : Request(c, a[1], a[2])
    \/ \E c \in Cmds : Wake(c)
    \/ WantExit

Spec == Init /\ [][Next]_vars

\* dispatchAll runs every started thread in turn, for ever: a thread that is
\* runnable whenever the ISO thread is suspended runs in one of those pauses.
FairSpec == Spec /\ WF_vars(IsoStep) /\ \A c \in Cmds : SF_vars(Wake(c))

-----------------------------------------------------------------------------
(* Properties.                                                             *)

Pages == (Cmds \cup {NoCmd}) \X Nat

\* The ISO thread's tables stay within their bounds: no priority stack grows
\* past PRI_STACK_LENGTH, every fd is 0 or a slot of sLoadStack.
TypeOK ==
    /\ pc \in {"receive", "begin", "process", "sync", "delay", "exit", "stuck"}
    /\ iso_mbx \in Seq(Cmds)
    /\ gPriStack \in [Priorities -> Seq(Cmds)]
    /\ \A p \in Priorities : Len(gPriStack[p]) <= PRI_STACK_LENGTH
    /\ msg \in [Cmds -> [status : {"none", "IN_PROGRESS", "DONE", "FAILED_TO_QUEUE"},
                         fd : 0 .. MAX_OPEN_FILES, bufs : Seq([buf : Buffers, page : Pages]), offset : Nat,
                         length : Nat, length_to_copy : Nat, done : Nat]]
    /\ sFreeBuffer \in Seq(Buffers)
    /\ sLoadStack \in [Slots -> [fr : Cmds \cup {NoCmd}, location : Nat]]
    /\ read_in_progress \in BOOLEAN
    /\ read \in [cmd : Cmds \cup {NoCmd}, buf : 0 .. N_BUFFERS, page : Pages]
    /\ cursor \in [pri : Priorities, idx : 0 .. PRI_STACK_LENGTH]
    /\ client \in [Cmds -> {"idle", "waiting", "returned"}]
    /\ mem \in [Cmds -> Seq(Pages)]
    /\ wantExit \in BOOLEAN

\* How often buffer b is held: by the free list, by a command, by the read.
Holders(b) ==
    Cardinality({i \in DOMAIN sFreeBuffer : sFreeBuffer[i] = b})
    + Cardinality({x \in Cmds \X (1 .. N_BUFFERS) :
                      x[2] <= Len(msg[x[1]].bufs) /\ msg[x[1]].bufs[x[2]].buf = b})
    + (IF read.buf = b THEN 1 ELSE 0)

\* No read buffer is lost or handed to two owners, over any number of loads.
BuffersConserved == \A b \in Buffers : Holders(b) = 1

\* AllocateBuffer never loops forever, nor does ExitIOP: four buffers and
\* sixteen files are enough.
NeverStuck == pc # "stuck"

\* Every open file belongs to exactly one queued command: none is leaked
\* when a command ends, none is shared.
OpenFilesOwned ==
    pc # "stuck" =>
        /\ \A c \in Queued : msg[c].fd # 0 /\ sLoadStack[msg[c].fd].fr = c
        /\ \A s \in Slots : sLoadStack[s].fr # NoCmd =>
              sLoadStack[s].fr \in Queued /\ msg[sLoadStack[s].fr].fd = s

\* A single load lives on its caller's stack: the ISO thread keeps it in its
\* mailbox or queues only while that caller sleeps, and never returns a
\* caller whose command it still holds.
NoDanglingCommand ==
    \A c \in Singles :
        /\ c \in Queued \cup Range(iso_mbx) => client[c] = "waiting"
        /\ client[c] = "waiting" => c \in Queued \cup Range(iso_mbx)

\* A finished read is given to a command only while the command is queued
\* ("this read _may_ complete after the command is done").
ReadHasOwner == read # NoRead /\ read_in_progress => read.cmd \in Queued

\* A load that reports success has put the pages asked for (those that the
\* file has), in order, at its destination, and nothing after them.
LoadIsComplete ==
    \A c \in Singles : client[c] = "returned" /\ msg[c].status = "DONE" =>
        mem[c] = [i \in 1 .. Min({msg[c].length, FileLen[c]}) |-> <<c, msg[c].offset + i - 1>>]

\* A load that reports success has been given as many pages as it asked for
\* and no more, of its own file only, each at most once and in their order;
\* a page that comes from no file at all was read past the end of this one
\* (LoadIsComplete says which pages those should be).  A load to the IOP
\* keeps only the last of them, since CopyDataToIOP does not move dst_ptr.
LoadInOrder ==
    \A c \in Singles : client[c] = "returned" /\ msg[c].status = "DONE" =>
        LET own == {i \in DOMAIN mem[c] : mem[c][i][1] # NoCmd} IN
        /\ \A i \in own : mem[c][i][1] = c /\ mem[c][i][2] >= msg[c].offset
        /\ \A i, j \in own : i < j => mem[c][i][2] < mem[c][j][2]
        /\ msg[c].done = Min({msg[c].length, FileLen[c]})
        /\ Len(mem[c]) = IF KindOf[c] = "ee" THEN msg[c].done ELSE 1

\* Every request for a file or a sound bank is answered.
RequestsAnswered ==
    \A c \in Cmds : KindOf[c] # "dgo" /\ client[c] = "waiting" ~> client[c] = "idle"

\* Buffers, files and queue places come back, however loads end.
ResourcesConserved == TypeOK /\ BuffersConserved /\ OpenFilesOwned

\* No command is worked on, or given a page, after its caller has gone on.
CommandsLive == NoDanglingCommand /\ ReadHasOwner
=============================================================================
