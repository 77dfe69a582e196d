------------------------------ MODULE IopKernel ------------------------------
(***************************************************************************)
(* The kernel of the emulated I/O processor: its cooperative threads and   *)
(* its shutdown (game/system/IOP_Kernel.cpp), the budget of iterations     *)
(* that the EE grants it (iop_thread.cpp), the loop that runs it           *)
(* (iop_runner in runtime.cpp) and the remote procedure calls of the EE    *)
(* (sif_rpc, sif_busy, rpc_loop; sif_ee.cpp).                              *)
(*                                                                         *)
(* Two system threads run concurrently, the EE and the IOP.  What they     *)
(* share is accessed under sif_mtx or iters_mutex, which are never held    *)
(* together: each critical section is one action.                          *)
(***************************************************************************)
EXTENDS Integers, Sequences

CONSTANTS
    Channels,         \* the RPC threads, one per channel
    Iso,              \* the ISO thread
    NoThread,
    Order,            \* the threads in the order they were created
    HandlerOf,        \* "now": answers at once; "poll": waits for the ISO
                      \* thread in WaitMbx; "sleep": waits in SleepThread
    Requests,
    Silent,           \* requests without a receive buffer
    SIGNAL_ITERS,     \* iterations granted per signal (100 in the code)
    MAX_ITERS,        \* and the most that may be outstanding (500)
    MayStop           \* may the EE stop the IOP?

Threads == Channels \cup {Iso}

ASSUME IopAssumption ==
    /\ Iso \notin Channels /\ NoThread \notin Threads
    /\ Order \in Seq(Threads)
    /\ \A t \in Threads : \E i \in 1 .. Len(Order) : Order[i] = t
    /\ HandlerOf \in [Channels -> {"now", "poll", "sleep"}]
    /\ Silent \subseteq Requests /\ Requests # {}
    /\ SIGNAL_ITERS \in Nat \ {0} /\ MAX_ITERS \in Nat \ {0}
    /\ MayStop \in BOOLEAN

VARIABLES
    credit,           \* iop_iters_des - iop_iters_act
    want_exit,        \* IOP::want_exit
    kernel,           \* the IOP: "head" of its loop, "wait"ing for credit, in a
                      \* "pass" of dispatchAll, "stopped"
    turn,             \* index into Order that the pass has reached
    current,          \* _currentThread
    closing,          \* IOP_Kernel::shutdown is under way: wantExit, shutdown_now
    started, done,    \* per thread: dispatched in passes; returned
    at,               \* per channel: where its thread is in rpc_loop
    cmdStarted, cmdFinished, \* per channel: the flags of its SifRpcCommand
    buff,             \* per channel: serve_data->buff
    io,               \* per channel: what its handler has asked the ISO thread
    ee,               \* where the EE is
    polled, syncing,  \* the channel it polls; until it is idle, or once
    request,          \* per channel: the command's request, as sent
    recv,             \* per channel: the EE's receive buffer
    seen              \* channels the EE has seen idle since its last call

iopVars == <<kernel, turn, current, closing, started, done>>
rpcVars == <<at, buff, io, recv>>
eeVars  == <<ee, polled, syncing, request, seen>>
sif     == <<cmdStarted, cmdFinished>>
poll    == <<polled, syncing>>
vars    == <<credit, want_exit, iopVars, rpcVars, eeVars, sif>>

Nothing    == <<"nothing">>
Early      == <<"early">>
Answer(r)  == <<"answer", r>>
Aborted(r) == <<"aborted", r>>

\* start_overlord has run every thread once: each RPC thread is registered
\* and suspended at the top of its loop.
Init ==
    /\ credit = 0 /\ want_exit = FALSE
    /\ kernel = "head" /\ turn = 1 /\ current = NoThread /\ closing = FALSE
    /\ started = [t \in Threads |-> TRUE]
    /\ done = [t \in Threads |-> FALSE]
    /\ at = [ch \in Channels |-> "loop"]
    /\ cmdStarted = [ch \in Channels |-> TRUE]
    /\ cmdFinished = [ch \in Channels |-> TRUE]
    /\ buff = [ch \in Channels |-> Nothing]
    /\ io = [ch \in Channels |-> "none"]
    /\ ee = "run" /\ polled = NoThread /\ syncing = FALSE
    /\ request \in [Channels -> Requests]
    /\ recv = [ch \in Channels |-> Nothing]
    /\ seen = {}

-----------------------------------------------------------------------------
(* The IOP's loop, and dispatchAll.                                        *)

LoopHead ==
    /\ kernel = "head" /\ ~want_exit
    /\ kernel' = "wait"
    /\ UNCHANGED <<credit, want_exit, turn, current, closing, started, done, rpcVars, eeVars, sif>>

\* wait_run_iop, then one pass over the threads.
WaitRunIop ==
    /\ kernel = "wait" /\ credit > 0
    /\ credit' = credit - 1
    /\ kernel' = "pass" /\ turn' = 1
    /\ UNCHANGED <<want_exit, current, closing, started, done, rpcVars, eeVars, sif>>

InPass == kernel = "pass" /\ current = NoThread /\ turn <= Len(Order)

\* Mutant: a sleeping thread is dispatched.
DispatchAnyone ==
    /\ InPass /\ ~done[Order[turn]]
    /\ current' = Order[turn]
    /\ UNCHANGED <<credit, want_exit, kernel, turn, closing, started, done, rpcVars, eeVars, sif>>

Dispatch ==
    /\ InPass /\ started[Order[turn]] /\ ~done[Order[turn]]
    /\ current' = Order[turn]
    /\ UNCHANGED <<credit, want_exit, kernel, turn, closing, started, done, rpcVars, eeVars, sif>>

Skip ==
    /\ InPass /\ (~started[Order[turn]] \/ done[Order[turn]])
    /\ turn' = turn + 1
    /\ UNCHANGED <<credit, want_exit, kernel, current, closing, started, done, rpcVars, eeVars, sif>>

EndPass ==
    /\ kernel = "pass" /\ current = NoThread /\ turn > Len(Order) /\ ~closing
    /\ kernel' = "head"
    /\ UNCHANGED <<credit, want_exit, turn, current, closing, started, done, rpcVars, eeVars, sif>>

\* The loop is left; shutdown marks every command and every thread, then
\* dispatches until all threads have returned, and joins them.
BeginShutdown ==
    /\ kernel = "head" /\ want_exit
    /\ closing' = TRUE /\ kernel' = "pass" /\ turn' = 1
    /\ UNCHANGED <<credit, want_exit, current, started, done, rpcVars, eeVars, sif>>

EndShutdownPass ==
    /\ kernel = "pass" /\ current = NoThread /\ turn > Len(Order) /\ closing
    /\ IF \A t \in Threads : done[t]
       THEN kernel' = "stopped" /\ UNCHANGED turn
       ELSE turn' = 1 /\ UNCHANGED kernel
    /\ UNCHANGED <<credit, want_exit, current, closing, started, done, rpcVars, eeVars, sif>>

\* SuspendThread: back to the kernel, which goes on to the next thread.
Suspend == current' = NoThread /\ turn' = turn + 1

-----------------------------------------------------------------------------
(* rpc_loop.                                                               *)

\* Mutant: a command is looked at without being marked as started.
TakeKeepsCommand(ch) ==
    /\ current = ch /\ at[ch] = "loop" /\ ~closing
    /\ IF cmdStarted[ch]
       THEN Suspend /\ UNCHANGED at
       ELSE at' = [at EXCEPT ![ch] = "handler"] /\ UNCHANGED <<current, turn>>
    /\ UNCHANGED <<credit, want_exit, kernel, closing, started, done, buff, io, recv, eeVars, sif>>

\* Copy the command and mark it as started; suspend if it was already.
Take(ch) ==
    /\ current = ch /\ at[ch] = "loop" /\ ~closing
    /\ cmdStarted' = [cmdStarted EXCEPT ![ch] = TRUE]
    /\ IF cmdStarted[ch]
       THEN Suspend /\ UNCHANGED at
       ELSE at' = [at EXCEPT ![ch] = "handler"] /\ UNCHANGED <<current, turn>>
    /\ UNCHANGED <<credit, want_exit, kernel, closing, started, done, buff, io, recv, eeVars, cmdFinished>>

\* shutdown_now: the thread returns (a command just copied is dropped).
TakeShutdown(ch) ==
    /\ current = ch /\ at[ch] = "loop" /\ closing
    /\ cmdStarted' = [cmdStarted EXCEPT ![ch] = TRUE]
    /\ done' = [done EXCEPT ![ch] = TRUE]
    /\ Suspend
    /\ UNCHANGED <<credit, want_exit, kernel, closing, started, rpcVars, eeVars, cmdFinished>>

\* The handler answers at once, in place: always, or by an early return
\* (an unknown file, a cancelled load) before it asks the ISO thread.
HandleNow(ch) ==
    /\ current = ch /\ at[ch] = "handler" /\ io[ch] = "none"
    /\ buff' = [buff EXCEPT ![ch] = Answer(@)]
    /\ at' = [at EXCEPT ![ch] = "copy"]
    /\ UNCHANGED <<credit, want_exit, iopVars, io, recv, eeVars, sif>>

\* It asks the ISO thread, and waits: asleep (not dispatched again until
\* woken), or polling its mailbox.
HandleAsk(ch) ==
    /\ current = ch /\ at[ch] = "handler" /\ HandlerOf[ch] # "now" /\ io[ch] = "none"
    /\ io' = [io EXCEPT ![ch] = "asked"]
    /\ started' = [started EXCEPT ![ch] = IF HandlerOf[ch] = "sleep" THEN FALSE ELSE @]
    /\ Suspend
    /\ UNCHANGED <<credit, want_exit, kernel, closing, done, at, buff, recv, eeVars, sif>>

\* Mutant: PollMbx keeps a thread waiting that is asked to exit.
HandlePollForever(ch) ==
    /\ current = ch /\ at[ch] = "handler" /\ HandlerOf[ch] = "poll" /\ io[ch] = "asked"
    /\ Suspend
    /\ UNCHANGED <<credit, want_exit, kernel, closing, started, done, rpcVars, eeVars, sif>>

\* PollMbx found nothing and the thread is not asked to exit: DelayThread.
HandlePoll(ch) ==
    /\ current = ch /\ at[ch] = "handler" /\ HandlerOf[ch] = "poll" /\ io[ch] = "asked" /\ ~closing
    /\ Suspend
    /\ UNCHANGED <<credit, want_exit, kernel, closing, started, done, rpcVars, eeVars, sif>>

\* What the handler makes of its buffer: the answer, if there is one; a
\* thread that was woken without one goes on all the same.
Outcome(ch) ==
    IF io[ch] = "answered" THEN Answer(buff[ch])
    ELSE IF closing THEN Aborted(buff[ch]) ELSE Early

\* SleepThread returned; or PollMbx found the message, or lets a thread
\* that is asked to exit through without one.
HandleDone(ch) ==
    /\ current = ch /\ at[ch] = "handler" /\ io[ch] # "none"
    /\ HandlerOf[ch] = "poll" => io[ch] = "answered" \/ closing
    /\ buff' = [buff EXCEPT ![ch] = Outcome(ch)]
    /\ io' = [io EXCEPT ![ch] = "none"]
    /\ at' = [at EXCEPT ![ch] = "copy"]
    /\ UNCHANGED <<credit, want_exit, iopVars, recv, eeVars, sif>>

CopyBack(ch) ==
    /\ current = ch /\ at[ch] = "copy"
    /\ recv' = IF request[ch] \in Silent THEN recv ELSE [recv EXCEPT ![ch] = buff[ch]]
    /\ at' = [at EXCEPT ![ch] = "finish"]
    /\ UNCHANGED <<credit, want_exit, iopVars, buff, io, eeVars, sif>>

Finish(ch) ==
    /\ current = ch /\ at[ch] = "finish"
    /\ cmdFinished' = [cmdFinished EXCEPT ![ch] = TRUE]
    /\ at' = [at EXCEPT ![ch] = "loop"]
    /\ Suspend
    /\ UNCHANGED <<credit, want_exit, kernel, closing, started, done, buff, io, recv, eeVars, cmdStarted>>

RpcThread(ch) ==
    \/ Take(ch) \/ TakeShutdown(ch)
    \/ HandleNow(ch) \/ HandleAsk(ch) \/ HandlePoll(ch) \/ HandleDone(ch)
    \/ CopyBack(ch) \/ Finish(ch)

-----------------------------------------------------------------------------
(* The ISO thread, seen from the RPC threads: IsoThread is its model.      *)

\* A pass of its loop that answers nobody, or that answers ch (SendMbx, or
\* WakeupThread for a thread that sleeps).
IsoIdle ==
    /\ current = Iso /\ ~closing
    /\ Suspend
    /\ UNCHANGED <<credit, want_exit, kernel, closing, started, done, rpcVars, eeVars, sif>>

IsoAnswer(ch) ==
    /\ current = Iso /\ ~closing /\ io[ch] = "asked"
    /\ io' = [io EXCEPT ![ch] = "answered"]
    /\ started' = [started EXCEPT ![ch] = TRUE]
    /\ Suspend
    /\ UNCHANGED <<credit, want_exit, kernel, closing, done, at, buff, recv, eeVars, sif>>

\* PollMbx makes it leave its loop.
IsoExit ==
    /\ current = Iso /\ closing
    /\ done' = [done EXCEPT ![Iso] = TRUE]
    /\ Suspend
    /\ UNCHANGED <<credit, want_exit, kernel, closing, started, rpcVars, eeVars, sif>>

-----------------------------------------------------------------------------
(* The EE.                                                                 *)

\* signal_run_iop.
Signalled == IF credit + SIGNAL_ITERS > MAX_ITERS THEN MAX_ITERS ELSE credit + SIGNAL_ITERS

\* Mutant: polling does not let the IOP run.
CheckStatSilently(ch, sync) ==
    /\ \/ ee = "run"
       \/ ee = "again" /\ polled = ch /\ syncing = sync
    /\ ee' = "busy?" /\ polled' = ch /\ syncing' = sync
    /\ UNCHANGED <<credit, want_exit, iopVars, rpcVars, sif, request, seen>>

\* sceSifCheckStatRpc: signal_run_iop, then sif_busy.  RpcBusy asks once,
\* RpcSync until the channel is idle.
CheckStat(ch, sync) ==
    /\ \/ ee = "run"
       \/ ee = "again" /\ polled = ch /\ syncing = sync
    /\ credit' = Signalled
    /\ ee' = "busy?" /\ polled' = ch /\ syncing' = sync
    /\ UNCHANGED <<want_exit, iopVars, rpcVars, sif, request, seen>>

SifBusy ==
    /\ ee = "busy?"
    /\ \/ /\ cmdFinished[polled]
          /\ seen' = seen \cup {polled}
          /\ ee' = "run"
       \/ /\ ~cmdFinished[polled]
          /\ ee' = IF syncing THEN "again" ELSE "run"
          /\ UNCHANGED seen
    /\ UNCHANGED <<credit, want_exit, iopVars, rpcVars, sif, poll, request>>

\* sif_rpc, by a caller that has seen its channel idle (GetNextDGO before
\* ContinueLoadingDGO, RpcSync before BeginLoadingDGO, the busy check of an
\* rpc-buffer-pair): it asserts that the record can take a command.
SifRpc(ch, r) ==
    /\ ee = "run" /\ ch \in seen
    /\ seen' = seen \ {ch}
    /\ IF cmdFinished[ch] /\ cmdStarted[ch]
       THEN /\ buff' = [buff EXCEPT ![ch] = r]
            /\ request' = [request EXCEPT ![ch] = r]
            /\ cmdStarted' = [cmdStarted EXCEPT ![ch] = FALSE]
            /\ cmdFinished' = [cmdFinished EXCEPT ![ch] = FALSE]
            /\ ee' = "signal"
       ELSE /\ ee' = "assert"
            /\ UNCHANGED <<buff, request, sif>>
    /\ UNCHANGED <<credit, want_exit, iopVars, poll, at, io, recv>>

\* sceSifCallRpc, after sif_rpc.
SignalAfterCall ==
    /\ ee = "signal"
    /\ credit' = Signalled
    /\ ee' = "run"
    /\ UNCHANGED <<want_exit, iopVars, rpcVars, sif, poll, request, seen>>

\* LIBRARY_kill after goal_main: want_exit, then a signal.
KillIop ==
    /\ MayStop /\ ee = "run"
    /\ want_exit' = TRUE
    /\ ee' = "kill"
    /\ UNCHANGED <<credit, iopVars, rpcVars, sif, poll, request, seen>>

SignalAfterKill ==
    /\ ee = "kill"
    /\ credit' = Signalled
    /\ ee' = "gone"
    /\ UNCHANGED <<want_exit, iopVars, rpcVars, sif, poll, request, seen>>

-----------------------------------------------------------------------------
KernelStep ==
    LoopHead \/ WaitRunIop \/ Dispatch \/ Skip \/ EndPass \/ BeginShutdown \/ EndShutdownPass

IopStep ==
    \/ KernelStep
    \/ \E ch \in Channels : RpcThread(ch) \/ IsoAnswer(ch)
    \/ IsoIdle \/ IsoExit

EEStep ==
    \/ \E ch \in Channels :
          \/ \E sync \in BOOLEAN : CheckStat(ch, sync)
          \/ \E r \in Requests : SifRpc(ch, r)
    \/ SifBusy \/ SignalAfterCall \/ KillIop \/ SignalAfterKill

Next == IopStep \/ EEStep

Spec == Init /\ [][Next]_vars

\* Both system threads keep running; the EE finishes a library call that it
\* has begun (and polls again while it waits); the ISO thread, dispatched
\* again and again, answers what it was asked (RequestsAnswered of IsoThread).
EEMustStep ==
    \/ \E ch \in Channels : ee = "again" /\ CheckStat(ch, TRUE)
    \/ SifBusy \/ SignalAfterCall \/ SignalAfterKill

FairSpec ==
    /\ Spec
    /\ WF_vars(IopStep) /\ WF_vars(EEMustStep)
    /\ \A ch \in Channels : SF_vars(IsoAnswer(ch))

-----------------------------------------------------------------------------
(* Properties.                                                             *)

Buffers == {Nothing, Early} \cup Requests \cup {Answer(r) : r \in Requests}
           \cup {Aborted(r) : r \in Requests}

\* Every variable has its type: signal_run_iop keeps the granted iterations
\* within its cap.
TypeOK ==
    /\ credit \in 0 .. MAX_ITERS
    /\ want_exit \in BOOLEAN /\ closing \in BOOLEAN
    /\ kernel \in {"head", "wait", "pass", "stopped"}
    /\ turn \in 1 .. Len(Order) + 1
    /\ current \in Threads \cup {NoThread}
    /\ started \in [Threads -> BOOLEAN] /\ done \in [Threads -> BOOLEAN]
    /\ at \in [Channels -> {"loop", "handler", "copy", "finish"}]
    /\ cmdStarted \in [Channels -> BOOLEAN] /\ cmdFinished \in [Channels -> BOOLEAN]
    /\ buff \in [Channels -> Buffers] /\ recv \in [Channels -> Buffers]
    /\ io \in [Channels -> {"none", "asked", "answered"}]
    /\ ee \in {"run", "busy?", "again", "signal", "kill", "gone", "assert"}
    /\ polled \in Channels \cup {NoThread} /\ syncing \in BOOLEAN
    /\ request \in [Channels -> Requests]
    /\ seen \subseteq Channels

\* The assertions of sif_rpc ("check entry is safe to give command to") and
\* of rpc_loop (the command that it finishes is the one it started) hold,
\* whatever the two processors' relative speed.
SifAssertions ==
    /\ ee # "assert"
    /\ \A ch \in Channels : at[ch] = "finish" => cmdStarted[ch]

\* The two processors agree on every record they share.
SifSound == TypeOK /\ SifAssertions

\* What RpcChannel calls the phase of a channel.
phase == [ch \in Channels |->
            IF cmdFinished[ch] THEN "idle"
            ELSE IF at[ch] = "finish" THEN "answered" ELSE "called"]

Chan == INSTANCE RpcChannel WITH stopping <- want_exit

\* The SIF implements RpcChannel: every call is answered exactly once, the
\* answer is there before the channel stops being busy, and an idle channel
\* stays idle until it is called.
ImplementsRpcChannel == Chan!ChanSpec

\* RpcSync returns, although the IOP only runs on the iterations it is
\* granted and the handler may need more of them than one call grants.
SyncReturns == ee \in {"busy?", "again"} ~> ee = "run"

\* IOP_Kernel::shutdown returns, whatever its threads were doing (idle, in a
\* handler, waiting in WaitMbx), unless one sleeps for the ISO thread: that one
\* is dispatched only once woken, and the ISO thread, which would wake it, goes.
ShutdownCompletes ==
    closing ~> kernel = "stopped" \/ \E ch \in Channels : ~started[ch] /\ io[ch] = "asked"
=============================================================================
