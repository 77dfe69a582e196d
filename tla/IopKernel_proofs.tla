--------------------------- MODULE IopKernel_proofs ---------------------------
(***************************************************************************)
(* The IOP kernel's remote procedure calls, for any number of channels,    *)
(* any kinds of handler and any budget of iterations: the assertions of    *)
(* sif_rpc and rpc_loop never fail, and the SIF implements RpcChannel.     *)
(***************************************************************************)
EXTENDS IopKernel, TLAPS

\* The EE stops the IOP for good, and only then does the kernel close down.
Stopping ==
    /\ want_exit => ee \in {"kill", "gone"}
    /\ closing => want_exit
    /\ \A ch \in Channels : done[ch] => closing
    /\ ee \in {"busy?", "again"} => polled \in Channels
    /\ ee # "assert"
    /\ current # NoThread => turn \in 1 .. Len(Order)

\* A command is pending (neither flag), taken (started) or finished (both);
\* the flags agree with where the thread is.
Flags(ch) ==
    /\ at[ch] = "loop" => /\ cmdFinished[ch] => cmdStarted[ch]
                          /\ cmdStarted[ch] /\ ~done[ch] => cmdFinished[ch]
    /\ at[ch] # "loop" => cmdStarted[ch] /\ ~cmdFinished[ch]
    /\ ch \in seen => cmdFinished[ch]

\* The buffer holds the request until the handler has run, once.
Buffered(ch) ==
    /\ at[ch] = "loop" /\ ~cmdFinished[ch] => buff[ch] = request[ch]
    /\ at[ch] = "handler" => buff[ch] = request[ch]
    /\ at[ch] = "copy" => \/ buff[ch] = Answer(request[ch])
                          \/ want_exit /\ buff[ch] = Aborted(request[ch])

\* A thread that runs is not asleep, and one that sleeps waits for an answer.
Asleep(ch) ==
    /\ current = ch => started[ch]
    /\ io[ch] # "none" => at[ch] = "handler" /\ HandlerOf[ch] # "now"
    /\ io[ch] = "asked" /\ HandlerOf[ch] = "sleep" => ~started[ch]

RpcInv ==
    /\ TypeOK /\ Stopping
    /\ \A ch \in Channels : Flags(ch) /\ Buffered(ch) /\ Asleep(ch)

-------------------------------------------------------------------------------
\* The list of threads is finite.
LEMMA OrderLen == Len(Order) \in Nat
BY IopAssumption

\* The kernel starts with every record finished and nothing started.
LEMMA InitInv == Init => RpcInv
<1> SUFFICES ASSUME Init PROVE RpcInv OBVIOUS
<1>1. TypeOK
  <2>1. /\ credit \in 0 .. MAX_ITERS
        /\ turn \in 1 .. Len(Order) + 1
    BY IopAssumption, OrderLen DEF Init
  <2>2. buff \in [Channels -> Buffers] /\ recv \in [Channels -> Buffers]
    BY DEF Init, Buffers
  <2> QED BY <2>1, <2>2 DEF Init, TypeOK, Threads
<1>2. Stopping BY DEF Init, Stopping, Threads
<1>3. \A ch \in Channels : Flags(ch) BY DEF Init, Flags
<1>4. \A ch \in Channels : Buffered(ch) BY DEF Init, Buffered
<1>5. \A ch \in Channels : Asleep(ch) BY IopAssumption DEF Init, Asleep, Threads
<1> QED BY <1>1, <1>2, <1>3, <1>4, <1>5 DEF RpcInv

\* The loop head, the wait for credit and the end of a pass touch no channel.
LEMMA KernelInv ==
    ASSUME RpcInv, LoopHead \/ WaitRunIop \/ Skip \/ EndPass \/ EndShutdownPass
    PROVE  RpcInv'
<1> USE IopAssumption DEF iopVars, rpcVars, eeVars, sif, poll
<1>1. TypeOK'
  BY DEF RpcInv, TypeOK, LoopHead, WaitRunIop, Skip, InPass, EndPass, EndShutdownPass, Threads
<1>2. Stopping'
  BY DEF RpcInv, Stopping, TypeOK, LoopHead, WaitRunIop, Skip, InPass, EndPass,
     EndShutdownPass, Threads
<1>3. (\A c \in Channels : Flags(c))'
  BY DEF RpcInv, Flags, LoopHead, WaitRunIop, Skip, InPass, EndPass, EndShutdownPass
<1>4. (\A c \in Channels : Buffered(c))'
  BY DEF RpcInv, Buffered, Stopping, LoopHead, WaitRunIop, Skip, InPass, EndPass,
     EndShutdownPass
<1>5. (\A c \in Channels : Asleep(c))'
  BY DEF RpcInv, Asleep, LoopHead, WaitRunIop, Skip, InPass, EndPass, EndShutdownPass, Threads
<1> QED BY <1>1, <1>2, <1>3, <1>4, <1>5 DEF RpcInv

\* Only a started thread is dispatched.
LEMMA DispatchInv ==
    ASSUME RpcInv, Dispatch
    PROVE  RpcInv'
<1> USE IopAssumption DEF iopVars, rpcVars, eeVars, sif, poll
<1>1. TypeOK'
  BY DEF RpcInv, TypeOK, Dispatch, InPass, Threads
<1>2. Stopping'
  BY DEF RpcInv, Stopping, TypeOK, Dispatch, InPass, Threads
<1>3. (\A c \in Channels : Flags(c))'
  BY DEF RpcInv, Flags, Dispatch, InPass
<1>4. (\A c \in Channels : Buffered(c))'
  BY DEF RpcInv, Buffered, Stopping, Dispatch, InPass
<1>5. (\A c \in Channels : Asleep(c))'
  BY DEF RpcInv, Asleep, Dispatch, InPass, Threads
<1> QED BY <1>1, <1>2, <1>3, <1>4, <1>5 DEF RpcInv

\* Shutdown follows want_exit.
LEMMA BeginShutdownInv ==
    ASSUME RpcInv, BeginShutdown
    PROVE  RpcInv'
<1> USE IopAssumption DEF iopVars, rpcVars, eeVars, sif, poll
<1>1. TypeOK'
  BY DEF RpcInv, TypeOK, BeginShutdown, Threads
<1>2. Stopping'
  BY DEF RpcInv, Stopping, TypeOK, BeginShutdown, Threads
<1>3. (\A c \in Channels : Flags(c))'
  BY DEF RpcInv, Flags, BeginShutdown
<1>4. (\A c \in Channels : Buffered(c))'
  BY DEF RpcInv, Buffered, Stopping, BeginShutdown
<1>5. (\A c \in Channels : Asleep(c))'
  BY DEF RpcInv, Asleep, BeginShutdown, Threads
<1> QED BY <1>1, <1>2, <1>3, <1>4, <1>5 DEF RpcInv

\* A command is taken once: started is set under the same lock.
LEMMA TakeInv ==
    ASSUME RpcInv, NEW ch \in Channels, Take(ch)
    PROVE  RpcInv'
<1> USE IopAssumption DEF iopVars, rpcVars, eeVars, sif, poll
<1>1. TypeOK'
  <2>1. turn' \in 1 .. Len(Order) + 1 /\ current' \in Threads \cup {NoThread}
    BY OrderLen DEF RpcInv, TypeOK, Stopping, Take, Suspend, Threads
  <2> QED BY <2>1 DEF RpcInv, TypeOK, Take, Suspend
<1>2. Stopping'
  BY DEF RpcInv, Stopping, TypeOK, Take, Suspend, Threads
<1>3. (\A c \in Channels : Flags(c))'
  BY DEF RpcInv, Flags, Stopping, TypeOK, Take, Suspend, Threads
<1>4. (\A c \in Channels : Buffered(c))'
  BY DEF RpcInv, Buffered, Flags, TypeOK, Take, Suspend, Threads, Asleep, Stopping
<1>5. (\A c \in Channels : Asleep(c))'
  BY DEF RpcInv, Asleep, Flags, TypeOK, Take, Suspend, Threads, Stopping
<1> QED BY <1>1, <1>2, <1>3, <1>4, <1>5 DEF RpcInv

\* A thread that returns is at the top of its loop.
LEMMA TakeShutdownInv ==
    ASSUME RpcInv, NEW ch \in Channels, TakeShutdown(ch)
    PROVE  RpcInv'
<1> USE IopAssumption DEF iopVars, rpcVars, eeVars, sif, poll
<1>1. TypeOK'
  <2>1. turn' \in 1 .. Len(Order) + 1 /\ current' \in Threads \cup {NoThread}
    BY OrderLen DEF RpcInv, TypeOK, Stopping, TakeShutdown, Suspend, Threads
  <2>2. done' \in [Threads -> BOOLEAN]
    BY DEF RpcInv, TypeOK, TakeShutdown, Threads
  <2> QED BY <2>1, <2>2 DEF RpcInv, TypeOK, TakeShutdown, Suspend
<1>2. Stopping'
  BY DEF RpcInv, Stopping, TypeOK, TakeShutdown, Suspend, Threads
<1>3. (\A c \in Channels : Flags(c))'
  BY DEF RpcInv, Flags, Stopping, TypeOK, TakeShutdown, Suspend, Threads
<1>4. (\A c \in Channels : Buffered(c))'
  BY DEF RpcInv, Buffered, Flags, TypeOK, TakeShutdown, Suspend, Threads, Asleep, Stopping
<1>5. (\A c \in Channels : Asleep(c))'
  BY DEF RpcInv, Asleep, Flags, TypeOK, TakeShutdown, Suspend, Threads, Stopping
<1> QED BY <1>1, <1>2, <1>3, <1>4, <1>5 DEF RpcInv

\* The handler runs on the request, in place.
LEMMA HandleNowInv ==
    ASSUME RpcInv, NEW ch \in Channels, HandleNow(ch)
    PROVE  RpcInv'
<1> USE IopAssumption DEF iopVars, rpcVars, eeVars, sif, poll
<1>1. TypeOK'
  <2>1. buff[ch] = request[ch]
    BY DEF RpcInv, Buffered, HandleNow
  <2>2. buff' \in [Channels -> Buffers]
    BY <2>1 DEF RpcInv, TypeOK, HandleNow, Buffers
  <2> QED BY <2>1, <2>2 DEF RpcInv, TypeOK, HandleNow, Suspend
<1>2. Stopping'
  BY DEF RpcInv, Stopping, TypeOK, HandleNow, Threads
<1>3. (\A c \in Channels : Flags(c))'
  BY DEF RpcInv, Flags, Stopping, TypeOK, HandleNow, Threads
<1>4. (\A c \in Channels : Buffered(c))'
  BY DEF RpcInv, Buffered, Flags, TypeOK, HandleNow, Threads, Asleep, Stopping
<1>5. (\A c \in Channels : Asleep(c))'
  BY DEF RpcInv, Asleep, Flags, TypeOK, HandleNow, Threads, Stopping
<1> QED BY <1>1, <1>2, <1>3, <1>4, <1>5 DEF RpcInv

\* A thread that goes to sleep has asked and is not answered.
LEMMA HandleAskInv ==
    ASSUME RpcInv, NEW ch \in Channels, HandleAsk(ch)
    PROVE  RpcInv'
<1> USE IopAssumption DEF iopVars, rpcVars, eeVars, sif, poll
<1>1. TypeOK'
  <2>1. turn' \in 1 .. Len(Order) + 1 /\ current' \in Threads \cup {NoThread}
    BY OrderLen DEF RpcInv, TypeOK, Stopping, HandleAsk, Suspend, Threads
  <2>2. started' \in [Threads -> BOOLEAN]
    BY DEF RpcInv, TypeOK, HandleAsk, Threads
  <2> QED BY <2>1, <2>2 DEF RpcInv, TypeOK, HandleAsk, Suspend
<1>2. Stopping'
  BY DEF RpcInv, Stopping, TypeOK, HandleAsk, Suspend, Threads
<1>3. (\A c \in Channels : Flags(c))'
  BY DEF RpcInv, Flags, Stopping, TypeOK, HandleAsk, Suspend, Threads
<1>4. (\A c \in Channels : Buffered(c))'
  BY DEF RpcInv, Buffered, Flags, TypeOK, HandleAsk, Suspend, Threads, Asleep, Stopping
<1>5. (\A c \in Channels : Asleep(c))'
  BY DEF RpcInv, Asleep, Flags, TypeOK, HandleAsk, Suspend, Threads, Stopping
<1> QED BY <1>1, <1>2, <1>3, <1>4, <1>5 DEF RpcInv

\* A handler goes on with its answer, or while the IOP is stopping.
LEMMA HandleDoneInv ==
    ASSUME RpcInv, NEW ch \in Channels, HandleDone(ch)
    PROVE  RpcInv'
<1> USE IopAssumption DEF iopVars, rpcVars, eeVars, sif, poll
<1>0. \/ Outcome(ch) = Answer(request[ch])
      \/ want_exit /\ Outcome(ch) = Aborted(request[ch])
  <2>1. buff[ch] = request[ch] /\ started[ch]
    BY DEF RpcInv, Buffered, Asleep, HandleDone
  <2>2. \/ Outcome(ch) = Answer(request[ch])
        \/ want_exit /\ Outcome(ch) = Aborted(request[ch])
    <3>0. io[ch] \in {"asked", "answered"} BY DEF RpcInv, HandleDone, TypeOK
    <3>1. HandlerOf[ch] \in {"poll", "sleep"} BY <3>0 DEF RpcInv, Asleep
    <3>2. CASE io[ch] = "answered" BY <2>1, <3>2 DEF Outcome
    <3>3. CASE io[ch] = "asked"
      <4>1. HandlerOf[ch] = "poll" BY <2>1, <3>1, <3>3 DEF RpcInv, Asleep
      <4>2. closing /\ want_exit BY <4>1, <3>3 DEF RpcInv, HandleDone, Stopping
      <4> QED BY <2>1, <3>3, <4>2 DEF Outcome
    <3> QED BY <3>0, <3>2, <3>3
  <2> QED BY <2>2
<1>1. TypeOK'
  <2>1. Outcome(ch) \in Buffers
    BY <1>0 DEF RpcInv, TypeOK, Buffers
  <2>2. buff' \in [Channels -> Buffers]
    BY <2>1 DEF RpcInv, TypeOK, HandleDone
  <2> QED BY <2>1, <2>2 DEF RpcInv, TypeOK, HandleDone, Suspend
<1>2. Stopping'
  BY DEF RpcInv, Stopping, TypeOK, HandleDone, Outcome, Threads
<1>3. (\A c \in Channels : Flags(c))'
  BY DEF RpcInv, Flags, Stopping, TypeOK, HandleDone, Outcome, Threads
<1>4. (\A c \in Channels : Buffered(c))'
  <2>1. at' = [at EXCEPT ![ch] = "copy"] /\ buff' = [buff EXCEPT ![ch] = Outcome(ch)]
    BY DEF HandleDone
  <2> QED BY <1>0, <2>1 DEF RpcInv, Buffered, TypeOK, HandleDone
<1>5. (\A c \in Channels : Asleep(c))'
  BY DEF RpcInv, Asleep, Flags, TypeOK, HandleDone, Outcome, Threads, Stopping
<1> QED BY <1>1, <1>2, <1>3, <1>4, <1>5 DEF RpcInv

\* The reply is copied before the command is finished.
LEMMA CopyBackInv ==
    ASSUME RpcInv, NEW ch \in Channels, CopyBack(ch)
    PROVE  RpcInv'
<1> USE IopAssumption DEF iopVars, rpcVars, eeVars, sif, poll
<1>1. TypeOK'
  BY DEF RpcInv, TypeOK, CopyBack, Threads, Buffers, Buffered, Asleep
<1>2. Stopping'
  BY DEF RpcInv, Stopping, TypeOK, CopyBack, Threads
<1>3. (\A c \in Channels : Flags(c))'
  BY DEF RpcInv, Flags, Stopping, TypeOK, CopyBack, Threads
<1>4. (\A c \in Channels : Buffered(c))'
  BY DEF RpcInv, Buffered, Flags, TypeOK, CopyBack, Threads, Asleep, Stopping
<1>5. (\A c \in Channels : Asleep(c))'
  BY DEF RpcInv, Asleep, Flags, TypeOK, CopyBack, Threads, Stopping
<1> QED BY <1>1, <1>2, <1>3, <1>4, <1>5 DEF RpcInv

\* The command that is finished was started.
LEMMA FinishInv ==
    ASSUME RpcInv, NEW ch \in Channels, Finish(ch)
    PROVE  RpcInv'
<1> USE IopAssumption DEF iopVars, rpcVars, eeVars, sif, poll
<1>1. TypeOK'
  <2>1. turn' \in 1 .. Len(Order) + 1 /\ current' \in Threads \cup {NoThread}
    BY OrderLen DEF RpcInv, TypeOK, Stopping, Finish, Suspend, Threads
  <2> QED BY <2>1 DEF RpcInv, TypeOK, Finish, Suspend
<1>2. Stopping'
  BY DEF RpcInv, Stopping, TypeOK, Finish, Suspend, Threads
<1>3. (\A c \in Channels : Flags(c))'
  BY DEF RpcInv, Flags, Stopping, TypeOK, Finish, Suspend, Threads
<1>4. (\A c \in Channels : Buffered(c))'
  BY DEF RpcInv, Buffered, Flags, TypeOK, Finish, Suspend, Threads, Asleep, Stopping
<1>5. (\A c \in Channels : Asleep(c))'
  BY DEF RpcInv, Asleep, Flags, TypeOK, Finish, Suspend, Threads, Stopping
<1> QED BY <1>1, <1>2, <1>3, <1>4, <1>5 DEF RpcInv

\* Whoever is woken has its answer.
LEMMA IsoAnswerInv ==
    ASSUME RpcInv, NEW ch \in Channels, IsoAnswer(ch)
    PROVE  RpcInv'
<1> USE IopAssumption DEF iopVars, rpcVars, eeVars, sif, poll
<1>1. TypeOK'
  <2>1. turn' \in 1 .. Len(Order) + 1 /\ current' \in Threads \cup {NoThread}
    BY OrderLen DEF RpcInv, TypeOK, Stopping, IsoAnswer, Suspend, Threads
  <2>2. started' \in [Threads -> BOOLEAN]
    BY DEF RpcInv, TypeOK, IsoAnswer, Threads
  <2> QED BY <2>1, <2>2 DEF RpcInv, TypeOK, IsoAnswer, Suspend
<1>2. Stopping'
  BY DEF RpcInv, Stopping, TypeOK, IsoAnswer, Suspend, Threads
<1>3. (\A c \in Channels : Flags(c))'
  BY DEF RpcInv, Flags, Stopping, TypeOK, IsoAnswer, Suspend, Threads
<1>4. (\A c \in Channels : Buffered(c))'
  BY DEF RpcInv, Buffered, Flags, TypeOK, IsoAnswer, Suspend, Threads, Asleep, Stopping
<1>5. (\A c \in Channels : Asleep(c))'
  BY DEF RpcInv, Asleep, Flags, TypeOK, IsoAnswer, Suspend, Threads, Stopping
<1> QED BY <1>1, <1>2, <1>3, <1>4, <1>5 DEF RpcInv

\* These only give the processor back.
LEMMA YieldInv ==
    ASSUME RpcInv, IsoIdle \/ \E ch \in Channels : HandlePoll(ch)
    PROVE  RpcInv'
<1> USE IopAssumption DEF iopVars, rpcVars, eeVars, sif, poll
<1>1. TypeOK'
  BY DEF RpcInv, TypeOK, IsoIdle, HandlePoll, Suspend, Threads, Stopping
<1>2. Stopping'
  BY DEF RpcInv, Stopping, TypeOK, IsoIdle, HandlePoll, Suspend, Threads
<1>3. (\A c \in Channels : Flags(c))'
  BY DEF RpcInv, Flags, IsoIdle, HandlePoll, Suspend
<1>4. (\A c \in Channels : Buffered(c))'
  BY DEF RpcInv, Buffered, Stopping, IsoIdle, HandlePoll, Suspend
<1>5. (\A c \in Channels : Asleep(c))'
  BY DEF RpcInv, Asleep, IsoIdle, HandlePoll, Suspend, Threads
<1> QED BY <1>1, <1>2, <1>3, <1>4, <1>5 DEF RpcInv

\* The ISO thread returns.
LEMMA IsoExitInv ==
    ASSUME RpcInv, IsoExit
    PROVE  RpcInv'
<1> USE IopAssumption DEF iopVars, rpcVars, eeVars, sif, poll
<1>1. TypeOK'
  <2>1. turn' \in 1 .. Len(Order) + 1 /\ current' \in Threads \cup {NoThread}
    BY OrderLen DEF RpcInv, TypeOK, Stopping, IsoExit, Suspend, Threads
  <2>2. done' \in [Threads -> BOOLEAN]
    BY DEF RpcInv, TypeOK, IsoExit, Threads
  <2> QED BY <2>1, <2>2 DEF RpcInv, TypeOK, IsoExit, Suspend
<1>2. Stopping'
  BY DEF RpcInv, Stopping, TypeOK, IsoExit, Suspend, Threads
<1>3. (\A c \in Channels : Flags(c))'
  BY DEF RpcInv, Flags, Stopping, TypeOK, IsoExit, Suspend, Threads
<1>4. (\A c \in Channels : Buffered(c))'
  BY DEF RpcInv, Buffered, Flags, TypeOK, IsoExit, Suspend, Threads, Asleep, Stopping
<1>5. (\A c \in Channels : Asleep(c))'
  BY DEF RpcInv, Asleep, Flags, TypeOK, IsoExit, Suspend, Threads, Stopping
<1> QED BY <1>1, <1>2, <1>3, <1>4, <1>5 DEF RpcInv

\* A poll grants iterations, up to the cap.
LEMMA CheckStatInv ==
    ASSUME RpcInv, NEW ch \in Channels, NEW sync \in BOOLEAN, CheckStat(ch, sync)
    PROVE  RpcInv'
<1> USE IopAssumption DEF iopVars, rpcVars, eeVars, sif, poll
<1>1. TypeOK'
  BY DEF RpcInv, TypeOK, CheckStat, Signalled, Threads
<1>2. Stopping'
  BY DEF RpcInv, Stopping, TypeOK, CheckStat, Signalled, Threads
<1>3. (\A c \in Channels : Flags(c))'
  BY DEF RpcInv, Flags, CheckStat, Signalled
<1>4. (\A c \in Channels : Buffered(c))'
  BY DEF RpcInv, Buffered, Stopping, CheckStat, Signalled
<1>5. (\A c \in Channels : Asleep(c))'
  BY DEF RpcInv, Asleep, CheckStat, Signalled, Threads
<1> QED BY <1>1, <1>2, <1>3, <1>4, <1>5 DEF RpcInv

\* A channel that was seen idle can take a command.
LEMMA SifRpcInv ==
    ASSUME RpcInv, NEW ch \in Channels, NEW r \in Requests, SifRpc(ch, r)
    PROVE  RpcInv'
<1> USE IopAssumption DEF iopVars, rpcVars, eeVars, sif, poll
<1>0. cmdFinished[ch] /\ cmdStarted[ch] /\ at[ch] = "loop"
  BY DEF RpcInv, SifRpc, Flags, TypeOK
<1>a. /\ buff' = [buff EXCEPT ![ch] = r] /\ request' = [request EXCEPT ![ch] = r]
      /\ cmdStarted' = [cmdStarted EXCEPT ![ch] = FALSE]
      /\ cmdFinished' = [cmdFinished EXCEPT ![ch] = FALSE]
      /\ ee' = "signal" /\ seen' = seen \ {ch}
      /\ UNCHANGED <<credit, want_exit, iopVars, poll, at, io, recv>>
  BY <1>0 DEF SifRpc
<1>1. TypeOK'
  <2>1. buff' \in [Channels -> Buffers]
    BY <1>a DEF RpcInv, TypeOK, Buffers
  <2>2. request' \in [Channels -> Requests] /\ seen' \subseteq Channels
    BY <1>a DEF RpcInv, TypeOK
  <2> QED BY <1>a, <2>1, <2>2 DEF RpcInv, TypeOK
<1>2. Stopping'
  BY <1>a DEF RpcInv, Stopping, TypeOK, SifRpc
<1>3. (\A c \in Channels : Flags(c))'
  BY <1>0, <1>a DEF RpcInv, Flags, TypeOK
<1>4. (\A c \in Channels : Buffered(c))'
  BY <1>0, <1>a DEF RpcInv, Buffered, TypeOK
<1>5. (\A c \in Channels : Asleep(c))'
  BY <1>a DEF RpcInv, Asleep, TypeOK
<1> QED BY <1>1, <1>2, <1>3, <1>4, <1>5 DEF RpcInv

\* What is seen idle is finished.
LEMMA SifBusyInv ==
    ASSUME RpcInv, SifBusy
    PROVE  RpcInv'
<1> USE IopAssumption DEF iopVars, rpcVars, eeVars, sif, poll
<1>1. TypeOK'
  <2>1. polled \in Channels
    BY DEF RpcInv, Stopping, SifBusy
  <2> QED BY <2>1 DEF RpcInv, TypeOK, SifBusy
<1>2. Stopping'
  BY DEF RpcInv, Stopping, TypeOK, SifBusy, Threads
<1>3. (\A c \in Channels : Flags(c))'
  BY DEF RpcInv, Flags, Stopping, TypeOK, SifBusy, Threads
<1>4. (\A c \in Channels : Buffered(c))'
  BY DEF RpcInv, Buffered, Flags, TypeOK, SifBusy, Threads, Asleep, Stopping
<1>5. (\A c \in Channels : Asleep(c))'
  BY DEF RpcInv, Asleep, Flags, TypeOK, SifBusy, Threads, Stopping
<1> QED BY <1>1, <1>2, <1>3, <1>4, <1>5 DEF RpcInv

\* A signal grants iterations, up to the cap.
LEMMA SignalInv ==
    ASSUME RpcInv, SignalAfterCall \/ SignalAfterKill
    PROVE  RpcInv'
<1> USE IopAssumption DEF iopVars, rpcVars, eeVars, sif, poll
<1>1. TypeOK'
  BY DEF RpcInv, TypeOK, SignalAfterCall, SignalAfterKill, Signalled, Threads
<1>2. Stopping'
  BY DEF RpcInv, Stopping, TypeOK, SignalAfterCall, SignalAfterKill, Signalled, Threads
<1>3. (\A c \in Channels : Flags(c))'
  BY DEF RpcInv, Flags, SignalAfterCall, SignalAfterKill, Signalled
<1>4. (\A c \in Channels : Buffered(c))'
  BY DEF RpcInv, Buffered, Stopping, SignalAfterCall, SignalAfterKill, Signalled
<1>5. (\A c \in Channels : Asleep(c))'
  BY DEF RpcInv, Asleep, SignalAfterCall, SignalAfterKill, Signalled, Threads
<1> QED BY <1>1, <1>2, <1>3, <1>4, <1>5 DEF RpcInv

\* After the kill the EE calls nothing.
LEMMA KillIopInv ==
    ASSUME RpcInv, KillIop
    PROVE  RpcInv'
<1> USE IopAssumption DEF iopVars, rpcVars, eeVars, sif, poll
<1>1. TypeOK'
  BY DEF RpcInv, TypeOK, KillIop, Threads
<1>2. Stopping'
  BY DEF RpcInv, Stopping, TypeOK, KillIop, Threads
<1>3. (\A c \in Channels : Flags(c))'
  BY DEF RpcInv, Flags, Stopping, TypeOK, KillIop, Threads
<1>4. (\A c \in Channels : Buffered(c))'
  BY DEF RpcInv, Buffered, Flags, TypeOK, KillIop, Threads, Asleep, Stopping
<1>5. (\A c \in Channels : Asleep(c))'
  BY DEF RpcInv, Asleep, Flags, TypeOK, KillIop, Threads, Stopping
<1> QED BY <1>1, <1>2, <1>3, <1>4, <1>5 DEF RpcInv

\* Every step keeps the invariant.
LEMMA NextInv ==
    ASSUME RpcInv, [Next]_vars
    PROVE  RpcInv'
<1>1. ASSUME NEW ch \in Channels, RpcThread(ch) PROVE RpcInv'
  BY <1>1, TakeInv, TakeShutdownInv, HandleNowInv, HandleAskInv, YieldInv,
     HandleDoneInv, CopyBackInv, FinishInv DEF RpcThread
<1>2. ASSUME IopStep PROVE RpcInv'
  BY <1>1, <1>2, KernelInv, DispatchInv, BeginShutdownInv, IsoAnswerInv, YieldInv,
     IsoExitInv DEF IopStep, KernelStep
<1>3. ASSUME EEStep PROVE RpcInv'
  BY <1>3, CheckStatInv, SifRpcInv, SifBusyInv, SignalInv, KillIopInv DEF EEStep
<1>4. ASSUME UNCHANGED vars PROVE RpcInv'
  BY <1>4 DEF RpcInv, TypeOK, Stopping, Flags, Buffered, Asleep, vars, iopVars, rpcVars,
     eeVars, sif
<1> QED BY <1>2, <1>3, <1>4 DEF Next

\* The invariant of the SIF records holds in every behaviour.
LEMMA SpecInv == Spec => []RpcInv
<1>1. RpcInv /\ [Next]_vars => RpcInv' BY NextInv
<1> QED BY InitInv, <1>1, PTL DEF Spec

\* Every state is well typed, and the assertions of sif_rpc (the record can
\* take a command) and of rpc_loop (it finishes what it started) never fail.
THEOREM SifSafety == Spec => []SifSound
<1>1. RpcInv => SifSound
  BY DEF RpcInv, SifSound, SifAssertions, Stopping, Flags
<1> QED BY SpecInv, <1>1, PTL

-------------------------------------------------------------------------------
(* Refinement: which step of RpcChannel each action takes.                    *)

\* Initially every channel is idle, with nothing received.
LEMMA InitRefines == Init => Chan!ChanInit
BY DEF Init, Chan!ChanInit, phase, Threads

\* Every step of the SIF is a step of RpcChannel or leaves it unchanged.
LEMMA StepRefines ==
    ASSUME RpcInv, [Next]_vars
    PROVE  [Chan!ChanNext]_(Chan!chanVars)
<1> USE DEF iopVars, rpcVars, eeVars, sif, poll
\* These leave everything that RpcChannel sees as it is.
<1>1. CASE KernelStep \/ IsoIdle \/ IsoExit \/ UNCHANGED vars
  BY <1>1 DEF Chan!chanVars, phase, KernelStep, LoopHead, WaitRunIop, Dispatch, Skip, EndPass,
     BeginShutdown, EndShutdownPass, IsoIdle, IsoExit, vars
<1>2. CASE SignalAfterCall \/ SignalAfterKill
           \/ \E ch \in Channels : IsoAnswer(ch) \/ \E sync \in BOOLEAN : CheckStat(ch, sync)
  BY <1>2 DEF Chan!chanVars, phase, SignalAfterCall, SignalAfterKill, IsoAnswer, CheckStat
<1>3. ASSUME NEW ch \in Channels,
             Take(ch) \/ TakeShutdown(ch) \/ HandleNow(ch) \/ HandleAsk(ch)
                \/ HandlePoll(ch) \/ HandleDone(ch)
      PROVE  UNCHANGED Chan!chanVars
  <2>1. \A c \in Channels : (at'[c] = "finish") = (at[c] = "finish")
    BY <1>3 DEF RpcInv, TypeOK, Take, TakeShutdown, HandleNow, HandleAsk, HandlePoll,
       HandleDone
  <2>2. UNCHANGED <<cmdFinished, request, recv, seen, want_exit>>
    BY <1>3 DEF Take, TakeShutdown, HandleNow, HandleAsk, HandlePoll, HandleDone
  <2>3. phase' = phase BY <2>1, <2>2 DEF phase
  <2> QED BY <2>2, <2>3 DEF Chan!chanVars
\* The copy to the EE is the abstract reply.
<1>4. ASSUME NEW ch \in Channels, CopyBack(ch) PROVE Chan!Reply(ch)
  <2>1. ~cmdFinished[ch] /\ at[ch] = "copy"
    BY <1>4 DEF RpcInv, Flags, CopyBack
  <2>2. phase[ch] = "called" BY <2>1 DEF phase
  <2>3. phase' = [phase EXCEPT ![ch] = "answered"]
    BY <1>4, <2>1 DEF phase, CopyBack, RpcInv, TypeOK
  <2>4. \/ buff[ch] = Answer(request[ch])
        \/ want_exit /\ buff[ch] = Aborted(request[ch])
    BY <1>4, <2>1 DEF RpcInv, Buffered
  <2> QED BY <1>4, <2>2, <2>3, <2>4 DEF Chan!Reply, CopyBack
<1>5. ASSUME NEW ch \in Channels, Finish(ch) PROVE Chan!Release(ch)
  <2>1. ~cmdFinished[ch] /\ at[ch] = "finish"
    BY <1>5 DEF RpcInv, Flags, Finish
  <2>2. phase[ch] = "answered" BY <2>1 DEF phase
  <2>3. phase' = [phase EXCEPT ![ch] = "idle"]
    BY <1>5, <2>1 DEF phase, Finish, RpcInv, TypeOK
  <2> QED BY <1>5, <2>2, <2>3 DEF Chan!Release, Finish
<1>6. ASSUME NEW ch \in Channels, NEW r \in Requests, SifRpc(ch, r) PROVE Chan!Call(ch, r)
  <2>1. cmdFinished[ch] /\ cmdStarted[ch] /\ at[ch] = "loop" /\ ~want_exit
    BY <1>6 DEF RpcInv, SifRpc, Flags, TypeOK, Stopping
  <2>2. phase[ch] = "idle" BY <2>1 DEF phase
  <2>3. phase' = [phase EXCEPT ![ch] = "called"]
    BY <1>6, <2>1 DEF phase, SifRpc, RpcInv, TypeOK
  <2> QED BY <1>6, <2>1, <2>2, <2>3 DEF Chan!Call, SifRpc
<1>7. ASSUME SifBusy PROVE Chan!See(polled) \/ UNCHANGED Chan!chanVars
  <2>1. polled \in Channels /\ phase' = phase
    BY <1>7 DEF RpcInv, Stopping, SifBusy, phase
  <2>2. cmdFinished[polled] => phase[polled] = "idle" BY <2>1 DEF phase
  <2> QED BY <1>7, <2>1, <2>2 DEF Chan!See, Chan!chanVars, SifBusy
<1>8. CASE KillIop
  BY <1>8 DEF KillIop, Chan!ChanNext, Chan!Stop, phase
<1>9. SifBusy => polled \in Channels BY DEF RpcInv, Stopping, SifBusy
<1> QED
  BY <1>1, <1>2, <1>3, <1>4, <1>5, <1>6, <1>7, <1>8, <1>9
     DEF Next, IopStep, EEStep, RpcThread, Chan!ChanNext

\* The SIF implements RpcChannel: each call is answered once, by one run of
\* its handler, before the channel stops being busy, and an idle channel
\* stays idle, for any number of channels and any interleaving.
THEOREM SifImplementsRpcChannel == Spec => ImplementsRpcChannel
<1>1. RpcInv /\ [Next]_vars => [Chan!ChanNext]_(Chan!chanVars) BY StepRefines
<1> QED BY SpecInv, InitRefines, <1>1, PTL DEF Spec, ImplementsRpcChannel, Chan!ChanSpec
===============================================================================
