---------------------------- MODULE Threads_proofs ----------------------------
(***************************************************************************)
(* The threads of the host, for any number of IOP threads, any command     *)
(* lines and any number of runs: the kernel of the IOP and its threads     *)
(* never run together (IopHandshake), and a system thread uses an object   *)
(* that is not there yet, is gone, or belongs to another run in five known *)
(* windows only, in which the process crashes (Machine).                   *)
(***************************************************************************)
EXTENDS IopHandshake, Machine, TLAPS

-------------------------------------------------------------------------------
(* The handshake of the IOP kernel.                                        *)

\* A thread record as the kernel has it between two dispatches: the kernel has
\* a current thread exactly while it is not in its own code.
KernelKnows ==
    /\ kpc = "kernel" <=> currentThread = NoOne
    /\ kpc = "ready" => ~syscallReady[currentThread]

\* The permission to run is given to the current thread only, and never
\* together with the permission for the kernel to go on.
Permission(t) ==
    /\ runThreadReady[t] => /\ currentThread = t /\ kpc \in {"notify", "wait", "blocked"}
                            /\ ~syscallReady[t]
    /\ tpc[t] \in {"user", "return", "syscall"} =>
           /\ currentThread = t /\ kpc \in {"notify", "wait", "blocked"}
           /\ ~syscallReady[t]
    /\ tpc[t] = "syscall" => ~runThreadReady[t]
    /\ tpc[t] = "none" => ~syscallReady[t] /\ ~started[t]

HandshakeInv ==
    /\ HandshakeTypeOK /\ KernelKnows
    /\ \A t \in IopThreads : Permission(t)

\* Nothing has been created yet.
LEMMA HandshakeInitInv == HandshakeInit => HandshakeInv
BY HandshakeAssumption DEF HandshakeInit, HandshakeInv, HandshakeTypeOK, KernelKnows, Permission

\* The kernel, from its own code to the wait for the thread and back.
LEMMA KernelStepInv ==
    ASSUME HandshakeInv, HandshakeKernel
    PROVE  HandshakeInv'
<1> USE HandshakeAssumption DEF HandshakeInv
<1>1. CASE dispatch_clear
  <2>1. HandshakeTypeOK' BY <1>1 DEF dispatch_clear, HandshakeTypeOK
  <2>2. KernelKnows' BY <1>1 DEF dispatch_clear, HandshakeTypeOK, KernelKnows
  <2>3. \A t \in IopThreads : Permission(t)'
    BY <1>1 DEF dispatch_clear, HandshakeTypeOK, KernelKnows, Permission
  <2> QED BY <2>1, <2>2, <2>3
<1>2. CASE dispatch_ready
  <2>1. HandshakeTypeOK' BY <1>2 DEF dispatch_ready, HandshakeTypeOK
  <2>2. KernelKnows' BY <1>2 DEF dispatch_ready, HandshakeTypeOK, KernelKnows
  <2>3. \A t \in IopThreads : Permission(t)'
    BY <1>2 DEF dispatch_ready, HandshakeTypeOK, KernelKnows, Permission
  <2> QED BY <2>1, <2>2, <2>3
<1>3. CASE dispatch_notify
  <2>1. HandshakeTypeOK' BY <1>3 DEF dispatch_notify, HandshakeTypeOK
  <2>2. KernelKnows' BY <1>3 DEF dispatch_notify, HandshakeTypeOK, KernelKnows
  <2>3. \A t \in IopThreads : Permission(t)'
    BY <1>3 DEF dispatch_notify, HandshakeTypeOK, KernelKnows, Permission
  <2> QED BY <2>1, <2>2, <2>3
<1>4. CASE waitForReturnToKernel
  <2>1. HandshakeTypeOK' BY <1>4 DEF waitForReturnToKernel, HandshakeTypeOK
  <2>2. KernelKnows' BY <1>4 DEF waitForReturnToKernel, HandshakeTypeOK, KernelKnows
  <2>3. \A t \in IopThreads : Permission(t)'
    BY <1>4 DEF waitForReturnToKernel, HandshakeTypeOK, KernelKnows, Permission
  <2> QED BY <2>1, <2>2, <2>3
<1> QED BY <1>1, <1>2, <1>3, <1>4 DEF HandshakeKernel

\* The kernel takes up a thread: it creates it, starts it, or has its turn.
LEMMA DispatchInv ==
    ASSUME HandshakeInv, NEW u \in IopThreads, CreateThread(u) \/ StartThread(u) \/ dispatchAll(u)
    PROVE  HandshakeInv'
<1> USE HandshakeAssumption DEF HandshakeInv, Goto
<1>1. HandshakeTypeOK' BY DEF CreateThread, StartThread, dispatchAll, HandshakeTypeOK
<1>2. KernelKnows' BY DEF CreateThread, StartThread, dispatchAll, HandshakeTypeOK, KernelKnows
<1>3. ASSUME NEW t \in IopThreads PROVE Permission(t)'
  <2>1. Permission(t) /\ Permission(u) OBVIOUS
  <2>2. CASE CreateThread(u)
    BY <2>1, <2>2 DEF CreateThread, HandshakeTypeOK, KernelKnows, Permission
  <2>3. CASE StartThread(u)
    BY <2>1, <2>3 DEF StartThread, HandshakeTypeOK, KernelKnows, Permission
  <2>4. CASE dispatchAll(u)
    BY <2>1, <2>4 DEF dispatchAll, HandshakeTypeOK, KernelKnows, Permission
  <2> QED BY <2>2, <2>3, <2>4
<1> QED BY <1>1, <1>2, <1>3

\* A thread gives control back, flag by flag, or waits to be dispatched.
LEMMA ThreadStepInv ==
    ASSUME HandshakeInv, NEW u \in IopThreads,
           HandshakeThread(u) \/ \E v \in IopThreads : WakeupThread(u, v)
    PROVE  HandshakeInv'
<1> USE HandshakeAssumption DEF HandshakeInv, Goto
<1>1. CASE returnToKernel(u)
  BY <1>1 DEF returnToKernel, HandshakeTypeOK, KernelKnows, Permission
<1>2. CASE returnToKernel_syscall(u)
  BY <1>2 DEF returnToKernel_syscall, HandshakeTypeOK, KernelKnows, Permission
<1>3. CASE returnToKernel_notify(u)
  <2>1. HandshakeTypeOK' BY <1>3 DEF returnToKernel_notify, HandshakeTypeOK
  <2>2. KernelKnows' BY <1>3 DEF returnToKernel_notify, HandshakeTypeOK, KernelKnows
  <2>3. \A t \in IopThreads : Permission(t)'
    BY <1>3 DEF returnToKernel_notify, HandshakeTypeOK, KernelKnows, Permission
  <2> QED BY <2>1, <2>2, <2>3
<1>4. CASE waitForDispatch(u)
  BY <1>4 DEF waitForDispatch, HandshakeTypeOK, KernelKnows, Permission
<1>5. CASE Leave(u)
  BY <1>5 DEF Leave, SuspendThread, SleepThread, ThreadReturns, HandshakeTypeOK, KernelKnows, Permission
<1>6. ASSUME NEW v \in IopThreads, WakeupThread(u, v) PROVE HandshakeInv'
  BY <1>6 DEF WakeupThread, HandshakeTypeOK, KernelKnows, Permission
<1> QED BY <1>1, <1>2, <1>3, <1>4, <1>5, <1>6 DEF HandshakeThread

\* At most one of the kernel and the IOP threads runs, and a thread that runs
\* is the one that the kernel waits for, although the flags are written
\* outside the mutexes (dispatch and returnToKernel of IOP_Kernel.cpp).
THEOREM HandshakeSafety == HandshakeSpec => []OneRuns
<1>1. HandshakeInv /\ [HandshakeNext]_hvars => HandshakeInv'
  <2>1. ASSUME HandshakeInv, HandshakeNext PROVE HandshakeInv'
    BY <2>1, KernelStepInv, DispatchInv, ThreadStepInv DEF HandshakeNext
  <2>2. ASSUME HandshakeInv, UNCHANGED hvars PROVE HandshakeInv'
    BY <2>2 DEF HandshakeInv, HandshakeTypeOK, KernelKnows, Permission, hvars
  <2> QED BY <2>1, <2>2
<1>2. HandshakeInv => OneRuns BY DEF HandshakeInv, Permission, OneRuns
<1> QED BY HandshakeInitInv, <1>1, <1>2, PTL DEF HandshakeSpec

-------------------------------------------------------------------------------
(* The system threads.                                                     *)

Objects ==
    /\ iop \in [live : BOOLEAN, status : {"WAIT_FOR_LOAD", "OVERLORD_INIT"}, init_done : BOOLEAN,
                want_exit : BOOLEAN, credit : Nat, closing : BOOLEAN,
                threads : SUBSET OverlordThreads, asleep : SUBSET OverlordThreads]
    /\ server \in [registered : BOOLEAN, live : BOOLEAN, protocols_ready : BOOLEAN, accept : {"none", "run", "done"}]
    /\ vm \in [status : {"Uninited", "Inited", "Kill", "Dead"}, components : {0, 1}]

Ready(s) == initialization_complete[s] => where[s] \notin {"none", "begin"}
AllIn(S) == where["IOP"] \in S /\ where["EE"] \in S /\ where["DMP"] \in S /\ where["DMAC"] \in S

\* A thread is started when those before it have reported that they are ready.
StartUp ==
    /\ Ready("IOP") /\ Ready("EE") /\ Ready("DMP") /\ Ready("DMAC")
    /\ mpc \in {"start", "started"} =>
           /\ starting > 1 => initialization_complete["IOP"]
           /\ starting > 2 => initialization_complete["EE"]
           /\ starting > 3 => initialization_complete["DMP"]
           /\ starting < 2 => where["EE"] = "none"
           /\ starting < 3 => where["DMP"] = "none"
           /\ starting < 4 => where["DMAC"] = "none"
    /\ mpc = "start" =>
           /\ starting = 1 => where["IOP"] = "none"
           /\ starting = 2 => where["EE"] = "none"
           /\ starting = 3 => where["DMP"] = "none"
           /\ starting = 4 => where["DMAC"] = "none"
    /\ where["EE"] # "none" => where["IOP"] \notin {"none", "begin"}
    /\ where["DMP"] # "none" => where["EE"] \notin {"none", "begin"}
    /\ mpc = "prepare" => AllIn({"none", "ended"})
    /\ mpc \in {"display", "join deci", "join"} => initialization_complete["DMP"]
    /\ mpc = "return" => AllIn({"ended"})

\* The overlord does not run before the EE has loaded it.
Loaded ==
    /\ where["IOP"] = "wait start" /\ iop.status = "OVERLORD_INIT" => where["EE"] \notin {"none", "begin", "boot"}
    /\ where["IOP"] \in {"overlord", "loop", "wait run"} => where["EE"] \notin {"none", "begin", "boot"}

\* Nobody stops before the EE has told it to.
Exits ==
    /\ where["IOP"] \in {"shutdown", "ended"} \/ (iop.want_exit /\ iop.live) =>
           where["EE"] \in {"signal", "hung", "unmap", "trigger", "ended"}
    /\ where["DMP"] \in {"destroy", "ended"} => where["EE"] \in {"trigger", "ended"}
    /\ \A s \in SystemThreads : wantExit[s] => where["EE"] \in {"trigger", "ended"}

\* Which objects are there, from where their threads are.
Lives ==
    /\ ~ memory <=> where["EE"] \in {"none", "begin", "trigger", "ended"}
    /\ ~ iop.live <=> where["IOP"] \in {"none", "begin", "ended"}
    /\ ~ iop.live => iop.threads = {}
    /\ ~ server.live <=> where["DMP"] \in {"none", "begin", "ended"}
    /\ mpc # "prepare" => (server.registered <=> where["DMP"] \notin {"none", "begin"})
    /\ args.debug /\ where["EE"] \in {"heap", "loop", "vm dead", "kill"} => server.registered

\* What the DECI2 server is used for, in debug mode only.
Serves ==
    /\ server.protocols_ready => args.debug
    /\ where["DMP"] \in {"init", "loop", "message", "destroy"} => args.debug
    /\ server.accept = "run" => where["DMP"] \in {"loop", "message", "destroy"}

\* The VM dies after its one component has left it.
VmLives ==
    /\ vm.status # "Uninited" => args.vm
    /\ vm.status = "Inited" => where["EE"] = "loop"
    /\ vm.status = "Kill" <=> where["EE"] = "vm dead"
    /\ vm.status = "Dead" => where["EE"] \in {"kill", "signal", "hung", "unmap", "trigger", "ended"} /\ vm.components = 0
    /\ where["DMAC"] \in {"none", "begin", "ended"} => vm.components = 0
    /\ where["DMAC"] \notin {"none", "begin", "ended"} => vm.components = 1
    /\ where["DMAC"] \in {"globals", "loop"} => vm.status \in {"Inited", "Kill"}

MachineInv == MachineTypeOK /\ Objects /\ StartUp /\ Loaded /\ Exits /\ Lives /\ Serves /\ VmLives

\* The four threads.
LEMMA TheThreads ==
    /\ SystemThreads = {"DMP", "IOP", "EE", "DMAC"}
    /\ StartOrder[1] = "IOP" /\ StartOrder[2] = "EE" /\ StartOrder[3] = "DMP" /\ StartOrder[4] = "DMAC"
<1>1. 1 .. 4 = {1, 2, 3, 4} OBVIOUS
<1>2. Created[1] = "DMP" /\ Created[2] = "IOP" /\ Created[3] = "EE" /\ Created[4] = "DMAC" BY DEF Created
<1>3. SystemThreads = {Created[1], Created[2], Created[3], Created[4]} BY <1>1 DEF SystemThreads
<1> QED BY <1>2, <1>3 DEF StartOrder

LEMMA MachineInitInv == MachineInit => MachineInv
<1> SUFFICES ASSUME MachineInit PROVE MachineInv OBVIOUS
<1> USE TheThreads DEF MachineInit, NoIop, NoServer
<1>1. MachineTypeOK
  <2>1. run \in 1 .. MaxRuns /\ iop.credit \in 0 .. ITERS BY MachineAssumption
  <2>2. starting \in 1 .. 4 /\ MasterExit \in {0, 1, 2} /\ mpc = "prepare" /\ process = "run" OBVIOUS
  <2>3. /\ DOMAIN where = SystemThreads
        /\ initialization_complete \in [SystemThreads -> BOOLEAN] /\ wantExit \in [SystemThreads -> BOOLEAN]
    OBVIOUS
  <2>4. /\ iop.asleep \subseteq iop.threads /\ iop.threads \subseteq OverlordThreads
        /\ vm.status = "Uninited" /\ vm.components = 0 /\ memory \in BOOLEAN /\ args \in CommandLines
    OBVIOUS
  <2> QED BY <2>1, <2>2, <2>3, <2>4 DEF MachineTypeOK
<1>2. Objects BY DEF Objects
<1>3. StartUp /\ Loaded /\ Exits /\ Lives /\ Serves /\ VmLives
  BY DEF StartUp, Ready, AllIn, Loaded, Exits, Lives, Serves, VmLives
<1> QED BY <1>1, <1>2, <1>3 DEF MachineInv

LEMMA MachineInvSuffices == MachineInv /\ CrashWindows => ThreadsSound
<1> SUFFICES ASSUME MachineInv, CrashWindows PROVE ThreadsSound OBVIOUS
<1> USE TheThreads DEF MachineInv
<1>1. UsesLiveObjects
  BY DEF UsesLiveObjects, StartUp, Ready, AllIn, Exits, Lives, Serves
<1>2. DmacSeesMemory BY DEF DmacSeesMemory, Lives, VmLives
<1>3. OldRunGone BY DEF OldRunGone, StartUp, Ready, AllIn, Lives, VmLives
<1> QED BY <1>1, <1>2, <1>3 DEF ThreadsSound

\* The main thread: it creates and starts the threads, and waits for their end.
LEMMA MainInv ==
    ASSUME MachineInv, process = "run", Main \/ CloseWindow
    PROVE  MachineInv'
<1> USE TheThreads DEF MachineInv
<1>1. CASE prepare
  <2>1. /\ mpc = "prepare" /\ mpc' = "start" /\ starting' = 1
        /\ where'["EE"] = "none" /\ where'["IOP"] = "none" /\ where'["DMP"] = "none" /\ where'["DMAC"] = "none"
        /\ \A t \in SystemThreads : ~ initialization_complete'[t] /\ ~ wantExit'[t]
        /\ \A t \in SystemThreads : where[t] \in {"none", "ended"}
        /\ initialization_complete' \in [SystemThreads -> BOOLEAN] /\ wantExit' \in [SystemThreads -> BOOLEAN]
        /\ DOMAIN where' = SystemThreads
    BY <1>1 DEF prepare, Go, MachineTypeOK, StartUp, Ready, AllIn
  <2>2. /\ ~ server'.registered /\ server'.live = server.live
        /\ server'.protocols_ready = server.protocols_ready /\ server'.accept = server.accept
        /\ vm'.status = "Uninited" /\ vm'.components = vm.components
    BY <1>1 DEF prepare, Objects, MachineTypeOK, NoIop, signal_run_iop, Crash
  <2>3. UNCHANGED <<args, run, process, MasterExit, memory, iop>>
    BY <1>1 DEF prepare, mainVars
  <2>4. MachineTypeOK' BY <2>1, <2>2, <2>3, MachineAssumption DEF MachineTypeOK, Objects
  <2>5. Objects' BY <2>1, <2>2, <2>3, <1>1 DEF prepare, Objects, NoIop, signal_run_iop
  <2>6. StartUp' BY <2>1, <2>2, <2>3 DEF StartUp, Ready, AllIn, MachineTypeOK
  <2>7. Loaded' /\ Exits' BY <2>1, <2>2, <2>3 DEF Loaded, Exits, StartUp, Ready, AllIn, Lives
  <2>8. Lives' /\ Serves' BY <2>1, <2>2, <2>3 DEF Lives, Serves, StartUp, Ready, AllIn
  <2>9. VmLives' BY <2>1, <2>2, <2>3 DEF VmLives, StartUp, Ready, AllIn
  <2> QED BY <2>4, <2>5, <2>6, <2>7, <2>8, <2>9
<1>2. CASE start
  <2>1. /\ mpc = "start" /\ mpc' = "started" /\ starting \in 1 .. 4
        /\ where' = [where EXCEPT ![StartOrder[starting]] = "begin"] /\ DOMAIN where' = SystemThreads
    BY <1>2 DEF start, MachineTypeOK
  <2>2. UNCHANGED <<args, run, process, starting, MasterExit, initialization_complete, wantExit, memory, iop, server, vm>>
    BY <1>2 DEF start, mainVars
  <2>3. MachineTypeOK' BY <2>1, <2>2, MachineAssumption DEF MachineTypeOK, Objects
  <2>4. Objects' BY <2>2 DEF Objects
  <2>5. CASE starting = 1
    <3>1. /\ where["IOP"] = "none" /\ where'["IOP"] = "begin"
          /\ where'["EE"] = where["EE"] /\ where'["DMP"] = where["DMP"] /\ where'["DMAC"] = where["DMAC"]
      BY <2>1, <2>5 DEF StartUp, Ready, AllIn, MachineTypeOK
    <3>2. StartUp' BY <2>1, <2>2, <2>5, <3>1 DEF StartUp, Ready, AllIn, MachineTypeOK
    <3>3. Loaded' /\ Exits' BY <2>1, <2>2, <3>1 DEF Loaded, Exits, StartUp, Ready, AllIn, Lives
    <3>4. Lives' /\ Serves' BY <2>1, <2>2, <3>1 DEF Lives, Serves, StartUp, Ready, AllIn
    <3>5. VmLives' BY <2>1, <2>2, <3>1 DEF VmLives, StartUp, Ready, AllIn
    <3> QED BY <2>3, <2>4, <3>2, <3>3, <3>4, <3>5
  <2>6. CASE starting = 2
    <3>1. /\ where["EE"] = "none" /\ where'["EE"] = "begin"
          /\ where'["IOP"] = where["IOP"] /\ where'["DMP"] = where["DMP"] /\ where'["DMAC"] = where["DMAC"]
      BY <2>1, <2>6 DEF StartUp, Ready, AllIn, MachineTypeOK
    <3>2. StartUp' BY <2>1, <2>2, <2>6, <3>1 DEF StartUp, Ready, AllIn, MachineTypeOK
    <3>3. Loaded' /\ Exits' BY <2>1, <2>2, <3>1 DEF Loaded, Exits, StartUp, Ready, AllIn, Lives
    <3>4. Lives' /\ Serves' BY <2>1, <2>2, <3>1 DEF Lives, Serves, StartUp, Ready, AllIn
    <3>5. VmLives' BY <2>1, <2>2, <3>1 DEF VmLives, StartUp, Ready, AllIn
    <3> QED BY <2>3, <2>4, <3>2, <3>3, <3>4, <3>5
  <2>7. CASE starting = 3
    <3>1. /\ where["DMP"] = "none" /\ where'["DMP"] = "begin"
          /\ where'["EE"] = where["EE"] /\ where'["IOP"] = where["IOP"] /\ where'["DMAC"] = where["DMAC"]
      BY <2>1, <2>7 DEF StartUp, Ready, AllIn, MachineTypeOK
    <3>2. StartUp' BY <2>1, <2>2, <2>7, <3>1 DEF StartUp, Ready, AllIn, MachineTypeOK
    <3>3. Loaded' /\ Exits' BY <2>1, <2>2, <3>1 DEF Loaded, Exits, StartUp, Ready, AllIn, Lives
    <3>4. Lives' /\ Serves' BY <2>1, <2>2, <3>1 DEF Lives, Serves, StartUp, Ready, AllIn
    <3>5. VmLives' BY <2>1, <2>2, <3>1 DEF VmLives, StartUp, Ready, AllIn
    <3> QED BY <2>3, <2>4, <3>2, <3>3, <3>4, <3>5
  <2>8. CASE starting = 4
    <3>1. /\ where["DMAC"] = "none" /\ where'["DMAC"] = "begin"
          /\ where'["EE"] = where["EE"] /\ where'["IOP"] = where["IOP"] /\ where'["DMP"] = where["DMP"]
      BY <2>1, <2>8 DEF StartUp, Ready, AllIn, MachineTypeOK
    <3>2. StartUp' BY <2>1, <2>2, <2>8, <3>1 DEF StartUp, Ready, AllIn, MachineTypeOK
    <3>3. Loaded' /\ Exits' BY <2>1, <2>2, <3>1 DEF Loaded, Exits, StartUp, Ready, AllIn, Lives
    <3>4. Lives' /\ Serves' BY <2>1, <2>2, <3>1 DEF Lives, Serves, StartUp, Ready, AllIn
    <3>5. VmLives' BY <2>1, <2>2, <3>1 DEF VmLives, StartUp, Ready, AllIn
    <3> QED BY <2>3, <2>4, <3>2, <3>3, <3>4, <3>5
  <2>9. starting = 1 \/ starting = 2 \/ starting = 3 \/ starting = 4 BY <2>1
  <2> QED BY <2>5, <2>6, <2>7, <2>8, <2>9
<1>3. CASE start_wait
  <2>1. /\ mpc = "started" /\ starting \in 1 .. 4
        /\ \/ starting < 4 /\ mpc' = "start" /\ starting' = starting + 1
           \/ starting = 4 /\ mpc' = "display" /\ starting' = starting
        /\ starting = 1 => initialization_complete["IOP"]
        /\ starting = 2 => initialization_complete["EE"]
        /\ starting = 3 => initialization_complete["DMP"]
        /\ starting > 3 => initialization_complete["DMP"]
    BY <1>3 DEF start_wait, StartUp, MachineTypeOK
  <2>2. UNCHANGED <<where, args, run, process, MasterExit, initialization_complete, wantExit, memory, iop, server, vm>>
    BY <1>3 DEF start_wait, mainVars, svars
  <2>3. starting' \in 1 .. 4
    BY <2>1, <2>2
  <2>4. MachineTypeOK' BY <2>1, <2>2, <2>3, MachineAssumption DEF MachineTypeOK, Objects
  <2>5. Objects' BY <2>1, <2>2, <2>3, <1>3 DEF start_wait, Objects, NoIop, signal_run_iop
  <2>6. StartUp'
    <3>1. CASE starting < 4 /\ mpc' = "start" /\ starting' = starting + 1
      BY <2>1, <2>2, <3>1 DEF StartUp, Ready, AllIn, MachineTypeOK
    <3>2. CASE starting = 4 /\ mpc' = "display" /\ starting' = starting
      <4>1. initialization_complete["DMP"] BY <2>1, <3>2
      <4> QED BY <2>2, <3>2, <4>1 DEF StartUp, Ready, AllIn
    <3> QED BY <2>1, <3>1, <3>2
  <2>7. Loaded' /\ Exits' BY <2>1, <2>2, <2>3 DEF Loaded, Exits, StartUp, Ready, AllIn, Lives
  <2>8. Lives' /\ Serves' BY <2>1, <2>2, <2>3 DEF Lives, Serves, StartUp, Ready, AllIn
  <2>9. VmLives' BY <2>1, <2>2, <2>3 DEF VmLives, StartUp, Ready, AllIn
  <2> QED BY <2>4, <2>5, <2>6, <2>7, <2>8, <2>9
<1>4. CASE DisplayEnds
  <2>1. /\ mpc = "display" /\ mpc' = "join deci"
    BY <1>4 DEF DisplayEnds, Objects, MachineTypeOK, NoIop, signal_run_iop, Crash
  <2>2. UNCHANGED <<where, args, run, process, starting, MasterExit, initialization_complete, wantExit, memory, iop, server, vm>>
    BY <1>4 DEF DisplayEnds, mainVars, svars
  <2>3. MachineTypeOK' BY <2>1, <2>2, MachineAssumption DEF MachineTypeOK, Objects
  <2>4. Objects' BY <2>1, <2>2, <1>4 DEF DisplayEnds, Objects, NoIop, signal_run_iop
  <2>5. StartUp' BY <2>1, <2>2 DEF StartUp, Ready, AllIn, MachineTypeOK
  <2>6. Loaded' /\ Exits' BY <2>1, <2>2 DEF Loaded, Exits, StartUp, Ready, AllIn, Lives
  <2>7. Lives' /\ Serves' BY <2>1, <2>2 DEF Lives, Serves, StartUp, Ready, AllIn
  <2>8. VmLives' BY <2>1, <2>2 DEF VmLives, StartUp, Ready, AllIn
  <2> QED BY <2>3, <2>4, <2>5, <2>6, <2>7, <2>8
<1>5. CASE join_deci
  <2>1. /\ mpc = "join deci" /\ mpc' = "join" /\ where["DMP"] = "ended"
        /\ wantExit' \in [SystemThreads -> BOOLEAN]
    BY <1>5 DEF join_deci, Objects, MachineTypeOK, NoIop, signal_run_iop, Crash
  <2>2. UNCHANGED <<where, args, run, process, starting, MasterExit, initialization_complete, memory, iop, server, vm>>
    BY <1>5 DEF join_deci, mainVars, svars
  <2>3. MachineTypeOK' BY <2>1, <2>2, MachineAssumption DEF MachineTypeOK, Objects
  <2>4. Objects' BY <2>1, <2>2, <1>5 DEF join_deci, Objects, NoIop, signal_run_iop
  <2>5. StartUp' BY <2>1, <2>2 DEF StartUp, Ready, AllIn, MachineTypeOK
  <2>6. Loaded' /\ Exits' BY <2>1, <2>2 DEF Loaded, Exits, StartUp, Ready, AllIn, Lives
  <2>7. Lives' /\ Serves' BY <2>1, <2>2 DEF Lives, Serves, StartUp, Ready, AllIn
  <2>8. VmLives' BY <2>1, <2>2 DEF VmLives, StartUp, Ready, AllIn
  <2> QED BY <2>3, <2>4, <2>5, <2>6, <2>7, <2>8
<1>6. CASE join
  <2>1. /\ mpc = "join" /\ mpc' = "return" /\ \A s \in SystemThreads : where[s] = "ended"
    BY <1>6 DEF join, Objects, MachineTypeOK, NoIop, signal_run_iop, Crash
  <2>2. UNCHANGED <<where, args, run, process, starting, MasterExit, initialization_complete, wantExit, memory, iop, server, vm>>
    BY <1>6 DEF join, mainVars, svars
  <2>3. MachineTypeOK' BY <2>1, <2>2, MachineAssumption DEF MachineTypeOK, Objects
  <2>4. Objects' BY <2>1, <2>2, <1>6 DEF join, Objects, NoIop, signal_run_iop
  <2>5. StartUp' BY <2>1, <2>2 DEF StartUp, Ready, AllIn, MachineTypeOK
  <2>6. Loaded' /\ Exits' BY <2>1, <2>2 DEF Loaded, Exits, StartUp, Ready, AllIn, Lives
  <2>7. Lives' /\ Serves' BY <2>1, <2>2 DEF Lives, Serves, StartUp, Ready, AllIn
  <2>8. VmLives' BY <2>1, <2>2 DEF VmLives, StartUp, Ready, AllIn
  <2> QED BY <2>3, <2>4, <2>5, <2>6, <2>7, <2>8
<1>7. CASE return
  <2>1. /\ mpc = "return"
        /\ \/ process' = "exit" /\ run' = run /\ mpc' = mpc
           \/ process' = process /\ run < MaxRuns /\ run' = run + 1 /\ mpc' = "prepare"
    BY <1>7 DEF return, Objects, MachineTypeOK, NoIop, signal_run_iop, Crash
  <2>2. UNCHANGED <<where, args, starting, MasterExit, initialization_complete, wantExit, memory, iop, server, vm>>
    BY <1>7 DEF return, mainVars, svars
  <2>3. run' \in 1 .. MaxRuns
    BY <2>1, <2>2, MachineAssumption DEF MachineTypeOK
  <2>4. MachineTypeOK' BY <2>1, <2>2, <2>3, MachineAssumption DEF MachineTypeOK, Objects
  <2>5. Objects' BY <2>1, <2>2, <2>3, <1>7 DEF return, Objects, NoIop, signal_run_iop
  <2>6. StartUp' BY <2>1, <2>2, <2>3 DEF StartUp, Ready, AllIn, MachineTypeOK
  <2>7. Loaded' /\ Exits' BY <2>1, <2>2, <2>3 DEF Loaded, Exits, StartUp, Ready, AllIn, Lives
  <2>8. Lives' /\ Serves' BY <2>1, <2>2, <2>3 DEF Lives, Serves, StartUp, Ready, AllIn
  <2>9. VmLives' BY <2>1, <2>2, <2>3 DEF VmLives, StartUp, Ready, AllIn
  <2> QED BY <2>4, <2>5, <2>6, <2>7, <2>8, <2>9
<1>8. CASE CloseWindow
  <2>1. /\ MasterExit' = 2
    BY <1>8 DEF CloseWindow, Objects, MachineTypeOK
  <2>2. UNCHANGED <<where, args, run, process, mpc, starting, initialization_complete, wantExit, memory, iop, server, vm>>
    BY <1>8 DEF CloseWindow, svars
  <2>3. MachineTypeOK' BY <2>1, <2>2, MachineAssumption DEF MachineTypeOK, Objects
  <2>4. Objects' BY <2>1, <2>2, <1>8 DEF CloseWindow, Objects
  <2>5. StartUp' BY <2>1, <2>2 DEF StartUp, Ready, AllIn, MachineTypeOK
  <2>6. Loaded' /\ Exits' BY <2>1, <2>2 DEF Loaded, Exits, StartUp, Ready, AllIn, Lives
  <2>7. Lives' /\ Serves' BY <2>1, <2>2 DEF Lives, Serves, StartUp, Ready, AllIn
  <2>8. VmLives' BY <2>1, <2>2 DEF VmLives, StartUp, Ready, AllIn
  <2> QED BY <2>3, <2>4, <2>5, <2>6, <2>7, <2>8
<1> QED BY <1>1, <1>2, <1>3, <1>4, <1>5, <1>6, <1>7, <1>8 DEF Main

\* The EE.
LEMMA EeInv ==
    ASSUME MachineInv, process = "run", EE \/ ee_rpc \/ \E code \in {1, 2} : SetMasterExit(code)
    PROVE  MachineInv'
<1> USE TheThreads DEF MachineInv
<1>1. CASE ee_map
  <2>1. /\ where["EE"] = "begin"
        /\ \/ where'["EE"] = "boot" /\ memory' = TRUE
           \/ where'["EE"] = "ended" /\ memory' = memory
        /\ DOMAIN where' = SystemThreads /\ where'["IOP"] = where["IOP"] /\ where'["DMP"] = where["DMP"]
        /\ where'["DMAC"] = where["DMAC"]
    BY <1>1 DEF ee_map, Go, MachineTypeOK
  <2>2. /\ initialization_complete' \in [SystemThreads -> BOOLEAN] /\ initialization_complete'["EE"]
        /\ initialization_complete'["IOP"] = initialization_complete["IOP"]
        /\ initialization_complete'["DMP"] = initialization_complete["DMP"]
        /\ initialization_complete'["DMAC"] = initialization_complete["DMAC"]
    BY <1>1 DEF ee_map, Initialized, MachineTypeOK
  <2>3. UNCHANGED <<args, run, process, mpc, starting, MasterExit, wantExit, iop, server, vm>>
    BY <1>1 DEF ee_map, mainVars
  <2>4. MachineTypeOK' BY <2>1, <2>2, <2>3, MachineAssumption DEF MachineTypeOK, Objects
  <2>5. Objects' BY <2>1, <2>2, <2>3, <1>1 DEF ee_map, Objects, NoIop, signal_run_iop
  <2>6. StartUp' BY <2>1, <2>2, <2>3 DEF StartUp, Ready, AllIn, MachineTypeOK
  <2>7. Loaded' /\ Exits' BY <2>1, <2>2, <2>3 DEF Loaded, Exits, StartUp, Ready, AllIn, Lives
  <2>8. Lives' /\ Serves'
    <3>0. Serves' BY <2>1, <2>2, <2>3 DEF Serves
    <3>1. ~ memory BY <2>1 DEF Lives
    <3>2. ~ memory' <=> where'["EE"] \in {"none", "begin", "trigger", "ended"}
      <4>1. CASE where'["EE"] = "boot" /\ memory' = TRUE BY <4>1
      <4>2. CASE where'["EE"] = "ended" /\ memory' = memory BY <3>1, <4>2
      <4> QED BY <2>1, <4>1, <4>2
    <3> QED BY <2>1, <2>3, <3>0, <3>2 DEF Lives
  <2>9. VmLives' BY <2>1, <2>2, <2>3 DEF VmLives, StartUp, Ready, AllIn
  <2> QED BY <2>4, <2>5, <2>6, <2>7, <2>8, <2>9
<1>2. CASE sceSifLoadModule
  <2>1. /\ where["EE"] = "boot" /\ where'["EE"] = "overlord"
        /\ DOMAIN where' = SystemThreads /\ where'["IOP"] = where["IOP"] /\ where'["DMP"] = where["DMP"]
        /\ where'["DMAC"] = where["DMAC"]
    BY <1>2 DEF sceSifLoadModule, Go, MachineTypeOK
  <2>2. /\ MasterExit' = 0
        /\ iop'.live = iop.live /\ iop'.want_exit = iop.want_exit /\ iop'.threads = iop.threads
        /\ iop'.asleep = iop.asleep /\ iop'.credit = iop.credit /\ iop'.status = "OVERLORD_INIT"
    BY <1>2 DEF sceSifLoadModule, Objects, MachineTypeOK, NoIop, signal_run_iop, Crash
  <2>3. UNCHANGED <<args, run, process, mpc, starting, initialization_complete, wantExit, memory, server, vm>>
    BY <1>2 DEF sceSifLoadModule, mainVars
  <2>4. MachineTypeOK' BY <2>1, <2>2, <2>3, MachineAssumption DEF MachineTypeOK, Objects
  <2>5. Objects' BY <2>1, <2>2, <2>3, <1>2 DEF sceSifLoadModule, Objects, NoIop, signal_run_iop
  <2>6. StartUp' BY <2>1, <2>2, <2>3 DEF StartUp, Ready, AllIn, MachineTypeOK
  <2>7. Loaded' /\ Exits' BY <2>1, <2>2, <2>3 DEF Loaded, Exits, StartUp, Ready, AllIn, Lives
  <2>8. Lives' /\ Serves' BY <2>1, <2>2, <2>3 DEF Lives, Serves, StartUp, Ready, AllIn
  <2>9. VmLives' BY <2>1, <2>2, <2>3 DEF VmLives, StartUp, Ready, AllIn
  <2> QED BY <2>4, <2>5, <2>6, <2>7, <2>8, <2>9
<1>3. CASE wait_for_overlord_init_finish
  <2>1. /\ where["EE"] = "overlord" /\ where'["EE"] = "proto"
        /\ DOMAIN where' = SystemThreads /\ where'["IOP"] = where["IOP"] /\ where'["DMP"] = where["DMP"]
        /\ where'["DMAC"] = where["DMAC"]
    BY <1>3 DEF wait_for_overlord_init_finish, Go, MachineTypeOK
  <2>2. UNCHANGED <<args, run, process, mpc, starting, MasterExit, initialization_complete, wantExit, memory, iop, server, vm>>
    BY <1>3 DEF wait_for_overlord_init_finish, mainVars
  <2>3. MachineTypeOK' BY <2>1, <2>2, MachineAssumption DEF MachineTypeOK, Objects
  <2>4. Objects' BY <2>1, <2>2, <1>3 DEF wait_for_overlord_init_finish, Objects, NoIop, signal_run_iop
  <2>5. StartUp' BY <2>1, <2>2 DEF StartUp, Ready, AllIn, MachineTypeOK
  <2>6. Loaded' /\ Exits' BY <2>1, <2>2 DEF Loaded, Exits, StartUp, Ready, AllIn, Lives
  <2>7. Lives' /\ Serves' BY <2>1, <2>2 DEF Lives, Serves, StartUp, Ready, AllIn
  <2>8. VmLives' BY <2>1, <2>2 DEF VmLives, StartUp, Ready, AllIn
  <2> QED BY <2>3, <2>4, <2>5, <2>6, <2>7, <2>8
<1>4. CASE InitGoalProto
  <2>1. /\ where["EE"] = "proto"
        /\ \/ where'["EE"] = "heap" /\ process' = process /\ (args.debug => server.registered)
           \/ where' = where /\ process' = "crash"
        /\ DOMAIN where' = SystemThreads /\ where'["IOP"] = where["IOP"] /\ where'["DMP"] = where["DMP"]
        /\ where'["DMAC"] = where["DMAC"]
    BY <1>4 DEF InitGoalProto, Go, Crash, MachineTypeOK
  <2>2. /\ server'.registered = server.registered /\ server'.live = server.live
        /\ server'.accept = server.accept
        /\ server'.protocols_ready => args.debug \/ server.protocols_ready
    BY <1>4 DEF InitGoalProto, Objects, MachineTypeOK
  <2>3. UNCHANGED <<args, run, mpc, starting, MasterExit, initialization_complete, wantExit, memory, iop, vm>>
    BY <1>4 DEF InitGoalProto, mainVars
  <2>4. MachineTypeOK' BY <2>1, <2>2, <2>3, MachineAssumption DEF MachineTypeOK, Objects
  <2>5. Objects' BY <2>1, <2>2, <2>3, <1>4 DEF InitGoalProto, Objects, NoIop, signal_run_iop
  <2>6. StartUp' BY <2>1, <2>2, <2>3 DEF StartUp, Ready, AllIn, MachineTypeOK
  <2>7. Loaded' /\ Exits' BY <2>1, <2>2, <2>3 DEF Loaded, Exits, StartUp, Ready, AllIn, Lives
  <2>8. Lives' /\ Serves' BY <2>1, <2>2, <2>3 DEF Lives, Serves, StartUp, Ready, AllIn
  <2>9. VmLives' BY <2>1, <2>2, <2>3 DEF VmLives, StartUp, Ready, AllIn
  <2> QED BY <2>4, <2>5, <2>6, <2>7, <2>8, <2>9
<1>5. CASE InitHeapAndSymbol
  <2>1. /\ where["EE"] = "heap" /\ where'["EE"] = "loop"
        /\ \/ where'["DMAC"] = where["DMAC"]
           \/ where["DMAC"] = "blocked" /\ where'["DMAC"] = "vm wait"
        /\ DOMAIN where' = SystemThreads /\ where'["IOP"] = where["IOP"] /\ where'["DMP"] = where["DMP"]
    BY <1>5 DEF InitHeapAndSymbol, Go, MachineTypeOK
  <2>2. /\ process' \in {"run", "failed"}
        /\ vm'.components = vm.components /\ vm'.status = IF args.vm THEN "Inited" ELSE vm.status
    BY <1>5 DEF InitHeapAndSymbol, Objects, MachineTypeOK, NoIop, signal_run_iop, Crash
  <2>3. UNCHANGED <<args, run, mpc, starting, MasterExit, initialization_complete, wantExit, memory, iop, server>>
    BY <1>5 DEF InitHeapAndSymbol, mainVars
  <2>4. MachineTypeOK' BY <2>1, <2>2, <2>3, MachineAssumption DEF MachineTypeOK, Objects
  <2>5. Objects' BY <2>1, <2>2, <2>3, <1>5 DEF InitHeapAndSymbol, Objects, NoIop, signal_run_iop
  <2>6. StartUp' BY <2>1, <2>2, <2>3 DEF StartUp, Ready, AllIn, MachineTypeOK
  <2>7. Loaded' /\ Exits' BY <2>1, <2>2, <2>3 DEF Loaded, Exits, StartUp, Ready, AllIn, Lives
  <2>8. Lives' /\ Serves' BY <2>1, <2>2, <2>3 DEF Lives, Serves, StartUp, Ready, AllIn
  <2>9. VmLives' BY <2>1, <2>2, <2>3 DEF VmLives, StartUp, Ready, AllIn
  <2> QED BY <2>4, <2>5, <2>6, <2>7, <2>8, <2>9
<1>6. CASE vm_kill
  <2>1. /\ where["EE"] = "loop" /\ where'["EE"] = IF args.vm THEN "vm dead" ELSE "kill"
        /\ DOMAIN where' = SystemThreads /\ where'["IOP"] = where["IOP"] /\ where'["DMP"] = where["DMP"]
        /\ where'["DMAC"] = where["DMAC"]
    BY <1>6 DEF vm_kill, Go, MachineTypeOK
  <2>2. /\ vm'.components = vm.components /\ vm'.status = IF args.vm THEN "Kill" ELSE vm.status
    BY <1>6 DEF vm_kill, Objects, MachineTypeOK, NoIop, signal_run_iop, Crash
  <2>3. UNCHANGED <<args, run, process, mpc, starting, MasterExit, initialization_complete, wantExit, memory, iop, server>>
    BY <1>6 DEF vm_kill, mainVars
  <2>4. MachineTypeOK' BY <2>1, <2>2, <2>3, MachineAssumption DEF MachineTypeOK, Objects
  <2>5. Objects' BY <2>1, <2>2, <2>3, <1>6 DEF vm_kill, Objects, NoIop, signal_run_iop
  <2>6. StartUp' BY <2>1, <2>2, <2>3 DEF StartUp, Ready, AllIn, MachineTypeOK
  <2>7. Loaded' /\ Exits' BY <2>1, <2>2, <2>3 DEF Loaded, Exits, StartUp, Ready, AllIn, Lives
  <2>8. Lives' /\ Serves' BY <2>1, <2>2, <2>3 DEF Lives, Serves, StartUp, Ready, AllIn
  <2>9. VmLives' BY <2>1, <2>2, <2>3 DEF VmLives, StartUp, Ready, AllIn
  <2> QED BY <2>4, <2>5, <2>6, <2>7, <2>8, <2>9
<1>7. CASE wait_vm_dead
  <2>1. /\ where["EE"] = "vm dead" /\ where'["EE"] = "kill"
        /\ DOMAIN where' = SystemThreads /\ where'["IOP"] = where["IOP"] /\ where'["DMP"] = where["DMP"]
        /\ where'["DMAC"] = where["DMAC"]
    BY <1>7 DEF wait_vm_dead, Go, MachineTypeOK
  <2>2. /\ vm.components = 0 /\ vm'.components = 0 /\ vm'.status = "Dead"
    BY <1>7 DEF wait_vm_dead, Objects, MachineTypeOK, NoIop, signal_run_iop, Crash
  <2>3. UNCHANGED <<args, run, process, mpc, starting, MasterExit, initialization_complete, wantExit, memory, iop, server>>
    BY <1>7 DEF wait_vm_dead, mainVars
  <2>4. MachineTypeOK' BY <2>1, <2>2, <2>3, MachineAssumption DEF MachineTypeOK, Objects
  <2>5. Objects' BY <2>1, <2>2, <2>3, <1>7 DEF wait_vm_dead, Objects, NoIop, signal_run_iop
  <2>6. StartUp' BY <2>1, <2>2, <2>3 DEF StartUp, Ready, AllIn, MachineTypeOK
  <2>7. Loaded' /\ Exits' BY <2>1, <2>2, <2>3 DEF Loaded, Exits, StartUp, Ready, AllIn, Lives
  <2>8. Lives' /\ Serves' BY <2>1, <2>2, <2>3 DEF Lives, Serves, StartUp, Ready, AllIn
  <2>9. VmLives' BY <2>1, <2>2, <2>3 DEF VmLives, StartUp, Ready, AllIn, MachineTypeOK
  <2> QED BY <2>4, <2>5, <2>6, <2>7, <2>8, <2>9
<1>8. CASE kill_from_ee
  <2>1. /\ where["EE"] = "kill" /\ where'["EE"] = "signal"
        /\ DOMAIN where' = SystemThreads /\ where'["IOP"] = where["IOP"] /\ where'["DMP"] = where["DMP"]
        /\ where'["DMAC"] = where["DMAC"]
    BY <1>8 DEF kill_from_ee, Go, MachineTypeOK
  <2>2. /\ iop'.live = iop.live /\ iop'.threads = iop.threads /\ iop'.asleep = iop.asleep
        /\ iop'.credit = iop.credit /\ iop'.status = iop.status
    BY <1>8 DEF kill_from_ee, Objects, MachineTypeOK, NoIop, signal_run_iop, Crash
  <2>3. UNCHANGED <<args, run, process, mpc, starting, MasterExit, initialization_complete, wantExit, memory, server, vm>>
    BY <1>8 DEF kill_from_ee, mainVars
  <2>4. MachineTypeOK' BY <2>1, <2>2, <2>3, MachineAssumption DEF MachineTypeOK, Objects
  <2>5. Objects' BY <2>1, <2>2, <2>3, <1>8 DEF kill_from_ee, Objects, NoIop, signal_run_iop
  <2>6. StartUp' BY <2>1, <2>2, <2>3 DEF StartUp, Ready, AllIn, MachineTypeOK
  <2>7. Loaded' /\ Exits' BY <2>1, <2>2, <2>3 DEF Loaded, Exits, StartUp, Ready, AllIn, Lives
  <2>8. Lives' /\ Serves' BY <2>1, <2>2, <2>3 DEF Lives, Serves, StartUp, Ready, AllIn
  <2>9. VmLives' BY <2>1, <2>2, <2>3 DEF VmLives, StartUp, Ready, AllIn
  <2> QED BY <2>4, <2>5, <2>6, <2>7, <2>8, <2>9
<1>9. CASE kill_from_ee_signal
  <2>1. /\ where["EE"] = "signal" /\ where'["EE"] \in {"signal", "unmap", "hung"}
        /\ DOMAIN where' = SystemThreads /\ where'["IOP"] = where["IOP"] /\ where'["DMP"] = where["DMP"]
        /\ where'["DMAC"] = where["DMAC"]
    BY <1>9 DEF kill_from_ee_signal, Go, MachineTypeOK
  <2>2. /\ iop'.credit \in {ITERS, iop.credit} /\ process' \in {"run", "crash"}
        /\ iop'.live = iop.live /\ iop'.want_exit = iop.want_exit /\ iop'.threads = iop.threads
        /\ iop'.asleep = iop.asleep /\ iop'.status = iop.status
    BY <1>9 DEF kill_from_ee_signal, Objects, MachineTypeOK, signal_run_iop, Crash
  <2>3. UNCHANGED <<args, run, mpc, starting, MasterExit, initialization_complete, wantExit, memory, server, vm>>
    BY <1>9 DEF kill_from_ee_signal, mainVars
  <2>4. iop'.credit \in 0 .. ITERS /\ iop'.credit \in Nat
    <3>1. ITERS \in 0 .. ITERS /\ ITERS \in Nat BY MachineAssumption
    <3>2. iop.credit \in 0 .. ITERS /\ iop.credit \in Nat BY DEF MachineTypeOK, Objects
    <3>3. iop'.credit = ITERS \/ iop'.credit = iop.credit BY <2>2
    <3> QED BY <3>1, <3>2, <3>3
  <2>5. MachineTypeOK' BY <2>1, <2>2, <2>3, <2>4, MachineAssumption DEF MachineTypeOK, Objects
  <2>6. Objects'
    <3>1. iop' = iop \/ iop' = [iop EXCEPT !.credit = ITERS] BY <1>9 DEF kill_from_ee_signal, signal_run_iop
    <3>2. ITERS \in Nat BY MachineAssumption
    <3> QED BY <2>3, <3>1, <3>2 DEF Objects
  <2>7. StartUp' BY <2>1, <2>2, <2>3, <2>4 DEF StartUp, Ready, AllIn, MachineTypeOK
  <2>8. Loaded' /\ Exits' BY <2>1, <2>2, <2>3, <2>4 DEF Loaded, Exits, StartUp, Ready, AllIn, Lives
  <2>9. Lives' /\ Serves' BY <2>1, <2>2, <2>3, <2>4 DEF Lives, Serves, StartUp, Ready, AllIn
  <2>10. VmLives' BY <2>1, <2>2, <2>3, <2>4 DEF VmLives, StartUp, Ready, AllIn
  <2> QED BY <2>5, <2>6, <2>7, <2>8, <2>9, <2>10
<1>10. CASE ee_unmap
  <2>1. /\ where["EE"] = "unmap" /\ where'["EE"] = "trigger" /\ memory' = FALSE
        /\ DOMAIN where' = SystemThreads /\ where'["IOP"] = where["IOP"] /\ where'["DMP"] = where["DMP"]
        /\ where'["DMAC"] = where["DMAC"]
    BY <1>10 DEF ee_unmap, Go, MachineTypeOK
  <2>2. UNCHANGED <<args, run, process, mpc, starting, MasterExit, initialization_complete, wantExit, iop, server, vm>>
    BY <1>10 DEF ee_unmap, mainVars
  <2>3. MachineTypeOK' BY <2>1, <2>2, MachineAssumption DEF MachineTypeOK, Objects
  <2>4. Objects' BY <2>1, <2>2, <1>10 DEF ee_unmap, Objects, NoIop, signal_run_iop
  <2>5. StartUp' BY <2>1, <2>2 DEF StartUp, Ready, AllIn, MachineTypeOK
  <2>6. Loaded' /\ Exits' BY <2>1, <2>2 DEF Loaded, Exits, StartUp, Ready, AllIn, Lives
  <2>7. Lives' /\ Serves' BY <2>1, <2>2 DEF Lives, Serves, StartUp, Ready, AllIn
  <2>8. VmLives' BY <2>1, <2>2 DEF VmLives, StartUp, Ready, AllIn
  <2> QED BY <2>3, <2>4, <2>5, <2>6, <2>7, <2>8
<1>11. CASE trigger_shutdown
  <2>1. /\ where["EE"] = "trigger" /\ where'["EE"] \in {"trigger", "ended"}
        /\ DOMAIN where' = SystemThreads /\ where'["IOP"] = where["IOP"] /\ where'["DMP"] = where["DMP"]
        /\ where'["DMAC"] = where["DMAC"]
    BY <1>11 DEF trigger_shutdown, Go, MachineTypeOK, all_threads_exiting
  <2>2. /\ wantExit' \in [SystemThreads -> BOOLEAN]
    BY <1>11 DEF trigger_shutdown, Objects, MachineTypeOK, NoIop, signal_run_iop, Crash
  <2>3. UNCHANGED <<args, run, process, mpc, starting, MasterExit, initialization_complete, memory, iop, server, vm>>
    BY <1>11 DEF trigger_shutdown, mainVars
  <2>4. MachineTypeOK' BY <2>1, <2>2, <2>3, MachineAssumption DEF MachineTypeOK, Objects
  <2>5. Objects' BY <2>1, <2>2, <2>3, <1>11 DEF trigger_shutdown, Objects, NoIop, signal_run_iop
  <2>6. StartUp' BY <2>1, <2>2, <2>3 DEF StartUp, Ready, AllIn, MachineTypeOK
  <2>7. Loaded' /\ Exits' BY <2>1, <2>2, <2>3 DEF Loaded, Exits, StartUp, Ready, AllIn, Lives
  <2>8. Lives' /\ Serves' BY <2>1, <2>2, <2>3 DEF Lives, Serves, StartUp, Ready, AllIn
  <2>9. VmLives' BY <2>1, <2>2, <2>3 DEF VmLives, StartUp, Ready, AllIn
  <2> QED BY <2>4, <2>5, <2>6, <2>7, <2>8, <2>9
<1>12. CASE ee_rpc
  <2>1. /\ iop'.credit = ITERS
        /\ iop'.live = iop.live /\ iop'.want_exit = iop.want_exit /\ iop'.threads = iop.threads
        /\ iop'.asleep = iop.asleep /\ iop'.status = iop.status
    BY <1>12 DEF ee_rpc, Objects, MachineTypeOK, NoIop, signal_run_iop, Crash
  <2>2. UNCHANGED <<where, args, run, process, mpc, starting, MasterExit, initialization_complete, wantExit, memory, server, vm>>
    BY <1>12 DEF ee_rpc, mainVars, svars
  <2>3. iop'.credit \in 0 .. ITERS /\ iop'.credit \in Nat
    BY <2>1, <2>2, MachineAssumption
  <2>4. MachineTypeOK' BY <2>1, <2>2, <2>3, MachineAssumption DEF MachineTypeOK, Objects
  <2>5. Objects' BY <2>1, <2>2, <2>3, <1>12 DEF ee_rpc, Objects, NoIop, signal_run_iop
  <2>6. StartUp' BY <2>1, <2>2, <2>3 DEF StartUp, Ready, AllIn, MachineTypeOK
  <2>7. Loaded' /\ Exits' BY <2>1, <2>2, <2>3 DEF Loaded, Exits, StartUp, Ready, AllIn, Lives
  <2>8. Lives' /\ Serves' BY <2>1, <2>2, <2>3 DEF Lives, Serves, StartUp, Ready, AllIn
  <2>9. VmLives' BY <2>1, <2>2, <2>3 DEF VmLives, StartUp, Ready, AllIn
  <2> QED BY <2>4, <2>5, <2>6, <2>7, <2>8, <2>9
<1>13. CASE \E code \in {1, 2} : SetMasterExit(code)
  <2>1. /\ MasterExit' \in {0, 1, 2}
    BY <1>13 DEF SetMasterExit, Objects, MachineTypeOK, NoIop, signal_run_iop, Crash
  <2>2. UNCHANGED <<where, args, run, process, mpc, starting, initialization_complete, wantExit, memory, iop, server, vm>>
    BY <1>13 DEF SetMasterExit, mainVars, svars
  <2>3. MachineTypeOK' BY <2>1, <2>2, MachineAssumption DEF MachineTypeOK, Objects
  <2>4. Objects' BY <2>1, <2>2, <1>13 DEF SetMasterExit, Objects, NoIop, signal_run_iop
  <2>5. StartUp' BY <2>1, <2>2 DEF StartUp, Ready, AllIn, MachineTypeOK
  <2>6. Loaded' /\ Exits' BY <2>1, <2>2 DEF Loaded, Exits, StartUp, Ready, AllIn, Lives
  <2>7. Lives' /\ Serves' BY <2>1, <2>2 DEF Lives, Serves, StartUp, Ready, AllIn
  <2>8. VmLives' BY <2>1, <2>2 DEF VmLives, StartUp, Ready, AllIn
  <2> QED BY <2>3, <2>4, <2>5, <2>6, <2>7, <2>8
<1> QED BY <1>1, <1>2, <1>3, <1>4, <1>5, <1>6, <1>7, <1>8, <1>9, <1>10, <1>11, <1>12, <1>13 DEF EE

\* The IOP.
LEMMA IopInv ==
    ASSUME MachineInv, process = "run", IOP \/ iop_pass_unmapped
    PROVE  MachineInv'
<1> USE TheThreads DEF MachineInv
<1>1. CASE iop_register
  <2>1. /\ where["IOP"] = "begin" /\ where'["IOP"] = "wait start"
        /\ DOMAIN where' = SystemThreads /\ where'["EE"] = where["EE"] /\ where'["DMP"] = where["DMP"]
        /\ where'["DMAC"] = where["DMAC"]
    BY <1>1 DEF iop_register, Go, MachineTypeOK
  <2>2. /\ iop'.live /\ ~ iop'.want_exit /\ iop'.threads = {} /\ iop'.asleep = {} /\ iop'.credit = 0
        /\ iop'.status = "WAIT_FOR_LOAD"
    BY <1>1 DEF iop_register, Objects, MachineTypeOK, NoIop, signal_run_iop, Crash
  <2>3. /\ initialization_complete' \in [SystemThreads -> BOOLEAN] /\ initialization_complete'["IOP"]
        /\ initialization_complete'["EE"] = initialization_complete["EE"]
        /\ initialization_complete'["DMP"] = initialization_complete["DMP"]
        /\ initialization_complete'["DMAC"] = initialization_complete["DMAC"]
    BY <1>1 DEF iop_register, Initialized, MachineTypeOK
  <2>4. UNCHANGED <<args, run, process, mpc, starting, MasterExit, wantExit, memory, server, vm>>
    BY <1>1 DEF iop_register, mainVars, iopOnly
  <2>5. iop'.credit \in 0 .. ITERS /\ iop'.credit \in Nat
    BY <2>2, MachineAssumption
  <2>6. MachineTypeOK' BY <2>1, <2>2, <2>3, <2>4, <2>5, MachineAssumption DEF MachineTypeOK, Objects
  <2>7. Objects' BY <2>1, <2>2, <2>3, <2>4, <2>5, <1>1 DEF iop_register, Objects, NoIop, signal_run_iop
  <2>8. StartUp' BY <2>1, <2>2, <2>3, <2>4, <2>5 DEF StartUp, Ready, AllIn, MachineTypeOK
  <2>9. Loaded' /\ Exits' BY <2>1, <2>2, <2>3, <2>4, <2>5 DEF Loaded, Exits, StartUp, Ready, AllIn, Lives
  <2>10. Lives' /\ Serves' BY <2>1, <2>2, <2>3, <2>4, <2>5 DEF Lives, Serves, StartUp, Ready, AllIn
  <2>11. VmLives' BY <2>1, <2>2, <2>3, <2>4, <2>5 DEF VmLives, StartUp, Ready, AllIn
  <2> QED BY <2>6, <2>7, <2>8, <2>9, <2>10, <2>11
<1>2. CASE wait_for_overlord_start_cmd
  <2>1. /\ where["IOP"] = "wait start" /\ where'["IOP"] = "overlord" /\ iop.status = "OVERLORD_INIT"
        /\ DOMAIN where' = SystemThreads /\ where'["EE"] = where["EE"] /\ where'["DMP"] = where["DMP"]
        /\ where'["DMAC"] = where["DMAC"]
    BY <1>2 DEF wait_for_overlord_start_cmd, Go, MachineTypeOK
  <2>2. UNCHANGED <<args, run, process, mpc, starting, MasterExit, initialization_complete, wantExit, memory, iop, server, vm>>
    BY <1>2 DEF wait_for_overlord_start_cmd, mainVars, iopOnly
  <2>3. MachineTypeOK' BY <2>1, <2>2, MachineAssumption DEF MachineTypeOK, Objects
  <2>4. Objects' BY <2>1, <2>2, <1>2 DEF wait_for_overlord_start_cmd, Objects, NoIop, signal_run_iop
  <2>5. StartUp' BY <2>1, <2>2 DEF StartUp, Ready, AllIn, MachineTypeOK
  <2>6. Loaded' /\ Exits' BY <2>1, <2>2 DEF Loaded, Exits, StartUp, Ready, AllIn, Lives
  <2>7. Lives' /\ Serves' BY <2>1, <2>2 DEF Lives, Serves, StartUp, Ready, AllIn
  <2>8. VmLives' BY <2>1, <2>2 DEF VmLives, StartUp, Ready, AllIn
  <2> QED BY <2>3, <2>4, <2>5, <2>6, <2>7, <2>8
<1>3. CASE start_overlord
  <2>1. /\ where["IOP"] = "overlord" /\ where'["IOP"] = "loop"
        /\ DOMAIN where' = SystemThreads /\ where'["EE"] = where["EE"] /\ where'["DMP"] = where["DMP"]
        /\ where'["DMAC"] = where["DMAC"]
    BY <1>3 DEF start_overlord, Go, MachineTypeOK
  <2>2. /\ iop'.threads = OverlordThreads /\ iop'.live = iop.live /\ iop'.want_exit = iop.want_exit
        /\ iop'.asleep = iop.asleep /\ iop'.credit = iop.credit
    BY <1>3 DEF start_overlord, Objects, MachineTypeOK, NoIop, signal_run_iop, Crash
  <2>3. UNCHANGED <<args, run, process, mpc, starting, MasterExit, initialization_complete, wantExit, memory, server, vm>>
    BY <1>3 DEF start_overlord, mainVars, iopOnly
  <2>4. MachineTypeOK' BY <2>1, <2>2, <2>3, MachineAssumption DEF MachineTypeOK, Objects
  <2>5. Objects' BY <2>1, <2>2, <2>3, <1>3 DEF start_overlord, Objects, NoIop, signal_run_iop
  <2>6. StartUp' BY <2>1, <2>2, <2>3 DEF StartUp, Ready, AllIn, MachineTypeOK
  <2>7. Loaded' /\ Exits' BY <2>1, <2>2, <2>3 DEF Loaded, Exits, StartUp, Ready, AllIn, Lives
  <2>8. Lives' /\ Serves' BY <2>1, <2>2, <2>3 DEF Lives, Serves, StartUp, Ready, AllIn
  <2>9. VmLives' BY <2>1, <2>2, <2>3 DEF VmLives, StartUp, Ready, AllIn
  <2> QED BY <2>4, <2>5, <2>6, <2>7, <2>8, <2>9
<1>4. CASE iop_loop
  <2>1. /\ where["IOP"] = "loop" /\ where'["IOP"] \in {"wait run", "shutdown"}
        /\ where'["IOP"] = "shutdown" => wantExit["IOP"] \/ iop.want_exit
        /\ DOMAIN where' = SystemThreads /\ where'["EE"] = where["EE"] /\ where'["DMP"] = where["DMP"]
        /\ where'["DMAC"] = where["DMAC"]
    BY <1>4 DEF iop_loop, Go, MachineTypeOK
  <2>2. /\ iop'.live = iop.live /\ iop'.want_exit = iop.want_exit /\ iop'.threads = iop.threads
        /\ iop'.asleep = iop.asleep /\ iop'.credit = iop.credit
    BY <1>4 DEF iop_loop, Objects, MachineTypeOK, NoIop, signal_run_iop, Crash
  <2>3. UNCHANGED <<args, run, process, mpc, starting, MasterExit, initialization_complete, wantExit, memory, server, vm>>
    BY <1>4 DEF iop_loop, mainVars, iopOnly
  <2>4. MachineTypeOK' BY <2>1, <2>2, <2>3, MachineAssumption DEF MachineTypeOK, Objects
  <2>5. Objects' BY <2>1, <2>2, <2>3, <1>4 DEF iop_loop, Objects, NoIop, signal_run_iop
  <2>6. StartUp' BY <2>1, <2>2, <2>3 DEF StartUp, Ready, AllIn, MachineTypeOK
  <2>7. Loaded' /\ Exits' BY <2>1, <2>2, <2>3 DEF Loaded, Exits, StartUp, Ready, AllIn, Lives
  <2>8. Lives' /\ Serves' BY <2>1, <2>2, <2>3 DEF Lives, Serves, StartUp, Ready, AllIn
  <2>9. VmLives' BY <2>1, <2>2, <2>3 DEF VmLives, StartUp, Ready, AllIn
  <2> QED BY <2>4, <2>5, <2>6, <2>7, <2>8, <2>9
<1>5. CASE \E asleep \in SUBSET iop.threads : wait_run_iop(asleep)
  <2>1. /\ where["IOP"] = "wait run" /\ where'["IOP"] = "loop"
        /\ DOMAIN where' = SystemThreads /\ where'["EE"] = where["EE"] /\ where'["DMP"] = where["DMP"]
        /\ where'["DMAC"] = where["DMAC"]
    BY <1>5 DEF wait_run_iop, Go, MachineTypeOK
  <2>2. /\ iop.credit > 0 /\ iop'.credit = iop.credit - 1 /\ iop'.asleep \subseteq iop.threads
        /\ iop'.live = iop.live /\ iop'.want_exit = iop.want_exit /\ iop'.threads = iop.threads
    BY <1>5 DEF wait_run_iop, Objects, MachineTypeOK, NoIop, signal_run_iop, Crash
  <2>3. UNCHANGED <<args, run, process, mpc, starting, MasterExit, initialization_complete, wantExit, memory, server, vm>>
    BY <1>5 DEF wait_run_iop, mainVars, iopOnly
  <2>4. iop'.credit \in 0 .. ITERS /\ iop'.credit \in Nat
    <3>1. PICK c : c = iop.credit OBVIOUS
    <3>2. c \in 0 .. ITERS /\ c > 0 /\ iop'.credit = c - 1 /\ ITERS \in Nat
      BY <2>2, <3>1, MachineAssumption DEF MachineTypeOK
    <3> QED BY <3>2
  <2>5. MachineTypeOK' BY <2>1, <2>2, <2>3, <2>4, MachineAssumption DEF MachineTypeOK, Objects
  <2>6. Objects' BY <2>1, <2>2, <2>3, <2>4, <1>5 DEF wait_run_iop, Objects, NoIop, signal_run_iop
  <2>7. StartUp' BY <2>1, <2>2, <2>3, <2>4 DEF StartUp, Ready, AllIn, MachineTypeOK
  <2>8. Loaded' /\ Exits' BY <2>1, <2>2, <2>3, <2>4 DEF Loaded, Exits, StartUp, Ready, AllIn, Lives
  <2>9. Lives' /\ Serves' BY <2>1, <2>2, <2>3, <2>4 DEF Lives, Serves, StartUp, Ready, AllIn
  <2>10. VmLives' BY <2>1, <2>2, <2>3, <2>4 DEF VmLives, StartUp, Ready, AllIn
  <2> QED BY <2>5, <2>6, <2>7, <2>8, <2>9, <2>10
<1>6. CASE \E gone \in SUBSET iop.threads : shutdown_pass(gone)
  <2>0. PICK gone \in SUBSET iop.threads : shutdown_pass(gone) BY <1>6
  <2>1. /\ where["IOP"] = "shutdown"
        /\ iop'.asleep \subseteq iop'.threads /\ iop'.threads \subseteq iop.threads
        /\ iop'.live = iop.live /\ iop'.want_exit = iop.want_exit /\ iop'.credit = iop.credit
    <3>1. iop'.threads = iop.threads \ gone /\ iop'.asleep = iop.asleep /\ gone \cap iop.asleep = {}
      BY <2>0 DEF shutdown_pass, Objects
    <3>2. iop.asleep \subseteq iop.threads BY DEF MachineTypeOK
    <3>3. iop'.asleep \subseteq iop'.threads /\ iop'.threads \subseteq iop.threads BY <3>1, <3>2
    <3> QED BY <2>0, <3>3 DEF shutdown_pass, Objects
  <2>2. UNCHANGED <<where, args, run, process, mpc, starting, MasterExit, initialization_complete, wantExit, memory, server, vm>>
    BY <1>6 DEF shutdown_pass, mainVars, iopOnly
  <2>3. MachineTypeOK' BY <2>1, <2>2, MachineAssumption DEF MachineTypeOK, Objects
  <2>4. Objects' BY <2>1, <2>2, <1>6 DEF shutdown_pass, Objects, NoIop, signal_run_iop
  <2>5. StartUp' BY <2>1, <2>2 DEF StartUp, Ready, AllIn, MachineTypeOK
  <2>6. Loaded' /\ Exits' BY <2>1, <2>2 DEF Loaded, Exits, StartUp, Ready, AllIn, Lives
  <2>7. Lives' /\ Serves' BY <2>1, <2>2 DEF Lives, Serves, StartUp, Ready, AllIn
  <2>8. VmLives' BY <2>1, <2>2 DEF VmLives, StartUp, Ready, AllIn
  <2> QED BY <2>3, <2>4, <2>5, <2>6, <2>7, <2>8
<1>7. CASE shutdown_join
  <2>1. /\ where["IOP"] = "shutdown" /\ where'["IOP"] = "ended"
        /\ DOMAIN where' = SystemThreads /\ where'["EE"] = where["EE"] /\ where'["DMP"] = where["DMP"]
        /\ where'["DMAC"] = where["DMAC"]
    BY <1>7 DEF shutdown_join, Go, MachineTypeOK
  <2>2. /\ ~ iop'.live /\ iop.threads = {}
        /\ iop'.want_exit = iop.want_exit /\ iop'.threads = iop.threads /\ iop'.asleep = iop.asleep
        /\ iop'.credit = iop.credit
    BY <1>7 DEF shutdown_join, Objects, MachineTypeOK, NoIop, signal_run_iop, Crash
  <2>3. UNCHANGED <<args, run, process, mpc, starting, MasterExit, initialization_complete, wantExit, memory, server, vm>>
    BY <1>7 DEF shutdown_join, mainVars, iopOnly
  <2>4. MachineTypeOK' BY <2>1, <2>2, <2>3, MachineAssumption DEF MachineTypeOK, Objects
  <2>5. Objects' BY <2>1, <2>2, <2>3, <1>7 DEF shutdown_join, Objects, NoIop, signal_run_iop
  <2>6. StartUp' BY <2>1, <2>2, <2>3 DEF StartUp, Ready, AllIn, MachineTypeOK
  <2>7. Loaded' /\ Exits' BY <2>1, <2>2, <2>3 DEF Loaded, Exits, StartUp, Ready, AllIn, Lives
  <2>8. Lives' /\ Serves' BY <2>1, <2>2, <2>3 DEF Lives, Serves, StartUp, Ready, AllIn
  <2>9. VmLives' BY <2>1, <2>2, <2>3 DEF VmLives, StartUp, Ready, AllIn
  <2> QED BY <2>4, <2>5, <2>6, <2>7, <2>8, <2>9
<1>8. CASE iop_pass_unmapped
  <2>1. process' = "crash" BY <1>8 DEF iop_pass_unmapped, Crash
  <2>2. UNCHANGED <<where, args, run, mpc, starting, MasterExit, initialization_complete, wantExit, memory, iop, server, vm>>
    BY <1>8 DEF iop_pass_unmapped, mainVars, svars
  <2>3. MachineTypeOK' BY <2>1, <2>2 DEF MachineTypeOK
  <2>4. Objects' BY <2>2 DEF Objects
  <2>5. StartUp' BY <2>2 DEF StartUp, Ready, AllIn
  <2>6. Loaded' /\ Exits' BY <2>2 DEF Loaded, Exits
  <2>7. Lives' /\ Serves' BY <2>2 DEF Lives, Serves
  <2>8. VmLives' BY <2>2 DEF VmLives
  <2> QED BY <2>3, <2>4, <2>5, <2>6, <2>7, <2>8
<1> QED BY <1>1, <1>2, <1>3, <1>4, <1>5, <1>6, <1>7, <1>8 DEF IOP

\* The DECI2 server.
LEMMA DeciInv ==
    ASSUME MachineInv, process = "run", DECI \/ deci_run \/ deci_run_unmapped \/ accept_thread_func
    PROVE  MachineInv'
<1> USE TheThreads DEF MachineInv
<1>1. CASE deci_register
  <2>1. /\ where["DMP"] = "begin" /\ where'["DMP"] = "protos"
        /\ DOMAIN where' = SystemThreads /\ where'["EE"] = where["EE"] /\ where'["IOP"] = where["IOP"]
        /\ where'["DMAC"] = where["DMAC"]
    BY <1>1 DEF deci_register, Go, MachineTypeOK
  <2>2. /\ server'.live /\ server'.registered /\ ~ server'.protocols_ready /\ server'.accept = "none"
    BY <1>1 DEF deci_register, Objects, MachineTypeOK, NoServer
  <2>3. /\ initialization_complete' \in [SystemThreads -> BOOLEAN] /\ initialization_complete'["DMP"]
        /\ initialization_complete'["EE"] = initialization_complete["EE"]
        /\ initialization_complete'["IOP"] = initialization_complete["IOP"]
        /\ initialization_complete'["DMAC"] = initialization_complete["DMAC"]
    BY <1>1 DEF deci_register, Initialized, MachineTypeOK
  <2>4. UNCHANGED <<args, run, process, mpc, starting, MasterExit, wantExit, memory, iop, vm>>
    BY <1>1 DEF deci_register, mainVars, deciOnly
  <2>5. MachineTypeOK' BY <2>1, <2>2, <2>3, <2>4, MachineAssumption DEF MachineTypeOK, Objects
  <2>6. Objects' BY <2>1, <2>2, <2>3, <2>4, <1>1 DEF deci_register, Objects, NoServer
  <2>7. StartUp' BY <2>1, <2>2, <2>3, <2>4 DEF StartUp, Ready, AllIn, MachineTypeOK
  <2>8. Loaded' /\ Exits' BY <2>1, <2>2, <2>3, <2>4 DEF Loaded, Exits, StartUp, Ready, AllIn, Lives
  <2>9. Lives' /\ Serves' BY <2>1, <2>2, <2>3, <2>4 DEF Lives, Serves, StartUp, Ready, AllIn
  <2>10. VmLives' BY <2>1, <2>2, <2>3, <2>4 DEF VmLives, StartUp, Ready, AllIn
  <2> QED BY <2>5, <2>6, <2>7, <2>8, <2>9, <2>10
<1>2. CASE wait_for_protos_ready
  <2>1. /\ where["DMP"] = "protos" /\ where'["DMP"] = "init" /\ server.protocols_ready
        /\ DOMAIN where' = SystemThreads /\ where'["EE"] = where["EE"] /\ where'["IOP"] = where["IOP"]
        /\ where'["DMAC"] = where["DMAC"]
    BY <1>2 DEF wait_for_protos_ready, Go, MachineTypeOK
  <2>2. UNCHANGED <<args, run, process, mpc, starting, MasterExit, initialization_complete, wantExit, memory, iop, server, vm>>
    BY <1>2 DEF wait_for_protos_ready, mainVars, deciOnly
  <2>3. MachineTypeOK' BY <2>1, <2>2, MachineAssumption DEF MachineTypeOK, Objects
  <2>4. Objects' BY <2>1, <2>2, <1>2 DEF wait_for_protos_ready, Objects
  <2>5. StartUp' BY <2>1, <2>2 DEF StartUp, Ready, AllIn, MachineTypeOK
  <2>6. Loaded' /\ Exits' BY <2>1, <2>2 DEF Loaded, Exits, StartUp, Ready, AllIn, Lives
  <2>7. Lives' /\ Serves' BY <2>1, <2>2 DEF Lives, Serves, StartUp, Ready, AllIn
  <2>8. VmLives' BY <2>1, <2>2 DEF VmLives, StartUp, Ready, AllIn
  <2> QED BY <2>3, <2>4, <2>5, <2>6, <2>7, <2>8
<1>3. CASE deci_init
  <2>1. /\ where["DMP"] = "init"
        /\ \/ where'["DMP"] = "loop" /\ process' = process
           \/ where' = where /\ server' = server /\ process' = "crash"
        /\ DOMAIN where' = SystemThreads /\ where'["EE"] = where["EE"] /\ where'["IOP"] = where["IOP"]
        /\ where'["DMAC"] = where["DMAC"]
    BY <1>3 DEF deci_init, Go, Crash, MachineTypeOK
  <2>2. /\ server'.registered = server.registered /\ server'.live = server.live
        /\ server'.protocols_ready = server.protocols_ready
    BY <1>3 DEF deci_init, Objects, MachineTypeOK, Crash
  <2>3. UNCHANGED <<args, run, mpc, starting, MasterExit, initialization_complete, wantExit, memory, iop, vm>>
    BY <1>3 DEF deci_init, mainVars, deciOnly
  <2>4. MachineTypeOK' BY <2>1, <2>2, <2>3, MachineAssumption DEF MachineTypeOK, Objects
  <2>5. Objects' BY <2>1, <2>2, <2>3, <1>3 DEF deci_init, Objects
  <2>6. StartUp' BY <2>1, <2>2, <2>3 DEF StartUp, Ready, AllIn, MachineTypeOK
  <2>7. Loaded' /\ Exits' BY <2>1, <2>2, <2>3 DEF Loaded, Exits, StartUp, Ready, AllIn, Lives
  <2>8. Lives' /\ Serves' BY <2>1, <2>2, <2>3 DEF Lives, Serves, StartUp, Ready, AllIn
  <2>9. VmLives' BY <2>1, <2>2, <2>3 DEF VmLives, StartUp, Ready, AllIn
  <2> QED BY <2>4, <2>5, <2>6, <2>7, <2>8, <2>9
<1>4. CASE deci_loop_ends
  <2>1. /\ where["DMP"] = "loop" /\ where'["DMP"] = "destroy" /\ wantExit["DMP"]
        /\ DOMAIN where' = SystemThreads /\ where'["EE"] = where["EE"] /\ where'["IOP"] = where["IOP"]
        /\ where'["DMAC"] = where["DMAC"]
    BY <1>4 DEF deci_loop_ends, Go, MachineTypeOK
  <2>2. UNCHANGED <<args, run, process, mpc, starting, MasterExit, initialization_complete, wantExit, memory, iop, server, vm>>
    BY <1>4 DEF deci_loop_ends, mainVars, deciOnly
  <2>3. MachineTypeOK' BY <2>1, <2>2, MachineAssumption DEF MachineTypeOK, Objects
  <2>4. Objects' BY <2>1, <2>2, <1>4 DEF deci_loop_ends, Objects
  <2>5. StartUp' BY <2>1, <2>2 DEF StartUp, Ready, AllIn, MachineTypeOK
  <2>6. Loaded' /\ Exits' BY <2>1, <2>2 DEF Loaded, Exits, StartUp, Ready, AllIn, Lives
  <2>7. Lives' /\ Serves' BY <2>1, <2>2 DEF Lives, Serves, StartUp, Ready, AllIn
  <2>8. VmLives' BY <2>1, <2>2 DEF VmLives, StartUp, Ready, AllIn
  <2> QED BY <2>3, <2>4, <2>5, <2>6, <2>7, <2>8
<1>5. CASE deci_destroy
  <2>1. /\ where["DMP"] = "destroy" /\ where'["DMP"] = "ended"
        /\ DOMAIN where' = SystemThreads /\ where'["EE"] = where["EE"] /\ where'["IOP"] = where["IOP"]
        /\ where'["DMAC"] = where["DMAC"]
    BY <1>5 DEF deci_destroy, Go, MachineTypeOK
  <2>2. /\ ~ server'.live /\ server'.registered = server.registered
        /\ server'.protocols_ready = server.protocols_ready /\ server'.accept = "done"
    BY <1>5 DEF deci_destroy, Objects, MachineTypeOK
  <2>3. UNCHANGED <<args, run, process, mpc, starting, MasterExit, initialization_complete, wantExit, memory, iop, vm>>
    BY <1>5 DEF deci_destroy, mainVars, deciOnly
  <2>4. MachineTypeOK' BY <2>1, <2>2, <2>3, MachineAssumption DEF MachineTypeOK, Objects
  <2>5. Objects' BY <2>1, <2>2, <2>3, <1>5 DEF deci_destroy, Objects
  <2>6. StartUp' BY <2>1, <2>2, <2>3 DEF StartUp, Ready, AllIn, MachineTypeOK
  <2>7. Loaded' /\ Exits' BY <2>1, <2>2, <2>3 DEF Loaded, Exits, StartUp, Ready, AllIn, Lives
  <2>8. Lives' /\ Serves' BY <2>1, <2>2, <2>3 DEF Lives, Serves, StartUp, Ready, AllIn
  <2>9. VmLives' BY <2>1, <2>2, <2>3 DEF VmLives, StartUp, Ready, AllIn
  <2> QED BY <2>4, <2>5, <2>6, <2>7, <2>8, <2>9
<1>6. CASE accept_thread_func
  <2>1. /\ server'.registered = server.registered /\ server'.live = server.live
        /\ server'.protocols_ready = server.protocols_ready /\ server'.accept = "done"
    BY <1>6 DEF accept_thread_func, Objects, MachineTypeOK
  <2>2. UNCHANGED <<where, args, run, process, mpc, starting, MasterExit, initialization_complete, wantExit, memory, iop, vm>>
    BY <1>6 DEF accept_thread_func, mainVars, deciOnly
  <2>3. MachineTypeOK' BY <2>1, <2>2, MachineAssumption DEF MachineTypeOK, Objects
  <2>4. Objects' BY <2>1, <2>2, <1>6 DEF accept_thread_func, Objects
  <2>5. StartUp' BY <2>1, <2>2 DEF StartUp, Ready, AllIn, MachineTypeOK
  <2>6. Loaded' /\ Exits' BY <2>1, <2>2 DEF Loaded, Exits, StartUp, Ready, AllIn, Lives
  <2>7. Lives' /\ Serves' BY <2>1, <2>2 DEF Lives, Serves, StartUp, Ready, AllIn
  <2>8. VmLives' BY <2>1, <2>2 DEF VmLives, StartUp, Ready, AllIn
  <2> QED BY <2>3, <2>4, <2>5, <2>6, <2>7, <2>8
<1>7. CASE deci_run \/ deci_run_stops
  <2>1. /\ \/ where["DMP"] = "loop" /\ where'["DMP"] = "message"
           \/ where["DMP"] = "message" /\ where'["DMP"] = "loop"
        /\ DOMAIN where' = SystemThreads /\ where'["EE"] = where["EE"] /\ where'["IOP"] = where["IOP"]
        /\ where'["DMAC"] = where["DMAC"]
    BY <1>7 DEF deci_run, deci_run_stops, Go, MachineTypeOK
  <2>2. UNCHANGED <<args, run, process, mpc, starting, MasterExit, initialization_complete, wantExit, memory, iop, server, vm>>
    BY <1>7 DEF deci_run, deci_run_stops, mainVars, deciOnly
  <2>3. MachineTypeOK' BY <2>1, <2>2, MachineAssumption DEF MachineTypeOK, Objects
  <2>4. Objects' BY <2>2 DEF Objects
  <2>5. StartUp' BY <2>1, <2>2 DEF StartUp, Ready, AllIn, MachineTypeOK
  <2>6. Loaded' /\ Exits' BY <2>1, <2>2 DEF Loaded, Exits
  <2>7. Lives' /\ Serves' BY <2>1, <2>2 DEF Lives, Serves
  <2>8. VmLives' BY <2>1, <2>2 DEF VmLives
  <2> QED BY <2>3, <2>4, <2>5, <2>6, <2>7, <2>8
<1>8. CASE deci_run_unmapped
  <2>1. process' = "crash" BY <1>8 DEF deci_run_unmapped, Crash
  <2>2. UNCHANGED <<where, args, run, mpc, starting, MasterExit, initialization_complete, wantExit, memory, iop, server, vm>>
    BY <1>8 DEF deci_run_unmapped, mainVars, deciOnly
  <2>3. MachineTypeOK' BY <2>1, <2>2 DEF MachineTypeOK
  <2>4. Objects' BY <2>2 DEF Objects
  <2>5. StartUp' BY <2>2 DEF StartUp, Ready, AllIn
  <2>6. Loaded' /\ Exits' BY <2>2 DEF Loaded, Exits
  <2>7. Lives' /\ Serves' BY <2>2 DEF Lives, Serves
  <2>8. VmLives' BY <2>2 DEF VmLives
  <2> QED BY <2>3, <2>4, <2>5, <2>6, <2>7, <2>8
<1> QED BY <1>1, <1>2, <1>3, <1>4, <1>5, <1>6, <1>7, <1>8 DEF DECI

\* The DMAC.
LEMMA DmacInv ==
    ASSUME MachineInv, process = "run", DMAC
    PROVE  MachineInv'
<1> USE TheThreads DEF MachineInv
<1>1. CASE null_runner
  <2>1. /\ where["DMAC"] = "begin" /\ where'["DMAC"] = "ended"
        /\ DOMAIN where' = SystemThreads /\ where'["EE"] = where["EE"] /\ where'["IOP"] = where["IOP"]
        /\ where'["DMP"] = where["DMP"]
    BY <1>1 DEF null_runner, Go, MachineTypeOK
  <2>2. /\ initialization_complete' \in [SystemThreads -> BOOLEAN] /\ initialization_complete'["DMAC"]
        /\ initialization_complete'["EE"] = initialization_complete["EE"]
        /\ initialization_complete'["IOP"] = initialization_complete["IOP"]
        /\ initialization_complete'["DMP"] = initialization_complete["DMP"]
    BY <1>1 DEF null_runner, Initialized, MachineTypeOK
  <2>3. UNCHANGED <<args, run, process, mpc, starting, MasterExit, wantExit, memory, iop, server, vm>>
    BY <1>1 DEF null_runner, mainVars, dmacOnly
  <2>4. MachineTypeOK' BY <2>1, <2>2, <2>3, MachineAssumption DEF MachineTypeOK, Objects
  <2>5. Objects' BY <2>1, <2>2, <2>3, <1>1 DEF null_runner, Objects
  <2>6. StartUp' BY <2>1, <2>2, <2>3 DEF StartUp, Ready, AllIn, MachineTypeOK
  <2>7. Loaded' /\ Exits' BY <2>1, <2>2, <2>3 DEF Loaded, Exits, StartUp, Ready, AllIn, Lives
  <2>8. Lives' /\ Serves' BY <2>1, <2>2, <2>3 DEF Lives, Serves, StartUp, Ready, AllIn
  <2>9. VmLives' BY <2>1, <2>2, <2>3 DEF VmLives, StartUp, Ready, AllIn
  <2> QED BY <2>4, <2>5, <2>6, <2>7, <2>8, <2>9
<1>2. CASE subscribe_component
  <2>1. /\ where["DMAC"] = "begin" /\ where'["DMAC"] \in {"begin", "subscribed"}
        /\ DOMAIN where' = SystemThreads /\ where'["EE"] = where["EE"] /\ where'["IOP"] = where["IOP"]
        /\ where'["DMP"] = where["DMP"]
    BY <1>2 DEF subscribe_component, Go, MachineTypeOK
  <2>2. /\ \/ vm.status = "Dead" /\ vm' = vm /\ where' = where /\ process' = "crash"
           \/ vm.status # "Dead" /\ where'["DMAC"] = "subscribed" /\ vm'.status = vm.status /\ vm'.components = 1 /\ process' = process
        /\ args.vm
    <3>1. vm.components = 0 BY <2>1 DEF VmLives
    <3>2. vm.components + 1 = 1 BY <3>1
    <3> QED BY <1>2, <3>2 DEF subscribe_component, Go, MachineTypeOK, Objects, Crash
  <2>3. UNCHANGED <<args, run, mpc, starting, MasterExit, initialization_complete, wantExit, memory, iop, server>>
    BY <1>2 DEF subscribe_component, mainVars, dmacOnly
  <2>4. MachineTypeOK' BY <2>1, <2>2, <2>3, MachineAssumption DEF MachineTypeOK, Objects
  <2>5. Objects' BY <2>1, <2>2, <2>3, <1>2 DEF subscribe_component, Objects
  <2>6. StartUp' BY <2>1, <2>2, <2>3 DEF StartUp, Ready, AllIn, MachineTypeOK
  <2>7. Loaded' /\ Exits' BY <2>1, <2>2, <2>3 DEF Loaded, Exits, StartUp, Ready, AllIn, Lives
  <2>8. Lives' /\ Serves' BY <2>1, <2>2, <2>3 DEF Lives, Serves, StartUp, Ready, AllIn
  <2>9. VmLives' BY <2>1, <2>2, <2>3 DEF VmLives, StartUp, Ready, AllIn, MachineTypeOK
  <2> QED BY <2>4, <2>5, <2>6, <2>7, <2>8, <2>9
<1>3. CASE subscribe_check
  <2>1. /\ where["DMAC"] = "subscribed"
        /\ where'["DMAC"] = IF vm.status = "Uninited" THEN "vm wait" ELSE "globals"
        /\ DOMAIN where' = SystemThreads /\ where'["EE"] = where["EE"] /\ where'["IOP"] = where["IOP"]
        /\ where'["DMP"] = where["DMP"]
    BY <1>3 DEF subscribe_check, Go, MachineTypeOK
  <2>2. UNCHANGED <<args, run, process, mpc, starting, MasterExit, initialization_complete, wantExit, memory, iop, server, vm>>
    BY <1>3 DEF subscribe_check, mainVars, dmacOnly
  <2>3. MachineTypeOK' BY <2>1, <2>2, MachineAssumption DEF MachineTypeOK, Objects
  <2>4. Objects' BY <2>1, <2>2, <1>3 DEF subscribe_check, Objects
  <2>5. StartUp' BY <2>1, <2>2 DEF StartUp, Ready, AllIn, MachineTypeOK
  <2>6. Loaded' /\ Exits' BY <2>1, <2>2 DEF Loaded, Exits, StartUp, Ready, AllIn, Lives
  <2>7. Lives' /\ Serves' BY <2>1, <2>2 DEF Lives, Serves, StartUp, Ready, AllIn
  <2>8. VmLives' BY <2>1, <2>2 DEF VmLives, StartUp, Ready, AllIn, MachineTypeOK
  <2> QED BY <2>3, <2>4, <2>5, <2>6, <2>7, <2>8
<1>4. CASE wait_vm_init
  <2>1. /\ where["DMAC"] = "vm wait" /\ where'["DMAC"] = IF vm.status = "Inited" THEN "globals" ELSE "blocked"
        /\ DOMAIN where' = SystemThreads /\ where'["EE"] = where["EE"] /\ where'["IOP"] = where["IOP"]
        /\ where'["DMP"] = where["DMP"]
    BY <1>4 DEF wait_vm_init, Go, MachineTypeOK
  <2>2. UNCHANGED <<args, run, process, mpc, starting, MasterExit, initialization_complete, wantExit, memory, iop, server, vm>>
    BY <1>4 DEF wait_vm_init, mainVars, dmacOnly
  <2>3. MachineTypeOK' BY <2>1, <2>2, MachineAssumption DEF MachineTypeOK, Objects
  <2>4. Objects' BY <2>1, <2>2, <1>4 DEF wait_vm_init, Objects
  <2>5. StartUp' BY <2>1, <2>2 DEF StartUp, Ready, AllIn, MachineTypeOK
  <2>6. Loaded' /\ Exits' BY <2>1, <2>2 DEF Loaded, Exits, StartUp, Ready, AllIn, Lives
  <2>7. Lives' /\ Serves' BY <2>1, <2>2 DEF Lives, Serves, StartUp, Ready, AllIn
  <2>8. VmLives' BY <2>1, <2>2 DEF VmLives, StartUp, Ready, AllIn
  <2> QED BY <2>3, <2>4, <2>5, <2>6, <2>7, <2>8
<1>5. CASE dmac_init_globals
  <2>1. /\ where["DMAC"] = "globals" /\ where'["DMAC"] = "loop"
        /\ DOMAIN where' = SystemThreads /\ where'["EE"] = where["EE"] /\ where'["IOP"] = where["IOP"]
        /\ where'["DMP"] = where["DMP"]
    BY <1>5 DEF dmac_init_globals, Go, MachineTypeOK
  <2>2. /\ initialization_complete' \in [SystemThreads -> BOOLEAN] /\ initialization_complete'["DMAC"]
        /\ initialization_complete'["EE"] = initialization_complete["EE"]
        /\ initialization_complete'["IOP"] = initialization_complete["IOP"]
        /\ initialization_complete'["DMP"] = initialization_complete["DMP"]
    BY <1>5 DEF dmac_init_globals, Initialized, MachineTypeOK
  <2>3. UNCHANGED <<args, run, process, mpc, starting, MasterExit, wantExit, memory, iop, server, vm>>
    BY <1>5 DEF dmac_init_globals, mainVars, dmacOnly
  <2>4. MachineTypeOK' BY <2>1, <2>2, <2>3, MachineAssumption DEF MachineTypeOK, Objects
  <2>5. Objects' BY <2>1, <2>2, <2>3, <1>5 DEF dmac_init_globals, Objects
  <2>6. StartUp' BY <2>1, <2>2, <2>3 DEF StartUp, Ready, AllIn, MachineTypeOK
  <2>7. Loaded' /\ Exits' BY <2>1, <2>2, <2>3 DEF Loaded, Exits, StartUp, Ready, AllIn, Lives
  <2>8. Lives' /\ Serves' BY <2>1, <2>2, <2>3 DEF Lives, Serves, StartUp, Ready, AllIn
  <2>9. VmLives' BY <2>1, <2>2, <2>3 DEF VmLives, StartUp, Ready, AllIn
  <2> QED BY <2>4, <2>5, <2>6, <2>7, <2>8, <2>9
<1>6. CASE dmac_loop_ends
  <2>1. /\ where["DMAC"] = "loop" /\ where'["DMAC"] = "unsubscribe"
        /\ DOMAIN where' = SystemThreads /\ where'["EE"] = where["EE"] /\ where'["IOP"] = where["IOP"]
        /\ where'["DMP"] = where["DMP"]
    BY <1>6 DEF dmac_loop_ends, Go, MachineTypeOK
  <2>2. UNCHANGED <<args, run, process, mpc, starting, MasterExit, initialization_complete, wantExit, memory, iop, server, vm>>
    BY <1>6 DEF dmac_loop_ends, mainVars, dmacOnly
  <2>3. MachineTypeOK' BY <2>1, <2>2, MachineAssumption DEF MachineTypeOK, Objects
  <2>4. Objects' BY <2>1, <2>2, <1>6 DEF dmac_loop_ends, Objects
  <2>5. StartUp' BY <2>1, <2>2 DEF StartUp, Ready, AllIn, MachineTypeOK
  <2>6. Loaded' /\ Exits' BY <2>1, <2>2 DEF Loaded, Exits, StartUp, Ready, AllIn, Lives
  <2>7. Lives' /\ Serves' BY <2>1, <2>2 DEF Lives, Serves, StartUp, Ready, AllIn
  <2>8. VmLives' BY <2>1, <2>2 DEF VmLives, StartUp, Ready, AllIn
  <2> QED BY <2>3, <2>4, <2>5, <2>6, <2>7, <2>8
<1>7. CASE unsubscribe_component
  <2>1. /\ where["DMAC"] = "unsubscribe" /\ where'["DMAC"] = "ended"
        /\ DOMAIN where' = SystemThreads /\ where'["EE"] = where["EE"] /\ where'["IOP"] = where["IOP"]
        /\ where'["DMP"] = where["DMP"]
    BY <1>7 DEF unsubscribe_component, Go, MachineTypeOK
  <2>2. /\ vm'.status = vm.status /\ vm'.components = 0
    <3>1. vm.components = 1 BY <2>1 DEF VmLives
    <3>2. vm.components - 1 = 0 BY <3>1
    <3> QED BY <1>7, <3>2 DEF unsubscribe_component, Objects
  <2>3. UNCHANGED <<args, run, process, mpc, starting, MasterExit, initialization_complete, wantExit, memory, iop, server>>
    BY <1>7 DEF unsubscribe_component, mainVars, dmacOnly
  <2>4. MachineTypeOK' BY <2>1, <2>2, <2>3, MachineAssumption DEF MachineTypeOK, Objects
  <2>5. Objects' BY <2>1, <2>2, <2>3, <1>7 DEF unsubscribe_component, Objects
  <2>6. StartUp' BY <2>1, <2>2, <2>3 DEF StartUp, Ready, AllIn, MachineTypeOK
  <2>7. Loaded' /\ Exits' BY <2>1, <2>2, <2>3 DEF Loaded, Exits, StartUp, Ready, AllIn, Lives
  <2>8. Lives' /\ Serves' BY <2>1, <2>2, <2>3 DEF Lives, Serves, StartUp, Ready, AllIn
  <2>9. VmLives' BY <2>1, <2>2, <2>3 DEF VmLives, StartUp, Ready, AllIn, MachineTypeOK
  <2> QED BY <2>4, <2>5, <2>6, <2>7, <2>8, <2>9
<1> QED BY <1>1, <1>2, <1>3, <1>4, <1>5, <1>6, <1>7 DEF DMAC

\* A step after which the process has crashed is one of the six calls.
LEMMA CrashStep ==
    ASSUME MachineInv, process = "run", MachineNext
    PROVE  CrashWindows'
<1> USE TheThreads DEF MachineInv
<1> SUFFICES ASSUME process' = "crash"
             PROVE  NullServer' \/ NoSocket' \/ DeadVm' \/ GoneIop' \/ UnmappedEarly'
  BY DEF CrashWindows
<1>1. \/ InitGoalProto \/ deci_init \/ subscribe_component \/ kill_from_ee_signal
      \/ iop_pass_unmapped \/ deci_run_unmapped
  <2>1. ~ (Main \/ CloseWindow)
    BY DEF Main, CloseWindow, prepare, start, start_wait, DisplayEnds, join_deci, join, return
  <2>2. ~ ee_rpc /\ ~ \E code \in {1, 2} : SetMasterExit(code) BY DEF ee_rpc, SetMasterExit
  <2>3. EE => InitGoalProto \/ kill_from_ee_signal
    BY DEF EE, ee_map, sceSifLoadModule, wait_for_overlord_init_finish, InitHeapAndSymbol, vm_kill, wait_vm_dead,
           kill_from_ee, ee_unmap, trigger_shutdown
  <2>4. ~ IOP
    BY DEF IOP, iopOnly, iop_register, wait_for_overlord_start_cmd, start_overlord, iop_loop, wait_run_iop,
           shutdown_pass, shutdown_join
  <2>5. DECI => deci_init
    BY DEF DECI, deci_register, wait_for_protos_ready, deci_run_stops, deci_loop_ends, deci_destroy
  <2>6. ~ deci_run /\ ~ accept_thread_func BY DEF deci_run, accept_thread_func
  <2>7. DMAC => subscribe_component
    BY DEF DMAC, null_runner, subscribe_check, wait_vm_init, dmac_init_globals, dmac_loop_ends, unsubscribe_component
  <2> QED BY <2>1, <2>2, <2>3, <2>4, <2>5, <2>6, <2>7 DEF MachineNext
<1>2. CASE InitGoalProto
  <2>1. args.debug /\ ~ server.registered /\ where["EE"] = "proto" /\ UNCHANGED <<args, where, mpc>>
    BY <1>2 DEF InitGoalProto, mainVars
  <2>2. where["DMP"] \in {"none", "begin"} /\ mpc \in {"start", "started"}
    BY <2>1 DEF MachineTypeOK, StartUp, Ready, AllIn, Lives
  <2> QED BY <2>1, <2>2 DEF NullServer
<1>3. CASE deci_init
  <2>1. where["DMP"] = "init" /\ UNCHANGED <<args, where>> BY <1>3 DEF deci_init, deciOnly, mainVars
  <2> QED BY <2>1 DEF NoSocket, Serves
<1>4. CASE subscribe_component
  <2>1. args.vm /\ where["DMAC"] = "begin" /\ vm.status = "Dead" /\ UNCHANGED <<args, where>>
    BY <1>4 DEF subscribe_component, dmacOnly, mainVars
  <2> QED BY <2>1 DEF DeadVm, VmLives
<1>5. CASE kill_from_ee_signal
  <2>1. where["EE"] = "signal" /\ ~ iop.live /\ UNCHANGED where BY <1>5 DEF kill_from_ee_signal
  <2>2. where["IOP"] = "ended" BY <2>1 DEF Lives, StartUp
  <2> QED BY <2>1, <2>2 DEF GoneIop
<1>6. CASE iop_pass_unmapped
  <2>1. ~ memory /\ where["IOP"] \in {"wait run", "shutdown"} /\ UNCHANGED where
    BY <1>6 DEF iop_pass_unmapped, svars
  <2>2. where["EE"] \in {"trigger", "ended"} BY <2>1 DEF Lives, Loaded, Exits
  <2> QED BY <2>1, <2>2 DEF UnmappedEarly
<1>7. CASE deci_run_unmapped
  <2>1. ~ memory /\ where["DMP"] = "message" /\ UNCHANGED <<args, where>>
    BY <1>7 DEF deci_run_unmapped, deciOnly, mainVars
  <2>2. where["EE"] \in {"trigger", "ended"} BY <2>1 DEF Lives, StartUp
  <2> QED BY <2>1, <2>2 DEF UnmappedEarly, Serves
<1> QED BY <1>1, <1>2, <1>3, <1>4, <1>5, <1>6, <1>7

\* What the threads rely on is there, the DMAC looks at mapped memory only, a
\* run leaves nothing to the next, and the process crashes in the five windows
\* of CrashWindows only, which are defects of the code: for any command line,
\* any number of threads of the overlord, any budget of iterations and any
\* number of resets.
THEOREM MachineSafety == MachineSpec => []ThreadsSound
<1>1. (MachineInv /\ CrashWindows) /\ [MachineNext]_machineVars => (MachineInv /\ CrashWindows)'
  <2>1. ASSUME MachineInv, CrashWindows, MachineNext PROVE MachineInv' /\ CrashWindows'
    BY <2>1, MainInv, EeInv, IopInv, DeciInv, DmacInv, CrashStep DEF MachineNext
  <2>2. ASSUME MachineInv, CrashWindows, UNCHANGED machineVars PROVE MachineInv' /\ CrashWindows'
    <3> USE <2>2 DEF MachineInv, machineVars, svars
    <3>1. MachineTypeOK' BY DEF MachineTypeOK
    <3>2. Objects' BY DEF Objects
    <3>3. StartUp' BY DEF StartUp, Ready, AllIn
    <3>4. Loaded' /\ Exits' BY DEF Loaded, Exits
    <3>5. Lives' /\ Serves' BY DEF Lives, Serves
    <3>6. VmLives' BY DEF VmLives
    <3>7. CrashWindows' BY DEF CrashWindows, NullServer, NoSocket, DeadVm, GoneIop, UnmappedEarly
    <3> QED BY <3>1, <3>2, <3>3, <3>4, <3>5, <3>6, <3>7
  <2> QED BY <2>1, <2>2
<1>2. MachineInit => CrashWindows BY DEF MachineInit, CrashWindows
<1> QED BY MachineInitInv, <1>1, <1>2, MachineInvSuffices, PTL DEF MachineSpec
===============================================================================
