------------------------------ MODULE Machine ------------------------------
(***************************************************************************)
(* One process, from the start of its four system threads to their end,    *)
(* and again after a reset: exec_runtime and the runners of runtime.cpp,   *)
(* SystemThread.cpp, the start of the overlord and the end of the IOP      *)
(* (iop_thread.cpp, sif_ee.cpp, overlord.cpp), the DECI2 server's life     *)
(* (Deci2Server.cpp), and the fake VM that the DMAC thread belongs to      *)
(* (vm.cpp).  A pass of the IOP's kernel over its threads is one step:     *)
(* IopKernel and IopHandshake look into it.                                *)
(***************************************************************************)
EXTENDS Naturals, Sequences

CONSTANTS
    OverlordThreads,     \* the threads of the overlord
    CommandLines,   \* -boot or -debug, -vm or -novm, -nodisplay or not
    ITERS,          \* iterations of the IOP kernel per signal
    MaxRuns         \* bound on the calls of exec_runtime

ASSUME MachineAssumption ==
    /\ CommandLines \subseteq [debug : BOOLEAN, vm : BOOLEAN, display : BOOLEAN]
    /\ ITERS \in Nat \ {0} /\ MaxRuns \in Nat \ {0}

VARIABLES
    args,           \* the command line
    run,            \* which call of exec_runtime this is
    process,        \* "run"; or "exit" (from main), "failed" (exit(1)), "crash"
    mpc, starting,  \* the main thread; the system thread that it starts
    MasterExit,
    where,          \* where each system thread is in its runner
    initialization_complete, wantExit,   \* of each SystemThread
    memory,         \* g_ee_main_mem is mapped
    iop,            \* the IOP object of iop_runner, and what is in it
    server,         \* the server object of deci2_runner, and what is in it
    vm              \* status and components of vm.cpp

\* Every command line, and that of a player.
Every == [debug : BOOLEAN, vm : BOOLEAN, display : BOOLEAN]
Player == {[debug |-> FALSE, vm |-> FALSE, display |-> TRUE]}

svars == <<where, initialization_complete, wantExit>>
machineVars == <<args, run, process, mpc, starting, MasterExit, svars, memory, iop, server, vm>>

\* In the order of create_thread, and in that of SystemThread::start.
Created == <<"DMP", "IOP", "EE", "DMAC">>
StartOrder == <<"IOP", "EE", "DMP", "DMAC">>
SystemThreads == {Created[i] : i \in 1 .. 4}

NoIop == [live |-> FALSE, status |-> "WAIT_FOR_LOAD", init_done |-> FALSE,
          want_exit |-> FALSE, credit |-> 0, closing |-> FALSE,
          threads |-> {}, asleep |-> {}]
NoServer == [registered |-> FALSE, live |-> FALSE, protocols_ready |-> FALSE, accept |-> "none"]

MachineInit ==
    /\ args \in CommandLines
    /\ run = 1 /\ process = "run"
    /\ mpc = "prepare" /\ starting = 1 /\ MasterExit = 0
    /\ where = [s \in SystemThreads |-> "none"]
    /\ initialization_complete = [s \in SystemThreads |-> FALSE]
    /\ wantExit = [s \in SystemThreads |-> FALSE]
    /\ memory = FALSE /\ iop = NoIop /\ server = NoServer
    /\ vm = [status |-> "Uninited", components |-> 0]

Go(s, from, to) == where[s] = from /\ where' = [where EXCEPT ![s] = to]
Initialized(s) == initialization_complete' = [initialization_complete EXCEPT ![s] = TRUE]

-----------------------------------------------------------------------------
(* The main thread: exec_runtime, in the loop of main.                     *)

\* The libraries forget their servers, the VM is prepared, and the four
\* threads are created.
prepare ==
    /\ mpc = "prepare"
    /\ mpc' = "start" /\ starting' = 1
    /\ where' = [s \in SystemThreads |-> "none"]
    /\ initialization_complete' = [s \in SystemThreads |-> FALSE]
    /\ wantExit' = [s \in SystemThreads |-> FALSE]
    /\ server' = [server EXCEPT !.registered = FALSE]
    /\ vm' = [vm EXCEPT !.status = "Uninited"]
    /\ UNCHANGED <<args, run, process, MasterExit, memory, iop>>

\* The VM's thread runs null_runner when the VM is not used.
start ==
    /\ mpc = "start"
    /\ where' = [where EXCEPT ![StartOrder[starting]] = "begin"]
    /\ mpc' = "started"
    /\ UNCHANGED <<args, run, process, starting, MasterExit, initialization_complete, wantExit,
                   memory, iop, server, vm>>

start_wait ==
    /\ mpc = "started" /\ initialization_complete[StartOrder[starting]]
    /\ IF starting < 4 THEN mpc' = "start" /\ starting' = starting + 1
                       ELSE mpc' = "display" /\ UNCHANGED starting
    /\ UNCHANGED <<args, run, process, MasterExit, svars, memory, iop, server, vm>>

all_threads_exiting == \A s \in SystemThreads : wantExit[s]

\* Gfx::Loop, on the main thread: closing the window asks for an exit.
CloseWindow ==
    /\ mpc = "display" /\ args.display /\ MasterExit # 2
    /\ MasterExit' = 2
    /\ UNCHANGED <<args, run, process, mpc, starting, svars, memory, iop, server, vm>>

DisplayEnds ==
    /\ mpc = "display" /\ (args.display => all_threads_exiting)
    /\ mpc' = "join deci"
    /\ UNCHANGED <<args, run, process, starting, MasterExit, svars, memory, iop, server, vm>>

\* DECI is joined; then every thread is told to stop.
join_deci ==
    /\ mpc = "join deci" /\ where["DMP"] = "ended"
    /\ mpc' = "join"
    /\ wantExit' = [s \in SystemThreads |-> TRUE]
    /\ UNCHANGED <<args, run, process, starting, MasterExit, where, initialization_complete, memory,
                   iop, server, vm>>

join ==
    /\ mpc = "join" /\ \A s \in SystemThreads : where[s] = "ended"
    /\ mpc' = "return"
    /\ UNCHANGED <<args, run, process, starting, MasterExit, svars, memory, iop, server, vm>>

\* exec_runtime returns MasterExit to main.
return ==
    /\ mpc = "return"
    /\ IF MasterExit = 2
       THEN process' = "exit" /\ UNCHANGED <<run, mpc>>
       ELSE run < MaxRuns /\ run' = run + 1 /\ mpc' = "prepare" /\ UNCHANGED process
    /\ UNCHANGED <<args, starting, MasterExit, svars, memory, iop, server, vm>>

Main == prepare \/ start \/ start_wait \/ DisplayEnds \/ join_deci \/ join \/ return

-----------------------------------------------------------------------------
(* The EE.                                                                 *)

mainVars == <<args, run, mpc, starting>>
\* The process ends in a call that does not return.
Crash == process' = "crash"

\* mmap; when it fails the thread returns, and nobody is told.
ee_map ==
    /\ Initialized("EE")
    /\ \/ Go("EE", "begin", "boot") /\ memory' = TRUE
       \/ Go("EE", "begin", "ended") /\ UNCHANGED memory
    /\ UNCHANGED <<mainVars, process, MasterExit, wantExit, iop, server, vm>>

\* kboot_init_globals, then InitIOP: sceSifLoadModule starts the overlord ...
sceSifLoadModule ==
    /\ Go("EE", "boot", "overlord")
    /\ MasterExit' = 0
    /\ iop' = [iop EXCEPT !.status = "OVERLORD_INIT"]
    /\ UNCHANGED <<mainVars, process, initialization_complete, wantExit, memory, server, vm>>

\* ... and waits for it.
wait_for_overlord_init_finish ==
    /\ iop.init_done
    /\ Go("EE", "overlord", "proto")
    /\ UNCHANGED <<mainVars, process, MasterExit, initialization_complete, wantExit, memory, iop, server,
                   vm>>

\* InitGoalProto opens the protocol, in debug mode only: the server is the one
\* that deci2_runner has registered by now, or a null pointer.
InitGoalProto ==
    /\ where["EE"] = "proto"
    /\ \/ ~args.debug /\ Go("EE", "proto", "heap") /\ UNCHANGED <<server, process>>
       \/ args.debug /\ server.registered /\ Go("EE", "proto", "heap")
          /\ server' = [server EXCEPT !.protocols_ready = TRUE] /\ UNCHANGED process
       \/ args.debug /\ ~server.registered /\ Crash /\ UNCHANGED <<server, where>>
    /\ UNCHANGED <<mainVars, MasterExit, initialization_complete, wantExit, memory, iop, vm>>

\* InitHeapAndSymbol: vm_init, whose notification wakes up the DMAC thread;
\* or loading the kernel fails, and the process exits.
InitHeapAndSymbol ==
    /\ where["EE"] = "heap"
    /\ where' = [where EXCEPT !["EE"] = "loop",
                              !["DMAC"] = IF args.vm /\ @ = "blocked" THEN "vm wait" ELSE @]
    /\ vm' = IF args.vm THEN [vm EXCEPT !.status = "Inited"] ELSE vm
    /\ process' \in {"run", "failed"}
    /\ UNCHANGED <<mainVars, MasterExit, initialization_complete, wantExit, memory, iop, server>>

signal_run_iop == iop' = [iop EXCEPT !.credit = ITERS]

\* A remote procedure call, or a poll of one.
ee_rpc ==
    /\ where["EE"] = "loop" /\ iop.credit < ITERS
    /\ signal_run_iop
    /\ UNCHANGED <<mainVars, process, MasterExit, svars, memory, server, vm>>

\* A reset or a shutdown from the listener or from GOAL.
SetMasterExit(code) ==
    /\ where["EE"] = "loop" /\ MasterExit = 0
    /\ MasterExit' = code
    /\ UNCHANGED <<mainVars, process, svars, memory, iop, server, vm>>

\* KernelCheckAndDispatch returns; ShutdownMachine closes the protocol and
\* kills the VM ...
vm_kill ==
    /\ MasterExit # 0
    /\ Go("EE", "loop", IF args.vm THEN "vm dead" ELSE "kill")
    /\ vm' = IF args.vm THEN [vm EXCEPT !.status = "Kill"] ELSE vm
    /\ UNCHANGED <<mainVars, process, MasterExit, initialization_complete, wantExit, memory, iop, server>>

\* Mutant: the VM is dead as soon as it has been told to die.
wait_vm_dead_Not ==
    /\ Go("EE", "vm dead", "kill")
    /\ vm' = [vm EXCEPT !.status = "Dead"]
    /\ UNCHANGED <<mainVars, process, MasterExit, initialization_complete, wantExit, memory, iop, server>>

\* ... and waits until its components are gone.
wait_vm_dead ==
    /\ vm.components = 0
    /\ Go("EE", "vm dead", "kill")
    /\ vm' = [vm EXCEPT !.status = "Dead"]
    /\ UNCHANGED <<mainVars, process, MasterExit, initialization_complete, wantExit, memory, iop, server>>

\* LIBRARY_kill, in its two steps.
kill_from_ee ==
    /\ Go("EE", "kill", "signal")
    /\ iop' = [iop EXCEPT !.want_exit = TRUE]
    /\ UNCHANGED <<mainVars, process, MasterExit, initialization_complete, wantExit, memory, server,
                   vm>>

\* Mutant: an IOP that waits for iterations is not woken up.
kill_from_ee_signal_Not ==
    /\ Go("EE", "signal", "unmap")
    /\ UNCHANGED <<mainVars, process, MasterExit, initialization_complete, wantExit, memory, iop, server,
                   vm>>

\* The IOP may have seen the flag and be gone by now: its mutex, on a stack that
\* has been reused, is taken, is never free, or brings the process down.
kill_from_ee_signal ==
    /\ where["EE"] = "signal"
    /\ \/ iop.live /\ Go("EE", "signal", "unmap") /\ signal_run_iop /\ UNCHANGED process
       \/ ~iop.live /\ (Go("EE", "signal", "unmap") \/ Go("EE", "signal", "hung"))
          /\ UNCHANGED <<iop, process>>
       \/ ~iop.live /\ Crash /\ UNCHANGED <<where, iop>>
    /\ UNCHANGED <<mainVars, MasterExit, initialization_complete, wantExit, memory, server, vm>>

ee_unmap ==
    /\ Go("EE", "unmap", "trigger")
    /\ memory' = FALSE
    /\ UNCHANGED <<mainVars, process, MasterExit, initialization_complete, wantExit, iop, server, vm>>

\* trigger_shutdown: one thread after the other is told to stop.
trigger_shutdown ==
    /\ where["EE"] = "trigger"
    /\ IF all_threads_exiting
       THEN Go("EE", "trigger", "ended") /\ UNCHANGED wantExit
       ELSE /\ \E i \in 1 .. 4 : /\ ~wantExit[Created[i]] /\ \A j \in 1 .. i - 1 : wantExit[Created[j]]
                                 /\ wantExit' = [wantExit EXCEPT ![Created[i]] = TRUE]
            /\ UNCHANGED where
    /\ UNCHANGED <<mainVars, process, MasterExit, initialization_complete, memory, iop, server, vm>>

EE ==
    \/ ee_map \/ sceSifLoadModule \/ wait_for_overlord_init_finish \/ InitGoalProto \/ InitHeapAndSymbol
    \/ vm_kill \/ wait_vm_dead \/ kill_from_ee \/ kill_from_ee_signal \/ ee_unmap \/ trigger_shutdown

-----------------------------------------------------------------------------
(* The IOP: iop_runner.                                                    *)

iopOnly == <<mainVars, process, MasterExit, wantExit, memory, server, vm>>

\* A new IOP object is registered with both libraries.
iop_register ==
    /\ Go("IOP", "begin", "wait start") /\ Initialized("IOP")
    /\ iop' = [NoIop EXCEPT !.live = TRUE]
    /\ UNCHANGED iopOnly

wait_for_overlord_start_cmd ==
    /\ iop.status = "OVERLORD_INIT"
    /\ Go("IOP", "wait start", "overlord")
    /\ UNCHANGED <<iopOnly, initialization_complete, iop>>

\* start_overlord creates and starts the threads; then the EE is told.
start_overlord ==
    /\ Go("IOP", "overlord", "loop")
    /\ iop' = [iop EXCEPT !.threads = OverlordThreads, !.init_done = TRUE]
    /\ UNCHANGED <<iopOnly, initialization_complete>>

\* The loop: asked to exit, it goes on to IOP_Kernel::shutdown.
iop_loop ==
    /\ LET exits == wantExit["IOP"] \/ iop.want_exit IN
       /\ Go("IOP", "loop", IF exits THEN "shutdown" ELSE "wait run")
       /\ iop' = [iop EXCEPT !.closing = exits]
    /\ UNCHANGED <<iopOnly, initialization_complete>>

\* Granted an iteration, the kernel runs every thread that is not asleep; some
\* go to sleep, and some are woken up by one that runs.
wait_run_iop(asleep) ==
    /\ iop.credit > 0
    /\ iop.asleep = iop.threads => asleep = iop.asleep
    /\ Go("IOP", "wait run", "loop")
    /\ iop' = [iop EXCEPT !.credit = @ - 1, !.asleep = asleep]
    /\ UNCHANGED <<iopOnly, initialization_complete>>

\* shutdown dispatches until every thread has returned: a thread that runs
\* sees that it should, now or after another pass.
shutdown_pass(gone) ==
    /\ where["IOP"] = "shutdown" /\ gone # {} /\ gone \subseteq iop.threads \ iop.asleep
    /\ iop' = [iop EXCEPT !.threads = @ \ gone]
    /\ UNCHANGED <<iopOnly, where, initialization_complete>>

\* A thread that runs answers a call, or copies a page, into the EE's memory,
\* which the EE has unmapped.
iop_pass_unmapped ==
    /\ ~memory /\ iop.asleep # iop.threads
    /\ where["IOP"] = "shutdown" \/ (where["IOP"] = "wait run" /\ iop.credit > 0)
    /\ Crash
    /\ UNCHANGED <<mainVars, MasterExit, svars, memory, iop, server, vm>>

\* They are joined, and the IOP object goes out of scope.
shutdown_join ==
    /\ iop.threads = {}
    /\ Go("IOP", "shutdown", "ended")
    /\ iop' = [iop EXCEPT !.live = FALSE]
    /\ UNCHANGED <<iopOnly, initialization_complete>>

IOP ==
    \/ iop_register \/ wait_for_overlord_start_cmd \/ start_overlord \/ iop_loop
    \/ \E asleep \in SUBSET iop.threads : wait_run_iop(asleep)
    \/ \E gone \in SUBSET iop.threads : shutdown_pass(gone)
    \/ shutdown_join

-----------------------------------------------------------------------------
(* The DECI2 server: deci2_runner.                                         *)

deciOnly == <<mainVars, MasterExit, wantExit, memory, iop, vm>>

deci_register ==
    /\ Go("DMP", "begin", "protos") /\ Initialized("DMP")
    /\ server' = [NoServer EXCEPT !.registered = TRUE, !.live = TRUE]
    /\ UNCHANGED <<deciOnly, process>>

wait_for_protos_ready ==
    /\ server.protocols_ready
    /\ Go("DMP", "protos", "init")
    /\ UNCHANGED <<deciOnly, process, initialization_complete, server>>

\* The socket is opened, and a thread accepts a listener; or an assertion fails.
deci_init ==
    /\ where["DMP"] = "init"
    /\ \/ Go("DMP", "init", "loop") /\ server' = [server EXCEPT !.accept = "run"] /\ UNCHANGED process
       \/ Crash /\ UNCHANGED <<server, where>>
    /\ UNCHANGED <<deciOnly, initialization_complete>>

\* Deci2Server::run: the parts of a message go to the handler of the protocol,
\* which is looked up once, when the header is there; the last one may never come.
deci_run ==
    /\ \/ /\ server.accept = "done" /\ where["EE"] \in {"heap", "loop"}
          /\ Go("DMP", "loop", "message")
       \/ Go("DMP", "message", "loop")
    /\ UNCHANGED <<deciOnly, process, initialization_complete, server>>

deci_run_stops ==
    /\ wantExit["DMP"]
    /\ Go("DMP", "message", "loop")
    /\ UNCHANGED <<deciOnly, process, initialization_complete, server>>

\* The handler copies a part into the message buffer, which has been unmapped.
deci_run_unmapped ==
    /\ ~memory /\ where["DMP"] = "message"
    /\ Crash
    /\ UNCHANGED <<deciOnly, where, initialization_complete, server>>

deci_loop_ends ==
    /\ wantExit["DMP"]
    /\ Go("DMP", "loop", "destroy")
    /\ UNCHANGED <<deciOnly, process, initialization_complete, server>>

\* accept_thread_func returns with a listener, or when the server is destroyed.
accept_thread_func ==
    /\ server.accept = "run"
    /\ server' = [server EXCEPT !.accept = "done"]
    /\ UNCHANGED <<deciOnly, process, where, initialization_complete>>

\* The destructor joins the accept thread.
deci_destroy ==
    /\ server.accept = "done"
    /\ Go("DMP", "destroy", "ended")
    /\ server' = [server EXCEPT !.live = FALSE]
    /\ UNCHANGED <<deciOnly, process, initialization_complete>>

DECI ==
    \/ deci_register \/ wait_for_protos_ready \/ deci_init \/ deci_run_stops \/ deci_loop_ends \/ deci_destroy

-----------------------------------------------------------------------------
(* The DMAC of the fake VM: dmac_runner, or null_runner.                   *)

dmacOnly == <<mainVars, MasterExit, wantExit, memory, iop, server>>

null_runner ==
    /\ ~args.vm
    /\ Go("DMAC", "begin", "ended") /\ Initialized("DMAC")
    /\ UNCHANGED <<dmacOnly, process, vm>>

\* subscribe_component throws when the VM is dead; nothing catches that.
subscribe_component ==
    /\ args.vm /\ where["DMAC"] = "begin"
    /\ IF vm.status = "Dead" THEN Crash /\ UNCHANGED <<vm, where>>
       ELSE /\ Go("DMAC", "begin", "subscribed")
            /\ vm' = [vm EXCEPT !.components = @ + 1] /\ UNCHANGED process
    /\ UNCHANGED <<dmacOnly, initialization_complete>>

subscribe_check ==
    /\ Go("DMAC", "subscribed", IF vm.status = "Uninited" THEN "vm wait" ELSE "globals")
    /\ UNCHANGED <<dmacOnly, process, initialization_complete, vm>>

\* wait_vm_init: woken up by vm_init, the thread looks at the status again.
wait_vm_init ==
    /\ Go("DMAC", "vm wait", IF vm.status = "Inited" THEN "globals" ELSE "blocked")
    /\ UNCHANGED <<dmacOnly, process, initialization_complete, vm>>

\* dmac_init_globals allocates the channels on a GOAL heap.
dmac_init_globals ==
    /\ Go("DMAC", "globals", "loop") /\ Initialized("DMAC")
    /\ UNCHANGED <<dmacOnly, process, vm>>

dmac_loop_ends ==
    /\ wantExit["DMAC"] \/ vm.status \in {"Kill", "Dead"}
    /\ Go("DMAC", "loop", "unsubscribe")
    /\ UNCHANGED <<dmacOnly, process, initialization_complete, vm>>

unsubscribe_component ==
    /\ Go("DMAC", "unsubscribe", "ended")
    /\ vm' = [vm EXCEPT !.components = @ - 1]
    /\ UNCHANGED <<dmacOnly, process, initialization_complete>>

DMAC ==
    \/ null_runner \/ subscribe_component \/ subscribe_check \/ wait_vm_init \/ dmac_init_globals
    \/ dmac_loop_ends \/ unsubscribe_component

-----------------------------------------------------------------------------
MachineNext ==
    /\ process = "run"
    /\ \/ Main \/ CloseWindow
       \/ EE \/ ee_rpc \/ \E code \in {1, 2} : SetMasterExit(code)
       \/ IOP \/ iop_pass_unmapped
       \/ DECI \/ deci_run \/ deci_run_unmapped \/ accept_thread_func
       \/ DMAC

MachineSpec == MachineInit /\ [][MachineNext]_machineVars

Alive(A) == process = "run" /\ A

\* The host schedules every thread, and every loop of an IOP thread looks
\* whether it should end.
MachineFairSpec ==
    /\ MachineSpec
    /\ WF_machineVars(Alive(Main)) /\ WF_machineVars(Alive(EE)) /\ WF_machineVars(Alive(IOP))
    /\ WF_machineVars(Alive(DECI)) /\ WF_machineVars(Alive(DMAC)) /\ WF_machineVars(Alive(accept_thread_func))

-----------------------------------------------------------------------------
(* Properties.                                                             *)

MachineTypeOK ==
    /\ args \in CommandLines
    /\ run \in 1 .. MaxRuns /\ process \in {"run", "exit", "failed", "crash"}
    /\ mpc \in {"prepare", "start", "started", "display", "join deci", "join", "return"}
    /\ starting \in 1 .. 4 /\ MasterExit \in {0, 1, 2}
    /\ DOMAIN where = SystemThreads
    /\ initialization_complete \in [SystemThreads -> BOOLEAN] /\ wantExit \in [SystemThreads -> BOOLEAN]
    /\ memory \in BOOLEAN
    /\ iop.credit \in 0 .. ITERS /\ iop.asleep \subseteq iop.threads /\ iop.threads \subseteq OverlordThreads
    /\ vm.status \in {"Uninited", "Inited", "Kill", "Dead"} /\ vm.components \in {0, 1}

\* Where a thread relies on an object, the object is there: the EE's memory and
\* the IOP until the EE has told the IOP to exit, the DECI2 server once a
\* protocol is open and as long as the accept thread runs.
UsesLiveObjects ==
    /\ where["EE"] \in {"boot", "overlord", "proto", "heap", "loop", "vm dead", "kill"} => memory /\ iop.live
    /\ where["EE"] \in {"heap", "loop", "vm dead", "kill"} /\ args.debug => server.live
    /\ server.accept = "run" => server.live

\* The DMAC's channels are in the EE's memory: vm_kill keeps the EE from
\* unmapping it until the DMAC has looked at them for the last time.
DmacSeesMemory == where["DMAC"] \in {"globals", "loop"} => memory

\* "run the runtime in a loop so we can reset the game and have it restart
\* cleanly" (main.cpp): nothing of the last run is left when the next begins.
OldRunGone ==
    mpc = "prepare" =>
        /\ ~memory /\ ~iop.live /\ iop.threads = {} /\ ~server.live /\ vm.components = 0

\* The calls in which the process crashes, by where the threads are.  The EE
\* opens its protocol before the DECI2 thread has registered its server, which
\* needs the main thread to be starting the threads still ...
NullServer == args.debug /\ where["EE"] = "proto" /\ where["DMP"] \in {"none", "begin"} /\ mpc \in {"start", "started"}
\* ... the DECI2 thread gets no socket ...
NoSocket == args.debug /\ where["DMP"] = "init"
\* ... the DMAC comes into a VM that has been killed ...
DeadVm == args.vm /\ where["DMAC"] = "begin" /\ where["EE"] \in {"kill", "signal", "hung", "unmap", "trigger", "ended"}
\* ... the EE signals an IOP that is gone ...
GoneIop == where["EE"] = "signal" /\ where["IOP"] = "ended"
\* ... or the EE has unmapped its memory under the IOP's threads, or under a
\* message that the DECI2 thread is in the middle of.
UnmappedEarly ==
    /\ where["EE"] \in {"trigger", "ended"}
    /\ where["IOP"] \in {"wait run", "shutdown"} \/ (args.debug /\ where["DMP"] = "message")

\* There is no other way to crash: none while GOAL runs, once the threads are
\* started and there is a socket.
CrashWindows == process = "crash" => NullServer \/ NoSocket \/ DeadVm \/ GoneIop \/ UnmappedEarly

\* Once GOAL has been told to exit, exec_runtime returns: in debug mode, unless
\* an IOP thread is asleep, the DMAC is still on its way into the VM, or the EE
\* waits for the mutex of an IOP that is gone.
ExitReturns ==
    ( /\ where["EE"] = "loop" /\ MasterExit # 0
      /\ args.debug /\ (args.vm => where["DMAC"] = "loop") )
    ~> (mpc = "return" \/ process # "run" \/ iop.asleep # {} \/ where["EE"] = "hung")

\* As main.cpp says, of every way to run the game.
ResetRestarts == (where["EE"] = "loop" /\ MasterExit # 0) ~> (mpc = "return" \/ process # "run")

\* A thread of a run uses what is not there yet, is gone, or is of another run
\* in the CrashWindows only.
ThreadsSound == MachineTypeOK /\ UsesLiveObjects /\ DmacSeesMemory /\ OldRunGone /\ CrashWindows
=============================================================================
