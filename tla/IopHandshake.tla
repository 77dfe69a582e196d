---------------------------- MODULE IopHandshake ----------------------------
(***************************************************************************)
(* How the IOP kernel runs one of its threads at a time: every IOP thread  *)
(* is a thread of the host, and it and the kernel pass control to each     *)
(* other with two flags and two condition variables per thread record.     *)
(* One of the flags is reset outside its mutex by whoever gives control    *)
(* away.  Every access to a flag is a step of its own here; IopKernel sees *)
(* a dispatch and the return from it as one step each.                     *)
(***************************************************************************)
EXTENDS Naturals

CONSTANTS
    IopThreads,     \* the threads of the overlord
    NoOne           \* _currentThread = -1

ASSUME HandshakeAssumption == NoOne \notin IopThreads

VARIABLES
    currentThread,      \* _currentThread
    kpc,                \* where the kernel is with currentThread
    tpc,                \* where each thread is
    runThreadReady, syscallReady,
    started, done

hvars == <<currentThread, kpc, tpc, runThreadReady, syscallReady, started, done>>

HandshakeInit ==
    /\ currentThread = NoOne /\ kpc = "kernel"
    /\ tpc = [t \in IopThreads |-> "none"]
    /\ runThreadReady = [t \in IopThreads |-> FALSE]
    /\ syscallReady = [t \in IopThreads |-> FALSE]
    /\ started = [t \in IopThreads |-> FALSE]
    /\ done = [t \in IopThreads |-> FALSE]

Goto(t, from, to) == tpc[t] = from /\ tpc' = [tpc EXCEPT ![t] = to]

-----------------------------------------------------------------------------
(* The kernel.                                                             *)

\* CreateThread starts the host's thread, which runs setupThread, and waits for it.
CreateThread(t) ==
    /\ kpc = "kernel" /\ currentThread = NoOne
    /\ Goto(t, "none", "return")
    /\ currentThread' = t /\ kpc' = "wait"
    /\ UNCHANGED <<runThreadReady, syscallReady, started, done>>

\* runThread from StartThread, called once a thread has been set up.
StartThread(t) ==
    /\ kpc = "kernel" /\ currentThread = NoOne /\ tpc[t] # "none" /\ ~started[t] /\ ~done[t]
    /\ started' = [started EXCEPT ![t] = TRUE]
    /\ currentThread' = t /\ kpc' = "clear"
    /\ UNCHANGED <<tpc, runThreadReady, syscallReady, done>>

\* One turn of dispatchAll.
dispatchAll(t) ==
    /\ kpc = "kernel" /\ started[t] /\ ~done[t]
    /\ currentThread' = t /\ kpc' = "clear"
    /\ UNCHANGED <<tpc, runThreadReady, syscallReady, started, done>>

\* dispatch: the answer of last time is reset, outside the mutex ...
dispatch_clear ==
    /\ kpc = "clear"
    /\ syscallReady' = [syscallReady EXCEPT ![currentThread] = FALSE]
    /\ kpc' = "ready"
    /\ UNCHANGED <<currentThread, tpc, runThreadReady, started, done>>

\* ... then the thread may run, and is notified after the mutex is released.
dispatch_ready ==
    /\ kpc = "ready"
    /\ runThreadReady' = [runThreadReady EXCEPT ![currentThread] = TRUE]
    /\ kpc' = "notify"
    /\ UNCHANGED <<currentThread, tpc, syscallReady, started, done>>

dispatch_notify ==
    /\ kpc = "notify"
    /\ tpc' = [tpc EXCEPT ![currentThread] = IF @ = "blocked" THEN "wait" ELSE @]
    /\ kpc' = "wait"
    /\ UNCHANGED <<currentThread, runThreadReady, syscallReady, started, done>>

\* waitForReturnToKernel: the flag is tested under the mutex, and the kernel
\* blocks with the mutex held, so that no notification falls in between.
waitForReturnToKernel ==
    /\ kpc = "wait"
    /\ IF syscallReady[currentThread]
       THEN kpc' = "kernel" /\ currentThread' = NoOne
       ELSE kpc' = "blocked" /\ UNCHANGED currentThread
    /\ UNCHANGED <<tpc, runThreadReady, syscallReady, started, done>>

-----------------------------------------------------------------------------
(* A thread.                                                               *)

\* Mutant: the thread's own flag is not reset before control is given back.
returnToKernel_NoClear(t) ==
    /\ Goto(t, "return", "syscall")
    /\ UNCHANGED <<currentThread, kpc, runThreadReady, syscallReady, started, done>>

\* returnToKernel: the permission to run is reset outside the mutex ...
returnToKernel(t) ==
    /\ Goto(t, "return", "syscall")
    /\ runThreadReady' = [runThreadReady EXCEPT ![t] = FALSE]
    /\ UNCHANGED <<currentThread, kpc, syscallReady, started, done>>

\* ... control is given back ...
returnToKernel_syscall(t) ==
    /\ Goto(t, "syscall", "notify")
    /\ syscallReady' = [syscallReady EXCEPT ![t] = TRUE]
    /\ UNCHANGED <<currentThread, kpc, runThreadReady, started, done>>

\* Mutant: the kernel is not notified.
returnToKernel_notify_Lost(t) ==
    /\ Goto(t, "notify", IF done[t] THEN "end" ELSE "wait")
    /\ UNCHANGED <<currentThread, kpc, runThreadReady, syscallReady, started, done>>

\* ... and the kernel is notified, if it waits for this thread.
returnToKernel_notify(t) ==
    /\ Goto(t, "notify", IF done[t] THEN "end" ELSE "wait")
    /\ kpc' = IF kpc = "blocked" /\ currentThread = t THEN "wait" ELSE kpc
    /\ UNCHANGED <<currentThread, runThreadReady, syscallReady, started, done>>

\* waitForDispatch.
waitForDispatch(t) ==
    /\ Goto(t, "wait", IF runThreadReady[t] THEN "user" ELSE "blocked")
    /\ UNCHANGED <<currentThread, kpc, runThreadReady, syscallReady, started, done>>

\* SuspendThread from a thread's own code.
SuspendThread(t) ==
    /\ Goto(t, "user", "return")
    /\ UNCHANGED <<currentThread, kpc, runThreadReady, syscallReady, started, done>>

\* SleepThread: not dispatched again until it is woken up.
SleepThread(t) ==
    /\ Goto(t, "user", "return")
    /\ started' = [started EXCEPT ![t] = FALSE]
    /\ UNCHANGED <<currentThread, kpc, runThreadReady, syscallReady, done>>

\* WakeupThread, called by the thread that runs.
WakeupThread(t, u) ==
    /\ tpc[t] = "user" /\ ~started[u] /\ tpc[u] # "none"
    /\ started' = [started EXCEPT ![u] = TRUE]
    /\ UNCHANGED <<currentThread, kpc, tpc, runThreadReady, syscallReady, done>>

\* The thread's function returns to setupThread.
ThreadReturns(t) ==
    /\ Goto(t, "user", "return")
    /\ done' = [done EXCEPT ![t] = TRUE]
    /\ UNCHANGED <<currentThread, kpc, runThreadReady, syscallReady, started>>

-----------------------------------------------------------------------------
HandshakeKernel == dispatch_clear \/ dispatch_ready \/ dispatch_notify \/ waitForReturnToKernel

Leave(t) == SuspendThread(t) \/ SleepThread(t) \/ ThreadReturns(t)

HandshakeThread(t) ==
    \/ returnToKernel(t) \/ returnToKernel_syscall(t) \/ returnToKernel_notify(t)
    \/ waitForDispatch(t) \/ Leave(t)

HandshakeNext ==
    \/ HandshakeKernel
    \/ \E t \in IopThreads : \/ CreateThread(t) \/ StartThread(t) \/ dispatchAll(t)
                             \/ HandshakeThread(t)
                             \/ \E u \in IopThreads : WakeupThread(t, u)

HandshakeSpec == HandshakeInit /\ [][HandshakeNext]_hvars

\* The host schedules every thread, and a thread's code does not run forever.
HandshakeFair ==
    /\ WF_hvars(HandshakeKernel)
    /\ \A t \in IopThreads : WF_hvars(HandshakeThread(t))

HandshakeFairSpec == HandshakeSpec /\ HandshakeFair

-----------------------------------------------------------------------------
HandshakeTypeOK ==
    /\ currentThread \in IopThreads \cup {NoOne}
    /\ kpc \in {"kernel", "clear", "ready", "notify", "wait", "blocked"}
    /\ tpc \in [IopThreads -> {"none", "return", "syscall", "notify", "wait", "blocked", "user", "end"}]
    /\ runThreadReady \in [IopThreads -> BOOLEAN] /\ syscallReady \in [IopThreads -> BOOLEAN]
    /\ started \in [IopThreads -> BOOLEAN] /\ done \in [IopThreads -> BOOLEAN]

\* A thread's code runs only while the kernel waits for that thread, so never
\* together with another thread's or with the kernel, although both sides
\* write the flags outside the mutexes.  This is what the assertions on
\* _currentThread in SuspendThread, dispatch and returnToKernel check.
OneRuns ==
    \A t \in IopThreads :
        tpc[t] \in {"user", "return", "syscall"} => currentThread = t /\ kpc \in {"notify", "wait", "blocked"}

\* No notification is lost: the kernel gets control back from every thread it dispatches.
KernelReturns == (kpc # "kernel") ~> (kpc = "kernel")
=============================================================================
