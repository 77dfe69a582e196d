------------------------------ MODULE MCThreads ------------------------------
(* The threads of the host and their handshakes: the threads of a run of the *)
(* game (Machine) and, within the IOP, the kernel and the threads it         *)
(* dispatches (IopHandshake).  One of the two is explored at a time.         *)
EXTENDS IopHandshake, Machine

VARIABLE part

threadsVars == <<part, hvars, machineVars>>

ThreadsInit ==
    /\ part \in {"handshake", "machine"} /\ HandshakeInit /\ MachineInit
    /\ part = "handshake" => args = CHOOSE a \in CommandLines : TRUE

Handshake(step)   == part = "handshake" /\ step /\ UNCHANGED <<part, machineVars>>
MachinePart(step) == part = "machine" /\ step /\ UNCHANGED <<part, hvars>>

ThreadsNext == Handshake(HandshakeNext) \/ MachinePart(MachineNext)

\* The fairness of HandshakeFair and of MachineFairSpec.
ThreadsSpec ==
    /\ ThreadsInit /\ [][ThreadsNext]_threadsVars
    /\ WF_threadsVars(Handshake(HandshakeKernel))
    /\ \A t \in IopThreads : WF_threadsVars(Handshake(HandshakeThread(t)))
    /\ WF_threadsVars(MachinePart(Alive(Main))) /\ WF_threadsVars(MachinePart(Alive(EE)))
    /\ WF_threadsVars(MachinePart(Alive(IOP))) /\ WF_threadsVars(MachinePart(Alive(DECI)))
    /\ WF_threadsVars(MachinePart(Alive(DMAC))) /\ WF_threadsVars(MachinePart(Alive(accept_thread_func)))
==============================================================================
