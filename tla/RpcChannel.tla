------------------------------ MODULE RpcChannel ------------------------------
(***************************************************************************)
(* What the SIF promises its users on the EE: a call is answered exactly   *)
(* once, its answer is in the receive buffer when the channel stops being  *)
(* busy, and the buffer is not touched again until the next call.  A       *)
(* caller that has seen its channel idle may call; nothing else is needed  *)
(* (no other caller, no IOP thread, can make the channel busy).            *)
(***************************************************************************)
CONSTANTS
    Channels, Requests,
    Silent,           \* requests without a receive buffer
    Nothing,          \* a buffer that was never written
    Answer(_),        \* what one execution of the handler makes of its buffer
    Aborted(_)        \* ... when the IOP is stopping

VARIABLES
    phase,            \* per channel: "idle", "called" or "answered"
    request,          \* per channel: the last request
    recv,             \* per channel: the EE's receive buffer
    seen,             \* channels the EE has seen idle since its last call
    stopping          \* the EE has told the IOP to stop

chanVars == <<phase, request, recv, seen, stopping>>

ChanInit ==
    /\ phase = [ch \in Channels |-> "idle"]
    /\ request \in [Channels -> Requests]
    /\ recv = [ch \in Channels |-> Nothing]
    /\ seen = {}
    /\ stopping = FALSE

See(ch) ==
    /\ phase[ch] = "idle"
    /\ seen' = seen \cup {ch}
    /\ UNCHANGED <<phase, request, recv, stopping>>

Call(ch, r) ==
    /\ phase[ch] = "idle" /\ ch \in seen /\ ~stopping
    /\ phase' = [phase EXCEPT ![ch] = "called"]
    /\ request' = [request EXCEPT ![ch] = r]
    /\ seen' = seen \ {ch}
    /\ UNCHANGED <<recv, stopping>>

\* The answer is that of one execution of the handler on the request.
Reply(ch) ==
    /\ phase[ch] = "called"
    /\ phase' = [phase EXCEPT ![ch] = "answered"]
    /\ IF request[ch] \in Silent
       THEN UNCHANGED recv
       ELSE \/ recv' = [recv EXCEPT ![ch] = Answer(request[ch])]
            \/ stopping /\ recv' = [recv EXCEPT ![ch] = Aborted(request[ch])]
    /\ UNCHANGED <<request, seen, stopping>>

Release(ch) ==
    /\ phase[ch] = "answered"
    /\ phase' = [phase EXCEPT ![ch] = "idle"]
    /\ UNCHANGED <<request, recv, seen, stopping>>

Stop ==
    /\ stopping' = TRUE
    /\ UNCHANGED <<phase, request, recv, seen>>

ChanNext ==
    \/ \E ch \in Channels :
          See(ch) \/ Reply(ch) \/ Release(ch) \/ \E r \in Requests : Call(ch, r)
    \/ Stop

ChanSpec == ChanInit /\ [][ChanNext]_chanVars
===============================================================================
