----------------------------- MODULE MCIopKernel -----------------------------
(* Instances of IopKernel: the DGO channel polls, the STR channel sleeps,   *)
(* the PLAYER channel answers at once.                                      *)
EXTENDS IopKernel

CONSTANTS DGO, STR, PLAYER

Handlers == [ch \in Channels |-> CASE ch = DGO -> "poll" [] ch = STR -> "sleep" [] OTHER -> "now"]

\* Thread IDs: the RPC threads of overlord.cpp come before those of InitISOFS,
\* of which the ISO thread is the first.
Created == SelectSeq(<<PLAYER, Iso, DGO, STR>>, LAMBDA t : t \in Threads)
=============================================================================
