-------------------------------- MODULE Task --------------------------------
(* The algorithms of the tools are functions.  A task is one input of one of *)
(* them with what it returns; there is one task per state.                   *)

\* The algorithms a run asks for.
CONSTANT Algorithms

VARIABLE task

\* Nothing done yet; then a task of this algorithm.
Asked(algorithm) == [kind |-> "asked", of |-> algorithm]

TaskInit == \E algorithm \in Algorithms : task = Asked(algorithm)
=============================================================================
