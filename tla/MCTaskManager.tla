---------------------------- MODULE MCTaskManager ----------------------------
(***************************************************************************)
(* TaskManager on small instances: t waits for a and b, or for a alone.    *)
(***************************************************************************)
EXTENDS TaskManager, TLC

CONSTANTS a, b, t

FanIn == {<<a, t>>, <<b, t>>}

OneEdge == {<<a, t>>}

(* Goroutines are interchangeable.  Only for runs without liveness. *)
Symmetric == Permutations(Clients) \cup Permutations(Workers)

=============================================================================
