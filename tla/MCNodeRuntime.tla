----------------------------- MODULE MCNodeRuntime -----------------------------
(* NodeRuntime for TLC: two processes, two machines, one piece of work. *)
EXTENDS NodeRuntimeProperties, TLC

CONSTANTS p1, p2, n1, n2, w1

Symmetry == Permutations(Processes) \cup Permutations(Nodes)
=============================================================================
