-------------------------- MODULE MCLocalTransport --------------------------
(* LocalTransport for TLC: a batch of two, and one that adds a third. *)
EXTENDS LocalTransportProperties, TLC
CONSTANTS p1, p2
TwoNodes == {1, 2}
ThreeAssignments == (3 :> 1) @@ (4 :> 2) @@ (5 :> 1)
ShortAndLong == {{3, 4}, {3, 4, 5}}
Symmetric == Permutations(Procs)
=============================================================================
