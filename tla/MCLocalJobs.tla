----------------------------- MODULE MCLocalJobs -----------------------------
(* LocalJobs for TLC.  One request submitted in two different seconds, one  *)
(* of the same creator and parents with another input, one of another       *)
(* creator.  Workers and callers are interchangeable, and so are the two    *)
(* seconds.                                                                 *)
EXTENDS LocalJobsProperties, TLC

CONSTANTS early, late, otherInput, otherCreator

Fingerprints == [r \in Requests |-> IF r = late THEN early ELSE r]
Origins == [r \in Requests |-> IF r = otherCreator THEN otherCreator ELSE early]

Interchangeable ==
    Permutations(Callers) \cup Permutations(Workers) \cup Permutations({early, late})
=============================================================================
