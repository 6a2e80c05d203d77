----------------------------- MODULE MCLocalFlow -----------------------------
(* LocalFlow for TLC: a batch shared by two nodes, the same jobs in another *)
(* order on one node, and a batch whose first node lacks a capability.      *)
EXTENDS FlowAggregation

CONSTANTS n1, n2, j1, j2, j3

Able == [n \in {n1, n2} |-> {j1, j2, j3}]
Shared == [nodes |-> <<n1, n2>>, jobs |-> <<j1, j2, j3>>, can |-> Able]
Reordered == [nodes |-> <<n1, n2>>, jobs |-> <<j2, j1>>, can |-> Able]
Single == [nodes |-> <<n2>>, jobs |-> <<j2, j1>>, can |-> Able]
Partial == [nodes |-> <<n1, n2>>, jobs |-> <<j1, j3, j2>>,
            can |-> [Able EXCEPT ![n1] = {j2}]]
Batches == {Shared, Reordered, Single, Partial}

(* One job earns, one is valid but earns nothing, one is unsupported. *)
Earned == [type |-> "echo", status |-> "completed", valid |-> TRUE,
           reason |-> "completed_job", units |-> 2]
Yields ==
    [j \in {j1, j2, j3} |->
        CASE j = j1 -> Earned
          [] j = j2 -> [Earned EXCEPT !.type = "hash", !.units = 0]
          [] j = j3 -> [Earned EXCEPT !.type = "other", !.status = "failed", !.valid = FALSE,
                                      !.reason = "unsupported_job_type", !.units = 0]]
=============================================================================
