---------------------------- MODULE FlowValidation ----------------------------
(***************************************************************************)
(* validate-local-results (local_validation.py) on the logs of an output   *)
(* directory: the results of the flow log are validated again, each        *)
(* against the assignment of its job in the dispatch log.                  *)
(***************************************************************************)
EXTENDS LocalFlowProperties, LocalSimulation

ReportedResults == {e \in flowLog : e.type = "job_result_reported"}
AssignedTo(e) == {a.node : a \in {b \in dispatchLog.assigned : b.job = e.job}}

(* Two results of a job, or one of a job that was not assigned, and no     *)
(* report is written.                                                      *)
ReplayRefuses ==
    \E e \in ReportedResults :
        \/ AssignedTo(e) = {}
        \/ \E f \in ReportedResults \ {e} : f.job = e.job

(* A result is valid for the node its job was assigned to. *)
ReplayedValid(e) == e.node \in AssignedTo(e) /\ Outcome[e.job].valid

ReplayReport ==
    [assignments |-> Cardinality(dispatchLog.assigned),
     results |-> Cardinality(ReportedResults),
     valid   |-> Cardinality({e \in ReportedResults : ReplayedValid(e)}),
     invalid |-> Cardinality({e \in ReportedResults : ~ReplayedValid(e)})]
=============================================================================
