--------------------------- MODULE LocalSimulation ---------------------------
(***************************************************************************)
(* run_local_simulation (simulation.py): the in-memory counterpart of a    *)
(* run.  All nodes share one bus; each job is assigned and the inbox of    *)
(* its node processed before the next job is assigned.  run-local-batch    *)
(* (cli.py) saves what it accounted to a ledger of its own.                *)
(***************************************************************************)
EXTENDS LocalFlow, Functions

CONSTANT Outcome  \* what running and validating each job yields

Outcomes == [type : STRING, status : {"completed", "failed"}, valid : BOOLEAN,
             reason : STRING, units : Nat]

(* Only validated, completed work is credited. *)
OutcomeAssumption ==
    /\ Outcome \in [Jobs -> Outcomes]
    /\ \A j \in Jobs : Outcome[j].units > 0 => Outcome[j].valid /\ Outcome[j].status = "completed"
ASSUME OutcomeAssumption

Nobody == "nobody"
LedgerActor == "local-ledger"
Scheduler == "local-scheduler"

(* The bus numbers a message by its place in the log. *)
Send(bus, type, from, to, job) ==
    Append(bus, [id |-> Len(bus) + 1, type |-> type, from |-> from, to |-> to, job |-> job])

(* The first messages of the bus: a heartbeat of each node. *)
Heartbeats(m) ==
    [k \in DOMAIN m.nodes |->
        [id |-> k, type |-> "node_heartbeat", from |-> m.nodes[k], to |-> Nobody, job |-> Nobody]]

StartSimulation(m) ==
    [bus |-> Heartbeats(m), processed |-> [n \in Nodes |-> {}],
     records |-> <<>>, results |-> <<>>]

(* A service records an assignment, then reports on it. *)
ProcessAssignment(s, e) ==
    LET result == Send(s.bus, "job_result_reported", e.to, LedgerActor, e.job)
        validated == Send(result, "job_validated", e.to, LedgerActor, e.job)
    IN [s EXCEPT !.bus = Send(validated, "contribution_recorded", LedgerActor, e.to, e.job),
                 !.processed[e.to] = @ \cup {e.id},
                 !.records = Append(@, [node |-> e.to, job |-> e.job])]

(* What a node's inbox holds for it: assignments, new or not; everything   *)
(* else, the node's own contribution messages too, is ignored.             *)
AssignmentFor(n, e) == e.to = n /\ e.type = "job_assigned"

(* Mutant: the inbox is processed from its beginning again. *)
ProcessInboxAgain(s, n) ==
    LET pass[i \in 0..Len(s.bus)] ==
            IF i = 0 THEN s
            ELSE IF AssignmentFor(n, s.bus[i]) THEN ProcessAssignment(pass[i - 1], s.bus[i])
            ELSE pass[i - 1]
    IN pass[Len(s.bus)]

(* The inbox in the order of arrival, as it was when its pass began:       *)
(* assignments not processed before, in this pass too, are processed.      *)
ProcessInbox(s, n) ==
    LET pass[i \in 0..Len(s.bus)] ==
            IF i = 0 THEN s
            ELSE IF AssignmentFor(n, s.bus[i]) /\ s.bus[i].id \notin pass[i - 1].processed[n]
                 THEN ProcessAssignment(pass[i - 1], s.bus[i])
            ELSE pass[i - 1]
    IN pass[Len(s.bus)]

(* One job: its assignment, its node's inbox, its result. *)
SimulateJob(s, node, job) ==
    [ProcessInbox([s EXCEPT !.bus = Send(@, "job_assigned", Scheduler, node, job)], node)
        EXCEPT !.results = Append(@, [node |-> node, job |-> job])]

Simulated(m) ==
    LET schedule == CHOOSE s \in Schedules(m) : TRUE
        after[k \in 0..Len(m.jobs)] ==
            IF k = 0 THEN StartSimulation(m)
            ELSE SimulateJob(after[k - 1], m.nodes[schedule[k]], m.jobs[k])
    IN after[Len(m.jobs)]

(* Records per node and job. *)
LedgerOf(records) ==
    [n \in Nodes |-> [j \in Jobs |->
        Cardinality({i \in DOMAIN records : records[i] = [node |-> n, job |-> j]})]]

(* What run-local-batch adds to the ledger file: a record for each result. *)
BatchLedger(m) == LedgerOf(Simulated(m).results)

(* A node's own records or results, by position. *)
Own(records, n) == {i \in DOMAIN records : records[i].node = n}

UnitsOfRecords(records, own) == SumFunction([i \in own |-> Outcome[records[i].job].units])

Ended(records, own, status) == Cardinality({i \in own : Outcome[records[i].job].status = status})

(* The summary of a node, from the ledger's records. *)
NodeSummary(records, n) ==
    [completed |-> Ended(records, Own(records, n), "completed"),
     failed |-> Ended(records, Own(records, n), "failed"),
     results |-> Cardinality(Own(records, n)),
     units |-> UnitsOfRecords(records, Own(records, n))]

(* The roster entry of a node. *)
NodeRoster(m) ==
    LET s == Simulated(m)
    IN [n \in Nodes |-> [assigned |-> Cardinality(Own(s.results, n)),
                         units |-> NodeSummary(s.records, n).units]]

ValidationSummary(results) ==
    [valid |-> Cardinality({i \in DOMAIN results : Outcome[results[i].job].valid}),
     invalid |-> Cardinality({i \in DOMAIN results : ~Outcome[results[i].job].valid}),
     unsupported |-> Cardinality({i \in DOMAIN results :
                                     Outcome[results[i].job].reason = "unsupported_job_type"})]

(* The totals of a simulation: results and validations counted by job, and *)
(* units summed over the nodes' summaries.                                 *)
SimulationTotals(m) ==
    LET s == Simulated(m)
    IN [jobs |-> Len(m.jobs), results |-> Len(s.results),
        completed |-> Ended(s.results, DOMAIN s.results, "completed"),
        failed |-> Ended(s.results, DOMAIN s.results, "failed"),
        validations |-> ValidationSummary(s.results),
        units |-> SumFunction([i \in DOMAIN m.nodes |->
                                  NodeSummary(s.records, m.nodes[i]).units])]
=============================================================================
