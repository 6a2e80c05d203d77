--------------------------- MODULE FlowAggregation ---------------------------
(***************************************************************************)
(* aggregate-local-flow (aggregation.py): audit the artifacts of a run and *)
(* total its receipts.                                                     *)
(***************************************************************************)
EXTENDS FlowValidation

(* A receipt counts when its result is valid and earned something. *)
IsAccepted(r) == Outcome[r.job].valid /\ Outcome[r.job].units > 0
AcceptedResults == {r \in receipts : IsAccepted(r)}

UnitsOf(R) == SumFunction([r \in R |-> Outcome[r.job].units])

TotalsByNode == [n \in Nodes |-> UnitsOf({r \in AcceptedResults : r.node = n})]
TotalsByType ==
    [t \in {Outcome[r.job].type : r \in AcceptedResults} |->
        UnitsOf({r \in AcceptedResults : Outcome[r.job].type = t})]

ValidationTotals ==
    [valid |-> Cardinality({r \in receipts : Outcome[r.job].valid}),
     invalid |-> Cardinality({r \in receipts : ~Outcome[r.job].valid}),
     zero |-> Cardinality({r \in receipts : Outcome[r.job].units = 0}),
     failed |-> Cardinality({r \in receipts : Outcome[r.job].status # "completed"}),
     reasons |-> [w \in {Outcome[r.job].reason : r \in receipts} |->
                     Cardinality({r \in receipts : Outcome[r.job].reason = w})]]

(* The aggregate of artifacts the audit accepts. *)
Aggregate ==
    [receipts |-> Cardinality(receipts), accepted |-> Cardinality(AcceptedResults),
     units |-> UnitsOf(AcceptedResults), byNode |-> TotalsByNode, byType |-> TotalsByType,
     validations |-> ValidationTotals]

-----------------------------------------------------------------------------
(* Whatever aggregate can be built, in the middle of a rerun too, totals   *)
(* the ledger: by node, by type, and by accepted and other receipts.       *)
Recorded(n) ==
    SumFunction([j \in {k \in Jobs : ledger[n][k] > 0} |-> ledger[n][j] * Outcome[j].units])
CreditedNodes == {n \in Nodes : \E j \in Jobs : ledger[n][j] > 0}
TotalsTheLedger ==
    /\ \A n \in Nodes : Aggregate.byNode[n] = Recorded(n)
    /\ Aggregate.units = SumFunction([n \in CreditedNodes |-> Recorded(n)])
    /\ Aggregate.units = SumFunction(Aggregate.byType)
    /\ Aggregate.receipts - Aggregate.accepted = Aggregate.validations.zero

(* The simulation of a batch foretells what its run leaves on disk: the    *)
(* same ledger, also as run-local-batch saves it, and the same totals.     *)
ForetoldBy(m) ==
    LET foretold == SimulationTotals(m)
    IN /\ ledger = LedgerOf(Simulated(m).records)
       /\ ledger = BatchLedger(m)
       /\ \A n \in Nodes :
             /\ NodeRoster(m)[n].assigned =
                   Cardinality({a \in dispatchLog.assigned : a.node = n})
             /\ NodeRoster(m)[n].units = Aggregate.byNode[n]
       /\ foretold.units = Aggregate.units
       /\ foretold.results = Aggregate.receipts
       /\ foretold.failed = Aggregate.validations.failed
       /\ foretold.validations.valid = Aggregate.validations.valid
       /\ foretold.validations.invalid = Aggregate.validations.invalid

(* The results of a completed run are validated again without the receipts *)
(* and with the same verdicts, and each has its receipt.                   *)
ReplayAgrees ==
    /\ ~ReplayRefuses
    /\ \A e \in ReportedResults :
          /\ ReplayedValid(e) <=> Outcome[e.job].valid
          /\ \E r \in receipts : r.result = e.id /\ r.job = e.job /\ r.node = e.node
    /\ runs = 1 =>
          /\ ReplayReport.assignments = Aggregate.receipts
          /\ ReplayReport.results = Aggregate.receipts
          /\ ReplayReport.valid = Aggregate.validations.valid
          /\ ReplayReport.invalid = Aggregate.validations.invalid

(* A first, uninterrupted run passes the audit and is what the simulation  *)
(* of its batch foretells; a completed run's results can be validated      *)
(* again and have their receipts; and whenever the audit accepts the       *)
(* artifacts, whatever was rerun and cut short, their aggregate totals the *)
(* ledger.                                                                 *)
AggregatesAgree ==
    /\ done /\ runs = 1 => AuditAccepts /\ \A m \in used : ForetoldBy(m)
    /\ done => ReplayAgrees
    /\ AuditAccepts => TotalsTheLedger
=============================================================================
