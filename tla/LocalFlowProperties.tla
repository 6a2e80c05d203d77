------------------------- MODULE LocalFlowProperties -------------------------
(***************************************************************************)
(* What LocalFlow is checked for: what holds whatever is rerun and cut     *)
(* short, and what holds for one manifest.                                 *)
(***************************************************************************)
EXTENDS LocalFlow

Passing == {"ledger", "workerLog", "nodeState"}
(* The ledger has a record of the assignment. *)
Credited(a) == ledger[a.node][a.job] > 0

(* audit_local_flow: every receipt's assignment is in the dispatch log,    *)
(* its three messages are in the flow log and agree with it, in order, and *)
(* the receipts claim exactly the ledger's records.  Which node the job    *)
(* was assigned to is not compared.                                        *)
FlowMessages(r, id, type) ==
    {e \in flowLog : e.id = id /\ e.type = type /\ e.node = r.node /\ e.job = r.job}
AssignmentMatches(r) ==
    \E a \in dispatchLog.assigned : a.id = r.assignment /\ a.job = r.job
ResultMatches(r) == FlowMessages(r, r.result, "job_result_reported") # {}
ValidationMatches(r) ==
    \E e \in FlowMessages(r, r.validation, "job_validated") :
        e.links = <<r.assignment, r.result>>
ContributionMatches(r) == FlowMessages(r, r.contribution, "contribution_recorded") # {}
InOrder(r) == r.result < r.validation /\ r.validation < r.contribution
Claims(n, j) == Cardinality({r \in receipts : r.node = n /\ r.job = j})
AuditAccepts ==
    /\ \A r \in receipts :
          AssignmentMatches(r) /\ ResultMatches(r) /\ ValidationMatches(r)
          /\ ContributionMatches(r) /\ InOrder(r)
    /\ \A n \in Nodes, j \in Jobs : Claims(n, j) = ledger[n][j]

-----------------------------------------------------------------------------
(* Whatever is rerun and cut short. *)

(* Every file and the run in progress have the shape the code gives them,  *)
(* and an inbox pass is in progress only for a node that is left to do.    *)
TypeOK ==
    /\ dispatchLog \in Logs
    /\ workerLog \in [Nodes -> SUBSET Messages]
    /\ ledger \in [Nodes -> [Jobs -> Nat]]
    /\ nodeState \in [Nodes -> SUBSET Nat]
    /\ flowLog \subseteq Messages
    /\ receipts \subseteq Receipts
    /\ run \in [pc : Steps, batch : Logs, todo : Seq(Nodes), old : SUBSET Receipts,
                fresh : SUBSET Receipts, emitted : SUBSET Messages]
    /\ run.pc \in Passing => run.todo # <<>>
    /\ handled \subseteq Assignments
    /\ used \subseteq Manifests
    /\ done \in BOOLEAN
    /\ runs \in 0..MaxRuns /\ faults \in 0..MaxFaults

(* A node marks a message processed only when the assignment it stands for *)
(* in the dispatch log is its own and on the ledger: a crash never loses   *)
(* the credit of marked work.                                              *)
MarkedIsCredited ==
    [][\A n \in Nodes : \A id \in nodeState'[n] \ nodeState[n] :
          \E a \in dispatchLog.assigned : a.id = id /\ a.node = n /\ Credited(a)]_vars

(* The ledger holds a record for each marked assignment, and beyond those  *)
(* at most one per cut-short run and the one of the pass in progress: only *)
(* a crash between ledger and node state credits work twice.               *)
MarkedFor(n, j) == {a \in handled : a.node = n /\ a.job = j}
Pending(n, j) ==
    IF run.pc \in {"workerLog", "nodeState"} /\ n = Current /\ \E a \in Work(n) : a.job = j
    THEN 1 ELSE 0
CreditBounded ==
    \A n \in Nodes, j \in Jobs :
        LET due == Cardinality(MarkedFor(n, j)) + Pending(n, j)
        IN due <= ledger[n][j] /\ ledger[n][j] <= due + faults

(* No receipt without its ledger record: however assignment IDs are reused *)
(* and runs are cut short, receipts claim no more than was credited.       *)
ReceiptsWithinLedger ==
    \A n \in Nodes, j \in Jobs : Claims(n, j) <= ledger[n][j]

(* Credit follows the marks and receipts follow the credit: neither gets   *)
(* ahead by more than the runs that were cut short.                        *)
LedgerIsBounded == CreditBounded /\ ReceiptsWithinLedger

-----------------------------------------------------------------------------
(* One manifest, run again and again. *)

(* A completed run leaves every assignment marked and credited, whatever   *)
(* cut the runs before it short; and without a crash reruns change neither *)
(* ledger nor receipts: one record and one receipt for each assignment.    *)
CreditedOnce ==
    done /\ Cardinality(used) = 1 =>
        /\ \A a \in dispatchLog.assigned : Credited(a) /\ a.id \in nodeState[a.node]
        /\ faults = 0 =>
              \A n \in Nodes, j \in Jobs :
                  LET due == IF \E a \in dispatchLog.assigned : a.node = n /\ a.job = j
                             THEN 1 ELSE 0
                  IN ledger[n][j] = due /\ Claims(n, j) = due

(* A begun run that is not cut short completes.                            *)
RunCompletes ==
    \A f \in 0..MaxFaults : (run.pc # "idle" /\ faults = f) ~> (done \/ faults > f)
=============================================================================
