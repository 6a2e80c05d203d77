----------------------- MODULE LocalTransportProperties -----------------------
(* What LocalTransport is checked for. *)
EXTENDS LocalTransport

Addressed(n) == {i \in IDs : Batch[i] = n}
Reported(n) == IF n \in DOMAIN outbox THEN outbox[n] ELSE {}
Steps == {"inboxes", "readInbox", "readLedger", "ledger", "outbox", "state", "outboxes", "log"}

(* Files and commands have the shape the code gives them, and a node's     *)
(* inbox, outbox and state are about its own assignments.                  *)
TypeOK ==
    /\ log \in {{}} \cup Logs /\ collected \in SUBSET IDs
    /\ \A f \in {inbox, outbox} :
          DOMAIN f \subseteq Nodes /\ \A n \in DOMAIN f : f[n] \subseteq Addressed(n)
    /\ ledger \in [IDs -> Nat]
    /\ DOMAIN state = Nodes /\ \A n \in Nodes : state[n] \subseteq Addressed(n)
    /\ \A p \in Procs :
          /\ proc[p] \in [cmd : {"none", "materialize", "process", "collect"}, todo : Seq(Steps),
                          node : {0} \cup Nodes, nodes : SUBSET Nodes, ids : SUBSET IDs, known : SUBSET IDs,
                          credits : BOOLEAN, keeps : BOOLEAN, reports : BOOLEAN, ledger : [IDs -> Nat]]
          /\ At(p, "inboxes") \/ At(p, "outboxes") => proc[p].nodes # {}
    /\ lost \in SUBSET IDs /\ unlisted \in SUBSET IDs
    /\ crowded \in SUBSET Nodes /\ repeated \in SUBSET Nodes
    /\ commands \in 0..MaxCommands /\ faults \in 0..MaxFaults

(* What is reported, collected or marked processed is on the ledger,       *)
(* whichever commands died and however passes of different nodes met, but  *)
(* for two kinds of assignments and no other: those a pass without a       *)
(* ledger reported or marked, and those whose records another pass took    *)
(* off the ledger again, which it had read before they were saved.         *)
ClaimsAreCredited ==
    \A n \in Nodes : \A i \in (state[n] \cup collected \cup Reported(n)) \ unlisted :
        ledger[i] >= 1 \/ i \in lost

(* An assignment is credited twice only where a pass with a ledger ran     *)
(* without the node's state, died after saving the ledger, or met another  *)
(* pass of its node.                                                       *)
CreditedOnce ==
    \A i \in IDs : Batch[i] \notin crowded \cup repeated => ledger[i] <= 1

(* A pass with an outbox marks an assignment processed only when its       *)
(* report is there to collect: a pass that dies is repeated, not skipped.  *)
MarkedIsReported ==
    [][\A p \in Procs :
          At(p, "state") /\ state' # state /\ proc'[p] # proc[p]
              /\ proc[p].reports /\ proc[p].node \notin crowded
          => state'[proc[p].node] \ state[proc[p].node] \subseteq Reported(proc[p].node)]_vars
=============================================================================
