------------------------------ MODULE LocalFlow ------------------------------
(***************************************************************************)
(* run-local-flow over one output directory (cli.py,                       *)
(* _run_local_flow_with_roster): schedule a batch manifest, log the        *)
(* dispatch, let each available node process its inbox, then write the     *)
(* flow log and the receipts.  A run may be repeated, with the same or     *)
(* another manifest, and may be cut short between any two file writes;     *)
(* each write replaces its file atomically and an absent ledger, node      *)
(* state or receipt file reads as empty.  What a job computes is a         *)
(* function of the job and the node, so results, hashes and units are left *)
(* out.                                                                    *)
(***************************************************************************)
EXTENDS Naturals, Sequences, FiniteSets

CONSTANTS
    Nodes,      \* node IDs
    Jobs,       \* job IDs, each standing for one job definition
    Manifests,  \* [nodes: available nodes in order, jobs: in order, can: capabilities]
    MaxRuns,    \* bound: runs begun
    MaxFaults   \* bound: runs cut short

VARIABLES
    dispatchLog,  \* dispatch-message-log.json
    workerLog,    \* worker-message-logs/<node>.json: the messages emitted
    ledger,       \* ledger.json: records per node and job
    nodeState,    \* node-state/<node>.json: message IDs processed
    flowLog,      \* flow-message-log.json: the messages emitted
    receipts,     \* receipts.json
    run,          \* the run in progress and what it holds in memory
    handled,      \* history: assignments whose processing was marked
    used,         \* history: manifests of the runs begun
    done,         \* history: the latest run completed
    runs, faults

disk == <<dispatchLog, workerLog, ledger, nodeState, flowLog, receipts>>
history == <<handled, used, done, runs, faults>>
vars == <<disk, run, history>>

Distinct(s) == \A h, i \in DOMAIN s : s[h] = s[i] => h = i

(* What the manifest loader accepts: no node and no job is named twice, and  *)
(* there is a job.  All of its nodes may be offline.                        *)
ManifestTypes ==
    {m \in [nodes : Seq(Nodes), jobs : Seq(Jobs), can : [Nodes -> SUBSET Jobs]] :
        Distinct(m.nodes) /\ Distinct(m.jobs) /\ m.jobs # <<>>}
LocalFlowAssumption ==
    /\ \A m \in Manifests : m \in ManifestTypes
    /\ MaxRuns \in Nat /\ MaxFaults \in Nat
ASSUME LocalFlowAssumption

Assignments == [id : Nat, node : Nodes, job : Jobs]
Logs == [length : Nat, assigned : SUBSET Assignments]
MessageTypes == {"job_result_reported", "job_validated", "contribution_recorded"}
Messages == [id : Nat, type : MessageTypes, node : Nodes, job : Jobs, links : Seq(Nat)]
Receipts == [assignment : Nat, node : Nodes, job : Jobs,
             result : Nat, validation : Nat, contribution : Nat]

Steps == {"idle", "dispatch", "ledger", "workerLog", "nodeState", "flowLog", "receipts"}
NoLog == [length |-> 0, assigned |-> {}]
NoRun == [pc |-> "idle", batch |-> NoLog, todo |-> <<>>, old |-> {},
          fresh |-> {}, emitted |-> {}]

Init ==
    /\ dispatchLog = NoLog
    /\ workerLog = [n \in Nodes |-> {}]
    /\ ledger = [n \in Nodes |-> [j \in Jobs |-> 0]]
    /\ nodeState = [n \in Nodes |-> {}]
    /\ flowLog = {} /\ receipts = {}
    /\ run = NoRun
    /\ handled = {} /\ used = {} /\ done = FALSE
    /\ runs = 0 /\ faults = 0

-----------------------------------------------------------------------------
(* Scheduling: the capable node with the fewest assignments so far, the    *)
(* earlier one in manifest order between equals.  A schedule gives each    *)
(* job the position of its node; there is none when some job has no        *)
(* capable node, and one otherwise.                                        *)

Capable(m, k) == {i \in DOMAIN m.nodes : m.jobs[k] \in m.can[m.nodes[i]]}
Load(s, k, i) == Cardinality({h \in 1..(k - 1) : s[h] = i})

Precedes(s, k, i, o) ==
    \/ Load(s, k, i) < Load(s, k, o)
    \/ Load(s, k, i) = Load(s, k, o) /\ i <= o

Schedules(m) ==
    {s \in [DOMAIN m.jobs -> DOMAIN m.nodes] :
        \A k \in DOMAIN m.jobs :
            /\ s[k] \in Capable(m, k)
            /\ \A o \in Capable(m, k) : Precedes(s, k, s[k], o)}

(* The dispatch log: a heartbeat per available node, then an assignment    *)
(* per job; a message's ID is its place in the log.                        *)
Batch(m, s) ==
    [length |-> Len(m.nodes) + Len(m.jobs),
     assigned |-> {[id |-> Len(m.nodes) + k, node |-> m.nodes[s[k]], job |-> m.jobs[k]] :
                       k \in DOMAIN m.jobs}]

-----------------------------------------------------------------------------
(* Inbox processing. *)

(* The assignments a node has not processed, by message ID. *)
Work(n) == {a \in dispatchLog.assigned : a.node = n /\ a.id \notin nodeState[n]}

(* The ID of the last message on the node's bus before it reports on a:    *)
(* the replayed log, then three messages for each assignment before.       *)
Before(n, a) == dispatchLog.length + 3 * Cardinality({b \in Work(n) : b.id < a.id})

Reports(n, a) ==
    {[id |-> Before(n, a) + 1, type |-> "job_result_reported",
      node |-> n, job |-> a.job, links |-> <<>>],
     [id |-> Before(n, a) + 2, type |-> "job_validated",
      node |-> n, job |-> a.job, links |-> <<a.id, Before(n, a) + 1>>],
     [id |-> Before(n, a) + 3, type |-> "contribution_recorded",
      node |-> n, job |-> a.job, links |-> <<>>]}

Emitted(n) == UNION {Reports(n, a) : a \in Work(n)}

Receipt(n, a) ==
    [assignment |-> a.id, node |-> n, job |-> a.job, result |-> Before(n, a) + 1,
     validation |-> Before(n, a) + 2, contribution |-> Before(n, a) + 3]

(* New receipts replace those of the same assignment ID. *)
Merge(old, fresh) ==
    {r \in old : \A f \in fresh : f.assignment # r.assignment} \cup fresh

-----------------------------------------------------------------------------
(* One run: existing documents are loaded and the batch is scheduled       *)
(* before anything is written.                                             *)
StartRun(m) ==
    /\ run.pc = "idle"
    /\ runs < MaxRuns
    /\ \E s \in Schedules(m) :
          run' = [NoRun EXCEPT !.pc = "dispatch", !.batch = Batch(m, s),
                               !.todo = m.nodes, !.old = receipts]
    /\ runs' = runs + 1
    /\ used' = used \cup {m}
    /\ done' = FALSE
    /\ UNCHANGED <<disk, handled, faults>>

(* The node whose inbox is processed. *)
Current == Head(run.todo)

NextPass(todo) == IF todo = <<>> THEN "flowLog" ELSE "ledger"

WriteDispatchLog ==
    /\ run.pc = "dispatch"
    /\ dispatchLog' = run.batch
    /\ run' = [run EXCEPT !.pc = NextPass(run.todo)]
    /\ UNCHANGED <<workerLog, ledger, nodeState, flowLog, receipts, history>>

(* Mutant: the existing ledger is not loaded. *)
SaveLedgerOfThisPass ==
    /\ run.pc = "ledger"
    /\ ledger' = [n \in Nodes |-> [j \in Jobs |->
                    IF \E a \in Work(Current) : a.node = n /\ a.job = j THEN 1 ELSE 0]]
    /\ run' = [run EXCEPT !.pc = "workerLog"]
    /\ UNCHANGED <<dispatchLog, workerLog, nodeState, flowLog, receipts, history>>

(* The node runs its work, at most one assignment of a job, and the ledger *)
(* is saved with a record of each.                                         *)
SaveLedger ==
    /\ run.pc = "ledger"
    /\ ledger' = [ledger EXCEPT ![Current] =
                     [j \in Jobs |-> @[j] +
                         IF \E a \in Work(Current) : a.job = j THEN 1 ELSE 0]]
    /\ run' = [run EXCEPT !.pc = "workerLog"]
    /\ UNCHANGED <<dispatchLog, workerLog, nodeState, flowLog, receipts, history>>

WriteWorkerLog ==
    /\ run.pc = "workerLog"
    /\ workerLog' = [workerLog EXCEPT ![Current] = Emitted(Current)]
    /\ run' = [run EXCEPT !.pc = "nodeState"]
    /\ UNCHANGED <<dispatchLog, ledger, nodeState, flowLog, receipts, history>>

(* Mutant: every assignment in the log is marked, not only the node's own. *)
MarkedAll(n) == {a.id : a \in dispatchLog.assigned}

Marked(n) == {a.id : a \in Work(n)}

(* Mutant: skipped assignments get receipts too. *)
RememberSkipped(n) ==
    [run EXCEPT !.pc = NextPass(Tail(run.todo)), !.todo = Tail(@),
                !.fresh = @ \cup {Receipt(n, a) : a \in {b \in dispatchLog.assigned : b.node = n}},
                !.emitted = @ \cup workerLog[n]]

(* After a pass the run keeps its receipts and the emitted messages it     *)
(* reads back from the worker log.                                         *)
Remember(n) ==
    [run EXCEPT !.pc = NextPass(Tail(run.todo)), !.todo = Tail(@),
                !.fresh = @ \cup {Receipt(n, a) : a \in Work(n)},
                !.emitted = @ \cup workerLog[n]]

SaveNodeState ==
    /\ run.pc = "nodeState"
    /\ nodeState' = [nodeState EXCEPT ![Current] = @ \cup Marked(Current)]
    /\ handled' = handled \cup Work(Current)
    /\ run' = Remember(Current)
    /\ UNCHANGED <<dispatchLog, workerLog, ledger, flowLog, receipts, used, done, runs, faults>>

(* Mutant: a run that emitted nothing waits for messages to log. *)
WriteFlowLogOfMessages ==
    /\ run.pc = "flowLog" /\ run.emitted # {}
    /\ flowLog' = run.emitted
    /\ run' = [run EXCEPT !.pc = "receipts"]
    /\ UNCHANGED <<dispatchLog, workerLog, ledger, nodeState, receipts, history>>

WriteFlowLog ==
    /\ run.pc = "flowLog"
    /\ flowLog' = run.emitted
    /\ run' = [run EXCEPT !.pc = "receipts"]
    /\ UNCHANGED <<dispatchLog, workerLog, ledger, nodeState, receipts, history>>

WriteReceipts ==
    /\ run.pc = "receipts"
    /\ receipts' = Merge(run.old, run.fresh)
    /\ run' = NoRun
    /\ done' = TRUE
    /\ UNCHANGED <<dispatchLog, workerLog, ledger, nodeState, flowLog,
                   handled, used, runs, faults>>

(* The run ends before its next write: the process dies or a write raises. *)
Crash ==
    /\ run.pc # "idle"
    /\ faults < MaxFaults
    /\ faults' = faults + 1
    /\ run' = NoRun
    /\ UNCHANGED <<disk, handled, used, done, runs>>

Finished == run.pc = "idle" /\ runs = MaxRuns /\ UNCHANGED vars

Step == \/ WriteDispatchLog \/ SaveLedger \/ WriteWorkerLog \/ SaveNodeState
        \/ WriteFlowLog \/ WriteReceipts

Next == (\E m \in Manifests : StartRun(m)) \/ Step \/ Crash \/ Finished

Spec == Init /\ [][Next]_vars
FairSpec == Spec /\ WF_vars(Step)
=============================================================================
