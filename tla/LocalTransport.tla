--------------------------- MODULE LocalTransport ---------------------------
(***************************************************************************)
(* Commands on one transport directory (local_transport.py, cli.py):       *)
(* dispatch-local-batch logs a batch, materialize-local-inboxes sorts its  *)
(* assignments into one file per recipient, process-local-inbox lets a     *)
(* node do the work of its inbox and report in its outbox, and             *)
(* collect-local-outboxes gathers the reports into one log.  Each command  *)
(* is a process of its own, reads and replaces whole files without a lock, *)
(* and may die between any two of them.  A report stands for the result    *)
(* and the validation message of one assignment; heartbeats, which have no *)
(* recipient, and what jobs compute are left out.                          *)
(***************************************************************************)
EXTENDS Naturals, Sequences, FiniteSets

CONSTANTS
    Nodes,        \* node IDs, numbers standing for their sorting order
    Procs,        \* bound: commands running at once
    Batch,        \* the longest batch: a node for each message ID assigned
    Logs,         \* the IDs of the batches: a longer manifest extends a shorter one
    MaxCommands,  \* bound: commands begun
    MaxFaults     \* bound: commands that die

IDs == DOMAIN Batch
TransportAssumption ==
    /\ Nodes \subseteq Nat
    /\ Batch \in [IDs -> Nodes] /\ IsFiniteSet(IDs)
    /\ Logs \subseteq SUBSET IDs \ {{}}
    /\ MaxCommands \in Nat /\ MaxFaults \in Nat
ASSUME TransportAssumption

VARIABLES
    log,        \* the dispatch log: IDs assigned, none before it is written
    inbox,      \* inboxes/<node>.json, for the nodes that have one
    outbox,     \* outboxes/<node>.json, for the nodes that have one
    ledger,     \* the ledger all nodes share: records per assignment
    state,      \* each node's state file: IDs processed
    collected,  \* the collected log: IDs reported
    proc,       \* the commands running, and what they hold in memory
    lost,       \* history: IDs whose records a saved ledger did not take over
    unlisted,   \* history: IDs reported or marked by a pass without a ledger
    crowded,    \* history: nodes two passes worked for at once
    repeated,   \* history: nodes a pass credited and did not keep the state of
    commands, faults

disk == <<log, inbox, outbox, ledger, state, collected>>
history == <<lost, unlisted, crowded, repeated>>
counts == <<commands, faults>>
vars == <<disk, proc, history, counts>>

NoRecords == [i \in IDs |-> 0]
Idle == [cmd |-> "none", todo |-> <<>>, node |-> 0, nodes |-> {}, ids |-> {}, known |-> {},
         credits |-> FALSE, keeps |-> FALSE, reports |-> FALSE, ledger |-> NoRecords]

Init ==
    /\ log = {}
    /\ inbox = [n \in {} |-> {}] /\ outbox = [n \in {} |-> {}]
    /\ ledger = NoRecords
    /\ state = [n \in Nodes |-> {}]
    /\ collected = {}
    /\ proc = [p \in Procs |-> Idle]
    /\ lost = {} /\ unlisted = {} /\ crowded = {} /\ repeated = {}
    /\ commands = 0 /\ faults = 0

-----------------------------------------------------------------------------
(* A missing ledger or node state reads as empty, a missing inbox is an    *)
(* error, a missing outbox is not collected.                               *)
Put(files, n, content) ==
    [m \in DOMAIN files \cup {n} |-> IF m = n THEN content ELSE files[m]]

First(nodes) == CHOOSE n \in nodes : \A m \in nodes : n <= m

At(p, step) == proc[p].todo # <<>> /\ Head(proc[p].todo) = step

(* A command whose steps are done has ended.                               *)
Proceed(p, held) ==
    proc' = [proc EXCEPT ![p] = IF Tail(held.todo) = <<>> THEN Idle
                                ELSE [held EXCEPT !.todo = Tail(@)]]

Begin(p, held) ==
    /\ proc[p] = Idle /\ commands < MaxCommands
    /\ proc' = [proc EXCEPT ![p] = held]
    /\ commands' = commands + 1

-----------------------------------------------------------------------------
Dispatch ==
    /\ commands < MaxCommands /\ commands' = commands + 1
    /\ log' \in Logs
    /\ UNCHANGED <<inbox, outbox, ledger, state, collected, proc, history, faults>>

(* materialize-local-inboxes: one inbox per recipient, in their order.     *)
Materialize(p) ==
    /\ log # {}
    /\ Begin(p, [Idle EXCEPT !.cmd = "materialize", !.todo = <<"inboxes">>, !.ids = log,
                             !.nodes = {Batch[i] : i \in log}])
    /\ UNCHANGED <<disk, history, faults>>

WriteInbox(p) ==
    /\ At(p, "inboxes")
    /\ LET h == proc[p]  n == First(h.nodes)  left == h.nodes \ {n} IN
       /\ inbox' = Put(inbox, n, {i \in h.ids : Batch[i] = n})
       /\ IF left = {} THEN Proceed(p, h) ELSE proc' = [proc EXCEPT ![p].nodes = left]
    /\ UNCHANGED <<log, outbox, ledger, state, collected, history, counts>>

-----------------------------------------------------------------------------
(* process-local-inbox.  The ledger, the node state and the outbox are      *)
(* options of the command: a pass credits, keeps and reports or does not.  *)

(* Mutant: the outbox is written before the ledger. *)
ReportsFirst(credits, keeps, reports) ==
    <<"readInbox">> \o (IF credits THEN <<"readLedger">> ELSE <<>>)
        \o (IF reports THEN <<"outbox">> ELSE <<>>) \o (IF credits THEN <<"ledger">> ELSE <<>>)
        \o (IF keeps THEN <<"state">> ELSE <<>>)

(* Mutant: the node state is written before the outbox. *)
MarksFirst(credits, keeps, reports) ==
    <<"readInbox">> \o (IF credits THEN <<"readLedger", "ledger">> ELSE <<>>)
        \o (IF keeps THEN <<"state">> ELSE <<>>) \o (IF reports THEN <<"outbox">> ELSE <<>>)

PassSteps(credits, keeps, reports) ==
    <<"readInbox">> \o (IF credits THEN <<"readLedger", "ledger">> ELSE <<>>)
        \o (IF reports THEN <<"outbox">> ELSE <<>>) \o (IF keeps THEN <<"state">> ELSE <<>>)

(* What the node has processed, as far as a pass knows: without the node's *)
(* state, or the file, nothing.                                            *)
Known(n, keeps) == IF keeps THEN state[n] ELSE {}

Working(n) == {p \in Procs : proc[p].cmd = "process" /\ proc[p].node = n}

Process(p, n, credits, keeps, reports) ==
    /\ Begin(p, [Idle EXCEPT !.cmd = "process", !.todo = PassSteps(credits, keeps, reports),
                             !.node = n, !.known = Known(n, keeps),
                             !.credits = credits, !.keeps = keeps, !.reports = reports])
    /\ crowded' = IF Working(n) = {} THEN crowded ELSE crowded \cup {n}
    /\ repeated' = IF credits /\ ~keeps THEN repeated \cup {n} ELSE repeated
    /\ UNCHANGED <<disk, lost, unlisted, faults>>

HasInbox(n) == n \in DOMAIN inbox

ReadInbox(p) ==
    /\ At(p, "readInbox")
    /\ IF HasInbox(proc[p].node)
       THEN Proceed(p, [proc[p] EXCEPT !.ids = inbox[proc[p].node]])
       ELSE proc' = [proc EXCEPT ![p] = Idle]
    /\ UNCHANGED <<disk, history, counts>>

ReadLedger(p) ==
    /\ At(p, "readLedger")
    /\ Proceed(p, [proc[p] EXCEPT !.ledger = ledger])
    /\ UNCHANGED <<disk, history, counts>>

(* Mutant: what the node has processed is done again. *)
FreshAll(p) == proc[p].ids

(* The assignments a pass does: not processed yet, as far as it knows.     *)
Fresh(p) == proc[p].ids \ proc[p].known

SaveLedger(p) ==
    /\ At(p, "ledger")
    /\ ledger' = [i \in IDs |-> proc[p].ledger[i] + (IF i \in Fresh(p) THEN 1 ELSE 0)]
    /\ lost' = lost \cup {i \in IDs : ledger[i] >= 1 /\ ledger'[i] = 0}
    /\ Proceed(p, proc[p])
    /\ UNCHANGED <<log, inbox, outbox, state, collected, unlisted, crowded, repeated, counts>>

(* What a pass without a ledger claims without having credited it.         *)
Unlisted(p) == IF proc[p].credits THEN {} ELSE Fresh(p)

(* The outbox holds the reports of this pass and no other.                 *)
WriteOutbox(p) ==
    /\ At(p, "outbox")
    /\ outbox' = Put(outbox, proc[p].node, Fresh(p))
    /\ unlisted' = unlisted \cup Unlisted(p)
    /\ Proceed(p, proc[p])
    /\ UNCHANGED <<log, inbox, ledger, state, collected, lost, crowded, repeated, counts>>

SaveState(p) ==
    /\ At(p, "state")
    /\ state' = [state EXCEPT ![proc[p].node] = proc[p].known \cup Fresh(p)]
    /\ unlisted' = unlisted \cup Unlisted(p)
    /\ Proceed(p, proc[p])
    /\ UNCHANGED <<log, inbox, outbox, ledger, collected, lost, crowded, repeated, counts>>

-----------------------------------------------------------------------------
(* collect-local-outboxes: the outboxes there are when it begins, read one *)
(* by one and left as they are.                                            *)
Collect(p) ==
    /\ Begin(p, [Idle EXCEPT !.cmd = "collect", !.nodes = DOMAIN outbox,
                             !.todo = IF DOMAIN outbox = {} THEN <<"log">>
                                      ELSE <<"outboxes", "log">>])
    /\ UNCHANGED <<disk, history, faults>>

Gathered(p, n) == [proc[p] EXCEPT !.ids = @ \cup outbox[n], !.nodes = @ \ {n}]

ReadOutbox(p) ==
    /\ At(p, "outboxes")
    /\ LET h == Gathered(p, First(proc[p].nodes)) IN
       IF h.nodes = {} THEN Proceed(p, h) ELSE proc' = [proc EXCEPT ![p] = h]
    /\ UNCHANGED <<disk, history, counts>>

WriteCollected(p) ==
    /\ At(p, "log")
    /\ collected' = proc[p].ids
    /\ Proceed(p, proc[p])
    /\ UNCHANGED <<log, inbox, outbox, ledger, state, history, counts>>

-----------------------------------------------------------------------------
(* A command dies: what it has written stays, what it held is lost.        *)
Die(p) ==
    /\ proc[p] # Idle
    /\ faults < MaxFaults /\ faults' = faults + 1
    /\ repeated' = IF proc[p].credits /\ (At(p, "outbox") \/ At(p, "state"))
                   THEN repeated \cup {proc[p].node} ELSE repeated
    /\ proc' = [proc EXCEPT ![p] = Idle]
    /\ UNCHANGED <<disk, lost, unlisted, crowded, commands>>

Next ==
    \/ Dispatch
    \/ \E p \in Procs :
          \/ Materialize(p) \/ WriteInbox(p)
          \/ \E n \in Nodes, credits, keeps, reports \in BOOLEAN :
                Process(p, n, credits, keeps, reports)
          \/ ReadInbox(p) \/ ReadLedger(p) \/ SaveLedger(p) \/ WriteOutbox(p) \/ SaveState(p)
          \/ Collect(p) \/ ReadOutbox(p) \/ WriteCollected(p)
          \/ Die(p)

Spec == Init /\ [][Next]_vars
=============================================================================
