--------------------------- MODULE LocalFlowProofs ---------------------------
(***************************************************************************)
(* Proofs about LocalFlow for all nodes, jobs, manifests, outcomes and     *)
(* bounds: type correctness, the bounds on what the ledger credits, that   *)
(* marks and receipts never outrun it, and that the artifacts a run leaves *)
(* agree with each other, with their totals and with the simulation of its *)
(* batch.                                                                  *)
(***************************************************************************)
EXTENDS FlowAggregation, FiniteSetTheorems, SequenceTheorems, WellFoundedInduction, TLAPS

LEMMA ManifestFields ==
    \A m \in Manifests :
        /\ m.nodes \in Seq(Nodes) /\ Distinct(m.nodes)
        /\ m.jobs \in Seq(Jobs) /\ Distinct(m.jobs) /\ m.jobs # <<>>
        /\ m.can \in [Nodes -> SUBSET Jobs]
BY LocalFlowAssumption DEF LocalFlowAssumption, ManifestTypes

(***************************************************************************)
(* Type correctness.  The message IDs a node emits count its assignments,  *)
(* so the strengthening says that a dispatch log has finitely many, each   *)
(* with a job and an ID of its own.                                        *)
(***************************************************************************)
LogShape(l) ==
    /\ l \in Logs
    /\ IsFiniteSet(l.assigned)
    /\ \A a, b \in l.assigned : a.job = b.job \/ a.id = b.id => a = b

TypeInv == TypeOK /\ LogShape(dispatchLog) /\ LogShape(run.batch)

LEMMA NoLogShape == LogShape(NoLog)
BY FS_EmptySet DEF LogShape, Logs, NoLog

LEMMA BatchShape ==
    ASSUME NEW m \in Manifests, NEW s \in Schedules(m)
    PROVE  LogShape(Batch(m, s))
<1> DEFINE D == DOMAIN m.jobs
           A(k) == [id |-> Len(m.nodes) + k, node |-> m.nodes[s[k]], job |-> m.jobs[k]]
           f == [k \in D |-> A(k)]
           S == {A(k) : k \in D}
<1>1. m.nodes \in Seq(Nodes) /\ m.jobs \in Seq(Jobs) /\ Distinct(m.jobs)
  BY ManifestFields
<1>2. D = 1..Len(m.jobs) /\ Len(m.jobs) \in Nat /\ Len(m.nodes) \in Nat
  BY <1>1
<1>3. IsFiniteSet(D)
  BY <1>2, FS_Interval
<1>4. \A k \in D : A(k) \in Assignments
  <2>1. s \in [D -> DOMAIN m.nodes]
    BY DEF Schedules
  <2>. QED BY <1>1, <1>2, <2>1 DEF Assignments
<1>5. f \in Surjection(D, S)
  BY DEF Surjection
<1>6. IsFiniteSet(S)
  <2>. HIDE DEF f, S, D
  <2>. QED BY <1>3, <1>5, FS_Surjection
<1>7. ASSUME NEW a \in S, NEW b \in S, a.job = b.job \/ a.id = b.id PROVE a = b
  <2>1. PICK k \in D : a = A(k)
    OBVIOUS
  <2>2. PICK l \in D : b = A(l)
    OBVIOUS
  <2>3. m.jobs[k] = m.jobs[l] \/ Len(m.nodes) + k = Len(m.nodes) + l
    BY <1>7, <2>1, <2>2
  <2>4. k = l
    BY <1>1, <1>2, <2>3 DEF Distinct
  <2>. QED BY <2>1, <2>2, <2>4
<1>8. Batch(m, s) = [length |-> Len(m.nodes) + Len(m.jobs), assigned |-> S]
  BY DEF Batch
<1>9. Batch(m, s) \in Logs
  <2>1. S \in SUBSET Assignments
    BY <1>4
  <2>. HIDE DEF S, D, A, f
  <2>2. ASSUME NEW x \in Nat, NEW y \in Nat, NEW T \in SUBSET Assignments
        PROVE  [length |-> x + y, assigned |-> T] \in Logs
    BY DEF Logs
  <2>. QED BY <1>2, <1>8, <2>1, <2>2
<1>10. Batch(m, s).assigned = S
  BY <1>8
<1>. QED BY <1>6, <1>7, <1>9, <1>10 DEF LogShape

LEMMA InitTypeInv == Init => TypeInv
<1>. SUFFICES ASSUME Init PROVE TypeInv
  OBVIOUS
<1>1. NoLog \in Logs
  BY NoLogShape DEF LogShape
<1>2. run \in [pc : Steps, batch : Logs, todo : Seq(Nodes), old : SUBSET Receipts,
               fresh : SUBSET Receipts, emitted : SUBSET Messages]
  BY <1>1 DEF Init, NoRun, Steps
<1>3. run.pc \notin Passing /\ run.batch = NoLog
  BY DEF Init, NoRun, Passing
<1>4. runs \in 0..MaxRuns /\ faults \in 0..MaxFaults
  BY LocalFlowAssumption DEF Init, LocalFlowAssumption
<1>5. /\ workerLog \in [Nodes -> SUBSET Messages]
      /\ ledger \in [Nodes -> [Jobs -> Nat]]
      /\ nodeState \in [Nodes -> SUBSET Nat]
      /\ flowLog \subseteq Messages /\ receipts \subseteq Receipts
      /\ handled \subseteq Assignments /\ used \subseteq Manifests /\ done \in BOOLEAN
  BY DEF Init
<1>6. TypeOK
  BY <1>1, <1>2, <1>3, <1>4, <1>5, Zenon DEF Init, TypeOK
<1>. QED BY <1>3, <1>6, NoLogShape DEF Init, TypeInv

(* What a node has left to do and what it reports on it. *)
LEMMA WorkTyped ==
    ASSUME TypeInv, NEW n \in Nodes
    PROVE  /\ Work(n) \subseteq Assignments
           /\ \A a \in Work(n) : Before(n, a) \in Nat
           /\ Emitted(n) \subseteq Messages
           /\ {Receipt(n, a) : a \in Work(n)} \subseteq Receipts
           /\ Marked(n) \subseteq Nat
<1>1. /\ dispatchLog.assigned \subseteq Assignments /\ dispatchLog.length \in Nat
      /\ IsFiniteSet(dispatchLog.assigned)
  BY DEF TypeInv, TypeOK, LogShape, Logs
<1>2. Work(n) \subseteq Assignments
  BY <1>1 DEF Work
<1>3. \A a \in Work(n) : Before(n, a) \in Nat
  <2>. TAKE a \in Work(n)
  <2>. DEFINE B == {b \in Work(n) : b.id < a.id}
  <2>1. B \in SUBSET dispatchLog.assigned
    BY DEF Work
  <2>2. Cardinality(B) \in Nat
    BY <1>1, <2>1, FS_Subset, FS_CardinalityType
  <2>. QED BY <1>1, <2>2 DEF Before
<1>4. Emitted(n) \subseteq Messages
  <2>1. ASSUME NEW x \in Nat, NEW i \in Nat, NEW j \in Jobs
        PROVE  /\ [id |-> x + 1, type |-> "job_result_reported", node |-> n, job |-> j,
                   links |-> <<>>] \in Messages
               /\ [id |-> x + 2, type |-> "job_validated", node |-> n, job |-> j,
                   links |-> <<i, x + 1>>] \in Messages
               /\ [id |-> x + 3, type |-> "contribution_recorded", node |-> n, job |-> j,
                   links |-> <<>>] \in Messages
    <3>1. <<i, x + 1>> \in Seq(Nat) /\ <<>> \in Seq(Nat)
      OBVIOUS
    <3>2. x + 1 \in Nat /\ x + 2 \in Nat /\ x + 3 \in Nat
      OBVIOUS
    <3>. QED BY <3>1, <3>2, Zenon DEF Messages, MessageTypes
  <2>2. \A a \in Work(n) : Before(n, a) \in Nat /\ a.id \in Nat /\ a.job \in Jobs
    BY <1>2, <1>3 DEF Assignments
  <2>3. ASSUME NEW a \in Work(n) PROVE Reports(n, a) \subseteq Messages
    <3>1. Before(n, a) \in Nat /\ a.id \in Nat /\ a.job \in Jobs
      BY <2>2
    <3>. DEFINE x == Before(n, a)
    <3>. HIDE DEF x
    <3>2. /\ [id |-> x + 1, type |-> "job_result_reported", node |-> n, job |-> a.job,
              links |-> <<>>] \in Messages
          /\ [id |-> x + 2, type |-> "job_validated", node |-> n, job |-> a.job,
              links |-> <<a.id, x + 1>>] \in Messages
          /\ [id |-> x + 3, type |-> "contribution_recorded", node |-> n, job |-> a.job,
              links |-> <<>>] \in Messages
      BY <2>1, <3>1 DEF x
    <3>. QED BY <3>2, Zenon DEF Reports, x
  <2>. QED BY <2>3, Zenon DEF Emitted
<1>5. {Receipt(n, a) : a \in Work(n)} \subseteq Receipts
  BY <1>2, <1>3 DEF Receipt, Receipts, Assignments
<1>6. Marked(n) \subseteq Nat
  BY <1>2 DEF Marked, Assignments
<1>. QED BY <1>2, <1>3, <1>4, <1>5, <1>6

LEMMA CurrentTyped ==
    ASSUME TypeInv, run.pc \in Passing
    PROVE  /\ Current \in Nodes
           /\ Tail(run.todo) \in Seq(Nodes)
BY DEF TypeInv, TypeOK, Current, Passing

LEMMA NextPassTyped ==
    ASSUME NEW todo
    PROVE  /\ NextPass(todo) \in Steps
           /\ NextPass(todo) \in Passing => todo # <<>>
BY DEF NextPass, Steps, Passing

LEMMA StartRunTypeInv ==
    ASSUME TypeInv, NEW m \in Manifests, StartRun(m)
    PROVE  TypeInv'
<1>1. PICK s \in Schedules(m) :
          run' = [NoRun EXCEPT !.pc = "dispatch", !.batch = Batch(m, s),
                               !.todo = m.nodes, !.old = receipts]
  BY DEF StartRun
<1>2. LogShape(Batch(m, s))
  BY BatchShape
<1>3. run' = [pc |-> "dispatch", batch |-> Batch(m, s), todo |-> m.nodes,
              old |-> receipts, fresh |-> {}, emitted |-> {}]
  BY <1>1 DEF NoRun
<1>4. run' \in [pc : Steps, batch : Logs, todo : Seq(Nodes), old : SUBSET Receipts,
                fresh : SUBSET Receipts, emitted : SUBSET Messages]
  BY <1>2, <1>3, ManifestFields DEF TypeInv, TypeOK, LogShape, Steps
<1>5. run'.pc \notin Passing /\ run'.batch = Batch(m, s)
  BY <1>3 DEF Passing
<1>6. TypeOK'
  <2>1. runs' \in 0..MaxRuns
    BY LocalFlowAssumption DEF LocalFlowAssumption, StartRun, TypeInv, TypeOK
  <2>. QED BY <1>4, <1>5, <2>1 DEF StartRun, TypeInv, TypeOK, disk
<1>. QED BY <1>2, <1>5, <1>6 DEF TypeInv, StartRun, disk

LEMMA StepTypeInv ==
    ASSUME TypeInv, Step \/ Crash
    PROVE  TypeInv'
<1>. USE DEF TypeInv
<1>1. CASE WriteDispatchLog
  BY <1>1, NextPassTyped DEF WriteDispatchLog, TypeOK, history, LogShape, Logs
<1>2. CASE SaveLedger
  <2>1. Current \in Nodes
    BY <1>2, CurrentTyped DEF SaveLedger, Passing
  <2>2. ledger' \in [Nodes -> [Jobs -> Nat]]
    BY <1>2, <2>1 DEF SaveLedger, TypeOK
  <2>. QED BY <1>2, <2>2 DEF SaveLedger, TypeOK, history, Steps, Passing
<1>3. CASE WriteWorkerLog
  <2>1. Current \in Nodes /\ Emitted(Current) \subseteq Messages
    BY <1>3, CurrentTyped, WorkTyped DEF WriteWorkerLog, Passing
  <2>. QED BY <1>3, <2>1 DEF WriteWorkerLog, TypeOK, history, Steps, Passing
<1>4. CASE SaveNodeState
  <2>1. /\ Current \in Nodes /\ Tail(run.todo) \in Seq(Nodes)
        /\ Work(Current) \subseteq Assignments /\ Marked(Current) \subseteq Nat
        /\ {Receipt(Current, a) : a \in Work(Current)} \subseteq Receipts
    BY <1>4, CurrentTyped, WorkTyped DEF SaveNodeState, Passing
  <2>2. workerLog[Current] \subseteq Messages
    BY <2>1 DEF TypeOK
  <2>3. run' = [run EXCEPT !.pc = NextPass(Tail(run.todo)), !.todo = Tail(@),
                   !.fresh = @ \cup {Receipt(Current, a) : a \in Work(Current)},
                   !.emitted = @ \cup workerLog[Current]]
    BY <1>4 DEF SaveNodeState, Remember
  <2>4. /\ run' \in [pc : Steps, batch : Logs, todo : Seq(Nodes), old : SUBSET Receipts,
                     fresh : SUBSET Receipts, emitted : SUBSET Messages]
        /\ run'.pc \in Passing => run'.todo # <<>>
        /\ run'.batch = run.batch
    BY <2>1, <2>2, <2>3, NextPassTyped DEF TypeOK
  <2>. QED BY <1>4, <2>1, <2>4 DEF SaveNodeState, TypeOK
<1>5. CASE WriteFlowLog
  BY <1>5 DEF WriteFlowLog, TypeOK, history, Steps, Passing
<1>6. CASE WriteReceipts
  <2>1. Merge(run.old, run.fresh) \subseteq Receipts
    BY DEF Merge, TypeOK
  <2>. QED BY <1>6, <2>1, NoLogShape
           DEF WriteReceipts, TypeOK, NoRun, NoLog, Steps, Passing, Logs
<1>7. CASE Crash
  BY <1>7, LocalFlowAssumption, NoLogShape
  DEF LocalFlowAssumption, Crash, TypeOK, disk, NoRun, NoLog, Steps, Passing, Logs
<1>. QED BY <1>1, <1>2, <1>3, <1>4, <1>5, <1>6, <1>7 DEF Step

LEMMA NextTypeInv == TypeInv /\ [Next]_vars => TypeInv'
<1>1. CASE UNCHANGED vars
  BY <1>1 DEF TypeInv, TypeOK, LogShape, vars, disk, history
<1>2. ASSUME TypeInv, Next PROVE TypeInv'
  BY <1>1, <1>2, StartRunTypeInv, StepTypeInv DEF Next, Finished
<1>. QED BY <1>1, <1>2

(* Every reachable state is well typed, whatever is rerun and cut short. *)
THEOREM FlowTypeCorrect == Spec => []TypeOK
<1>1. TypeInv => TypeOK
  BY DEF TypeInv
<1>. QED BY <1>1, InitTypeInv, NextTypeInv, PTL DEF Spec

-----------------------------------------------------------------------------
(***************************************************************************)
(* The ledger.  A step that adds to the ledger makes the pass pending, the *)
(* step that marks the work settles it, and a crash in between leaves one  *)
(* unexplained record of each job of the pass.  That marking adds one      *)
(* assignment of a job, and a new one, needs that marked IDs are in the    *)
(* node state and that a dispatch log has one assignment of a job.         *)
(***************************************************************************)
HandledIsMarked == \A a \in handled : a.id \in nodeState[a.node]
FinitelyMarked == \A n \in Nodes, j \in Jobs : IsFiniteSet(MarkedFor(n, j))
CreditInv == TypeInv /\ CreditBounded /\ HandledIsMarked /\ FinitelyMarked

LEMMA InitCreditInv == Init => CreditInv
<1>. SUFFICES ASSUME Init PROVE CreditInv
  OBVIOUS
<1>1. \A n \in Nodes, j \in Jobs : MarkedFor(n, j) = {} /\ Pending(n, j) = 0
  BY DEF Init, MarkedFor, Pending, NoRun
<1>2. \A n \in Nodes, j \in Jobs : ledger[n][j] = 0 /\ faults = 0
  BY DEF Init
<1>3. \A n \in Nodes, j \in Jobs :
         IsFiniteSet(MarkedFor(n, j)) /\ Cardinality(MarkedFor(n, j)) = 0
  BY <1>1, FS_EmptySet
<1>4. CreditBounded
  <2>. SUFFICES ASSUME NEW n \in Nodes, NEW j \in Jobs
       PROVE  /\ Cardinality(MarkedFor(n, j)) + Pending(n, j) <= ledger[n][j]
              /\ ledger[n][j] <= Cardinality(MarkedFor(n, j)) + Pending(n, j) + faults
    BY DEF CreditBounded
  <2>. QED BY <1>1, <1>2, <1>3
<1>. QED BY <1>3, <1>4, InitTypeInv DEF Init, CreditInv, HandledIsMarked, FinitelyMarked

(* The numbers CreditBounded relates. *)
LEMMA CreditNumbers ==
    ASSUME CreditInv, NEW n \in Nodes, NEW j \in Jobs
    PROVE  /\ Cardinality(MarkedFor(n, j)) \in Nat
           /\ Pending(n, j) \in {0, 1}
           /\ ledger[n][j] \in Nat /\ faults \in Nat
           /\ Cardinality(MarkedFor(n, j)) + Pending(n, j) <= ledger[n][j]
           /\ ledger[n][j] <= Cardinality(MarkedFor(n, j)) + Pending(n, j) + faults
<1>1. Cardinality(MarkedFor(n, j)) \in Nat
  BY FS_CardinalityType DEF CreditInv, FinitelyMarked
<1>2. Pending(n, j) \in {0, 1}
  BY DEF Pending
<1>3. ledger[n][j] \in Nat /\ faults \in Nat
  BY DEF CreditInv, TypeInv, TypeOK
<1>. QED BY <1>1, <1>2, <1>3 DEF CreditInv, CreditBounded

(* A step that neither records nor marks keeps the bounds, if it changes   *)
(* no pending work or ends a pass by a fault.                              *)
LEMMA CreditQuiet ==
    ASSUME CreditInv, TypeInv', UNCHANGED <<ledger, nodeState, handled>>,
           \A n \in Nodes, j \in Jobs :
              \/ Pending(n, j)' = Pending(n, j) /\ faults' = faults
              \/ Pending(n, j)' = 0 /\ faults' = faults + 1
    PROVE  CreditInv'
<1>1. \A n \in Nodes, j \in Jobs : MarkedFor(n, j)' = MarkedFor(n, j)
  BY DEF MarkedFor
<1>2. FinitelyMarked' /\ HandledIsMarked'
  BY <1>1 DEF CreditInv, FinitelyMarked, HandledIsMarked
<1>3. CreditBounded'
  <2>. SUFFICES ASSUME NEW n \in Nodes, NEW j \in Jobs
       PROVE  /\ Cardinality(MarkedFor(n, j)') + Pending(n, j)' <= ledger'[n][j]
              /\ ledger'[n][j] <= Cardinality(MarkedFor(n, j)') + Pending(n, j)' + faults'
    BY DEF CreditBounded
  <2>1. \/ Pending(n, j)' = Pending(n, j) /\ faults' = faults
        \/ Pending(n, j)' = 0 /\ faults' = faults + 1
    OBVIOUS
  <2>2. MarkedFor(n, j)' = MarkedFor(n, j) /\ ledger' = ledger
    BY <1>1
  <2>. QED BY <2>1, <2>2, CreditNumbers
<1>. QED BY <1>2, <1>3 DEF CreditInv

LEMMA CreditSaveLedger ==
    ASSUME CreditInv, TypeInv', SaveLedger
    PROVE  CreditInv'
<1>1. Current \in Nodes /\ run.pc = "ledger"
  BY CurrentTyped DEF SaveLedger, Passing, CreditInv
<1>2. \A n \in Nodes, j \in Jobs : MarkedFor(n, j)' = MarkedFor(n, j)
  BY DEF MarkedFor, SaveLedger, history
<1>3. FinitelyMarked' /\ HandledIsMarked'
  BY <1>2 DEF CreditInv, FinitelyMarked, HandledIsMarked, SaveLedger, history
<1>4. /\ \A n : Work(n)' = Work(n)
      /\ Current' = Current /\ run'.pc = "workerLog"
  BY DEF SaveLedger, Work, Current, CreditInv, TypeInv, TypeOK
<1>5. ASSUME NEW n \in Nodes, NEW j \in Jobs
      PROVE  ledger'[n][j] = ledger[n][j] + Pending(n, j)'
  <2>1. Pending(n, j)' = IF n = Current /\ \E a \in Work(n) : a.job = j THEN 1 ELSE 0
    BY <1>4 DEF Pending
  <2>2. ledger[n][j] \in Nat
    BY DEF CreditInv, TypeInv, TypeOK
  <2>3. CASE n = Current
    <3>1. ledger'[n] = [i \in Jobs |-> ledger[n][i] +
                           IF \E a \in Work(n) : a.job = i THEN 1 ELSE 0]
      BY <1>1, <2>3 DEF SaveLedger, CreditInv, TypeInv, TypeOK
    <3>. QED BY <2>1, <2>3, <3>1
  <2>4. CASE n # Current
    BY <1>1, <2>1, <2>2, <2>4 DEF SaveLedger, CreditInv, TypeInv, TypeOK
  <2>. QED BY <2>3, <2>4
<1>6. CreditBounded'
  <2>. SUFFICES ASSUME NEW n \in Nodes, NEW j \in Jobs
       PROVE  /\ Cardinality(MarkedFor(n, j)') + Pending(n, j)' <= ledger'[n][j]
              /\ ledger'[n][j] <= Cardinality(MarkedFor(n, j)') + Pending(n, j)' + faults'
    BY DEF CreditBounded
  <2>1. Pending(n, j) = 0 /\ Pending(n, j)' \in {0, 1}
    BY <1>1, <1>4 DEF Pending
  <2>2. faults' = faults
    BY DEF SaveLedger, history
  <2>. QED BY <1>2, <1>5, <2>1, <2>2, CreditNumbers
<1>. QED BY <1>3, <1>6 DEF CreditInv

LEMMA CreditSaveNodeState ==
    ASSUME CreditInv, TypeInv', SaveNodeState
    PROVE  CreditInv'
<1>1. /\ Current \in Nodes /\ run.pc = "nodeState"
      /\ Work(Current) \subseteq Assignments
  BY CurrentTyped, WorkTyped DEF SaveNodeState, Passing, CreditInv
<1>2. handled' = handled \cup Work(Current)
  BY DEF SaveNodeState
<1>3. /\ \A n \in Nodes : nodeState[n] \subseteq nodeState'[n]
      /\ \A a \in Work(Current) : a.id \in nodeState'[Current] /\ a.node = Current
  BY <1>1 DEF SaveNodeState, Marked, Work, CreditInv, TypeInv, TypeOK
<1>4. HandledIsMarked'
  BY <1>1, <1>2, <1>3 DEF HandledIsMarked, CreditInv, TypeInv, TypeOK, Assignments
<1>5. ASSUME NEW n \in Nodes, NEW j \in Jobs
      PROVE  /\ IsFiniteSet(MarkedFor(n, j)')
             /\ Cardinality(MarkedFor(n, j)') = Cardinality(MarkedFor(n, j)) + Pending(n, j)
  <2>. DEFINE M == MarkedFor(n, j)
  <2>1. IsFiniteSet(M) /\ Cardinality(M) \in Nat
    BY CreditNumbers DEF CreditInv, FinitelyMarked
  <2>2. MarkedFor(n, j)' = M \cup {a \in Work(Current) : a.node = n /\ a.job = j}
    BY <1>2 DEF MarkedFor
  <2>3. CASE n = Current /\ \E a \in Work(n) : a.job = j
    <3>1. PICK a \in Work(n) : a.job = j
      BY <2>3
    <3>2. \A b \in Work(n) : b.job = j => b = a
      BY <3>1 DEF Work, CreditInv, TypeInv, LogShape
    <3>3. {b \in Work(Current) : b.node = n /\ b.job = j} = {a}
      BY <1>3, <2>3, <3>1, <3>2
    <3>4. a \notin M
      BY <2>3, <3>1 DEF MarkedFor, CreditInv, HandledIsMarked, Work
    <3>5. Pending(n, j) = 1
      BY <1>1, <2>3 DEF Pending
    <3>6. MarkedFor(n, j)' = M \cup {a}
      BY <2>2, <3>3
    <3>. HIDE DEF M
    <3>. QED BY <2>1, <3>4, <3>5, <3>6, FS_AddElement DEF M
  <2>4. CASE ~(n = Current /\ \E a \in Work(n) : a.job = j)
    <3>1. {a \in Work(Current) : a.node = n /\ a.job = j} = {}
      BY <1>3, <2>4
    <3>2. Pending(n, j) = 0
      BY <2>4 DEF Pending
    <3>3. MarkedFor(n, j)' = M
      BY <2>2, <3>1
    <3>. QED BY <2>1, <3>2, <3>3
  <2>. QED BY <2>3, <2>4
<1>6. CreditBounded'
  <2>. SUFFICES ASSUME NEW n \in Nodes, NEW j \in Jobs
       PROVE  /\ Cardinality(MarkedFor(n, j)') + Pending(n, j)' <= ledger'[n][j]
              /\ ledger'[n][j] <= Cardinality(MarkedFor(n, j)') + Pending(n, j)' + faults'
    BY DEF CreditBounded
  <2>1. run'.pc \in {"flowLog", "ledger"}
    BY DEF SaveNodeState, Remember, NextPass, CreditInv, TypeInv, TypeOK
  <2>2. Pending(n, j)' = 0
    BY <2>1 DEF Pending
  <2>3. ledger' = ledger /\ faults' = faults
    BY DEF SaveNodeState
  <2>. QED BY <1>5, <2>2, <2>3, CreditNumbers
<1>. QED BY <1>4, <1>5, <1>6 DEF CreditInv, FinitelyMarked

LEMMA CreditNext == CreditInv /\ [Next]_vars => CreditInv'
<1>. SUFFICES ASSUME CreditInv, [Next]_vars PROVE CreditInv'
  OBVIOUS
<1>1. TypeInv'
  BY NextTypeInv DEF CreditInv
<1>2. CASE UNCHANGED vars
  <2>1. \A n \in Nodes, j \in Jobs : Pending(n, j)' = Pending(n, j)
    BY <1>2 DEF Pending, Work, Current, vars, disk
  <2>. QED BY <1>1, <1>2, <2>1, CreditQuiet DEF vars, disk, history
<1>3. ASSUME NEW m \in Manifests, StartRun(m) PROVE CreditInv'
  <2>1. run.pc = "idle" /\ run'.pc = "dispatch"
    BY <1>3 DEF StartRun, NoRun
  <2>2. \A n \in Nodes, j \in Jobs : Pending(n, j)' = Pending(n, j)
    BY <2>1 DEF Pending
  <2>. QED BY <1>1, <1>3, <2>2, CreditQuiet DEF StartRun, disk
<1>4. CASE WriteDispatchLog
  <2>1. run.pc = "dispatch" /\ run'.pc \in {"flowLog", "ledger"}
    BY <1>4 DEF WriteDispatchLog, NextPass, CreditInv, TypeInv, TypeOK
  <2>2. \A n \in Nodes, j \in Jobs : Pending(n, j)' = Pending(n, j)
    BY <2>1 DEF Pending
  <2>. QED BY <1>1, <1>4, <2>2, CreditQuiet DEF WriteDispatchLog, history
<1>5. CASE WriteWorkerLog
  <2>1. /\ run.pc = "workerLog" /\ run'.pc = "nodeState"
        /\ Current' = Current /\ \A n : Work(n)' = Work(n)
    BY <1>5 DEF WriteWorkerLog, Current, Work, CreditInv, TypeInv, TypeOK
  <2>2. \A n \in Nodes, j \in Jobs : Pending(n, j)' = Pending(n, j)
    BY <2>1 DEF Pending
  <2>. QED BY <1>1, <1>5, <2>2, CreditQuiet DEF WriteWorkerLog, history
<1>6. CASE WriteFlowLog \/ WriteReceipts
  <2>1. run.pc \in {"flowLog", "receipts"} /\ run'.pc \in {"receipts", "idle"}
    BY <1>6 DEF WriteFlowLog, WriteReceipts, NoRun, CreditInv, TypeInv, TypeOK
  <2>2. \A n \in Nodes, j \in Jobs : Pending(n, j)' = Pending(n, j)
    BY <2>1 DEF Pending
  <2>. QED BY <1>1, <1>6, <2>2, CreditQuiet DEF WriteFlowLog, WriteReceipts, history
<1>7. CASE Crash
  <2>1. run'.pc = "idle" /\ faults' = faults + 1
    BY <1>7 DEF Crash, NoRun
  <2>2. \A n \in Nodes, j \in Jobs : Pending(n, j)' = 0
    BY <2>1 DEF Pending
  <2>. QED BY <1>1, <1>7, <2>1, <2>2, CreditQuiet DEF Crash, disk
<1>. QED BY <1>1, <1>2, <1>3, <1>4, <1>5, <1>6, <1>7, CreditSaveLedger, CreditSaveNodeState
         DEF Next, Step, Finished

(* Every marked assignment is on the ledger, and the ledger holds no more  *)
(* than one further record of a job per cut-short run.                     *)
THEOREM CreditIsBounded == Spec => []CreditBounded
<1>1. CreditInv => CreditBounded
  BY DEF CreditInv
<1>. QED BY <1>1, InitCreditInv, CreditNext, PTL DEF Spec

(* No node marks work whose record is not on the ledger. *)
THEOREM MarkedCredited == Spec => MarkedIsCredited
<1> DEFINE Act == \A n \in Nodes : \A id \in nodeState'[n] \ nodeState[n] :
                    \E a \in dispatchLog.assigned : a.id = id /\ a.node = n /\ Credited(a)
<1>1. CreditInv /\ [Next]_vars => [Act]_vars
  <2>. SUFFICES ASSUME CreditInv, Next, NEW n \in Nodes,
                       NEW id \in nodeState'[n] \ nodeState[n]
       PROVE  \E a \in dispatchLog.assigned : a.id = id /\ a.node = n /\ Credited(a)
    OBVIOUS
  <2>1. SaveNodeState
    BY DEF Next, Step, Finished, StartRun, WriteDispatchLog, SaveLedger, WriteWorkerLog,
           WriteFlowLog, WriteReceipts, Crash, disk, vars
  <2>2. run.pc = "nodeState" /\ Current \in Nodes
    BY <2>1, CurrentTyped DEF SaveNodeState, Passing, CreditInv
  <2>3. n = Current /\ id \in Marked(Current)
    BY <2>1, <2>2 DEF SaveNodeState, CreditInv, TypeInv, TypeOK
  <2>4. PICK a \in Work(n) : a.id = id
    BY <2>3 DEF Marked
  <2>5. a \in dispatchLog.assigned /\ a.node = n /\ a.job \in Jobs
    BY <2>4, WorkTyped DEF Work, CreditInv, Assignments
  <2>6. Pending(n, a.job) = 1
    BY <2>2, <2>3, <2>4 DEF Pending
  <2>7. ledger[n][a.job] > 0
    BY <2>5, <2>6, CreditNumbers
  <2>. QED BY <2>4, <2>5, <2>7 DEF Credited
<1>. QED BY <1>1, InitCreditInv, CreditNext, PTL DEF Spec, MarkedIsCredited

-----------------------------------------------------------------------------
(***************************************************************************)
(* Receipts.  Each stands for a handled assignment and no two of a         *)
(* document share an assignment ID, so for a node and a job they are no    *)
(* more than the marked assignments, which the ledger covers.  New         *)
(* receipts stay distinct because they come from the batch on disk.        *)
(***************************************************************************)
Origin(r) == [id |-> r.assignment, node |-> r.node, job |-> r.job]
Keyed(S) == \A q, r \in S : q.assignment = r.assignment => q = r
Sound(S) == Keyed(S) /\ \A r \in S : Origin(r) \in handled
FreshFromBatch == \A r \in run.fresh : Origin(r) \in dispatchLog.assigned
FreshAfterDispatch == run.pc = "dispatch" => run.fresh = {}

ReceiptInv ==
    /\ CreditInv
    /\ Sound(receipts) /\ Sound(run.old) /\ Sound(run.fresh)
    /\ FreshFromBatch /\ FreshAfterDispatch

LEMMA InitReceiptInv == Init => ReceiptInv
BY InitCreditInv
   DEF Init, ReceiptInv, Sound, Keyed, FreshFromBatch, FreshAfterDispatch, NoRun

LEMMA MergeKeyed ==
    ASSUME NEW S, NEW T, Keyed(S), Keyed(T)
    PROVE  Keyed(Merge(S, T))
BY DEF Keyed, Merge

(* The receipts of a pass are new, distinct and of handled assignments. *)
LEMMA FreshSaveNodeState ==
    ASSUME ReceiptInv, SaveNodeState
    PROVE  /\ Sound(run.fresh)' /\ FreshFromBatch' /\ FreshAfterDispatch'
           /\ run'.old = run.old
<1> DEFINE New == {Receipt(Current, a) : a \in Work(Current)}
<1>1. /\ Current \in Nodes /\ Work(Current) \subseteq dispatchLog.assigned
      /\ Work(Current) \subseteq Assignments
      /\ \A a \in Work(Current) : a.node = Current
  BY CurrentTyped, WorkTyped
     DEF SaveNodeState, Passing, ReceiptInv, CreditInv, Work
<1>2. run' = [run EXCEPT !.pc = NextPass(Tail(run.todo)), !.todo = Tail(@),
                         !.fresh = @ \cup New, !.emitted = @ \cup workerLog[Current]]
  BY DEF SaveNodeState, Remember
<1>3. /\ run'.fresh = run.fresh \cup New /\ run'.old = run.old
      /\ run'.pc = NextPass(Tail(run.todo))
  BY <1>2 DEF ReceiptInv, CreditInv, TypeInv, TypeOK
<1>4. handled' = handled \cup Work(Current) /\ dispatchLog' = dispatchLog
  BY DEF SaveNodeState
<1>5. \A a \in Work(Current) :
         /\ Receipt(Current, a).assignment = a.id
         /\ Origin(Receipt(Current, a)) = a
  <2>1. \A a \in Assignments : a = [id |-> a.id, node |-> a.node, job |-> a.job]
    BY DEF Assignments
  <2>. QED BY <1>1, <2>1 DEF Receipt, Origin
<1>6. \A r \in run'.fresh : Origin(r) \in handled' /\ Origin(r) \in dispatchLog'.assigned
  BY <1>1, <1>3, <1>4, <1>5 DEF ReceiptInv, Sound, FreshFromBatch
<1>7. ASSUME NEW q \in run'.fresh, NEW r \in run'.fresh, q.assignment = r.assignment
      PROVE  q = r
  <2>1. \A a, b \in dispatchLog.assigned : a.id = b.id => a = b
    BY DEF ReceiptInv, CreditInv, TypeInv, LogShape
  <2>2. ASSUME NEW x \in New, NEW y \in run.fresh, x.assignment = y.assignment
        PROVE  FALSE
    <3>1. PICK a \in Work(Current) : x = Receipt(Current, a)
      OBVIOUS
    <3>2. Origin(y) \in dispatchLog.assigned /\ Origin(y) \in handled /\ Origin(y).id = a.id
      BY <1>5, <2>2, <3>1 DEF ReceiptInv, Sound, FreshFromBatch, Origin
    <3>3. Origin(y) = a
      BY <1>1, <2>1, <3>2
    <3>4. a.id \in nodeState[Current]
      BY <1>1, <3>2, <3>3 DEF ReceiptInv, CreditInv, HandledIsMarked
    <3>. QED BY <3>4 DEF Work
  <2>3. CASE q \in New /\ r \in New
    <3>1. PICK a \in Work(Current) : q = Receipt(Current, a)
      BY <2>3
    <3>2. PICK b \in Work(Current) : r = Receipt(Current, b)
      BY <2>3
    <3>3. a.id = b.id
      BY <1>5, <1>7, <3>1, <3>2
    <3>. QED BY <1>1, <2>1, <3>1, <3>2, <3>3
  <2>4. CASE q \in run.fresh /\ r \in run.fresh
    BY <1>7, <2>4 DEF ReceiptInv, Sound, Keyed
  <2>5. ~(q \in New /\ r \in run.fresh) /\ ~(q \in run.fresh /\ r \in New)
    BY <1>7, <2>2
  <2>. QED BY <1>3, <2>3, <2>4, <2>5
<1>8. Sound(run.fresh)'
  BY <1>6, <1>7 DEF Sound, Keyed
<1>9. FreshFromBatch' /\ FreshAfterDispatch'
  BY <1>3, <1>6 DEF FreshFromBatch, FreshAfterDispatch, NextPass
<1>. QED BY <1>3, <1>8, <1>9

LEMMA ReceiptNext == ReceiptInv /\ [Next]_vars => ReceiptInv'
<1>. SUFFICES ASSUME ReceiptInv, [Next]_vars PROVE ReceiptInv'
  OBVIOUS
<1>1. CreditInv' /\ TypeInv
  BY CreditNext DEF ReceiptInv, CreditInv
<1>2. CASE UNCHANGED vars
  BY <1>1, <1>2 DEF ReceiptInv, Sound, Keyed, FreshFromBatch, FreshAfterDispatch,
                    vars, disk, history
<1>3. ASSUME NEW m \in Manifests, StartRun(m) PROVE ReceiptInv'
  <2>1. run'.old = receipts /\ run'.fresh = {}
    BY <1>3 DEF StartRun, NoRun
  <2>. QED BY <1>1, <1>3, <2>1
           DEF StartRun, disk, ReceiptInv, Sound, Keyed, FreshFromBatch, FreshAfterDispatch
<1>4. CASE WriteDispatchLog
  <2>1. /\ run.fresh = {} /\ run'.fresh = {} /\ run'.old = run.old
    BY <1>1, <1>4
       DEF WriteDispatchLog, ReceiptInv, FreshAfterDispatch, TypeInv, TypeOK
  <2>. QED BY <1>1, <1>4, <2>1
           DEF WriteDispatchLog, history, ReceiptInv, Sound, Keyed, FreshFromBatch,
               FreshAfterDispatch
<1>5. CASE SaveLedger \/ WriteWorkerLog \/ WriteFlowLog
  <2>1. /\ run'.fresh = run.fresh /\ run'.old = run.old /\ run'.pc # "dispatch"
        /\ UNCHANGED <<receipts, handled, dispatchLog>>
    BY <1>1, <1>5
       DEF SaveLedger, WriteWorkerLog, WriteFlowLog, history, TypeInv, TypeOK
  <2>. QED BY <1>1, <2>1
           DEF ReceiptInv, Sound, Keyed, FreshFromBatch, FreshAfterDispatch
<1>6. CASE SaveNodeState
  <2>1. handled \subseteq handled' /\ receipts' = receipts
    BY <1>6 DEF SaveNodeState
  <2>2. run'.old = run.old
    BY <1>6, FreshSaveNodeState
  <2>3. Sound(receipts)' /\ Sound(run.old)'
    BY <2>1, <2>2 DEF ReceiptInv, Sound, Keyed
  <2>. QED BY <1>1, <1>6, <2>3, FreshSaveNodeState DEF ReceiptInv
<1>7. CASE WriteReceipts
  <2>1. /\ receipts' = Merge(run.old, run.fresh) /\ run' = NoRun
        /\ handled' = handled
    BY <1>7 DEF WriteReceipts
  <2>2. Keyed(Merge(run.old, run.fresh))
    BY MergeKeyed DEF ReceiptInv, Sound
  <2>3. Sound(receipts)'
    BY <2>1, <2>2 DEF ReceiptInv, Sound, Keyed, Merge
  <2>. QED BY <1>1, <2>1, <2>3
           DEF ReceiptInv, Sound, Keyed, FreshFromBatch, FreshAfterDispatch, NoRun
<1>8. CASE Crash
  BY <1>1, <1>8 DEF Crash, disk, NoRun, ReceiptInv, Sound, Keyed, FreshFromBatch,
                    FreshAfterDispatch
<1>. QED BY <1>2, <1>3, <1>4, <1>5, <1>6, <1>7, <1>8 DEF Next, Step, Finished

LEMMA ClaimsBounded ==
    ASSUME ReceiptInv, NEW n \in Nodes, NEW j \in Jobs
    PROVE  /\ Claims(n, j) \in Nat
           /\ Claims(n, j) <= Cardinality(MarkedFor(n, j))
<1> DEFINE C == {r \in receipts : r.node = n /\ r.job = j}
           M == MarkedFor(n, j)
           f == [r \in C |-> Origin(r)]
<1>1. \A r \in C : Origin(r) \in M
  BY DEF ReceiptInv, Sound, Origin, MarkedFor
<1>2. \A q, r \in C : Origin(q) = Origin(r) => q = r
  BY DEF ReceiptInv, Sound, Keyed, Origin
<1>3. f \in Injection(C, M)
  <2>1. f \in [C -> M]
    BY <1>1
  <2>2. \A q, r \in C : f[q] = f[r] => q = r
    BY <1>2
  <2>. HIDE DEF f, C, M
  <2>. QED BY <2>1, <2>2 DEF Injection, IsInjective
<1>4. IsFiniteSet(M)
  BY DEF ReceiptInv, CreditInv, FinitelyMarked
<1>5. Cardinality(C) \in Nat /\ Cardinality(C) <= Cardinality(M)
  <2>. HIDE DEF C, M, f
  <2>. QED BY <1>3, <1>4, FS_Injection, FS_CardinalityType
<1>. QED BY <1>5 DEF Claims

(* No run, rerun or crash leaves more receipts for a job than the ledger   *)
(* has records of it.                                                      *)
THEOREM ReceiptsCovered == Spec => []ReceiptsWithinLedger
<1>1. ReceiptInv => ReceiptsWithinLedger
  <2>. SUFFICES ASSUME ReceiptInv, NEW n \in Nodes, NEW j \in Jobs
       PROVE  Claims(n, j) <= ledger[n][j]
    BY DEF ReceiptsWithinLedger
  <2>1. /\ Claims(n, j) \in Nat
        /\ Claims(n, j) <= Cardinality(MarkedFor(n, j))
    BY ClaimsBounded
  <2>2. CreditInv
    BY DEF ReceiptInv
  <2>. QED BY <2>1, <2>2, CreditNumbers
<1>. QED BY <1>1, InitReceiptInv, ReceiptNext, PTL DEF Spec

(* Ledger, processed marks and receipts stay within one record per cut-off *)
(* run of each other, in every run, rerun and crash.                       *)
THEOREM LedgerBounded == Spec => []LedgerIsBounded
BY CreditIsBounded, ReceiptsCovered, PTL DEF LedgerIsBounded

-----------------------------------------------------------------------------
(***************************************************************************)
(* One manifest.  All its runs have one batch, because a manifest has one  *)
(* schedule; a run leaves no inbox of its batch unprocessed, and marks and *)
(* receipts of that batch mean the same assignments in every run.          *)
(***************************************************************************)
BatchesOf(m) == {Batch(m, s) : s \in Schedules(m)}
ToDo(n) == \E i \in DOMAIN run.todo : run.todo[i] = n
Dispatched == run.pc \notin {"idle", "dispatch"}

(* Where a run stands: what it read, and whose inbox is left to process.   *)
RunInv ==
    /\ run.pc \in {"idle", "flowLog", "receipts"} => run.todo = <<>>
    /\ run.pc = "idle" => run.fresh = {}
    /\ run.pc # "idle" => ~done /\ run.old = receipts
    /\ run.pc = "dispatch" => \A a \in run.batch.assigned : ToDo(a.node)
    /\ Dispatched \/ done =>
          \A a \in dispatchLog.assigned : a.id \in nodeState[a.node] \/ ToDo(a.node)

MarkedIsHandled ==
    \A n \in Nodes : \A id \in nodeState[n] : \E a \in handled : a.id = id /\ a.node = n

(* While one manifest is used every run has the same batch, all marks are  *)
(* of its assignments and, without a fault, each of them has its receipt.  *)
OneManifest(m) ==
    /\ run.pc = "dispatch" => run.batch \in BatchesOf(m)
    /\ Dispatched \/ done => dispatchLog \in BatchesOf(m)
    /\ \A a \in handled : \E b \in BatchesOf(m) : a \in b.assigned
    /\ faults = 0 => \A a \in handled : \E r \in receipts \cup run.fresh : Origin(r) = a

OnceInv ==
    /\ ReceiptInv
    /\ IsFiniteSet(used)
    /\ used = {} => handled = {} /\ run.pc = "idle"
    /\ RunInv /\ MarkedIsHandled
    /\ \A m \in Manifests : used = {m} => OneManifest(m)

-----------------------------------------------------------------------------
(* A manifest has one schedule: two that differ differ at a first job, but *)
(* the jobs before it load the nodes alike.                                *)
LEMMA LeastNumber ==
    ASSUME NEW S, S \subseteq Nat, S # {}
    PROVE  \E x \in S : \A y \in S : x <= y
<1>. DEFINE Less == {ss \in Nat \X Nat : ss[1] < ss[2]}
<1>1. IsWellFoundedOn(Less, Nat)
  <2>1. OpToRel(<, Nat) = Less
    BY Zenon DEF OpToRel
  <2>. QED BY <2>1, NatLessThanWellFounded, Zenon
<1>2. PICK x \in S : \A y \in S : ~(<<y, x>> \in Less)
  <2>. HIDE DEF Less
  <2>. QED BY <1>1, WFMin
<1>3. ASSUME NEW y \in S PROVE x <= y
  <2>1. <<y, x>> \in Nat \X Nat /\ <<y, x>>[1] = y /\ <<y, x>>[2] = x
    OBVIOUS
  <2>2. ~(y < x)
    BY <1>2, <2>1, Zenon
  <2>. QED BY <2>2
<1>. QED BY <1>3

LEMMA LoadTyped ==
    ASSUME NEW s, NEW k \in Nat, NEW i
    PROVE  Load(s, k, i) \in Nat
<1>1. {h \in 1..(k - 1) : s[h] = i} \in SUBSET (1..(k - 1))
  OBVIOUS
<1>2. IsFiniteSet(1..(k - 1))
  BY FS_Interval
<1>. QED BY <1>1, <1>2, FS_Subset, FS_CardinalityType DEF Load

LEMMA ScheduleUnique ==
    ASSUME NEW m \in Manifests, NEW s \in Schedules(m), NEW t \in Schedules(m)
    PROVE  s = t
<1>. DEFINE D == DOMAIN m.jobs
            Differ == {k \in D : s[k] # t[k]}
<1>1. /\ s \in [D -> DOMAIN m.nodes] /\ t \in [D -> DOMAIN m.nodes]
      /\ D = 1..Len(m.jobs) /\ Len(m.jobs) \in Nat /\ DOMAIN m.nodes \subseteq Nat
  BY ManifestFields DEF Schedules
<1>2. SUFFICES ASSUME Differ # {} PROVE FALSE
  BY <1>1
<1>3. PICK k \in Differ : \A h \in Differ : k <= h
  <2>1. Differ \subseteq Nat
    BY <1>1
  <2>. HIDE DEF Differ
  <2>. QED BY <1>2, <2>1, LeastNumber
<1>4. k \in D /\ k \in Nat /\ s[k] # t[k] /\ s[k] \in Nat /\ t[k] \in Nat
  BY <1>1
<1>5. \A h \in 1..(k - 1) : s[h] = t[h]
  <2>. TAKE h \in 1..(k - 1)
  <2>1. h \in D /\ ~(k <= h)
    BY <1>1, <1>4
  <2>2. h \notin Differ
    <3>. HIDE DEF Differ
    <3>. QED BY <1>3, <2>1
  <2>. QED BY <2>1, <2>2
<1>6. \A i : Load(s, k, i) = Load(t, k, i)
  <2>. TAKE i
  <2>1. {h \in 1..(k - 1) : s[h] = i} = {h \in 1..(k - 1) : t[h] = i}
    BY <1>5
  <2>. QED BY <2>1 DEF Load
<1>7. \A i : Load(s, k, i) \in Nat
  BY <1>4, LoadTyped
<1>8. Precedes(s, k, s[k], t[k]) /\ Precedes(t, k, t[k], s[k])
  BY <1>4 DEF Schedules
<1>. QED BY <1>4, <1>6, <1>7, <1>8 DEF Precedes

LEMMA OneBatch ==
    ASSUME NEW m \in Manifests, NEW b \in BatchesOf(m), NEW c \in BatchesOf(m)
    PROVE  b = c
BY ScheduleUnique DEF BatchesOf

LEMMA BatchOfNodes ==
    ASSUME NEW m \in Manifests, NEW b \in BatchesOf(m), NEW a \in b.assigned
    PROVE  \E i \in DOMAIN m.nodes : m.nodes[i] = a.node
<1>1. PICK s \in Schedules(m) : b = Batch(m, s)
  BY DEF BatchesOf
<1>2. PICK k \in DOMAIN m.jobs : a.node = m.nodes[s[k]]
  BY <1>1 DEF Batch
<1>3. s[k] \in DOMAIN m.nodes
  BY <1>2 DEF Schedules
<1>. QED BY <1>2, <1>3

LEMMA BatchKeys ==
    ASSUME NEW m \in Manifests, NEW b \in BatchesOf(m), NEW x \in b.assigned,
           NEW y \in b.assigned, x.id = y.id \/ x.job = y.job
    PROVE  x = y
BY BatchShape DEF BatchesOf, LogShape

-----------------------------------------------------------------------------
LEMMA InitOnce == Init => OnceInv
<1>. SUFFICES ASSUME Init PROVE OnceInv
  OBVIOUS
<1>1. used = {} /\ handled = {} /\ done = FALSE /\ run = NoRun /\ nodeState = [n \in Nodes |-> {}]
  BY DEF Init
<1>2. RunInv
  BY <1>1 DEF RunInv, NoRun, Dispatched
<1>3. MarkedIsHandled
  BY <1>1 DEF MarkedIsHandled
<1>. QED BY <1>1, <1>2, <1>3, InitReceiptInv, FS_EmptySet DEF OnceInv, NoRun

LEMMA StartRunOnce ==
    ASSUME OnceInv, ReceiptInv', NEW m \in Manifests, StartRun(m)
    PROVE  OnceInv'
<1>1. PICK s \in Schedules(m) :
          run' = [NoRun EXCEPT !.pc = "dispatch", !.batch = Batch(m, s),
                               !.todo = m.nodes, !.old = receipts]
  BY DEF StartRun
<1>2. /\ run'.pc = "dispatch" /\ run'.batch = Batch(m, s) /\ run'.todo = m.nodes
      /\ run'.old = receipts /\ run'.fresh = {}
  BY <1>1 DEF NoRun
<1>3. /\ used' = used \cup {m} /\ done' = FALSE /\ run.pc = "idle"
      /\ UNCHANGED <<dispatchLog, nodeState, receipts, handled, faults>>
  BY DEF StartRun, disk
<1>4. Batch(m, s) \in BatchesOf(m)
  BY DEF BatchesOf
<1>5. RunInv'
  BY <1>2, <1>3, <1>4, BatchOfNodes DEF RunInv, Dispatched, ToDo
<1>6. MarkedIsHandled'
  BY <1>3 DEF OnceInv, MarkedIsHandled
<1>7. ASSUME NEW k \in Manifests, used' = {k} PROVE OneManifest(k)'
  <2>1. k = m
    BY <1>3, <1>7
  <2>5. used = {} \/ used = {m}
    <3>1. used \subseteq {m}
      BY <1>3, <1>7, <2>1
    <3>. QED BY <3>1
  <2>2. CASE used = {}
    <3>1. handled' = {}
      BY <1>3, <2>2 DEF OnceInv
    <3>. QED BY <1>2, <1>3, <1>4, <2>1, <3>1 DEF OneManifest, Dispatched
  <2>3. CASE used = {m}
    <3>1. OneManifest(m) /\ run.fresh = {}
      BY <1>3, <2>3 DEF OnceInv, RunInv
    <3>. QED BY <1>2, <1>3, <1>4, <2>1, <3>1 DEF OneManifest, Dispatched
  <2>. QED BY <2>2, <2>3, <2>5
<1>8. IsFiniteSet(used')
  BY <1>3, FS_AddElement DEF OnceInv
<1>. QED BY <1>3, <1>5, <1>6, <1>7, <1>8 DEF OnceInv

LEMMA DispatchOnce ==
    ASSUME OnceInv, ReceiptInv', WriteDispatchLog
    PROVE  OnceInv'
<1>1. /\ run' = [run EXCEPT !.pc = NextPass(run.todo)] /\ run.pc = "dispatch"
      /\ dispatchLog' = run.batch
      /\ UNCHANGED <<nodeState, receipts, handled, used, done, faults>>
  BY DEF WriteDispatchLog, history
<1>2. /\ run'.pc = NextPass(run.todo) /\ run'.pc \in {"flowLog", "ledger"}
      /\ run'.todo = run.todo /\ run'.old = run.old /\ run'.fresh = run.fresh
  BY <1>1 DEF OnceInv, ReceiptInv, CreditInv, TypeInv, TypeOK, NextPass
<1>3. run'.pc = "flowLog" => run'.todo = <<>>
  BY <1>2 DEF NextPass
<1>4. RunInv'
  BY <1>1, <1>2, <1>3 DEF OnceInv, RunInv, Dispatched, ToDo
<1>5. MarkedIsHandled'
  BY <1>1 DEF OnceInv, MarkedIsHandled
<1>6. ASSUME NEW m \in Manifests, used' = {m} PROVE OneManifest(m)'
  <2>1. OneManifest(m)
    BY <1>1, <1>6 DEF OnceInv
  <2>. QED BY <1>1, <1>2, <2>1 DEF OneManifest, Dispatched
<1>. QED BY <1>1, <1>2, <1>4, <1>5, <1>6 DEF OnceInv

LEMMA QuietOnce ==
    ASSUME OnceInv, ReceiptInv', SaveLedger \/ WriteWorkerLog \/ WriteFlowLog
    PROVE  OnceInv'
<1>1. UNCHANGED <<dispatchLog, nodeState, receipts, handled, used, done, faults>>
  BY DEF SaveLedger, WriteWorkerLog, WriteFlowLog, history
<1>2. /\ run.pc \in {"ledger", "workerLog", "flowLog"}
      /\ run'.pc \in {"workerLog", "nodeState", "receipts"}
      /\ run'.pc = "receipts" => run.pc = "flowLog"
      /\ run'.todo = run.todo /\ run'.old = run.old /\ run'.fresh = run.fresh
  BY DEF SaveLedger, WriteWorkerLog, WriteFlowLog, OnceInv, ReceiptInv, CreditInv, TypeInv, TypeOK
<1>4. RunInv'
  BY <1>1, <1>2 DEF OnceInv, RunInv, Dispatched, ToDo
<1>5. MarkedIsHandled'
  BY <1>1 DEF OnceInv, MarkedIsHandled
<1>6. ASSUME NEW m \in Manifests, used' = {m} PROVE OneManifest(m)'
  <2>1. OneManifest(m)
    BY <1>1, <1>6 DEF OnceInv
  <2>. QED BY <1>1, <1>2, <2>1 DEF OneManifest, Dispatched
<1>. QED BY <1>1, <1>2, <1>4, <1>5, <1>6 DEF OnceInv

LEMMA MarkOnce ==
    ASSUME OnceInv, ReceiptInv', SaveNodeState
    PROVE  OnceInv'
<1>. DEFINE New == {Receipt(Current, a) : a \in Work(Current)}
<1>1. /\ run.pc = "nodeState" /\ handled' = handled \cup Work(Current)
      /\ nodeState' = [nodeState EXCEPT ![Current] = @ \cup Marked(Current)]
      /\ UNCHANGED <<dispatchLog, receipts, used, done, faults>>
      /\ run' = [run EXCEPT !.pc = NextPass(Tail(run.todo)), !.todo = Tail(@),
                    !.fresh = @ \cup New, !.emitted = @ \cup workerLog[Current]]
  BY DEF SaveNodeState, Remember
<1>2. /\ run'.pc = NextPass(Tail(run.todo)) /\ run'.todo = Tail(run.todo)
      /\ run'.old = run.old /\ run'.fresh = run.fresh \cup New
  BY <1>1 DEF OnceInv, ReceiptInv, CreditInv, TypeInv, TypeOK
<1>3. /\ Current \in Nodes /\ Work(Current) \subseteq Assignments
      /\ Work(Current) \subseteq dispatchLog.assigned
      /\ \A a \in Work(Current) : a.node = Current
      /\ dispatchLog.assigned \subseteq Assignments
  BY <1>1, CurrentTyped, WorkTyped
     DEF OnceInv, ReceiptInv, CreditInv, Passing, Work, TypeInv, TypeOK, Logs
<1>4. /\ run'.pc \in {"flowLog", "ledger"}
      /\ run'.pc = "flowLog" => run'.todo = <<>>
  BY <1>2 DEF NextPass
<1>5. /\ nodeState'[Current] = nodeState[Current] \cup Marked(Current)
      /\ \A n \in Nodes \ {Current} : nodeState'[n] = nodeState[n]
  BY <1>1, <1>3 DEF OnceInv, ReceiptInv, CreditInv, TypeInv, TypeOK
<1>6. ASSUME NEW a \in dispatchLog.assigned
      PROVE  a.id \in nodeState'[a.node] \/ ToDo(a.node)'
  <2>1. a.node \in Nodes
    BY <1>3 DEF Assignments
  <2>2. CASE a.id \in nodeState[a.node]
    BY <2>1, <2>2, <1>5
  <2>3. CASE a.id \notin nodeState[a.node] /\ a.node = Current
    <3>1. a \in Work(Current)
      BY <2>3 DEF Work
    <3>2. a.id \in Marked(Current)
      BY <3>1 DEF Marked
    <3>. QED BY <3>2, <2>3, <1>5
  <2>4. CASE a.id \notin nodeState[a.node] /\ a.node # Current
    <3>1. PICK i \in DOMAIN run.todo : run.todo[i] = a.node
      BY <1>1, <2>4 DEF OnceInv, RunInv, Dispatched, ToDo
    <3>0. TypeOK /\ run.pc \in Passing
      BY <1>1 DEF OnceInv, ReceiptInv, CreditInv, TypeInv, Passing
    <3>4. run.todo \in Seq(Nodes) /\ run.todo # <<>>
      BY <3>0 DEF TypeOK
    <3>2. run.todo \in Seq(Nodes) /\ run.todo # <<>> /\ i # 1
      BY <2>4, <3>1, <3>4 DEF Current
    <3>3. i - 1 \in DOMAIN Tail(run.todo) /\ Tail(run.todo)[i - 1] = run.todo[i]
      BY <3>1, <3>2
    <3>. QED BY <3>1, <3>3, <1>2 DEF ToDo
  <2>. QED BY <2>2, <2>3, <2>4
<1>7. RunInv'
  BY <1>1, <1>2, <1>4, <1>6 DEF OnceInv, RunInv, Dispatched
<1>8. MarkedIsHandled'
  <2>. SUFFICES ASSUME NEW n \in Nodes, NEW id \in nodeState'[n]
                PROVE  \E a \in handled' : a.id = id /\ a.node = n
    BY DEF MarkedIsHandled
  <2>1. CASE id \in nodeState[n]
    BY <1>1, <2>1 DEF OnceInv, MarkedIsHandled
  <2>2. CASE n = Current /\ id \in Marked(Current)
    BY <1>1, <1>3, <2>2 DEF Marked
  <2>. QED BY <1>5, <2>1, <2>2
<1>9. \A a \in Work(Current) : Origin(Receipt(Current, a)) = a
  <2>1. \A a \in Assignments : a = [id |-> a.id, node |-> a.node, job |-> a.job]
    BY DEF Assignments
  <2>. QED BY <1>3, <2>1 DEF Receipt, Origin
<1>10. ASSUME NEW m \in Manifests, used' = {m} PROVE OneManifest(m)'
  <2>1. OneManifest(m)
    BY <1>1, <1>10 DEF OnceInv
  <2>2. dispatchLog \in BatchesOf(m)
    BY <1>1, <2>1 DEF OneManifest, Dispatched
  <2>3. \A a \in handled' : \E b \in BatchesOf(m) : a \in b.assigned
    BY <1>1, <1>3, <2>1, <2>2 DEF OneManifest
  <2>4. faults = 0 => \A a \in handled' : \E r \in receipts \cup run'.fresh : Origin(r) = a
    BY <1>1, <1>2, <1>9, <2>1 DEF OneManifest
  <2>. QED BY <1>1, <1>4, <2>2, <2>3, <2>4 DEF OneManifest, Dispatched
<1>11. used # {}
  BY <1>1 DEF OnceInv
<1>. QED BY <1>1, <1>7, <1>8, <1>10, <1>11 DEF OnceInv

(* New receipts replace only those of the same assignment, so that each    *)
(* assignment keeps one.                                                   *)
LEMMA ReceiptsOnce ==
    ASSUME OnceInv, ReceiptInv', WriteReceipts
    PROVE  OnceInv'
<1>1. /\ run.pc = "receipts" /\ receipts' = Merge(run.old, run.fresh)
      /\ run' = NoRun /\ done' = TRUE
      /\ UNCHANGED <<dispatchLog, nodeState, handled, used, faults>>
  BY DEF WriteReceipts
<1>2. run'.pc = "idle" /\ run'.todo = <<>> /\ run'.fresh = {}
  BY <1>1 DEF NoRun
<1>3. run.old = receipts /\ run.todo = <<>> /\ Dispatched
  BY <1>1 DEF OnceInv, RunInv, Dispatched
<1>4. \A a \in dispatchLog.assigned : a.id \in nodeState[a.node]
  BY <1>3 DEF OnceInv, RunInv, ToDo
<1>5. RunInv'
  BY <1>1, <1>2, <1>4 DEF RunInv, Dispatched
<1>6. MarkedIsHandled'
  BY <1>1 DEF OnceInv, MarkedIsHandled
<1>7. ASSUME NEW m \in Manifests, used' = {m} PROVE OneManifest(m)'
  <2>1. OneManifest(m)
    BY <1>1, <1>7 DEF OnceInv
  <2>2. dispatchLog \in BatchesOf(m)
    BY <1>3, <2>1 DEF OneManifest
  <2>3. ASSUME faults = 0, NEW a \in handled
        PROVE  \E r \in receipts' : Origin(r) = a
    <3>1. PICK r \in receipts \cup run.fresh : Origin(r) = a
      BY <2>1, <2>3 DEF OneManifest
    <3>2. CASE r \in run.fresh
      BY <1>1, <3>1, <3>2 DEF Merge
    <3>3. CASE r \in receipts /\ \A f \in run.fresh : f.assignment # r.assignment
      BY <1>1, <1>3, <3>1, <3>3 DEF Merge
    <3>4. CASE \E f \in run.fresh : f.assignment = r.assignment
      <4>1. PICK f \in run.fresh : f.assignment = r.assignment
        BY <3>4
      <4>2. Origin(f) \in dispatchLog.assigned /\ Origin(f).id = a.id
        BY <3>1, <4>1 DEF OnceInv, ReceiptInv, FreshFromBatch, Origin
      <4>3. a \in dispatchLog.assigned
        BY <2>1, <2>2, OneBatch DEF OneManifest
      <4>4. Origin(f) = a
        BY <2>2, <4>2, <4>3, BatchKeys
      <4>. QED BY <1>1, <4>1, <4>4 DEF Merge
    <3>. QED BY <3>1, <3>2, <3>3, <3>4
  <2>. QED BY <1>1, <1>2, <2>1, <2>2, <2>3 DEF OneManifest, Dispatched
<1>. QED BY <1>1, <1>2, <1>5, <1>6, <1>7 DEF OnceInv

LEMMA CrashOnce ==
    ASSUME OnceInv, ReceiptInv', Crash
    PROVE  OnceInv'
<1>1. /\ run.pc # "idle" /\ run' = NoRun /\ faults' = faults + 1
      /\ UNCHANGED <<dispatchLog, nodeState, receipts, handled, used, done>>
  BY DEF Crash, disk
<1>2. run'.pc = "idle" /\ run'.todo = <<>> /\ run'.fresh = {} /\ ~done /\ faults' # 0
  BY <1>1 DEF NoRun, OnceInv, RunInv, ReceiptInv, CreditInv, TypeInv, TypeOK
<1>3. RunInv'
  BY <1>1, <1>2 DEF RunInv, Dispatched
<1>4. MarkedIsHandled'
  BY <1>1 DEF OnceInv, MarkedIsHandled
<1>5. ASSUME NEW m \in Manifests, used' = {m} PROVE OneManifest(m)'
  <2>1. OneManifest(m)
    BY <1>1, <1>5 DEF OnceInv
  <2>. QED BY <1>1, <1>2, <2>1 DEF OneManifest, Dispatched
<1>. QED BY <1>1, <1>2, <1>3, <1>4, <1>5 DEF OnceInv

LEMMA OnceNext == OnceInv /\ [Next]_vars => OnceInv'
<1>. SUFFICES ASSUME OnceInv, [Next]_vars PROVE OnceInv'
  OBVIOUS
<1>1. ReceiptInv'
  BY ReceiptNext DEF OnceInv
<1>2. CASE UNCHANGED vars
  <2>1. UNCHANGED <<dispatchLog, nodeState, receipts, run, handled, used, done, faults>>
    BY <1>2 DEF vars, disk, history
  <2>2. RunInv'
    BY <2>1 DEF OnceInv, RunInv, Dispatched, ToDo
  <2>3. MarkedIsHandled'
    BY <2>1 DEF OnceInv, MarkedIsHandled
  <2>4. ASSUME NEW m \in Manifests, used' = {m} PROVE OneManifest(m)'
    BY <2>1, <2>4 DEF OnceInv, OneManifest, Dispatched
  <2>. QED BY <1>1, <2>1, <2>2, <2>3, <2>4 DEF OnceInv
<1>. QED BY <1>1, <1>2, StartRunOnce, DispatchOnce, QuietOnce, MarkOnce, ReceiptsOnce, CrashOnce
         DEF Next, Step, Finished

(* What a completed run of the only manifest leaves.                       *)
LEMMA OnceImplies ==
    ASSUME OnceInv
    PROVE  CreditedOnce
<1>. SUFFICES ASSUME done, Cardinality(used) = 1 PROVE
        /\ \A a \in dispatchLog.assigned : Credited(a) /\ a.id \in nodeState[a.node]
        /\ faults = 0 =>
              \A n \in Nodes, j \in Jobs :
                  LET due == IF \E a \in dispatchLog.assigned : a.node = n /\ a.job = j
                             THEN 1 ELSE 0
                  IN ledger[n][j] = due /\ Claims(n, j) = due
  BY DEF CreditedOnce
<1>1. CreditInv /\ TypeInv /\ TypeOK
  BY DEF OnceInv, ReceiptInv, CreditInv, TypeInv
<1>2. PICK m \in Manifests : used = {m}
  <2>1. IsFiniteSet(used) /\ used \subseteq Manifests
    BY <1>1 DEF OnceInv, TypeOK
  <2>2. Cardinality(used) = 1 <=> \E x : used = {x}
    BY <2>1, FS_Singleton, Zenon
  <2>3. PICK x : used = {x}
    BY <2>2
  <2>4. x \in Manifests
    BY <2>1, <2>3
  <2>. QED BY <2>3, <2>4
<1>3. run.pc = "idle" /\ run.todo = <<>> /\ run.fresh = {}
  BY DEF OnceInv, RunInv
<1>4. OneManifest(m) /\ dispatchLog \in BatchesOf(m)
  BY <1>2 DEF OnceInv, OneManifest
<1>5. \A a \in dispatchLog.assigned : a.id \in nodeState[a.node]
  BY <1>3 DEF OnceInv, RunInv, ToDo
<1>6. dispatchLog.assigned \subseteq Assignments
  BY <1>1 DEF TypeOK, Logs
<1>7. handled = dispatchLog.assigned
  <2>1. handled \subseteq dispatchLog.assigned
    BY <1>4, OneBatch DEF OneManifest
  <2>2. ASSUME NEW a \in dispatchLog.assigned PROVE a \in handled
    <3>1. a.node \in Nodes
      BY <1>6 DEF Assignments
    <3>2. PICK h \in handled : h.id = a.id
      BY <1>5, <3>1 DEF OnceInv, MarkedIsHandled
    <3>3. h \in dispatchLog.assigned
      BY <2>1
    <3>4. h = a
      BY <1>4, <3>2, <3>3, BatchKeys
    <3>. QED BY <3>4
  <2>. QED BY <2>1, <2>2
<1>8. ASSUME NEW a \in dispatchLog.assigned PROVE MarkedFor(a.node, a.job) = {a}
  <2>1. a \in MarkedFor(a.node, a.job)
    BY <1>7 DEF MarkedFor
  <2>2. ASSUME NEW b \in MarkedFor(a.node, a.job) PROVE b = a
    <3>1. b \in dispatchLog.assigned /\ b.job = a.job
      BY <1>7 DEF MarkedFor
    <3>. QED BY <1>4, <3>1, BatchKeys
  <2>. QED BY <2>1, <2>2
<1>9. ASSUME NEW a \in dispatchLog.assigned PROVE Credited(a)
  <2>1. a.node \in Nodes /\ a.job \in Jobs
    BY <1>6 DEF Assignments
  <2>2. Cardinality(MarkedFor(a.node, a.job)) = 1
    BY <1>8, FS_Singleton
  <2>3. /\ Pending(a.node, a.job) \in {0, 1} /\ ledger[a.node][a.job] \in Nat
        /\ Cardinality(MarkedFor(a.node, a.job)) + Pending(a.node, a.job)
              <= ledger[a.node][a.job]
    BY <1>1, <2>1, CreditNumbers, Zenon
  <2>4. 1 + Pending(a.node, a.job) <= ledger[a.node][a.job]
    BY <2>2, <2>3, Zenon
  <2>. QED BY <2>3, <2>4 DEF Credited
<1>10. ASSUME faults = 0, NEW n \in Nodes, NEW j \in Jobs
       PROVE  LET due == IF \E a \in dispatchLog.assigned : a.node = n /\ a.job = j
                         THEN 1 ELSE 0
              IN ledger[n][j] = due /\ Claims(n, j) = due
  <2>. DEFINE C == {r \in receipts : r.node = n /\ r.job = j}
  <2>1. ledger[n][j] = Cardinality(MarkedFor(n, j))
    <3>1. Pending(n, j) = 0
      BY <1>3 DEF Pending
    <3>. QED BY <1>1, <1>10, <3>1, CreditNumbers
  <2>2. CASE \E a \in dispatchLog.assigned : a.node = n /\ a.job = j
    <3>1. PICK a \in dispatchLog.assigned : a.node = n /\ a.job = j
      BY <2>2
    <3>2. Cardinality(MarkedFor(n, j)) = 1
      BY <1>8, <3>1, FS_Singleton
    <3>3. PICK r \in receipts : Origin(r) = a
      BY <1>3, <1>4, <1>7, <1>10 DEF OneManifest
    <3>4. r \in C
      BY <3>1, <3>3 DEF Origin
    <3>5. ASSUME NEW q \in C PROVE q = r
      <4>1. Origin(q) \in dispatchLog.assigned /\ Origin(q).job = a.job
        BY <1>7, <3>1 DEF OnceInv, ReceiptInv, Sound, Origin
      <4>2. Origin(q) = a
        BY <1>4, <4>1, BatchKeys
      <4>3. q.assignment = r.assignment
        BY <3>3, <4>2 DEF Origin
      <4>. QED BY <4>3 DEF OnceInv, ReceiptInv, Sound, Keyed
    <3>6. C = {r}
      BY <3>4, <3>5
    <3>7. Claims(n, j) = 1
      BY <3>6, FS_Singleton DEF Claims
    <3>. QED BY <2>1, <2>2, <3>2, <3>7
  <2>3. CASE ~\E a \in dispatchLog.assigned : a.node = n /\ a.job = j
    <3>1. MarkedFor(n, j) = {}
      BY <1>7, <2>3 DEF MarkedFor
    <3>2. C = {}
      BY <1>7, <2>3 DEF OnceInv, ReceiptInv, Sound, Origin
    <3>3. Cardinality(MarkedFor(n, j)) = 0 /\ Claims(n, j) = 0
      BY <3>1, <3>2, FS_EmptySet DEF Claims
    <3>. QED BY <2>1, <2>3, <3>3
  <2>. QED BY <2>2, <2>3
<1>. QED BY <1>5, <1>9, <1>10

(* However often the one manifest is run and cut short, a run that         *)
(* completes leaves all its work marked and credited, and without a crash  *)
(* one record and one receipt for each assignment.                         *)
THEOREM FlowCreditedOnce == Spec => []CreditedOnce
BY InitOnce, OnceNext, OnceImplies, PTL DEF Spec

-----------------------------------------------------------------------------
(***************************************************************************)
(* Sums over finite sets.  Induction on finite sets is stated for a set of *)
(* subsets that holds each subset whose subsets with one element less it   *)
(* holds.                                                                  *)
(***************************************************************************)
LEMMA SubsetInduction ==
    ASSUME NEW S, IsFiniteSet(S), NEW P,
           \A s \in SUBSET S : (\A x \in s : s \ {x} \in P) => s \in P
    PROVE  \A s \in SUBSET S : s \in P
<1>. DEFINE Bad == {s \in SUBSET S : s \notin P}
            Sizes == {Cardinality(s) : s \in Bad}
<1>1. SUFFICES ASSUME Bad # {} PROVE FALSE
  OBVIOUS
<1>2. \A s \in SUBSET S : IsFiniteSet(s) /\ Cardinality(s) \in Nat
  BY FS_Subset, FS_CardinalityType
<1>3. PICK n \in Sizes : \A k \in Sizes : n <= k
  <2>1. Sizes \subseteq Nat /\ Sizes # {}
    BY <1>1, <1>2
  <2>. HIDE DEF Sizes
  <2>. QED BY <2>1, LeastNumber
<1>4. PICK s \in Bad : n = Cardinality(s)
  OBVIOUS
<1>5. ASSUME NEW x \in s PROVE s \ {x} \in P
  <2>1. Cardinality(s \ {x}) = Cardinality(s) - 1
    BY <1>2, FS_RemoveElement
  <2>2. Cardinality(s \ {x}) \notin Sizes
    <3>. HIDE DEF Sizes
    <3>. QED BY <1>2, <1>3, <1>4, <2>1
  <2>3. s \ {x} \notin Bad
    BY <2>2
  <2>. QED BY <2>3
<1>. QED BY <1>5

Picked(s) == CHOOSE x \in s : TRUE
SumStep(f, g, s) == IF s = {} THEN 0 ELSE f[Picked(s)] + g[s \ {Picked(s)}]

LEMMA SumUnfold ==
    ASSUME NEW f, NEW S
    PROVE  SumFunctionOnSet(f, S) =
               (CHOOSE g : g = [s \in SUBSET S |-> SumStep(f, g, s)])[S]
BY Zenon DEF SumFunctionOnSet, FoldFunctionOnSet, MapThenFoldSet, SumStep, Picked

LEMMA SumPicked ==
    ASSUME NEW f, NEW S, IsFiniteSet(S)
    PROVE  SumFunctionOnSet(f, S) =
               IF S = {} THEN 0
               ELSE f[Picked(S)] + SumFunctionOnSet(f, S \ {Picked(S)})
<1>. DEFINE Value(s) == IF s = {} THEN 0
                        ELSE f[Picked(s)] + SumFunctionOnSet(f, s \ {Picked(s)})
            P == {s \in SUBSET S : \A t \in SUBSET s : SumFunctionOnSet(f, t) = Value(t)}
<1>1. \A s : s # {} => Picked(s) \in s
  BY DEF Picked
<1>2. ASSUME NEW s \in SUBSET S, \A x \in s : s \ {x} \in P PROVE s \in P
  <2>. DEFINE G == [t \in SUBSET s |-> Value(t)]
  <2>1. ASSUME NEW t \in SUBSET s, t # s PROVE SumFunctionOnSet(f, t) = Value(t)
    <3>1. PICK x \in s : x \notin t
      BY <2>1
    <3>2. t \in SUBSET (s \ {x})
      BY <3>1
    <3>. QED BY <1>2, <3>2
  <2>2. \A t \in SUBSET s : t # {} => t \ {Picked(t)} \in SUBSET s /\ t \ {Picked(t)} # s
    BY <1>1
  <2>3. G = [t \in SUBSET s |-> SumStep(f, G, t)]
    <3>1. ASSUME NEW t \in SUBSET s PROVE Value(t) = SumStep(f, G, t)
      <4>1. CASE t = {}
        BY <4>1 DEF SumStep
      <4>2. CASE t # {}
        <5>1. G[t \ {Picked(t)}] = SumFunctionOnSet(f, t \ {Picked(t)})
          BY <2>1, <2>2, <4>2
        <5>. HIDE DEF G
        <5>. QED BY <4>2, <5>1 DEF SumStep
      <4>. QED BY <4>1, <4>2
    <3>. HIDE DEF Value
    <3>. QED BY <3>1, Zenon
  <2>4. PICK g : g = [t \in SUBSET s |-> SumStep(f, g, t)] /\ g[s] = SumFunctionOnSet(f, s)
    <3>. DEFINE h == CHOOSE g : g = [t \in SUBSET s |-> SumStep(f, g, t)]
    <3>1. h = [t \in SUBSET s |-> SumStep(f, h, t)]
      <4>. HIDE DEF G
      <4>. QED BY <2>3, Zenon
    <3>2. h[s] = SumFunctionOnSet(f, s)
      BY SumUnfold, Zenon
    <3>. HIDE DEF h
    <3>. QED BY <3>1, <3>2
  <2>5. \A t \in SUBSET s : t \in {u \in SUBSET s : u # s => g[u] = Value(u)}
    <3>. DEFINE Q == {u \in SUBSET s : u # s => g[u] = Value(u)}
    <3>1. ASSUME NEW t \in SUBSET s, \A x \in t : t \ {x} \in Q PROVE t \in Q
      <4>1. g[t] = SumStep(f, g, t)
        BY <2>4, Zenon
      <4>2. CASE t = {}
        BY <4>1, <4>2 DEF SumStep
      <4>3. CASE t # {} /\ t # s
        <5>1. t \ {Picked(t)} \in Q /\ t \ {Picked(t)} # s
          BY <1>1, <2>2, <3>1, <4>3
        <5>2. g[t \ {Picked(t)}] = SumFunctionOnSet(f, t \ {Picked(t)})
          BY <2>1, <2>2, <4>3, <5>1
        <5>. QED BY <4>1, <4>3, <5>2 DEF SumStep
      <4>. QED BY <4>2, <4>3
    <3>2. IsFiniteSet(s)
      BY FS_Subset
    <3>. HIDE DEF Q
    <3>3. \A t \in SUBSET s : t \in Q
      BY <3>1, <3>2, SubsetInduction
    <3>. QED BY <3>3 DEF Q
  <2>6. SumFunctionOnSet(f, s) = Value(s)
    <3>1. g[s] = SumStep(f, g, s)
      BY <2>4, Zenon
    <3>2. CASE s = {}
      BY <2>4, <3>1, <3>2 DEF SumStep
    <3>3. CASE s # {}
      <4>1. s \ {Picked(s)} \in SUBSET s /\ s \ {Picked(s)} # s
        BY <2>2, <3>3
      <4>2. g[s \ {Picked(s)}] = SumFunctionOnSet(f, s \ {Picked(s)})
        BY <2>1, <2>5, <4>1
      <4>. QED BY <2>4, <3>1, <3>3, <4>2 DEF SumStep
    <3>. QED BY <3>2, <3>3
  <2>. QED BY <2>1, <2>6
<1>3. \A s \in SUBSET S : s \in P
  <2>. HIDE DEF P
  <2>. QED BY <1>2, SubsetInduction
<1>. QED BY <1>3

LEMMA SumEmpty == ASSUME NEW f PROVE SumFunctionOnSet(f, {}) = 0
BY SumPicked, FS_EmptySet

LEMMA SumTyped ==
    ASSUME NEW f, NEW S, IsFiniteSet(S), \A x \in S : f[x] \in Nat
    PROVE  SumFunctionOnSet(f, S) \in Nat
<1>. DEFINE P == {s \in SUBSET S : SumFunctionOnSet(f, s) \in Nat}
<1>1. ASSUME NEW s \in SUBSET S, \A x \in s : s \ {x} \in P PROVE s \in P
  <2>1. SumFunctionOnSet(f, s) =
            IF s = {} THEN 0 ELSE f[Picked(s)] + SumFunctionOnSet(f, s \ {Picked(s)})
    BY SumPicked, FS_Subset
  <2>2. s # {} => Picked(s) \in s
    BY DEF Picked
  <2>. QED BY <1>1, <2>1, <2>2
<1>2. \A s \in SUBSET S : s \in P
  <2>. HIDE DEF P
  <2>. QED BY <1>1, SubsetInduction
<1>. QED BY <1>2

(* Any element may be the first: its value and the sum of the others.      *)
LEMMA SumRemove ==
    ASSUME NEW f, NEW S, IsFiniteSet(S), \A x \in S : f[x] \in Nat
    PROVE  \A x \in S : SumFunctionOnSet(f, S) = f[x] + SumFunctionOnSet(f, S \ {x})
<1>. DEFINE Sum(s) == SumFunctionOnSet(f, s)
            P == {s \in SUBSET S : \A x \in s : Sum(s) = f[x] + Sum(s \ {x})}
<1>0. \A s \in SUBSET S : Sum(s) \in Nat
  BY FS_Subset, SumTyped
<1>1. ASSUME NEW s \in SUBSET S, \A x \in s : s \ {x} \in P PROVE s \in P
  <2>1. SUFFICES ASSUME NEW x \in s PROVE Sum(s) = f[x] + Sum(s \ {x})
    OBVIOUS
  <2>. DEFINE c == Picked(s)
  <2>2. c \in s
    BY DEF Picked
  <2>3. Sum(s) = f[c] + Sum(s \ {c})
    BY <2>2, SumPicked, FS_Subset
  <2>4. CASE x # c
    <3>1. x \in s \ {c} /\ c \in s \ {x} /\ (s \ {c}) \ {x} = (s \ {x}) \ {c}
      BY <2>2, <2>4
    <3>2. /\ Sum(s \ {c}) = f[x] + Sum((s \ {c}) \ {x})
          /\ Sum(s \ {x}) = f[c] + Sum((s \ {x}) \ {c})
      <4>. HIDE DEF Sum, c
      <4>. QED BY <1>1, <2>2, <3>1
    <3>3. Sum((s \ {c}) \ {x}) \in Nat /\ f[x] \in Nat /\ f[c] \in Nat
      BY <1>0, <2>2
    <3>. HIDE DEF Sum, c
    <3>. QED BY <2>3, <3>1, <3>2, <3>3
  <2>. QED BY <2>3, <2>4
<1>2. \A s \in SUBSET S : s \in P
  <2>. HIDE DEF P
  <2>. QED BY <1>1, SubsetInduction
<1>. QED BY <1>2

(* Values that agree give one sum. *)
LEMMA SumSame ==
    ASSUME NEW f, NEW g, NEW S, IsFiniteSet(S), \A x \in S : f[x] \in Nat /\ g[x] = f[x]
    PROVE  SumFunctionOnSet(f, S) = SumFunctionOnSet(g, S)
<1>. DEFINE P == {s \in SUBSET S : SumFunctionOnSet(f, s) = SumFunctionOnSet(g, s)}
<1>1. ASSUME NEW s \in SUBSET S, \A x \in s : s \ {x} \in P PROVE s \in P
  <2>1. IsFiniteSet(s)
    BY FS_Subset
  <2>2. CASE s = {}
    BY <2>2, SumEmpty
  <2>3. CASE s # {}
    <3>1. PICK x \in s : TRUE
      BY <2>3
    <3>2. /\ SumFunctionOnSet(f, s) = f[x] + SumFunctionOnSet(f, s \ {x})
          /\ SumFunctionOnSet(g, s) = g[x] + SumFunctionOnSet(g, s \ {x})
      BY <2>1, SumRemove
    <3>. QED BY <1>1, <3>2
  <2>. QED BY <2>2, <2>3
<1>2. \A s \in SUBSET S : s \in P
  <2>. HIDE DEF P
  <2>. QED BY <1>1, SubsetInduction
<1>. QED BY <1>2

(* Elements of value zero do not count. *)
LEMMA SumOfSupport ==
    ASSUME NEW f, NEW S, NEW T, IsFiniteSet(S), T \subseteq S,
           \A x \in S : f[x] \in Nat, \A x \in S \ T : f[x] = 0
    PROVE  SumFunctionOnSet(f, S) = SumFunctionOnSet(f, T)
<1>. DEFINE P == {s \in SUBSET S :
                    SumFunctionOnSet(f, s) = SumFunctionOnSet(f, s \cap T)}
<1>1. ASSUME NEW s \in SUBSET S, \A x \in s : s \ {x} \in P PROVE s \in P
  <2>1. IsFiniteSet(s) /\ IsFiniteSet(s \cap T)
    BY FS_Subset
  <2>2. CASE s \subseteq T
    <3>1. s \cap T = s
      BY <2>2
    <3>. QED BY <3>1
  <2>3. CASE ~(s \subseteq T)
    <3>1. PICK x \in s : x \notin T
      BY <2>3
    <3>2. (s \ {x}) \cap T = s \cap T
      BY <3>1
    <3>3. /\ SumFunctionOnSet(f, s) = f[x] + SumFunctionOnSet(f, s \ {x})
          /\ SumFunctionOnSet(f, s \ {x}) \in Nat /\ f[x] = 0
      BY <2>1, <3>1, SumRemove, SumTyped, FS_Subset
    <3>. QED BY <1>1, <3>2, <3>3
  <2>. QED BY <2>2, <2>3
<1>2. \A s \in SUBSET S : s \in P
  <2>. HIDE DEF P
  <2>. QED BY <1>1, SubsetInduction
<1>3. S \cap T = T
  OBVIOUS
<1>. QED BY <1>2, <1>3

LEMMA SumOfOne ==
    ASSUME NEW f, NEW x, f[x] \in Nat
    PROVE  SumFunctionOnSet(f, {x}) = f[x]
<1>1. IsFiniteSet({x})
  BY FS_Singleton
<1>2. SumFunctionOnSet(f, {x}) = f[x] + SumFunctionOnSet(f, {x} \ {x})
  BY <1>1, SumRemove
<1>3. {x} \ {x} = {}
  OBVIOUS
<1>. QED BY <1>2, <1>3, SumEmpty

(* A sum is the sum over the parts that a function into T makes of S. *)
LEMMA SumByParts ==
    ASSUME NEW f, NEW p, NEW S, NEW T, IsFiniteSet(S), IsFiniteSet(T),
           \A x \in S : f[x] \in Nat /\ p[x] \in T
    PROVE  SumFunctionOnSet(f, S) =
               SumFunctionOnSet([t \in T |-> SumFunctionOnSet(f, {x \in S : p[x] = t})], T)
<1>. DEFINE Part(s, t) == {x \in s : p[x] = t}
            F(s) == [t \in T |-> SumFunctionOnSet(f, Part(s, t))]
            P == {s \in SUBSET S : SumFunctionOnSet(f, s) = SumFunctionOnSet(F(s), T)}
<1>0. ASSUME NEW s \in SUBSET S, NEW t
      PROVE  IsFiniteSet(Part(s, t)) /\ SumFunctionOnSet(f, Part(s, t)) \in Nat
  <2>1. IsFiniteSet(Part(s, t)) /\ \A x \in Part(s, t) : f[x] \in Nat
    BY FS_Subset
  <2>. HIDE DEF Part
  <2>. QED BY <2>1, SumTyped
<1>1. ASSUME NEW s \in SUBSET S, \A x \in s : s \ {x} \in P PROVE s \in P
  <2>1. \A t \in T : F(s)[t] \in Nat
    BY <1>0
  <2>2. CASE s = {}
    <3>1. \A t \in T : Part(s, t) = {}
      BY <2>2
    <3>2. \A t \in T : F(s)[t] = 0
      BY <3>1, SumEmpty
    <3>3. SumFunctionOnSet(F(s), T) = SumFunctionOnSet(F(s), {})
      <4>. HIDE DEF F
      <4>. QED BY <2>1, <3>2, SumOfSupport
    <3>. QED BY <2>2, <3>3, SumEmpty
  <2>3. CASE s # {}
    <3>1. PICK x \in s : TRUE
      BY <2>3
    <3>. DEFINE r == s \ {x}
                u == p[x]
    <3>2. r \in SUBSET S /\ u \in T /\ f[x] \in Nat /\ x \in Part(s, u)
          /\ Part(s, u) \ {x} = Part(r, u) /\ \A t \in T \ {u} : Part(s, t) = Part(r, t)
      BY <3>1
    <3>3. SumFunctionOnSet(f, s) = f[x] + SumFunctionOnSet(f, r)
      BY <3>1, FS_Subset, SumRemove
    <3>4. F(s)[u] = f[x] + F(r)[u]
      <4>1. SumFunctionOnSet(f, Part(s, u)) = f[x] + SumFunctionOnSet(f, Part(s, u) \ {x})
        <5>1. IsFiniteSet(Part(s, u)) /\ \A y \in Part(s, u) : f[y] \in Nat
          BY <1>0
        <5>. HIDE DEF Part, r, u
        <5>. QED BY <3>2, <5>1, SumRemove
      <4>. QED BY <3>2, <4>1
    <3>5. \A t \in T \ {u} : F(s)[t] = F(r)[t]
      BY <3>2
    <3>6. \A t \in T : F(r)[t] \in Nat
      BY <1>0, <3>2
    <3>7. SumFunctionOnSet(F(s), T) = f[x] + SumFunctionOnSet(F(r), T)
      <4>. HIDE DEF F, r, u
      <4>1. IsFiniteSet(T \ {u})
        BY FS_Subset
      <4>2. SumFunctionOnSet(F(s), T) = F(s)[u] + SumFunctionOnSet(F(s), T \ {u})
        BY <2>1, <3>2, SumRemove
      <4>3. SumFunctionOnSet(F(r), T) = F(r)[u] + SumFunctionOnSet(F(r), T \ {u})
        BY <3>2, <3>6, SumRemove
      <4>4. SumFunctionOnSet(F(s), T \ {u}) = SumFunctionOnSet(F(r), T \ {u})
        BY <2>1, <3>5, <4>1, SumSame
      <4>5. SumFunctionOnSet(F(r), T \ {u}) \in Nat
        BY <3>6, <4>1, SumTyped
      <4>. QED BY <3>2, <3>4, <3>6, <4>2, <4>3, <4>4, <4>5
    <3>8. r \in P
      BY <1>1, <3>1
    <3>. QED BY <3>3, <3>7, <3>8
  <2>. QED BY <2>2, <2>3
<1>2. \A s \in SUBSET S : s \in P
  <2>. HIDE DEF P
  <2>. QED BY <1>1, SubsetInduction
<1>3. S \in P
  BY <1>2
<1>. QED BY <1>3

(* Counting and summing along a bijection. *)
LEMMA CountAlong ==
    ASSUME NEW S, NEW T, NEW b, IsFiniteSet(S), \A x \in S : b[x] \in T,
           \A x, y \in S : b[x] = b[y] => x = y, \A t \in T : \E x \in S : b[x] = t
    PROVE  IsFiniteSet(T) /\ Cardinality(S) = Cardinality(T)
<1>. DEFINE c == [x \in S |-> b[x]]
<1>1. c \in [S -> T] /\ (\A x, y \in S : c[x] = c[y] => x = y)
      /\ \A t \in T : \E x \in S : c[x] = t
  OBVIOUS
<1>2. c \in Bijection(S, T)
  <2>. HIDE DEF c
  <2>. QED BY <1>1 DEF Bijection, Injection, Surjection, IsInjective
<1>3. ExistsBijection(S, T)
  <2>. HIDE DEF c
  <2>. QED BY <1>2 DEF ExistsBijection
<1>. QED BY <1>3, FS_Bijection

LEMMA SumAlong ==
    ASSUME NEW S, NEW T, NEW b, NEW f, NEW g, IsFiniteSet(S),
           \A x \in S : b[x] \in T /\ f[x] \in Nat /\ g[b[x]] = f[x],
           \A x, y \in S : b[x] = b[y] => x = y, \A t \in T : \E x \in S : b[x] = t
    PROVE  SumFunctionOnSet(f, S) = SumFunctionOnSet(g, T)
<1>. DEFINE F == [t \in T |-> SumFunctionOnSet(f, {x \in S : b[x] = t})]
<1>1. IsFiniteSet(T)
  BY CountAlong
<1>2. SumFunctionOnSet(f, S) = SumFunctionOnSet(F, T)
  BY <1>1, SumByParts
<1>3. ASSUME NEW t \in T PROVE F[t] \in Nat /\ g[t] = F[t]
  <2>1. PICK x \in S : b[x] = t
    OBVIOUS
  <2>2. {y \in S : b[y] = t} = {x}
    BY <2>1
  <2>3. SumFunctionOnSet(f, {x}) = f[x]
    BY SumOfOne
  <2>. QED BY <2>1, <2>2, <2>3
<1>4. SumFunctionOnSet(F, T) = SumFunctionOnSet(g, T)
  <2>. HIDE DEF F
  <2>. QED BY <1>1, <1>3, SumSame
<1>. QED BY <1>2, <1>4

(* As many times a value as there are elements. *)
LEMMA SumOfEqual ==
    ASSUME NEW f, NEW S, NEW v \in Nat, IsFiniteSet(S), \A x \in S : f[x] = v
    PROVE  SumFunctionOnSet(f, S) = Cardinality(S) * v
<1>. DEFINE P == {s \in SUBSET S : SumFunctionOnSet(f, s) = Cardinality(s) * v}
<1>1. ASSUME NEW s \in SUBSET S, \A x \in s : s \ {x} \in P PROVE s \in P
  <2>1. IsFiniteSet(s) /\ Cardinality(s) \in Nat
    BY FS_Subset, FS_CardinalityType
  <2>2. CASE s = {}
    <3>1. Cardinality(s) = 0
      BY <2>2, FS_EmptySet
    <3>. QED BY <2>2, <3>1, SumEmpty
  <2>3. CASE s # {}
    <3>1. PICK x \in s : TRUE
      BY <2>3
    <3>2. SumFunctionOnSet(f, s) = v + SumFunctionOnSet(f, s \ {x})
      BY <2>1, SumRemove
    <3>3. SumFunctionOnSet(f, s \ {x}) = (Cardinality(s) - 1) * v
      BY <1>1, <2>1, FS_RemoveElement
    <3>4. \A c \in Nat : v + (c - 1) * v = c * v
      OBVIOUS
    <3>. QED BY <2>1, <3>2, <3>3, <3>4
  <2>. QED BY <2>2, <2>3
<1>2. \A s \in SUBSET S : s \in P
  <2>. HIDE DEF P
  <2>. QED BY <1>1, SubsetInduction
<1>. QED BY <1>2

LEMMA ImageFinite ==
    ASSUME NEW S, NEW f, IsFiniteSet(S)
    PROVE  IsFiniteSet({f[x] : x \in S})
<1>. DEFINE T == {f[x] : x \in S}
            g == [x \in S |-> f[x]]
<1>1. g \in Surjection(S, T)
  BY DEF Surjection
<1>2. IsFiniteSet(T)
  <2>. HIDE DEF g, T
  <2>. QED BY <1>1, FS_Surjection
<1>. QED BY <1>2

-----------------------------------------------------------------------------
(***************************************************************************)
(* The artifacts of a completed run.  The messages a run emitted are those *)
(* of its new receipts, and the flow log keeps them; a first run that      *)
(* completes was not cut short and replaced nothing.                       *)
(***************************************************************************)
MessagesOf(r) ==
    {[id |-> r.result, type |-> "job_result_reported",
      node |-> r.node, job |-> r.job, links |-> <<>>],
     [id |-> r.validation, type |-> "job_validated",
      node |-> r.node, job |-> r.job, links |-> <<r.assignment, r.result>>],
     [id |-> r.contribution, type |-> "contribution_recorded",
      node |-> r.node, job |-> r.job, links |-> <<>>]}
MessagesOfAll(S) == UNION {MessagesOf(r) : r \in S}

RunCount ==
    /\ faults <= runs /\ (run.pc # "idle" \/ done => faults < runs)
    /\ runs = 0 => used = {} /\ ~done
    /\ runs = 1 => \E m \in Manifests : used = {m}
    /\ runs <= 1 /\ ~done => receipts = {}

RunReports ==
    /\ run.emitted = MessagesOfAll(run.fresh)
    /\ \A r \in run.fresh : InOrder(r)
    /\ run.pc = "nodeState" => workerLog[Current] = Emitted(Current)
    /\ run.pc = "receipts" => flowLog = run.emitted

Reported(F) ==
    /\ flowLog = MessagesOfAll(F)
    /\ \A r \in F : InOrder(r) /\ Origin(r) \in dispatchLog.assigned
    /\ runs = 1 => F = receipts

FiniteReceipts == IsFiniteSet(receipts) /\ IsFiniteSet(run.old) /\ IsFiniteSet(run.fresh)

ArtifactInv ==
    /\ OnceInv
    /\ FiniteReceipts /\ RunCount /\ RunReports
    /\ done => \E F \in SUBSET receipts : Reported(F)

LEMMA OnceParts ==
    ASSUME OnceInv
    PROVE  TypeInv /\ TypeOK /\ ReceiptInv /\ RunInv
BY DEF OnceInv, ReceiptInv, CreditInv, TypeInv

LEMMA InitArtifact == Init => ArtifactInv
<1>. SUFFICES ASSUME Init PROVE ArtifactInv
  OBVIOUS
<1>1. /\ run.pc = "idle" /\ run.old = {} /\ run.fresh = {} /\ run.emitted = {}
      /\ receipts = {} /\ used = {} /\ ~done /\ runs = 0 /\ faults = 0
  BY DEF Init, NoRun
<1>2. FiniteReceipts
  BY <1>1, FS_EmptySet DEF FiniteReceipts
<1>3. RunCount
  BY <1>1 DEF RunCount
<1>4. RunReports
  BY <1>1 DEF RunReports, MessagesOfAll
<1>. QED BY <1>1, <1>2, <1>3, <1>4, InitOnce DEF ArtifactInv

LEMMA StartRunArtifact ==
    ASSUME ArtifactInv, OnceInv', NEW m \in Manifests, StartRun(m)
    PROVE  ArtifactInv'
<1>1. PICK s \in Schedules(m) :
          run' = [NoRun EXCEPT !.pc = "dispatch", !.batch = Batch(m, s),
                               !.todo = m.nodes, !.old = receipts]
  BY DEF StartRun
<1>2. /\ run'.pc = "dispatch" /\ run'.old = receipts
      /\ run'.fresh = {} /\ run'.emitted = {}
  BY <1>1 DEF NoRun
<1>3. /\ used' = used \cup {m} /\ ~done' /\ run.pc = "idle" /\ runs' = runs + 1
      /\ receipts' = receipts /\ faults' = faults
  BY DEF StartRun, disk
<1>4. FiniteReceipts'
  BY <1>2, <1>3, FS_EmptySet DEF FiniteReceipts, ArtifactInv
<1>5. RunCount'
  <2>1. runs \in Nat /\ faults \in Nat
    BY OnceParts DEF ArtifactInv, TypeOK
  <2>2. runs' = 1 => used' = {m}
    BY <1>3, <2>1 DEF ArtifactInv, RunCount
  <2>3. runs' <= 1 => receipts' = {}
    BY <1>3, <2>1 DEF ArtifactInv, RunCount
  <2>. QED BY <1>2, <1>3, <2>1, <2>2, <2>3 DEF ArtifactInv, RunCount
<1>6. RunReports'
  BY <1>2 DEF RunReports, MessagesOfAll
<1>. QED BY <1>3, <1>4, <1>5, <1>6 DEF ArtifactInv

(* Steps before the receipts are written, other than those of a pass that  *)
(* adds to what the run has to report.                                     *)
LEMMA QuietArtifact ==
    ASSUME ArtifactInv, OnceInv',
           WriteDispatchLog \/ SaveLedger \/ WriteWorkerLog \/ WriteFlowLog
    PROVE  ArtifactInv'
<1>1. UNCHANGED <<receipts, used, done, runs, faults>>
  BY DEF WriteDispatchLog, SaveLedger, WriteWorkerLog, WriteFlowLog, history
<1>2. TypeOK /\ RunInv
  BY OnceParts DEF ArtifactInv
<1>3. /\ run' = [run EXCEPT !.pc = run'.pc] /\ run.pc # "idle"
      /\ run'.pc = "nodeState" => WriteWorkerLog
      /\ run'.pc = "receipts" => WriteFlowLog
  BY <1>2 DEF WriteDispatchLog, SaveLedger, WriteWorkerLog, WriteFlowLog, TypeOK, NextPass
<1>4. /\ run'.old = run.old /\ run'.fresh = run.fresh /\ run'.emitted = run.emitted
      /\ run'.todo = run.todo
  BY <1>2, <1>3 DEF TypeOK
<1>5. ~done
  BY <1>2, <1>3 DEF RunInv
<1>6. FiniteReceipts'
  BY <1>1, <1>4 DEF FiniteReceipts, ArtifactInv
<1>7. RunCount'
  BY <1>1, <1>3 DEF RunCount, ArtifactInv
<1>8. RunReports'
  <2>1. ASSUME run'.pc = "nodeState" PROVE workerLog'[Current'] = Emitted(Current)'
    <3>1. WriteWorkerLog /\ Current' = Current /\ Current \in Nodes
      BY <1>3, <1>4, <2>1, CurrentTyped, OnceParts
         DEF ArtifactInv, WriteWorkerLog, Passing, Current
    <3>2. workerLog'[Current] = Emitted(Current) /\ UNCHANGED <<dispatchLog, nodeState>>
      BY <1>2, <3>1 DEF WriteWorkerLog, TypeOK
    <3>. QED BY <3>1, <3>2 DEF Emitted, Reports, Before, Work
  <2>2. ASSUME run'.pc = "receipts" PROVE flowLog' = run'.emitted
    BY <1>3, <1>4, <2>2 DEF WriteFlowLog
  <2>. QED BY <1>4, <2>1, <2>2 DEF RunReports, ArtifactInv, InOrder
<1>. QED BY <1>1, <1>5, <1>6, <1>7, <1>8 DEF ArtifactInv

LEMMA MarkArtifact ==
    ASSUME ArtifactInv, OnceInv', SaveNodeState
    PROVE  ArtifactInv'
<1>. DEFINE c == Current
            New == {Receipt(c, a) : a \in Work(c)}
<1>1. /\ run.pc = "nodeState"
      /\ UNCHANGED <<dispatchLog, receipts, used, done, runs, faults>>
      /\ run' = [run EXCEPT !.pc = NextPass(Tail(run.todo)), !.todo = Tail(@),
                    !.fresh = @ \cup New, !.emitted = @ \cup workerLog[c]]
  BY DEF SaveNodeState, Remember
<1>2. TypeOK /\ RunInv /\ TypeInv
  BY OnceParts DEF ArtifactInv
<1>3. /\ run'.pc \in {"ledger", "flowLog"} /\ run'.old = run.old
      /\ run'.fresh = run.fresh \cup New /\ run'.emitted = run.emitted \cup workerLog[c]
  BY <1>1, <1>2 DEF TypeOK, NextPass
<1>4. ~done
  BY <1>1, <1>2 DEF RunInv
<1>5. c \in Nodes /\ Work(c) \subseteq dispatchLog.assigned /\ \A a \in Work(c) : Before(c, a) \in Nat
  BY <1>1, <1>2, CurrentTyped, WorkTyped DEF Passing, Work
<1>6. IsFiniteSet(New)
  <2>1. IsFiniteSet(Work(c))
    BY <1>2, <1>5, FS_Subset DEF TypeInv, LogShape
  <2>. DEFINE f == [a \in Work(c) |-> Receipt(c, a)]
  <2>2. New = {f[a] : a \in Work(c)}
    OBVIOUS
  <2>3. IsFiniteSet({f[a] : a \in Work(c)})
    <3>. HIDE DEF f, c
    <3>. QED BY <2>1, ImageFinite
  <2>. QED BY <2>2, <2>3
<1>7. FiniteReceipts'
  <2>1. IsFiniteSet(run.fresh \cup New)
    <3>. HIDE DEF New
    <3>. QED BY <1>6, FS_Union DEF FiniteReceipts, ArtifactInv
  <2>. QED BY <1>1, <1>3, <2>1 DEF FiniteReceipts, ArtifactInv
<1>8. RunCount'
  BY <1>1, <1>3, <1>4 DEF RunCount, ArtifactInv
<1>9. RunReports'
  <2>1. ASSUME NEW a \in Work(c)
        PROVE  Reports(c, a) = MessagesOf(Receipt(c, a)) /\ InOrder(Receipt(c, a))
    <3>1. Before(c, a) \in Nat
      BY <1>5
    <3>. QED BY <3>1 DEF Reports, MessagesOf, Receipt, InOrder
  <2>2. workerLog[c] = MessagesOfAll(New)
    <3>1. workerLog[c] = Emitted(c)
      BY <1>1 DEF ArtifactInv, RunReports
    <3>2. Emitted(c) = MessagesOfAll(New)
      <4>. HIDE DEF c
      <4>1. \A e : e \in Emitted(c) <=> \E a \in Work(c) : e \in Reports(c, a)
        BY Zenon DEF Emitted
      <4>2. \A e : e \in MessagesOfAll(New) <=> \E a \in Work(c) : e \in MessagesOf(Receipt(c, a))
        BY DEF MessagesOfAll
      <4>3. \A e : e \in Emitted(c) <=> e \in MessagesOfAll(New)
        <5>. HIDE DEF New
        <5>. QED BY <2>1, <4>1, <4>2
      <4>. QED BY <4>3
    <3>. QED BY <3>1, <3>2
  <2>3. run'.emitted = MessagesOfAll(run'.fresh)
    <3>. HIDE DEF New, c
    <3>1. run.emitted = MessagesOfAll(run.fresh)
      BY DEF ArtifactInv, RunReports
    <3>. QED BY <1>3, <2>2, <3>1 DEF MessagesOfAll
  <2>4. \A r \in run'.fresh : InOrder(r)
    BY <1>3, <2>1 DEF ArtifactInv, RunReports
  <2>. QED BY <1>3, <2>3, <2>4 DEF RunReports, InOrder
<1>. QED BY <1>1, <1>4, <1>7, <1>8, <1>9 DEF ArtifactInv

LEMMA ReceiptsArtifact ==
    ASSUME ArtifactInv, OnceInv', WriteReceipts
    PROVE  ArtifactInv'
<1>1. /\ run.pc = "receipts" /\ receipts' = Merge(run.old, run.fresh)
      /\ run' = NoRun /\ done' = TRUE
      /\ UNCHANGED <<dispatchLog, flowLog, used, runs, faults>>
  BY DEF WriteReceipts
<1>2. run'.pc = "idle" /\ run'.fresh = {} /\ run'.old = {} /\ run'.emitted = {}
  BY <1>1 DEF NoRun
<1>3. TypeOK /\ RunInv /\ ReceiptInv
  BY OnceParts DEF ArtifactInv
<1>4. run.old = receipts /\ ~done
  BY <1>1, <1>3 DEF RunInv
<1>5. run.fresh \subseteq receipts' /\ receipts' \subseteq receipts \cup run.fresh
  BY <1>1, <1>4 DEF Merge
<1>6. FiniteReceipts'
  <2>1. IsFiniteSet(receipts \cup run.fresh)
    BY FS_Union DEF ArtifactInv, FiniteReceipts
  <2>. QED BY <1>2, <1>5, <2>1, FS_Subset, FS_EmptySet DEF FiniteReceipts
<1>7. RunCount'
  BY <1>1, <1>2, <1>3, <1>4 DEF RunCount, ArtifactInv, TypeOK
<1>8. RunReports'
  BY <1>2 DEF RunReports, MessagesOfAll
<1>9. PICK F : F = run.fresh
  OBVIOUS
<1>10. Reported(F)'
  <2>1. flowLog = MessagesOfAll(F)
    BY <1>1, <1>9 DEF ArtifactInv, RunReports
  <2>2. \A r \in F : InOrder(r) /\ Origin(r) \in dispatchLog.assigned
    BY <1>3, <1>9 DEF ArtifactInv, RunReports, ReceiptInv, FreshFromBatch
  <2>3. runs = 1 => receipts' = F
    BY <1>4, <1>5, <1>9 DEF ArtifactInv, RunCount
  <2>. QED BY <1>1, <2>1, <2>2, <2>3 DEF Reported
<1>11. \E G \in SUBSET receipts' : Reported(G)'
  BY <1>5, <1>9, <1>10
<1>. QED BY <1>6, <1>7, <1>8, <1>11 DEF ArtifactInv

LEMMA CrashArtifact ==
    ASSUME ArtifactInv, OnceInv', Crash
    PROVE  ArtifactInv'
<1>1. /\ run.pc # "idle" /\ run' = NoRun /\ faults' = faults + 1
      /\ UNCHANGED <<receipts, used, done, runs>>
  BY DEF Crash, disk
<1>2. run'.pc = "idle" /\ run'.fresh = {} /\ run'.old = {} /\ run'.emitted = {}
  BY <1>1 DEF NoRun
<1>3. TypeOK /\ ~done
  BY <1>1, OnceParts DEF ArtifactInv, RunInv
<1>4. FiniteReceipts'
  BY <1>1, <1>2, FS_EmptySet DEF FiniteReceipts, ArtifactInv
<1>5. RunCount'
  BY <1>1, <1>2, <1>3 DEF RunCount, ArtifactInv, TypeOK
<1>6. RunReports'
  BY <1>2 DEF RunReports, MessagesOfAll
<1>. QED BY <1>1, <1>3, <1>4, <1>5, <1>6 DEF ArtifactInv

LEMMA ArtifactNext == ArtifactInv /\ [Next]_vars => ArtifactInv'
<1>. SUFFICES ASSUME ArtifactInv, [Next]_vars PROVE ArtifactInv'
  OBVIOUS
<1>1. OnceInv'
  BY OnceNext DEF ArtifactInv
<1>2. CASE UNCHANGED vars
  <2>1. UNCHANGED <<dispatchLog, workerLog, nodeState, flowLog, receipts,
                    run, used, done, runs, faults>>
    BY <1>2 DEF vars, disk, history
  <2>2. FiniteReceipts' /\ RunCount'
    BY <2>1 DEF ArtifactInv, FiniteReceipts, RunCount
  <2>3. RunReports'
    <3>1. Current' = Current /\ \A n : Work(n)' = Work(n)
      BY <2>1 DEF Current, Work
    <3>2. Emitted(Current)' = Emitted(Current)
      <4>1. \A n, a : Before(n, a)' = Before(n, a)
        BY <2>1, <3>1 DEF Before
      <4>2. \A n, a : Reports(n, a)' = Reports(n, a)
        BY <4>1 DEF Reports
      <4>. QED BY <3>1, <4>2 DEF Emitted
    <3>. QED BY <2>1, <3>1, <3>2 DEF ArtifactInv, RunReports
  <2>4. done' => \E F \in SUBSET receipts' : Reported(F)'
    BY <2>1 DEF ArtifactInv, Reported
  <2>. QED BY <1>1, <2>2, <2>3, <2>4 DEF ArtifactInv
<1>. QED BY <1>1, <1>2, StartRunArtifact, QuietArtifact, MarkArtifact, ReceiptsArtifact,
            CrashArtifact DEF Next, Step, Finished

-----------------------------------------------------------------------------
(***************************************************************************)
(* What a completed run reported can be validated again, and a first run   *)
(* passes the audit: it leaves one receipt for each assignment.            *)
(***************************************************************************)
ResultOf(r) == [id |-> r.result, type |-> "job_result_reported",
                node |-> r.node, job |-> r.job, links |-> <<>>]

LEMMA ResultsOfReceipts ==
    ASSUME NEW F, Reported(F)
    PROVE  ReportedResults = {ResultOf(r) : r \in F}
<1>1. \A r : \A e \in MessagesOf(r) : e.type = "job_result_reported" <=> e = ResultOf(r)
  BY DEF MessagesOf, ResultOf
<1>2. \A r : ResultOf(r) \in MessagesOf(r)
  BY DEF MessagesOf, ResultOf
<1>3. \A e : e \in flowLog <=> \E r \in F : e \in MessagesOf(r)
  BY DEF Reported, MessagesOfAll
<1>4. \A e : e \in ReportedResults <=> e \in flowLog /\ e.type = "job_result_reported"
  BY DEF ReportedResults
<1>5. \A e : e \in ReportedResults <=> \E r \in F : e = ResultOf(r)
  BY <1>1, <1>2, <1>3, <1>4
<1>. QED BY <1>5

(* Receipts of one dispatch log are as distinct as its assignments. *)
LEMMA DistinctReceipts ==
    ASSUME ArtifactInv, NEW F \in SUBSET receipts, Reported(F), NEW q \in F, NEW r \in F,
           q.job = r.job
    PROVE  q = r
<1>1. Origin(q) \in dispatchLog.assigned /\ Origin(r) \in dispatchLog.assigned
  BY DEF Reported
<1>2. Origin(q).job = Origin(r).job
  BY DEF Origin
<1>3. Origin(q) = Origin(r)
  BY <1>1, <1>2, OnceParts DEF ArtifactInv, TypeInv, LogShape
<1>4. q.assignment = r.assignment
  BY <1>3 DEF Origin
<1>5. Keyed(receipts)
  BY OnceParts DEF ArtifactInv, ReceiptInv, Sound
<1>. QED BY <1>4, <1>5 DEF Keyed

LEMMA ReplayNotRefused ==
    ASSUME ArtifactInv, NEW F \in SUBSET receipts, Reported(F)
    PROVE  /\ ~ReplayRefuses
           /\ \A r \in F : AssignedTo(ResultOf(r)) = {r.node}
<1>1. ASSUME NEW r \in F PROVE AssignedTo(ResultOf(r)) = {r.node}
  <2>1. Origin(r) \in dispatchLog.assigned /\ Origin(r).job = r.job /\ Origin(r).node = r.node
    BY DEF Reported, Origin
  <2>2. \A b \in dispatchLog.assigned : b.job = r.job => b = Origin(r)
    BY <2>1, OnceParts DEF ArtifactInv, TypeInv, LogShape
  <2>3. ResultOf(r).job = r.job
    BY DEF ResultOf
  <2>4. {b \in dispatchLog.assigned : b.job = r.job} = {Origin(r)}
    BY <2>1, <2>2
  <2>5. AssignedTo(ResultOf(r)) = {a.node : a \in {Origin(r)}}
    BY <2>3, <2>4 DEF AssignedTo
  <2>. QED BY <2>1, <2>5
<1>2. ASSUME NEW e \in ReportedResults
      PROVE  AssignedTo(e) # {} /\ \A f \in ReportedResults \ {e} : f.job # e.job
  <2>1. PICK r \in F : e = ResultOf(r)
    BY ResultsOfReceipts
  <2>2. AssignedTo(e) # {}
    BY <1>1, <2>1
  <2>3. ASSUME NEW f \in ReportedResults, f.job = e.job PROVE f = e
    <3>1. PICK q \in F : f = ResultOf(q)
      BY ResultsOfReceipts
    <3>2. q.job = r.job
      BY <2>1, <2>3, <3>1 DEF ResultOf
    <3>3. q = r
      BY <3>2, DistinctReceipts
    <3>. QED BY <2>1, <3>1, <3>3
  <2>. QED BY <2>2, <2>3
<1>3. ~ReplayRefuses
  BY <1>2 DEF ReplayRefuses
<1>. QED BY <1>1, <1>3

(* A first run that completed. *)
FirstRun == done /\ runs = 1

LEMMA FirstRunFacts ==
    ASSUME ArtifactInv, FirstRun
    PROVE  /\ faults = 0 /\ Cardinality(used) = 1
           /\ Reported(receipts) /\ IsFiniteSet(receipts) /\ Keyed(receipts)
           /\ \A r \in receipts : Origin(r) \in dispatchLog.assigned
           /\ \A a \in dispatchLog.assigned : \E r \in receipts : Origin(r) = a
           /\ \A n \in Nodes, j \in Jobs : ledger[n][j] = Claims(n, j)
           /\ \A m \in used : m \in Manifests /\ used = {m} /\ dispatchLog \in BatchesOf(m)
<1>. USE DEF FirstRun
<1>1. TypeOK /\ TypeInv /\ ReceiptInv /\ OnceInv
  BY OnceParts DEF ArtifactInv
<1>2. faults = 0
  BY <1>1 DEF ArtifactInv, RunCount, TypeOK
<1>3. PICK m \in Manifests : used = {m}
  BY DEF ArtifactInv, RunCount
<1>4. Cardinality(used) = 1
  BY <1>3, FS_Singleton
<1>5. Reported(receipts)
  BY DEF ArtifactInv, Reported
<1>6. IsFiniteSet(receipts) /\ Keyed(receipts)
  BY <1>1 DEF ArtifactInv, FiniteReceipts, ReceiptInv, Sound
<1>7. \A r \in receipts : Origin(r) \in dispatchLog.assigned
  BY <1>5 DEF Reported
<1>8. \A n \in Nodes, j \in Jobs :
         LET due == IF \E a \in dispatchLog.assigned : a.node = n /\ a.job = j
                    THEN 1 ELSE 0
         IN ledger[n][j] = due /\ Claims(n, j) = due
  BY <1>1, <1>2, <1>4, OnceImplies DEF CreditedOnce
<1>9. ASSUME NEW a \in dispatchLog.assigned PROVE \E r \in receipts : Origin(r) = a
  <2>1. a.node \in Nodes /\ a.job \in Jobs
    BY <1>1 DEF TypeOK, Logs, Assignments
  <2>2. Claims(a.node, a.job) = 1
    BY <1>8, <2>1
  <2>3. PICK r \in receipts : r.node = a.node /\ r.job = a.job
    BY <2>2, FS_EmptySet DEF Claims
  <2>4. Origin(r) \in dispatchLog.assigned /\ Origin(r).job = a.job
    BY <1>7, <2>3 DEF Origin
  <2>5. Origin(r) = a
    BY <1>1, <2>4 DEF TypeInv, LogShape
  <2>. QED BY <2>5
<1>10. \A n \in Nodes, j \in Jobs : ledger[n][j] = Claims(n, j)
  BY <1>8
<1>11. used = {m} /\ dispatchLog \in BatchesOf(m)
  BY <1>1, <1>3 DEF OnceInv, OneManifest
<1>. QED BY <1>2, <1>3, <1>4, <1>5, <1>6, <1>7, <1>9, <1>10, <1>11

LEMMA FirstRunAudited ==
    ASSUME ArtifactInv, FirstRun
    PROVE  AuditAccepts
<1>1. /\ Reported(receipts) /\ receipts \subseteq Receipts
      /\ \A n \in Nodes, j \in Jobs : Claims(n, j) = ledger[n][j]
  BY FirstRunFacts, OnceParts DEF ArtifactInv, TypeOK
<1>2. ASSUME NEW r \in receipts
      PROVE  /\ AssignmentMatches(r) /\ ResultMatches(r) /\ ValidationMatches(r)
             /\ ContributionMatches(r) /\ InOrder(r)
  <2>1. InOrder(r) /\ Origin(r) \in dispatchLog.assigned
    BY <1>1 DEF Reported
  <2>2. AssignmentMatches(r)
    BY <2>1 DEF AssignmentMatches, Origin
  <2>3. MessagesOf(r) \subseteq flowLog
    BY <1>1 DEF Reported, MessagesOfAll
  <2>4. ResultMatches(r) /\ ContributionMatches(r)
    <3>1. [id |-> r.result, type |-> "job_result_reported",
           node |-> r.node, job |-> r.job, links |-> <<>>] \in flowLog
      BY <2>3 DEF MessagesOf
    <3>2. [id |-> r.contribution, type |-> "contribution_recorded",
           node |-> r.node, job |-> r.job, links |-> <<>>] \in flowLog
      BY <2>3 DEF MessagesOf
    <3>3. ResultMatches(r)
      BY <3>1 DEF ResultMatches, FlowMessages
    <3>4. ContributionMatches(r)
      BY <3>2 DEF ContributionMatches, FlowMessages
    <3>. QED BY <3>3, <3>4
  <2>5. ValidationMatches(r)
    <3>. DEFINE v == [id |-> r.validation, type |-> "job_validated",
                      node |-> r.node, job |-> r.job, links |-> <<r.assignment, r.result>>]
    <3>1. v \in flowLog
      BY <2>3 DEF MessagesOf
    <3>2. /\ v.id = r.validation /\ v.type = "job_validated" /\ v.node = r.node
          /\ v.job = r.job /\ v.links = <<r.assignment, r.result>>
      OBVIOUS
    <3>. HIDE DEF v
    <3>3. v \in FlowMessages(r, r.validation, "job_validated")
      BY <3>1, <3>2 DEF FlowMessages
    <3>. QED BY <3>2, <3>3 DEF ValidationMatches
  <2>. QED BY <2>1, <2>2, <2>4, <2>5
<1>. QED BY <1>1, <1>2 DEF AuditAccepts

LEMMA CompletedReplays ==
    ASSUME ArtifactInv, done
    PROVE  ReplayAgrees
<1>1. PICK F \in SUBSET receipts : Reported(F)
  BY DEF ArtifactInv
<1>2. ~ReplayRefuses
  BY <1>1, ReplayNotRefused
<1>3. ASSUME NEW r \in F
      PROVE  ReplayedValid(ResultOf(r)) <=> Outcome[r.job].valid
  <2>1. AssignedTo(ResultOf(r)) = {r.node}
    BY <1>1, ReplayNotRefused
  <2>2. ResultOf(r).node = r.node /\ ResultOf(r).job = r.job
    BY DEF ResultOf
  <2>. QED BY <2>1, <2>2 DEF ReplayedValid
<1>4. ASSUME NEW e \in ReportedResults
      PROVE  /\ ReplayedValid(e) <=> Outcome[e.job].valid
             /\ \E r \in receipts : r.result = e.id /\ r.job = e.job /\ r.node = e.node
  <2>1. PICK r \in F : e = ResultOf(r)
    BY <1>1, ResultsOfReceipts
  <2>2. e.id = r.result /\ e.job = r.job /\ e.node = r.node
    BY <2>1 DEF ResultOf
  <2>. QED BY <1>3, <2>1, <2>2
<1>5. ASSUME runs = 1
      PROVE  /\ ReplayReport.assignments = Aggregate.receipts
             /\ ReplayReport.results = Aggregate.receipts
             /\ ReplayReport.valid = Aggregate.validations.valid
             /\ ReplayReport.invalid = Aggregate.validations.invalid
  <2>1. FirstRun /\ Reported(receipts) /\ IsFiniteSet(receipts)
    BY <1>5, FirstRunFacts DEF FirstRun
  <2>2. ReportedResults = {ResultOf(r) : r \in receipts}
    BY <2>1, ResultsOfReceipts
  <2>3. \A q, r \in receipts : q.job = r.job => q = r
    BY <2>1, DistinctReceipts
  <2>4. \A r : ResultOf(r).job = r.job /\ Origin(r).job = r.job
    BY DEF ResultOf, Origin
  <2>5. F = receipts
    BY <1>1, <1>5 DEF Reported
  <2>. DEFINE o == [r \in receipts |-> Origin(r)]
              e == [r \in receipts |-> ResultOf(r)]
              Valid == {r \in receipts : Outcome[r.job].valid}
              Invalid == {r \in receipts : ~Outcome[r.job].valid}
  <2>6. Cardinality(receipts) = Cardinality(dispatchLog.assigned)
    <3>1. /\ \A r \in receipts : o[r] \in dispatchLog.assigned
          /\ \A q, r \in receipts : o[q] = o[r] => q = r
          /\ \A a \in dispatchLog.assigned : \E r \in receipts : o[r] = a
      BY <2>1, <2>3, <2>4, FirstRunFacts
    <3>. HIDE DEF o
    <3>. QED BY <2>1, <3>1, CountAlong
  <2>7. ASSUME NEW S, NEW T, S \subseteq receipts, T = {ResultOf(r) : r \in S}
        PROVE  Cardinality(S) = Cardinality(T)
    <3>1. /\ \A r \in S : e[r] \in T
          /\ \A q, r \in S : e[q] = e[r] => q = r
          /\ \A t \in T : \E r \in S : e[r] = t
      BY <2>3, <2>4, <2>7
    <3>2. IsFiniteSet(S)
      BY <2>1, <2>7, FS_Subset
    <3>. HIDE DEF e
    <3>. QED BY <3>1, <3>2, CountAlong
  <2>8. Cardinality(receipts) = Cardinality(ReportedResults)
    BY <2>2, <2>7
  <2>9. Cardinality(Valid) = Cardinality({f \in ReportedResults : ReplayedValid(f)})
    <3>1. {f \in ReportedResults : ReplayedValid(f)} = {ResultOf(r) : r \in Valid}
      BY <1>3, <2>2, <2>5
    <3>. QED BY <2>7, <3>1
  <2>10. Cardinality(Invalid) = Cardinality({f \in ReportedResults : ~ReplayedValid(f)})
    <3>1. {f \in ReportedResults : ~ReplayedValid(f)} = {ResultOf(r) : r \in Invalid}
      BY <1>3, <2>2, <2>5
    <3>. QED BY <2>7, <3>1
  <2>. QED BY <2>6, <2>8, <2>9, <2>10 DEF ReplayReport, Aggregate, ValidationTotals
<1>. QED BY <1>2, <1>4, <1>5 DEF ReplayAgrees

-----------------------------------------------------------------------------
(***************************************************************************)
(* Totals.  Where the audit accepts the receipts, those of a node and a    *)
(* job are as many as the ledger's records, so any way of parting the      *)
(* receipts totals the same units.                                         *)
(***************************************************************************)
Earned(r) == Outcome[r.job].units
Gains == [r \in receipts |-> Earned(r)]
ReceiptsOf(n) == {r \in receipts : r.node = n}

LEMMA OutcomeTyped ==
    ASSUME NEW j \in Jobs
    PROVE  /\ Outcome[j].units \in Nat /\ Outcome[j].status \in {"completed", "failed"}
           /\ Outcome[j].units > 0 => Outcome[j].valid
BY OutcomeAssumption DEF OutcomeAssumption, Outcomes

LEMMA GainsTyped ==
    ASSUME ArtifactInv
    PROVE  /\ IsFiniteSet(receipts) /\ receipts \subseteq Receipts
           /\ \A r \in receipts : /\ r.job \in Jobs /\ r.node \in Nodes /\ Gains[r] = Earned(r)
                                  /\ Gains[r] \in Nat
<1>1. IsFiniteSet(receipts) /\ receipts \subseteq Receipts
  BY OnceParts DEF ArtifactInv, FiniteReceipts, TypeOK
<1>2. \A r \in receipts : r.job \in Jobs /\ r.node \in Nodes
  BY <1>1 DEF Receipts
<1>. QED BY <1>1, <1>2, OutcomeTyped DEF Gains, Earned

LEMMA UnitsAreGains ==
    ASSUME ArtifactInv, NEW R \in SUBSET receipts
    PROVE  /\ UnitsOf(R) = SumFunctionOnSet(Gains, R) /\ UnitsOf(R) \in Nat
           /\ UnitsOf({r \in R : IsAccepted(r)}) = SumFunctionOnSet(Gains, R)
<1>1. IsFiniteSet(R) /\ \A r \in R : Gains[r] \in Nat /\ Gains[r] = Earned(r) /\ r.job \in Jobs
  BY GainsTyped, FS_Subset
<1>2. ASSUME NEW S \in SUBSET R PROVE UnitsOf(S) = SumFunctionOnSet(Gains, S)
  <2>. DEFINE f == [r \in S |-> Outcome[r.job].units]
  <2>1. UnitsOf(S) = SumFunctionOnSet(f, S)
    BY Zenon DEF UnitsOf, SumFunction
  <2>2. IsFiniteSet(S) /\ \A r \in S : Gains[r] \in Nat /\ f[r] = Gains[r]
    BY <1>1, FS_Subset DEF Earned
  <2>. HIDE DEF f
  <2>. QED BY <2>1, <2>2, SumSame
<1>. DEFINE A == {r \in R : IsAccepted(r)}
<1>3. A \in SUBSET R
  OBVIOUS
<1>4. \A r \in R \ A : Gains[r] = 0
  BY <1>1, OutcomeTyped DEF IsAccepted, Earned
<1>5. SumFunctionOnSet(Gains, R) = SumFunctionOnSet(Gains, A)
  <2>. HIDE DEF A
  <2>. QED BY <1>1, <1>3, <1>4, SumOfSupport
<1>. QED BY <1>1, <1>2, <1>3, <1>5, SumTyped

LEMMA RecordedIsGained ==
    ASSUME ArtifactInv, AuditAccepts, NEW n \in Nodes
    PROVE  Recorded(n) = SumFunctionOnSet(Gains, ReceiptsOf(n))
<1>. DEFINE R == ReceiptsOf(n)
            J == {k \in Jobs : ledger[n][k] > 0}
            Part(j) == {r \in R : r.job = j}
            job == [r \in R |-> r.job]
            F == [j \in J |-> SumFunctionOnSet(Gains, {r \in R : job[r] = j})]
            G == [j \in J |-> ledger[n][j] * Outcome[j].units]
<1>1. IsFiniteSet(R) /\ \A r \in R : r \in receipts /\ r.node = n /\ r.job \in Jobs /\ Gains[r] \in Nat
                                     /\ Gains[r] = Earned(r)
  BY GainsTyped, FS_Subset DEF ReceiptsOf
<1>2. \A j \in Jobs : IsFiniteSet(Part(j)) /\ ledger[n][j] = Cardinality(Part(j))
  <2>1. \A j : {r \in receipts : r.node = n /\ r.job = j} = Part(j)
    BY DEF ReceiptsOf
  <2>. QED BY <1>1, <2>1, FS_Subset DEF AuditAccepts, Claims
<1>3. ASSUME NEW r \in R PROVE job[r] \in J
  <2>1. r.job \in Jobs /\ r \in Part(r.job)
    BY <1>1
  <2>2. Cardinality(Part(r.job)) \in Nat /\ Cardinality(Part(r.job)) # 0
    <3>1. IsFiniteSet(Part(r.job)) /\ Part(r.job) # {}
      BY <1>2, <2>1
    <3>. HIDE DEF Part
    <3>. QED BY <3>1, FS_CardinalityType, FS_EmptySet
  <2>. QED BY <1>2, <2>1, <2>2
<1>4. IsFiniteSet(J)
  <2>1. ASSUME NEW j \in J PROVE \E r \in R : job[r] = j
    <3>1. Part(j) # {}
      BY <1>2, FS_EmptySet
    <3>. QED BY <3>1
  <2>2. J = {job[r] : r \in R}
    BY <1>3, <2>1
  <2>3. IsFiniteSet({job[r] : r \in R})
    <3>. HIDE DEF job, R
    <3>. QED BY <1>1, ImageFinite
  <2>. QED BY <2>2, <2>3
<1>5. SumFunctionOnSet(Gains, R) = SumFunctionOnSet(F, J)
  <2>. HIDE DEF R, J, job
  <2>. QED BY <1>1, <1>3, <1>4, SumByParts
<1>6. ASSUME NEW j \in J PROVE F[j] \in Nat /\ F[j] = G[j]
  <2>1. {r \in R : job[r] = j} = Part(j)
    OBVIOUS
  <2>2. /\ IsFiniteSet(Part(j)) /\ ledger[n][j] = Cardinality(Part(j))
        /\ Outcome[j].units \in Nat /\ \A r \in Part(j) : Gains[r] = Outcome[j].units
    BY <1>1, <1>2, OutcomeTyped DEF Earned
  <2>3. SumFunctionOnSet(Gains, Part(j)) = Cardinality(Part(j)) * Outcome[j].units
    <3>. HIDE DEF Part
    <3>. QED BY <2>2, SumOfEqual
  <2>4. SumFunctionOnSet(Gains, Part(j)) \in Nat
    <3>. HIDE DEF Part
    <3>. QED BY <2>2, SumTyped
  <2>. QED BY <2>1, <2>2, <2>3, <2>4
<1>7. SumFunctionOnSet(F, J) = SumFunctionOnSet(G, J)
  <2>. HIDE DEF F, G, J
  <2>. QED BY <1>4, <1>6, SumSame
<1>8. Recorded(n) = SumFunctionOnSet(G, J)
  BY Zenon DEF Recorded, SumFunction
<1>. QED BY <1>5, <1>7, <1>8

LEMMA AggregateGains ==
    ASSUME ArtifactInv
    PROVE  /\ Aggregate.units = SumFunctionOnSet(Gains, receipts)
           /\ \A n \in Nodes :
                 /\ Aggregate.byNode[n] = SumFunctionOnSet(Gains, ReceiptsOf(n))
                 /\ Aggregate.byNode[n] \in Nat
<1>1. Aggregate.units = SumFunctionOnSet(Gains, receipts)
  <2>1. AcceptedResults = {r \in receipts : IsAccepted(r)}
    BY DEF AcceptedResults
  <2>. QED BY <2>1, UnitsAreGains DEF Aggregate
<1>2. ASSUME NEW n \in Nodes
      PROVE  /\ Aggregate.byNode[n] = SumFunctionOnSet(Gains, ReceiptsOf(n))
             /\ Aggregate.byNode[n] \in Nat
  <2>1. {r \in AcceptedResults : r.node = n} = {r \in ReceiptsOf(n) : IsAccepted(r)}
    BY DEF AcceptedResults, ReceiptsOf
  <2>2. ReceiptsOf(n) \in SUBSET receipts
    BY DEF ReceiptsOf
  <2>3. Aggregate.byNode[n] = UnitsOf({r \in AcceptedResults : r.node = n})
    BY DEF Aggregate, TotalsByNode
  <2>. QED BY <2>1, <2>2, <2>3, UnitsAreGains
<1>. QED BY <1>1, <1>2

LEMMA AuditedTotals ==
    ASSUME ArtifactInv, AuditAccepts
    PROVE  TotalsTheLedger
<1>1. /\ IsFiniteSet(receipts) /\ AcceptedResults \subseteq receipts
      /\ \A r \in receipts : r.job \in Jobs /\ r.node \in Nodes /\ Gains[r] \in Nat
  BY GainsTyped DEF AcceptedResults
<1>2. Aggregate.units = SumFunctionOnSet(Gains, receipts)
  BY AggregateGains
<1>3. ASSUME NEW n \in Nodes
      PROVE  /\ Aggregate.byNode[n] = SumFunctionOnSet(Gains, ReceiptsOf(n))
             /\ Aggregate.byNode[n] = Recorded(n) /\ Recorded(n) \in Nat
  BY AggregateGains, RecordedIsGained
<1>4. Aggregate.units = SumFunction([n \in CreditedNodes |-> Recorded(n)])
  <2>. DEFINE N == CreditedNodes
              node == [r \in receipts |-> r.node]
              F == [n \in N |-> SumFunctionOnSet(Gains, {r \in receipts : node[r] = n})]
              G == [n \in N |-> Recorded(n)]
  <2>1. ASSUME NEW n \in Nodes, NEW j \in Jobs
        PROVE  ledger[n][j] > 0 <=> \E r \in receipts : r.node = n /\ r.job = j
    <3>. DEFINE C == {r \in receipts : r.node = n /\ r.job = j}
    <3>1. ledger[n][j] = Cardinality(C)
      BY DEF AuditAccepts, Claims
    <3>2. IsFiniteSet(C)
      BY <1>1, FS_Subset
    <3>3. Cardinality(C) \in Nat /\ (Cardinality(C) = 0 <=> C = {})
      <4>. HIDE DEF C
      <4>. QED BY <3>2, FS_CardinalityType, FS_EmptySet
    <3>4. Cardinality(C) > 0 <=> C # {}
      <4>. HIDE DEF C
      <4>. QED BY <3>3
    <3>. QED BY <3>1, <3>4
  <2>2. N = {node[r] : r \in receipts}
    <3>1. \A n : n \in N <=> n \in Nodes /\ \E j \in Jobs : ledger[n][j] > 0
      BY DEF CreditedNodes
    <3>2. \A n : n \in N <=> \E r \in receipts : r.node = n
      <4>. HIDE DEF N
      <4>. QED BY <1>1, <2>1, <3>1
    <3>. HIDE DEF N
    <3>. QED BY <3>2
  <2>3. IsFiniteSet(N) /\ \A r \in receipts : node[r] \in N
    <3>1. IsFiniteSet({node[r] : r \in receipts})
      <4>. HIDE DEF node
      <4>. QED BY <1>1, ImageFinite
    <3>. HIDE DEF N
    <3>. QED BY <2>2, <3>1
  <2>4. SumFunctionOnSet(Gains, receipts) = SumFunctionOnSet(F, N)
    <3>. HIDE DEF node, N
    <3>. QED BY <1>1, <2>3, SumByParts
  <2>5. ASSUME NEW n \in N PROVE F[n] \in Nat /\ G[n] = F[n]
    <3>1. {r \in receipts : node[r] = n} = ReceiptsOf(n)
      BY DEF ReceiptsOf
    <3>2. n \in Nodes
      BY DEF CreditedNodes
    <3>3. F[n] = SumFunctionOnSet(Gains, ReceiptsOf(n)) /\ G[n] = Recorded(n)
      BY <3>1
    <3>. QED BY <1>3, <3>2, <3>3
  <2>6. SumFunctionOnSet(F, N) = SumFunctionOnSet(G, N)
    <3>. HIDE DEF F, G, N
    <3>. QED BY <2>3, <2>5, SumSame
  <2>7. SumFunction(G) = SumFunctionOnSet(G, N)
    BY Zenon DEF SumFunction
  <2>. QED BY <1>2, <2>4, <2>6, <2>7
<1>5. Aggregate.units = SumFunction(Aggregate.byType)
  <2>. DEFINE A == AcceptedResults
              type == [r \in A |-> Outcome[r.job].type]
              T == {Outcome[r.job].type : r \in A}
              F == [t \in T |-> SumFunctionOnSet(Gains, {r \in A : type[r] = t})]
  <2>1. IsFiniteSet(A) /\ \A r \in A : Gains[r] \in Nat /\ type[r] \in T
    BY <1>1, FS_Subset
  <2>2. IsFiniteSet(T)
    <3>1. T = {type[r] : r \in A}
      OBVIOUS
    <3>2. IsFiniteSet({type[r] : r \in A})
      <4>. HIDE DEF type, A
      <4>. QED BY <2>1, ImageFinite
    <3>. QED BY <3>1, <3>2
  <2>3. SumFunctionOnSet(Gains, A) = SumFunctionOnSet(F, T)
    <3>. HIDE DEF A, type, T
    <3>. QED BY <2>1, <2>2, SumByParts
  <2>4. ASSUME NEW t \in T PROVE TotalsByType[t] = F[t] /\ F[t] \in Nat
    <3>1. {r \in A : type[r] = t} = {r \in AcceptedResults : Outcome[r.job].type = t}
      OBVIOUS
    <3>2. {r \in AcceptedResults : Outcome[r.job].type = t} \in SUBSET receipts
      BY <1>1
    <3>3. TotalsByType[t] = UnitsOf({r \in AcceptedResults : Outcome[r.job].type = t})
      BY DEF TotalsByType
    <3>4. F[t] = SumFunctionOnSet(Gains, {r \in AcceptedResults : Outcome[r.job].type = t})
      BY <3>1
    <3>. HIDE DEF F, T, A
    <3>. QED BY <3>2, <3>3, <3>4, UnitsAreGains
  <2>5. SumFunctionOnSet(F, T) = SumFunctionOnSet(TotalsByType, T)
    <3>. HIDE DEF F, T
    <3>. QED BY <2>2, <2>4, SumSame
  <2>6. SumFunction(Aggregate.byType) = SumFunctionOnSet(TotalsByType, T)
    <3>1. Aggregate.byType = TotalsByType
      BY DEF Aggregate
    <3>2. DOMAIN TotalsByType = T
      BY DEF TotalsByType
    <3>. HIDE DEF T
    <3>. QED BY <3>1, <3>2, Zenon DEF SumFunction
  <2>7. Aggregate.units = SumFunctionOnSet(Gains, A)
    <3>1. Aggregate.units = UnitsOf(A)
      BY DEF Aggregate
    <3>. QED BY <1>1, <3>1, UnitsAreGains
  <2>. QED BY <2>3, <2>5, <2>6, <2>7
<1>6. Aggregate.receipts - Aggregate.accepted = Aggregate.validations.zero
  <2>1. receipts \ AcceptedResults = {r \in receipts : Outcome[r.job].units = 0}
    BY <1>1, OutcomeTyped DEF AcceptedResults, IsAccepted
  <2>2. receipts \cap AcceptedResults = AcceptedResults
    BY <1>1
  <2>3. Cardinality(receipts \ AcceptedResults) =
            Cardinality(receipts) - Cardinality(receipts \cap AcceptedResults)
    BY <1>1, FS_Difference
  <2>. QED BY <2>1, <2>2, <2>3 DEF Aggregate, ValidationTotals
<1>. QED BY <1>3, <1>4, <1>5, <1>6 DEF TotalsTheLedger

-----------------------------------------------------------------------------
(***************************************************************************)
(* The simulation.  Each assignment is processed in the pass that follows  *)
(* it, and no later one finds it again, so the simulation keeps one record *)
(* and one result for each job, in the order of the jobs.                  *)
(***************************************************************************)
Unprocessed(s, n, e) == AssignmentFor(n, e) /\ e.id \notin s.processed[n]
PassStep(s, n, p, i) ==
    IF i = 0 THEN s
    ELSE IF Unprocessed(p[i - 1], n, s.bus[i]) THEN ProcessAssignment(p[i - 1], s.bus[i])
    ELSE p[i - 1]

LEMMA InboxUnfold ==
    ASSUME NEW s, NEW n
    PROVE  ProcessInbox(s, n) =
              (CHOOSE p : p = [i \in 0..Len(s.bus) |-> PassStep(s, n, p, i)])[Len(s.bus)]
BY Zenon DEF ProcessInbox, PassStep, Unprocessed

(* A pass that finds only the last message new processes that message.     *)
LEMMA LastIsNew ==
    ASSUME NEW s, NEW n, NEW L \in Nat, Len(s.bus) = L, L > 0, Unprocessed(s, n, s.bus[L]),
           \A i \in 1..(L - 1) : ~Unprocessed(s, n, s.bus[i])
    PROVE  ProcessInbox(s, n) = ProcessAssignment(s, s.bus[L])
<1>. DEFINE G == [i \in 0..L |-> IF i = L THEN ProcessAssignment(s, s.bus[L]) ELSE s]
            p == CHOOSE q : q = [i \in 0..L |-> PassStep(s, n, q, i)]
<1>1. G = [i \in 0..L |-> PassStep(s, n, G, i)]
  <2>1. ASSUME NEW i \in 0..L PROVE G[i] = PassStep(s, n, G, i)
    <3>1. CASE i = 0
      BY <3>1 DEF PassStep
    <3>2. CASE i # 0
      <4>1. i - 1 \in 0..L /\ i - 1 # L
        BY <3>2
      <4>2. G[i - 1] = s
        BY <4>1
      <4>3. i = L \/ i \in 1..(L - 1)
        BY <3>2
      <4>4. G[i] = IF i = L THEN ProcessAssignment(s, s.bus[L]) ELSE s
        OBVIOUS
      <4>. HIDE DEF G
      <4>. QED BY <3>2, <4>2, <4>3, <4>4 DEF PassStep
    <3>. QED BY <3>1, <3>2
  <2>2. G = [i \in 0..L |-> G[i]]
    OBVIOUS
  <2>. HIDE DEF G
  <2>. QED BY <2>1, <2>2, Zenon
<1>2. p = [i \in 0..L |-> PassStep(s, n, p, i)]
  <2>. HIDE DEF G
  <2>. QED BY <1>1, Zenon
<1>3. ProcessInbox(s, n) = p[L]
  BY InboxUnfold, Zenon
<1>4. ASSUME NEW i \in 0..(L - 1) PROVE p[i] = s
  <2>. DEFINE Bad == {j \in 0..(L - 1) : p[j] # s}
  <2>. HIDE DEF p
  <2>1. SUFFICES ASSUME Bad # {} PROVE FALSE
    OBVIOUS
  <2>2. PICK j \in Bad : \A h \in Bad : j <= h
    <3>1. Bad \subseteq Nat
      OBVIOUS
    <3>. HIDE DEF Bad
    <3>. QED BY <2>1, <3>1, LeastNumber
  <2>3. j \in 0..L /\ p[j] = PassStep(s, n, p, j)
    BY <1>2
  <2>4. j # 0
    BY <2>3 DEF PassStep
  <2>5. j - 1 \in 0..(L - 1) /\ j - 1 \notin Bad
    <3>1. j - 1 \in 0..(L - 1) /\ ~(j <= j - 1)
      BY <2>4
    <3>. HIDE DEF Bad
    <3>. QED BY <2>2, <3>1
  <2>6. p[j - 1] = s /\ ~Unprocessed(s, n, s.bus[j])
    BY <2>4, <2>5
  <2>. QED BY <2>3, <2>4, <2>6 DEF PassStep
<1>5. p[L] = ProcessAssignment(s, s.bus[L])
  <2>. HIDE DEF p
  <2>1. p[L] = PassStep(s, n, p, L) /\ L - 1 \in 0..(L - 1) /\ L # 0
    BY <1>2
  <2>2. p[L - 1] = s
    BY <1>4, <2>1
  <2>. QED BY <2>1, <2>2 DEF PassStep
<1>. QED BY <1>3, <1>5

Actors == Nodes \cup {Nobody, LedgerActor, Scheduler}
BusTypes == {"node_heartbeat", "job_assigned", "job_result_reported", "job_validated",
             "contribution_recorded"}
BusMessages == [id : Nat, type : BusTypes, from : Actors, to : Actors, job : Jobs \cup {Nobody}]
Results == [node : Nodes, job : Jobs]
SimulationStates == [bus : Seq(BusMessages), processed : [Nodes -> SUBSET Nat],
                     records : Seq(Results), results : Seq(Results)]

(* The results of the first k jobs. *)
ResultsTo(m, s, k) == [i \in 1..k |-> [node |-> m.nodes[s[i]], job |-> m.jobs[i]]]

(* Message i of the bus has ID i, and an assignment is marked.             *)
InPlace(t, i) ==
    /\ t.bus[i].id = i
    /\ t.bus[i].type = "job_assigned" =>
          t.bus[i].to \in Nodes /\ i \in t.processed[t.bus[i].to]

(* The state after the first k jobs of m under schedule s. *)
Simulating(t, m, s, k) ==
    /\ t \in SimulationStates
    /\ \A i \in 1..Len(t.bus) : InPlace(t, i)
    /\ \A n \in Nodes : \A id \in t.processed[n] : id <= Len(t.bus)
    /\ t.records = ResultsTo(m, s, k) /\ t.results = ResultsTo(m, s, k)

LEMMA Sent ==
    ASSUME NEW bus \in Seq(BusMessages), NEW type \in BusTypes, NEW from \in Actors,
           NEW to \in Actors, NEW job \in Jobs \cup {Nobody}
    PROVE  LET b == Send(bus, type, from, to, job)
           IN /\ b \in Seq(BusMessages) /\ Len(bus) \in Nat /\ Len(b) = Len(bus) + 1
              /\ \A i \in 1..Len(bus) : b[i] = bus[i]
              /\ b[Len(bus) + 1] = [id |-> Len(bus) + 1, type |-> type, from |-> from,
                                    to |-> to, job |-> job]
<1>. DEFINE e == [id |-> Len(bus) + 1, type |-> type, from |-> from, to |-> to, job |-> job]
<1>1. Len(bus) \in Nat
  OBVIOUS
<1>2. e \in BusMessages
  BY <1>1 DEF BusMessages
<1>3. Send(bus, type, from, to, job) = Append(bus, e)
  BY DEF Send
<1>. HIDE DEF e
<1>4. /\ Append(bus, e) \in Seq(BusMessages) /\ Len(Append(bus, e)) = Len(bus) + 1
      /\ \A i \in 1..Len(bus) : Append(bus, e)[i] = bus[i]
      /\ Append(bus, e)[Len(bus) + 1] = e
  BY <1>2
<1>. QED BY <1>1, <1>3, <1>4 DEF e

LEMMA ResultAppended ==
    ASSUME NEW m \in Manifests, NEW s \in Schedules(m), NEW k \in DOMAIN m.jobs
    PROVE  /\ m.nodes[s[k]] \in Nodes /\ m.jobs[k] \in Jobs
           /\ Append(ResultsTo(m, s, k - 1), [node |-> m.nodes[s[k]], job |-> m.jobs[k]])
                = ResultsTo(m, s, k)
           /\ ResultsTo(m, s, k) \in Seq(Results)
<1>1. /\ m.nodes \in Seq(Nodes) /\ m.jobs \in Seq(Jobs) /\ s \in [DOMAIN m.jobs -> DOMAIN m.nodes]
  BY ManifestFields DEF Schedules
<1>2. ASSUME NEW i \in DOMAIN m.jobs PROVE m.nodes[s[i]] \in Nodes /\ m.jobs[i] \in Jobs
  BY <1>1
<1>3. k \in Nat /\ k > 0 /\ DOMAIN m.jobs = 1..Len(m.jobs) /\ Len(m.jobs) \in Nat
  BY <1>1
<1>. DEFINE R(i) == [node |-> m.nodes[s[i]], job |-> m.jobs[i]]
<1>4. ASSUME NEW h \in 0..k PROVE ResultsTo(m, s, h) \in Seq(Results) /\ Len(ResultsTo(m, s, h)) = h
  <2>1. \A i \in 1..h : i \in DOMAIN m.jobs
    BY <1>3
  <2>2. \A i \in 1..h : R(i) \in Results
    BY <1>2, <2>1 DEF Results
  <2>3. h \in Nat
    BY <1>3
  <2>4. ResultsTo(m, s, h) = [i \in 1..h |-> R(i)]
    BY DEF ResultsTo
  <2>. HIDE DEF R
  <2>. QED BY <2>2, <2>3, <2>4
<1>5. Append(ResultsTo(m, s, k - 1), R(k)) = ResultsTo(m, s, k)
  <2>. DEFINE A == ResultsTo(m, s, k - 1)
              B == ResultsTo(m, s, k)
  <2>1. A \in Seq(Results) /\ Len(A) = k - 1 /\ B \in Seq(Results) /\ Len(B) = k
    BY <1>3, <1>4
  <2>2. R(k) \in Results
    BY <1>2 DEF Results
  <2>3. \A i \in 1..(k - 1) : A[i] = B[i]
    BY <1>3 DEF ResultsTo
  <2>4. B[k] = R(k)
    BY <1>3 DEF ResultsTo
  <2>5. \A x : x = R(k) => /\ Len(Append(A, x)) = k /\ Append(A, x) \in Seq(Results)
                           /\ \A i \in 1..k : Append(A, x)[i] = B[i]
    <3>. HIDE DEF A, B, R
    <3>. QED BY <1>3, <2>1, <2>2, <2>3, <2>4
  <2>6. Append(A, R(k)) = B
    <3>1. PICK x : x = R(k)
      OBVIOUS
    <3>. HIDE DEF A, B, R
    <3>. QED BY <2>1, <2>5, <3>1, SeqEqual
  <2>. QED BY <2>6
<1>6. ResultsTo(m, s, k) \in Seq(Results)
  BY <1>3, <1>4
<1>. QED BY <1>2, <1>5, <1>6

LEMMA JobSimulated ==
    ASSUME NEW m \in Manifests, NEW s \in Schedules(m), NEW k \in DOMAIN m.jobs,
           NEW t, Simulating(t, m, s, k - 1)
    PROVE  Simulating(SimulateJob(t, m.nodes[s[k]], m.jobs[k]), m, s, k)
<1>. DEFINE n == m.nodes[s[k]]
            j == m.jobs[k]
            L == Len(t.bus) + 1
            e == [id |-> L, type |-> "job_assigned", from |-> Scheduler, to |-> n, job |-> j]
            b1 == Send(t.bus, "job_assigned", Scheduler, n, j)
            b2 == Send(b1, "job_result_reported", n, LedgerActor, j)
            b3 == Send(b2, "job_validated", n, LedgerActor, j)
            b4 == Send(b3, "contribution_recorded", LedgerActor, n, j)
            r == [node |-> n, job |-> j]
            t1 == [t EXCEPT !.bus = b1]
            processed == [t.processed EXCEPT ![n] = @ \cup {L}]
            u == [bus |-> b4, processed |-> processed, records |-> Append(t.records, r),
                  results |-> Append(t.results, r)]
<1>1. /\ n \in Nodes /\ j \in Jobs /\ t \in SimulationStates /\ t.bus \in Seq(BusMessages)
      /\ t.processed \in [Nodes -> SUBSET Nat]
  BY ResultAppended DEF Simulating, SimulationStates
<1>2. /\ n \in Actors /\ j \in Jobs \cup {Nobody} /\ Scheduler \in Actors /\ LedgerActor \in Actors
      /\ "job_assigned" \in BusTypes /\ "job_result_reported" \in BusTypes
      /\ "job_validated" \in BusTypes /\ "contribution_recorded" \in BusTypes
  BY <1>1 DEF Actors, BusTypes
<1>3. /\ b1 \in Seq(BusMessages) /\ Len(b1) = L /\ b1[L] = e /\ L \in Nat /\ L > 0
      /\ \A i \in 1..(L - 1) : b1[i] = t.bus[i]
  <2>. HIDE DEF n, j
  <2>. QED BY <1>1, <1>2, Sent
<1>4. /\ b2 \in Seq(BusMessages) /\ Len(b2) = L + 1 /\ \A i \in 1..L : b2[i] = b1[i]
      /\ b2[L + 1] = [id |-> L + 1, type |-> "job_result_reported", from |-> n,
                      to |-> LedgerActor, job |-> j]
  <2>. HIDE DEF n, j, e, r, t1, u, processed, b1, L
  <2>1. /\ b2 \in Seq(BusMessages) /\ Len(b2) = Len(b1) + 1
        /\ \A i \in 1..Len(b1) : b2[i] = b1[i]
        /\ b2[Len(b1) + 1] = [id |-> Len(b1) + 1, type |-> "job_result_reported",
                               from |-> n, to |-> LedgerActor, job |-> j]
    BY <1>2, <1>3, Sent
  <2>. HIDE DEF b2
  <2>2. Len(b1) + 1 = L + 1
    BY <1>3, <1>3
  <2>. QED BY <1>3, <1>3, <2>1, <2>2
<1>5. /\ b3 \in Seq(BusMessages) /\ Len(b3) = L + 2 /\ \A i \in 1..(L + 1) : b3[i] = b2[i]
      /\ b3[L + 2] = [id |-> L + 2, type |-> "job_validated", from |-> n,
                      to |-> LedgerActor, job |-> j]
  <2>. HIDE DEF n, j, e, r, t1, u, processed, b1, b2, L
  <2>1. /\ b3 \in Seq(BusMessages) /\ Len(b3) = Len(b2) + 1
        /\ \A i \in 1..Len(b2) : b3[i] = b2[i]
        /\ b3[Len(b2) + 1] = [id |-> Len(b2) + 1, type |-> "job_validated",
                               from |-> n, to |-> LedgerActor, job |-> j]
    BY <1>2, <1>4, Sent
  <2>. HIDE DEF b3
  <2>2. Len(b2) + 1 = L + 2
    BY <1>3, <1>4
  <2>. QED BY <1>3, <1>4, <2>1, <2>2
<1>6. /\ b4 \in Seq(BusMessages) /\ Len(b4) = L + 3 /\ \A i \in 1..(L + 2) : b4[i] = b3[i]
      /\ b4[L + 3] = [id |-> L + 3, type |-> "contribution_recorded", from |-> LedgerActor,
                      to |-> n, job |-> j]
  <2>. HIDE DEF n, j, e, r, t1, u, processed, b1, b2, b3, L
  <2>1. /\ b4 \in Seq(BusMessages) /\ Len(b4) = Len(b3) + 1
        /\ \A i \in 1..Len(b3) : b4[i] = b3[i]
        /\ b4[Len(b3) + 1] = [id |-> Len(b3) + 1, type |-> "contribution_recorded",
                               from |-> LedgerActor, to |-> n, job |-> j]
    BY <1>2, <1>5, Sent
  <2>. HIDE DEF b4
  <2>2. Len(b3) + 1 = L + 3
    BY <1>3, <1>5
  <2>. QED BY <1>3, <1>5, <2>1, <2>2
<1>7. t1.bus = b1 /\ t1.processed = t.processed
  BY <1>1 DEF SimulationStates
<1>8. ProcessInbox(t1, n) = ProcessAssignment(t1, e)
  <2>1. Unprocessed(t1, n, e)
    <3>1. L \notin t.processed[n]
      BY <1>1, <1>3 DEF Simulating
    <3>. QED BY <1>7, <3>1 DEF Unprocessed, AssignmentFor
  <2>2. ASSUME NEW i \in 1..(L - 1) PROVE ~Unprocessed(t1, n, b1[i])
    <3>1. b1[i] = t.bus[i] /\ InPlace(t, i)
      BY <1>3 DEF Simulating
    <3>. QED BY <1>7, <3>1 DEF InPlace, Unprocessed, AssignmentFor
  <2>3. b1[L] = e /\ Len(t1.bus) = L
    BY <1>3, <1>7
  <2>. HIDE DEF e, L, n, j, b1, t1
  <2>. QED BY <1>3, <1>7, <2>1, <2>2, <2>3, LastIsNew
<1>9. SimulateJob(t, n, j) = u
  <2>1. SimulateJob(t, n, j) = [ProcessInbox(t1, n) EXCEPT !.results = Append(@, r)]
    BY DEF SimulateJob
  <2>2. ProcessAssignment(t1, e) =
            [t1 EXCEPT !.bus = b4, !.processed[e.to] = @ \cup {e.id},
                       !.records = Append(@, [node |-> e.to, job |-> e.job])]
    BY <1>7 DEF ProcessAssignment
  <2>3. e.to = n /\ e.id = L /\ e.job = j
    OBVIOUS
  <2>4. t1 = [bus |-> b1, processed |-> t.processed, records |-> t.records, results |-> t.results]
    BY <1>1 DEF SimulationStates
  <2>5. ProcessAssignment(t1, e) =
            [bus |-> b4, processed |-> processed, records |-> Append(t.records, r),
             results |-> t.results]
    <3>. HIDE DEF e, L, n, j, b1, b4, t1
    <3>. QED BY <2>2, <2>3, <2>4
  <2>6. SimulateJob(t, n, j) = [ProcessAssignment(t1, e) EXCEPT !.results = Append(@, r)]
    BY <1>8, <2>1
  <2>. HIDE DEF e, L, b1, b2, b3, b4, t1, processed, r, n, j
  <2>. DEFINE p == ProcessAssignment(t1, e)
              c == Append(t.records, r)
              d == t.results
              a == Append(t.results, r)
  <2>7. a = Append(d, r) /\ p = [bus |-> b4, processed |-> processed, records |-> c, results |-> d]
    BY <2>5
  <2>8. u = [bus |-> b4, processed |-> processed, records |-> c, results |-> a]
    OBVIOUS
  <2>9. SimulateJob(t, n, j) = [p EXCEPT !.results = Append(@, r)]
    BY <2>6
  <2>10. [p EXCEPT !.results = Append(@, r)] = u
    <3>. HIDE DEF u, p, c, d, a
    <3>1. p.results = d
      BY <2>7
    <3>2. [p EXCEPT !.results = Append(p.results, r)] = [p EXCEPT !.results = a]
      BY <2>7, <3>1, Zenon
    <3>3. p = [bus |-> b4, processed |-> processed, records |-> c, results |-> d]
      BY <2>7
    <3>4. [p EXCEPT !.results = a] =
              [bus |-> b4, processed |-> processed, records |-> c, results |-> a]
      BY <3>3
    <3>. QED BY <2>8, <3>2, <3>4, Zenon
  <2>. QED BY <2>9, <2>10, Zenon
<1>10. u \in SimulationStates
  <2>1. processed \in [Nodes -> SUBSET Nat]
    BY <1>1, <1>3
  <2>2. Append(t.records, r) \in Seq(Results) /\ Append(t.results, r) \in Seq(Results)
    BY ResultAppended DEF Simulating
  <2>. HIDE DEF processed, b4, r
  <2>. QED BY <1>6, <2>1, <2>2 DEF SimulationStates
<1>11. ASSUME NEW i \in 1..Len(u.bus) PROVE InPlace(u, i)
  <2>1. u.bus = b4 /\ u.processed = processed /\ i \in 1..(L + 3)
    BY <1>6
  <2>2. /\ processed[n] = t.processed[n] \cup {L}
        /\ \A h \in Nodes : t.processed[h] \subseteq processed[h]
    BY <1>1
  <2>3. CASE i \in 1..(L - 1)
    <3>1. b4[i] = t.bus[i] /\ i \in 1..Len(t.bus)
      <4>. HIDE DEF b1, b2, b3, b4, e, n, j, r, t1, u, processed
      <4>1. Len(t.bus) = L - 1 /\ Len(t.bus) \in Nat
        BY <1>1
      <4>. HIDE DEF L
      <4>. QED BY <1>3, <1>4, <1>5, <1>6, <2>3, <4>1
    <3>2. InPlace(t, i)
      BY <3>1 DEF Simulating
    <3>. HIDE DEF u, b4, processed
    <3>. QED BY <2>1, <2>2, <3>1, <3>2 DEF InPlace
  <2>4. CASE i = L
    <3>1. b4[i] = e
      <4>. HIDE DEF b1, b2, b3, b4, e, n, j, r, t1, u, processed, L
      <4>. QED BY <1>3, <1>4, <1>5, <1>6, <2>4
    <3>2. e.id = L /\ e.to = n
      OBVIOUS
    <3>. HIDE DEF u, b4, processed, e, n, L
    <3>. QED BY <1>1, <2>1, <2>2, <2>4, <3>1, <3>2 DEF InPlace
  <2>5. CASE i \in {L + 1, L + 2, L + 3}
    <3>1. b4[i].id = i /\ b4[i].type # "job_assigned"
      <4>. HIDE DEF b1, b2, b3, b4, n, j, L, e, r, t1, u, processed
      <4>. QED BY <1>3, <1>4, <1>5, <1>6, <2>5
    <3>. HIDE DEF u, b4, processed, n, L
    <3>. QED BY <2>1, <3>1 DEF InPlace
  <2>6. i \in 1..(L - 1) \/ i = L \/ i \in {L + 1, L + 2, L + 3}
    <3>. HIDE DEF L
    <3>. QED BY <1>3, <2>1
  <2>. QED BY <2>3, <2>4, <2>5, <2>6
<1>12. ASSUME NEW h \in Nodes, NEW id \in u.processed[h] PROVE id <= Len(u.bus)
  <2>1. id \in t.processed[h] \/ id = L
    BY <1>1
  <2>2. Len(u.bus) = L + 3
    BY <1>6
  <2>3. id \in t.processed[h] => id <= Len(t.bus) /\ id \in Nat
    BY <1>1 DEF Simulating
  <2>. QED BY <1>3, <2>1, <2>2, <2>3
<1>13. u.records = ResultsTo(m, s, k) /\ u.results = ResultsTo(m, s, k)
  BY ResultAppended DEF Simulating
<1>. HIDE DEF u
<1>. QED BY <1>9, <1>10, <1>11, <1>12, <1>13 DEF Simulating

SimulationStep(m, s, f, k) ==
    IF k = 0 THEN StartSimulation(m)
    ELSE SimulateJob(f[k - 1], m.nodes[s[k]], m.jobs[k])

LEMMA SimulationUnfold ==
    ASSUME NEW m
    PROVE  Simulated(m) =
              (CHOOSE f : f = [k \in 0..Len(m.jobs) |->
                                  SimulationStep(m, CHOOSE s \in Schedules(m) : TRUE, f, k)])
                  [Len(m.jobs)]
BY Zenon DEF Simulated, SimulationStep

LEMMA SimulationExists ==
    ASSUME NEW m, NEW s, NEW K \in Nat
    PROVE  \E f : f = [k \in 0..K |-> SimulationStep(m, s, f, k)]
<1>. DEFINE Runs(h) == \E f : f = [k \in 0..h |-> SimulationStep(m, s, f, k)]
            Bad == {h \in Nat : ~Runs(h)}
<1>1. SUFFICES ASSUME Bad # {} PROVE FALSE
  OBVIOUS
<1>2. PICK h \in Bad : \A i \in Bad : h <= i
  <2>1. Bad \subseteq Nat
    OBVIOUS
  <2>. HIDE DEF Bad
  <2>. QED BY <1>1, <2>1, LeastNumber
<1>3. h \in Nat /\ ~Runs(h)
  OBVIOUS
<1>4. h # 0
  <2>. DEFINE f == [k \in 0..0 |-> StartSimulation(m)]
  <2>1. \A k \in 0..0 : StartSimulation(m) = SimulationStep(m, s, f, k)
    BY DEF SimulationStep
  <2>2. f = [k \in 0..0 |-> SimulationStep(m, s, f, k)]
    BY <2>1, Zenon
  <2>. HIDE DEF f
  <2>. QED BY <1>3, <2>2
<1>5. PICK f : f = [k \in 0..(h - 1) |-> SimulationStep(m, s, f, k)]
  <2>1. h - 1 \in Nat /\ ~(h <= h - 1)
    BY <1>3, <1>4
  <2>2. h - 1 \notin Bad
    <3>. HIDE DEF Bad
    <3>. QED BY <1>2, <2>1
  <2>3. Runs(h - 1)
    BY <2>1, <2>2
  <2>. QED BY <2>3
<1>. DEFINE Value(k) == IF k = h THEN SimulateJob(f[h - 1], m.nodes[s[h]], m.jobs[h]) ELSE f[k]
            g == [k \in 0..h |-> Value(k)]
<1>6. ASSUME NEW k \in 0..h PROVE Value(k) = SimulationStep(m, s, g, k)
  <2>1. CASE k = 0
    <3>1. f[k] = SimulationStep(m, s, f, k)
      BY <1>3, <1>4, <1>5, <2>1
    <3>. QED BY <1>4, <2>1, <3>1 DEF SimulationStep
  <2>2. CASE k # 0 /\ k # h
    <3>1. k \in 0..(h - 1) /\ k - 1 \in 0..h /\ k - 1 # h
      BY <1>3, <2>2
    <3>2. f[k] = SimulationStep(m, s, f, k)
      BY <1>5, <3>1
    <3>3. g[k - 1] = f[k - 1]
      BY <3>1
    <3>4. Value(k) = f[k]
      BY <2>2
    <3>. HIDE DEF g, Value
    <3>. QED BY <2>2, <3>2, <3>3, <3>4 DEF SimulationStep
  <2>3. CASE k = h
    <3>1. h - 1 \in 0..h /\ h - 1 # h
      BY <1>3, <1>4
    <3>2. g[h - 1] = f[h - 1]
      BY <3>1
    <3>3. Value(k) = SimulateJob(f[h - 1], m.nodes[s[h]], m.jobs[h])
      BY <2>3
    <3>. HIDE DEF g, Value
    <3>. QED BY <1>4, <2>3, <3>2, <3>3 DEF SimulationStep
  <2>. QED BY <2>1, <2>2, <2>3
<1>7. g = [k \in 0..h |-> SimulationStep(m, s, g, k)]
  <2>1. g = [k \in 0..h |-> Value(k)]
    OBVIOUS
  <2>. HIDE DEF g, Value
  <2>. QED BY <1>6, <2>1, Zenon
<1>. HIDE DEF g
<1>. QED BY <1>3, <1>7

LEMMA SimulationStarts ==
    ASSUME NEW m \in Manifests, NEW s \in Schedules(m)
    PROVE  Simulating(StartSimulation(m), m, s, 0)
<1>. DEFINE H(k) == [id |-> k, type |-> "node_heartbeat", from |-> m.nodes[k],
                     to |-> Nobody, job |-> Nobody]
            t == StartSimulation(m)
            L == Len(m.nodes)
<1>1. m.nodes \in Seq(Nodes) /\ DOMAIN m.nodes = 1..L /\ L \in Nat
  BY ManifestFields
<1>2. ASSUME NEW k \in 1..L PROVE H(k) \in BusMessages /\ H(k).id = k /\ H(k).type # "job_assigned"
  <2>1. m.nodes[k] \in Actors /\ Nobody \in Actors /\ "node_heartbeat" \in BusTypes /\ k \in Nat
    BY <1>1 DEF Actors, BusTypes
  <2>. QED BY <2>1 DEF BusMessages
<1>3. Heartbeats(m) = [k \in 1..L |-> H(k)]
  BY <1>1 DEF Heartbeats
<1>4. /\ Heartbeats(m) \in Seq(BusMessages) /\ Len(Heartbeats(m)) = L
      /\ \A k \in 1..L : Heartbeats(m)[k] = H(k)
  <2>. HIDE DEF H, L
  <2>. QED BY <1>1, <1>2, <1>3
<1>5. ResultsTo(m, s, 0) = <<>>
  BY DEF ResultsTo
<1>6. /\ t.bus = Heartbeats(m) /\ t.processed = [n \in Nodes |-> {}]
      /\ t.records = <<>> /\ t.results = <<>>
  BY DEF StartSimulation
<1>7. t \in SimulationStates
  <2>1. <<>> \in Seq(Results) /\ [n \in Nodes |-> {}] \in [Nodes -> SUBSET Nat]
    OBVIOUS
  <2>. QED BY <1>4, <2>1 DEF StartSimulation, SimulationStates
<1>8. \A i \in 1..Len(t.bus) : InPlace(t, i)
  <2>. HIDE DEF t, H, L
  <2>. QED BY <1>2, <1>4, <1>6 DEF InPlace
<1>9. Simulating(t, m, s, 0)
  <2>. HIDE DEF t, H, L
  <2>. QED BY <1>5, <1>6, <1>7, <1>8 DEF Simulating
<1>. QED BY <1>9

(* What run_local_simulation leaves, for any manifest: one record and one  *)
(* result for each job, in the order of the jobs, on the scheduled node.   *)
(* Each pass processes the assignment it follows and nothing else, so the  *)
(* check that it processed exactly one never raises.                       *)
THEOREM SimulationResults ==
    ASSUME NEW m \in Manifests, NEW s \in Schedules(m)
    PROVE  /\ Simulated(m).records = ResultsTo(m, s, Len(m.jobs))
           /\ Simulated(m).results = ResultsTo(m, s, Len(m.jobs))
<1>. DEFINE K == Len(m.jobs)
            f == CHOOSE g : g = [k \in 0..K |-> SimulationStep(m, s, g, k)]
            Bad == {k \in 0..K : ~Simulating(f[k], m, s, k)}
<1>1. K \in Nat /\ DOMAIN m.jobs = 1..K
  BY ManifestFields
<1>2. (CHOOSE r \in Schedules(m) : TRUE) = s
  <2>1. (CHOOSE r \in Schedules(m) : TRUE) \in Schedules(m)
    BY Zenon
  <2>. QED BY <2>1, ScheduleUnique
<1>3. Simulated(m) = f[K]
  BY <1>2, SimulationUnfold
<1>4. f = [k \in 0..K |-> SimulationStep(m, s, f, k)]
  <2>1. \E g : g = [k \in 0..K |-> SimulationStep(m, s, g, k)]
    <3>. HIDE DEF K
    <3>. QED BY <1>1, SimulationExists, Zenon
  <2>. HIDE DEF K
  <2>. QED BY <2>1, Zenon
<1>. HIDE DEF f
<1>5. Bad = {}
  <2>1. SUFFICES ASSUME Bad # {} PROVE FALSE
    OBVIOUS
  <2>2. PICK k \in Bad : \A h \in Bad : k <= h
    <3>1. Bad \subseteq Nat
      BY <1>1
    <3>. HIDE DEF Bad
    <3>. QED BY <2>1, <3>1, LeastNumber
  <2>3. k \in 0..K /\ f[k] = SimulationStep(m, s, f, k)
    BY <1>4
  <2>4. k # 0
    BY <2>3, SimulationStarts DEF SimulationStep
  <2>5. k \in DOMAIN m.jobs /\ k - 1 \in 0..K /\ ~(k <= k - 1)
    BY <1>1, <2>3, <2>4
  <2>6. k - 1 \notin Bad
    <3>. HIDE DEF Bad
    <3>. QED BY <2>2, <2>5
  <2>7. Simulating(f[k - 1], m, s, k - 1)
    BY <2>5, <2>6
  <2>8. f[k] = SimulateJob(f[k - 1], m.nodes[s[k]], m.jobs[k])
    BY <2>3, <2>4 DEF SimulationStep
  <2>9. Simulating(f[k], m, s, k)
    BY <2>5, <2>7, <2>8, JobSimulated
  <2>. QED BY <2>9
<1>6. Simulating(f[K], m, s, K)
  BY <1>1, <1>5
<1>. QED BY <1>3, <1>6 DEF Simulating

-----------------------------------------------------------------------------
(***************************************************************************)
(* The simulation foretells a first run: the receipts of the run are, one  *)
(* by one, the results of the simulation, a receipt of message ID          *)
(* Len(m.nodes) + k being that of job k.                                   *)
(***************************************************************************)
JobUnits(m) == [k \in 1..Len(m.jobs) |-> Outcome[m.jobs[k]].units]
JobOf(m) == [r \in receipts |-> r.assignment - Len(m.nodes)]

(* A first run of m under the schedule s. *)
FirstRunOf(m, s) ==
    /\ ArtifactInv /\ FirstRun
    /\ m \in Manifests /\ s \in Schedules(m) /\ dispatchLog = Batch(m, s)

LEMMA ResultFields ==
    ASSUME NEW m \in Manifests, NEW s \in Schedules(m)
    PROVE  LET R == ResultsTo(m, s, Len(m.jobs))
           IN /\ Len(m.jobs) \in Nat /\ Len(m.nodes) \in Nat /\ Len(R) = Len(m.jobs)
              /\ DOMAIN m.jobs = 1..Len(m.jobs) /\ DOMAIN R = 1..Len(m.jobs)
              /\ IsFiniteSet(1..Len(m.jobs)) /\ Cardinality(1..Len(m.jobs)) = Len(m.jobs)
              /\ \A k \in 1..Len(m.jobs) :
                    /\ R[k].node = m.nodes[s[k]] /\ R[k].job = m.jobs[k]
                    /\ R[k] = [node |-> R[k].node, job |-> R[k].job]
                    /\ R[k].node \in Nodes /\ R[k].job \in Jobs
                    /\ JobUnits(m)[k] = Outcome[R[k].job].units /\ JobUnits(m)[k] \in Nat
<1>. DEFINE K == Len(m.jobs)
            R == ResultsTo(m, s, K)
<1>1. K \in Nat /\ Len(m.nodes) \in Nat /\ DOMAIN m.jobs = 1..K
  BY ManifestFields
<1>2. DOMAIN R = 1..K
  BY DEF ResultsTo
<1>3. Len(R) = K
  <2>1. R = [k \in 1..K |-> R[k]]
    BY <1>2 DEF ResultsTo
  <2>. HIDE DEF R, K
  <2>. QED BY <1>1, <1>2, <2>1
<1>4. IsFiniteSet(1..K) /\ Cardinality(1..K) = K
  <2>. HIDE DEF K
  <2>1. K \in Int /\ 1 \in Int
    BY <1>1
  <2>2. IsFiniteSet(1..K) /\ Cardinality(1..K) = IF 1 > K THEN 0 ELSE K - 1 + 1
    BY <2>1, FS_Interval
  <2>. QED BY <1>1, <2>2
<1>5. ASSUME NEW k \in 1..K
      PROVE  /\ R[k].node = m.nodes[s[k]] /\ R[k].job = m.jobs[k]
             /\ R[k] = [node |-> R[k].node, job |-> R[k].job]
             /\ R[k].node \in Nodes /\ R[k].job \in Jobs
             /\ JobUnits(m)[k] = Outcome[R[k].job].units /\ JobUnits(m)[k] \in Nat
  <2>1. R[k] = [node |-> m.nodes[s[k]], job |-> m.jobs[k]]
    BY DEF ResultsTo
  <2>2. m.nodes[s[k]] \in Nodes /\ m.jobs[k] \in Jobs
    BY <1>1, ResultAppended
  <2>3. JobUnits(m)[k] = Outcome[m.jobs[k]].units
    BY DEF JobUnits
  <2>4. Outcome[m.jobs[k]].units \in Nat
    BY <2>2, OutcomeTyped
  <2>5. R[k].node = m.nodes[s[k]] /\ R[k].job = m.jobs[k]
    BY <2>1
  <2>. HIDE DEF R, K
  <2>. QED BY <2>1, <2>2, <2>3, <2>4, <2>5
<1>. QED BY <1>1, <1>2, <1>3, <1>4, <1>5

LEMMA ReceiptsAreJobs ==
    ASSUME NEW m, NEW s, FirstRunOf(m, s)
    PROVE  LET R == ResultsTo(m, s, Len(m.jobs))
               b == JobOf(m)
           IN /\ \A r \in receipts : /\ b[r] \in 1..Len(m.jobs)
                                     /\ r.node = R[b[r]].node /\ r.job = R[b[r]].job
              /\ \A q, r \in receipts : b[q] = b[r] => q = r
              /\ \A k \in 1..Len(m.jobs) : \E r \in receipts : b[r] = k
<1>. DEFINE K == Len(m.jobs)
            N == Len(m.nodes)
            R == ResultsTo(m, s, K)
            b == JobOf(m)
            A(k) == [id |-> N + k, node |-> m.nodes[s[k]], job |-> m.jobs[k]]
<1>. USE DEF FirstRunOf
<1>1. /\ K \in Nat /\ N \in Nat /\ DOMAIN m.jobs = 1..K
      /\ \A k \in 1..K : R[k].node = m.nodes[s[k]] /\ R[k].job = m.jobs[k]
  BY ResultFields
<1>2. dispatchLog.assigned = {A(k) : k \in 1..K}
  BY <1>1 DEF Batch
<1>3. /\ Keyed(receipts) /\ \A r \in receipts : Origin(r) \in dispatchLog.assigned
      /\ \A a \in dispatchLog.assigned : \E r \in receipts : Origin(r) = a
  BY FirstRunFacts
<1>4. ASSUME NEW r \in receipts
      PROVE  /\ b[r] \in 1..K /\ r.assignment = N + b[r]
             /\ r.node = R[b[r]].node /\ r.job = R[b[r]].job
  <2>1. PICK k \in 1..K : Origin(r) = A(k)
    BY <1>2, <1>3
  <2>2. r.assignment = N + k /\ r.node = m.nodes[s[k]] /\ r.job = m.jobs[k]
    BY <2>1 DEF Origin
  <2>3. b[r] = k
    BY <1>1, <2>2 DEF JobOf
  <2>. HIDE DEF b, R, K, N
  <2>. QED BY <1>1, <2>2, <2>3
<1>5. ASSUME NEW q \in receipts, NEW r \in receipts, b[q] = b[r] PROVE q = r
  <2>1. q.assignment = r.assignment
    <3>. HIDE DEF b
    <3>. QED BY <1>4, <1>5
  <2>. QED BY <1>3, <2>1 DEF Keyed
<1>6. ASSUME NEW k \in 1..K PROVE \E r \in receipts : b[r] = k
  <2>1. PICK r \in receipts : Origin(r) = A(k)
    BY <1>2, <1>3
  <2>2. r.assignment = N + k
    BY <2>1 DEF Origin
  <2>3. b[r] = k
    BY <1>1, <2>2 DEF JobOf
  <2>. QED BY <2>3
<1>. QED BY <1>4, <1>5, <1>6

(* Receipts and the jobs they are of: as many, and worth as much. *)
LEMMA CountForetold ==
    ASSUME NEW m, NEW s, FirstRunOf(m, s), NEW X \in SUBSET receipts,
           NEW Y \in SUBSET (1..Len(m.jobs)),
           \A r \in receipts : r \in X <=> JobOf(m)[r] \in Y
    PROVE  /\ Cardinality(X) = Cardinality(Y)
           /\ SumFunctionOnSet(Gains, X) = SumFunctionOnSet(JobUnits(m), Y)
<1>. DEFINE b == JobOf(m)
            R == ResultsTo(m, s, Len(m.jobs))
<1>1. /\ IsFiniteSet(X) /\ \A r \in X : r \in receipts /\ Gains[r] \in Nat /\ Gains[r] = Earned(r)
  BY GainsTyped, FS_Subset DEF FirstRunOf
<1>2. \A r \in receipts : b[r] \in 1..Len(m.jobs) /\ r.job = R[b[r]].job
  BY ReceiptsAreJobs
<1>3. /\ \A r \in X : b[r] \in Y
      /\ \A q, r \in X : b[q] = b[r] => q = r
      /\ \A k \in Y : \E r \in X : b[r] = k
  BY ReceiptsAreJobs
<1>4. ASSUME NEW r \in X PROVE JobUnits(m)[b[r]] = Gains[r]
  <2>1. b[r] \in 1..Len(m.jobs) /\ r.job = R[b[r]].job
    BY <1>2
  <2>2. JobUnits(m)[b[r]] = Outcome[R[b[r]].job].units
    <3>. HIDE DEF b
    <3>. QED BY <2>1, ResultFields DEF FirstRunOf
  <2>. QED BY <1>1, <2>1, <2>2 DEF Earned
<1>5. PICK c : c = b
  OBVIOUS
<1>6. PICK g : g = JobUnits(m)
  OBVIOUS
<1>7. PICK Z : Z = Y
  OBVIOUS
<1>. HIDE DEF b, R
<1>8. IsFiniteSet(X) /\ \A x \in X : c[x] \in Z
  BY <1>1, <1>3, <1>5, <1>7
<1>9. \A x \in X : c[x] \in Z /\ Gains[x] \in Nat /\ g[c[x]] = Gains[x]
  BY <1>1, <1>4, <1>5, <1>6, <1>8
<1>10. \A x, y \in X : c[x] = c[y] => x = y
  BY <1>3, <1>5
<1>11. \A y \in Z : \E x \in X : c[x] = y
  BY <1>3, <1>5, <1>7
<1>12. Cardinality(X) = Cardinality(Z)
  BY <1>8, <1>10, <1>11, CountAlong
<1>13. SumFunctionOnSet(Gains, X) = SumFunctionOnSet(g, Z)
  BY <1>8, <1>9, <1>10, <1>11, SumAlong
<1>. QED BY <1>6, <1>7, <1>12, <1>13

(* The units of some results are those of their jobs. *)
LEMMA UnitsOfJobs ==
    ASSUME NEW m \in Manifests, NEW s \in Schedules(m), NEW own \in SUBSET (1..Len(m.jobs))
    PROVE  /\ UnitsOfRecords(ResultsTo(m, s, Len(m.jobs)), own) =
                  SumFunctionOnSet(JobUnits(m), own)
           /\ SumFunctionOnSet(JobUnits(m), own) \in Nat
<1>. DEFINE R == ResultsTo(m, s, Len(m.jobs))
            f == [i \in own |-> Outcome[R[i].job].units]
<1>1. UnitsOfRecords(R, own) = SumFunctionOnSet(f, own)
  BY Zenon DEF UnitsOfRecords, SumFunction
<1>2. IsFiniteSet(own)
  BY ResultFields, FS_Subset
<1>3. \A i \in own : JobUnits(m)[i] \in Nat /\ f[i] = JobUnits(m)[i]
  <2>1. \A i \in own : JobUnits(m)[i] \in Nat /\ Outcome[R[i].job].units = JobUnits(m)[i]
    <3>. HIDE DEF R
    <3>. QED BY ResultFields DEF R
  <2>. HIDE DEF R
  <2>. QED BY <2>1
<1>4. SumFunctionOnSet(JobUnits(m), own) = SumFunctionOnSet(f, own)
  <2>. HIDE DEF f
  <2>. QED BY <1>2, <1>3, SumSame
<1>5. SumFunctionOnSet(JobUnits(m), own) \in Nat
  BY <1>2, <1>3, SumTyped
<1>. QED BY <1>1, <1>4, <1>5

LEMMA ForetoldLedger ==
    ASSUME NEW m, NEW s, FirstRunOf(m, s)
    PROVE  ledger = LedgerOf(ResultsTo(m, s, Len(m.jobs)))
<1>. DEFINE R == ResultsTo(m, s, Len(m.jobs))
            At(n, j) == {i \in DOMAIN R : R[i] = [node |-> n, job |-> j]}
<1>1. ledger \in [Nodes -> [Jobs -> Nat]]
  BY OnceParts DEF FirstRunOf, ArtifactInv, TypeOK
<1>2. ASSUME NEW n \in Nodes, NEW j \in Jobs PROVE ledger[n][j] = Cardinality(At(n, j))
  <2>. DEFINE X == {r \in receipts : r.node = n /\ r.job = j}
  <2>1. ledger[n][j] = Cardinality(X)
    BY FirstRunFacts DEF FirstRunOf, Claims
  <2>2. /\ DOMAIN R = 1..Len(m.jobs)
        /\ \A k \in 1..Len(m.jobs) : R[k] = [node |-> R[k].node, job |-> R[k].job]
    BY ResultFields DEF FirstRunOf
  <2>3. \A r \in receipts : /\ JobOf(m)[r] \in 1..Len(m.jobs)
                            /\ r.node = R[JobOf(m)[r]].node /\ r.job = R[JobOf(m)[r]].job
    BY ReceiptsAreJobs
  <2>. HIDE DEF R
  <2>4. \A k \in 1..Len(m.jobs) : k \in At(n, j) <=> R[k].node = n /\ R[k].job = j
    BY <2>2
  <2>5. At(n, j) \in SUBSET (1..Len(m.jobs)) /\ X \in SUBSET receipts
    BY <2>2
  <2>6. \A r \in receipts : r \in X <=> JobOf(m)[r] \in At(n, j)
    <3>. HIDE DEF At
    <3>. QED BY <2>3, <2>4
  <2>7. Cardinality(X) = Cardinality(At(n, j))
    <3>. HIDE DEF At, X
    <3>. QED BY <2>5, <2>6, CountForetold
  <2>. QED BY <2>1, <2>7
<1>3. ledger = [n \in Nodes |-> [j \in Jobs |-> Cardinality(At(n, j))]]
  <2>. HIDE DEF At
  <2>1. \A n \in Nodes : ledger[n] = [j \in Jobs |-> Cardinality(At(n, j))]
    <3>1. \A n \in Nodes : ledger[n] = [j \in Jobs |-> ledger[n][j]]
      BY <1>1
    <3>. QED BY <1>2, <3>1
  <2>2. ledger = [n \in Nodes |-> ledger[n]]
    BY <1>1
  <2>. QED BY <2>1, <2>2
<1>. QED BY <1>3, Zenon DEF LedgerOf

(* A node's own results are its assignments, and their units those of its  *)
(* receipts.                                                               *)
LEMMA ForetoldNode ==
    ASSUME NEW m, NEW s, FirstRunOf(m, s), NEW n \in Nodes
    PROVE  LET own == Own(ResultsTo(m, s, Len(m.jobs)), n)
           IN /\ own \in SUBSET (1..Len(m.jobs))
              /\ Cardinality(own) = Cardinality({a \in dispatchLog.assigned : a.node = n})
              /\ SumFunctionOnSet(JobUnits(m), own) = Aggregate.byNode[n]
<1>. DEFINE K == Len(m.jobs)
            N == Len(m.nodes)
            R == ResultsTo(m, s, K)
            own == Own(R, n)
            A(k) == [id |-> N + k, node |-> m.nodes[s[k]], job |-> m.jobs[k]]
            Assigned == {a \in dispatchLog.assigned : a.node = n}
<1>1. /\ K \in Nat /\ N \in Nat /\ DOMAIN m.jobs = 1..K /\ DOMAIN R = 1..K /\ IsFiniteSet(1..K)
      /\ \A k \in 1..K : R[k].node = m.nodes[s[k]]
  BY ResultFields DEF FirstRunOf
<1>2. own = {k \in 1..K : R[k].node = n}
  BY <1>1 DEF Own
<1>3. Cardinality(own) = Cardinality(Assigned)
  <2>1. dispatchLog.assigned = {A(k) : k \in 1..K}
    BY <1>1 DEF Batch, FirstRunOf
  <2>2. PICK c : c = [k \in own |-> A(k)]
    OBVIOUS
  <2>3. IsFiniteSet(own)
    BY <1>1, <1>2, FS_Subset
  <2>4. \A k \in own : c[k] = A(k) /\ A(k).node = n /\ A(k).id = N + k /\ k \in 1..K
    BY <1>1, <1>2, <2>2
  <2>5. \A k \in own : c[k] \in Assigned
    BY <2>1, <2>4
  <2>6. \A h, k \in own : c[h] = c[k] => h = k
    <3>1. \A k \in own : c[k].id = N + k /\ k \in Nat
      <4>1. \A k \in own : c[k].id = A(k).id /\ A(k).id = N + k /\ k \in 1..K
        BY <2>4
      <4>. HIDE DEF own, N, K, A
      <4>. QED BY <1>1, <4>1
    <3>2. \A h, k \in own : c[h] = c[k] => c[h].id = c[k].id
      OBVIOUS
    <3>. HIDE DEF own, N, K, A
    <3>. QED BY <1>1, <3>1, <3>2
  <2>7. \A a \in Assigned : \E k \in own : c[k] = a
    <3>1. SUFFICES ASSUME NEW a \in Assigned PROVE \E k \in own : c[k] = a
      OBVIOUS
    <3>2. PICK k \in 1..K : a = A(k)
      BY <2>1
    <3>3. R[k].node = n
      BY <1>1, <3>2
    <3>4. k \in own
      BY <1>2, <3>3
    <3>. QED BY <2>4, <3>2, <3>4
  <2>8. PICK S, T : S = own /\ T = Assigned
    OBVIOUS
  <2>. HIDE DEF own, Assigned
  <2>9. /\ \A k \in S : c[k] \in T
        /\ \A h, k \in S : c[h] = c[k] => h = k
        /\ \A a \in T : \E k \in S : c[k] = a
    BY <2>5, <2>6, <2>7, <2>8
  <2>10. IsFiniteSet(S)
    BY <2>3, <2>8
  <2>11. Cardinality(S) = Cardinality(T)
    BY <2>9, <2>10, CountAlong
  <2>. QED BY <2>8, <2>11
<1>4. SumFunctionOnSet(Gains, ReceiptsOf(n)) = SumFunctionOnSet(JobUnits(m), own)
  <2>1. \A r \in receipts : JobOf(m)[r] \in 1..K /\ r.node = R[JobOf(m)[r]].node
    BY ReceiptsAreJobs
  <2>2. \A r \in receipts : r \in ReceiptsOf(n) <=> JobOf(m)[r] \in own
    <3>. HIDE DEF own, R
    <3>. QED BY <1>2, <2>1 DEF ReceiptsOf
  <2>3. ReceiptsOf(n) \in SUBSET receipts /\ own \in SUBSET (1..K)
    BY <1>2 DEF ReceiptsOf
  <2>. HIDE DEF own
  <2>. QED BY <2>2, <2>3, CountForetold
<1>5. Aggregate.byNode[n] = SumFunctionOnSet(Gains, ReceiptsOf(n))
  BY AggregateGains DEF FirstRunOf
<1>6. own \in SUBSET (1..K)
  BY <1>2
<1>. QED BY <1>3, <1>4, <1>5, <1>6

LEMMA ForetoldUnits ==
    ASSUME NEW m, NEW s, FirstRunOf(m, s)
    PROVE  LET R == ResultsTo(m, s, Len(m.jobs))
           IN Aggregate.units = SumFunction([i \in DOMAIN m.nodes |->
                                                UnitsOfRecords(R, Own(R, m.nodes[i]))])
<1>. DEFINE K == Len(m.jobs)
            R == ResultsTo(m, s, K)
            T == DOMAIN m.nodes
            F == [i \in T |-> SumFunctionOnSet(JobUnits(m), {k \in 1..K : s[k] = i})]
            G == [i \in T |-> UnitsOfRecords(R, Own(R, m.nodes[i]))]
<1>1. /\ K \in Nat /\ DOMAIN m.jobs = 1..K /\ DOMAIN R = 1..K /\ IsFiniteSet(1..K)
      /\ \A k \in 1..K : R[k].node = m.nodes[s[k]] /\ JobUnits(m)[k] \in Nat
  BY ResultFields DEF FirstRunOf
<1>2. m \in Manifests /\ s \in Schedules(m) /\ s \in [1..K -> T] /\ Distinct(m.nodes)
  BY <1>1, ManifestFields DEF FirstRunOf, Schedules
<1>3. IsFiniteSet(T)
  <2>1. Len(m.nodes) \in Int /\ 1 \in Int /\ T = 1..Len(m.nodes)
    BY <1>2, ManifestFields
  <2>. QED BY <2>1, FS_Interval
<1>4. Aggregate.units = SumFunctionOnSet(JobUnits(m), 1..K)
  <2>1. \A r \in receipts : r \in receipts <=> JobOf(m)[r] \in 1..K
    BY ReceiptsAreJobs
  <2>2. SumFunctionOnSet(Gains, receipts) = SumFunctionOnSet(JobUnits(m), 1..K)
    BY <2>1, CountForetold
  <2>. QED BY <2>2, AggregateGains DEF FirstRunOf
<1>5. SumFunctionOnSet(JobUnits(m), 1..K) = SumFunctionOnSet(F, T)
  <2>1. PICK p, S : p = s /\ S = 1..K
    OBVIOUS
  <2>2. \A k \in S : JobUnits(m)[k] \in Nat /\ p[k] \in T
    BY <1>1, <1>2, <2>1
  <2>3. IsFiniteSet(S)
    BY <1>1, <2>1
  <2>4. SumFunctionOnSet(JobUnits(m), S) =
            SumFunctionOnSet([i \in T |-> SumFunctionOnSet(JobUnits(m), {k \in S : p[k] = i})], T)
    <3>. HIDE DEF T
    <3>. QED BY <1>3, <2>2, <2>3, SumByParts
  <2>. QED BY <2>1, <2>4
<1>6. ASSUME NEW i \in T PROVE F[i] \in Nat /\ G[i] = F[i]
  <2>1. Own(R, m.nodes[i]) = {k \in 1..K : s[k] = i}
    <3>1. \A k \in 1..K : R[k].node = m.nodes[i] <=> s[k] = i
      <4>1. \A k \in 1..K : s[k] \in T /\ R[k].node = m.nodes[s[k]]
        BY <1>1, <1>2
      <4>2. \A h \in T : m.nodes[h] = m.nodes[i] => h = i
        BY <1>2 DEF Distinct
      <4>. HIDE DEF R, T, K
      <4>. QED BY <4>1, <4>2
    <3>. HIDE DEF R, K
    <3>. QED BY <1>1, <3>1 DEF Own
  <2>2. {k \in 1..K : s[k] = i} \in SUBSET (1..K)
    OBVIOUS
  <2>3. F[i] = SumFunctionOnSet(JobUnits(m), {k \in 1..K : s[k] = i})
    OBVIOUS
  <2>4. G[i] = UnitsOfRecords(R, {k \in 1..K : s[k] = i})
    BY <2>1
  <2>. HIDE DEF F, G
  <2>. QED BY <1>2, <2>2, <2>3, <2>4, UnitsOfJobs
<1>7. SumFunctionOnSet(F, T) = SumFunctionOnSet(G, T)
  <2>. HIDE DEF F, G, T
  <2>. QED BY <1>3, <1>6, SumSame
<1>8. SumFunction(G) = SumFunctionOnSet(G, T)
  BY Zenon DEF SumFunction
<1>. QED BY <1>4, <1>5, <1>7, <1>8

(* The receipts with an outcome of some kind are as many as the results. *)
ReceiptsIn(kind) == {r \in receipts : r.job \in kind}
ResultsIn(R, kind) == {i \in DOMAIN R : R[i].job \in kind}

LEMMA ForetoldCounts ==
    ASSUME NEW m, NEW s, FirstRunOf(m, s), NEW kind \in SUBSET Jobs
    PROVE  Cardinality(ReceiptsIn(kind)) =
               Cardinality(ResultsIn(ResultsTo(m, s, Len(m.jobs)), kind))
<1>. DEFINE R == ResultsTo(m, s, Len(m.jobs))
            X == {r \in receipts : r.job \in kind}
            Y == {i \in DOMAIN R : R[i].job \in kind}
<1>1. DOMAIN R = 1..Len(m.jobs)
  BY ResultFields DEF FirstRunOf
<1>2. \A r \in receipts : JobOf(m)[r] \in 1..Len(m.jobs) /\ r.job = R[JobOf(m)[r]].job
  BY ReceiptsAreJobs
<1>. HIDE DEF R
<1>3. X \in SUBSET receipts /\ Y \in SUBSET (1..Len(m.jobs))
  BY <1>1
<1>4. \A r \in receipts : r \in X <=> JobOf(m)[r] \in Y
  BY <1>1, <1>2
<1>5. Cardinality(X) = Cardinality(Y)
  <2>. HIDE DEF X, Y
  <2>. QED BY <1>3, <1>4, CountForetold
<1>. QED BY <1>5 DEF R, ReceiptsIn, ResultsIn

LEMMA ForetoldTotals ==
    ASSUME NEW m, NEW s, FirstRunOf(m, s)
    PROVE  LET R == ResultsTo(m, s, Len(m.jobs))
           IN /\ Len(R) = Aggregate.receipts
              /\ Ended(R, DOMAIN R, "failed") = Aggregate.validations.failed
              /\ ValidationSummary(R).valid = Aggregate.validations.valid
              /\ ValidationSummary(R).invalid = Aggregate.validations.invalid
<1>. DEFINE R == ResultsTo(m, s, Len(m.jobs))
            Failed == {j \in Jobs : Outcome[j].status = "failed"}
            Valid == {j \in Jobs : Outcome[j].valid}
            Invalid == {j \in Jobs : ~Outcome[j].valid}
<1>1. /\ Len(R) = Cardinality(1..Len(m.jobs))
      /\ \A i \in DOMAIN R : R[i].job \in Jobs
  BY ResultFields DEF FirstRunOf
<1>2. \A r \in receipts : r.job \in Jobs
  BY GainsTyped DEF FirstRunOf
<1>3. \A kind \in SUBSET Jobs : Cardinality(ReceiptsIn(kind)) = Cardinality(ResultsIn(R, kind))
  BY ForetoldCounts
<1>4. \A j \in Jobs : Outcome[j].status = "failed" <=> Outcome[j].status # "completed"
  BY OutcomeTyped
<1>5. Cardinality(receipts) = Cardinality(1..Len(m.jobs))
  <2>1. \A r \in receipts : r \in receipts <=> JobOf(m)[r] \in 1..Len(m.jobs)
    BY ReceiptsAreJobs
  <2>. QED BY <2>1, CountForetold
<1>. HIDE DEF R
<1>6. Ended(R, DOMAIN R, "failed") = Aggregate.validations.failed
  <2>1. ResultsIn(R, Failed) = {i \in DOMAIN R : Outcome[R[i].job].status = "failed"}
    BY <1>1 DEF ResultsIn
  <2>2. ReceiptsIn(Failed) = {r \in receipts : Outcome[r.job].status # "completed"}
    BY <1>2, <1>4 DEF ReceiptsIn
  <2>3. Cardinality(ReceiptsIn(Failed)) = Cardinality(ResultsIn(R, Failed))
    BY <1>3
  <2>. QED BY <2>1, <2>2, <2>3 DEF Ended, Aggregate, ValidationTotals
<1>7. ValidationSummary(R).valid = Aggregate.validations.valid
  <2>1. ResultsIn(R, Valid) = {i \in DOMAIN R : Outcome[R[i].job].valid}
    BY <1>1 DEF ResultsIn
  <2>2. ReceiptsIn(Valid) = {r \in receipts : Outcome[r.job].valid}
    BY <1>2 DEF ReceiptsIn
  <2>3. Cardinality(ReceiptsIn(Valid)) = Cardinality(ResultsIn(R, Valid))
    BY <1>3
  <2>. QED BY <2>1, <2>2, <2>3 DEF ValidationSummary, Aggregate, ValidationTotals
<1>8. ValidationSummary(R).invalid = Aggregate.validations.invalid
  <2>1. ResultsIn(R, Invalid) = {i \in DOMAIN R : ~Outcome[R[i].job].valid}
    BY <1>1 DEF ResultsIn
  <2>2. ReceiptsIn(Invalid) = {r \in receipts : ~Outcome[r.job].valid}
    BY <1>2 DEF ReceiptsIn
  <2>3. Cardinality(ReceiptsIn(Invalid)) = Cardinality(ResultsIn(R, Invalid))
    BY <1>3
  <2>. QED BY <2>1, <2>2, <2>3 DEF ValidationSummary, Aggregate, ValidationTotals
<1>9. Len(R) = Aggregate.receipts
  BY <1>1, <1>5 DEF Aggregate
<1>. QED BY <1>6, <1>7, <1>8, <1>9 DEF R

LEMMA Foretold ==
    ASSUME ArtifactInv, FirstRun, NEW m \in used
    PROVE  ForetoldBy(m)
<1>1. m \in Manifests /\ dispatchLog \in BatchesOf(m)
  BY FirstRunFacts
<1>2. PICK s \in Schedules(m) : dispatchLog = Batch(m, s)
  BY <1>1 DEF BatchesOf
<1>3. FirstRunOf(m, s)
  BY <1>1, <1>2 DEF FirstRunOf
<1>4. PICK R : R = ResultsTo(m, s, Len(m.jobs))
  OBVIOUS
<1>5. Simulated(m).records = R /\ Simulated(m).results = R
  BY <1>1, <1>4, SimulationResults
<1>6. ledger = LedgerOf(Simulated(m).records) /\ ledger = BatchLedger(m)
  <2>1. ledger = LedgerOf(R)
    BY <1>3, <1>4, ForetoldLedger
  <2>. QED BY <1>5, <2>1 DEF BatchLedger
<1>7. \A n \in Nodes : NodeSummary(R, n).units = UnitsOfRecords(R, Own(R, n))
  BY DEF NodeSummary
<1>8. ASSUME NEW n \in Nodes
      PROVE  /\ NodeRoster(m)[n].assigned = Cardinality({a \in dispatchLog.assigned : a.node = n})
             /\ NodeRoster(m)[n].units = Aggregate.byNode[n]
  <2>1. NodeRoster(m)[n] = [assigned |-> Cardinality(Own(R, n)),
                            units |-> UnitsOfRecords(R, Own(R, n))]
    BY <1>5, <1>7 DEF NodeRoster
  <2>2. /\ Own(R, n) \in SUBSET (1..Len(m.jobs))
        /\ Cardinality(Own(R, n)) = Cardinality({a \in dispatchLog.assigned : a.node = n})
        /\ SumFunctionOnSet(JobUnits(m), Own(R, n)) = Aggregate.byNode[n]
    BY <1>3, <1>4, ForetoldNode
  <2>3. UnitsOfRecords(R, Own(R, n)) = SumFunctionOnSet(JobUnits(m), Own(R, n))
    BY <1>1, <1>4, <2>2, UnitsOfJobs
  <2>. QED BY <2>1, <2>2, <2>3
<1>9. SimulationTotals(m).units = Aggregate.units
  <2>1. SimulationTotals(m).units =
            SumFunction([i \in DOMAIN m.nodes |-> NodeSummary(R, m.nodes[i]).units])
    BY <1>5 DEF SimulationTotals
  <2>2. \A i \in DOMAIN m.nodes :
            NodeSummary(R, m.nodes[i]).units = UnitsOfRecords(R, Own(R, m.nodes[i]))
    BY DEF NodeSummary
  <2>3. [i \in DOMAIN m.nodes |-> NodeSummary(R, m.nodes[i]).units] =
        [i \in DOMAIN m.nodes |-> UnitsOfRecords(R, Own(R, m.nodes[i]))]
    BY <2>2, Zenon
  <2>4. Aggregate.units = SumFunction([i \in DOMAIN m.nodes |->
                                          UnitsOfRecords(R, Own(R, m.nodes[i]))])
    BY <1>3, <1>4, ForetoldUnits
  <2>. QED BY <2>1, <2>3, <2>4
<1>10. /\ SimulationTotals(m).results = Aggregate.receipts
       /\ SimulationTotals(m).failed = Aggregate.validations.failed
       /\ SimulationTotals(m).validations.valid = Aggregate.validations.valid
       /\ SimulationTotals(m).validations.invalid = Aggregate.validations.invalid
  <2>1. /\ SimulationTotals(m).results = Len(R)
        /\ SimulationTotals(m).failed = Ended(R, DOMAIN R, "failed")
        /\ SimulationTotals(m).validations = ValidationSummary(R)
    BY <1>5 DEF SimulationTotals
  <2>. QED BY <1>3, <1>4, <2>1, ForetoldTotals
<1>. QED BY <1>6, <1>8, <1>9, <1>10 DEF ForetoldBy

-----------------------------------------------------------------------------
LEMMA AggregatesImplied ==
    ASSUME ArtifactInv
    PROVE  AggregatesAgree
<1>1. ASSUME done, runs = 1 PROVE AuditAccepts /\ \A m \in used : ForetoldBy(m)
  BY <1>1, FirstRunAudited, Foretold DEF FirstRun
<1>. QED BY <1>1, CompletedReplays, AuditedTotals DEF AggregatesAgree

(* For any manifests, outcomes, reruns and crashes: a first run that was   *)
(* not cut short passes audit-local-flow and leaves the ledger, the roster *)
(* and the totals that run_local_simulation computes for its batch; what a *)
(* completed run reported can be validated again with the same verdicts;   *)
(* and whenever the audit accepts the artifacts, aggregate-local-flow      *)
(* totals the ledger.                                                      *)
THEOREM FlowAggregatesAgree == Spec => []AggregatesAgree
<1>1. Init => ArtifactInv
  BY InitArtifact
<1>2. ArtifactInv /\ [Next]_vars => ArtifactInv'
  BY ArtifactNext
<1>3. ArtifactInv => AggregatesAgree
  BY AggregatesImplied
<1>. QED BY <1>1, <1>2, <1>3, PTL DEF Spec
=============================================================================
