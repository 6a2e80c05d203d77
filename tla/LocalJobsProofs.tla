--------------------------- MODULE LocalJobsProofs ---------------------------
(***************************************************************************)
(* What LocalJobs guarantees however calls interleave and stop: proved for *)
(* every number of jobs, callers, workers and requests and every bound,    *)
(* Serialized or not.  In order: types; records, their trail and their     *)
(* manifest; the evidence of execution; the read-only calls; and last what *)
(* is guaranteed of calls made one at a time, the refinement included.     *)
(***************************************************************************)
EXTENDS LocalJobsProperties, TLAPS

USE LocalJobsAssumption DEF LocalJobsAssumption

(***************************************************************************)
(* Type correctness.  TypeOK alone is not inductive: what a step writes    *)
(* comes from the call's own fields, so the strengthening says which of    *)
(* them are set at each step.                                              *)
(***************************************************************************)
SubmitSteps == {"create", "logSubmission", "removeManifest", "existing", "retry",
                "createRecord"}
ReportSteps == {"storeResult", "storeReceipt", "logReceipt", "checkReport", "logReport"}
FinishSteps == {"checkFinish", "logFinish"}
TransitionSteps == {"readRecord", "appendState", "writeRecord"}

CallShape(k) ==
    /\ k.pc # "idle" => k.job \in Jobs
    /\ k.pc \in SubmitSteps => k.req \in Requests /\ k.outcome = None
    /\ k.pc \in {"logStart", "run"} => k.by \in Workers /\ k.outcome = None
    /\ k.pc = "run" => k.req \in Requests
    /\ k.pc \in ReportSteps => k.outcome \in RunOutcomes
    /\ k.pc \in FinishSteps => k.outcome \in Outcomes
    /\ k.outcome \in RunOutcomes => k.by \in Workers /\ k.req \in Requests
    /\ k.pc \in TransitionSteps =>
          \/ k.target = "queued" /\ k.req \in Requests /\ k.outcome = None
          \/ k.target = "running" /\ k.by \in Workers /\ k.req \in Requests /\ k.outcome = None
          \/ k.outcome \in Outcomes /\ k.target = TerminalState(k.outcome)
    /\ k.pc \in {"appendState", "writeRecord"} =>
          /\ k.seen \in Records
          /\ k.seen.evidence = None
          /\ <<k.seen.status, k.target>> \in Transitions

RecordShape(rec) == rec # None /\ rec.status \notin {"succeeded", "failed"} => rec.evidence = None

Shape ==
    /\ \A c \in Callers : CallShape(call[c])
    /\ \A j \in Jobs : RecordShape(record[j])

TypeInv == TypeOK /\ Shape

LEMMA InitTypeInv == Init => TypeInv
  BY DEF Init, TypeInv, TypeOK, Shape, CallShape, RecordShape, Idle, NewCall, Calls, Steps,
     SubmitSteps, ReportSteps, FinishSteps, TransitionSteps, RunOutcomes, Outcomes

(* A step that changes one caller's call and one job's record keeps Shape  *)
(* when the new call and the new record have it.                           *)
LEMMA ShapeFrame ==
    ASSUME TypeInv, NEW c \in Callers, NEW k \in Calls,
           call' = [call EXCEPT ![c] = k], CallShape(k),
           \A j \in Jobs : record'[j] = record[j] \/ RecordShape(record'[j])
    PROVE  /\ call' \in [Callers -> Calls]
           /\ Shape'
<1>1. call' \in [Callers -> Calls]
  BY DEF TypeInv, TypeOK
<1>2. ASSUME NEW d \in Callers PROVE CallShape(call[d])'
  <2>1. CallShape(call[d])
    BY DEF TypeInv, Shape
  <2>2. call'[d] = call[d] \/ call'[d] = k
    BY DEF TypeInv, TypeOK
  <2>. QED BY <2>1, <2>2 DEF CallShape
<1>3. ASSUME NEW j \in Jobs PROVE RecordShape(record[j])'
  BY DEF TypeInv, Shape, RecordShape
<1>. QED BY <1>1, <1>2, <1>3 DEF Shape

LEMMA IdleShape == Idle \in Calls /\ CallShape(Idle)
  BY DEF Idle, NewCall, Calls, CallShape, Steps, SubmitSteps, ReportSteps, FinishSteps,
     TransitionSteps, RunOutcomes, Outcomes

LEMMA GotoShape ==
    ASSUME TypeInv, NEW c \in Callers, NEW step \in Steps, Goto(c, step),
           CallShape([call[c] EXCEPT !.pc = step]),
           \A j \in Jobs : record'[j] = record[j] \/ RecordShape(record'[j])
    PROVE  call' \in [Callers -> Calls] /\ Shape'
<1> DEFINE k == [call[c] EXCEPT !.pc = step]
<1>0. call[c] \in Calls
  BY DEF TypeInv, TypeOK
<1>1. k \in Calls
  BY <1>0 DEF Calls
<1>2. call' = [call EXCEPT ![c] = k]
  BY DEF Goto
<1>. QED BY <1>1, <1>2, ShapeFrame

LEMMA ReturnShape ==
    ASSUME TypeInv, NEW c \in Callers, Return(c),
           \A j \in Jobs : record'[j] = record[j] \/ RecordShape(record'[j])
    PROVE  call' \in [Callers -> Calls] /\ Shape'
  BY ShapeFrame, IdleShape DEF Return

LEMMA TransitionShape ==
    ASSUME TypeInv, NEW c \in Callers, NEW target \in States, BeginTransition(c, target),
           call[c].pc # "idle",
           \/ target = "queued" /\ call[c].req \in Requests /\ call[c].outcome = None
           \/ call[c].outcome \in Outcomes /\ target = TerminalState(call[c].outcome),
           \A j \in Jobs : record'[j] = record[j] \/ RecordShape(record'[j])
    PROVE  call' \in [Callers -> Calls] /\ Shape'
<1> DEFINE k == [call[c] EXCEPT !.pc = "readRecord", !.target = target]
<1>0. call[c] \in Calls /\ CallShape(call[c])
  BY DEF TypeInv, TypeOK, Shape
<1>1. k \in Calls
  BY <1>0 DEF Calls, Steps
<1>2. call' = [call EXCEPT ![c] = k]
  BY <1>0 DEF BeginTransition, Calls
<1>3. CallShape(k)
  BY <1>0 DEF CallShape, Calls, SubmitSteps, ReportSteps, FinishSteps, TransitionSteps
<1>. QED BY <1>1, <1>2, <1>3, ShapeFrame

LEMMA HoldShape ==
    ASSUME TypeInv, NEW c \in Callers, HoldManifest(c), At(c, "logStart"),
           manifest[call[c].job] # None, UNCHANGED record
    PROVE  call' \in [Callers -> Calls] /\ Shape'
<1> DEFINE m == manifest[call[c].job]
           k == [call[c] EXCEPT !.pc = "readRecord", !.target = "running", !.req = m]
<1>0. call[c] \in Calls /\ CallShape(call[c]) /\ call[c].pc = "logStart"
  BY DEF TypeInv, TypeOK, Shape, At
<1>1. m \in Requests
  BY <1>0 DEF TypeInv, TypeOK, CallShape
<1>2. call' = [call EXCEPT ![c] = k]
  BY <1>0 DEF HoldManifest, Calls
<1>. HIDE DEF m
<1>3. k \in Calls
  BY <1>0, <1>1 DEF Calls, Steps, States
<1>4. CallShape(k)
  BY <1>0, <1>1 DEF CallShape, Calls, SubmitSteps, ReportSteps, FinishSteps, TransitionSteps,
     RunOutcomes
<1>. HIDE DEF k
<1>. QED BY <1>2, <1>3, <1>4, ShapeFrame

LEMMA TerminalStateType ==
    ASSUME NEW o \in Outcomes
    PROVE  TerminalState(o) \in Terminal
  BY DEF TerminalState, Outcomes, RunOutcomes, Terminal

LEMMA LogType ==
    ASSUME TypeOK, NEW j \in Jobs, NEW type, NEW by, NEW outcome, Log(j, type, by, outcome),
           [type |-> type, by |-> by, outcome |-> outcome] \in Events
    PROVE  audit' \in [Jobs -> Seq(Events)]
<1> DEFINE e == [type |-> type, by |-> by, outcome |-> outcome]
<1>1. e \in Events
  OBVIOUS
<1>2. audit[j] \in Seq(Events)
  BY DEF TypeOK
<1>3. Append(audit[j], e) \in Seq(Events)
  BY <1>1, <1>2
<1>. QED BY <1>3 DEF Log, TypeOK

LEMMA CallTyped ==
    ASSUME TypeInv, NEW c \in Callers, ~At(c, "idle")
    PROVE  call[c] \in Calls /\ CallShape(call[c]) /\ call[c].job \in Jobs
  BY DEF TypeInv, TypeOK, Shape, CallShape, At

(* Moving on with nothing but the program counter changed, towards a step  *)
(* whose demands on the call's fields the present step already meets.      *)
LEMMA NextStepShape ==
    ASSUME NEW k, k \in Calls, CallShape(k), k.pc # "idle", NEW step \in Steps,
           \/ k.pc \in SubmitSteps /\ step \in SubmitSteps
           \/ k.pc \in ReportSteps /\ step \in ReportSteps \cup FinishSteps
           \/ k.pc \in FinishSteps /\ step \in FinishSteps
           \/ k.pc = "appendState" /\ step = "writeRecord"
           \/ k.pc = "writeRecord" /\ step = "run" /\ k.target = "running"
    PROVE  CallShape([k EXCEPT !.pc = step])
<1> DEFINE n == [k EXCEPT !.pc = step]
<1>1. n.pc = step /\ n.job = k.job /\ n.req = k.req /\ n.by = k.by
      /\ n.target = k.target /\ n.seen = k.seen /\ n.outcome = k.outcome
  BY DEF Calls
<1>2. k.pc = "writeRecord" /\ k.target = "running"
        => k.by \in Workers /\ k.req \in Requests /\ k.outcome = None
  BY TerminalStateType DEF CallShape, TransitionSteps, Terminal
<1>. HIDE DEF n
<1>. QED BY <1>1, <1>2 DEF CallShape, SubmitSteps, ReportSteps, FinishSteps, TransitionSteps,
         RunOutcomes, Outcomes

LEMMA GotoKeepsShape ==
    ASSUME TypeInv, NEW c \in Callers, ~At(c, "idle"), NEW step \in Steps, Goto(c, step),
           \/ call[c].pc \in SubmitSteps /\ step \in SubmitSteps
           \/ call[c].pc \in ReportSteps /\ step \in ReportSteps \cup FinishSteps
           \/ call[c].pc \in FinishSteps /\ step \in FinishSteps
           \/ call[c].pc = "appendState" /\ step = "writeRecord"
           \/ call[c].pc = "writeRecord" /\ step = "run" /\ call[c].target = "running",
           \A j \in Jobs : record'[j] = record[j] \/ RecordShape(record'[j])
    PROVE  call' \in [Callers -> Calls] /\ Shape'
<1>1. call[c] \in Calls /\ CallShape(call[c]) /\ call[c].pc # "idle"
  BY CallTyped DEF At
<1>2. CallShape([call[c] EXCEPT !.pc = step])
  BY <1>1, NextStepShape
<1>. QED BY <1>2, GotoShape

(***************************************************************************)
(* Submission.                                                             *)
(***************************************************************************)
LEMMA BeginTyped ==
    ASSUME TypeInv, NEW c \in Callers, Begin(c)
    PROVE  calls' \in 0..MaxCalls
  BY DEF TypeInv, TypeOK, Begin

LEMMA SubmitTypeInv ==
    ASSUME TypeInv, NEW c \in Callers, NEW j \in Jobs, NEW r \in Requests, Submit(c, j, r)
    PROVE  TypeInv'
<1>. DEFINE step == IF manifest[j] = None THEN "create" ELSE "existing"
<1>1. call' = [call EXCEPT ![c] = NewCall(step, j, r, None, None)]
  BY Zenon DEF Submit
<1>2. step \in {"create", "existing"}
  OBVIOUS
<1>. HIDE DEF step
<1>3. CallShape(NewCall(step, j, r, None, None)) /\ NewCall(step, j, r, None, None) \in Calls
  BY <1>2 DEF NewCall, Calls, Steps, CallShape, SubmitSteps, ReportSteps, FinishSteps,
     TransitionSteps, RunOutcomes, Outcomes
<1>4. call' \in [Callers -> Calls] /\ Shape'
  BY <1>1, <1>3, ShapeFrame DEF Submit, disk
<1>. QED BY <1>4, BeginTyped DEF TypeInv, TypeOK, Submit, disk, history

LEMMA CreateManifestTypeInv ==
    ASSUME TypeInv, NEW c \in Callers, CreateManifest(c)
    PROVE  TypeInv'
<1>1. call[c].job \in Jobs /\ call[c].req \in Requests /\ ~At(c, "idle")
  BY CallTyped DEF CreateManifest, At, CallShape, SubmitSteps
<1>2. call' \in [Callers -> Calls] /\ Shape'
  BY <1>1, GotoKeepsShape DEF CreateManifest, At, SubmitSteps, Steps
<1>3. manifest' \in [Jobs -> Requests \cup {None}]
  BY <1>1 DEF TypeInv, TypeOK, CreateManifest
<1>. QED BY <1>2, <1>3 DEF TypeInv, TypeOK, CreateManifest, history

LEMMA LogSubmissionTypeInv ==
    ASSUME TypeInv, NEW c \in Callers, LogSubmission(c)
    PROVE  TypeInv'
<1>1. call[c].job \in Jobs /\ ~At(c, "idle")
  BY CallTyped DEF LogSubmission, At
<1>2. call' \in [Callers -> Calls] /\ Shape'
  BY <1>1, GotoKeepsShape DEF LogSubmission, At, SubmitSteps, Steps
<1>3. audit' \in [Jobs -> Seq(Events)]
  BY <1>1, LogType DEF TypeInv, LogSubmission, Events, SubmissionEvents
<1>. QED BY <1>2, <1>3 DEF TypeInv, TypeOK, LogSubmission, history

LEMMA LogSubmissionFailsTypeInv ==
    ASSUME TypeInv, NEW c \in Callers, LogSubmissionFails(c)
    PROVE  TypeInv'
<1>1. call[c].job \in Jobs /\ ~At(c, "idle")
  BY CallTyped DEF LogSubmissionFails, At
<1>2. call' \in [Callers -> Calls] /\ Shape'
  BY <1>1, GotoKeepsShape DEF LogSubmissionFails, At, SubmitSteps, Steps
<1>3. audit' \in [Jobs -> Seq(Events)]
  <2>1. CASE UNCHANGED audit
    BY <2>1 DEF TypeInv, TypeOK
  <2>2. CASE Log(call[c].job, "submitted", None, None)
    BY <2>2, <1>1, LogType DEF TypeInv, Events, SubmissionEvents
  <2>. QED BY <2>1, <2>2 DEF LogSubmissionFails
<1>. QED BY <1>2, <1>3 DEF TypeInv, TypeOK, LogSubmissionFails, history

LEMMA RemoveManifestTypeInv ==
    ASSUME TypeInv, NEW c \in Callers, RemoveManifest(c)
    PROVE  TypeInv'
<1>1. call[c].job \in Jobs
  BY CallTyped DEF RemoveManifest, At
<1>2. call' \in [Callers -> Calls] /\ Shape'
  BY ReturnShape DEF RemoveManifest
<1>. QED BY <1>1, <1>2 DEF TypeInv, TypeOK, RemoveManifest, history

LEMMA NewRecordTyped == NewRecord \in Records /\ RecordShape(NewRecord)
  BY DEF NewRecord, Records, RecordShape, States

LEMMA CreateRecordTypeInv ==
    ASSUME TypeInv, NEW c \in Callers, CreateRecord(c)
    PROVE  TypeInv'
<1>. DEFINE j == call[c].job
<1>1. j \in Jobs /\ call[c].req \in Requests /\ call[c].outcome = None /\ ~At(c, "idle")
  BY CallTyped DEF CreateRecord, At, CallShape, SubmitSteps
<1>2. CASE record[j] # None
  <2>1. call' \in [Callers -> Calls] /\ Shape'
    BY <1>2, ReturnShape DEF CreateRecord
  <2>. QED BY <1>2, <2>1 DEF TypeInv, TypeOK, CreateRecord, history
<1>3. CASE record[j] = None
  <2>1. record' = [record EXCEPT ![j] = NewRecord] /\ BeginTransition(c, "queued")
    BY <1>3 DEF CreateRecord
  <2>2. record' \in [Jobs -> Records \cup {None}]
    BY <2>1, NewRecordTyped DEF TypeInv, TypeOK
  <2>3. \A i \in Jobs : record'[i] = record[i] \/ RecordShape(record'[i])
    BY <2>1, NewRecordTyped DEF TypeInv, TypeOK
  <2>4. call' \in [Callers -> Calls] /\ Shape'
    BY <1>1, <2>1, <2>3, TransitionShape DEF At, States
  <2>. QED BY <2>2, <2>4 DEF TypeInv, TypeOK, CreateRecord, history
<1>. QED BY <1>2, <1>3

LEMMA CheckExistingTypeInv ==
    ASSUME TypeInv, NEW c \in Callers, CheckExisting(c)
    PROVE  TypeInv'
<1>1. ~At(c, "idle") /\ call[c].pc \in SubmitSteps
  BY DEF CheckExisting, At, SubmitSteps
<1>2. call' \in [Callers -> Calls] /\ Shape'
  <2>1. CASE Goto(c, "retry")
    BY <2>1, <1>1, GotoKeepsShape DEF CheckExisting, SubmitSteps, Steps, disk
  <2>2. CASE Return(c)
    BY <2>2, ReturnShape DEF CheckExisting, disk
  <2>. QED BY <2>1, <2>2 DEF CheckExisting
<1>. QED BY <1>2 DEF TypeInv, TypeOK, CheckExisting, disk, history

LEMMA AnswerRetryTypeInv ==
    ASSUME TypeInv, NEW c \in Callers, AnswerRetry(c)
    PROVE  TypeInv'
<1>1. call[c].job \in Jobs /\ call[c].req \in Requests
  BY CallTyped DEF AnswerRetry, At, CallShape, SubmitSteps
<1>2. call' \in [Callers -> Calls] /\ Shape'
  BY ReturnShape DEF AnswerRetry, disk
<1>3. accepted' \in [Jobs -> SUBSET Requests]
  <2>. DEFINE j == call[c].job
  <2>1. accepted' = [accepted EXCEPT ![j] =
                       IF StatusOf(j) = "not_found" THEN accepted[j]
                       ELSE accepted[j] \cup {call[c].req}]
    BY DEF AnswerRetry
  <2>. QED BY <2>1, <1>1 DEF TypeInv, TypeOK
<1>. QED BY <1>2, <1>3 DEF TypeInv, TypeOK, AnswerRetry, disk

(***************************************************************************)
(* The state transition shared by every operation.                         *)
(***************************************************************************)
LEMMA ReadRecordTypeInv ==
    ASSUME TypeInv, NEW c \in Callers, ReadRecord(c)
    PROVE  TypeInv'
<1>. DEFINE rec == record[call[c].job]
            n == [call[c] EXCEPT !.pc = "appendState", !.seen = rec]
<1>1. call[c].job \in Jobs /\ call[c] \in Calls /\ CallShape(call[c]) /\ call[c].pc = "readRecord"
  BY CallTyped DEF ReadRecord, At
<1>2. call' \in [Callers -> Calls] /\ Shape'
  <2>1. CASE rec # None /\ <<rec.status, call[c].target>> \in Transitions
    <3>1. rec \in Records /\ RecordShape(rec)
      BY <1>1, <2>1 DEF TypeInv, TypeOK, Shape
    <3>2. rec.evidence = None
      BY <2>1, <3>1 DEF RecordShape, Transitions
    <3>3. call' = [call EXCEPT ![c] = n]
      BY <1>1, <2>1 DEF ReadRecord, Calls
    <3>. HIDE DEF rec
    <3>4. n \in Calls
      BY <1>1, <3>1 DEF Calls, Steps
    <3>5. CallShape(n)
      BY <1>1, <2>1, <3>1, <3>2 DEF CallShape, Calls, SubmitSteps, ReportSteps, FinishSteps,
         TransitionSteps
    <3>. HIDE DEF n
    <3>. QED BY <3>3, <3>4, <3>5, ShapeFrame DEF ReadRecord, disk
  <2>2. CASE Return(c)
    BY <2>2, ReturnShape DEF ReadRecord, disk
  <2>. QED BY <2>1, <2>2 DEF ReadRecord
<1>. QED BY <1>2 DEF TypeInv, TypeOK, ReadRecord, disk, history

LEMMA AppendStateTypeInv ==
    ASSUME TypeInv, NEW c \in Callers, AppendState(c)
    PROVE  TypeInv'
<1>. DEFINE j == call[c].job
            line == [from |-> call[c].seen.status, to |-> call[c].target]
<1>1. j \in Jobs /\ line \in Lines
  <2>1. j \in Jobs /\ <<call[c].seen.status, call[c].target>> \in Transitions
    BY CallTyped DEF AppendState, At, CallShape
  <2>. QED BY <2>1 DEF Transitions, Lines, States, Terminal
<1>2. trail' = [trail EXCEPT ![j] = Append(trail[j], line)]
  BY DEF AppendState
<1>3. trail[j] \in Seq(Lines)
  BY <1>1 DEF TypeInv, TypeOK
<1>. HIDE DEF line
<1>4. Append(trail[j], line) \in Seq(Lines)
  BY <1>1, <1>3
<1>5. trail' \in [Jobs -> Seq(Lines)]
  BY <1>2, <1>4 DEF TypeInv, TypeOK
<1>6. call' \in [Callers -> Calls] /\ Shape'
  BY GotoKeepsShape DEF AppendState, At, Steps
<1>. QED BY <1>5, <1>6 DEF TypeInv, TypeOK, AppendState, history

(* The record a transition writes is well formed. *)
LEMMA NextRecordTyped ==
    ASSUME TypeInv, NEW c \in Callers, At(c, "writeRecord")
    PROVE  /\ NextRecord(c) \in Records
           /\ RecordShape(NextRecord(c))
           /\ NextRecord(c).status = call[c].target
<1>. DEFINE k == call[c]
<1>1. k \in Calls /\ CallShape(k)
  BY CallTyped DEF At
<1>2. /\ k.seen \in Records /\ k.seen.evidence = None
      /\ <<k.seen.status, k.target>> \in Transitions
      /\ k.target = "running" => k.by \in Workers
      /\ k.target \in {"succeeded", "failed"} => k.by \in Workers /\ k.req \in Requests
  BY <1>1 DEF At, CallShape, TransitionSteps, TerminalState, Outcomes
<1>3. k.seen.refs + 1 \in Nat /\ k.seen.worker \in Workers \cup {None} /\ k.target \in States
  BY <1>2 DEF Records, Transitions, States, Terminal
<1>4. k.target \in {"succeeded", "failed"} =>
        [by |-> k.by, passed |-> k.outcome = "completed", req |-> k.req] \in Evidence
  BY <1>2 DEF Evidence
<1>. QED BY <1>2, <1>3, <1>4 DEF NextRecord, Records, RecordShape

LEMMA WriteRecordTypeInv ==
    ASSUME TypeInv, NEW c \in Callers, WriteRecord(c)
    PROVE  TypeInv'
<1>. DEFINE j == call[c].job
<1>1. /\ j \in Jobs /\ call[c] \in Calls /\ CallShape(call[c])
      /\ call[c].pc = "writeRecord" /\ At(c, "writeRecord")
  BY CallTyped DEF WriteRecord, At
<1>2. /\ record' \in [Jobs -> Records \cup {None}]
      /\ \A i \in Jobs : record'[i] = record[i] \/ RecordShape(record'[i])
  BY <1>1, NextRecordTyped DEF WriteRecord, TypeInv, TypeOK
<1>3. call' \in [Callers -> Calls] /\ Shape'
  <2>1. CASE call[c].target = "running"
    BY <1>1, <1>2, <2>1, GotoKeepsShape DEF WriteRecord, At, Steps
  <2>2. CASE call[c].target # "running"
    BY <1>2, <2>2, ReturnShape DEF WriteRecord
  <2>. QED BY <2>1, <2>2
<1>4. accepted' \in [Jobs -> SUBSET Requests]
  <2>1. call[c].target = "queued" => call[c].req \in Requests
    BY <1>1 DEF CallShape, TransitionSteps, TerminalState
  <2>2. accepted' = [accepted EXCEPT ![j] =
                       IF call[c].target = "queued" THEN accepted[j] \cup {call[c].req}
                       ELSE accepted[j]]
    BY DEF WriteRecord
  <2>. QED BY <1>1, <2>1, <2>2 DEF TypeInv, TypeOK
<1>. QED BY <1>2, <1>3, <1>4 DEF TypeInv, TypeOK, WriteRecord

(***************************************************************************)
(* Execution.                                                              *)
(***************************************************************************)
LEMMA ExecuteTypeInv ==
    ASSUME TypeInv, NEW c \in Callers, NEW j \in Jobs, NEW w \in Workers, Execute(c, j, w)
    PROVE  TypeInv'
<1>1. /\ NewCall("logStart", j, None, w, None) \in Calls
      /\ CallShape(NewCall("logStart", j, None, w, None))
  BY DEF NewCall, Calls, Steps, CallShape, SubmitSteps, ReportSteps, FinishSteps,
     TransitionSteps, RunOutcomes, Outcomes
<1>2. call' \in [Callers -> Calls] /\ Shape'
  BY <1>1, ShapeFrame DEF Execute, disk
<1>. QED BY <1>2, BeginTyped DEF TypeInv, TypeOK, Execute, disk, history

LEMMA LogStartTypeInv ==
    ASSUME TypeInv, NEW c \in Callers, LogStart(c)
    PROVE  TypeInv'
<1>. DEFINE j == call[c].job
<1>1. j \in Jobs /\ call[c].by \in Workers /\ call[c].outcome = None /\ call[c].pc = "logStart"
  BY CallTyped DEF LogStart, At, CallShape
<1>2. CASE manifest[j] = None
  <2>1. call' \in [Callers -> Calls] /\ Shape'
    BY <1>2, ReturnShape DEF LogStart
  <2>. QED BY <1>2, <2>1 DEF TypeInv, TypeOK, LogStart, history
<1>3. CASE manifest[j] # None
  <2>1. Log(j, "started", call[c].by, None) /\ HoldManifest(c)
    BY <1>3 DEF LogStart, LogStarted
  <2>2. audit' \in [Jobs -> Seq(Events)]
    BY <1>1, <2>1, LogType DEF TypeInv, Events, StartEvents
  <2>3. call' \in [Callers -> Calls] /\ Shape'
    BY <1>1, <1>3, <2>1, HoldShape DEF LogStart, At
  <2>. QED BY <2>2, <2>3 DEF TypeInv, TypeOK, LogStart, history
<1>. QED BY <1>2, <1>3

LEMMA RunJobTypeInv ==
    ASSUME TypeInv, NEW c \in Callers, RunJob(c)
    PROVE  TypeInv'
<1>1. call[c].job \in Jobs /\ call[c] \in Calls /\ CallShape(call[c]) /\ call[c].pc = "run"
  BY CallTyped DEF RunJob, At
<1>2. PICK o \in RunOutcomes :
         call' = [call EXCEPT ![c].pc = "storeResult", ![c].outcome = o]
  BY DEF RunJob
<1>. DEFINE n == [call[c] EXCEPT !.pc = "storeResult", !.outcome = o]
<1>3. call' = [call EXCEPT ![c] = n]
  BY <1>1, <1>2 DEF Calls
<1>4. n \in Calls
  BY <1>1 DEF Calls, Steps, Outcomes
<1>5. CallShape(n)
  BY <1>1 DEF CallShape, Calls, SubmitSteps, ReportSteps, FinishSteps, TransitionSteps
<1>. HIDE DEF n
<1>6. call' \in [Callers -> Calls] /\ Shape'
  BY <1>3, <1>4, <1>5, ShapeFrame DEF RunJob, disk
<1>7. attempts' \in [Jobs -> Nat]
  BY <1>1 DEF RunJob, TypeInv, TypeOK
<1>. QED BY <1>6, <1>7 DEF TypeInv, TypeOK, RunJob, disk

LEMMA StoreResultTypeInv ==
    ASSUME TypeInv, NEW c \in Callers, StoreResult(c)
    PROVE  TypeInv'
<1>1. /\ call[c].job \in Jobs /\ call[c].by \in Workers /\ call[c].outcome \in RunOutcomes
      /\ call[c].req \in Requests /\ call[c].pc \in ReportSteps /\ ~At(c, "idle")
  BY CallTyped DEF StoreResult, At, CallShape, ReportSteps
<1>2. call' \in [Callers -> Calls] /\ Shape'
  <2>1. CASE Goto(c, "storeReceipt")
    BY <1>1, <2>1, GotoKeepsShape DEF StoreResult, ReportSteps, Steps
  <2>2. CASE Return(c)
    BY <2>2, ReturnShape DEF StoreResult
  <2>. QED BY <2>1, <2>2 DEF StoreResult
<1>3. result' \in [Jobs -> Results \cup {None}]
  <2>. DEFINE doc == ResultOf(call[c])
  <2>1. doc \in Results
    BY <1>1 DEF ResultOf, Results
  <2>2. result' = result \/ result' = [result EXCEPT ![call[c].job] = doc]
    BY DEF StoreResult
  <2>. HIDE DEF doc
  <2>. QED BY <1>1, <2>1, <2>2 DEF TypeInv, TypeOK
<1>. QED BY <1>2, <1>3 DEF TypeInv, TypeOK, StoreResult, history

LEMMA StoreReceiptTypeInv ==
    ASSUME TypeInv, NEW c \in Callers, StoreReceipt(c)
    PROVE  TypeInv'
<1>1. /\ call[c].job \in Jobs /\ call[c].by \in Workers /\ call[c].req \in Requests
      /\ call[c].pc \in ReportSteps /\ ~At(c, "idle")
  BY CallTyped DEF StoreReceipt, At, CallShape, ReportSteps
<1>2. call' \in [Callers -> Calls] /\ Shape'
  <2>1. CASE Goto(c, "logReceipt")
    BY <1>1, <2>1, GotoKeepsShape DEF StoreReceipt, ReportSteps, Steps
  <2>2. CASE Return(c)
    BY <2>2, ReturnShape DEF StoreReceipt
  <2>. QED BY <2>1, <2>2 DEF StoreReceipt
<1>3. receipt' \in [Jobs -> Receipts \cup {None}]
  <2>. DEFINE doc == ReceiptOf(call[c])
  <2>1. doc \in Receipts
    BY <1>1 DEF ReceiptOf, Receipts
  <2>2. receipt' = receipt \/ receipt' = [receipt EXCEPT ![call[c].job] = doc]
    BY DEF StoreReceipt
  <2>. HIDE DEF doc
  <2>. QED BY <1>1, <2>1, <2>2 DEF TypeInv, TypeOK
<1>. QED BY <1>2, <1>3 DEF TypeInv, TypeOK, StoreReceipt, history

LEMMA LogReceiptTypeInv ==
    ASSUME TypeInv, NEW c \in Callers, LogReceipt(c)
    PROVE  TypeInv'
<1>1. /\ call[c].job \in Jobs /\ call[c].by \in Workers /\ call[c].outcome \in RunOutcomes
      /\ call[c].pc \in ReportSteps /\ ~At(c, "idle")
  BY CallTyped DEF LogReceipt, At, CallShape, ReportSteps
<1>2. call' \in [Callers -> Calls] /\ Shape'
  BY <1>1, GotoKeepsShape DEF LogReceipt, ReportSteps, FinishSteps, Steps
<1>3. audit' \in [Jobs -> Seq(Events)]
  BY <1>1, LogType DEF TypeInv, LogReceipt, Events, ResultEvents
<1>. QED BY <1>2, <1>3 DEF TypeInv, TypeOK, LogReceipt, history

LEMMA LogReportTypeInv ==
    ASSUME TypeInv, NEW c \in Callers, LogReport(c)
    PROVE  TypeInv'
<1>1. /\ call[c].job \in Jobs /\ call[c].by \in Workers /\ call[c].outcome \in RunOutcomes
      /\ call[c].pc \in ReportSteps /\ ~At(c, "idle")
  BY CallTyped DEF LogReport, At, CallShape, ReportSteps
<1>2. call' \in [Callers -> Calls] /\ Shape'
  BY <1>1, GotoKeepsShape DEF LogReport, ReportSteps, FinishSteps, Steps
<1>3. audit' \in [Jobs -> Seq(Events)]
  BY <1>1, LogType DEF TypeInv, LogReport, Events, ResultEvents
<1>. QED BY <1>2, <1>3 DEF TypeInv, TypeOK, LogReport, history

LEMMA CheckReportTypeInv ==
    ASSUME TypeInv, NEW c \in Callers, CheckReport(c)
    PROVE  TypeInv'
<1>1. call[c].pc \in ReportSteps /\ ~At(c, "idle")
  BY DEF CheckReport, At, ReportSteps
<1>2. call' \in [Callers -> Calls] /\ Shape'
  <2>1. Return(c) \/ Goto(c, "checkFinish") \/ Goto(c, "logReport")
    BY DEF CheckReport
  <2>2. CASE Return(c)
    BY <2>2, ReturnShape DEF CheckReport, disk
  <2>3. CASE Goto(c, "checkFinish")
    BY <1>1, <2>3, GotoKeepsShape DEF CheckReport, disk, FinishSteps, Steps
  <2>4. CASE Goto(c, "logReport")
    BY <1>1, <2>4, GotoKeepsShape DEF CheckReport, disk, ReportSteps, Steps
  <2>. QED BY <2>1, <2>2, <2>3, <2>4
<1>. QED BY <1>2 DEF TypeInv, TypeOK, CheckReport, disk, history

(***************************************************************************)
(* Cancellation and the finish event.                                      *)
(***************************************************************************)
LEMMA CancelTypeInv ==
    ASSUME TypeInv, NEW c \in Callers, NEW j \in Jobs, Cancel(c, j)
    PROVE  TypeInv'
<1>. DEFINE w == IF record[j] = None THEN None ELSE record[j].worker
<1>1. w \in Workers \cup {None}
  BY DEF TypeInv, TypeOK, Records
<1>2. call' = [call EXCEPT ![c] = NewCall("checkFinish", j, None, w, "cancelled")]
  BY Zenon DEF Cancel
<1>. HIDE DEF w
<1>3. /\ NewCall("checkFinish", j, None, w, "cancelled") \in Calls
      /\ CallShape(NewCall("checkFinish", j, None, w, "cancelled"))
  BY <1>1 DEF NewCall, Calls, Steps, CallShape, SubmitSteps, ReportSteps, FinishSteps,
     TransitionSteps, RunOutcomes, Outcomes
<1>4. call' \in [Callers -> Calls] /\ Shape'
  BY <1>2, <1>3, ShapeFrame DEF Cancel, disk
<1>. QED BY <1>4, BeginTyped DEF TypeInv, TypeOK, Cancel, disk, history

LEMMA CheckFinishTypeInv ==
    ASSUME TypeInv, NEW c \in Callers, CheckFinish(c)
    PROVE  TypeInv'
<1>1. call[c].pc \in FinishSteps /\ ~At(c, "idle") /\ call[c].outcome \in Outcomes
  BY CallTyped DEF CheckFinish, At, CallShape, FinishSteps
<1>2. call' \in [Callers -> Calls] /\ Shape'
  <2>1. \/ Return(c)
        \/ BeginTransition(c, TerminalState(call[c].outcome))
        \/ Goto(c, "logFinish")
    BY Zenon DEF CheckFinish
  <2>2. CASE Return(c)
    BY <2>2, ReturnShape DEF CheckFinish, disk
  <2>3. CASE BeginTransition(c, TerminalState(call[c].outcome))
    BY <1>1, <2>3, TransitionShape, TerminalStateType DEF CheckFinish, disk, States, FinishSteps
  <2>4. CASE Goto(c, "logFinish")
    BY <1>1, <2>4, GotoKeepsShape DEF CheckFinish, disk, FinishSteps, Steps
  <2>. QED BY <2>1, <2>2, <2>3, <2>4
<1>. QED BY <1>2 DEF TypeInv, TypeOK, CheckFinish, disk, history

LEMMA LogFinishTypeInv ==
    ASSUME TypeInv, NEW c \in Callers, LogFinish(c)
    PROVE  TypeInv'
<1>1. /\ call[c].job \in Jobs /\ call[c] \in Calls /\ call[c].outcome \in Outcomes
      /\ call[c].pc \in FinishSteps
  BY CallTyped DEF LogFinish, At, CallShape, FinishSteps
<1>2. call' \in [Callers -> Calls] /\ Shape'
  BY <1>1, TransitionShape, TerminalStateType DEF LogFinish, States, FinishSteps
<1>3. audit' \in [Jobs -> Seq(Events)]
  BY <1>1, LogType DEF TypeInv, LogFinish, Events, FinishEvents, Calls, Outcomes
<1>. QED BY <1>2, <1>3 DEF TypeInv, TypeOK, LogFinish, history

LEMMA AbandonTypeInv ==
    ASSUME TypeInv, NEW c \in Callers, Abandon(c)
    PROVE  TypeInv'
<1>1. call' \in [Callers -> Calls] /\ Shape'
  BY ReturnShape DEF Abandon, disk
<1>. QED BY <1>1 DEF TypeInv, TypeOK, Abandon, disk, history

LEMMA StepTypeInv ==
    ASSUME TypeInv, NEW c \in Callers, Step(c)
    PROVE  TypeInv'
  BY CreateManifestTypeInv, LogSubmissionTypeInv, RemoveManifestTypeInv, CreateRecordTypeInv,
     CheckExistingTypeInv, AnswerRetryTypeInv, ReadRecordTypeInv, AppendStateTypeInv,
     WriteRecordTypeInv, LogStartTypeInv, RunJobTypeInv, StoreResultTypeInv,
     StoreReceiptTypeInv, LogReceiptTypeInv, CheckReportTypeInv, LogReportTypeInv,
     CheckFinishTypeInv, LogFinishTypeInv
  DEF Step

LEMMA NextTypeInv == TypeInv /\ [Next]_vars => TypeInv'
<1>1. CASE UNCHANGED vars
  BY <1>1 DEF TypeInv, TypeOK, Shape, CallShape, RecordShape, vars, disk, history
<1>2. ASSUME TypeInv, Next PROVE TypeInv'
  <2>1. CASE Quiesced
    BY <1>1, <1>2, <2>1 DEF Quiesced
  <2>2. CASE \E c \in Callers : Step(c) \/ LogSubmissionFails(c) \/ Abandon(c)
    BY <1>2, <2>2, StepTypeInv, LogSubmissionFailsTypeInv, AbandonTypeInv
  <2>3. CASE \E c \in Callers, j \in Jobs :
               \/ \E r \in Requests : Submit(c, j, r)
               \/ \E w \in Workers : Execute(c, j, w)
               \/ Cancel(c, j)
    BY <1>2, <2>3, SubmitTypeInv, ExecuteTypeInv, CancelTypeInv
  <2>. QED BY <1>2, <2>1, <2>2, <2>3 DEF Next
<1>. QED BY <1>1, <1>2

(* Every reachable state is well typed. *)
THEOREM TypeCorrect == Spec => []TypeOK
<1>1. TypeInv => TypeOK
  BY DEF TypeInv
<1>. QED BY <1>1, InitTypeInv, NextTypeInv, PTL DEF Spec

-----------------------------------------------------------------------------
(***************************************************************************)
(* What a step does to the calls: only its own caller's call changes, and  *)
(* that call's fields are the ones below.                                  *)
(***************************************************************************)
SameFields(k, n) ==
    /\ n.job = k.job /\ n.req = k.req /\ n.by = k.by
    /\ n.outcome = k.outcome /\ n.seen = k.seen

OthersKeep(c) == \A d \in Callers : d # c => call'[d] = call[d]

LEMMA GotoFacts ==
    ASSUME TypeInv, NEW c \in Callers, NEW step, Goto(c, step)
    PROVE  /\ OthersKeep(c)
           /\ call'[c].pc = step
           /\ SameFields(call[c], call'[c])
           /\ call'[c].target = call[c].target
<1>1. call[c] \in Calls /\ call \in [Callers -> Calls]
  BY DEF TypeInv, TypeOK
<1>2. call' = [call EXCEPT ![c] = [call[c] EXCEPT !.pc = step]]
  BY DEF Goto
<1>. QED BY <1>1, <1>2 DEF Calls, SameFields, OthersKeep

LEMMA ReturnFacts ==
    ASSUME TypeInv, NEW c \in Callers, Return(c)
    PROVE  /\ OthersKeep(c)
           /\ call'[c].pc = "idle" /\ call'[c].outcome = None
  BY DEF TypeInv, TypeOK, Return, Idle, NewCall, OthersKeep

LEMMA TransitionFacts ==
    ASSUME TypeInv, NEW c \in Callers, NEW target, BeginTransition(c, target)
    PROVE  /\ OthersKeep(c)
           /\ call'[c].pc = "readRecord" /\ call'[c].target = target
           /\ SameFields(call[c], call'[c])
<1>1. call[c] \in Calls /\ call \in [Callers -> Calls]
  BY DEF TypeInv, TypeOK
<1>2. call' = [call EXCEPT ![c] = [call[c] EXCEPT !.pc = "readRecord", !.target = target]]
  BY <1>1 DEF BeginTransition, Calls
<1>. QED BY <1>1, <1>2 DEF Calls, SameFields, OthersKeep

LEMMA HoldFacts ==
    ASSUME TypeInv, NEW c \in Callers, HoldManifest(c)
    PROVE  /\ OthersKeep(c)
           /\ call'[c].pc = "readRecord" /\ call'[c].target = "running"
           /\ call'[c].req = manifest[call[c].job]
           /\ call'[c].job = call[c].job /\ call'[c].by = call[c].by
           /\ call'[c].outcome = call[c].outcome /\ call'[c].seen = call[c].seen
<1> DEFINE m == manifest[call[c].job]
<1>1. call[c] \in Calls /\ call \in [Callers -> Calls]
  BY DEF TypeInv, TypeOK
<1>2. call' = [call EXCEPT ![c] =
                  [call[c] EXCEPT !.pc = "readRecord", !.target = "running", !.req = m]]
  BY <1>1 DEF HoldManifest, Calls
<1>. HIDE DEF m
<1>3. /\ OthersKeep(c)
      /\ call'[c].pc = "readRecord" /\ call'[c].target = "running" /\ call'[c].req = m
      /\ call'[c].job = call[c].job /\ call'[c].by = call[c].by
      /\ call'[c].outcome = call[c].outcome /\ call'[c].seen = call[c].seen
  BY <1>1, <1>2 DEF Calls, OthersKeep
<1>. QED BY <1>3 DEF m

LEMMA ReadFacts ==
    ASSUME TypeInv, NEW c \in Callers, ReadRecord(c)
    PROVE  /\ OthersKeep(c)
           /\ \/ call'[c].pc = "idle" /\ call'[c].outcome = None
              \/ /\ call'[c].pc = "appendState"
                 /\ record[call[c].job] # None
                 /\ call'[c].seen = record[call[c].job]
                 /\ call'[c].job = call[c].job /\ call'[c].req = call[c].req
                 /\ call'[c].by = call[c].by /\ call'[c].outcome = call[c].outcome
                 /\ call'[c].target = call[c].target
<1>. DEFINE rec == record[call[c].job]
<1>1. call[c] \in Calls /\ call \in [Callers -> Calls]
  BY DEF TypeInv, TypeOK
<1>2. CASE Return(c)
  BY <1>2, ReturnFacts
<1>3. CASE /\ rec # None
           /\ call' = [call EXCEPT ![c].pc = "appendState", ![c].seen = rec]
  <2>1. call' = [call EXCEPT ![c] = [call[c] EXCEPT !.pc = "appendState", !.seen = rec]]
    BY <1>1, <1>3 DEF Calls
  <2>. QED BY <1>1, <1>3, <2>1 DEF Calls, OthersKeep
<1>. QED BY <1>2, <1>3 DEF ReadRecord

LEMMA RunFacts ==
    ASSUME TypeInv, NEW c \in Callers, RunJob(c)
    PROVE  /\ OthersKeep(c)
           /\ call'[c].pc = "storeResult" /\ call'[c].outcome \in RunOutcomes
           /\ call'[c].job = call[c].job /\ call'[c].by = call[c].by
           /\ call'[c].req = call[c].req
<1>1. call[c] \in Calls /\ call \in [Callers -> Calls]
  BY DEF TypeInv, TypeOK
<1>2. PICK o \in RunOutcomes :
         call' = [call EXCEPT ![c].pc = "storeResult", ![c].outcome = o]
  BY DEF RunJob
<1>3. call' = [call EXCEPT ![c] = [call[c] EXCEPT !.pc = "storeResult", !.outcome = o]]
  BY <1>1, <1>2 DEF Calls
<1>. QED BY <1>1, <1>3 DEF Calls, OthersKeep

LEMMA BeginFacts ==
    ASSUME TypeInv, NEW c \in Callers, NEW j \in Jobs,
           \/ \E r \in Requests : Submit(c, j, r)
           \/ \E w \in Workers : Execute(c, j, w)
           \/ Cancel(c, j)
    PROVE  /\ OthersKeep(c)
           /\ call'[c].pc \in {"create", "existing", "logStart", "checkFinish"}
           /\ call'[c].outcome \notin RunOutcomes
           /\ UNCHANGED <<disk, history>>
<1>. USE DEF TypeInv, TypeOK, OthersKeep, NewCall, RunOutcomes, disk, history
<1>1. CASE \E r \in Requests : Submit(c, j, r)
  BY <1>1 DEF Submit, Outcomes
<1>2. CASE \E w \in Workers : Execute(c, j, w)
  BY <1>2 DEF Execute, Outcomes
<1>3. CASE Cancel(c, j)
  BY <1>3 DEF Cancel
<1>. QED BY <1>1, <1>2, <1>3

-----------------------------------------------------------------------------
(***************************************************************************)
(* Records, their trail and their manifest, however calls interleave and   *)
(* stop.                                                                   *)
(***************************************************************************)
(* One caller's call changes, and where it goes is not in Steps avoided.   *)
MovesOutside(c, avoided) == OthersKeep(c) /\ call'[c].pc \notin avoided

LEMMA MoveFacts ==
    ASSUME TypeInv, NEW c \in Callers, NEW avoided \in SUBSET Steps,
           \/ Return(c) /\ "idle" \notin avoided
           \/ \E step \in Steps \ avoided : Goto(c, step)
           \/ \E target : BeginTransition(c, target) /\ "readRecord" \notin avoided
           \/ HoldManifest(c) /\ "readRecord" \notin avoided
    PROVE  MovesOutside(c, avoided)
  BY ReturnFacts, GotoFacts, TransitionFacts, HoldFacts DEF MovesOutside

-----------------------------------------------------------------------------
(***************************************************************************)
(* The audit line comes before the status it leads to.  A call about to    *)
(* append or write holds an old copy of the record: what keeps the         *)
(* invariant is that the trail only grows, so a stale copy refers to no    *)
(* more lines than there are.                                              *)
(***************************************************************************)
CopyIsCovered(c) ==
    LET k == call[c] IN
    /\ k.pc = "appendState" => k.seen.refs <= Len(trail[k.job])
    /\ k.pc = "writeRecord" =>
          /\ k.seen.refs + 1 <= Len(trail[k.job])
          /\ \E i \in DOMAIN trail[k.job] : trail[k.job][i].to = k.target

TrailInv == TypeInv /\ TrailLeadsStatus /\ \A c \in Callers : CopyIsCovered(c)

LEMMA TrailQuiet ==
    ASSUME TrailInv, TypeInv', NEW c \in Callers, UNCHANGED trail,
           MovesOutside(c, {"appendState", "writeRecord"}),
           \A j \in Jobs : record'[j] = record[j] \/ record'[j] = NewRecord
    PROVE  TrailInv'
<1>1. TrailLeadsStatus'
  <2>. SUFFICES ASSUME NEW j \in Jobs, record'[j] # None
                PROVE  /\ record'[j].refs <= Len(trail[j])
                       /\ record'[j].status = "created"
                          \/ \E i \in DOMAIN trail[j] : trail[j][i].to = record'[j].status
    BY DEF TrailLeadsStatus
  <2>1. CASE record'[j] = record[j]
    BY <2>1 DEF TrailInv, TrailLeadsStatus
  <2>2. CASE record'[j] = NewRecord
    <3>1. trail[j] \in Seq(Lines)
      BY DEF TrailInv, TypeInv, TypeOK
    <3>. QED BY <2>2, <3>1 DEF NewRecord
  <2>. QED BY <2>1, <2>2
<1>2. ASSUME NEW d \in Callers PROVE CopyIsCovered(d)'
  <2>1. CASE d = c
    BY <2>1 DEF MovesOutside, CopyIsCovered
  <2>2. CASE d # c
    BY <2>2 DEF MovesOutside, OthersKeep, TrailInv, CopyIsCovered
  <2>. QED BY <2>1, <2>2
<1>. QED BY <1>1, <1>2 DEF TrailInv

LEMMA TrailReadRecord ==
    ASSUME TrailInv, TypeInv', NEW c \in Callers, ReadRecord(c)
    PROVE  TrailInv'
<1>1. record' = record /\ trail' = trail /\ OthersKeep(c) /\ call[c].job \in Jobs
  BY CallTyped, ReadFacts DEF ReadRecord, disk, At, TrailInv
<1>2. TrailLeadsStatus'
  BY <1>1 DEF TrailInv, TrailLeadsStatus
<1>3. ASSUME NEW d \in Callers PROVE CopyIsCovered(d)'
  <2>1. CASE d = c
    BY <1>1, <2>1, ReadFacts DEF TrailInv, TrailLeadsStatus, CopyIsCovered
  <2>2. CASE d # c
    BY <1>1, <2>2 DEF OthersKeep, TrailInv, CopyIsCovered
  <2>. QED BY <2>1, <2>2
<1>. QED BY <1>2, <1>3 DEF TrailInv

LEMMA TrailAppendState ==
    ASSUME TrailInv, TypeInv', NEW c \in Callers, AppendState(c)
    PROVE  TrailInv'
<1>. DEFINE j == call[c].job
            line == [from |-> call[c].seen.status, to |-> call[c].target]
<1>1. /\ j \in Jobs /\ call[c].pc = "appendState" /\ call[c].seen \in Records
      /\ trail[j] \in Seq(Lines)
  BY CallTyped DEF AppendState, At, TrailInv, CallShape, TypeInv, TypeOK
<1>2. /\ record' = record
      /\ trail' = [trail EXCEPT ![j] = Append(trail[j], line)]
      /\ call'[c].pc = "writeRecord" /\ SameFields(call[c], call'[c])
      /\ call'[c].target = call[c].target /\ OthersKeep(c)
  BY GotoFacts DEF AppendState, TrailInv
<1>. DEFINE old == trail[j]
            new == Append(old, line)
<1>3. /\ Len(new) = Len(old) + 1
      /\ DOMAIN new = 1..(Len(old) + 1) /\ DOMAIN old = 1..Len(old)
      /\ \A i \in DOMAIN old : new[i] = old[i]
      /\ new[Len(old) + 1] = line
      /\ Len(old) \in Nat
  BY <1>1
<1>4. line.to = call[c].target
  OBVIOUS
<1>5. \A i \in Jobs : trail'[i] = IF i = j THEN new ELSE trail[i]
  BY <1>1, <1>2 DEF TrailInv, TypeInv, TypeOK
<1>. HIDE DEF line, new
<1>6. \A i \in Jobs : /\ trail[i] \in Seq(Lines)
                      /\ Len(trail[i]) <= Len(trail'[i])
                      /\ \A h \in DOMAIN trail[i] : h \in DOMAIN trail'[i] /\ trail'[i][h] = trail[i][h]
  <2>. TAKE i \in Jobs
  <2>1. trail[i] \in Seq(Lines)
    BY DEF TrailInv, TypeInv, TypeOK
  <2>2. CASE i = j
    BY <1>3, <1>5, <2>1, <2>2
  <2>3. CASE i # j
    BY <1>5, <2>1, <2>3
  <2>. QED BY <2>2, <2>3
<1>7. TrailLeadsStatus'
  <2>. SUFFICES ASSUME NEW i \in Jobs, record[i] # None
                PROVE  /\ record[i].refs <= Len(trail'[i])
                       /\ record[i].status = "created"
                          \/ \E h \in DOMAIN trail'[i] : trail'[i][h].to = record[i].status
    BY <1>2 DEF TrailLeadsStatus
  <2>1. record[i].refs \in Nat /\ Len(trail[i]) \in Nat /\ Len(trail'[i]) \in Nat
    BY <1>6 DEF TrailInv, TypeInv, TypeOK, Records
  <2>. QED BY <1>6, <2>1 DEF TrailInv, TrailLeadsStatus
<1>8. ASSUME NEW d \in Callers PROVE CopyIsCovered(d)'
  <2>1. CASE d = c
    <3>1. call[c].seen.refs \in Nat
      BY <1>1 DEF Records
    <3>2. call[c].seen.refs <= Len(old)
      BY <1>1 DEF TrailInv, CopyIsCovered
    <3>3. Len(old) + 1 \in DOMAIN trail'[j] /\ trail'[j][Len(old) + 1].to = call[c].target
      BY <1>1, <1>3, <1>4, <1>5
    <3>4. Len(trail'[j]) = Len(old) + 1
      BY <1>1, <1>3, <1>5
    <3>5. /\ call'[c].pc = "writeRecord" /\ call'[c].job = j
          /\ call'[c].seen = call[c].seen /\ call'[c].target = call[c].target
      BY <1>2 DEF SameFields
    <3>6. call'[c].seen.refs + 1 <= Len(trail'[j])
      BY <1>3, <3>1, <3>2, <3>4, <3>5
    <3>. QED BY <2>1, <3>3, <3>5, <3>6 DEF CopyIsCovered
  <2>2. CASE d # c
    <3>1. call'[d] = call[d]
      BY <1>2, <2>2 DEF OthersKeep
    <3>2. CASE call[d].pc \in {"appendState", "writeRecord"}
      <4>1. call[d].job \in Jobs /\ call[d].seen.refs \in Nat
        BY <3>2, CallTyped DEF At, TrailInv, CallShape, Records
      <4>2. Len(trail[call[d].job]) \in Nat /\ Len(trail'[call[d].job]) \in Nat
        BY <1>6, <4>1 DEF TypeInv, TypeOK
      <4>3. CopyIsCovered(d)
        BY DEF TrailInv
      <4>. DEFINE i == call[d].job
      <4>4. call[d].pc = "appendState" => call[d].seen.refs <= Len(trail'[i])
        BY <1>6, <4>1, <4>2, <4>3 DEF CopyIsCovered
      <4>5. call[d].pc = "writeRecord" =>
               /\ call[d].seen.refs + 1 <= Len(trail'[i])
               /\ \E h \in DOMAIN trail'[i] : trail'[i][h].to = call[d].target
        <5>. SUFFICES ASSUME call[d].pc = "writeRecord"
                      PROVE  /\ call[d].seen.refs + 1 <= Len(trail'[i])
                             /\ \E h \in DOMAIN trail'[i] : trail'[i][h].to = call[d].target
          OBVIOUS
        <5>1. call[d].seen.refs + 1 <= Len(trail[i])
          BY <4>3 DEF CopyIsCovered
        <5>2. PICK h \in DOMAIN trail[i] : trail[i][h].to = call[d].target
          BY <4>3 DEF CopyIsCovered
        <5>3. h \in DOMAIN trail'[i] /\ trail'[i][h] = trail[i][h]
          BY <1>6, <4>1
        <5>4. Len(trail[i]) <= Len(trail'[i])
          BY <1>6, <4>1
        <5>5. ASSUME NEW refs \in Nat, NEW few \in Nat, NEW many \in Nat,
                     refs + 1 <= few, few <= many
              PROVE  refs + 1 <= many
          BY <5>5
        <5>6. call[d].seen.refs + 1 <= Len(trail'[i])
          BY <4>1, <4>2, <5>1, <5>4, <5>5
        <5>. QED BY <5>2, <5>3, <5>6
      <4>. QED BY <3>1, <4>4, <4>5 DEF CopyIsCovered
    <3>3. CASE call[d].pc \notin {"appendState", "writeRecord"}
      BY <3>1, <3>3 DEF CopyIsCovered
    <3>. QED BY <3>2, <3>3
  <2>. QED BY <2>1, <2>2
<1>. QED BY <1>7, <1>8 DEF TrailInv

LEMMA TrailWriteRecord ==
    ASSUME TrailInv, TypeInv', NEW c \in Callers, WriteRecord(c)
    PROVE  TrailInv'
<1>. DEFINE j == call[c].job
<1>1. j \in Jobs /\ call[c].pc = "writeRecord"
  BY CallTyped DEF WriteRecord, At, TrailInv
<1>2. MovesOutside(c, {"appendState", "writeRecord"}) /\ trail' = trail
  BY MoveFacts DEF WriteRecord, TrailInv, Steps
<1>3. \A i \in Jobs : record'[i] = IF i = j THEN NextRecord(c) ELSE record[i]
  BY <1>1 DEF WriteRecord, TrailInv, TypeInv, TypeOK
<1>4. NextRecord(c).refs = call[c].seen.refs + 1 /\ NextRecord(c).status = call[c].target
  BY DEF NextRecord
<1>5. TrailLeadsStatus'
  BY <1>1, <1>2, <1>3, <1>4 DEF TrailInv, TrailLeadsStatus, CopyIsCovered
<1>6. ASSUME NEW d \in Callers PROVE CopyIsCovered(d)'
  BY <1>2 DEF MovesOutside, OthersKeep, TrailInv, CopyIsCovered
<1>. QED BY <1>5, <1>6 DEF TrailInv

LEMMA TrailNext == TrailInv /\ [Next]_vars => TrailInv'
<1>. SUFFICES ASSUME TrailInv, [Next]_vars PROVE TrailInv'
  OBVIOUS
<1>. DEFINE Elsewhere(c) == MovesOutside(c, {"appendState", "writeRecord"})
<1>1. TypeInv /\ TypeInv'
  BY NextTypeInv DEF TrailInv
<1>2. CASE UNCHANGED vars
  BY <1>1, <1>2 DEF TrailInv, TrailLeadsStatus, CopyIsCovered, vars, disk
<1>3. ASSUME NEW c \in Callers, NEW j \in Jobs,
             \/ \E r \in Requests : Submit(c, j, r)
             \/ \E w \in Workers : Execute(c, j, w)
             \/ Cancel(c, j)
      PROVE  TrailInv'
  BY <1>1, <1>3, BeginFacts, TrailQuiet DEF MovesOutside, disk
<1>4. ASSUME NEW c \in Callers, Step(c) \/ LogSubmissionFails(c) \/ Abandon(c) PROVE TrailInv'
  <2>. USE <1>1 DEF Steps, disk
  <2>1. CASE CreateManifest(c)
    BY <2>1, MoveFacts, TrailQuiet DEF CreateManifest
  <2>2. CASE LogSubmission(c)
    BY <2>2, MoveFacts, TrailQuiet DEF LogSubmission
  <2>3. CASE RemoveManifest(c)
    BY <2>3, MoveFacts, TrailQuiet DEF RemoveManifest
  <2>4. CASE CreateRecord(c)
    <3>1. Elsewhere(c)
      BY <2>4, MoveFacts DEF CreateRecord
    <3>2. \A i \in Jobs : record'[i] = record[i] \/ record'[i] = NewRecord
      BY <2>4 DEF CreateRecord, TypeInv, TypeOK
    <3>. QED BY <2>4, <3>1, <3>2, TrailQuiet DEF CreateRecord
  <2>5. CASE CheckExisting(c)
    BY <2>5, MoveFacts, TrailQuiet DEF CheckExisting
  <2>6. CASE AnswerRetry(c)
    BY <2>6, MoveFacts, TrailQuiet DEF AnswerRetry
  <2>7. CASE ReadRecord(c) \/ AppendState(c) \/ WriteRecord(c)
    BY <2>7, TrailReadRecord, TrailAppendState, TrailWriteRecord
  <2>8. CASE LogStart(c)
    BY <2>8, MoveFacts, TrailQuiet DEF LogStart, LogStarted
  <2>9. CASE RunJob(c)
    BY <2>9, RunFacts, TrailQuiet DEF RunJob, MovesOutside
  <2>10. CASE StoreResult(c)
    BY <2>10, MoveFacts, TrailQuiet DEF StoreResult
  <2>11. CASE StoreReceipt(c)
    BY <2>11, MoveFacts, TrailQuiet DEF StoreReceipt
  <2>12. CASE LogReceipt(c) \/ LogReport(c)
    BY <2>12, MoveFacts, TrailQuiet DEF LogReceipt, LogReport
  <2>13. CASE CheckReport(c)
    <3>1. Return(c) \/ Goto(c, "checkFinish") \/ Goto(c, "logReport")
      BY <2>13 DEF CheckReport
    <3>. QED BY <2>13, <3>1, MoveFacts, TrailQuiet DEF CheckReport
  <2>14. CASE CheckFinish(c)
    <3>1. \/ Return(c) \/ Goto(c, "logFinish")
          \/ BeginTransition(c, TerminalState(call[c].outcome))
      BY <2>14, Zenon DEF CheckFinish
    <3>. QED BY <2>14, <3>1, MoveFacts, TrailQuiet DEF CheckFinish
  <2>15. CASE LogFinish(c)
    BY <2>15, MoveFacts, TrailQuiet DEF LogFinish
  <2>16. CASE LogSubmissionFails(c)
    BY <2>16, MoveFacts, TrailQuiet DEF LogSubmissionFails
  <2>17. CASE Abandon(c)
    BY <2>17, MoveFacts, TrailQuiet DEF Abandon
  <2>. QED
    BY <1>4, <2>1, <2>2, <2>3, <2>4, <2>5, <2>6, <2>7, <2>8, <2>9, <2>10, <2>11, <2>12, <2>13,
       <2>14, <2>15, <2>16, <2>17 DEF Step
<1>. QED BY <1>2, <1>3, <1>4 DEF Next, Quiesced

(* The state written to a job's record is one whose audit line was         *)
(* appended before it, under every interleaving and fault.                 *)
THEOREM TrailLeads == Spec => []TrailLeadsStatus
<1>1. Init => TrailInv
  BY InitTypeInv DEF Init, TrailInv, TrailLeadsStatus, CopyIsCovered, Idle, NewCall
<1>2. TrailInv => TrailLeadsStatus
  BY DEF TrailInv
<1>. QED BY <1>1, <1>2, TrailNext, PTL DEF Spec

-----------------------------------------------------------------------------
(***************************************************************************)
(* A manifest is owned by the call that created it until that call creates *)
(* the record or gives the manifest up: exclusive creation makes the owner *)
(* unique, and its clean-up can therefore not hit a job with a record.     *)
(***************************************************************************)
OwnerSteps == {"logSubmission", "removeManifest", "createRecord"}
CopySteps == {"appendState", "writeRecord"}

Owns(c) == call[c].pc \in OwnerSteps

Anchored(c) ==
    LET j == call[c].job IN
    /\ Owns(c) => record[j] = None /\ manifest[j] # None
    /\ At(c, "createRecord") => Logged(j, "submitted")
    /\ call[c].pc \in CopySteps => record[j] # None

SoleOwner ==
    \A c, d \in Callers : Owns(c) /\ Owns(d) /\ call[c].job = call[d].job => c = d

AnchorInv == TypeInv /\ RecordIsAnchored /\ SoleOwner /\ \A c \in Callers : Anchored(c)

AuditGrows == \A j \in Jobs : \A type \in EventTypes : Logged(j, type) => Logged(j, type)'

LEMMA LogGrows ==
    ASSUME TypeInv, NEW j \in Jobs, NEW type, NEW by, NEW outcome, Log(j, type, by, outcome)
    PROVE  AuditGrows /\ Logged(j, type)'
<1>. DEFINE e == [type |-> type, by |-> by, outcome |-> outcome]
            old == audit[j]
            new == Append(old, e)
<1>1. old \in Seq(Events)
  BY DEF TypeInv, TypeOK
<1>2. \A i \in Jobs : audit'[i] = IF i = j THEN new ELSE audit[i]
  BY DEF Log, TypeInv, TypeOK
<1>3. e.type = type
  OBVIOUS
<1>. HIDE DEF e
<1>4. /\ Len(old) + 1 \in DOMAIN new /\ new[Len(old) + 1] = e
      /\ \A i \in DOMAIN old : i \in DOMAIN new /\ new[i] = old[i]
  BY <1>1
<1>. HIDE DEF new
<1>5. Logged(j, type)'
  BY <1>2, <1>3, <1>4 DEF Logged
<1>6. AuditGrows
  <2>. SUFFICES ASSUME NEW i \in Jobs, NEW t \in EventTypes, Logged(i, t)
                PROVE  Logged(i, t)'
    BY DEF AuditGrows
  <2>1. CASE i = j
    BY <1>2, <1>4, <2>1 DEF Logged
  <2>2. CASE i # j
    BY <1>2, <2>2 DEF Logged
  <2>. QED BY <2>1, <2>2
<1>. QED BY <1>5, <1>6

LEMMA SameAuditGrows ==
    ASSUME UNCHANGED audit
    PROVE  AuditGrows
  BY DEF AuditGrows, Logged

(* A step that leaves manifests and records alone, with its caller outside *)
(* the steps the invariant constrains.                                     *)
LEMMA AnchorQuiet ==
    ASSUME AnchorInv, TypeInv', NEW c \in Callers, UNCHANGED <<manifest, record>>, AuditGrows,
           MovesOutside(c, OwnerSteps \cup CopySteps)
    PROVE  AnchorInv'
<1>1. RecordIsAnchored'
  BY DEF AnchorInv, RecordIsAnchored, AuditGrows, EventTypes
<1>2. \A d \in Callers : d # c => call'[d] = call[d]
  BY DEF MovesOutside, OthersKeep
<1>3. SoleOwner'
  BY <1>2 DEF AnchorInv, SoleOwner, Owns, MovesOutside
<1>4. ASSUME NEW d \in Callers PROVE Anchored(d)'
  <2>1. CASE d = c
    BY <2>1 DEF Anchored, Owns, MovesOutside, At, OwnerSteps
  <2>2. CASE d # c
    <3>1. At(d, "createRecord") => call[d].job \in Jobs
      BY CallTyped DEF At, AnchorInv
    <3>. QED BY <1>2, <2>2, <3>1 DEF AnchorInv, Anchored, Owns, At, AuditGrows, EventTypes
  <2>. QED BY <2>1, <2>2
<1>. QED BY <1>1, <1>3, <1>4 DEF AnchorInv

(* A step that changes at most its own job's manifest and record.          *)
LEMMA AnchorOwn ==
    ASSUME AnchorInv, TypeInv', NEW c \in Callers, OthersKeep(c), AuditGrows,
           NEW j \in Jobs, call[c].job = j,
           \A i \in Jobs \ {j} : manifest'[i] = manifest[i] /\ record'[i] = record[i],
           \/ Owns(c)
           \/ ~Owns(c)' /\ manifest' = manifest /\ (record'[j] = None <=> record[j] = None)
           \/ \A d \in Callers : Owns(d) => call[d].job # j,
           record[j] # None => record'[j] # None,
           record'[j] # None => manifest'[j] # None /\ Logged(j, "submitted")',
           call'[c].job = j \/ ~Owns(c)',
           Anchored(c)'
    PROVE  AnchorInv'
<1>1. RecordIsAnchored'
  <2>. SUFFICES ASSUME NEW i \in Jobs, record'[i] # None
                PROVE  manifest'[i] # None /\ Logged(i, "submitted")'
    BY DEF RecordIsAnchored
  <2>1. CASE i # j
    BY <2>1 DEF AnchorInv, RecordIsAnchored, AuditGrows, EventTypes
  <2>. QED BY <2>1
<1>2. \A d \in Callers : d # c => call'[d] = call[d]
  BY DEF OthersKeep
<1>3. SoleOwner'
  BY <1>2 DEF AnchorInv, SoleOwner, Owns
<1>4. ASSUME NEW d \in Callers PROVE Anchored(d)'
  <2>1. CASE d = c
    BY <2>1
  <2>2. CASE d # c /\ call[d].job # j
    <3>1. call[d].pc # "idle" => call[d].job \in Jobs
      BY CallTyped DEF At, AnchorInv
    <3>2. Anchored(d) /\ call'[d] = call[d]
      BY <1>2, <2>2 DEF AnchorInv
    <3>. QED BY <2>2, <3>1, <3>2
             DEF Anchored, Owns, At, AuditGrows, EventTypes, OwnerSteps, CopySteps
  <2>3. CASE d # c /\ call[d].job = j
    <3>1. Anchored(d) /\ call'[d] = call[d]
      BY <1>2, <2>3 DEF AnchorInv
    <3>2. Owns(d) => ~Owns(c)
      BY <2>3 DEF AnchorInv, SoleOwner
    <3>. QED BY <2>3, <3>1, <3>2
             DEF Anchored, Owns, At, AuditGrows, EventTypes, OwnerSteps, CopySteps
  <2>. QED BY <2>1, <2>2, <2>3
<1>. QED BY <1>1, <1>3, <1>4 DEF AnchorInv

LEMMA AnchorCreateManifest ==
    ASSUME AnchorInv, TypeInv', NEW c \in Callers, NEW j \in Jobs, call[c].job = j,
           CreateManifest(c)
    PROVE  AnchorInv'
<1>1. j \in Jobs /\ call[c].req \in Requests /\ TypeInv
  BY CallTyped DEF CreateManifest, At, CallShape, SubmitSteps, AnchorInv
<1>2. AuditGrows
  BY SameAuditGrows DEF CreateManifest
<1>3. CASE manifest[j] # None
  BY <1>1, <1>2, <1>3, MoveFacts, AnchorQuiet
  DEF CreateManifest, Steps, OwnerSteps, CopySteps
<1>4. CASE manifest[j] = None
  <2>1. /\ manifest' = [manifest EXCEPT ![j] = call[c].req] /\ record' = record
        /\ Goto(c, "logSubmission")
    BY <1>4 DEF CreateManifest
  <2>2. /\ OthersKeep(c) /\ call'[c].pc = "logSubmission" /\ call'[c].job = j
    BY <1>1, <2>1, GotoFacts DEF SameFields
  <2>3. record[j] = None /\ \A d \in Callers : Owns(d) => call[d].job # j
    BY <1>1, <1>4 DEF AnchorInv, RecordIsAnchored, Anchored
  <2>4. manifest'[j] # None /\ \A i \in Jobs \ {j} : manifest'[i] = manifest[i]
    BY <1>1, <2>1 DEF TypeInv, TypeOK
  <2>5. Anchored(c)'
    BY <2>1, <2>2, <2>3, <2>4 DEF Anchored, Owns, At, CopySteps
  <2>. QED BY <1>1, <1>2, <2>1, <2>2, <2>3, <2>4, <2>5, AnchorOwn
<1>. QED BY <1>3, <1>4

LEMMA AnchorLogSubmission ==
    ASSUME AnchorInv, TypeInv', NEW c \in Callers, NEW j \in Jobs, call[c].job = j,
           LogSubmission(c) \/ LogSubmissionFails(c)
    PROVE  AnchorInv'
<1>1. j \in Jobs /\ call[c].pc = "logSubmission" /\ TypeInv
  BY CallTyped DEF LogSubmission, LogSubmissionFails, At, AnchorInv
<1>2. Owns(c) /\ record[j] = None /\ manifest[j] # None
  BY <1>1 DEF Owns, OwnerSteps, AnchorInv, Anchored
<1>3. /\ record' = record /\ manifest' = manifest
      /\ \/ Log(j, "submitted", None, None) /\ Goto(c, "createRecord")
         \/ (Log(j, "submitted", None, None) \/ UNCHANGED audit) /\ Goto(c, "removeManifest")
  BY DEF LogSubmission, LogSubmissionFails
<1>4. /\ AuditGrows /\ OthersKeep(c) /\ call'[c].job = j
      /\ \/ call'[c].pc = "createRecord" /\ Logged(j, "submitted")'
         \/ call'[c].pc = "removeManifest"
  BY <1>1, <1>3, LogGrows, SameAuditGrows, GotoFacts DEF SameFields
<1>5. Anchored(c)'
  BY <1>2, <1>3, <1>4 DEF Anchored, Owns, At, OwnerSteps, CopySteps
<1>. QED BY <1>1, <1>2, <1>3, <1>4, <1>5, AnchorOwn

LEMMA AnchorRemoveManifest ==
    ASSUME AnchorInv, TypeInv', NEW c \in Callers, NEW j \in Jobs, call[c].job = j,
           RemoveManifest(c)
    PROVE  AnchorInv'
<1>1. j \in Jobs /\ Owns(c) /\ record[j] = None /\ TypeInv
  BY CallTyped DEF RemoveManifest, At, AnchorInv, Anchored, Owns, OwnerSteps
<1>2. /\ record' = record /\ OthersKeep(c) /\ call'[c].pc = "idle" /\ AuditGrows
      /\ \A i \in Jobs \ {j} : manifest'[i] = manifest[i]
  BY <1>1, ReturnFacts, SameAuditGrows DEF RemoveManifest, TypeInv, TypeOK
<1>3. Anchored(c)' /\ ~Owns(c)'
  BY <1>2 DEF Anchored, Owns, At, OwnerSteps, CopySteps
<1>. QED BY <1>1, <1>2, <1>3, AnchorOwn

LEMMA AnchorCreateRecord ==
    ASSUME AnchorInv, TypeInv', NEW c \in Callers, NEW j \in Jobs, call[c].job = j,
           CreateRecord(c)
    PROVE  AnchorInv'
<1>1. /\ j \in Jobs /\ Owns(c) /\ TypeInv
      /\ record[j] = None /\ manifest[j] # None /\ Logged(j, "submitted")
  BY CallTyped DEF CreateRecord, At, AnchorInv, Anchored, Owns, OwnerSteps
<1>2. /\ record' = [record EXCEPT ![j] = NewRecord] /\ BeginTransition(c, "queued")
      /\ manifest' = manifest /\ audit' = audit
  BY <1>1 DEF CreateRecord
<1>3. /\ OthersKeep(c) /\ call'[c].pc = "readRecord" /\ AuditGrows
      /\ \A i \in Jobs \ {j} : record'[i] = record[i]
      /\ record'[j] = NewRecord
  BY <1>1, <1>2, TransitionFacts, SameAuditGrows DEF TypeInv, TypeOK
<1>4. NewRecord # None
  BY NewRecordTyped
<1>5. Anchored(c)' /\ ~Owns(c)'
  BY <1>3 DEF Anchored, Owns, At, OwnerSteps, CopySteps
<1>6. Logged(j, "submitted")'
  BY <1>1, <1>2 DEF Logged
<1>. QED BY <1>1, <1>2, <1>3, <1>4, <1>5, <1>6, AnchorOwn

LEMMA AnchorTransition ==
    ASSUME AnchorInv, TypeInv', NEW c \in Callers, NEW j \in Jobs, call[c].job = j,
           ReadRecord(c) \/ AppendState(c) \/ WriteRecord(c)
    PROVE  AnchorInv'
<1>1. j \in Jobs /\ TypeInv /\ ~Owns(c)
  BY CallTyped DEF ReadRecord, AppendState, WriteRecord, At, AnchorInv, Owns, OwnerSteps
<1>2. manifest' = manifest /\ audit' = audit /\ AuditGrows
  BY SameAuditGrows DEF ReadRecord, AppendState, WriteRecord, disk
<1>3. CASE ReadRecord(c)
  <2>1. record' = record /\ OthersKeep(c)
    BY <1>1, <1>3, ReadFacts DEF ReadRecord, disk
  <2>2. /\ call'[c].pc \in {"idle", "appendState"} /\ (call'[c].pc = "appendState" =>
              call'[c].job = j /\ record[j] # None)
    BY <1>1, <1>3, ReadFacts
  <2>3. Anchored(c)' /\ ~Owns(c)'
    BY <2>1, <2>2 DEF Anchored, Owns, At, OwnerSteps, CopySteps
  <2>4. record'[j] # None => manifest'[j] # None /\ Logged(j, "submitted")'
    BY <1>1, <1>2, <2>1 DEF AnchorInv, RecordIsAnchored, Logged
  <2>. QED BY <1>1, <1>2, <2>1, <2>3, <2>4, AnchorOwn
<1>4. CASE AppendState(c)
  <2>1. /\ record' = record /\ OthersKeep(c)
        /\ call'[c].pc = "writeRecord" /\ call'[c].job = j
    BY <1>1, <1>4, GotoFacts DEF AppendState, SameFields
  <2>2. record[j] # None
    BY <1>4 DEF AnchorInv, Anchored, AppendState, At, CopySteps
  <2>3. Anchored(c)' /\ ~Owns(c)'
    BY <2>1, <2>2 DEF Anchored, Owns, At, OwnerSteps, CopySteps
  <2>4. record'[j] # None => manifest'[j] # None /\ Logged(j, "submitted")'
    BY <1>1, <1>2, <2>1 DEF AnchorInv, RecordIsAnchored, Logged
  <2>. QED BY <1>1, <1>2, <2>1, <2>3, <2>4, AnchorOwn
<1>5. CASE WriteRecord(c)
  <2>1. OthersKeep(c) /\ call'[c].pc \in {"idle", "run"}
    BY <1>1, <1>5, GotoFacts, ReturnFacts DEF WriteRecord
  <2>2. record[j] # None
    BY <1>5 DEF AnchorInv, Anchored, WriteRecord, At, CopySteps
  <2>3. /\ record'[j] = NextRecord(c) /\ \A i \in Jobs \ {j} : record'[i] = record[i]
    BY <1>1, <1>5 DEF WriteRecord, TypeInv, TypeOK
  <2>4. record'[j] # None
    BY <1>1, <1>5, <2>3, NextRecordTyped DEF WriteRecord
  <2>5. Anchored(c)' /\ ~Owns(c)'
    BY <2>1 DEF Anchored, Owns, At, OwnerSteps, CopySteps
  <2>6. manifest'[j] # None /\ Logged(j, "submitted")'
    BY <1>1, <1>2, <2>2 DEF AnchorInv, RecordIsAnchored, Logged
  <2>. QED BY <1>1, <1>2, <2>1, <2>2, <2>3, <2>4, <2>5, <2>6, AnchorOwn
<1>. QED BY <1>3, <1>4, <1>5

LEMMA AnchorStep ==
    ASSUME AnchorInv, TypeInv', NEW c \in Callers, ~At(c, "idle"),
           Step(c) \/ LogSubmissionFails(c) \/ Abandon(c)
    PROVE  AnchorInv'
<1>. DEFINE Quiet == OwnerSteps \cup CopySteps
<1>1. TypeInv /\ call[c].job \in Jobs /\ Quiet \in SUBSET Steps
  BY CallTyped DEF AnchorInv, OwnerSteps, CopySteps, Steps
<1>. USE <1>1 DEF Steps, OwnerSteps, CopySteps, disk
<1>0. CASE CreateManifest(c)
  BY <1>0, AnchorCreateManifest
<1>2. CASE LogSubmission(c) \/ LogSubmissionFails(c)
  BY <1>2, AnchorLogSubmission
<1>3. CASE RemoveManifest(c)
  BY <1>3, AnchorRemoveManifest
<1>4. CASE CreateRecord(c)
  BY <1>4, AnchorCreateRecord
<1>5. CASE CheckExisting(c)
  BY <1>5, MoveFacts, SameAuditGrows, AnchorQuiet DEF CheckExisting
<1>6. CASE AnswerRetry(c)
  BY <1>6, MoveFacts, SameAuditGrows, AnchorQuiet DEF AnswerRetry
<1>7. CASE ReadRecord(c) \/ AppendState(c) \/ WriteRecord(c)
  BY <1>7, AnchorTransition
<1>8. CASE LogStart(c)
  <2>1. AuditGrows
    BY <1>8, LogGrows, SameAuditGrows DEF LogStart, LogStarted
  <2>. QED BY <1>8, <2>1, MoveFacts, AnchorQuiet DEF LogStart, LogStarted
<1>9. CASE RunJob(c)
  BY <1>9, RunFacts, SameAuditGrows, AnchorQuiet DEF RunJob, MovesOutside
<1>10. CASE StoreResult(c)
  BY <1>10, MoveFacts, SameAuditGrows, AnchorQuiet DEF StoreResult
<1>11. CASE StoreReceipt(c)
  BY <1>11, MoveFacts, SameAuditGrows, AnchorQuiet DEF StoreReceipt
<1>12. CASE LogReceipt(c) \/ LogReport(c) \/ LogFinish(c)
  <2>1. AuditGrows
    BY <1>12, LogGrows DEF LogReceipt, LogReport, LogFinish
  <2>. QED BY <1>12, <2>1, MoveFacts, AnchorQuiet DEF LogReceipt, LogReport, LogFinish
<1>13. CASE CheckReport(c)
  <2>1. Return(c) \/ Goto(c, "checkFinish") \/ Goto(c, "logReport")
    BY <1>13 DEF CheckReport
  <2>. QED BY <1>13, <2>1, MoveFacts, SameAuditGrows, AnchorQuiet DEF CheckReport
<1>14. CASE CheckFinish(c)
  <2>1. \/ Return(c) \/ Goto(c, "logFinish")
        \/ BeginTransition(c, TerminalState(call[c].outcome))
    BY <1>14, Zenon DEF CheckFinish
  <2>. QED BY <1>14, <2>1, MoveFacts, SameAuditGrows, AnchorQuiet DEF CheckFinish
<1>15. CASE Abandon(c)
  BY <1>15, MoveFacts, SameAuditGrows, AnchorQuiet DEF Abandon
<1>. QED
  BY <1>0, <1>2, <1>3, <1>4, <1>5, <1>6, <1>7, <1>8, <1>9, <1>10, <1>11, <1>12, <1>13, <1>14,
     <1>15 DEF Step

LEMMA NotIdle ==
    ASSUME NEW c \in Callers, Step(c) \/ LogSubmissionFails(c) \/ Abandon(c)
    PROVE  ~At(c, "idle")
  BY DEF At, Step, LogSubmissionFails, Abandon, CreateManifest, LogSubmission, RemoveManifest,
     CreateRecord, CheckExisting, AnswerRetry, ReadRecord, AppendState, WriteRecord, LogStart,
     RunJob, StoreResult, StoreReceipt, LogReceipt, CheckReport, LogReport, CheckFinish, LogFinish

LEMMA AnchorNext == AnchorInv /\ [Next]_vars => AnchorInv'
<1>. SUFFICES ASSUME AnchorInv, [Next]_vars PROVE AnchorInv'
  OBVIOUS
<1>1. TypeInv /\ TypeInv'
  BY NextTypeInv DEF AnchorInv
<1>2. CASE UNCHANGED vars
  BY <1>1, <1>2
  DEF AnchorInv, RecordIsAnchored, SoleOwner, Anchored, Owns, At, Logged, vars, disk
<1>3. ASSUME NEW c \in Callers, NEW j \in Jobs,
             \/ \E r \in Requests : Submit(c, j, r)
             \/ \E w \in Workers : Execute(c, j, w)
             \/ Cancel(c, j)
      PROVE  AnchorInv'
  <2>1. MovesOutside(c, OwnerSteps \cup CopySteps) /\ UNCHANGED <<manifest, record, audit>>
    BY <1>1, <1>3, BeginFacts DEF MovesOutside, disk, OwnerSteps, CopySteps
  <2>. QED BY <1>1, <2>1, SameAuditGrows, AnchorQuiet
<1>. QED BY <1>1, <1>2, <1>3, AnchorStep, NotIdle DEF Next, Quiesced

LEMMA InitAnchorInv == Init => AnchorInv
  BY InitTypeInv
  DEF Init, AnchorInv, RecordIsAnchored, SoleOwner, Anchored, Owns, At, OwnerSteps, CopySteps,
      Idle, NewCall

(* A status record exists only beside its manifest and after the logged    *)
(* submission, whoever else submits, cleans up or executes.                *)
THEOREM RecordAnchored == Spec => []RecordIsAnchored
<1>1. AnchorInv => RecordIsAnchored
  BY DEF AnchorInv
<1>. QED BY <1>1, InitAnchorInv, AnchorNext, PTL DEF Spec

(* No step changes the manifest of a job that has a status record.         *)
THEOREM ManifestKept == Spec => ManifestImmutable
<1>1. AnchorInv /\ [Next]_vars =>
         [\A j \in Jobs : record[j] # None => manifest'[j] = manifest[j]]_vars
  <2>. SUFFICES ASSUME AnchorInv, Next, NEW j \in Jobs, record[j] # None
                PROVE  manifest'[j] = manifest[j]
    OBVIOUS
  <2>1. CASE \E c \in Callers : CreateManifest(c)
    BY <2>1 DEF CreateManifest, AnchorInv, RecordIsAnchored, TypeInv, TypeOK
  <2>2. CASE \E c \in Callers : RemoveManifest(c)
    <3>1. PICK c \in Callers : RemoveManifest(c)
      BY <2>2
    <3>2. call[c].job # j
      BY <3>1 DEF AnchorInv, Anchored, Owns, OwnerSteps, RemoveManifest, At
    <3>. QED BY <3>1, <3>2 DEF RemoveManifest, AnchorInv, TypeInv, TypeOK
  <2>3. CASE UNCHANGED manifest
    BY <2>3
  <2>. QED
    BY <2>1, <2>2, <2>3
    DEF Next, Quiesced, vars, disk, Submit, Execute, Cancel, Step, LogSubmissionFails, Abandon,
        LogSubmission, CreateRecord, CheckExisting, AnswerRetry, ReadRecord, AppendState,
        WriteRecord, LogStart, RunJob, StoreResult, StoreReceipt, LogReceipt, CheckReport,
        LogReport, CheckFinish, LogFinish
<1>. QED BY <1>1, InitAnchorInv, AnchorNext, PTL DEF Spec, ManifestImmutable

(* A status record never outruns what it rests on: manifest, logged        *)
(* submission and the audit lines of its transitions come first.           *)
THEOREM RecordFounded == Spec => []RecordIsFounded
BY TrailLeads, RecordAnchored, PTL DEF RecordIsFounded

-----------------------------------------------------------------------------
(***************************************************************************)
(* Attribution: EvidenceChain and CreditIsEarned.                          *)
(*                                                                         *)
(* The argument: result and receipt are created exclusively, so at most    *)
(* one call per job ever gets past its result (SoleReporter) and all later *)
(* evidence carries that call's worker and outcome.  Nothing it relies on  *)
(* is taken back (Monotone): documents are never replaced, audit files     *)
(* only grow.                                                              *)
(***************************************************************************)
Started(j, w) ==
    \E i \in DOMAIN audit[j] : audit[j][i].type = "started" /\ audit[j][i].by = w

(* The call has run, or is bound to run, the job it logged the start of.   *)
Running(c) ==
    \/ call[c].outcome \in RunOutcomes
    \/ call[c].pc = "run"
    \/ call[c].pc \in TransitionSteps /\ call[c].target = "running"

(* The call has stored its result.                                         *)
Reporting(c) == call[c].outcome \in RunOutcomes /\ call[c].pc # "storeResult"

CallEvidence(c) ==
    LET k == call[c]
        j == k.job
    IN
    /\ Running(c) => Started(j, k.by)
    /\ k.outcome \in RunOutcomes => k.pc # "idle" /\ attempts[j] > 0
    /\ Reporting(c) => result[j] = ResultOf(k)
    /\ Reporting(c) /\ k.pc # "storeReceipt" => receipt[j] = ReceiptOf(k)
    /\ k.pc \in {"checkReport", "logReport"} => Logged(j, "receipt")
    /\ Reporting(c) /\ k.pc \in TransitionSteps => Logged(j, "finished")

SoleReporter ==
    \A c, d \in Callers : Reporting(c) /\ Reporting(d) /\ call[c].job = call[d].job => c = d

ReceiptMatches(j) ==
    receipt[j] # None =>
        /\ result[j] # None
        /\ receipt[j].by = result[j].by /\ receipt[j].req = result[j].req
        /\ receipt[j].accepted = (result[j].outcome = "completed")

EventsMatch(j) ==
    \A i \in DOMAIN audit[j] :
        /\ audit[j][i].type \in {"receipt", "reported"} =>
              receipt[j] # None /\ audit[j][i].by = receipt[j].by
        /\ audit[j][i].type = "reported" =>
              \E h \in 1..(i - 1) : audit[j][h].type = "receipt"

RecordMatches(j) ==
    record[j] # None /\ record[j].evidence # None =>
        /\ receipt[j] # None
        /\ record[j].evidence.by = receipt[j].by /\ record[j].evidence.req = receipt[j].req
        /\ receipt[j].accepted <=> record[j].status = "succeeded"
        /\ attempts[j] > 0
        /\ Logged(j, "finished")
        /\ Started(j, receipt[j].by)

EvidenceInv ==
    /\ TypeInv
    /\ SoleReporter
    /\ \A c \in Callers : CallEvidence(c)
    /\ \A j \in Jobs : ReceiptMatches(j) /\ EventsMatch(j) /\ RecordMatches(j)

(* What no step takes back.                                                *)
Monotone ==
    /\ AuditGrows
    /\ \A j \in Jobs :
          /\ result[j] # None => result'[j] = result[j]
          /\ receipt[j] # None => receipt'[j] = receipt[j]
          /\ attempts[j] > 0 => attempts'[j] > 0
          /\ \A w : Started(j, w) => Started(j, w)'

LEMMA LogFacts ==
    ASSUME TypeInv, NEW j \in Jobs, NEW type, NEW by, NEW outcome, Log(j, type, by, outcome)
    PROVE  /\ \A i \in Jobs \ {j} : audit'[i] = audit[i]
           /\ Len(audit[j]) \in Nat
           /\ DOMAIN audit[j] = 1..Len(audit[j])
           /\ DOMAIN audit'[j] = 1..(Len(audit[j]) + 1)
           /\ \A i \in DOMAIN audit[j] : audit'[j][i] = audit[j][i]
           /\ audit'[j][Len(audit[j]) + 1].type = type
           /\ audit'[j][Len(audit[j]) + 1].by = by
           /\ audit'[j][Len(audit[j]) + 1].outcome = outcome
<1>. DEFINE e == [type |-> type, by |-> by, outcome |-> outcome]
            old == audit[j]
            new == Append(old, e)
<1>1. old \in Seq(Events)
  BY DEF TypeInv, TypeOK
<1>2. audit'[j] = new /\ \A i \in Jobs \ {j} : audit'[i] = audit[i]
  BY DEF Log, TypeInv, TypeOK
<1>3. e.type = type /\ e.by = by /\ e.outcome = outcome
  OBVIOUS
<1>. HIDE DEF e
<1>4. /\ Len(old) \in Nat /\ DOMAIN old = 1..Len(old)
      /\ DOMAIN new = 1..(Len(old) + 1)
      /\ \A i \in DOMAIN old : new[i] = old[i]
      /\ new[Len(old) + 1] = e
  BY <1>1
<1>. HIDE DEF new
<1>. QED BY <1>2, <1>3, <1>4

LEMMA LogStarts ==
    ASSUME TypeInv, NEW j \in Jobs, NEW type, NEW by, NEW outcome, Log(j, type, by, outcome)
    PROVE  /\ \A i \in Jobs : \A w : Started(i, w) => Started(i, w)'
           /\ type = "started" => Started(j, by)'
  BY LogFacts DEF Started

LEMMA LogMonotone ==
    ASSUME TypeInv, NEW j \in Jobs, NEW type, NEW by, NEW outcome, Log(j, type, by, outcome),
           UNCHANGED <<result, receipt, attempts>>
    PROVE  Monotone
  BY LogGrows, LogStarts DEF Monotone

LEMMA StillMonotone ==
    ASSUME TypeInv, UNCHANGED audit,
           \A j \in Jobs : /\ result[j] # None => result'[j] = result[j]
                           /\ receipt[j] # None => receipt'[j] = receipt[j]
                           /\ attempts[j] > 0 => attempts'[j] > 0
    PROVE  Monotone
  BY SameAuditGrows DEF Monotone, Started

LEMMA DocsExist ==
    ASSUME TypeInv, NEW c \in Callers, call[c].outcome \in RunOutcomes
    PROVE  ResultOf(call[c]) # None /\ ReceiptOf(call[c]) # None
<1>. DEFINE passed == call[c].outcome = "completed"
<1>1. call[c].by \in Workers /\ call[c].req \in Requests
  BY DEF TypeInv, Shape, CallShape
<1>2. ResultOf(call[c]) \in Results
  BY <1>1 DEF ResultOf, Results
<1>3. passed \in BOOLEAN
  OBVIOUS
<1>. HIDE DEF passed
<1>4. [by |-> call[c].by, accepted |-> passed, req |-> call[c].req] \in Receipts
  BY <1>1, <1>3 DEF Receipts
<1>5. ReceiptOf(call[c]) = [by |-> call[c].by, accepted |-> passed, req |-> call[c].req]
  BY DEF ReceiptOf, passed
<1>. QED BY <1>2, <1>4, <1>5

LEMMA OtherCallKeeps ==
    ASSUME EvidenceInv, Monotone, NEW d \in Callers, call'[d] = call[d]
    PROVE  CallEvidence(d)'
<1>. DEFINE k == call[d]
<1>1. CallEvidence(d)
  BY DEF EvidenceInv
<1>2. CASE k.pc = "idle"
  BY <1>1, <1>2 DEF CallEvidence, Running, Reporting, TransitionSteps
<1>3. CASE k.pc # "idle"
  <2>1. k.job \in Jobs
    BY <1>3, CallTyped DEF At, EvidenceInv
  <2>2. Reporting(d) => ResultOf(k) # None /\ ReceiptOf(k) # None
    BY DocsExist DEF EvidenceInv, Reporting
  <2>. QED BY <1>1, <2>1, <2>2
           DEF Monotone, AuditGrows, EventTypes, CallEvidence, Running, Reporting, ResultOf, ReceiptOf
<1>. QED BY <1>2, <1>3

(* What one job's evidence needs of a step. *)
LEMMA ReceiptKeeps ==
    ASSUME Monotone, NEW j \in Jobs, ReceiptMatches(j), receipt'[j] = receipt[j]
    PROVE  ReceiptMatches(j)'
  BY DEF Monotone, ReceiptMatches

LEMMA EventsKeep ==
    ASSUME Monotone, NEW j \in Jobs, EventsMatch(j), audit'[j] = audit[j]
    PROVE  EventsMatch(j)'
  BY DEF Monotone, EventsMatch

LEMMA RecordKeeps ==
    ASSUME Monotone, NEW j \in Jobs, RecordMatches(j),
           record'[j] = record[j] \/ record'[j].evidence = None
    PROVE  RecordMatches(j)'
<1>1. CASE record'[j].evidence = None
  BY <1>1 DEF RecordMatches
<1>2. CASE record'[j] = record[j]
  <2>. SUFFICES ASSUME record[j] # None, record[j].evidence # None
                PROVE  RecordMatches(j)'
    BY <1>2 DEF RecordMatches
  <2>1. receipt'[j] = receipt[j]
    BY DEF RecordMatches, Monotone
  <2>. QED BY <1>2, <2>1 DEF RecordMatches, Monotone, AuditGrows, EventTypes
<1>. QED BY <1>1, <1>2

(* A logged event that is neither a receipt event nor a report.            *)
LEMMA OtherEventKeeps ==
    ASSUME EvidenceInv, Monotone, NEW j \in Jobs, NEW type, NEW by, NEW outcome,
           Log(j, type, by, outcome), type \notin {"receipt", "reported"}, NEW i \in Jobs
    PROVE  EventsMatch(i)'
<1>1. TypeInv /\ EventsMatch(i)
  BY DEF EvidenceInv
<1>2. CASE i # j
  BY <1>1, <1>2, LogFacts, EventsKeep
<1>3. CASE i = j
  <2>1. /\ Len(audit[j]) \in Nat /\ DOMAIN audit[j] = 1..Len(audit[j])
        /\ DOMAIN audit'[j] = 1..(Len(audit[j]) + 1)
        /\ \A h \in DOMAIN audit[j] : audit'[j][h] = audit[j][h]
        /\ audit'[j][Len(audit[j]) + 1].type = type
    BY <1>1, LogFacts
  <2>. SUFFICES ASSUME NEW n \in DOMAIN audit'[j],
                       audit'[j][n].type \in {"receipt", "reported"}
                PROVE  /\ receipt'[j] # None /\ audit'[j][n].by = receipt'[j].by
                       /\ audit'[j][n].type = "reported" =>
                             \E h \in 1..(n - 1) : audit'[j][h].type = "receipt"
    BY <1>3 DEF EventsMatch
  <2>2. n \in 1..Len(audit[j]) /\ audit'[j][n] = audit[j][n]
    BY <2>1
  <2>3. receipt[j] # None /\ audit[j][n].by = receipt[j].by
    BY <1>1, <1>3, <2>1, <2>2 DEF EventsMatch
  <2>4. receipt'[j] = receipt[j]
    BY <2>3 DEF Monotone
  <2>5. ASSUME audit[j][n].type = "reported"
        PROVE  \E h \in 1..(n - 1) : audit'[j][h].type = "receipt"
    <3>1. PICK h \in 1..(n - 1) : audit[j][h].type = "receipt"
      BY <1>1, <1>3, <2>1, <2>2, <2>5 DEF EventsMatch
    <3>2. h \in DOMAIN audit[j]
      BY <2>1, <2>2
    <3>. QED BY <2>1, <3>1, <3>2
  <2>. QED BY <2>2, <2>3, <2>4, <2>5
<1>. QED BY <1>2, <1>3

(* A call of which CallEvidence asks nothing.                              *)
Vacant(c) ==
    /\ call[c].outcome \notin RunOutcomes
    /\ call[c].pc \notin {"run", "checkReport", "logReport"}
    /\ ~(call[c].pc \in TransitionSteps /\ call[c].target = "running")

LEMMA VacantEvidence ==
    ASSUME NEW c \in Callers, Vacant(c)'
    PROVE  CallEvidence(c)' /\ ~Reporting(c)'
  BY DEF Vacant, CallEvidence, Running, Reporting

LEMMA EvidenceFrame ==
    ASSUME EvidenceInv, TypeInv', Monotone, NEW c \in Callers, OthersKeep(c), CallEvidence(c)',
           \/ ~Reporting(c)'
           \/ /\ call'[c].job = call[c].job
              /\ \/ Reporting(c)
                 \/ \A d \in Callers : Reporting(d) => call[d].job # call[c].job,
           \A j \in Jobs : ReceiptMatches(j)' /\ EventsMatch(j)' /\ RecordMatches(j)'
    PROVE  EvidenceInv'
<1>1. ASSUME NEW d \in Callers PROVE CallEvidence(d)'
  BY OtherCallKeeps DEF OthersKeep
<1>2. SoleReporter'
  BY DEF EvidenceInv, SoleReporter, Reporting, OthersKeep
<1>. QED BY <1>1, <1>2 DEF EvidenceInv

(* No document changes, and no event about the receipt is logged.          *)
LEMMA JobsKeep ==
    ASSUME EvidenceInv, Monotone, NEW j \in Jobs, receipt' = receipt,
           \A i \in Jobs : record'[i] = record[i] \/ record'[i].evidence = None,
           \/ audit' = audit
           \/ \E type, by, outcome :
                 Log(j, type, by, outcome) /\ type \notin {"receipt", "reported"}
    PROVE  \A i \in Jobs : ReceiptMatches(i)' /\ EventsMatch(i)' /\ RecordMatches(i)'
<1>. TAKE i \in Jobs
<1>1. ReceiptMatches(i)' /\ RecordMatches(i)'
  BY ReceiptKeeps, RecordKeeps DEF EvidenceInv
<1>2. EventsMatch(i)'
  BY EventsKeep, OtherEventKeeps DEF EvidenceInv
<1>. QED BY <1>1, <1>2

LEMMA VacantKeeps ==
    ASSUME EvidenceInv, TypeInv', NEW c \in Callers, NEW j \in Jobs, OthersKeep(c), Vacant(c)',
           UNCHANGED <<result, receipt, attempts>>,
           \A i \in Jobs : record'[i] = record[i] \/ record'[i].evidence = None,
           \/ audit' = audit
           \/ \E type, by, outcome :
                 Log(j, type, by, outcome) /\ type \notin {"receipt", "reported"}
    PROVE  EvidenceInv'
<1>1. Monotone
  BY LogMonotone, StillMonotone DEF EvidenceInv
<1>. QED BY <1>1, JobsKeep, VacantEvidence, EvidenceFrame

LEMMA ReturnKeeps ==
    ASSUME EvidenceInv, TypeInv', NEW c \in Callers, NEW j \in Jobs, Return(c),
           UNCHANGED <<record, result, receipt, audit, attempts>>
    PROVE  EvidenceInv'
<1>1. OthersKeep(c) /\ Vacant(c)'
  BY ReturnFacts DEF EvidenceInv, Vacant, TransitionSteps, RunOutcomes, Outcomes
<1>. QED BY <1>1, VacantKeeps

LEMMA EvidenceSubmission ==
    ASSUME EvidenceInv, TypeInv', NEW c \in Callers, NEW j \in Jobs, call[c].job = j,
           \/ CreateManifest(c) \/ LogSubmission(c) \/ LogSubmissionFails(c)
           \/ RemoveManifest(c) \/ CreateRecord(c) \/ CheckExisting(c) \/ AnswerRetry(c)
    PROVE  EvidenceInv'
<1>1. TypeInv /\ call[c].outcome = None /\ None \notin RunOutcomes
  BY CallTyped
  DEF EvidenceInv, At, CallShape, SubmitSteps, Outcomes, CreateManifest, LogSubmission,
      LogSubmissionFails, RemoveManifest, CreateRecord, CheckExisting, AnswerRetry
<1>2. UNCHANGED <<result, receipt, attempts>>
  BY DEF CreateManifest, LogSubmission, LogSubmissionFails, RemoveManifest, CreateRecord,
         CheckExisting, AnswerRetry, disk, history
<1>3. /\ OthersKeep(c)
      /\ call'[c].outcome = None
      /\ \/ call'[c].pc \in SubmitSteps \cup {"idle"}
         \/ call'[c].pc = "readRecord" /\ call'[c].target = "queued"
  BY <1>1, GotoFacts, ReturnFacts, TransitionFacts
  DEF SameFields, SubmitSteps, CreateManifest, LogSubmission, LogSubmissionFails,
      RemoveManifest, CreateRecord, CheckExisting, AnswerRetry
<1>4. Vacant(c)'
  BY <1>1, <1>3 DEF Vacant, SubmitSteps, TransitionSteps
<1>5. \A i \in Jobs : record'[i] = record[i] \/ record'[i].evidence = None
  BY <1>1 DEF NewRecord, TypeInv, TypeOK, disk, CreateManifest, LogSubmission,
     LogSubmissionFails, RemoveManifest, CreateRecord, CheckExisting, AnswerRetry
<1>6. audit' = audit \/ Log(j, "submitted", None, None)
  BY DEF disk, CreateManifest, LogSubmission, LogSubmissionFails, RemoveManifest, CreateRecord,
         CheckExisting, AnswerRetry
<1>. QED BY <1>2, <1>3, <1>4, <1>5, <1>6, VacantKeeps

(* Moving on with the documents as they are: what the call relied on it    *)
(* still has, and what its new step asks for besides is given.             *)
LEMMA CallMovesOn ==
    ASSUME EvidenceInv, NEW c \in Callers, NEW j \in Jobs, call[c].job = j, ~At(c, "idle"),
           Monotone, SameFields(call[c], call'[c]), call'[c].pc # "idle",
           Running(c)' => Running(c),
           Reporting(c)' => Reporting(c),
           Reporting(c) /\ call'[c].pc # "storeReceipt" => call[c].pc # "storeReceipt",
           call'[c].pc \in {"checkReport", "logReport"} => Logged(j, "receipt")',
           Reporting(c) /\ call'[c].pc \in TransitionSteps => Logged(j, "finished")'
    PROVE  CallEvidence(c)'
<1>. DEFINE k == call[c]
<1>1. CallEvidence(c) /\ (k.outcome \in RunOutcomes => ResultOf(k) # None /\ ReceiptOf(k) # None)
  BY DocsExist DEF EvidenceInv
<1>2. /\ call'[c].job = j /\ call'[c].by = k.by /\ call'[c].outcome = k.outcome
      /\ call'[c].req = k.req
  BY DEF SameFields
<1>3. ResultOf(call'[c]) = ResultOf(k) /\ ReceiptOf(call'[c]) = ReceiptOf(k)
  BY <1>2 DEF ResultOf, ReceiptOf
<1>. PICK w : w = k.by
  OBVIOUS
<1>4. Running(c)' => Started(j, w)'
  BY <1>1 DEF CallEvidence, Monotone
<1>5. k.outcome \in RunOutcomes => attempts'[j] > 0
  BY <1>1 DEF CallEvidence, Monotone
<1>6. Reporting(c)' => result'[j] = ResultOf(k)
  BY <1>1 DEF CallEvidence, Monotone, Reporting
<1>7. Reporting(c)' /\ call'[c].pc # "storeReceipt" => receipt'[j] = ReceiptOf(k)
  BY <1>1 DEF CallEvidence, Monotone, Reporting
<1>. QED BY <1>2, <1>3, <1>4, <1>5, <1>6, <1>7 DEF CallEvidence

LEMMA EvidenceReadRecord ==
    ASSUME EvidenceInv, TypeInv', NEW c \in Callers, NEW j \in Jobs, call[c].job = j,
           ReadRecord(c)
    PROVE  EvidenceInv'
<1>1. TypeInv /\ call[c].pc = "readRecord" /\ CallEvidence(c) /\ ~At(c, "idle")
  BY DEF EvidenceInv, ReadRecord, At
<1>2. UNCHANGED <<record, result, receipt, audit, attempts>>
  BY DEF ReadRecord, disk, history
<1>3. CASE Return(c)
  BY <1>2, <1>3, ReturnKeeps
<1>4. CASE ~Return(c)
  <2>1. /\ OthersKeep(c) /\ call'[c].pc = "appendState"
        /\ call'[c].job = j /\ call'[c].by = call[c].by /\ call'[c].outcome = call[c].outcome
        /\ call'[c].target = call[c].target /\ call'[c].req = call[c].req
    <3>1. call' = [call EXCEPT ![c].pc = "appendState", ![c].seen = record[call[c].job]]
      BY <1>4 DEF ReadRecord
    <3>2. call'[c].pc = "appendState"
      BY <1>1, <3>1 DEF TypeInv, TypeOK, Calls
    <3>. QED BY <1>1, <3>2, ReadFacts
  <2>2. Monotone
    BY <1>1, <1>2, StillMonotone
  <2>3. CallEvidence(c)'
    BY <1>1, <1>2, <2>1
    DEF CallEvidence, Running, Reporting, TransitionSteps, ResultOf, ReceiptOf, Logged, Started
  <2>. QED
    BY <1>1, <1>2, <2>1, <2>2, <2>3, JobsKeep, EvidenceFrame DEF Reporting
<1>. QED BY <1>3, <1>4

LEMMA EvidenceAppendState ==
    ASSUME EvidenceInv, TypeInv', NEW c \in Callers, NEW j \in Jobs, call[c].job = j,
           AppendState(c)
    PROVE  EvidenceInv'
<1>1. TypeInv /\ call[c].pc = "appendState" /\ CallEvidence(c)
  BY DEF EvidenceInv, AppendState, At
<1>2. UNCHANGED <<record, result, receipt, audit, attempts>>
  BY DEF AppendState, history
<1>3. /\ OthersKeep(c) /\ call'[c].pc = "writeRecord"
      /\ call'[c].job = j /\ call'[c].by = call[c].by /\ call'[c].outcome = call[c].outcome
      /\ call'[c].target = call[c].target /\ call'[c].req = call[c].req
  BY <1>1, GotoFacts DEF AppendState, SameFields
<1>4. Monotone
  BY <1>1, <1>2, StillMonotone
<1>5. CallEvidence(c)'
  BY <1>1, <1>2, <1>3
  DEF CallEvidence, Running, Reporting, TransitionSteps, ResultOf, ReceiptOf, Logged, Started
<1>. QED BY <1>1, <1>2, <1>3, <1>4, <1>5, JobsKeep, EvidenceFrame DEF Reporting

LEMMA EvidenceWriteRecord ==
    ASSUME EvidenceInv, TypeInv', NEW c \in Callers, NEW j \in Jobs, call[c].job = j,
           WriteRecord(c)
    PROVE  EvidenceInv'
<1>. DEFINE k == call[c]
<1>1. TypeInv /\ k.pc = "writeRecord" /\ CallEvidence(c) /\ CallShape(k)
  BY CallTyped DEF EvidenceInv, WriteRecord, At
<1>2. UNCHANGED <<result, receipt, audit, attempts>> /\ Monotone
  BY <1>1, StillMonotone DEF WriteRecord
<1>3. /\ record'[j] = NextRecord(c) /\ \A i \in Jobs \ {j} : record'[i] = record[i]
  BY <1>1 DEF WriteRecord, TypeInv, TypeOK
<1>4. k.seen.evidence = None
  BY <1>1 DEF CallShape
<1>5. RecordMatches(j)'
  <2>1. CASE k.target \notin {"succeeded", "failed"}
    <3>1. NextRecord(c).evidence = None
      BY <1>4, <2>1 DEF NextRecord
    <3>. QED BY <1>2, <1>3, <3>1, RecordKeeps DEF EvidenceInv
  <2>2. CASE k.target \in {"succeeded", "failed"}
    <3>1. k.outcome \in RunOutcomes /\ k.target = TerminalState(k.outcome)
      BY <1>1, <2>2 DEF CallShape, TransitionSteps, TerminalState, Outcomes
    <3>2. /\ Started(j, k.by) /\ attempts[j] > 0 /\ Logged(j, "finished")
          /\ receipt[j] = ReceiptOf(k)
      BY <1>1, <3>1 DEF CallEvidence, Running, Reporting, TransitionSteps
    <3>3. receipt[j] # None /\ receipt[j].by = k.by /\ receipt[j].req = k.req
      BY <1>1, <3>1, <3>2, DocsExist DEF ReceiptOf
    <3>4. receipt[j].accepted = (k.outcome = "completed")
      <4>. DEFINE passed == k.outcome = "completed"
      <4>1. receipt[j] = [by |-> k.by, accepted |-> passed, req |-> k.req]
        BY <3>2, Zenon DEF ReceiptOf
      <4>. HIDE DEF passed
      <4>2. receipt[j].accepted = passed
        BY <4>1
      <4>. QED BY <4>2 DEF passed
    <3>5. k.outcome = "completed" <=> k.target = "succeeded"
      BY <2>2, <3>1 DEF TerminalState, RunOutcomes
    <3>6. /\ NextRecord(c).evidence.by = k.by /\ NextRecord(c).evidence.req = k.req
          /\ NextRecord(c).status = k.target
      BY <2>2 DEF NextRecord
    <3>7. receipt[j].accepted <=> record'[j].status = "succeeded"
      BY <1>3, <3>4, <3>5, <3>6
    <3>8. /\ Started(j, receipt[j].by)
          /\ record'[j].evidence.by = receipt[j].by /\ record'[j].evidence.req = receipt[j].req
      BY <1>3, <3>2, <3>3, <3>6
    <3>9. Started(j, receipt[j].by)' /\ Logged(j, "finished")'
      BY <1>2, <3>2, <3>8 DEF Started, Logged
    <3>. QED BY <1>2, <3>2, <3>3, <3>7, <3>8, <3>9 DEF RecordMatches
  <2>. QED BY <2>1, <2>2
<1>6. \A i \in Jobs : ReceiptMatches(i)' /\ EventsMatch(i)' /\ RecordMatches(i)'
  BY <1>2, <1>3, <1>5, ReceiptKeeps, EventsKeep, RecordKeeps DEF EvidenceInv
<1>7. OthersKeep(c) /\ CallEvidence(c)' /\ ~Reporting(c)'
  <2>1. CASE k.target = "running"
    <3>1. /\ OthersKeep(c) /\ call'[c].pc = "run" /\ call'[c].job = j /\ call'[c].by = k.by
          /\ call'[c].outcome = k.outcome
      BY <1>1, <2>1, GotoFacts DEF WriteRecord, SameFields
    <3>2. k.outcome \notin RunOutcomes
      BY <1>1, <2>1, TerminalStateType
      DEF CallShape, TransitionSteps, Terminal, RunOutcomes, Outcomes
    <3>. PICK w : w = k.by
      OBVIOUS
    <3>3. Started(j, w)
      BY <1>1, <2>1 DEF CallEvidence, Running, TransitionSteps
    <3>4. Started(j, w)'
      BY <1>2, <3>3 DEF Started
    <3>. QED BY <3>1, <3>2, <3>4 DEF CallEvidence, Reporting, TransitionSteps
  <2>2. CASE k.target # "running"
    <3>1. OthersKeep(c) /\ Vacant(c)'
      BY <1>1, <2>2, ReturnFacts DEF WriteRecord, Vacant, TransitionSteps, RunOutcomes, Outcomes
    <3>. QED BY <3>1, VacantEvidence
  <2>. QED BY <2>1, <2>2
<1>. QED BY <1>2, <1>6, <1>7, EvidenceFrame

LEMMA EvidenceLogStart ==
    ASSUME EvidenceInv, TypeInv', NEW c \in Callers, NEW j \in Jobs, call[c].job = j,
           LogStart(c)
    PROVE  EvidenceInv'
<1>. PICK w : w = call[c].by
  OBVIOUS
<1>1. TypeInv /\ call[c].outcome = None /\ None \notin RunOutcomes
      /\ UNCHANGED <<record, result, receipt, attempts>>
  BY CallTyped DEF EvidenceInv, LogStart, At, CallShape, Outcomes, history
<1>2. CASE manifest[j] = None
  BY <1>1, <1>2, ReturnKeeps DEF LogStart
<1>3. CASE manifest[j] # None
  <2>1. Log(j, "started", w, None) /\ HoldManifest(c)
    BY <1>3 DEF LogStart, LogStarted
  <2>2. Monotone /\ Started(j, w)'
    BY <1>1, <2>1, LogMonotone, LogStarts
  <2>3. /\ OthersKeep(c) /\ call'[c].pc = "readRecord" /\ call'[c].job = j
        /\ call'[c].by = w /\ call'[c].outcome = None
    BY <1>1, <2>1, HoldFacts
  <2>4. CallEvidence(c)' /\ ~Reporting(c)'
    BY <1>1, <2>2, <2>3 DEF CallEvidence, Reporting
  <2>. QED BY <1>1, <2>1, <2>2, <2>3, <2>4, JobsKeep, EvidenceFrame
<1>. QED BY <1>2, <1>3

LEMMA EvidenceRunJob ==
    ASSUME EvidenceInv, TypeInv', NEW c \in Callers, NEW j \in Jobs, call[c].job = j,
           RunJob(c)
    PROVE  EvidenceInv'
<1>. PICK w : w = call[c].by
  OBVIOUS
<1>1. TypeInv /\ call[c].pc = "run" /\ UNCHANGED <<record, result, receipt, audit>>
  BY DEF EvidenceInv, RunJob, At, disk
<1>2. Started(j, w)
  BY <1>1 DEF EvidenceInv, CallEvidence, Running
<1>3. attempts'[j] > 0 /\ \A i \in Jobs : attempts[i] > 0 => attempts'[i] > 0
  BY DEF RunJob, EvidenceInv, TypeInv, TypeOK
<1>4. Monotone
  BY <1>1, <1>3, StillMonotone
<1>5. /\ OthersKeep(c) /\ call'[c].pc = "storeResult" /\ call'[c].job = j /\ call'[c].by = w
  BY <1>1, RunFacts
<1>6. CallEvidence(c)' /\ ~Reporting(c)'
  BY <1>1, <1>2, <1>3, <1>5 DEF CallEvidence, Reporting, Started
<1>. QED BY <1>1, <1>4, <1>5, <1>6, JobsKeep, EvidenceFrame

LEMMA EvidenceStoreResult ==
    ASSUME EvidenceInv, TypeInv', NEW c \in Callers, NEW j \in Jobs, call[c].job = j,
           StoreResult(c)
    PROVE  EvidenceInv'
<1>. PICK k : k = call[c]
  OBVIOUS
<1>1. /\ TypeInv /\ k.pc = "storeResult" /\ k.outcome \in RunOutcomes
      /\ UNCHANGED <<record, receipt, audit, attempts>>
  BY CallTyped DEF EvidenceInv, StoreResult, At, CallShape, ReportSteps, history
<1>2. CASE result[j] # None
  BY <1>1, <1>2, ReturnKeeps DEF StoreResult
<1>3. CASE result[j] = None
  <2>1. Goto(c, "storeReceipt") /\ result' = [result EXCEPT ![j] = ResultOf(k)]
    BY <1>3 DEF StoreResult, ResultOf
  <2>2. /\ result'[j] = ResultOf(k) /\ \A i \in Jobs \ {j} : result'[i] = result[i]
    BY <1>1, <2>1 DEF TypeInv, TypeOK
  <2>3. Monotone
    BY <1>1, <1>3, <2>2, StillMonotone
  <2>4. /\ OthersKeep(c) /\ call'[c].pc = "storeReceipt" /\ call'[c].job = j
        /\ call'[c].by = k.by /\ call'[c].outcome = k.outcome /\ call'[c].req = k.req
    BY <1>1, <2>1, GotoFacts DEF SameFields
  <2>5. ResultOf(call'[c]) = ResultOf(k)
    BY <2>4 DEF ResultOf
  <2>6. Started(j, k.by) /\ attempts[j] > 0
    BY <1>1 DEF EvidenceInv, CallEvidence, Running
  <2>7. CallEvidence(c)'
    BY <1>1, <2>2, <2>4, <2>5, <2>6 DEF CallEvidence, Reporting, Started, TransitionSteps
  <2>8. \A d \in Callers : Reporting(d) => call[d].job # j
    BY <1>1, <1>3, DocsExist DEF EvidenceInv, CallEvidence, Reporting
  <2>. QED BY <1>1, <2>3, <2>4, <2>7, <2>8, JobsKeep, EvidenceFrame
<1>. QED BY <1>2, <1>3

LEMMA EvidenceStoreReceipt ==
    ASSUME EvidenceInv, TypeInv', NEW c \in Callers, NEW j \in Jobs, call[c].job = j,
           StoreReceipt(c)
    PROVE  EvidenceInv'
<1>. PICK k : k = call[c]
  OBVIOUS
<1>1. /\ TypeInv /\ k.pc = "storeReceipt" /\ k.outcome \in RunOutcomes
      /\ UNCHANGED <<record, result, audit, attempts>>
  BY CallTyped DEF EvidenceInv, StoreReceipt, At, CallShape, ReportSteps, history
<1>2. CASE receipt[j] # None
  BY <1>1, <1>2, ReturnKeeps DEF StoreReceipt
<1>3. CASE receipt[j] = None
  <2>1. Goto(c, "logReceipt") /\ receipt' = [receipt EXCEPT ![j] = ReceiptOf(k)]
    BY <1>3, Zenon DEF StoreReceipt, ReceiptOf
  <2>2. /\ receipt'[j] = ReceiptOf(k) /\ \A i \in Jobs \ {j} : receipt'[i] = receipt[i]
    BY <1>1, <2>1 DEF TypeInv, TypeOK
  <2>3. Monotone
    BY <1>1, <1>3, <2>2, StillMonotone
  <2>4. /\ OthersKeep(c) /\ call'[c].pc = "logReceipt" /\ call'[c].job = j
        /\ call'[c].by = k.by /\ call'[c].outcome = k.outcome /\ call'[c].req = k.req
    BY <1>1, <2>1, GotoFacts DEF SameFields
  <2>5. ResultOf(call'[c]) = ResultOf(k) /\ ReceiptOf(call'[c]) = ReceiptOf(k)
    BY <2>4 DEF ResultOf, ReceiptOf
  <2>6. /\ Started(j, k.by) /\ attempts[j] > 0 /\ result[j] = ResultOf(k) /\ Reporting(c)
    BY <1>1 DEF EvidenceInv, CallEvidence, Running, Reporting
  <2>7. CallEvidence(c)'
    BY <1>1, <2>2, <2>4, <2>5, <2>6 DEF CallEvidence, Reporting, Started, TransitionSteps
  <2>8. ReceiptMatches(j)'
    <3>1. result[j] # None
      BY <1>1, <2>6, DocsExist
    <3>2. result[j].by = k.by /\ result[j].outcome = k.outcome /\ result[j].req = k.req
      BY <2>6 DEF ResultOf
    <3>. DEFINE passed == k.outcome = "completed"
    <3>3. receipt'[j] = [by |-> k.by, accepted |-> passed, req |-> k.req]
      BY <2>2, Zenon DEF ReceiptOf
    <3>. HIDE DEF passed
    <3>4. receipt'[j].by = k.by /\ receipt'[j].accepted = passed /\ receipt'[j].req = k.req
      BY <3>3
    <3>5. receipt'[j].accepted = (result[j].outcome = "completed")
      BY <3>2, <3>4 DEF passed
    <3>. QED BY <1>1, <3>1, <3>2, <3>4, <3>5 DEF ReceiptMatches
  <2>9. \A i \in Jobs : ReceiptMatches(i)' /\ EventsMatch(i)' /\ RecordMatches(i)'
    BY <1>1, <2>2, <2>3, <2>8, ReceiptKeeps, EventsKeep, RecordKeeps DEF EvidenceInv
  <2>. QED BY <2>3, <2>4, <2>6, <2>7, <2>9, EvidenceFrame
<1>. QED BY <1>2, <1>3

(* An event about the receipt, naming the receipt's worker.                *)
LEMMA ReceiptEventKeeps ==
    ASSUME EvidenceInv, NEW j \in Jobs, NEW type, NEW by, NEW outcome,
           Log(j, type, by, outcome), receipt' = receipt, receipt[j] # None,
           receipt[j].by = by, type = "reported" => Logged(j, "receipt"), NEW i \in Jobs
    PROVE  EventsMatch(i)'
<1>1. TypeInv /\ EventsMatch(i)
  BY DEF EvidenceInv
<1>2. /\ Len(audit[j]) \in Nat /\ DOMAIN audit[j] = 1..Len(audit[j])
      /\ DOMAIN audit'[j] = 1..(Len(audit[j]) + 1)
      /\ \A h \in DOMAIN audit[j] : audit'[j][h] = audit[j][h]
      /\ audit'[j][Len(audit[j]) + 1].type = type
      /\ audit'[j][Len(audit[j]) + 1].by = by
      /\ \A h \in Jobs \ {j} : audit'[h] = audit[h]
  BY <1>1, LogFacts
<1>3. CASE i # j
  BY <1>1, <1>2, <1>3 DEF EventsMatch
<1>4. CASE i = j
  <2>. SUFFICES ASSUME NEW n \in DOMAIN audit'[j]
                PROVE  /\ audit'[j][n].type \in {"receipt", "reported"} =>
                             receipt[j] # None /\ audit'[j][n].by = receipt[j].by
                       /\ audit'[j][n].type = "reported" =>
                             \E h \in 1..(n - 1) : audit'[j][h].type = "receipt"
    BY <1>4 DEF EventsMatch
  <2>1. CASE n \in DOMAIN audit[j]
    <3>1. audit[j][n].type = "reported" => \E h \in 1..(n - 1) : audit'[j][h].type = "receipt"
      <4>. HAVE audit[j][n].type = "reported"
      <4>1. PICK h \in 1..(n - 1) : audit[j][h].type = "receipt"
        BY <1>1, <1>4, <2>1 DEF EventsMatch
      <4>2. h \in DOMAIN audit[j]
        BY <1>2, <2>1
      <4>. QED BY <1>2, <4>1, <4>2
    <3>. QED BY <1>1, <1>2, <1>4, <2>1, <3>1 DEF EventsMatch
  <2>2. CASE n = Len(audit[j]) + 1
    <3>1. type = "reported" => \E h \in 1..(n - 1) : audit'[j][h].type = "receipt"
      <4>. HAVE type = "reported"
      <4>1. PICK h \in DOMAIN audit[j] : audit[j][h].type = "receipt"
        BY DEF Logged
      <4>2. h \in 1..(n - 1)
        BY <1>2, <2>2
      <4>. QED BY <1>2, <4>1, <4>2
    <3>. QED BY <1>2, <2>2, <3>1
  <2>. QED BY <1>2, <2>1, <2>2
<1>. QED BY <1>3, <1>4

LEMMA EvidenceReceiptEvent ==
    ASSUME EvidenceInv, TypeInv', NEW c \in Callers, NEW j \in Jobs, call[c].job = j,
           LogReceipt(c) \/ LogReport(c)
    PROVE  EvidenceInv'
<1>. PICK k : k = call[c]
  OBVIOUS
<1>1. /\ TypeInv /\ k.pc \in {"logReceipt", "logReport"} /\ ~At(c, "idle")
      /\ k.outcome \in RunOutcomes
      /\ UNCHANGED <<record, result, receipt, attempts>>
  BY CallTyped DEF EvidenceInv, LogReceipt, LogReport, At, CallShape, ReportSteps, history
<1>2. receipt[j] = ReceiptOf(k) /\ Reporting(c) /\ Running(c)
  BY <1>1 DEF EvidenceInv, CallEvidence, Reporting, Running
<1>3. receipt[j] # None /\ receipt[j].by = k.by
  BY <1>1, <1>2, DocsExist DEF ReceiptOf
<1>4. /\ \/ Log(j, "receipt", k.by, k.outcome) /\ Goto(c, "checkReport")
         \/ Log(j, "reported", k.by, k.outcome) /\ Goto(c, "checkFinish") /\ k.pc = "logReport"
  BY DEF LogReceipt, LogReport, At
<1>5. Monotone
  BY <1>1, <1>4, LogMonotone
<1>6. /\ OthersKeep(c) /\ SameFields(call[c], call'[c])
      /\ \/ call'[c].pc = "checkReport" /\ Logged(j, "receipt")'
         \/ call'[c].pc = "checkFinish"
  BY <1>1, <1>4, GotoFacts, LogGrows
<1>7. CallEvidence(c)'
  BY <1>1, <1>2, <1>5, <1>6, CallMovesOn DEF Reporting, SameFields, TransitionSteps
<1>8. \A i \in Jobs : EventsMatch(i)'
  <2>1. k.pc = "logReport" => Logged(j, "receipt")
    BY DEF EvidenceInv, CallEvidence
  <2>. QED BY <1>1, <1>3, <1>4, <2>1, ReceiptEventKeeps
<1>9. \A i \in Jobs : ReceiptMatches(i)' /\ RecordMatches(i)'
  BY <1>1, <1>5, ReceiptKeeps, RecordKeeps DEF EvidenceInv
<1>. QED BY <1>2, <1>5, <1>6, <1>7, <1>8, <1>9, EvidenceFrame DEF SameFields

LEMMA EvidenceCheckReport ==
    ASSUME EvidenceInv, TypeInv', NEW c \in Callers, NEW j \in Jobs, call[c].job = j,
           CheckReport(c)
    PROVE  EvidenceInv'
<1>1. /\ TypeInv /\ call[c].pc = "checkReport" /\ ~At(c, "idle")
      /\ call[c].outcome \in RunOutcomes
      /\ UNCHANGED <<record, result, receipt, audit, attempts>>
  BY CallTyped DEF EvidenceInv, CheckReport, At, CallShape, ReportSteps, disk, history
<1>2. Return(c) \/ Goto(c, "checkFinish") \/ Goto(c, "logReport")
  BY DEF CheckReport
<1>3. CASE Return(c)
  BY <1>1, <1>3, ReturnKeeps
<1>4. CASE Goto(c, "checkFinish") \/ Goto(c, "logReport")
  <2>1. /\ OthersKeep(c) /\ SameFields(call[c], call'[c])
        /\ call'[c].pc \in {"checkFinish", "logReport"}
    BY <1>1, <1>4, GotoFacts
  <2>2. Monotone
    BY <1>1, StillMonotone
  <2>3. Logged(j, "receipt")' /\ Reporting(c) /\ Running(c)
    BY <1>1 DEF EvidenceInv, CallEvidence, Logged, Reporting, Running
  <2>4. CallEvidence(c)'
    BY <1>1, <2>1, <2>2, <2>3, CallMovesOn DEF TransitionSteps
  <2>. QED BY <1>1, <2>1, <2>2, <2>3, <2>4, JobsKeep, EvidenceFrame DEF SameFields
<1>. QED BY <1>2, <1>3, <1>4

LEMMA EvidenceFinish ==
    ASSUME EvidenceInv, TypeInv', NEW c \in Callers, NEW j \in Jobs, call[c].job = j,
           CheckFinish(c) \/ LogFinish(c)
    PROVE  EvidenceInv'
<1>1. /\ TypeInv /\ call[c].pc \in FinishSteps /\ ~At(c, "idle")
      /\ call[c].outcome \in Outcomes
      /\ UNCHANGED <<record, result, receipt, attempts>>
  BY CallTyped
  DEF EvidenceInv, CheckFinish, LogFinish, At, CallShape, FinishSteps, disk, history
<1>2. TerminalState(call[c].outcome) # "running"
  BY <1>1, TerminalStateType DEF Terminal
<1>3. /\ audit' = audit \/ Log(j, "finished", call[c].by, call[c].outcome)
      /\ \/ Return(c) /\ audit' = audit
         \/ Goto(c, "logFinish")
         \/ /\ BeginTransition(c, TerminalState(call[c].outcome))
            /\ \/ Logged(j, "finished") /\ audit' = audit
               \/ Log(j, "finished", call[c].by, call[c].outcome)
  BY DEF CheckFinish, LogFinish, disk
<1>4. CASE Return(c) /\ audit' = audit
  BY <1>1, <1>4, ReturnKeeps
<1>5. CASE ~(Return(c) /\ audit' = audit)
  <2>1. Monotone
    BY <1>1, <1>3, LogMonotone, StillMonotone
  <2>2. /\ OthersKeep(c) /\ SameFields(call[c], call'[c])
        /\ \/ call'[c].pc = "logFinish"
           \/ /\ call'[c].pc = "readRecord" /\ call'[c].target # "running"
              /\ Logged(j, "finished")'
    BY <1>1, <1>2, <1>3, <1>5, GotoFacts, TransitionFacts, LogGrows DEF Logged
  <2>3. CallEvidence(c)'
    BY <1>1, <2>1, <2>2, CallMovesOn
    DEF Reporting, Running, SameFields, TransitionSteps, FinishSteps
  <2>4. Reporting(c)' => Reporting(c)
    BY <1>1, <2>2 DEF Reporting, SameFields, FinishSteps
  <2>5. \A i \in Jobs : ReceiptMatches(i)' /\ EventsMatch(i)' /\ RecordMatches(i)'
    BY <1>1, <1>3, <2>1, JobsKeep
  <2>. QED BY <2>1, <2>2, <2>3, <2>4, <2>5, EvidenceFrame DEF SameFields
<1>. QED BY <1>4, <1>5

LEMMA EvidenceStep ==
    ASSUME EvidenceInv, TypeInv', NEW c \in Callers,
           Step(c) \/ LogSubmissionFails(c) \/ Abandon(c)
    PROVE  EvidenceInv'
<1>. PICK j \in Jobs : call[c].job = j
  BY NotIdle, CallTyped DEF EvidenceInv
<1>1. CASE Abandon(c)
  BY <1>1, ReturnKeeps DEF Abandon, disk, history
<1>. QED
  BY <1>1, EvidenceSubmission, EvidenceReadRecord, EvidenceAppendState, EvidenceWriteRecord,
     EvidenceLogStart, EvidenceRunJob, EvidenceStoreResult, EvidenceStoreReceipt,
     EvidenceReceiptEvent, EvidenceCheckReport, EvidenceFinish
  DEF Step

LEMMA EvidenceBegin ==
    ASSUME EvidenceInv, TypeInv', NEW c \in Callers, NEW j \in Jobs,
           \/ \E r \in Requests : Submit(c, j, r)
           \/ \E w \in Workers : Execute(c, j, w)
           \/ Cancel(c, j)
    PROVE  EvidenceInv'
<1>1. /\ OthersKeep(c) /\ Vacant(c)'
      /\ UNCHANGED <<record, result, receipt, audit, attempts>>
  BY BeginFacts DEF EvidenceInv, Vacant, TransitionSteps, disk, history
<1>. QED BY <1>1, VacantKeeps

LEMMA EvidenceNext == EvidenceInv /\ [Next]_vars => EvidenceInv'
<1>. SUFFICES ASSUME EvidenceInv, [Next]_vars PROVE EvidenceInv'
  OBVIOUS
<1>1. TypeInv'
  BY NextTypeInv DEF EvidenceInv
<1>2. CASE UNCHANGED vars
  BY <1>1, <1>2
  DEF EvidenceInv, SoleReporter, CallEvidence, ReceiptMatches, EventsMatch, RecordMatches,
      Running, Reporting, ResultOf, ReceiptOf, Started, Logged, vars, disk, history
<1>. QED BY <1>1, <1>2, EvidenceStep, EvidenceBegin DEF Next, Quiesced

LEMMA InitEvidenceInv == Init => EvidenceInv
<1>. SUFFICES ASSUME Init PROVE EvidenceInv
  OBVIOUS
<1>1. \A c \in Callers : /\ call[c].pc = "idle" /\ call[c].outcome = None
                         /\ None \notin RunOutcomes
  BY DEF Init, Idle, NewCall, Outcomes
<1>2. \A j \in Jobs : ReceiptMatches(j) /\ EventsMatch(j) /\ RecordMatches(j)
  <2>. TAKE j \in Jobs
  <2>1. record[j] = None /\ receipt[j] = None /\ audit[j] = <<>>
    BY DEF Init
  <2>2. EventsMatch(j)
    BY <2>1 DEF EventsMatch
  <2>. QED BY <2>1, <2>2 DEF ReceiptMatches, RecordMatches
<1>. QED BY <1>1, <1>2, InitTypeInv
         DEF EvidenceInv, SoleReporter, CallEvidence, Running, Reporting, TransitionSteps

(* Receipt, receipt event and report come from the call whose result is on *)
(* disk, each after the evidence it names.                                 *)
THEOREM EvidenceChained == Spec => []EvidenceChain
<1>1. EvidenceInv => EvidenceChain
  BY DEF EvidenceInv, EvidenceChain, ReceiptMatches, EventsMatch
<1>. QED BY <1>1, InitEvidenceInv, EvidenceNext, PTL DEF Spec

(* A job is credited or traced to nobody but the worker that started it,   *)
(* ran it, stored its completed result and accepted receipt and finished   *)
(* it with success.                                                        *)
THEOREM CreditEarned == Spec => []CreditIsEarned
<1>1. EvidenceInv => CreditIsEarned
  <2>. SUFFICES ASSUME EvidenceInv, NEW j \in Jobs, Credited(j) \/ Traced(j)
                PROVE  /\ record[j].status = "succeeded"
                       /\ result[j] = [by |-> receipt[j].by, outcome |-> "completed",
                                       req |-> receipt[j].req]
                       /\ attempts[j] > 0
                       /\ Logged(j, "finished")
                       /\ Started(j, receipt[j].by)
    BY DEF CreditIsEarned, Started
  <2>1. /\ record[j] # None /\ record[j].evidence # None
        /\ receipt[j] # None /\ receipt[j].accepted
    BY DEF Credited, Traced
  <2>2. RecordMatches(j) /\ ReceiptMatches(j)
    BY DEF EvidenceInv
  <2>3. /\ result[j] # None /\ result[j].by = receipt[j].by /\ result[j].outcome = "completed"
        /\ result[j].req = receipt[j].req
    BY <2>1, <2>2 DEF ReceiptMatches
  <2>4. result[j] \in [by : Workers, outcome : RunOutcomes, req : Requests]
    BY <2>3 DEF EvidenceInv, TypeInv, TypeOK, Results
  <2>5. result[j] = [by |-> receipt[j].by, outcome |-> "completed", req |-> receipt[j].req]
    BY <2>3, <2>4
  <2>. QED BY <2>1, <2>2, <2>5 DEF RecordMatches
<1>. QED BY <1>1, InitEvidenceInv, EvidenceNext, PTL DEF Spec

-----------------------------------------------------------------------------
(***************************************************************************)
(* The read-only calls.  They join the same files in different ways; that  *)
(* they cannot disagree rests on EvidenceInv and on two facts it leaves    *)
(* out: a record's worker is one whose start was logged, and the verdict   *)
(* a record holds is the one its status says.                              *)
(***************************************************************************)
WorkerStarted(j) ==
    record[j] # None /\ record[j].worker # None => Started(j, record[j].worker)

VerdictIsStatus(j) ==
    record[j] # None /\ record[j].evidence # None =>
        (record[j].evidence.passed <=> record[j].status = "succeeded")

CopyStarted(c) ==
    call[c].pc \in CopySteps /\ call[c].seen.worker # None =>
        Started(call[c].job, call[c].seen.worker)

ViewInv ==
    /\ EvidenceInv
    /\ \A j \in Jobs : WorkerStarted(j) /\ VerdictIsStatus(j)
    /\ \A c \in Callers : CopyStarted(c)

StartsKeep == \A j \in Jobs : \A w : Started(j, w) => Started(j, w)'

LEMMA SameAuditKeepsStarts ==
    ASSUME UNCHANGED audit
    PROVE  StartsKeep
  BY DEF StartsKeep, Started

LEMMA LogKeepsStarts ==
    ASSUME TypeInv, NEW j \in Jobs, NEW type, NEW by, NEW outcome, Log(j, type, by, outcome)
    PROVE  StartsKeep
  BY LogStarts DEF StartsKeep

LEMMA StepStartsKeep ==
    ASSUME TypeInv, NEW c \in Callers, ~At(c, "idle"),
           Step(c) \/ LogSubmissionFails(c) \/ Abandon(c)
    PROVE  StartsKeep
<1>1. call[c].job \in Jobs
  BY CallTyped
<1>2. CASE UNCHANGED audit
  BY <1>2, SameAuditKeepsStarts
<1>3. CASE \E type, by, outcome : Log(call[c].job, type, by, outcome)
  BY <1>1, <1>3, LogKeepsStarts
<1>. QED
  BY <1>2, <1>3
  DEF Step, LogSubmissionFails, Abandon, CreateManifest, LogSubmission, RemoveManifest,
      CreateRecord, CheckExisting, AnswerRetry, ReadRecord, AppendState, WriteRecord, LogStart,
      LogStarted, RunJob, StoreResult, StoreReceipt, LogReceipt, CheckReport, LogReport,
      CheckFinish, LogFinish, disk

(* Only the three steps of a transition hold, or write from, a copy.       *)
LEMMA MovesOutsideCopies ==
    ASSUME TypeInv, NEW c \in Callers,
           Step(c) \/ LogSubmissionFails(c) \/ Abandon(c),
           ~ReadRecord(c), ~AppendState(c)
    PROVE  MovesOutside(c, CopySteps)
<1>. USE DEF CopySteps, Steps
<1>1. CASE RunJob(c)
  BY <1>1, RunFacts DEF MovesOutside
<1>2. CASE CheckReport(c)
  <2>1. Return(c) \/ Goto(c, "checkFinish") \/ Goto(c, "logReport")
    BY <1>2 DEF CheckReport
  <2>. QED BY <2>1, MoveFacts
<1>3. CASE CheckFinish(c)
  <2>1. \/ Return(c) \/ Goto(c, "logFinish")
        \/ BeginTransition(c, TerminalState(call[c].outcome))
    BY <1>3, Zenon DEF CheckFinish
  <2>. QED BY <2>1, MoveFacts
<1>4. CASE LogStart(c)
  BY <1>4, MoveFacts DEF LogStart
<1>5. CASE CreateManifest(c) \/ LogSubmission(c) \/ RemoveManifest(c) \/ CreateRecord(c)
           \/ CheckExisting(c) \/ AnswerRetry(c) \/ LogSubmissionFails(c) \/ Abandon(c)
  BY <1>5, MoveFacts
  DEF CreateManifest, LogSubmission, RemoveManifest, CreateRecord, CheckExisting, AnswerRetry,
      LogSubmissionFails, Abandon
<1>6. CASE WriteRecord(c) \/ StoreResult(c) \/ StoreReceipt(c)
           \/ LogReceipt(c) \/ LogReport(c) \/ LogFinish(c)
  BY <1>6, MoveFacts
  DEF WriteRecord, StoreResult, StoreReceipt, LogReceipt, LogReport, LogFinish
<1>. QED BY <1>1, <1>2, <1>3, <1>4, <1>5, <1>6 DEF Step

LEMMA RecordSteps ==
    ASSUME TypeInv, NEW c \in Callers,
           Step(c) \/ LogSubmissionFails(c) \/ Abandon(c), ~WriteRecord(c)
    PROVE  \A j \in Jobs : record'[j] = record[j] \/ record'[j] = NewRecord
<1>1. CASE UNCHANGED record
  BY <1>1
<1>2. CASE CreateRecord(c)
  BY <1>2 DEF CreateRecord, TypeInv, TypeOK
<1>. QED
  BY <1>1, <1>2
  DEF Step, LogSubmissionFails, Abandon, CreateManifest, LogSubmission, RemoveManifest,
      CheckExisting, AnswerRetry, ReadRecord, AppendState, LogStart, RunJob, StoreResult,
      StoreReceipt, LogReceipt, CheckReport, LogReport, CheckFinish, LogFinish, disk

LEMMA ViewFrame ==
    ASSUME ViewInv, EvidenceInv', StartsKeep, NEW c \in Callers, OthersKeep(c),
           CopyStarted(c)',
           \A j \in Jobs : \/ record'[j] = record[j] \/ record'[j] = NewRecord
                           \/ WorkerStarted(j)' /\ VerdictIsStatus(j)'
    PROVE  ViewInv'
<1>1. ASSUME NEW j \in Jobs PROVE WorkerStarted(j)' /\ VerdictIsStatus(j)'
  BY DEF ViewInv, WorkerStarted, VerdictIsStatus, NewRecord, StartsKeep
<1>2. ASSUME NEW d \in Callers, d # c PROVE CopyStarted(d)'
  <2>1. call'[d] = call[d] /\ CopyStarted(d)
    BY <1>2 DEF OthersKeep, ViewInv
  <2>2. call[d].pc \in CopySteps => call[d].job \in Jobs
    BY CallTyped DEF CopySteps, At, ViewInv, EvidenceInv
  <2>. QED BY <2>1, <2>2 DEF CopyStarted, StartsKeep
<1>. QED BY <1>1, <1>2 DEF ViewInv

LEMMA ViewReadRecord ==
    ASSUME ViewInv, EvidenceInv', NEW c \in Callers, ReadRecord(c)
    PROVE  ViewInv'
<1>1. TypeInv /\ record' = record /\ audit' = audit /\ call[c].job \in Jobs
  BY CallTyped DEF ReadRecord, disk, At, ViewInv, EvidenceInv
<1>2. OthersKeep(c) /\ CopyStarted(c)'
  BY <1>1, ReadFacts DEF CopyStarted, CopySteps, ViewInv, WorkerStarted, Started
<1>. QED BY <1>1, <1>2, SameAuditKeepsStarts, ViewFrame

LEMMA ViewAppendState ==
    ASSUME ViewInv, EvidenceInv', NEW c \in Callers, AppendState(c)
    PROVE  ViewInv'
<1>1. TypeInv /\ record' = record /\ audit' = audit /\ call[c].pc = "appendState"
  BY DEF AppendState, At, ViewInv, EvidenceInv
<1>2. OthersKeep(c) /\ CopyStarted(c)'
  BY <1>1, GotoFacts DEF AppendState, SameFields, CopyStarted, CopySteps, ViewInv, Started
<1>. QED BY <1>1, <1>2, SameAuditKeepsStarts, ViewFrame

LEMMA ViewWriteRecord ==
    ASSUME ViewInv, EvidenceInv', NEW c \in Callers, NEW j \in Jobs, call[c].job = j,
           WriteRecord(c)
    PROVE  ViewInv'
<1>. PICK k : k = call[c]
  OBVIOUS
<1>1. /\ TypeInv /\ j \in Jobs /\ k.pc = "writeRecord" /\ CallShape(k) /\ ~At(c, "idle")
      /\ CallEvidence(c) /\ CopyStarted(c) /\ audit' = audit
  BY CallTyped DEF WriteRecord, At, ViewInv, EvidenceInv
<1>2. /\ record'[j] = NextRecord(c) /\ \A i \in Jobs \ {j} : record'[i] = record[i]
  BY <1>1 DEF WriteRecord, TypeInv, TypeOK
<1>3. WorkerStarted(j)'
  <2>1. CASE k.target = "running"
    <3>1. Started(j, k.by)
      BY <1>1, <2>1 DEF CallEvidence, Running, TransitionSteps
    <3>. QED BY <1>1, <1>2, <2>1, <3>1 DEF NextRecord, WorkerStarted, Started
  <2>2. CASE k.target # "running"
    BY <1>1, <1>2, <2>2 DEF NextRecord, WorkerStarted, CopyStarted, CopySteps, Started
  <2>. QED BY <2>1, <2>2
<1>4. VerdictIsStatus(j)'
  <2>1. CASE k.target \in {"succeeded", "failed"}
    <3>1. k.outcome \in RunOutcomes /\ k.target = TerminalState(k.outcome)
      BY <1>1, <2>1 DEF CallShape, TransitionSteps, TerminalState, Outcomes
    <3>2. k.outcome = "completed" <=> k.target = "succeeded"
      BY <2>1, <3>1 DEF TerminalState, RunOutcomes
    <3>3. /\ NextRecord(c).evidence.passed = (k.outcome = "completed")
          /\ NextRecord(c).status = k.target
      <4>. DEFINE passed == k.outcome = "completed"
      <4>1. NextRecord(c).evidence = [by |-> k.by, passed |-> passed, req |-> k.req]
        BY <2>1 DEF NextRecord
      <4>. HIDE DEF passed
      <4>2. NextRecord(c).evidence.passed = passed
        BY <4>1
      <4>3. NextRecord(c).status = k.target
        BY DEF NextRecord
      <4>. QED BY <4>2, <4>3 DEF passed
    <3>. QED BY <1>2, <3>2, <3>3 DEF VerdictIsStatus
  <2>2. CASE k.target \notin {"succeeded", "failed"}
    BY <1>1, <1>2, <2>2 DEF NextRecord, VerdictIsStatus, CallShape
  <2>. QED BY <2>1, <2>2
<1>5. MovesOutside(c, CopySteps)
  BY <1>1, MoveFacts DEF WriteRecord, CopySteps, Steps
<1>. QED BY <1>1, <1>2, <1>3, <1>4, <1>5, SameAuditKeepsStarts, ViewFrame
         DEF MovesOutside, CopyStarted

LEMMA ViewNext == ViewInv /\ [Next]_vars => ViewInv'
<1>. SUFFICES ASSUME ViewInv, [Next]_vars PROVE ViewInv'
  OBVIOUS
<1>1. TypeInv /\ EvidenceInv'
  BY EvidenceNext DEF ViewInv, EvidenceInv
<1>2. CASE UNCHANGED vars
  BY <1>1, <1>2 DEF ViewInv, WorkerStarted, VerdictIsStatus, CopyStarted, Started, vars, disk
<1>3. ASSUME NEW c \in Callers, NEW j \in Jobs,
             \/ \E r \in Requests : Submit(c, j, r)
             \/ \E w \in Workers : Execute(c, j, w)
             \/ Cancel(c, j)
      PROVE  ViewInv'
  <2>1. MovesOutside(c, CopySteps) /\ UNCHANGED <<record, audit>>
    BY <1>1, <1>3, BeginFacts DEF MovesOutside, CopySteps, disk
  <2>. QED BY <1>1, <2>1, SameAuditKeepsStarts, ViewFrame DEF MovesOutside, CopyStarted
<1>4. ASSUME NEW c \in Callers, Step(c) \/ LogSubmissionFails(c) \/ Abandon(c)
      PROVE  ViewInv'
  <2>1. CASE ReadRecord(c) \/ AppendState(c) \/ WriteRecord(c)
    <3>1. call[c].job \in Jobs
      BY <1>1, <1>4, NotIdle, CallTyped
    <3>. QED BY <1>1, <2>1, <3>1, ViewReadRecord, ViewAppendState, ViewWriteRecord
  <2>2. CASE ~(ReadRecord(c) \/ AppendState(c) \/ WriteRecord(c))
    <3>1. MovesOutside(c, CopySteps) /\ StartsKeep
      BY <1>1, <1>4, <2>2, NotIdle, MovesOutsideCopies, StepStartsKeep
    <3>. QED BY <1>1, <1>4, <2>2, <3>1, RecordSteps, ViewFrame DEF MovesOutside, CopyStarted
  <2>. QED BY <2>1, <2>2
<1>. QED BY <1>2, <1>3, <1>4 DEF Next, Quiesced

LEMMA InitViewInv == Init => ViewInv
  BY InitEvidenceInv
  DEF Init, ViewInv, WorkerStarted, VerdictIsStatus, CopyStarted, CopySteps, Idle, NewCall

(* An item of the summary is not degraded if and only if it has none of    *)
(* the errors.                                                             *)
LEMMA NoErrors ==
    ASSUME NEW j \in Jobs
    PROVE  Errors(j) = {} <=>
             /\ manifest[j] # None /\ record[j] # None
             /\ Validated(j) => receipt[j] # None
             /\ ~Validated(j) => receipt[j] = None /\ record[j].status \notin Terminal
             /\ record[j].status = "succeeded" => Contributor(j) # None
             /\ Contributor(j) = TakenBy(j)
             /\ receipt[j] # None =>
                   /\ receipt[j].by = TakenBy(j)
                   /\ Validated(j) /\ SameAttribution(j)
                   /\ Origin[receipt[j].req] = Origin[manifest[j]]
                   /\ record[j].evidence.passed = receipt[j].accepted
             /\ Validated(j) => Origin[record[j].evidence.req] = Origin[manifest[j]]
<1>1. DocumentErrors(j) = {} <=>
        /\ manifest[j] # None /\ record[j] # None
        /\ Validated(j) => receipt[j] # None
        /\ ~Validated(j) => receipt[j] = None /\ record[j].status \notin Terminal
  <2>1. "no manifest" \in DocumentErrors(j) <=> manifest[j] = None
    BY DEF DocumentErrors
  <2>2. "no status" \in DocumentErrors(j) <=> record[j] = None
    BY DEF DocumentErrors
  <2>3. "no receipt" \in DocumentErrors(j) <=> Validated(j) /\ receipt[j] = None
    BY DEF DocumentErrors
  <2>4. "no reference" \in DocumentErrors(j) <=>
          /\ ~Validated(j)
          /\ receipt[j] # None \/ (record[j] # None /\ record[j].status \in Terminal)
    BY DEF DocumentErrors
  <2>5. DocumentErrors(j) \subseteq {"no manifest", "no status", "no receipt", "no reference"}
    BY DEF DocumentErrors
  <2>. QED BY <2>1, <2>2, <2>3, <2>4, <2>5
<1>2. AttributionErrors(j) = {} <=>
        /\ ~(record[j] # None /\ record[j].status = "succeeded" /\ Contributor(j) = None)
        /\ record[j] # None => Contributor(j) = TakenBy(j)
        /\ receipt[j] # None => receipt[j].by = TakenBy(j) /\ Validated(j) /\ SameAttribution(j)
        /\ manifest[j] # None /\ Validated(j)
              => Origin[record[j].evidence.req] = Origin[manifest[j]]
        /\ receipt[j] # None /\ manifest[j] # None
              => Origin[receipt[j].req] = Origin[manifest[j]]
  <2>1. "no contributor" \in AttributionErrors(j) <=>
          record[j] # None /\ record[j].status = "succeeded" /\ Contributor(j) = None
    BY DEF AttributionErrors
  <2>2. "other worker" \in AttributionErrors(j) <=>
          record[j] # None /\ Contributor(j) # TakenBy(j)
    BY DEF AttributionErrors
  <2>3. "other validator" \in AttributionErrors(j) <=>
          receipt[j] # None /\ receipt[j].by # TakenBy(j)
    BY DEF AttributionErrors
  <2>4. "other attribution" \in AttributionErrors(j) <=>
          receipt[j] # None /\ ~(Validated(j) /\ SameAttribution(j))
    BY DEF AttributionErrors
  <2>5. "other creator" \in AttributionErrors(j) <=>
          /\ manifest[j] # None /\ Validated(j)
          /\ Origin[record[j].evidence.req] # Origin[manifest[j]]
    BY DEF AttributionErrors
  <2>6. "other method" \in AttributionErrors(j) <=>
          /\ receipt[j] # None /\ manifest[j] # None
          /\ Origin[receipt[j].req] # Origin[manifest[j]]
    BY DEF AttributionErrors
  <2>7. AttributionErrors(j) \subseteq
          {"no contributor", "other worker", "other validator", "other attribution",
           "other creator", "other method"}
    BY DEF AttributionErrors
  <2>. QED BY <2>1, <2>2, <2>3, <2>4, <2>5, <2>6, <2>7
<1>3. VerdictErrors(j) = {} <=>
        (receipt[j] # None => Validated(j) /\ record[j].evidence.passed = receipt[j].accepted)
  <2>1. "other verdict" \in VerdictErrors(j) <=>
          /\ receipt[j] # None
          /\ ~(Validated(j) /\ record[j].evidence.passed = receipt[j].accepted)
    BY DEF VerdictErrors
  <2>2. VerdictErrors(j) \subseteq {"other verdict"}
    BY DEF VerdictErrors
  <2>. QED BY <2>1, <2>2
<1>4. Errors(j) = {} <=>
        DocumentErrors(j) = {} /\ AttributionErrors(j) = {} /\ VerdictErrors(j) = {}
  BY DEF Errors
<1>. HIDE DEF Errors
<1>5. Errors(j) = {} =>
        /\ manifest[j] # None /\ record[j] # None
        /\ Validated(j) => receipt[j] # None
        /\ ~Validated(j) => receipt[j] = None /\ record[j].status \notin Terminal
  BY <1>1, <1>4
<1>6. Errors(j) = {} /\ record[j] # None =>
        /\ record[j].status = "succeeded" => Contributor(j) # None
        /\ Contributor(j) = TakenBy(j)
        /\ receipt[j] # None => receipt[j].by = TakenBy(j) /\ Validated(j) /\ SameAttribution(j)
        /\ manifest[j] # None /\ Validated(j)
              => Origin[record[j].evidence.req] = Origin[manifest[j]]
        /\ receipt[j] # None /\ manifest[j] # None
              => Origin[receipt[j].req] = Origin[manifest[j]]
  BY <1>2, <1>4
<1>7. Errors(j) = {} /\ receipt[j] # None => record[j].evidence.passed = receipt[j].accepted
  BY <1>3, <1>4
<1>8. ASSUME manifest[j] # None, record[j] # None,
             Validated(j) => receipt[j] # None,
             ~Validated(j) => receipt[j] = None /\ record[j].status \notin Terminal,
             record[j].status = "succeeded" => Contributor(j) # None,
             Contributor(j) = TakenBy(j),
             receipt[j] # None =>
                /\ receipt[j].by = TakenBy(j)
                /\ Validated(j) /\ SameAttribution(j)
                /\ Origin[receipt[j].req] = Origin[manifest[j]]
                /\ record[j].evidence.passed = receipt[j].accepted,
             Validated(j) => Origin[record[j].evidence.req] = Origin[manifest[j]]
      PROVE  Errors(j) = {}
  <2>1. DocumentErrors(j) = {}
    BY <1>1, <1>8
  <2>2. AttributionErrors(j) = {}
    BY <1>2, <1>8
  <2>3. VerdictErrors(j) = {}
    BY <1>3, <1>8
  <2>. QED BY <1>4, <2>1, <2>2, <2>3
<1>. QED BY <1>5, <1>6, <1>7, <1>8

(* Everything that was written about a validated job fits together.        *)
LEMMA ValidatedFits ==
    ASSUME ViewInv, NEW j \in Jobs, Validated(j)
    PROVE  /\ receipt[j] # None /\ result[j] # None
           /\ receipt[j].by \in Workers /\ receipt[j].accepted \in BOOLEAN
           /\ record[j].evidence.by = receipt[j].by /\ result[j].by = receipt[j].by
           /\ record[j].evidence.req = receipt[j].req /\ result[j].req = receipt[j].req
           /\ SameAttribution(j)
           /\ receipt[j].accepted = (result[j].outcome = "completed")
           /\ receipt[j].accepted <=> record[j].status = "succeeded"
           /\ record[j].evidence.passed = receipt[j].accepted
           /\ receipt[j].req \in Requests
<1>1. record[j] # None /\ record[j].evidence # None
  BY DEF Validated
<1>2. /\ receipt[j] # None /\ record[j].evidence.by = receipt[j].by
      /\ record[j].evidence.req = receipt[j].req
      /\ receipt[j].accepted <=> record[j].status = "succeeded"
  BY <1>1 DEF ViewInv, EvidenceInv, RecordMatches
<1>3. /\ result[j] # None /\ receipt[j].by = result[j].by /\ receipt[j].req = result[j].req
      /\ receipt[j].accepted = (result[j].outcome = "completed")
  BY <1>2 DEF ViewInv, EvidenceInv, ReceiptMatches
<1>4. receipt[j] \in Receipts /\ record[j].evidence \in Evidence
  BY <1>1, <1>2, <1>3 DEF ViewInv, EvidenceInv, TypeInv, TypeOK, Records
<1>5. /\ receipt[j].accepted \in BOOLEAN /\ record[j].evidence.passed \in BOOLEAN
      /\ receipt[j].by \in Workers /\ receipt[j].req \in Requests
  BY <1>4 DEF Evidence, Receipts
<1>6. record[j].evidence.passed <=> record[j].status = "succeeded"
  BY <1>1 DEF ViewInv, VerdictIsStatus
<1>7. record[j].evidence.passed = receipt[j].accepted
  BY <1>2, <1>5, <1>6
<1>. QED BY <1>2, <1>3, <1>5, <1>7 DEF SameAttribution

LEMMA JudgedFacts == Judged(TRUE) = "accepted" /\ Judged(FALSE) = "rejected"
  BY DEF Judged

(* When a receipt can be shown, and as what. *)
LEMMA ReceiptShown ==
    ASSUME ViewInv, NEW j \in Jobs
    PROVE  /\ ReceiptAnswer(j) = "accepted" <=>
                 /\ manifest[j] # None /\ Validated(j)
                 /\ Input[manifest[j]] = Input[receipt[j].req]
                 /\ TakenBy(j) = receipt[j].by /\ receipt[j].accepted
           /\ ReceiptAnswer(j) = "rejected" <=>
                 /\ manifest[j] # None /\ Validated(j)
                 /\ Input[manifest[j]] = Input[receipt[j].req]
                 /\ TakenBy(j) = receipt[j].by /\ ~receipt[j].accepted
<1>. DEFINE shown == /\ receipt[j] # None /\ Provenance(j) /\ SameExecutor(j)
                     /\ receipt[j].accepted = (result[j].outcome = "completed")
<1>1. CASE receipt[j] = None
  <2>1. ReceiptAnswer(j) = "not_found" /\ ~Validated(j)
    BY <1>1, ValidatedFits DEF ReceiptAnswer
  <2>. QED BY <2>1
<1>2. CASE receipt[j] # None /\ shown
  <2>1. ReceiptAnswer(j) = Judged(receipt[j].accepted)
    BY <1>2, Zenon DEF ReceiptAnswer
  <2>2. /\ manifest[j] # None /\ Validated(j) /\ TakenBy(j) = receipt[j].by
        /\ Input[manifest[j]] = Input[receipt[j].req]
    BY <1>2 DEF Provenance, SameExecutor
  <2>3. receipt[j].accepted \in BOOLEAN
    BY <2>2, ValidatedFits
  <2>4. CASE receipt[j].accepted = TRUE
    BY <2>1, <2>2, <2>4, JudgedFacts
  <2>5. CASE receipt[j].accepted = FALSE
    BY <2>1, <2>2, <2>5, JudgedFacts
  <2>. QED BY <2>3, <2>4, <2>5
<1>3. CASE receipt[j] # None /\ ~shown
  <2>1. ReceiptAnswer(j) = "invalid"
    BY <1>3, Zenon DEF ReceiptAnswer
  <2>2. ~(/\ manifest[j] # None /\ Validated(j) /\ TakenBy(j) = receipt[j].by
          /\ Input[manifest[j]] = Input[receipt[j].req])
    <3>. SUFFICES ASSUME manifest[j] # None, Validated(j), TakenBy(j) = receipt[j].by,
                         Input[manifest[j]] = Input[receipt[j].req]
                  PROVE  shown
      BY <1>3
    <3>1. record[j] # None
      BY DEF Validated
    <3>2. Provenance(j) /\ SameExecutor(j)
      BY <3>1, ValidatedFits DEF Provenance, SameExecutor
    <3>. QED BY <3>2, ValidatedFits
  <2>. QED BY <2>1, <2>2
<1>. QED BY <1>1, <1>2, <1>3

(* An item the summary does not find degraded is one whose receipt, if it  *)
(* has one, can be shown.                                                  *)
LEMMA SummaryShown ==
    ASSUME ViewInv, NEW j \in Jobs, Errors(j) = {}
    PROVE  /\ manifest[j] # None /\ record[j] # None
           /\ Validated(j) <=> receipt[j] # None
           /\ Validated(j) => TakenBy(j) = receipt[j].by
           /\ record[j].status = "succeeded" => Validated(j)
  BY NoErrors DEF Terminal

LEMMA AcceptedItem ==
    ASSUME ViewInv, NEW j \in Jobs
    PROVE  /\ Acceptance(j) = "accepted" =>
                 /\ Errors(j) = {} /\ manifest[j] # None /\ Validated(j)
                 /\ receipt[j].accepted /\ TakenBy(j) = receipt[j].by
           /\ j \in AcceptedCount <=> Acceptance(j) = "accepted"
           /\ ReceiptAnswer(j) = "accepted" => j \in AcceptedCount
<1>1. ASSUME Acceptance(j) = "accepted"
      PROVE  /\ Errors(j) = {} /\ manifest[j] # None /\ Validated(j)
             /\ receipt[j].accepted /\ TakenBy(j) = receipt[j].by
  <2>1. Errors(j) = {}
    BY <1>1 DEF Acceptance
  <2>2. Validated(j) /\ receipt[j].accepted
    BY <1>1, <2>1 DEF Acceptance
  <2>. QED BY <2>1, <2>2, SummaryShown
<1>2. j \in AcceptedCount <=> Acceptance(j) = "accepted"
  BY <1>1 DEF AcceptedCount, Summarized
<1>3. ASSUME ReceiptAnswer(j) = "accepted"
      PROVE  Acceptance(j) = "accepted"
  <2>1. /\ manifest[j] # None /\ Validated(j)
        /\ Input[manifest[j]] = Input[receipt[j].req]
        /\ TakenBy(j) = receipt[j].by /\ receipt[j].accepted
    BY <1>3, ReceiptShown
  <2>2. /\ receipt[j].by # None /\ receipt[j] # None /\ receipt[j].req \in Requests
        /\ record[j] # None /\ record[j].status = "succeeded"
        /\ record[j].evidence.by = receipt[j].by /\ record[j].evidence.req = receipt[j].req
        /\ record[j].evidence.passed = receipt[j].accepted
        /\ SameAttribution(j)
    BY <2>1, ValidatedFits DEF Validated
  <2>3. Contributor(j) = TakenBy(j) /\ Contributor(j) # None
    BY <2>1, <2>2 DEF Contributor
  <2>4. manifest[j] \in Requests
    BY <2>1 DEF ViewInv, EvidenceInv, TypeInv, TypeOK
  <2>5. /\ Origin[receipt[j].req] = Origin[manifest[j]]
        /\ Origin[record[j].evidence.req] = Origin[manifest[j]]
    BY <2>1, <2>2, <2>4, RequestsAssumption DEF RequestsAssumption
  <2>6. Errors(j) = {}
    BY <2>1, <2>2, <2>3, <2>5, NoErrors
  <2>7. record[j].evidence.passed
    BY <2>1, <2>2
  <2>. QED BY <2>1, <2>2, <2>6, <2>7 DEF Acceptance
<1>. QED BY <1>1, <1>2, <1>3

(***************************************************************************)
(* A call's steps and the ones they come from, and calls made one at a     *)
(* time.                                                                   *)
(***************************************************************************)
SoleCall == \A c, d \in Callers : ~At(c, "idle") /\ ~At(d, "idle") => c = d

ActsAlone(c) == OthersKeep(c) /\ \A d \in Callers : d # c => At(d, "idle") /\ At(d, "idle")'

Proceeds(c) == Step(c) \/ LogSubmissionFails(c) \/ Abandon(c)

Begins(c, j) ==
    \/ \E r \in Requests : Submit(c, j, r)
    \/ \E w \in Workers : Execute(c, j, w)
    \/ Cancel(c, j)

(* Where a call is tells which step it just took, and what it carries came *)
(* with it.                                                                *)
LEMMA Arrivals ==
    ASSUME TypeInv, NEW c \in Callers, Proceeds(c), NEW k, k = call[c], NEW n, n = call'[c]
    PROVE  /\ OthersKeep(c)
           /\ n.pc \notin {"create", "logStart"}
           /\ n.pc = "idle" => n.outcome = None
           /\ n.pc # "idle" => n.job = k.job /\ n.by = k.by
           /\ n.pc # "idle" => RunJob(c) \/ n.outcome = k.outcome
           /\ n.pc # "idle" => LogStart(c) \/ n.req = k.req
           /\ n.pc = "logSubmission" => CreateManifest(c)
           /\ n.pc = "existing" => CreateManifest(c)
           /\ n.pc = "removeManifest" => LogSubmissionFails(c)
           /\ n.pc = "retry" => CheckExisting(c)
           /\ n.pc = "createRecord" => LogSubmission(c)
           /\ n.pc = "readRecord" =>
                 \/ CreateRecord(c) /\ n.target = "queued"
                 \/ LogStart(c) /\ n.target = "running" /\ n.req = manifest[k.job]
                 \/ (CheckFinish(c) \/ LogFinish(c)) /\ n.target = TerminalState(k.outcome)
           /\ n.pc = "appendState" => ReadRecord(c) /\ n.target = k.target
           /\ n.pc = "writeRecord" => AppendState(c) /\ n.target = k.target
           /\ n.pc = "run" => WriteRecord(c) /\ k.target = "running"
           /\ n.pc = "storeResult" => RunJob(c)
           /\ n.pc = "storeReceipt" => StoreResult(c)
           /\ n.pc = "logReceipt" => StoreReceipt(c)
           /\ n.pc = "checkReport" => LogReceipt(c)
           /\ n.pc = "logReport" => CheckReport(c)
           /\ n.pc = "checkFinish" => CheckReport(c) \/ LogReport(c)
           /\ n.pc = "logFinish" => CheckFinish(c)
<1>. USE DEF SameFields
<1>1. CASE CreateManifest(c)
  <2>1. Goto(c, "logSubmission") \/ Goto(c, "existing")
    BY <1>1 DEF CreateManifest
  <2>. QED BY <1>1, <2>1, GotoFacts
<1>2. CASE LogSubmission(c)
  BY <1>2, GotoFacts DEF LogSubmission
<1>3. CASE RemoveManifest(c)
  BY <1>3, ReturnFacts DEF RemoveManifest
<1>4. CASE CreateRecord(c)
  <2>1. BeginTransition(c, "queued") \/ Return(c)
    BY <1>4 DEF CreateRecord
  <2>. QED BY <1>4, <2>1, TransitionFacts, ReturnFacts
<1>5. CASE CheckExisting(c)
  <2>1. Goto(c, "retry") \/ Return(c)
    BY <1>5 DEF CheckExisting
  <2>. QED BY <1>5, <2>1, GotoFacts, ReturnFacts
<1>6. CASE AnswerRetry(c)
  BY <1>6, ReturnFacts DEF AnswerRetry
<1>7. CASE ReadRecord(c)
  BY <1>7, ReadFacts
<1>8. CASE AppendState(c)
  <2>1. Goto(c, "writeRecord")
    BY <1>8 DEF AppendState
  <2>. QED BY <1>8, <2>1, GotoFacts
<1>9. CASE WriteRecord(c)
  <2>1. (Goto(c, "run") /\ call[c].target = "running") \/ Return(c)
    BY <1>9 DEF WriteRecord
  <2>. QED BY <1>9, <2>1, GotoFacts, ReturnFacts
<1>10. CASE LogStart(c)
  <2>1. HoldManifest(c) \/ Return(c)
    BY <1>10 DEF LogStart
  <2>. QED BY <1>10, <2>1, HoldFacts, ReturnFacts
<1>11. CASE RunJob(c)
  BY <1>11, RunFacts
<1>12. CASE StoreResult(c)
  <2>1. Goto(c, "storeReceipt") \/ Return(c)
    BY <1>12 DEF StoreResult
  <2>. QED BY <1>12, <2>1, GotoFacts, ReturnFacts
<1>13. CASE StoreReceipt(c)
  <2>1. Goto(c, "logReceipt") \/ Return(c)
    BY <1>13 DEF StoreReceipt
  <2>. QED BY <1>13, <2>1, GotoFacts, ReturnFacts
<1>14. CASE LogReceipt(c)
  <2>1. Goto(c, "checkReport")
    BY <1>14 DEF LogReceipt
  <2>. QED BY <1>14, <2>1, GotoFacts
<1>15. CASE CheckReport(c)
  <2>1. Return(c) \/ Goto(c, "checkFinish") \/ Goto(c, "logReport")
    BY <1>15 DEF CheckReport
  <2>. QED BY <1>15, <2>1, GotoFacts, ReturnFacts
<1>16. CASE LogReport(c)
  <2>1. Goto(c, "checkFinish")
    BY <1>16 DEF LogReport
  <2>. QED BY <1>16, <2>1, GotoFacts
<1>17. CASE CheckFinish(c)
  <2>1. \/ Return(c) \/ Goto(c, "logFinish")
        \/ BeginTransition(c, TerminalState(call[c].outcome))
    BY <1>17, Zenon DEF CheckFinish
  <2>. QED BY <1>17, <2>1, GotoFacts, ReturnFacts, TransitionFacts
<1>18. CASE LogFinish(c)
  <2>1. BeginTransition(c, TerminalState(call[c].outcome))
    BY <1>18 DEF LogFinish
  <2>. QED BY <1>18, <2>1, TransitionFacts
<1>19. CASE LogSubmissionFails(c)
  <2>1. Goto(c, "removeManifest")
    BY <1>19 DEF LogSubmissionFails
  <2>. QED BY <1>19, <2>1, GotoFacts
<1>20. CASE Abandon(c)
  BY <1>20, ReturnFacts DEF Abandon
<1>. QED
  BY <1>1, <1>2, <1>3, <1>4, <1>5, <1>6, <1>7, <1>8, <1>9, <1>10, <1>11, <1>12, <1>13, <1>14,
     <1>15, <1>16, <1>17, <1>18, <1>19, <1>20 DEF Proceeds, Step

(* The files a step leaves alone.                                          *)
LEMMA Untouched ==
    ASSUME NEW c \in Callers, Proceeds(c)
    PROVE  /\ CreateManifest(c) \/ RemoveManifest(c) \/ manifest' = manifest
           /\ CreateRecord(c) \/ WriteRecord(c) \/ record' = record
           /\ AppendState(c) \/ trail' = trail
           /\ StoreResult(c) \/ result' = result
           /\ StoreReceipt(c) \/ receipt' = receipt
           /\ AnswerRetry(c) \/ WriteRecord(c) \/ accepted' = accepted
           /\ RunJob(c) \/ attempts' = attempts
           /\ \/ LogSubmission(c) \/ LogSubmissionFails(c) \/ LogStart(c)
              \/ LogReceipt(c) \/ LogReport(c) \/ LogFinish(c)
              \/ audit' = audit
  BY DEF Proceeds, Step, LogSubmissionFails, Abandon, CreateManifest, LogSubmission,
         RemoveManifest, CreateRecord, CheckExisting, AnswerRetry, ReadRecord, AppendState,
         WriteRecord, LogStart, RunJob, StoreResult, StoreReceipt, LogReceipt, CheckReport,
         LogReport, CheckFinish, LogFinish, disk, history

LEMMA ProceedsAlone ==
    ASSUME TypeInv, SoleCall, NEW c \in Callers, Proceeds(c)
    PROVE  ActsAlone(c) /\ ~At(c, "idle") /\ call[c].job \in Jobs /\ SoleCall'
<1>1. OthersKeep(c)
  BY Arrivals
<1>2. ~At(c, "idle")
  BY NotIdle DEF Proceeds
<1>. QED BY <1>1, <1>2, CallTyped DEF ActsAlone, OthersKeep, SoleCall, At

LEMMA BeginsAlone ==
    ASSUME Serialized, TypeInv, NEW c \in Callers, NEW j \in Jobs, Begins(c, j)
    PROVE  /\ ActsAlone(c) /\ SoleCall'
           /\ \A d \in Callers : At(d, "idle")
           /\ call'[c].job = j
           /\ call'[c].pc \in {"create", "existing", "logStart", "checkFinish"}
           /\ call'[c].outcome \notin RunOutcomes
           /\ UNCHANGED <<disk, history>>
<1>1. /\ OthersKeep(c)
      /\ call'[c].pc \in {"create", "existing", "logStart", "checkFinish"}
      /\ call'[c].outcome \notin RunOutcomes
      /\ UNCHANGED <<disk, history>>
  BY BeginFacts DEF Begins
<1>2. \A d \in Callers : At(d, "idle")
  BY DEF Begins, Submit, Execute, Cancel, Begin
<1>3. call'[c].job = j
  BY DEF Begins, Submit, Execute, Cancel, NewCall, TypeInv, TypeOK
<1>. QED BY <1>1, <1>2, <1>3 DEF ActsAlone, OthersKeep, SoleCall, At

(***************************************************************************)
(* The manifest a call runs.  A manifest is replaced only after a failed   *)
(* submission's clean-up, and under a call that holds it only if that      *)
(* clean-up is another call's: without a fault, or when calls are made one *)
(* at a time, what a call holds and what its result names is on disk.      *)
(***************************************************************************)
Undisturbed == faults = 0 \/ Serialized

HoldsCurrent(c) == Running(c) => manifest[call[c].job] = call[c].req

Recorded(c) ==
    call[c].pc = "run" \/ call[c].outcome \in RunOutcomes => record[call[c].job] # None

HeldInv ==
    /\ AnchorInv /\ ViewInv
    /\ Serialized => SoleCall
    /\ faults = 0 => \A c \in Callers : ~At(c, "removeManifest")
    /\ \A c \in Callers : Recorded(c)
    /\ \A j \in Jobs : result[j] # None => record[j] # None
    /\ Undisturbed => /\ \A c \in Callers : HoldsCurrent(c)
                      /\ \A j \in Jobs : ~Replaced(j)

(* What a running call holds it has held since its start.                  *)
LEMMA RunningArrives ==
    ASSUME TypeInv, NEW c \in Callers, Proceeds(c), Running(c)'
    PROVE  /\ call'[c].job = call[c].job
           /\ \/ Running(c) /\ call'[c].req = call[c].req
              \/ LogStart(c) /\ call'[c].req = manifest[call[c].job]
<1>. PICK k : k = call[c]
  OBVIOUS
<1>. PICK n : n = call'[c]
  OBVIOUS
<1>1. /\ n.pc = "idle" => n.outcome = None
      /\ n.pc # "idle" => n.job = k.job
      /\ n.pc # "idle" => RunJob(c) \/ n.outcome = k.outcome
      /\ n.pc # "idle" => LogStart(c) \/ n.req = k.req
      /\ n.pc = "readRecord" =>
            \/ CreateRecord(c) /\ n.target = "queued"
            \/ LogStart(c) /\ n.target = "running" /\ n.req = manifest[k.job]
            \/ (CheckFinish(c) \/ LogFinish(c)) /\ n.target = TerminalState(k.outcome)
      /\ n.pc = "appendState" => ReadRecord(c) /\ n.target = k.target
      /\ n.pc = "writeRecord" => AppendState(c) /\ n.target = k.target
      /\ n.pc = "run" => WriteRecord(c) /\ k.target = "running"
  BY Arrivals
<1>2. /\ ~At(c, "idle") /\ CallShape(k) /\ None \notin RunOutcomes
      /\ LogStart(c) => k.pc = "logStart"
      /\ RunJob(c) => k.pc = "run"
      /\ ReadRecord(c) => k.pc = "readRecord"
      /\ AppendState(c) => k.pc = "appendState"
      /\ WriteRecord(c) => k.pc = "writeRecord"
      /\ CheckFinish(c) \/ LogFinish(c) => k.pc \in FinishSteps
  BY NotIdle, CallTyped
  DEF Proceeds, LogStart, RunJob, ReadRecord, AppendState, WriteRecord, CheckFinish, LogFinish,
      At, FinishSteps, Outcomes
<1>3. CASE n.outcome \in RunOutcomes
  <2>1. n.pc # "idle" /\ (RunJob(c) \/ k.outcome \in RunOutcomes)
    BY <1>1, <1>2, <1>3
  <2>2. Running(c) /\ ~LogStart(c)
    BY <1>2, <2>1 DEF Running, CallShape
  <2>. QED BY <1>1, <2>1, <2>2
<1>4. CASE n.pc = "run"
  <2>1. Running(c) /\ ~LogStart(c)
    BY <1>1, <1>2, <1>4 DEF Running, TransitionSteps
  <2>. QED BY <1>1, <1>4, <2>1
<1>5. CASE n.pc \in TransitionSteps /\ n.target = "running"
  <2>1. CASE n.pc = "readRecord"
    <3>1. CheckFinish(c) \/ LogFinish(c) => TerminalState(k.outcome) # "running"
      BY <1>2, TerminalStateType DEF CallShape, Terminal
    <3>. QED BY <1>1, <1>5, <2>1, <3>1
  <2>2. CASE n.pc \in {"appendState", "writeRecord"}
    <3>1. Running(c) /\ ~LogStart(c)
      BY <1>1, <1>2, <1>5, <2>2 DEF Running, TransitionSteps
    <3>. QED BY <1>1, <2>2, <3>1
  <2>. QED BY <1>5, <2>1, <2>2 DEF TransitionSteps
<1>. QED BY <1>3, <1>4, <1>5 DEF Running

LEMMA FaultsGrow ==
    ASSUME TypeInv, NEW c \in Callers, Proceeds(c), faults' = 0
    PROVE  faults = 0 /\ ~LogSubmissionFails(c)
<1>1. faults \in Nat /\ (faults' = faults \/ faults' = faults + 1)
  BY DEF TypeInv, TypeOK, Proceeds, Step, LogSubmissionFails, Abandon, CreateManifest,
     LogSubmission, RemoveManifest, CreateRecord, CheckExisting, AnswerRetry, ReadRecord,
     AppendState, WriteRecord, LogStart, RunJob, StoreResult, StoreReceipt, LogReceipt,
     CheckReport, LogReport, CheckFinish, LogFinish
<1>2. LogSubmissionFails(c) => faults' = faults + 1
  BY DEF LogSubmissionFails
<1>. QED BY <1>1, <1>2

LEMMA RecordStays ==
    ASSUME TypeInv, NEW c \in Callers, Proceeds(c), NEW j \in Jobs, record[j] # None
    PROVE  record'[j] # None
<1>1. CASE WriteRecord(c)
  BY <1>1, NextRecordTyped DEF WriteRecord, TypeInv, TypeOK
<1>2. CASE ~WriteRecord(c)
  BY <1>2, RecordSteps, NewRecordTyped DEF Proceeds
<1>. QED BY <1>1, <1>2

LEMMA HeldManifest ==
    ASSUME HeldInv, NEW c \in Callers, Proceeds(c), Undisturbed, NEW j \in Jobs,
           \/ \E d \in Callers : d # c /\ Running(d) /\ call[d].job = j
           \/ Running(c) /\ call[c].job = j
           \/ LogStart(c) /\ call[c].job = j
           \/ result[j] # None
    PROVE  manifest'[j] = manifest[j]
<1>1. /\ TypeInv /\ ~At(c, "idle") /\ call[c] \in Calls /\ CallShape(call[c])
      /\ call[c].job \in Jobs
  BY NotIdle, CallTyped DEF HeldInv, AnchorInv, Proceeds
<1>2. CASE manifest' = manifest
  BY <1>2
<1>3. CASE call[c].job # j /\ (CreateManifest(c) \/ RemoveManifest(c))
  BY <1>1, <1>3 DEF CreateManifest, RemoveManifest, TypeInv, TypeOK
<1>4. ASSUME call[c].job = j, CreateManifest(c) \/ RemoveManifest(c)
      PROVE  ~Running(c) /\ ~LogStart(c)
  BY <1>1, <1>4
  DEF CreateManifest, RemoveManifest, LogStart, At, Running, TransitionSteps, CallShape,
      SubmitSteps, Outcomes
<1>5. CASE call[c].job = j /\ CreateManifest(c) /\ manifest[j] # None
  BY <1>5 DEF CreateManifest
<1>6. CASE call[c].job = j /\ CreateManifest(c) /\ manifest[j] = None
  <2>1. record[j] = None /\ result[j] = None
    BY <1>6 DEF HeldInv, AnchorInv, RecordIsAnchored
  <2>2. PICK d \in Callers : Running(d) /\ call[d].job = j
    BY <1>4, <1>6, <2>1
  <2>3. call[d].pc # "idle"
    BY <2>2 DEF Running, TransitionSteps, HeldInv, ViewInv, EvidenceInv, CallEvidence
  <2>4. CallShape(call[d]) /\ call[d] \in Calls
    BY <2>3, <1>1, CallTyped DEF At
  <2>5. call[d].req \in Requests
    BY <2>2, <2>4, TerminalStateType DEF Running, CallShape, Terminal
  <2>6. manifest[j] = call[d].req
    BY <2>2 DEF HeldInv, HoldsCurrent
  <2>. QED BY <1>6, <2>5, <2>6
<1>7. CASE call[c].job = j /\ RemoveManifest(c)
  <2>1. record[j] = None /\ result[j] = None /\ At(c, "removeManifest")
    BY <1>7 DEF RemoveManifest, At, HeldInv, AnchorInv, Anchored, Owns, OwnerSteps
  <2>2. PICK d \in Callers : d # c /\ Running(d)
    BY <1>4, <1>7, <2>1
  <2>3. call[d].pc # "idle"
    BY <2>2 DEF Running, TransitionSteps, HeldInv, ViewInv, EvidenceInv, CallEvidence
  <2>4. Serialized
    BY <2>1 DEF HeldInv, Undisturbed
  <2>. QED BY <1>1, <2>2, <2>3, <2>4 DEF HeldInv, SoleCall, At
<1>. QED BY <1>2, <1>3, <1>5, <1>6, <1>7, Untouched

LEMMA HeldStep ==
    ASSUME HeldInv, AnchorInv', ViewInv', NEW c \in Callers, Proceeds(c)
    PROVE  HeldInv'
<1>. PICK j : j = call[c].job
  OBVIOUS
<1>1. /\ TypeInv /\ ~At(c, "idle") /\ CallShape(call[c]) /\ j \in Jobs /\ OthersKeep(c)
  BY NotIdle, CallTyped, Arrivals DEF HeldInv, AnchorInv, Proceeds
<1>2. (Serialized => SoleCall)'
  BY <1>1, ProceedsAlone DEF HeldInv
<1>3. faults' = 0 => \A d \in Callers : ~At(d, "removeManifest")'
  <2>. HAVE faults' = 0
  <2>1. faults = 0 /\ ~LogSubmissionFails(c)
    BY <1>1, FaultsGrow
  <2>2. call'[c].pc # "removeManifest"
    BY <1>1, <2>1, Arrivals
  <2>. QED BY <1>1, <2>1, <2>2 DEF OthersKeep, HeldInv, At
<1>4. ASSUME NEW d \in Callers PROVE Recorded(d)'
  <2>1. CASE d # c
    <3>1. call'[d] = call[d] /\ Recorded(d)
      BY <1>1, <2>1 DEF OthersKeep, HeldInv
    <3>2. call[d].pc = "run" \/ call[d].outcome \in RunOutcomes => call[d].job \in Jobs
      BY CallTyped DEF At, HeldInv, AnchorInv, ViewInv, EvidenceInv, CallEvidence
    <3>. QED BY <1>1, <3>1, <3>2, RecordStays DEF Recorded
  <2>2. CASE d = c
    <3>1. CASE call'[c].pc = "run"
      <4>1. WriteRecord(c) /\ call'[c].job = j
        BY <1>1, <3>1, Arrivals
      <4>2. record'[j] # None
        BY <1>1, <4>1, NextRecordTyped DEF WriteRecord, TypeInv, TypeOK
      <4>. QED BY <2>2, <4>1, <4>2 DEF Recorded
    <3>2. CASE call'[c].outcome \in RunOutcomes
      <4>1. call'[c].pc # "idle" /\ call'[c].job = j
        BY <1>1, <3>2, Arrivals DEF Outcomes
      <4>2. RunJob(c) \/ call[c].outcome \in RunOutcomes
        BY <1>1, <3>2, <4>1, Arrivals
      <4>3. record[j] # None
        BY <4>2 DEF RunJob, At, HeldInv, Recorded
      <4>. QED BY <1>1, <2>2, <4>1, <4>3, RecordStays DEF Recorded
    <3>. QED BY <2>2, <3>1, <3>2 DEF Recorded
  <2>. QED BY <2>1, <2>2
<1>5. ASSUME NEW i \in Jobs, result'[i] # None
      PROVE  record'[i] # None
  <2>1. CASE result[i] # None
    BY <1>1, <2>1, RecordStays DEF HeldInv
  <2>2. CASE result[i] = None
    <3>1. StoreResult(c) /\ i = j
      BY <1>1, <1>5, <2>2, Untouched DEF StoreResult, TypeInv, TypeOK
    <3>2. record[j] # None
      BY <1>1, <3>1 DEF StoreResult, At, CallShape, ReportSteps, HeldInv, Recorded
    <3>. QED BY <1>1, <3>1, <3>2, RecordStays
  <2>. QED BY <2>1, <2>2
<1>6. ASSUME Undisturbed'
      PROVE  /\ \A d \in Callers : HoldsCurrent(d)'
             /\ \A i \in Jobs : ~Replaced(i)'
  <2>1. Undisturbed
    BY <1>1, <1>6, FaultsGrow DEF Undisturbed
  <2>2. ASSUME NEW d \in Callers, Running(d)'
        PROVE  manifest'[call'[d].job] = call'[d].req
    <3>1. CASE d # c
      <4>1. call'[d] = call[d] /\ Running(d)
        BY <1>1, <2>2, <3>1 DEF OthersKeep, Running
      <4>2. call[d].job \in Jobs
        BY <4>1, CallTyped
        DEF At, HeldInv, AnchorInv, ViewInv, EvidenceInv, CallEvidence, Running, TransitionSteps
      <4>3. manifest[call[d].job] = call[d].req
        BY <2>1, <4>1 DEF HeldInv, HoldsCurrent
      <4>. QED BY <2>1, <3>1, <4>1, <4>2, <4>3, HeldManifest
    <3>2. CASE d = c
      <4>1. /\ call'[c].job = j
            /\ \/ Running(c) /\ call'[c].req = call[c].req
               \/ LogStart(c) /\ call'[c].req = manifest[j]
        BY <1>1, <2>2, <3>2, RunningArrives
      <4>2. manifest[j] = call'[c].req
        BY <2>1, <4>1 DEF HeldInv, HoldsCurrent
      <4>. QED BY <1>1, <2>1, <3>2, <4>1, <4>2, HeldManifest
    <3>. QED BY <3>1, <3>2
  <2>3. ASSUME NEW i \in Jobs, result'[i] # None
        PROVE  result'[i].req = manifest'[i]
    <3>1. CASE result[i] # None
      <4>1. result'[i] = result[i]
        BY <1>1, <3>1, Untouched DEF StoreResult, TypeInv, TypeOK
      <4>. QED BY <2>1, <3>1, <4>1, HeldManifest DEF HeldInv, Replaced
    <3>2. CASE result[i] = None
      <4>1. StoreResult(c) /\ i = j /\ result'[i] = ResultOf(call[c]) /\ manifest' = manifest
        BY <1>1, <2>3, <3>2, Untouched DEF StoreResult, TypeInv, TypeOK
      <4>2. Running(c) /\ ResultOf(call[c]).req = call[c].req
        BY <1>1, <4>1 DEF StoreResult, At, CallShape, ReportSteps, Running, ResultOf
      <4>. QED BY <2>1, <4>1, <4>2 DEF HeldInv, HoldsCurrent
    <3>. QED BY <3>1, <3>2
  <2>. QED BY <2>2, <2>3 DEF HoldsCurrent, Replaced
<1>. QED BY <1>2, <1>3, <1>4, <1>5, <1>6 DEF HeldInv

LEMMA HeldNext == HeldInv /\ [Next]_vars => HeldInv'
<1>. SUFFICES ASSUME HeldInv, [Next]_vars PROVE HeldInv'
  OBVIOUS
<1>1. TypeInv /\ AnchorInv' /\ ViewInv'
  BY AnchorNext, ViewNext DEF HeldInv, AnchorInv
<1>2. CASE UNCHANGED vars
  BY <1>1, <1>2
  DEF HeldInv, SoleCall, Recorded, HoldsCurrent, Running, Replaced, Undisturbed, At, vars, disk
<1>3. ASSUME NEW c \in Callers, NEW j \in Jobs, Begins(c, j) PROVE HeldInv'
  <2>1. /\ OthersKeep(c) /\ UNCHANGED <<disk, history, faults>>
        /\ call'[c].pc \in {"create", "existing", "logStart", "checkFinish"}
        /\ call'[c].outcome \notin RunOutcomes
    BY <1>1, <1>3, BeginFacts DEF Begins, Submit, Execute, Cancel
  <2>2. (Serialized => SoleCall)'
    BY <1>1, <1>3, BeginsAlone
  <2>3. ~Running(c)' /\ Recorded(c)'
    BY <2>1 DEF Running, Recorded, TransitionSteps
  <2>4. \A d \in Callers : Recorded(d)' /\ (faults' = 0 => ~At(d, "removeManifest")')
    BY <2>1, <2>3 DEF OthersKeep, HeldInv, Recorded, At, disk
  <2>5. Undisturbed' => \A d \in Callers : HoldsCurrent(d)'
    BY <2>1, <2>3 DEF OthersKeep, HeldInv, HoldsCurrent, Running, Undisturbed, disk
  <2>6. /\ \A i \in Jobs : result'[i] # None => record'[i] # None
        /\ Undisturbed' => \A i \in Jobs : ~Replaced(i)'
    BY <2>1 DEF HeldInv, Replaced, Undisturbed, disk
  <2>. QED BY <1>1, <2>2, <2>4, <2>5, <2>6 DEF HeldInv
<1>. QED BY <1>1, <1>2, <1>3, HeldStep DEF Next, Quiesced, Proceeds, Begins

LEMMA InitHeldInv == Init => HeldInv
<1>. SUFFICES ASSUME Init PROVE HeldInv
  OBVIOUS
<1>1. \A c \in Callers : call[c].pc = "idle" /\ call[c].outcome = None /\ None \notin RunOutcomes
  BY DEF Init, Idle, NewCall, Outcomes
<1>2. \A j \in Jobs : result[j] = None
  BY DEF Init
<1>. QED BY <1>1, <1>2, InitAnchorInv, InitViewInv
         DEF HeldInv, SoleCall, At, Recorded, HoldsCurrent, Running, TransitionSteps, Replaced

(* Whatever is written in whatever order, summary, receipt, trace and      *)
(* inspection tell the same story of every job whose manifest was not      *)
(* replaced under its running call, which takes a fault beside another     *)
(* call; what the lookup accepts the summary accepts in any case.          *)
THEOREM ViewsNeverDisagree == Spec => []ViewsAgree
<1>1. HeldInv => ViewsAgree
  <2>. SUFFICES ASSUME HeldInv, NEW j \in Jobs
                PROVE
        /\ Replaced(j) => faults > 0 /\ ~Serialized
        /\ ~Replaced(j) =>
              /\ j \in AcceptedCount <=> ReceiptAnswer(j) = "accepted"
              /\ j \in AcceptedCount <=> Traceable(j)
              /\ j \in Summarized /\ SummaryValidation(j) = "rejected"
                    => ReceiptAnswer(j) = "rejected"
        /\ ReceiptAnswer(j) = "accepted" => j \in AcceptedCount
        /\ j \in AcceptedCount =>
              /\ SummaryValidation(j) = "accepted"
              /\ [job |-> j, by |-> TakenBy(j), outcome |-> "completed"] \in ListedResults
        /\ ~InspectionFails => \A w \in Workers : \A shown \in Inspect("job_executed", w) :
              shown[1] = j => shown[2].validation = ReceiptAnswer(j)
        /\ \A report \in Reports : Preflight(j, report) = "ready_for_validation" =>
              \E i \in DOMAIN audit[j] :
                  audit[j][i].type = "started" /\ audit[j][i].by = report.by
    BY DEF ViewsAgree
  <2>0. ViewInv
    BY DEF HeldInv
  <2>1. Replaced(j) => faults > 0 /\ ~Serialized
    BY DEF HeldInv, Undisturbed, ViewInv, EvidenceInv, TypeInv, TypeOK
  <2>2. ReceiptAnswer(j) = "accepted" => j \in AcceptedCount
    BY <2>0, AcceptedItem
  <2>8. ASSUME ~Replaced(j), Validated(j)
        PROVE  Input[manifest[j]] = Input[receipt[j].req] /\ result[j].req = manifest[j]
    BY <2>0, <2>8, ValidatedFits DEF Replaced
  <2>9. ~Replaced(j) /\ j \in AcceptedCount => ReceiptAnswer(j) = "accepted"
    BY <2>0, <2>8, AcceptedItem, ReceiptShown
  <2>10. ~Replaced(j) /\ ReceiptAnswer(j) = "accepted" => Traceable(j)
    BY <2>0, <2>8, ReceiptShown, ValidatedFits DEF Traceable
  <2>3. ASSUME j \in AcceptedCount
        PROVE  /\ SummaryValidation(j) = "accepted"
               /\ [job |-> j, by |-> TakenBy(j), outcome |-> "completed"] \in ListedResults
    <3>1. /\ Errors(j) = {} /\ Validated(j) /\ receipt[j].accepted = TRUE
          /\ TakenBy(j) = receipt[j].by
      <4>1. /\ Errors(j) = {} /\ Validated(j) /\ receipt[j].accepted
            /\ TakenBy(j) = receipt[j].by
        BY <2>0, <2>3, AcceptedItem
      <4>2. receipt[j].accepted \in BOOLEAN
        BY <2>0, <4>1, ValidatedFits
      <4>. QED BY <4>1, <4>2
    <3>2. receipt[j] # None /\ result[j] # None /\ result[j].by = TakenBy(j)
          /\ result[j].outcome = "completed"
      BY <2>0, <3>1, ValidatedFits
    <3>3. SummaryValidation(j) = Judged(receipt[j].accepted)
      BY <3>1, <3>2, Zenon DEF SummaryValidation
    <3>4. SummaryValidation(j) = "accepted"
      BY <3>1, <3>3, JudgedFacts
    <3>. QED BY <3>2, <3>4 DEF ListedResults
  <2>4. ASSUME ~Replaced(j), SummaryValidation(j) = "rejected"
        PROVE  ReceiptAnswer(j) = "rejected"
    <3>1. CASE Errors(j) # {}
      <4>1. SummaryValidation(j) \in {"unavailable", "invalid"}
        BY <3>1 DEF SummaryValidation
      <4>. QED BY <2>4, <4>1
    <3>2. CASE Errors(j) = {} /\ receipt[j] = None
      <4>1. SummaryValidation(j) = "pending"
        BY <3>2, Zenon DEF SummaryValidation
      <4>. QED BY <2>4, <4>1
    <3>3. CASE Errors(j) = {} /\ receipt[j] # None
      <4>1. Validated(j) /\ manifest[j] # None /\ TakenBy(j) = receipt[j].by
        BY <2>0, <3>3, SummaryShown
      <4>2. SummaryValidation(j) = Judged(receipt[j].accepted)
        BY <3>3, Zenon DEF SummaryValidation
      <4>3. receipt[j].accepted # TRUE /\ receipt[j].accepted \in BOOLEAN
        BY <2>0, <2>4, <4>1, <4>2, JudgedFacts, ValidatedFits
      <4>. QED BY <2>0, <2>4, <2>8, <4>1, <4>3, ReceiptShown
    <3>. QED BY <3>1, <3>2, <3>3
  <2>5. ASSUME ~InspectionFails, NEW w \in Workers, NEW shown \in Inspect("job_executed", w),
               shown[1] = j
        PROVE  shown[2].validation = ReceiptAnswer(j)
    <3>1. shown[2] \in DerivedEvents(j) /\ shown[2].type = "job_executed"
      BY <2>5 DEF Inspect
    <3>2. /\ manifest[j] # None /\ Validated(j)
          /\ shown[2].validation = Judged(receipt[j].accepted)
      BY <3>1 DEF DerivedEvents
    <3>3. ReceiptAnswer(j) \notin {"not_found", "invalid"}
      BY <2>5, <3>2 DEF InspectionFails
    <3>4. receipt[j] # None
      BY <2>0, <3>2, ValidatedFits
    <3>5. ReceiptAnswer(j) = Judged(receipt[j].accepted)
      BY <3>3, <3>4, Zenon DEF ReceiptAnswer
    <3>. QED BY <3>2, <3>5
  <2>6. ASSUME NEW report \in Reports, Preflight(j, report) = "ready_for_validation"
        PROVE  \E i \in DOMAIN audit[j] :
                  audit[j][i].type = "started" /\ audit[j][i].by = report.by
    <3>1. record[j] # None /\ report.by = TakenBy(j) /\ report.by \in Workers
      BY <2>6 DEF Preflight, FitsJob, Reports
    <3>2. Started(j, report.by)
      BY <2>0, <3>1 DEF TakenBy, ViewInv, WorkerStarted
    <3>. QED BY <3>2 DEF Started
  <2>7. Traceable(j) => ReceiptAnswer(j) = "accepted"
    BY DEF Traceable
  <2>. QED BY <2>1, <2>2, <2>3, <2>4, <2>5, <2>6, <2>7, <2>9, <2>10
<1>. QED BY <1>1, InitHeldInv, HeldNext, PTL DEF Spec

(***************************************************************************)
(* Calls made one at a time.  What follows assumes Serialized: the         *)
(* invariants that hold under interleaving still do, and a call in         *)
(* progress is the only one, whatever was cut short before it.             *)
(***************************************************************************)
BaseInv == AnchorInv /\ ViewInv /\ SoleCall /\ HeldInv

LEMMA BaseNext == Serialized /\ BaseInv /\ [Next]_vars => BaseInv'
<1>. SUFFICES ASSUME Serialized, BaseInv, [Next]_vars PROVE BaseInv'
  OBVIOUS
<1>1. TypeInv /\ AnchorInv' /\ ViewInv' /\ HeldInv'
  BY AnchorNext, ViewNext, HeldNext DEF BaseInv, AnchorInv
<1>2. SoleCall'
  <2>1. CASE UNCHANGED vars
    BY <2>1 DEF BaseInv, SoleCall, At, vars
  <2>2. ASSUME NEW c \in Callers, Proceeds(c) PROVE SoleCall'
    BY <1>1, <2>2, ProceedsAlone DEF BaseInv
  <2>3. ASSUME NEW c \in Callers, NEW j \in Jobs, Begins(c, j) PROVE SoleCall'
    BY <1>1, <2>3, BeginsAlone
  <2>. QED BY <2>1, <2>2, <2>3 DEF Next, Quiesced, Proceeds, Begins
<1>. QED BY <1>1, <1>2 DEF BaseInv

LEMMA InitBaseInv == Init => BaseInv
  BY InitAnchorInv, InitViewInv, InitHeldInv DEF Init, BaseInv, SoleCall, At, Idle, NewCall

-----------------------------------------------------------------------------
(***************************************************************************)
(* The copy of the record a call holds is the record, and the job a call   *)
(* runs is running, for it, and is run once.                               *)
(***************************************************************************)
TakesJob(j, w, n) ==
    /\ record[j] # None
    /\ record[j].status = "running" /\ record[j].worker = w /\ attempts[j] = n

CallCurrent(c) ==
    LET k == call[c] IN
    /\ k.pc \in CopySteps => k.seen = record[k.job]
    /\ k.pc = "run" => TakesJob(k.job, k.by, 0)
    /\ k.outcome \in RunOutcomes => TakesJob(k.job, k.by, 1)

Unattempted(j) ==
    record[j] = None \/ record[j].status \in {"created", "queued"} => attempts[j] = 0

EvidenceByWorker(j) ==
    record[j] # None /\ record[j].evidence # None => record[j].evidence.by = record[j].worker

PromiseInv ==
    /\ BaseInv
    /\ \A c \in Callers : CallCurrent(c)
    /\ \A j \in Jobs : Unattempted(j) /\ EvidenceByWorker(j)

LEMMA IdleCurrent ==
    ASSUME BaseInv', NEW c \in Callers, At(c, "idle")'
    PROVE  CallCurrent(c)'
<1>1. call'[c].outcome \notin RunOutcomes
  BY DEF BaseInv, ViewInv, EvidenceInv, CallEvidence, At
<1>. QED BY <1>1 DEF CallCurrent, CopySteps, At

(* What a transition writes, when the copy is the record.                  *)
LEMMA WrittenRecord ==
    ASSUME PromiseInv, NEW c \in Callers, NEW j \in Jobs, call[c].job = j, WriteRecord(c)
    PROVE  /\ record[j] # None /\ record'[j] # None
           /\ \A i \in Jobs \ {j} : record'[i] = record[i]
           /\ record'[j].status = call[c].target
           /\ <<record[j].status, call[c].target>> \in Transitions
           /\ call[c].target = "running" => record'[j].worker = call[c].by
           /\ call[c].target # "running" => record'[j].worker = record[j].worker
           /\ call[c].target \notin {"succeeded", "failed"} => record'[j].evidence = None
           /\ call[c].target \in {"succeeded", "failed"} =>
                 /\ call[c].outcome \in RunOutcomes /\ call[c].target = TerminalState(call[c].outcome)
                 /\ record'[j].evidence # None
                 /\ record'[j].evidence.by = call[c].by
           /\ call[c].target = "running" => call[c].by \in Workers
           /\ record'[j].refs = record[j].refs + 1
<1>. PICK k : k = call[c]
  OBVIOUS
<1>1. /\ TypeInv /\ k.pc = "writeRecord" /\ CallShape(k) /\ At(c, "writeRecord")
      /\ Anchored(c) /\ CallCurrent(c)
  BY CallTyped DEF WriteRecord, At, PromiseInv, BaseInv, AnchorInv
<1>2. k.seen = record[j] /\ record[j] # None
  BY <1>1 DEF CallCurrent, Anchored, CopySteps
<1>3. /\ record'[j] = NextRecord(c) /\ \A i \in Jobs \ {j} : record'[i] = record[i]
  BY <1>1 DEF WriteRecord, TypeInv, TypeOK
<1>4. NextRecord(c) \in Records
  BY <1>1, NextRecordTyped
<1>5. <<record[j].status, k.target>> \in Transitions /\ record[j].evidence = None
  BY <1>1, <1>2 DEF CallShape
<1>6. k.target \in {"succeeded", "failed"} =>
         /\ k.outcome \in RunOutcomes /\ k.target = TerminalState(k.outcome)
  BY <1>1 DEF CallShape, TransitionSteps, TerminalState, Outcomes
<1>7. k.target \in {"succeeded", "failed"} =>
         NextRecord(c).evidence = [by |-> k.by, passed |-> k.outcome = "completed", req |-> k.req]
  BY DEF NextRecord
<1>8. k.target \in {"succeeded", "failed"} => k.by \in Workers /\ k.req \in Requests
  BY <1>1, <1>6 DEF CallShape
<1>9. k.by \in Workers /\ k.req \in Requests =>
         [by |-> k.by, passed |-> k.outcome = "completed", req |-> k.req] \in Evidence
  BY DEF Evidence
<1>10. k.target = "running" => k.by \in Workers
  BY <1>1, TerminalStateType DEF CallShape, TransitionSteps, Terminal
<1>11. /\ NextRecord(c).status = k.target
       /\ k.target = "running" => NextRecord(c).worker = k.by
       /\ k.target # "running" => NextRecord(c).worker = record[j].worker
       /\ k.target \notin {"succeeded", "failed"} => NextRecord(c).evidence = None
       /\ NextRecord(c).refs = record[j].refs + 1
  BY <1>2, <1>5 DEF NextRecord
<1>12. NextRecord(c) # None
  BY <1>4
<1>13. k.target \in {"succeeded", "failed"} =>
         NextRecord(c).evidence # None /\ NextRecord(c).evidence.by = k.by
  BY <1>7, <1>8, <1>9
<1>. QED BY <1>2, <1>3, <1>5, <1>6, <1>10, <1>11, <1>12, <1>13

LEMMA CreatedRecord ==
    ASSUME BaseInv, NEW c \in Callers, NEW j \in Jobs, call[c].job = j, CreateRecord(c)
    PROVE  /\ record[j] = None /\ record'[j] = NewRecord /\ NewRecord # None
           /\ \A i \in Jobs \ {j} : record'[i] = record[i]
           /\ call'[c].pc = "readRecord" /\ call'[c].target = "queued"
<1>1. record[j] = None /\ TypeInv
  BY DEF BaseInv, AnchorInv, Anchored, CreateRecord, At, Owns, OwnerSteps
<1>2. record' = [record EXCEPT ![j] = NewRecord] /\ BeginTransition(c, "queued")
  BY <1>1 DEF CreateRecord
<1>. QED BY <1>1, <1>2, TransitionFacts, NewRecordTyped DEF TypeInv, TypeOK

LEMMA PromiseCall ==
    ASSUME PromiseInv, BaseInv', NEW c \in Callers, NEW j \in Jobs, call[c].job = j, Proceeds(c)
    PROVE  CallCurrent(c)'
<1>. PICK k : k = call[c]
  OBVIOUS
<1>. PICK n : n = call'[c]
  OBVIOUS
<1>1. TypeInv /\ CallShape(k) /\ CallCurrent(c) /\ Unattempted(j)
  BY ProceedsAlone, CallTyped DEF PromiseInv, BaseInv, AnchorInv
<1>2. CASE n.pc = "idle"
  BY <1>2, IdleCurrent DEF At
<1>3. CASE n.pc # "idle"
  <2>1. n.job = j /\ n.by = k.by
    BY <1>1, <1>3, Arrivals
  <2>2. n.pc \in CopySteps => n.seen = record'[j]
    <3>1. CASE n.pc = "appendState"
      <4>1. ReadRecord(c)
        BY <1>1, <3>1, Arrivals
      <4>. QED BY <1>1, <3>1, <4>1, ReadFacts DEF ReadRecord, disk
    <3>2. CASE n.pc = "writeRecord"
      <4>1. AppendState(c) /\ k.pc = "appendState"
        BY <1>1, <3>2, Arrivals DEF AppendState, At
      <4>2. n.seen = k.seen
        BY <1>1, <4>1, GotoFacts DEF AppendState, SameFields
      <4>. QED BY <1>1, <4>1, <4>2 DEF AppendState, CallCurrent, CopySteps
    <3>. QED BY <3>1, <3>2 DEF CopySteps
  <2>3. ASSUME n.pc = "run" PROVE TakesJob(j, k.by, 0)'
    <3>1. WriteRecord(c) /\ k.target = "running"
      BY <1>1, <2>3, Arrivals
    <3>2. record[j].status = "queued"
      BY <3>1, WrittenRecord DEF Transitions
    <3>3. attempts'[j] = 0
      BY <1>1, <3>1, <3>2 DEF WriteRecord, Unattempted
    <3>4. /\ record'[j] # None /\ record'[j].status = k.target
          /\ k.target = "running" => record'[j].worker = k.by
      BY <3>1, WrittenRecord
    <3>. QED BY <3>1, <3>3, <3>4 DEF TakesJob
  <2>4. ASSUME n.outcome \in RunOutcomes PROVE TakesJob(j, k.by, 1)'
    <3>1. CASE RunJob(c)
      <4>1. TakesJob(j, k.by, 0) /\ record' = record
        BY <1>1, <3>1 DEF RunJob, At, CallCurrent, disk
      <4>2. attempts'[j] = 1
        BY <1>1, <3>1, <4>1 DEF RunJob, TakesJob, TypeInv, TypeOK
      <4>. QED BY <4>1, <4>2 DEF TakesJob
    <3>2. CASE ~RunJob(c)
      <4>1. k.outcome \in RunOutcomes /\ attempts' = attempts
        BY <1>1, <1>3, <2>4, <3>2, Arrivals, Untouched
      <4>2. TakesJob(j, k.by, 1)
        BY <1>1, <4>1 DEF CallCurrent
      <4>3. ~CreateRecord(c)
        BY <1>1, <4>1 DEF CreateRecord, At, CallShape, SubmitSteps, RunOutcomes, Outcomes
      <4>4. ASSUME WriteRecord(c) PROVE FALSE
        <5>1. k.target # "running"
          BY <1>1, <4>1, <4>4, TerminalStateType
          DEF WriteRecord, At, CallShape, TransitionSteps, Terminal, RunOutcomes, Outcomes
        <5>2. n.pc = "idle"
          BY <1>1, <4>4, <5>1, ReturnFacts DEF WriteRecord
        <5>. QED BY <1>3, <5>2
      <4>5. record' = record
        BY <4>3, <4>4, Untouched
      <4>. QED BY <4>1, <4>2, <4>5 DEF TakesJob
    <3>. QED BY <3>1, <3>2
  <2>. QED BY <2>1, <2>2, <2>3, <2>4 DEF CallCurrent
<1>. QED BY <1>2, <1>3

LEMMA PromiseJob ==
    ASSUME PromiseInv, NEW c \in Callers, NEW j \in Jobs, call[c].job = j, Proceeds(c),
           NEW i \in Jobs
    PROVE  Unattempted(i)' /\ EvidenceByWorker(i)'
<1>. PICK k : k = call[c]
  OBVIOUS
<1>1. TypeInv /\ CallCurrent(c) /\ Unattempted(i) /\ EvidenceByWorker(i)
  BY DEF PromiseInv, BaseInv, AnchorInv
<1>2. CASE CreateRecord(c)
  <2>1. attempts' = attempts
    BY <1>2 DEF CreateRecord, history
  <2>. QED BY <1>1, <1>2, <2>1, CreatedRecord
           DEF Unattempted, EvidenceByWorker, PromiseInv, NewRecord
<1>3. CASE WriteRecord(c)
  <2>1. attempts' = attempts
    BY <1>3 DEF WriteRecord
  <2>2. CASE i # j
    <3>1. record'[i] = record[i]
      BY <1>3, <2>2, WrittenRecord
    <3>. QED BY <1>1, <2>1, <3>1 DEF Unattempted, EvidenceByWorker
  <2>3. CASE i = j
    <3>1. Unattempted(j)'
      <4>1. k.target \in {"created", "queued"} => record[j].status = "created"
        BY <1>3, WrittenRecord DEF Transitions
      <4>. QED BY <1>1, <1>3, <2>1, <2>3, <4>1, WrittenRecord DEF Unattempted
    <3>2. EvidenceByWorker(j)'
      <4>1. CASE k.target \in {"succeeded", "failed"}
        <5>1. record[j].worker = k.by
          BY <1>1, <1>3, <4>1, WrittenRecord DEF CallCurrent, TakesJob
        <5>2. /\ k.target # "running" => record'[j].worker = record[j].worker
              /\ k.target \in {"succeeded", "failed"} => record'[j].evidence.by = k.by
          BY <1>3, WrittenRecord
        <5>. QED BY <4>1, <5>1, <5>2 DEF EvidenceByWorker
      <4>2. CASE k.target \notin {"succeeded", "failed"}
        BY <1>3, <4>2, WrittenRecord DEF EvidenceByWorker
      <4>. QED BY <4>1, <4>2
    <3>. QED BY <2>3, <3>1, <3>2
  <2>. QED BY <2>2, <2>3
<1>4. CASE RunJob(c)
  <2>1. TakesJob(j, k.by, 0) /\ record' = record /\ \A h \in Jobs \ {j} : attempts'[h] = attempts[h]
    BY <1>1, <1>4 DEF RunJob, At, CallCurrent, disk, TypeInv, TypeOK
  <2>. QED BY <1>1, <2>1 DEF TakesJob, Unattempted, EvidenceByWorker
<1>5. CASE ~CreateRecord(c) /\ ~WriteRecord(c) /\ ~RunJob(c)
  BY <1>1, <1>5, Untouched DEF Unattempted, EvidenceByWorker
<1>. QED BY <1>2, <1>3, <1>4, <1>5

LEMMA PromiseNext == Serialized /\ PromiseInv /\ [Next]_vars => PromiseInv'
<1>. SUFFICES ASSUME Serialized, PromiseInv, [Next]_vars PROVE PromiseInv'
  OBVIOUS
<1>1. TypeInv /\ SoleCall /\ BaseInv /\ BaseInv'
  BY BaseNext DEF PromiseInv, BaseInv, AnchorInv
<1>2. CASE UNCHANGED vars
  BY <1>1, <1>2
  DEF PromiseInv, CallCurrent, TakesJob, Unattempted, EvidenceByWorker, vars, disk, history
<1>3. ASSUME NEW c \in Callers, Proceeds(c) PROVE PromiseInv'
  <2>1. ActsAlone(c) /\ call[c].job \in Jobs
    BY <1>1, <1>3, ProceedsAlone
  <2>2. \A d \in Callers : CallCurrent(d)'
    BY <1>1, <1>3, <2>1, PromiseCall, IdleCurrent DEF ActsAlone
  <2>. QED BY <1>1, <1>3, <2>1, <2>2, PromiseJob DEF PromiseInv
<1>4. ASSUME NEW c \in Callers, NEW j \in Jobs, Begins(c, j) PROVE PromiseInv'
  <2>1. /\ ActsAlone(c) /\ call'[c].outcome \notin RunOutcomes
        /\ call'[c].pc \in {"create", "existing", "logStart", "checkFinish"}
        /\ UNCHANGED <<record, attempts>>
    BY <1>1, <1>4, BeginsAlone DEF disk, history
  <2>2. \A d \in Callers : CallCurrent(d)'
    BY <1>1, <2>1, IdleCurrent DEF ActsAlone, CallCurrent, CopySteps
  <2>. QED BY <1>1, <2>1, <2>2 DEF PromiseInv, Unattempted, EvidenceByWorker
<1>. QED BY <1>2, <1>3, <1>4 DEF Next, Quiesced, Proceeds, Begins

LEMMA InitPromiseInv == Init => PromiseInv
  BY InitBaseInv
  DEF Init, PromiseInv, CallCurrent, Unattempted, EvidenceByWorker, CopySteps, Idle, NewCall,
      RunOutcomes, Outcomes

(***************************************************************************)
(* The refinement.  Whom the summary credits is a function of the record   *)
(* alone, so the promised state changes only with the record and the       *)
(* number of attempts: every other step stutters.                          *)
(***************************************************************************)
StateOf(j) == IF record[j] = None THEN "absent" ELSE record[j].status
CreditOf(j) == IF Credited(j) THEN receipt[j].by ELSE None

CreditInv ==
    \A j \in Jobs :
        CreditOf(j) = IF /\ record[j] # None
                         /\ record[j].status = "succeeded" /\ record[j].evidence # None
                      THEN record[j].worker ELSE None

LEMMA CreditFromRecord == Serialized /\ PromiseInv => CreditInv
<1>. SUFFICES ASSUME Serialized, PromiseInv, NEW j \in Jobs
              PROVE  CreditOf(j) = IF /\ record[j] # None
                                      /\ record[j].status = "succeeded"
                                      /\ record[j].evidence # None
                                   THEN record[j].worker ELSE None
  BY DEF CreditInv
<1>1. CASE ~(/\ record[j] # None /\ record[j].status = "succeeded" /\ record[j].evidence # None)
  BY <1>1 DEF CreditOf, Credited
<1>2. CASE record[j] # None /\ record[j].status = "succeeded" /\ record[j].evidence # None
  <2>1. ViewInv /\ manifest[j] # None
    BY <1>2 DEF PromiseInv, BaseInv, AnchorInv, RecordIsAnchored
  <2>2. /\ receipt[j] # None /\ receipt[j].accepted
        /\ record[j].evidence.by = receipt[j].by
    BY <1>2, <2>1 DEF ViewInv, EvidenceInv, RecordMatches
  <2>3. record[j].evidence.passed
    BY <1>2, <2>1 DEF ViewInv, VerdictIsStatus
  <2>4. record[j].evidence.by = record[j].worker
    BY <1>2 DEF PromiseInv, EvidenceByWorker
  <2>5. result[j].req = manifest[j] /\ result[j].req = receipt[j].req /\ SameAttribution(j)
    BY <1>2, <2>1, ValidatedFits
    DEF PromiseInv, BaseInv, HeldInv, Undisturbed, Replaced, Validated
  <2>. QED BY <1>2, <2>1, <2>2, <2>3, <2>4, <2>5 DEF CreditOf, Credited
<1>. QED BY <1>1, <1>2

WorkerOf(j) == IF record[j] = None THEN None ELSE record[j].worker

(* One job's record moves to a status, with the worker it then has.        *)
LEMMA RecordMoves ==
    ASSUME CreditInv, CreditInv', NEW j \in Jobs, NEW to,
           record'[j] # None, record'[j].status = to,
           \A i \in Jobs \ {j} : record'[i] = record[i]
    PROVE  /\ [i \in Jobs |-> StateOf(i)]' = [[i \in Jobs |-> StateOf(i)] EXCEPT ![j] = to]
           /\ [i \in Jobs |-> WorkerOf(i)]' =
                 [[i \in Jobs |-> WorkerOf(i)] EXCEPT ![j] = record'[j].worker]
           /\ record'[j].worker = WorkerOf(j) => UNCHANGED [i \in Jobs |-> WorkerOf(i)]
           /\ to = "succeeded" /\ record'[j].evidence # None =>
                 [i \in Jobs |-> CreditOf(i)]' =
                    [[i \in Jobs |-> CreditOf(i)] EXCEPT ![j] = record'[j].worker]
           /\ to # "succeeded" /\ StateOf(j) # "succeeded" =>
                 UNCHANGED [i \in Jobs |-> CreditOf(i)]
<1>1. \A i \in Jobs \ {j} : /\ StateOf(i)' = StateOf(i) /\ WorkerOf(i)' = WorkerOf(i)
                            /\ CreditOf(i)' = CreditOf(i)
  BY DEF StateOf, WorkerOf, CreditInv
<1>2. StateOf(j)' = to /\ WorkerOf(j)' = record'[j].worker
  BY DEF StateOf, WorkerOf
<1>3. to = "succeeded" /\ record'[j].evidence # None => CreditOf(j)' = record'[j].worker
  BY DEF CreditInv
<1>4. to # "succeeded" /\ StateOf(j) # "succeeded" => CreditOf(j)' = CreditOf(j)
  BY DEF CreditInv, StateOf
<1>. QED BY <1>1, <1>2, <1>3, <1>4

LEMMA PromiseStep ==
    ASSUME PromiseInv, PromiseInv', CreditInv, CreditInv',
           NEW c \in Callers, NEW j \in Jobs, call[c].job = j, Proceeds(c)
    PROVE  [Promise!Next]_(Promise!vars)
<1>. PICK k : k = call[c]
  OBVIOUS
<1>1. TypeInv /\ CallCurrent(c) /\ attempts \in [Jobs -> Nat]
  BY DEF PromiseInv, BaseInv, AnchorInv, TypeInv, TypeOK
<1>2. CASE CreateRecord(c)
  <2>1. /\ record[j] = None /\ record'[j] = NewRecord /\ NewRecord # None
        /\ \A i \in Jobs \ {j} : record'[i] = record[i]
        /\ attempts' = attempts
    BY <1>2, CreatedRecord DEF PromiseInv, CreateRecord, history
  <2>2. record'[j].status = "created" /\ record'[j].worker = WorkerOf(j)
        /\ StateOf(j) = "absent"
    BY <2>1 DEF NewRecord, WorkerOf, StateOf
  <2>3. /\ [i \in Jobs |-> StateOf(i)]' =
              [[i \in Jobs |-> StateOf(i)] EXCEPT ![j] = "created"]
        /\ UNCHANGED [i \in Jobs |-> WorkerOf(i)]
        /\ UNCHANGED [i \in Jobs |-> CreditOf(i)]
    BY <2>1, <2>2, RecordMoves
  <2>4. Promise!Create(j)
    BY <2>1, <2>2, <2>3 DEF Promise!Create, Promise!Move, StateOf, WorkerOf, CreditOf
  <2>. QED BY <2>4 DEF Promise!Next
<1>3. CASE RunJob(c)
  <2>1. /\ TakesJob(j, k.by, 0) /\ record' = record
        /\ attempts' = [attempts EXCEPT ![j] = attempts[j] + 1]
    BY <1>1, <1>3 DEF RunJob, At, CallCurrent, disk
  <2>2. Promise!Attempt(j)
    BY <2>1 DEF Promise!Attempt, TakesJob, CreditInv, CreditOf
  <2>. QED BY <2>2 DEF Promise!Next
<1>4. CASE WriteRecord(c)
  <2>1. /\ record[j] # None /\ record'[j] # None /\ record'[j].status = k.target
        /\ \A i \in Jobs \ {j} : record'[i] = record[i]
        /\ attempts' = attempts
        /\ <<record[j].status, k.target>> \in Transitions
    BY <1>4, WrittenRecord DEF WriteRecord
  <2>2. k.target # "running" => record'[j].worker = record[j].worker
    BY <1>4, WrittenRecord
  <2>3. k.target = "running" => record'[j].worker = k.by /\ k.by \in Workers
    BY <1>4, WrittenRecord
  <2>4. k.target \in {"succeeded", "failed"} =>
           /\ k.outcome \in RunOutcomes /\ k.target = TerminalState(k.outcome)
           /\ record'[j].evidence # None
    BY <1>4, WrittenRecord
  <2>5. k.target \in {"succeeded", "failed"} => TakesJob(j, k.by, 1)
    BY <1>1, <2>4 DEF CallCurrent
  <2>11. /\ StateOf(j) = record[j].status /\ WorkerOf(j) = record[j].worker
         /\ StateOf(j) \in {"created", "queued", "running"}
    BY <2>1 DEF StateOf, WorkerOf, Transitions
  <2>12. [i \in Jobs |-> StateOf(i)]' = [[i \in Jobs |-> StateOf(i)] EXCEPT ![j] = k.target]
    BY <2>1, RecordMoves
  <2>13. k.target # "running" => UNCHANGED [i \in Jobs |-> WorkerOf(i)]
    BY <2>1, <2>2, <2>11, RecordMoves
  <2>14. k.target # "succeeded" => UNCHANGED [i \in Jobs |-> CreditOf(i)]
    BY <2>1, <2>11, RecordMoves
  <2>15. [i \in Jobs |-> StateOf(i)][j] = record[j].status
    BY <2>11
  <2>. USE DEF Promise!Move, StateOf, WorkerOf, CreditOf
  <2>6. CASE k.target = "queued"
    <3>1. record[j].status = "created"
      BY <2>1, <2>6 DEF Transitions
    <3>2. Promise!Queue(j)
      BY <2>1, <2>6, <2>12, <2>13, <2>14, <2>15, <3>1 DEF Promise!Queue
    <3>. QED BY <3>2 DEF Promise!Next
  <2>7. CASE k.target = "running"
    <3>1. record[j].status = "queued"
      BY <2>1, <2>7 DEF Transitions
    <3>2. [i \in Jobs |-> WorkerOf(i)]' = [[i \in Jobs |-> WorkerOf(i)] EXCEPT ![j] = k.by]
      <4>1. record'[j].worker = k.by
        BY <2>3, <2>7
      <4>. HIDE DEF WorkerOf, StateOf, CreditOf
      <4>. QED BY <2>1, <4>1, RecordMoves
    <3>3. Promise!Start(j, k.by)
      BY <2>1, <2>7, <2>12, <2>14, <2>15, <3>1, <3>2 DEF Promise!Start
    <3>. QED BY <2>3, <2>7, <3>3 DEF Promise!Next
  <2>8. CASE k.target = "succeeded"
    <3>1. /\ record[j].status = "running" /\ record[j].worker = k.by /\ attempts[j] = 1
      BY <2>5, <2>8 DEF TakesJob
    <3>2. [i \in Jobs |-> CreditOf(i)]' =
             [[i \in Jobs |-> CreditOf(i)] EXCEPT ![j] = WorkerOf(j)]
      <4>1. record'[j].worker = WorkerOf(j) /\ record'[j].evidence # None
        BY <2>2, <2>4, <2>8, <2>11
      <4>. HIDE DEF WorkerOf, StateOf, CreditOf
      <4>2. [i \in Jobs |-> CreditOf(i)]' =
               [[i \in Jobs |-> CreditOf(i)] EXCEPT ![j] = record'[j].worker]
        BY <2>1, <2>8, <4>1, RecordMoves
      <4>. QED BY <4>1, <4>2
    <3>3. Promise!Succeed(j)
      BY <2>1, <2>8, <2>12, <2>13, <2>15, <3>1, <3>2 DEF Promise!Succeed
    <3>. QED BY <3>3 DEF Promise!Next
  <2>9. CASE k.target = "failed"
    <3>1. record[j].status = "running" /\ attempts[j] = 1
      BY <2>5, <2>9 DEF TakesJob
    <3>2. Promise!Fail(j)
      BY <2>1, <2>9, <2>12, <2>13, <2>14, <2>15, <3>1 DEF Promise!Fail
    <3>. QED BY <3>2 DEF Promise!Next
  <2>10. CASE k.target = "canceled"
    <3>1. record[j].status \in Promise!States \ Promise!Terminal
      BY <2>11 DEF Promise!States, Promise!Terminal
    <3>2. Promise!Cancel(j)
      BY <2>1, <2>10, <2>12, <2>13, <2>14, <2>15, <3>1 DEF Promise!Cancel
    <3>. QED BY <3>2 DEF Promise!Next
  <2>. QED BY <2>1, <2>6, <2>7, <2>8, <2>9, <2>10 DEF Transitions
<1>5. CASE record' = record /\ attempts' = attempts
  BY <1>5 DEF Promise!vars, CreditInv, CreditOf
<1>. QED BY <1>2, <1>3, <1>4, <1>5, Untouched

(* Serialized calls implement the promised lifecycle, whatever is cut      *)
(* short: valid transitions only, one attempt, terminal states final, and  *)
(* credit at the moment of success, to the worker that took the job.       *)
THEOREM PromiseKept == ASSUME Serialized PROVE Spec => KeepsPromise
<1>1. Init => Promise!Init
  BY DEF Init, Promise!Init, Credited
<1>2. PromiseInv /\ PromiseInv' /\ CreditInv /\ CreditInv' /\ [Next]_vars
        => [Promise!Next]_(Promise!vars)
  <2>. SUFFICES ASSUME PromiseInv, PromiseInv', CreditInv, CreditInv', [Next]_vars
                PROVE  [Promise!Next]_(Promise!vars)
    OBVIOUS
  <2>1. TypeInv /\ SoleCall
    BY DEF PromiseInv, BaseInv, AnchorInv
  <2>2. CASE UNCHANGED <<record, attempts>>
    BY <2>2 DEF Promise!vars, CreditInv, CreditOf
  <2>3. ASSUME NEW c \in Callers, Proceeds(c) PROVE [Promise!Next]_(Promise!vars)
    BY <2>1, <2>3, ProceedsAlone, PromiseStep
  <2>4. ASSUME NEW c \in Callers, NEW j \in Jobs, Begins(c, j)
        PROVE  UNCHANGED <<record, attempts>>
    BY <2>1, <2>4, BeginsAlone DEF disk, history
  <2>. QED BY <2>2, <2>3, <2>4 DEF Next, Quiesced, Proceeds, Begins, vars, disk, history
<1>. QED BY <1>1, <1>2, InitPromiseInv, PromiseNext, CreditFromRecord, PTL
         DEF Spec, KeepsPromise, Promise!Spec

-----------------------------------------------------------------------------
(***************************************************************************)
(* A request a caller was told is recorded.  A submission that may still   *)
(* fail has told nobody, and one past its manifest carries the request     *)
(* that is in it, or for a retry one with the same fingerprint.            *)
(***************************************************************************)
Matches(m, r) == m # None /\ Fingerprint[m] = Fingerprint[r]

Accepting(c) ==
    LET k == call[c] IN
    /\ k.pc \in {"logSubmission", "removeManifest"} => accepted[k.job] = {}
    /\ k.pc \in {"logSubmission", "createRecord", "retry"} => Matches(manifest[k.job], k.req)
    /\ k.pc \in TransitionSteps /\ k.target = "queued" => Matches(manifest[k.job], k.req)

AcceptInv == PromiseInv /\ AcceptedIsRecorded /\ \A c \in Callers : Accepting(c)

LEMMA IdleAccepting ==
    ASSUME NEW c \in Callers, At(c, "idle")'
    PROVE  Accepting(c)'
  BY DEF Accepting, At, TransitionSteps

LEMMA AcceptCall ==
    ASSUME AcceptInv, NEW c \in Callers, NEW j \in Jobs, call[c].job = j, Proceeds(c)
    PROVE  Accepting(c)'
<1>. PICK k : k = call[c]
  OBVIOUS
<1>. PICK n : n = call'[c]
  OBVIOUS
<1>1. TypeInv /\ CallShape(k) /\ Accepting(c) /\ AcceptedIsRecorded
  BY ProceedsAlone, CallTyped DEF AcceptInv, PromiseInv, BaseInv, AnchorInv
<1>2. CASE n.pc = "idle"
  BY <1>2, IdleAccepting DEF At
<1>3. CASE n.pc # "idle"
  <2>1. n.job = j /\ (LogStart(c) \/ n.req = k.req)
    BY <1>1, <1>3, Arrivals
  <2>2. ASSUME n.pc = "logSubmission" PROVE accepted'[j] = {} /\ Matches(manifest'[j], n.req)
    <3>1. CreateManifest(c) /\ ~LogStart(c) /\ k.req \in Requests
      BY <1>1, <2>2, Arrivals DEF CreateManifest, LogStart, At, CallShape, SubmitSteps
    <3>2. manifest[j] = None /\ manifest'[j] = k.req
      <4>1. manifest[j] # None => n.pc = "existing"
        BY <1>1, <3>1, GotoFacts DEF CreateManifest
      <4>2. manifest[j] = None
        BY <2>2, <4>1
      <4>. QED BY <1>1, <3>1, <4>2 DEF CreateManifest, TypeInv, TypeOK
    <3>3. accepted[j] = {}
      <4>1. accepted[j] \subseteq Requests /\ None \notin Requests
        BY <1>1 DEF TypeInv, TypeOK
      <4>. QED BY <1>1, <3>2, <4>1 DEF AcceptedIsRecorded
    <3>. QED BY <2>1, <3>1, <3>2, <3>3 DEF CreateManifest, history, Matches
  <2>3. ASSUME n.pc = "removeManifest" PROVE accepted'[j] = {}
    <3>1. LogSubmissionFails(c)
      BY <1>1, <2>3, Arrivals
    <3>. QED BY <1>1, <3>1 DEF LogSubmissionFails, Accepting, At, history
  <2>4. ASSUME n.pc = "createRecord" PROVE Matches(manifest'[j], n.req)
    <3>1. LogSubmission(c) /\ ~LogStart(c)
      BY <1>1, <2>4, Arrivals DEF LogSubmission, LogStart, At
    <3>. QED BY <1>1, <2>1, <3>1 DEF LogSubmission, Accepting, At
  <2>5. ASSUME n.pc = "retry" PROVE Matches(manifest'[j], n.req)
    <3>1. CheckExisting(c) /\ ~LogStart(c)
      BY <1>1, <2>5, Arrivals DEF CheckExisting, LogStart, At
    <3>2. Matches(manifest[j], k.req)
      BY <1>1, <1>3, <3>1, ReturnFacts DEF CheckExisting, Matches
    <3>. QED BY <2>1, <3>1, <3>2 DEF CheckExisting, disk
  <2>6. ASSUME n.pc \in TransitionSteps, n.target = "queued"
        PROVE  Matches(manifest'[j], n.req)
    <3>1. CASE n.pc = "readRecord"
      <4>1. CreateRecord(c) /\ ~LogStart(c)
        <5>1. /\ (CheckFinish(c) \/ LogFinish(c)) => k.outcome \in Outcomes
              /\ CreateRecord(c) => ~LogStart(c)
          BY <1>1, <3>1, Arrivals
          DEF CheckFinish, LogFinish, At, CallShape, FinishSteps, CreateRecord, LogStart
        <5>. QED BY <1>1, <2>6, <3>1, <5>1, Arrivals, TerminalStateType DEF Terminal
      <4>. QED BY <1>1, <2>1, <4>1 DEF CreateRecord, Accepting, At
    <3>2. CASE n.pc \in CopySteps
      <4>1. (ReadRecord(c) \/ AppendState(c)) /\ n.target = k.target
        <5>1. CASE n.pc = "appendState"
          BY <1>1, <5>1, Arrivals
        <5>2. CASE n.pc = "writeRecord"
          BY <1>1, <5>2, Arrivals
        <5>. QED BY <3>2, <5>1, <5>2 DEF CopySteps
      <4>2. ~LogStart(c)
        BY <4>1 DEF ReadRecord, AppendState, LogStart, At
      <4>. QED BY <1>1, <2>1, <2>6, <4>1, <4>2
               DEF ReadRecord, AppendState, Accepting, At, TransitionSteps, disk
    <3>. QED BY <2>6, <3>1, <3>2 DEF TransitionSteps, CopySteps
  <2>. QED BY <2>1, <2>2, <2>3, <2>4, <2>5, <2>6 DEF Accepting
<1>. QED BY <1>2, <1>3

LEMMA AcceptJobs ==
    ASSUME AcceptInv, NEW c \in Callers, NEW j \in Jobs, call[c].job = j, Proceeds(c)
    PROVE  AcceptedIsRecorded'
<1>. PICK k : k = call[c]
  OBVIOUS
<1>1. TypeInv /\ Accepting(c) /\ AcceptedIsRecorded
  BY DEF AcceptInv, PromiseInv, BaseInv, AnchorInv
<1>2. \A i \in Jobs : accepted'[i] # {} => manifest'[i] = manifest[i]
  <2>. SUFFICES ASSUME NEW i \in Jobs, accepted'[i] # {}, manifest'[i] # manifest[i]
                PROVE  FALSE
    OBVIOUS
  <2>1. CASE CreateManifest(c)
    <3>1. accepted' = accepted /\ manifest[i] = None
      BY <1>1, <2>1 DEF CreateManifest, history, TypeInv, TypeOK
    <3>2. accepted[i] \subseteq Requests /\ None \notin Requests
      BY <1>1 DEF TypeInv, TypeOK
    <3>. QED BY <1>1, <3>1, <3>2 DEF AcceptedIsRecorded
  <2>2. CASE RemoveManifest(c)
    <3>1. accepted' = accepted /\ i = j
      BY <1>1, <2>2 DEF RemoveManifest, history, TypeInv, TypeOK
    <3>. QED BY <1>1, <2>2, <3>1 DEF Accepting, RemoveManifest, At
  <2>. QED BY <2>1, <2>2, Untouched
<1>3. \A i \in Jobs : \A r \in accepted'[i] : r \in accepted[i] \/ Matches(manifest[i], r)
  <2>1. CASE AnswerRetry(c)
    <3>1. \A i \in Jobs : accepted'[i] \subseteq accepted[i]
                          \/ (i = j /\ accepted'[i] = accepted[i] \cup {k.req})
      BY <1>1, <2>1 DEF AnswerRetry, TypeInv, TypeOK
    <3>. QED BY <1>1, <2>1, <3>1 DEF AnswerRetry, Accepting, At
  <2>2. CASE WriteRecord(c)
    <3>1. \A i \in Jobs : accepted'[i] = accepted[i]
             \/ (i = j /\ k.target = "queued" /\ accepted'[i] = accepted[i] \cup {k.req})
      BY <1>1, <2>2 DEF WriteRecord, TypeInv, TypeOK
    <3>. QED BY <1>1, <2>2, <3>1 DEF WriteRecord, Accepting, At, TransitionSteps
  <2>. QED BY <2>1, <2>2, Untouched
<1>. QED BY <1>1, <1>2, <1>3 DEF AcceptedIsRecorded, Matches

LEMMA AcceptNext == Serialized /\ AcceptInv /\ [Next]_vars => AcceptInv'
<1>. SUFFICES ASSUME Serialized, AcceptInv, [Next]_vars PROVE AcceptInv'
  OBVIOUS
<1>1. TypeInv /\ SoleCall /\ PromiseInv'
  BY PromiseNext DEF AcceptInv, PromiseInv, BaseInv, AnchorInv
<1>2. CASE UNCHANGED vars
  BY <1>1, <1>2 DEF AcceptInv, AcceptedIsRecorded, Accepting, vars, disk, history
<1>3. ASSUME NEW c \in Callers, Proceeds(c) PROVE AcceptInv'
  <2>1. ActsAlone(c) /\ call[c].job \in Jobs
    BY <1>1, <1>3, ProceedsAlone
  <2>. QED BY <1>1, <1>3, <2>1, AcceptCall, AcceptJobs, IdleAccepting DEF ActsAlone, AcceptInv
<1>4. ASSUME NEW c \in Callers, NEW j \in Jobs, Begins(c, j) PROVE AcceptInv'
  <2>1. /\ ActsAlone(c) /\ UNCHANGED <<manifest, accepted>>
        /\ call'[c].pc \in {"create", "existing", "logStart", "checkFinish"}
    BY <1>1, <1>4, BeginsAlone DEF disk, history
  <2>2. \A d \in Callers : Accepting(d)'
    BY <2>1, IdleAccepting DEF ActsAlone, Accepting, TransitionSteps
  <2>. QED BY <1>1, <2>1, <2>2 DEF AcceptInv, AcceptedIsRecorded
<1>. QED BY <1>2, <1>3, <1>4 DEF Next, Quiesced, Proceeds, Begins

(* With calls serialized, a request a caller was told is recorded is the   *)
(* one in the manifest from then on, whatever fails.                       *)
THEOREM AcceptedStays == ASSUME Serialized PROVE Spec => []AcceptedIsRecorded
<1>1. Init => AcceptInv
  BY InitPromiseInv
  DEF Init, AcceptInv, AcceptedIsRecorded, Accepting, TransitionSteps, Idle, NewCall
<1>2. AcceptInv => AcceptedIsRecorded
  BY DEF AcceptInv
<1>. QED BY <1>1, <1>2, AcceptNext, PTL DEF Spec

-----------------------------------------------------------------------------
(***************************************************************************)
(* The state trail ends at the status.  A transition cut short after its   *)
(* line leaves a line that names the status it found, because the copy is  *)
(* the record.                                                             *)
(***************************************************************************)
LastLine(j) == trail[j][Len(trail[j])]

TrailEnds(j) ==
    IF trail[j] = <<>> THEN record[j] = None \/ record[j] = NewRecord
    ELSE record[j] # None /\ record[j].status \in {LastLine(j).from, LastLine(j).to}

LineWritten(c) ==
    At(c, "writeRecord") =>
        trail[call[c].job] # <<>> /\ LastLine(call[c].job).to = call[c].target

TrailEndInv ==
    /\ PromiseInv
    /\ \A j \in Jobs : TrailEnds(j)
    /\ \A c \in Callers : LineWritten(c)

LEMMA IdleLine ==
    ASSUME NEW c \in Callers, At(c, "idle")'
    PROVE  LineWritten(c)'
  BY DEF LineWritten, At

LEMMA AppendedLine ==
    ASSUME PromiseInv, NEW c \in Callers, NEW j \in Jobs, call[c].job = j, AppendState(c)
    PROVE  /\ trail'[j] # <<>> /\ record[j] # None /\ record' = record
           /\ LastLine(j)'.from = record[j].status /\ LastLine(j)'.to = call[c].target
           /\ \A i \in Jobs \ {j} : trail'[i] = trail[i]
<1>. DEFINE line == [from |-> call[c].seen.status, to |-> call[c].target]
            old == trail[j]
            new == Append(old, line)
<1>1. TypeInv /\ At(c, "appendState") /\ CallCurrent(c) /\ Anchored(c)
  BY DEF PromiseInv, BaseInv, AnchorInv, AppendState
<1>6. old \in Seq(Lines)
  BY <1>1 DEF TypeInv, TypeOK
<1>2. call[c].seen = record[j] /\ record[j] # None
  BY <1>1 DEF CallCurrent, Anchored, CopySteps, At
<1>3. trail'[j] = new /\ (\A i \in Jobs \ {j} : trail'[i] = trail[i]) /\ record' = record
  BY <1>1 DEF AppendState, TypeInv, TypeOK
<1>4. line.from = record[j].status /\ line.to = call[c].target
  BY <1>2
<1>. HIDE DEF line
<1>5. new # <<>> /\ new[Len(new)] = line
  BY <1>6
<1>. QED BY <1>2, <1>3, <1>4, <1>5 DEF LastLine

LEMMA TrailEndCall ==
    ASSUME TrailEndInv, NEW c \in Callers, NEW j \in Jobs, call[c].job = j, Proceeds(c)
    PROVE  LineWritten(c)'
<1>. SUFFICES ASSUME call'[c].pc = "writeRecord"
              PROVE  trail'[j] # <<>> /\ LastLine(j)'.to = call'[c].target /\ call'[c].job = j
  BY DEF LineWritten, At
<1>1. AppendState(c) /\ call'[c].target = call[c].target /\ call'[c].job = j
  BY Arrivals DEF TrailEndInv, PromiseInv, BaseInv, AnchorInv
<1>2. trail'[j] # <<>> /\ LastLine(j)'.to = call[c].target
  BY <1>1, AppendedLine DEF TrailEndInv
<1>. QED BY <1>1, <1>2

LEMMA TrailEndJob ==
    ASSUME TrailEndInv, NEW c \in Callers, NEW j \in Jobs, call[c].job = j, Proceeds(c),
           NEW i \in Jobs
    PROVE  TrailEnds(i)'
<1>1. TrailEnds(i) /\ PromiseInv /\ BaseInv
  BY DEF TrailEndInv, PromiseInv
<1>2. CASE AppendState(c)
  <2>1. CASE i = j
    BY <1>1, <1>2, <2>1, AppendedLine DEF TrailEnds
  <2>2. CASE i # j
    BY <1>1, <1>2, <2>2, AppendedLine DEF TrailEnds, LastLine
  <2>. QED BY <2>1, <2>2
<1>3. CASE CreateRecord(c)
  <2>1. trail' = trail
    BY <1>3 DEF CreateRecord
  <2>. QED BY <1>1, <1>3, <2>1, CreatedRecord DEF TrailEnds, LastLine
<1>4. CASE WriteRecord(c)
  <2>1. trail' = trail /\ LineWritten(c) /\ At(c, "writeRecord")
    BY <1>4 DEF WriteRecord, TrailEndInv
  <2>2. /\ record'[j] # None /\ record'[j].status = call[c].target
        /\ \A h \in Jobs \ {j} : record'[h] = record[h]
    BY <1>1, <1>4, WrittenRecord
  <2>. QED BY <1>1, <2>1, <2>2 DEF TrailEnds, LastLine, LineWritten
<1>5. CASE trail' = trail /\ record' = record
  BY <1>1, <1>5 DEF TrailEnds, LastLine
<1>. QED BY <1>2, <1>3, <1>4, <1>5, Untouched

LEMMA TrailEndNext == Serialized /\ TrailEndInv /\ [Next]_vars => TrailEndInv'
<1>. SUFFICES ASSUME Serialized, TrailEndInv, [Next]_vars PROVE TrailEndInv'
  OBVIOUS
<1>1. TypeInv /\ SoleCall /\ PromiseInv'
  BY PromiseNext DEF TrailEndInv, PromiseInv, BaseInv, AnchorInv
<1>2. CASE UNCHANGED vars
  BY <1>1, <1>2 DEF TrailEndInv, TrailEnds, LineWritten, LastLine, At, vars, disk
<1>3. ASSUME NEW c \in Callers, Proceeds(c) PROVE TrailEndInv'
  <2>1. ActsAlone(c) /\ call[c].job \in Jobs
    BY <1>1, <1>3, ProceedsAlone
  <2>. QED BY <1>1, <1>3, <2>1, TrailEndCall, TrailEndJob, IdleLine DEF ActsAlone, TrailEndInv
<1>4. ASSUME NEW c \in Callers, NEW j \in Jobs, Begins(c, j) PROVE TrailEndInv'
  <2>1. /\ ActsAlone(c) /\ UNCHANGED <<trail, record>>
        /\ call'[c].pc \in {"create", "existing", "logStart", "checkFinish"}
    BY <1>1, <1>4, BeginsAlone DEF disk
  <2>2. \A d \in Callers : LineWritten(d)'
    BY <2>1, IdleLine DEF ActsAlone, LineWritten, At
  <2>. QED BY <1>1, <2>1, <2>2 DEF TrailEndInv, TrailEnds, LastLine
<1>. QED BY <1>2, <1>3, <1>4 DEF Next, Quiesced, Proceeds, Begins

(* With calls serialized, a job's state trail replays to its record: its   *)
(* last line led to the record's status, or leaves it and was cut short.   *)
THEOREM TrailReplays == ASSUME Serialized PROVE Spec => []TrailEndsAtStatus
<1>1. Init => TrailEndInv
  BY InitPromiseInv DEF Init, TrailEndInv, TrailEnds, LineWritten, At, Idle, NewCall
<1>2. TrailEndInv => TrailEndsAtStatus
  BY DEF TrailEndInv, TrailEnds, LastLine, TrailEndsAtStatus
<1>. QED BY <1>1, <1>2, TrailEndNext, PTL DEF Spec

-----------------------------------------------------------------------------
(***************************************************************************)
(* A job finishes once.  The event is logged right after a call found      *)
(* there is none, and no other call runs in between.                       *)
(***************************************************************************)
OneFinish(j) ==
    \A h, i \in DOMAIN audit[j] :
        audit[j][h].type = "finished" /\ audit[j][i].type = "finished" => h = i

Finished(j, state) ==
    \E i \in DOMAIN audit[j] :
        audit[j][i].type = "finished" /\ TerminalState(audit[j][i].outcome) = state

FinishInv ==
    /\ PromiseInv
    /\ \A j \in Jobs : OneFinish(j)
    /\ \A c \in Callers : At(c, "logFinish") => ~Logged(call[c].job, "finished")

SameFinish(j) ==
    /\ OneFinish(j) => OneFinish(j)'
    /\ Logged(j, "finished")' <=> Logged(j, "finished")
    /\ \A s \in States : Finished(j, s) => Finished(j, s)'

LEMMA LogFinishes ==
    ASSUME TypeInv, NEW j \in Jobs, NEW type, NEW by, NEW outcome, Log(j, type, by, outcome)
    PROVE  /\ \A i \in Jobs \ {j} : SameFinish(i)
           /\ type # "finished" => SameFinish(j)
           /\ type = "finished" =>
                 /\ Finished(j, TerminalState(outcome))'
                 /\ ~Logged(j, "finished") => OneFinish(j)'
<1>. DEFINE top == Len(audit[j]) + 1
<1>1. \A i \in Jobs \ {j} : SameFinish(i)
  BY LogFacts DEF SameFinish, OneFinish, Logged, Finished
<1>2. /\ DOMAIN audit'[j] = DOMAIN audit[j] \cup {top} /\ top \notin DOMAIN audit[j]
      /\ \A i \in DOMAIN audit[j] : audit'[j][i] = audit[j][i]
      /\ audit'[j][top].type = type /\ audit'[j][top].outcome = outcome
  BY LogFacts
<1>. HIDE DEF top
<1>3. type # "finished" => SameFinish(j)
  BY <1>2 DEF SameFinish, OneFinish, Logged, Finished
<1>4. type = "finished" => Finished(j, TerminalState(outcome))'
  BY <1>2 DEF Finished
<1>5. type = "finished" /\ ~Logged(j, "finished") => OneFinish(j)'
  BY <1>2 DEF OneFinish, Logged
<1>. QED BY <1>1, <1>3, <1>4, <1>5

LEMMA SameAuditSameFinish ==
    ASSUME UNCHANGED audit, NEW j \in Jobs
    PROVE  SameFinish(j)
  BY DEF SameFinish, OneFinish, Logged, Finished

LEMMA FinishStays ==
    ASSUME TypeInv, NEW c \in Callers, NEW j \in Jobs, call[c].job = j, Proceeds(c), NEW i \in Jobs
    PROVE  i # j \/ ~LogFinish(c) => SameFinish(i)
<1>1. CASE UNCHANGED audit
  BY <1>1, SameAuditSameFinish
<1>2. ASSUME NEW type, NEW by, NEW outcome, Log(j, type, by, outcome), type # "finished"
      PROVE  SameFinish(i)
  BY <1>2, LogFinishes
<1>3. CASE LogFinish(c)
  BY <1>3, LogFinishes DEF LogFinish
<1>. QED BY <1>1, <1>2, <1>3, Untouched
         DEF LogSubmission, LogSubmissionFails, LogStart, LogStarted, LogReceipt, LogReport

LEMMA FinishNext == Serialized /\ FinishInv /\ [Next]_vars => FinishInv'
<1>. SUFFICES ASSUME Serialized, FinishInv, [Next]_vars PROVE FinishInv'
  OBVIOUS
<1>1. TypeInv /\ SoleCall /\ PromiseInv'
  BY PromiseNext DEF FinishInv, PromiseInv, BaseInv, AnchorInv
<1>2. CASE UNCHANGED vars
  BY <1>1, <1>2 DEF FinishInv, OneFinish, Logged, At, vars, disk
<1>3. ASSUME NEW c \in Callers, Proceeds(c) PROVE FinishInv'
  <2>. PICK j : j = call[c].job
    OBVIOUS
  <2>1. ActsAlone(c) /\ j \in Jobs
    BY <1>1, <1>3, ProceedsAlone
  <2>2. \A i \in Jobs : OneFinish(i)'
    <3>1. CASE LogFinish(c)
      <4>1. OneFinish(j)'
        BY <1>1, <2>1, <3>1, LogFinishes DEF LogFinish, FinishInv
      <4>. QED BY <1>1, <1>3, <2>1, <4>1, FinishStays DEF FinishInv, SameFinish
    <3>2. CASE ~LogFinish(c)
      BY <1>1, <1>3, <2>1, <3>2, FinishStays DEF FinishInv, SameFinish
    <3>. QED BY <3>1, <3>2
  <2>3. ASSUME At(c, "logFinish")' PROVE ~Logged(call[c].job, "finished")'
    <3>1. CheckFinish(c) /\ call'[c].job = j
      BY <1>1, <1>3, <2>1, <2>3, Arrivals DEF At
    <3>2. ~Logged(j, "finished")
      <4>1. CASE Return(c)
        BY <1>1, <2>3, <4>1, ReturnFacts DEF At
      <4>2. CASE BeginTransition(c, TerminalState(call[c].outcome))
        BY <1>1, <2>3, <4>2, TransitionFacts DEF At
      <4>. QED BY <3>1, <4>1, <4>2, Zenon DEF CheckFinish
    <3>3. UNCHANGED audit
      BY <3>1 DEF CheckFinish, disk
    <3>. QED BY <3>1, <3>2, <3>3 DEF Logged
  <2>. QED BY <1>1, <2>1, <2>2, <2>3 DEF ActsAlone, FinishInv, At
<1>4. ASSUME NEW c \in Callers, NEW j \in Jobs, Begins(c, j) PROVE FinishInv'
  <2>1. /\ ActsAlone(c) /\ UNCHANGED audit
        /\ call'[c].pc \in {"create", "existing", "logStart", "checkFinish"}
    BY <1>1, <1>4, BeginsAlone DEF disk
  <2>2. \A d \in Callers : ~At(d, "logFinish")'
    BY <2>1 DEF ActsAlone, At
  <2>. QED BY <1>1, <2>1, <2>2 DEF FinishInv, OneFinish
<1>. QED BY <1>2, <1>3, <1>4 DEF Next, Quiesced, Proceeds, Begins

-----------------------------------------------------------------------------
(***************************************************************************)
(* When no call was cut short.  A job no call works on is then settled:    *)
(* absent, queued, or terminal with the finish event of its status, and    *)
(* with a report only if its record refers to it.  A job some call works   *)
(* on is where that call left it.                                          *)
(***************************************************************************)
Unreported(j) == result[j] = None /\ receipt[j] = None

Open(j, status) ==
    record[j] # None /\ record[j].status = status /\ ~Logged(j, "finished")

Ended(j) ==
    /\ record[j] # None /\ record[j].status \in Terminal /\ Finished(j, record[j].status)
    /\ Unreported(j) \/ record[j].evidence # None
    /\ record[j].evidence = None => record[j].status = "canceled"

Settled(j) ==
    /\ manifest[j] # None => record[j] # None
    /\ \/ record[j] = None /\ ~Logged(j, "finished") /\ Unreported(j)
       \/ Open(j, "queued") /\ Unreported(j)
       \/ Ended(j)

MayEnd(c) ==
    LET k == call[c]
        r == record[k.job]
    IN
    \/ Ended(k.job)
    \/ /\ r # None /\ Finished(k.job, k.target)
       /\ \/ k.outcome \in RunOutcomes /\ r.status = "running"
          \/ k.outcome = "cancelled" /\ r.status = "queued" /\ Unreported(k.job)

InPhase(c) ==
    LET k == call[c]
        j == k.job
    IN
    /\ k.pc # "removeManifest"
    /\ k.pc \in {"create", "existing", "retry"} => Settled(j)
    /\ k.pc = "checkFinish" /\ k.outcome = "cancelled" => Settled(j) /\ record[j] # None
    /\ k.pc \in {"logSubmission", "createRecord"} =>
          record[j] = None /\ Unreported(j) /\ ~Logged(j, "finished")
    /\ k.pc = "logStart" => manifest[j] # None /\ Open(j, "queued") /\ Unreported(j)
    /\ k.pc \in TransitionSteps =>
          /\ k.target = "queued" => Open(j, "created") /\ Unreported(j)
          /\ k.target = "running" => Open(j, "queued") /\ Unreported(j)
          /\ k.target \in Terminal => MayEnd(c)
    /\ k.pc = "run" => Open(j, "running") /\ Unreported(j)
    /\ k.pc = "storeResult" => Unreported(j)
    /\ k.pc = "storeReceipt" => receipt[j] = None
    /\ k.outcome \in RunOutcomes /\ k.pc \notin TransitionSteps => Open(j, "running")
    /\ k.pc = "logFinish" /\ k.outcome = "cancelled" => Open(j, "queued") /\ Unreported(j)

Busy(j) == \E c \in Callers : ~At(c, "idle") /\ call[c].job = j

FaultFree ==
    faults = 0 =>
        /\ \A j \in Jobs : Busy(j) \/ Settled(j)
        /\ \A c \in Callers : ~At(c, "idle") => InPhase(c)

PhaseInv == FinishInv /\ FaultFree

LEMMA JobStays ==
    ASSUME NEW j \in Jobs, SameFinish(j),
           manifest'[j] = manifest[j], record'[j] = record[j],
           result'[j] = result[j], receipt'[j] = receipt[j],
           record[j] = None \/ record[j].status \in States
    PROVE  /\ Settled(j) => Settled(j)'
           /\ Ended(j) => Ended(j)'
           /\ \A status : Open(j, status) => Open(j, status)'
           /\ Unreported(j) => Unreported(j)'
           /\ Logged(j, "finished")' <=> Logged(j, "finished")
  BY DEF SameFinish, Settled, Ended, Open, Unreported, States, Terminal

(* What the phase of a call depends on, once it has stopped.               *)
LEMMA EndedSettles ==
    ASSUME NEW j \in Jobs
    PROVE  /\ Ended(j) => Settled(j)
           /\ \A s : Finished(j, s) => Logged(j, "finished")
           /\ Settled(j) /\ Logged(j, "finished") => Ended(j)
           /\ Settled(j) /\ record[j] # None /\ ~Logged(j, "finished") =>
                 Open(j, "queued") /\ Unreported(j)
  BY DEF Ended, Settled, Open, Finished, Logged

(* The steps that change no file, but for the events they log.             *)
LEMMA PhaseQuiet ==
    ASSUME PhaseInv, NEW c \in Callers, NEW j \in Jobs, call[c].job = j, InPhase(c), Step(c),
           ~CreateManifest(c), ~RemoveManifest(c), ~CreateRecord(c), ~WriteRecord(c),
           ~StoreResult(c), ~StoreReceipt(c), ~LogFinish(c)
    PROVE  IF call'[c].pc = "idle" THEN Settled(j)' ELSE InPhase(c)'
<1>. PICK k : k = call[c]
  OBVIOUS
<1>. PICK n : n = call'[c]
  OBVIOUS
<1>1. TypeInv /\ CallShape(k) /\ ~At(c, "idle") /\ Proceeds(c) /\ k.job = j
  BY CallTyped, NotIdle DEF PhaseInv, FinishInv, PromiseInv, BaseInv, AnchorInv, Proceeds
<1>2. /\ Settled(j) => Settled(j)'
      /\ Ended(j) => Ended(j)'
      /\ \A status : Open(j, status) => Open(j, status)'
      /\ Unreported(j) => Unreported(j)'
      /\ Logged(j, "finished")' <=> Logged(j, "finished")
      /\ \A s \in States : Finished(j, s) => Finished(j, s)'
      /\ UNCHANGED <<manifest, record, result, receipt>>
  <2>1. UNCHANGED <<manifest, record, result, receipt>>
    BY <1>1, Untouched
  <2>2. SameFinish(j)
    BY <1>1, FinishStays
  <2>3. record[j] = None \/ record[j].status \in States
    BY <1>1 DEF TypeInv, TypeOK, Records
  <2>. QED BY <2>1, <2>2, <2>3, JobStays DEF SameFinish
<1>. USE DEF InPhase, At, SameFields, SubmitSteps, TransitionSteps, RunOutcomes, Outcomes
<1>3. CASE LogSubmission(c)
  BY <1>1, <1>2, <1>3, GotoFacts DEF LogSubmission, CallShape
<1>4. CASE CheckExisting(c)
  <2>1. Return(c) \/ Goto(c, "retry")
    BY <1>4 DEF CheckExisting
  <2>. QED BY <1>1, <1>2, <1>4, <2>1, GotoFacts, ReturnFacts DEF CheckExisting, CallShape
<1>5. CASE AnswerRetry(c)
  BY <1>1, <1>2, <1>5, ReturnFacts DEF AnswerRetry, CallShape
<1>6. CASE ReadRecord(c)
  <2>1. CASE n.pc = "idle"
    <3>1. ~(record[j] # None /\ <<record[j].status, k.target>> \in Transitions)
      BY <1>1, <1>6, <2>1 DEF ReadRecord, TypeInv, TypeOK, Calls
    <3>2. k.target = "queued" \/ k.target = "running" \/ k.target \in Terminal
      BY <1>1, <1>6, TerminalStateType DEF ReadRecord, CallShape
    <3>3. k.target \in Terminal /\ ~Ended(j) => FALSE
      BY <1>1, <1>6, <3>1 DEF ReadRecord, CallShape, MayEnd, TerminalState, Transitions
    <3>. QED BY <1>1, <1>2, <1>6, <2>1, <3>1, <3>2, <3>3, EndedSettles
             DEF ReadRecord, Open, Transitions
  <2>2. CASE n.pc # "idle"
    <3>1. /\ n.pc = "appendState" /\ n.job = j /\ n.outcome = k.outcome
          /\ n.target = k.target
      BY <1>1, <1>6, <2>2, ReadFacts
    <3>2. MayEnd(c) /\ k.target \in Terminal => MayEnd(c)'
      BY <1>1, <1>2, <3>1 DEF MayEnd, Terminal, States
    <3>. QED BY <1>1, <1>2, <1>6, <3>1, <3>2 DEF ReadRecord
  <2>. QED BY <2>1, <2>2
<1>7. CASE AppendState(c)
  <2>1. n.pc = "writeRecord" /\ n.job = j /\ n.outcome = k.outcome /\ n.target = k.target
    BY <1>1, <1>7, GotoFacts DEF AppendState
  <2>2. MayEnd(c) /\ k.target \in Terminal => MayEnd(c)'
    BY <1>1, <1>2, <2>1 DEF MayEnd, Terminal, States
  <2>. QED BY <1>1, <1>2, <1>7, <2>1, <2>2 DEF AppendState
<1>8. CASE LogStart(c)
  <2>1. HoldManifest(c)
    BY <1>1, <1>8 DEF LogStart
  <2>. QED BY <1>1, <1>2, <1>8, <2>1, HoldFacts DEF LogStart, CallShape, Terminal
<1>9. CASE RunJob(c)
  BY <1>1, <1>2, <1>9, RunFacts DEF RunJob
<1>10. CASE LogReceipt(c)
  BY <1>1, <1>2, <1>10, GotoFacts DEF LogReceipt, CallShape, ReportSteps
<1>11. CASE CheckReport(c)
  <2>1. k.outcome \in RunOutcomes /\ Open(j, "running")
    BY <1>1, <1>11 DEF CheckReport, CallShape, ReportSteps
  <2>2. manifest[j] # None
    BY <1>1, <2>1 DEF Open, PhaseInv, FinishInv, PromiseInv, BaseInv, AnchorInv, RecordIsAnchored
  <2>3. receipt[j] # None
    <3>1. CallEvidence(c) /\ Reporting(c) /\ k.pc = "checkReport"
      BY <1>1, <1>11, <2>1
      DEF PhaseInv, FinishInv, PromiseInv, BaseInv, ViewInv, EvidenceInv, Reporting, CheckReport
    <3>2. receipt[j] = ReceiptOf(k)
      BY <1>1, <3>1 DEF CallEvidence
    <3>. QED BY <1>1, <2>1, <3>2, DocsExist
  <2>4. Goto(c, "checkFinish") \/ Goto(c, "logReport")
    BY <1>1, <1>11, <2>2, <2>3 DEF CheckReport
  <2>. QED BY <1>1, <1>2, <2>1, <2>4, GotoFacts
<1>12. CASE LogReport(c)
  BY <1>1, <1>2, <1>12, GotoFacts DEF LogReport, CallShape, ReportSteps
<1>13. CASE CheckFinish(c)
  <2>1. k.pc = "checkFinish" /\ k.outcome \in Outcomes
    BY <1>1, <1>13 DEF CheckFinish, CallShape, FinishSteps
  <2>2. CASE k.outcome \in RunOutcomes
    <3>1. Open(j, "running")
      BY <1>1, <2>1, <2>2
    <3>2. Goto(c, "logFinish")
      BY <1>1, <1>13, <2>2, <3>1 DEF CheckFinish, Open
    <3>. QED BY <1>1, <1>2, <2>2, <3>1, <3>2, GotoFacts
  <2>3. CASE k.outcome = "cancelled"
    <3>1. Settled(j) /\ record[j] # None
      BY <1>1, <2>1, <2>3
    <3>2. CASE Return(c)
      BY <1>1, <1>2, <3>1, <3>2, ReturnFacts
    <3>3. CASE Logged(j, "finished") /\ BeginTransition(c, TerminalState(k.outcome))
      <4>1. Ended(j) /\ TerminalState(k.outcome) = "canceled"
        BY <2>3, <3>1, <3>3, EndedSettles DEF TerminalState
      <4>. QED BY <1>1, <1>2, <2>3, <3>3, <4>1, TransitionFacts DEF MayEnd
    <3>4. CASE ~Logged(j, "finished") /\ Goto(c, "logFinish")
      BY <1>1, <1>2, <2>3, <3>1, <3>4, EndedSettles, GotoFacts
    <3>. QED BY <1>1, <1>13, <3>2, <3>3, <3>4, Zenon DEF CheckFinish
  <2>. QED BY <2>1, <2>2, <2>3
<1>. QED
  BY <1>3, <1>4, <1>5, <1>6, <1>7, <1>8, <1>9, <1>10, <1>11, <1>12, <1>13 DEF Step

LEMMA PhaseWrites ==
    ASSUME PhaseInv, NEW c \in Callers, NEW j \in Jobs, call[c].job = j, InPhase(c), Step(c),
           \/ CreateManifest(c) \/ RemoveManifest(c) \/ CreateRecord(c) \/ WriteRecord(c)
           \/ StoreResult(c) \/ StoreReceipt(c) \/ LogFinish(c)
    PROVE  IF call'[c].pc = "idle" THEN Settled(j)' ELSE InPhase(c)'
<1>. PICK k : k = call[c]
  OBVIOUS
<1>. PICK n : n = call'[c]
  OBVIOUS
<1>1. /\ TypeInv /\ CallShape(k) /\ ~At(c, "idle") /\ Proceeds(c) /\ k.job = j
      /\ PromiseInv /\ BaseInv
  BY CallTyped, NotIdle DEF PhaseInv, FinishInv, PromiseInv, BaseInv, AnchorInv, Proceeds
<1>2. ~LogFinish(c) => (Logged(j, "finished")' <=> Logged(j, "finished"))
                       /\ \A s \in States : Finished(j, s) => Finished(j, s)'
  BY <1>1, FinishStays DEF SameFinish
<1>. USE DEF InPhase, At, SameFields, SubmitSteps, TransitionSteps, RunOutcomes, Outcomes,
             Open, Unreported
<1>3. CASE CreateManifest(c)
  <2>1. /\ UNCHANGED <<record, result, receipt>> /\ ~LogFinish(c) /\ Settled(j)
        /\ n.outcome = None /\ n.job = j
    BY <1>1, <1>3, GotoFacts DEF CreateManifest, LogFinish, CallShape
  <2>2. CASE manifest[j] = None /\ Goto(c, "logSubmission")
    <3>1. record[j] = None
      BY <1>1, <2>2 DEF BaseInv, AnchorInv, RecordIsAnchored
    <3>. QED BY <1>1, <1>2, <2>1, <2>2, <3>1, GotoFacts DEF Settled, Ended
  <2>3. CASE UNCHANGED manifest /\ Goto(c, "existing")
    <3>1. SameFinish(j)
      BY <1>1, <2>1, FinishStays
    <3>2. record[j] = None \/ record[j].status \in States
      BY <1>1 DEF TypeInv, TypeOK, Records
    <3>3. Settled(j)'
      BY <2>1, <2>3, <3>1, <3>2, JobStays
    <3>. QED BY <1>1, <2>1, <2>3, <3>3, GotoFacts
  <2>. QED BY <1>1, <1>3, <2>2, <2>3 DEF CreateManifest
<1>4. CASE RemoveManifest(c)
  BY <1>4 DEF RemoveManifest
<1>5. CASE CreateRecord(c)
  <2>1. /\ record'[j] = NewRecord /\ NewRecord # None /\ n.pc = "readRecord" /\ n.target = "queued"
    BY <1>1, <1>5, CreatedRecord
  <2>2. /\ UNCHANGED <<result, receipt>> /\ ~LogFinish(c) /\ record[j] = None
        /\ k.outcome = None
    BY <1>1, <1>5 DEF CreateRecord, LogFinish, CallShape
  <2>3. n.outcome = None /\ n.job = j
    <3>1. BeginTransition(c, "queued")
      BY <1>1, <1>5, <2>2 DEF CreateRecord
    <3>. QED BY <1>1, <2>2, <3>1, TransitionFacts
  <2>. QED BY <1>1, <1>2, <1>5, <2>1, <2>2, <2>3 DEF CreateRecord, NewRecord, Terminal
<1>6. CASE WriteRecord(c)
  <2>1. /\ record[j] # None /\ record'[j] # None /\ record'[j].status = k.target
        /\ <<record[j].status, k.target>> \in Transitions
        /\ k.target \in {"succeeded", "failed"} => record'[j].evidence # None
    BY <1>1, <1>6, WrittenRecord
  <2>2. /\ UNCHANGED <<manifest, result, receipt>> /\ ~LogFinish(c) /\ k.pc = "writeRecord"
        /\ IF k.target = "running" THEN Goto(c, "run") ELSE Return(c)
    BY <1>6 DEF WriteRecord, LogFinish
  <2>3. CASE k.target = "queued"
    BY <1>1, <1>2, <2>1, <2>2, <2>3, ReturnFacts DEF Settled
  <2>4. CASE k.target = "running"
    <3>1. n.pc = "run" /\ n.job = j /\ n.outcome = None
      BY <1>1, <2>2, <2>4, GotoFacts, TerminalStateType DEF CallShape, Terminal
    <3>. QED BY <1>1, <1>2, <2>1, <2>2, <2>4, <3>1
  <2>5. CASE k.target \in Terminal
    <3>1. MayEnd(c) /\ ~Ended(j) /\ n.pc = "idle" /\ k.target # "running"
      BY <1>1, <2>1, <2>2, <2>5, ReturnFacts DEF Ended, Transitions, Terminal
    <3>2. Finished(j, k.target)'
      BY <1>1, <1>2, <2>2, <2>5, <3>1 DEF MayEnd, Terminal, States
    <3>3. k.outcome = "cancelled" => k.target = "canceled" /\ UNCHANGED <<result, receipt>>
      BY <1>1, <2>2, <2>5 DEF CallShape, TerminalState, Terminal
    <3>4. k.outcome \in RunOutcomes => k.target \in {"succeeded", "failed"}
      BY <1>1, <2>2, <2>5 DEF CallShape, TerminalState, Terminal
    <3>5. Unreported(j)' \/ record'[j].evidence # None
      BY <1>1, <2>1, <2>2, <3>1, <3>4 DEF MayEnd
    <3>6. record'[j].evidence = None => k.target = "canceled"
      BY <2>1, <2>5 DEF Terminal
    <3>7. Ended(j)'
      BY <2>1, <2>5, <3>2, <3>5, <3>6 DEF Ended
    <3>. QED BY <2>1, <3>1, <3>7 DEF Settled
  <2>. QED BY <2>1, <2>3, <2>4, <2>5 DEF Transitions, Terminal
<1>7. CASE StoreResult(c)
  <2>1. Goto(c, "storeReceipt") /\ k.outcome \in RunOutcomes /\ ~LogFinish(c)
        /\ UNCHANGED <<record, receipt>>
    BY <1>1, <1>7 DEF StoreResult, LogFinish, CallShape, ReportSteps
  <2>. QED BY <1>1, <1>2, <1>7, <2>1, GotoFacts DEF StoreResult
<1>8. CASE StoreReceipt(c)
  <2>1. Goto(c, "logReceipt") /\ k.outcome \in RunOutcomes /\ ~LogFinish(c)
        /\ UNCHANGED record
    BY <1>1, <1>8 DEF StoreReceipt, LogFinish, CallShape, ReportSteps
  <2>. QED BY <1>1, <1>2, <1>8, <2>1, GotoFacts DEF StoreReceipt
<1>9. CASE LogFinish(c)
  <2>1. /\ BeginTransition(c, TerminalState(k.outcome)) /\ k.pc = "logFinish"
        /\ Log(j, "finished", k.by, k.outcome) /\ k.outcome \in Outcomes
        /\ UNCHANGED <<record, result, receipt>>
    BY <1>1, <1>9 DEF LogFinish, CallShape, FinishSteps
  <2>2. /\ n.pc = "readRecord" /\ n.target = TerminalState(k.outcome) /\ n.job = j
        /\ n.outcome = k.outcome
    BY <1>1, <2>1, TransitionFacts
  <2>3. Finished(j, n.target)'
    <3>1. Finished(j, TerminalState(k.outcome))'
      BY <1>1, <2>1, LogFinishes
    <3>. QED BY <2>2, <3>1 DEF Finished
  <2>4. n.target \in Terminal
    BY <2>1, <2>2, TerminalStateType
  <2>5. MayEnd(c)'
    BY <1>1, <2>1, <2>2, <2>3 DEF MayEnd
  <2>. QED BY <2>2, <2>4, <2>5 DEF Terminal
<1>. QED BY <1>3, <1>4, <1>5, <1>6, <1>7, <1>8, <1>9

(* What a job's files are is left alone by calls about other jobs.         *)
LEMMA PhaseOthers ==
    ASSUME PhaseInv, NEW c \in Callers, NEW j \in Jobs, call[c].job = j, Step(c),
           NEW i \in Jobs \ {j}, Settled(i)
    PROVE  Settled(i)'
<1>1. TypeInv /\ PromiseInv /\ Proceeds(c)
  BY DEF PhaseInv, FinishInv, PromiseInv, BaseInv, AnchorInv, Proceeds
<1>2. SameFinish(i)
  BY <1>1, FinishStays
<1>3. /\ manifest'[i] = manifest[i] /\ record'[i] = record[i]
      /\ result'[i] = result[i] /\ receipt'[i] = receipt[i]
  <2>. USE DEF TypeInv, TypeOK
  <2>1. CreateManifest(c) \/ RemoveManifest(c) => manifest'[i] = manifest[i]
    BY <1>1 DEF CreateManifest, RemoveManifest
  <2>2. CreateRecord(c) \/ WriteRecord(c) => record'[i] = record[i]
    BY <1>1 DEF CreateRecord, WriteRecord
  <2>3. StoreResult(c) => result'[i] = result[i]
    BY <1>1 DEF StoreResult
  <2>4. StoreReceipt(c) => receipt'[i] = receipt[i]
    BY <1>1 DEF StoreReceipt
  <2>. QED BY <1>1, <2>1, <2>2, <2>3, <2>4, Untouched
<1>4. record[i] = None \/ record[i].status \in States
  BY <1>1 DEF TypeInv, TypeOK, Records
<1>. QED BY <1>2, <1>3, <1>4, JobStays

LEMMA PhaseBegin ==
    ASSUME Serialized, PhaseInv, faults = 0,
           NEW c \in Callers, NEW j \in Jobs, Begins(c, j)
    PROVE  InPhase(c)' /\ \A i \in Jobs : Settled(i)'
<1>1. TypeInv /\ RecordIsAnchored
  BY DEF PhaseInv, FinishInv, PromiseInv, BaseInv, AnchorInv
<1>2. /\ \A d \in Callers : At(d, "idle")
      /\ call'[c].job = j /\ call'[c].outcome \notin RunOutcomes
      /\ UNCHANGED disk
  BY <1>1, BeginsAlone
<1>3. \A i \in Jobs : Settled(i)
  BY <1>2 DEF PhaseInv, FaultFree, Busy
<1>4. \A i \in Jobs : Settled(i)'
  BY <1>2, <1>3 DEF Settled, Ended, Open, Unreported, Logged, Finished, disk
<1>5. /\ manifest'[j] = manifest[j] /\ record'[j] = record[j]
      /\ Open(j, "queued") => Open(j, "queued")'
      /\ Unreported(j) => Unreported(j)'
  BY <1>2 DEF Open, Unreported, Logged, disk
<1>. USE DEF InPhase, TransitionSteps, NewCall
<1>6. CASE \E r \in Requests : Submit(c, j, r)
  <2>1. call'[c].pc \in {"create", "existing"}
    BY <1>1, <1>6 DEF Submit, TypeInv, TypeOK
  <2>. QED BY <1>2, <1>4, <2>1
<1>7. CASE \E w \in Workers : Execute(c, j, w)
  <2>1. call'[c].pc = "logStart" /\ StatusOf(j) = "queued"
    BY <1>1, <1>7 DEF Execute, TypeInv, TypeOK
  <2>2. manifest[j] # None /\ (record[j] = None \/ record[j].status = "queued")
    BY <2>1 DEF StatusOf
  <2>3. Open(j, "queued") /\ Unreported(j)
    BY <1>3, <2>2 DEF Settled, Ended, Terminal
  <2>. QED BY <1>2, <1>4, <1>5, <2>1, <2>2, <2>3
<1>8. CASE Cancel(c, j)
  <2>1. call'[c].pc = "checkFinish" /\ StatusOf(j) # "not_found"
    BY <1>1, <1>8 DEF Cancel, TypeInv, TypeOK
  <2>2. record[j] # None
    BY <1>3, <2>1 DEF StatusOf, Settled
  <2>. QED BY <1>2, <1>4, <1>5, <2>1, <2>2
<1>. QED BY <1>4, <1>6, <1>7, <1>8 DEF Begins

LEMMA PhaseNext == Serialized /\ PhaseInv /\ [Next]_vars => PhaseInv'
<1>. SUFFICES ASSUME Serialized, PhaseInv, [Next]_vars PROVE PhaseInv'
  OBVIOUS
<1>1. FinishInv' /\ TypeInv /\ SoleCall /\ faults \in Nat
  BY FinishNext DEF PhaseInv, FinishInv, PromiseInv, BaseInv, AnchorInv, TypeInv, TypeOK
<1>2. CASE UNCHANGED vars
  <2>1. UNCHANGED disk /\ call' = call /\ faults' = faults
    BY <1>2 DEF vars
  <2>2. \A j \in Jobs : /\ Settled(j)' <=> Settled(j)
                        /\ Ended(j)' <=> Ended(j)
                        /\ Unreported(j)' <=> Unreported(j)
                        /\ Logged(j, "finished")' <=> Logged(j, "finished")
                        /\ \A status : Open(j, status)' <=> Open(j, status)
                        /\ \A status : Finished(j, status)' <=> Finished(j, status)
    BY <2>1 DEF Settled, Ended, Open, Unreported, Logged, Finished, disk
  <2>3. \A j \in Jobs : Busy(j)' <=> Busy(j)
    BY <2>1 DEF Busy, At
  <2>4. ASSUME NEW c \in Callers, ~At(c, "idle"), InPhase(c) PROVE InPhase(c)'
    <3>1. call[c].job \in Jobs
      BY <1>1, <2>4, CallTyped
    <3>2. MayEnd(c)' <=> MayEnd(c)
      BY <2>1, <2>2, <3>1 DEF MayEnd, disk
    <3>. QED BY <2>1, <2>2, <2>4, <3>1, <3>2 DEF InPhase, disk
  <2>5. FaultFree'
    BY <2>1, <2>2, <2>3, <2>4 DEF PhaseInv, FaultFree, At
  <2>. QED BY <1>1, <2>5 DEF PhaseInv
<1>3. ASSUME NEW c \in Callers, Step(c), faults' = 0 PROVE FaultFree'
  <2>. PICK j : j = call[c].job
    OBVIOUS
  <2>1. ActsAlone(c) /\ j \in Jobs /\ ~At(c, "idle")
    BY <1>1, <1>3, ProceedsAlone DEF Proceeds
  <2>2. faults = 0
    BY <1>3 DEF Step, CreateManifest, LogSubmission, RemoveManifest, CreateRecord,
                CheckExisting, AnswerRetry, ReadRecord, AppendState, WriteRecord, LogStart,
                RunJob, StoreResult, StoreReceipt, LogReceipt, CheckReport, LogReport,
                CheckFinish, LogFinish
  <2>3. InPhase(c) /\ \A i \in Jobs \ {j} : Settled(i)
    BY <2>1, <2>2 DEF PhaseInv, FaultFree, Busy, ActsAlone
  <2>4. IF call'[c].pc = "idle" THEN Settled(j)' ELSE InPhase(c)'
    BY <1>3, <2>1, <2>3, PhaseQuiet, PhaseWrites
  <2>5. \A i \in Jobs \ {j} : Settled(i)'
    BY <1>3, <2>1, <2>3, PhaseOthers
  <2>6. call'[c].pc # "idle" => call'[c].job = j
    BY <1>1, <1>3, <2>1, Arrivals DEF Proceeds
  <2>7. Busy(j)' \/ Settled(j)'
    BY <2>4, <2>6 DEF Busy, At
  <2>8. \A d \in Callers : ~At(d, "idle")' => InPhase(d)'
    BY <2>1, <2>4 DEF ActsAlone, At
  <2>. QED BY <2>5, <2>7, <2>8 DEF FaultFree
<1>4. ASSUME NEW c \in Callers, LogSubmissionFails(c) \/ Abandon(c) PROVE FaultFree'
  <2>1. faults' # 0
    BY <1>1, <1>4 DEF LogSubmissionFails, Abandon
  <2>. QED BY <2>1 DEF FaultFree
<1>5. ASSUME NEW c \in Callers, NEW j \in Jobs, Begins(c, j) PROVE FaultFree'
  <2>1. ActsAlone(c) /\ faults' = faults
    BY <1>1, <1>5, BeginsAlone DEF Begins, Submit, Execute, Cancel
  <2>2. faults = 0 => InPhase(c)' /\ \A i \in Jobs : Settled(i)'
    BY <1>5, PhaseBegin
  <2>. QED BY <2>1, <2>2 DEF FaultFree, ActsAlone
<1>6. ASSUME NEW c \in Callers, Step(c) PROVE FaultFree'
  BY <1>3, <1>6 DEF FaultFree
<1>. QED BY <1>1, <1>2, <1>4, <1>5, <1>6 DEF Next, Quiesced, Begins, PhaseInv

LEMMA InitPhaseInv == Init => PhaseInv
<1>1. Init => FinishInv
  BY InitPromiseInv DEF Init, FinishInv, OneFinish, At, Idle, NewCall
<1>2. Init => FaultFree
  BY DEF Init, FaultFree, At, Idle, NewCall, Settled, Unreported, Logged
<1>. QED BY <1>1, <1>2 DEF PhaseInv

(* With calls serialized a job never has two finish events, however often  *)
(* its cancellation is retried, and the event of a terminal job names the  *)
(* state it is in unless some call was cut short.                          *)
THEOREM FinishesOnce == ASSUME Serialized PROVE Spec => []FinishedOnce
<1>1. PhaseInv => FinishedOnce
  <2>. SUFFICES ASSUME PhaseInv, NEW j \in Jobs
                PROVE  /\ OneFinish(j)
                       /\ faults = 0 /\ record[j] # None /\ record[j].status \in Terminal =>
                             Finished(j, record[j].status)
    BY DEF FinishedOnce, OneFinish, Finished
  <2>1. OneFinish(j)
    BY DEF PhaseInv, FinishInv
  <2>2. ASSUME faults = 0, record[j] # None, record[j].status \in Terminal
        PROVE  Finished(j, record[j].status)
    <3>1. CASE Settled(j)
      BY <2>2, <3>1 DEF Settled, Open, Ended, Terminal
    <3>2. ASSUME NEW c \in Callers, ~At(c, "idle"), call[c].job = j
          PROVE  Finished(j, record[j].status)
      <4>1. InPhase(c) /\ CallShape(call[c]) /\ call[c].pc \in Steps
        BY <2>2, <3>2, CallTyped
        DEF PhaseInv, FaultFree, FinishInv, PromiseInv, BaseInv, AnchorInv, Calls
      <4>. QED BY <2>2, <3>1, <3>2, <4>1, TerminalStateType
               DEF InPhase, MayEnd, Ended, Open, CallShape, SubmitSteps, ReportSteps,
                   FinishSteps, TransitionSteps, RunOutcomes, Outcomes, Terminal, Steps, At
    <3>. QED BY <2>2, <3>1, <3>2 DEF PhaseInv, FaultFree, Busy
  <2>. QED BY <2>1, <2>2
<1>. QED BY <1>1, InitPhaseInv, PhaseNext, PTL DEF Spec

(* Undisturbed, a settled job can be shown by every read-only call: what   *)
(* its files say was run is what its manifest asks for.                    *)
LEMMA SettledShows ==
    ASSUME PhaseInv, faults = 0, NEW j \in Jobs, Settled(j)
    PROVE  /\ ReceiptAnswer(j) \in {"not_found", "accepted", "rejected"}
           /\ Validated(j) => ReceiptAnswer(j) # "not_found" /\ TakenBy(j) # None
           /\ record[j] # None /\ record[j].status # "canceled" => Errors(j) = {}
           /\ record[j] = None => manifest[j] = None /\ receipt[j] = None
<1>1. /\ ViewInv /\ TypeInv
      /\ record[j] # None => manifest[j] # None
      /\ EvidenceByWorker(j)
  BY DEF PhaseInv, FinishInv, PromiseInv, BaseInv, AnchorInv, RecordIsAnchored
<1>2. CASE Validated(j)
  <2>1. /\ record[j] # None /\ record[j].evidence # None /\ manifest[j] # None
        /\ TakenBy(j) = record[j].evidence.by
    BY <1>1, <1>2 DEF Validated, EvidenceByWorker, TakenBy
  <2>2. /\ receipt[j] # None /\ receipt[j].accepted \in BOOLEAN /\ receipt[j].by \in Workers
        /\ TakenBy(j) = receipt[j].by /\ record[j].evidence.by = receipt[j].by
        /\ record[j].evidence.passed = receipt[j].accepted
    BY <1>1, <1>2, <2>1, ValidatedFits
  <2>6. /\ manifest[j] = receipt[j].req /\ record[j].evidence.req = receipt[j].req
        /\ SameAttribution(j)
    BY <1>1, <1>2, ValidatedFits
    DEF PhaseInv, FinishInv, PromiseInv, BaseInv, HeldInv, Undisturbed, Replaced
  <2>3. ReceiptAnswer(j) \in {"accepted", "rejected"}
    BY <1>1, <1>2, <2>1, <2>2, <2>6, ReceiptShown
  <2>4. Contributor(j) = TakenBy(j) /\ TakenBy(j) # None
    BY <1>2, <2>1, <2>2 DEF Contributor
  <2>5. Errors(j) = {}
    BY <1>2, <2>1, <2>2, <2>4, <2>6, NoErrors
  <2>. QED BY <2>1, <2>3, <2>4, <2>5
<1>3. CASE ~Validated(j)
  <2>1. receipt[j] = None
    BY <1>3 DEF Settled, Ended, Unreported, Validated
  <2>2. ReceiptAnswer(j) = "not_found"
    BY <2>1 DEF ReceiptAnswer
  <2>3. record[j] # None /\ record[j].status # "canceled" => record[j].status = "queued"
    BY <1>3 DEF Settled, Ended, Open, Validated
  <2>4. record[j] # None => Contributor(j) = TakenBy(j)
    BY <1>3 DEF Contributor
  <2>5. record[j] # None /\ record[j].status # "canceled" => Errors(j) = {}
    BY <1>1, <1>3, <2>1, <2>3, <2>4, NoErrors DEF Terminal
  <2>6. record[j] = None => manifest[j] = None
    BY DEF Settled
  <2>. QED BY <1>3, <2>1, <2>2, <2>5, <2>6
<1>. QED BY <1>2, <1>3

(* With calls serialized and none cut short, no job can make a list or an  *)
(* inspection fail for the others once every call has returned, and only a *)
(* cancelled job is degraded in the summary.                               *)
THEOREM ListsKeepAnswering == ASSUME Serialized PROVE Spec => []ListsAnswer
<1>1. PhaseInv => ListsAnswer
  <2>. SUFFICES ASSUME PhaseInv, faults = 0, \A c \in Callers : At(c, "idle")
                PROVE  /\ ~ReceiptListFails /\ "invalid" \notin LatestAnswers
                       /\ ~InspectionFails
                       /\ \A j \in Summarized :
                             Acceptance(j) = "degraded" => record[j].status = "canceled"
    BY DEF ListsAnswer
  <2>1. \A j \in Jobs : Settled(j)
    BY DEF PhaseInv, FaultFree, Busy
  <2>2. \A j \in Jobs : ReceiptAnswer(j) # "invalid"
    BY <2>1, SettledShows
  <2>3. ~ReceiptListFails /\ "invalid" \notin LatestAnswers
    BY <2>2 DEF ReceiptListFails, LatestAnswers
  <2>4. ~InspectionFails
    <3>1. ViewInv
      BY DEF PhaseInv, FinishInv, PromiseInv, BaseInv
    <3>2. \A j \in Jobs : Validated(j) =>
             /\ TakenBy(j) # None
             /\ ReceiptAnswer(j) \notin {"not_found", "invalid"}
             /\ record[j].evidence.passed = receipt[j].accepted
      BY <2>1, <3>1, SettledShows, ValidatedFits
    <3>. QED BY <3>2 DEF InspectionFails
  <2>5. ASSUME NEW j \in Summarized, Acceptance(j) = "degraded"
        PROVE  record[j].status = "canceled"
    <3>1. j \in Jobs /\ Errors(j) # {}
      BY <2>5 DEF Acceptance, Summarized
    <3>2. record[j] # None
      BY <2>1, <3>1, SettledShows DEF Summarized
    <3>. QED BY <2>1, <3>1, <3>2, SettledShows
  <2>. QED BY <2>3, <2>4, <2>5
<1>. QED BY <1>1, InitPhaseInv, PhaseNext, PTL DEF Spec
=============================================================================
