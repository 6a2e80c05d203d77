------------------------------ MODULE LocalJobs ------------------------------
(***************************************************************************)
(* The local job service of runtime_service.py: submit_local_job,          *)
(* execute_submitted_local_job and cancel_submitted_local_job, run by      *)
(* callers (API worker threads, local tools) that share nothing but the    *)
(* files under data/ and take no lock.  One action is one file operation,  *)
(* or one step between two of them, so calls interleave and stop (a crash, *)
(* an OSError) exactly where the code lets them.                           *)
(***************************************************************************)
EXTENDS Naturals, Sequences

CONSTANTS
    Jobs,        \* job IDs
    Callers,     \* threads or processes calling the service
    Workers,     \* worker_node_id arguments
    Requests,    \* what a submission writes: a well-formed request and its second
    Fingerprint, \* of each, submission_fingerprint: the request without the second
    Input,       \* payload, requester, capability and origin
    Origin,      \* creator and parent references
    None,        \* an absent file, a null field
    MaxCalls,    \* bound: calls begun
    MaxFaults,   \* bound: calls cut short by a crash or an I/O error
    Serialized   \* TRUE: a call begins only when no other is in progress

VARIABLES
    manifest,    \* data/job-submissions/<job>.json: the submission
    record,      \* data/job-status/<job>.json
    trail,       \* data/job-state-receipts/<job>.jsonl
    result,      \* data/job-results/<job>.json
    receipt,     \* data/job-validation-receipts/<job>.json
    audit,       \* the job's lines of data/audit/*.jsonl, in the order appended
    call,        \* each caller's call in progress and what it has read
    accepted,    \* history: requests a caller was told are recorded
    attempts,    \* history: how often the job's work was run
    calls, faults

disk == <<manifest, record, trail, result, receipt, audit>>
history == <<accepted, attempts>>
vars == <<disk, call, history, calls, faults>>

-----------------------------------------------------------------------------
(* Documents and states. *)

Transitions ==
    {<<"created", "queued">>, <<"queued", "running">>,
     <<"running", "succeeded">>, <<"running", "failed">>,
     <<"created", "canceled">>, <<"queued", "canceled">>, <<"running", "canceled">>}

Terminal == {"succeeded", "failed", "canceled"}
States == {"created", "queued", "running"} \cup Terminal

(* How run_local_job and validate_job_result can end, and cancellation. *)
RunOutcomes == {"completed", "validation-failed", "failed"}
Outcomes == RunOutcomes \cup {"cancelled"}

(* Mutant: cancellation keeps the audit event's spelling as a job state. *)
TerminalStateSpelledAsEvent(outcome) ==
    CASE outcome = "completed" -> "succeeded"
      [] outcome = "cancelled" -> "cancelled"
      [] OTHER -> "failed"

TerminalState(outcome) ==
    CASE outcome = "completed" -> "succeeded"
      [] outcome = "cancelled" -> "canceled"
      [] OTHER -> "failed"

(* What a call writes about its run is about the manifest it has read. *)
Results == [by : Workers, outcome : RunOutcomes, req : Requests]
Receipts == [by : Workers, accepted : BOOLEAN, req : Requests]
Evidence == [by : Workers, passed : BOOLEAN, req : Requests]
Records == [status : States, worker : Workers \cup {None}, refs : Nat,
            evidence : Evidence \cup {None}]
NewRecord == [status |-> "created", worker |-> None, refs |-> 0, evidence |-> None]

EventTypes == {"submitted", "started", "receipt", "reported", "finished"}

(* What the validator of each event type requires of its fields. *)
SubmissionEvents == [type : {"submitted"}, by : {None}, outcome : {None}]
StartEvents == [type : {"started"}, by : Workers, outcome : {None}]
ResultEvents == [type : {"receipt", "reported"}, by : Workers, outcome : RunOutcomes]
FinishEvents == [type : {"finished"}, by : Workers \cup {None}, outcome : Outcomes]
Events == SubmissionEvents \cup StartEvents \cup ResultEvents \cup FinishEvents

Lines == [from : States, to : States]

Steps ==
    {"idle",
     "create", "logSubmission", "removeManifest", "existing", "retry", "createRecord",
     "readRecord", "appendState", "writeRecord",
     "logStart", "run", "storeResult", "storeReceipt", "logReceipt",
     "checkReport", "logReport", "checkFinish", "logFinish"}

Calls == [pc : Steps, job : Jobs \cup {None}, req : Requests \cup {None},
          by : Workers \cup {None}, target : States \cup {None},
          seen : Records \cup {None}, outcome : Outcomes \cup {None}]
NewCall(step, j, r, w, o) ==
    [pc |-> step, job |-> j, req |-> r, by |-> w, target |-> None, seen |-> None, outcome |-> o]
Idle == NewCall("idle", None, None, None, None)

LocalJobsAssumption ==
    /\ None \notin Jobs \cup Requests \cup Workers
    /\ None \notin States \cup Outcomes
    /\ None \notin Records \cup Evidence
    /\ None \notin Results \cup Receipts
    /\ MaxCalls \in Nat /\ MaxFaults \in Nat
    /\ Serialized \in BOOLEAN
ASSUME LocalJobsAssumption

(* What a request says of its work and of its origin are parts of it. *)
RequestsAssumption ==
    \A r, s \in Requests :
        /\ Fingerprint[r] = Fingerprint[s] => Input[r] = Input[s]
        /\ Input[r] = Input[s] => Origin[r] = Origin[s]
ASSUME RequestsAssumption

Init ==
    /\ manifest = [j \in Jobs |-> None]
    /\ record = [j \in Jobs |-> None]
    /\ trail = [j \in Jobs |-> <<>>]
    /\ result = [j \in Jobs |-> None]
    /\ receipt = [j \in Jobs |-> None]
    /\ audit = [j \in Jobs |-> <<>>]
    /\ call = [c \in Callers |-> Idle]
    /\ accepted = [j \in Jobs |-> {}]
    /\ attempts = [j \in Jobs |-> 0]
    /\ calls = 0 /\ faults = 0

-----------------------------------------------------------------------------
(* Helpers. *)

At(c, step) == call[c].pc = step
Goto(c, step) == call' = [call EXCEPT ![c].pc = step]
Return(c) == call' = [call EXCEPT ![c] = Idle]

(* _transition_local_job_state begins by reading the record. *)
BeginTransition(c, target) ==
    call' = [call EXCEPT ![c].pc = "readRecord", ![c].target = target]

Begin(c) ==
    /\ At(c, "idle")
    /\ Serialized => \A d \in Callers : At(d, "idle")
    /\ calls < MaxCalls
    /\ calls' = calls + 1

Log(j, type, by, outcome) ==
    audit' = [audit EXCEPT ![j] = Append(@, [type |-> type, by |-> by, outcome |-> outcome])]

Logged(j, type) == \E i \in DOMAIN audit[j] : audit[j][i].type = type

(* get_local_job_status: a manifest without a record reads as queued. *)
StatusOf(j) ==
    CASE manifest[j] = None -> "not_found"
      [] manifest[j] # None /\ record[j] = None -> "queued"
      [] OTHER -> record[j].status

-----------------------------------------------------------------------------
(* submit_local_job *)

Submit(c, j, r) ==
    /\ Begin(c)
    /\ call' = [call EXCEPT ![c] =
                   NewCall(IF manifest[j] = None THEN "create" ELSE "existing",
                           j, r, None, None)]
    /\ UNCHANGED <<disk, history, faults>>

CreateManifest(c) ==
    LET j == call[c].job IN
    /\ At(c, "create")
    /\ \/ /\ manifest[j] = None
          /\ manifest' = [manifest EXCEPT ![j] = call[c].req]
          /\ Goto(c, "logSubmission")
       \/ /\ manifest[j] # None                         \* FileExistsError
          /\ Goto(c, "existing")
          /\ UNCHANGED manifest
    /\ UNCHANGED <<record, trail, result, receipt, audit, history, calls, faults>>

LogSubmission(c) ==
    /\ At(c, "logSubmission")
    /\ Log(call[c].job, "submitted", None, None)
    /\ Goto(c, "createRecord")
    /\ UNCHANGED <<manifest, record, trail, result, receipt, history, calls, faults>>

(* Mutant: the failed append is swallowed and submission goes on. *)
LogSubmissionIgnoringFailure(c) ==
    /\ At(c, "logSubmission")
    /\ faults < MaxFaults
    /\ faults' = faults + 1
    /\ Goto(c, "createRecord")
    /\ UNCHANGED <<disk, history, calls>>

(* The append raises: before the line is written, or after it, from fsync. *)
LogSubmissionFails(c) ==
    /\ At(c, "logSubmission")
    /\ faults < MaxFaults
    /\ faults' = faults + 1
    /\ Log(call[c].job, "submitted", None, None) \/ UNCHANGED audit
    /\ Goto(c, "removeManifest")
    /\ UNCHANGED <<manifest, record, trail, result, receipt, history, calls>>

RemoveManifest(c) ==
    /\ At(c, "removeManifest")
    /\ manifest' = [manifest EXCEPT ![call[c].job] = None]
    /\ Return(c)
    /\ UNCHANGED <<record, trail, result, receipt, audit, history, calls, faults>>

CreateRecord(c) ==
    LET j == call[c].job IN
    /\ At(c, "createRecord")
    /\ IF record[j] = None
       THEN /\ record' = [record EXCEPT ![j] = NewRecord]
            /\ BeginTransition(c, "queued")
       ELSE Return(c) /\ UNCHANGED record
    /\ UNCHANGED <<manifest, trail, result, receipt, audit, history, calls, faults>>

(* Mutant: a retry is recognised by its job ID alone. *)
CheckExistingById(c) ==
    /\ At(c, "existing")
    /\ IF manifest[call[c].job] # None THEN Goto(c, "retry") ELSE Return(c)
    /\ UNCHANGED <<disk, history, calls, faults>>

(* _existing_local_submission: an exact retry, or a rejected conflict. *)
CheckExisting(c) ==
    /\ At(c, "existing")
    /\ IF /\ manifest[call[c].job] # None
          /\ Fingerprint[manifest[call[c].job]] = Fingerprint[call[c].req]
       THEN Goto(c, "retry") ELSE Return(c)
    /\ UNCHANGED <<disk, history, calls, faults>>

(* The retry's answer is the job's status, read again. *)
AnswerRetry(c) ==
    LET j == call[c].job IN
    /\ At(c, "retry")
    /\ accepted' = [accepted EXCEPT ![j] =
                       IF StatusOf(j) = "not_found" THEN @ ELSE @ \cup {call[c].req}]
    /\ Return(c)
    /\ UNCHANGED <<disk, attempts, calls, faults>>

-----------------------------------------------------------------------------
(* _transition_local_job_state: read, append the audit line, write. *)

(* Mutant: the record is written without its audit line. *)
ReadRecordSkippingAudit(c) ==
    LET rec == record[call[c].job] IN
    /\ At(c, "readRecord")
    /\ IF rec # None /\ <<rec.status, call[c].target>> \in Transitions
       THEN call' = [call EXCEPT ![c].pc = "writeRecord", ![c].seen = rec]
       ELSE Return(c)
    /\ UNCHANGED <<disk, history, calls, faults>>

(* Mutant: the transition is not looked up in the table. *)
ReadRecordUnchecked(c) ==
    LET rec == record[call[c].job] IN
    /\ At(c, "readRecord")
    /\ IF rec # None
       THEN call' = [call EXCEPT ![c].pc = "appendState", ![c].seen = rec]
       ELSE Return(c)
    /\ UNCHANGED <<disk, history, calls, faults>>

ReadRecord(c) ==
    LET rec == record[call[c].job] IN
    /\ At(c, "readRecord")
    /\ IF rec # None /\ <<rec.status, call[c].target>> \in Transitions
       THEN call' = [call EXCEPT ![c].pc = "appendState", ![c].seen = rec]
       ELSE Return(c)
    /\ UNCHANGED <<disk, history, calls, faults>>

AppendState(c) ==
    LET j == call[c].job IN
    /\ At(c, "appendState")
    /\ trail' = [trail EXCEPT ![j] =
                    Append(@, [from |-> call[c].seen.status, to |-> call[c].target])]
    /\ Goto(c, "writeRecord")
    /\ UNCHANGED <<manifest, record, result, receipt, audit, history, calls, faults>>

(* Mutant: a failed execution leaves no validation in the record. *)
NextRecordOfSuccess(c) ==
    LET k == call[c] IN
    [status |-> k.target,
     worker |-> IF k.target = "running" THEN k.by ELSE k.seen.worker,
     refs |-> k.seen.refs + 1,
     evidence |-> IF k.target = "succeeded" THEN [by |-> k.by, passed |-> TRUE, req |-> k.req]
                  ELSE k.seen.evidence]

(* The record as this call read it, with its updates; never re-read. *)
NextRecord(c) ==
    LET k == call[c] IN
    [status |-> k.target,
     worker |-> IF k.target = "running" THEN k.by ELSE k.seen.worker,
     refs |-> k.seen.refs + 1,
     evidence |-> IF k.target \in {"succeeded", "failed"}
                  THEN [by |-> k.by, passed |-> k.outcome = "completed", req |-> k.req]
                  ELSE k.seen.evidence]

(* Mutant: the executing call returns after marking the job running. *)
WriteRecordAndReturn(c) ==
    LET j == call[c].job IN
    /\ At(c, "writeRecord")
    /\ record' = [record EXCEPT ![j] = NextRecord(c)]
    /\ Return(c)
    /\ UNCHANGED <<manifest, trail, result, receipt, audit, history, calls, faults>>

WriteRecord(c) ==
    LET j == call[c].job IN
    /\ At(c, "writeRecord")
    /\ record' = [record EXCEPT ![j] = NextRecord(c)]
    /\ IF call[c].target = "running" THEN Goto(c, "run") ELSE Return(c)
    /\ accepted' = [accepted EXCEPT ![j] =
                       IF call[c].target = "queued" THEN @ \cup {call[c].req} ELSE @]
    /\ UNCHANGED <<manifest, trail, result, receipt, audit, attempts, calls, faults>>

-----------------------------------------------------------------------------
(* execute_submitted_local_job *)

Execute(c, j, w) ==
    /\ StatusOf(j) = "queued"
    /\ Begin(c)
    /\ call' = [call EXCEPT ![c] = NewCall("logStart", j, None, w, None)]
    /\ UNCHANGED <<disk, history, faults>>

(* The start receipt: this worker is about to run the job. *)
LogStarted(c) == Log(call[c].job, "started", call[c].by, None)

(* The manifest is read here, once: what the call runs, and what its       *)
(* result, receipt and attribution will name.                              *)
HoldManifest(c) ==
    call' = [call EXCEPT ![c].pc = "readRecord", ![c].target = "running",
                         ![c].req = manifest[call[c].job]]

LogStart(c) ==
    LET j == call[c].job IN
    /\ At(c, "logStart")
    /\ IF manifest[j] = None
       THEN Return(c) /\ UNCHANGED audit
       ELSE LogStarted(c) /\ HoldManifest(c)
    /\ UNCHANGED <<manifest, record, trail, result, receipt, history, calls, faults>>

RunJob(c) ==
    /\ At(c, "run")
    /\ \E o \in RunOutcomes :
          call' = [call EXCEPT ![c].pc = "storeResult", ![c].outcome = o]
    /\ attempts' = [attempts EXCEPT ![call[c].job] = @ + 1]
    /\ UNCHANGED <<disk, accepted, calls, faults>>

ResultOf(k) == [by |-> k.by, outcome |-> k.outcome, req |-> k.req]
ReceiptOf(k) == [by |-> k.by, accepted |-> k.outcome = "completed", req |-> k.req]

(* Mutant: a second report replaces the first. *)
StoreResultReplacing(c) ==
    LET j == call[c].job IN
    /\ At(c, "storeResult")
    /\ result' = [result EXCEPT ![j] = ResultOf(call[c])]
    /\ Goto(c, "storeReceipt")
    /\ UNCHANGED <<manifest, record, trail, receipt, audit, history, calls, faults>>

StoreResult(c) ==
    LET j == call[c].job IN
    /\ At(c, "storeResult")
    /\ \/ /\ result[j] = None
          /\ result' = [result EXCEPT ![j] = ResultOf(call[c])]
          /\ Goto(c, "storeReceipt")
       \/ /\ result[j] # None                           \* FileExistsError
          /\ Return(c)
          /\ UNCHANGED result
    /\ UNCHANGED <<manifest, record, trail, receipt, audit, history, calls, faults>>

StoreReceipt(c) ==
    LET j == call[c].job IN
    /\ At(c, "storeReceipt")
    /\ IF receipt[j] = None
       THEN /\ receipt' = [receipt EXCEPT ![j] = ReceiptOf(call[c])]
            /\ Goto(c, "logReceipt")
       ELSE Return(c) /\ UNCHANGED receipt
    /\ UNCHANGED <<manifest, record, trail, result, audit, history, calls, faults>>

LogReceipt(c) ==
    /\ At(c, "logReceipt")
    /\ Log(call[c].job, "receipt", call[c].by, call[c].outcome)
    /\ Goto(c, "checkReport")
    /\ UNCHANGED <<manifest, record, trail, result, receipt, history, calls, faults>>

CheckReport(c) ==
    LET j == call[c].job IN
    /\ At(c, "checkReport")
    /\ IF manifest[j] = None \/ receipt[j] = None THEN Return(c)
       ELSE Goto(c, IF Logged(j, "reported") THEN "checkFinish" ELSE "logReport")
    /\ UNCHANGED <<disk, history, calls, faults>>

LogReport(c) ==
    /\ At(c, "logReport")
    /\ Log(call[c].job, "reported", call[c].by, call[c].outcome)
    /\ Goto(c, "checkFinish")
    /\ UNCHANGED <<manifest, record, trail, result, receipt, history, calls, faults>>

-----------------------------------------------------------------------------
(* cancel_submitted_local_job, and the finish event it shares with execution *)

(* No state is refused here: the transition at the end does that. *)
Cancel(c, j) ==
    /\ StatusOf(j) # "not_found"
    /\ Begin(c)
    /\ call' = [call EXCEPT ![c] =
                   NewCall("checkFinish", j, None,
                           IF record[j] = None THEN None ELSE record[j].worker, "cancelled")]
    /\ UNCHANGED <<disk, history, faults>>

(* Only cancellation loads the manifest here; execution holds it since     *)
(* its start.                                                              *)
CheckFinish(c) ==
    LET j == call[c].job IN
    /\ At(c, "checkFinish")
    /\ IF call[c].outcome = "cancelled" /\ manifest[j] = None THEN Return(c)
       ELSE IF Logged(j, "finished")
            THEN BeginTransition(c, TerminalState(call[c].outcome))
            ELSE Goto(c, "logFinish")
    /\ UNCHANGED <<disk, history, calls, faults>>

(* Mutant: every finish event says the job completed. *)
LogFinishAsCompleted(c) ==
    /\ At(c, "logFinish")
    /\ Log(call[c].job, "finished", call[c].by, "completed")
    /\ BeginTransition(c, TerminalState(call[c].outcome))
    /\ UNCHANGED <<manifest, record, trail, result, receipt, history, calls, faults>>

LogFinish(c) ==
    /\ At(c, "logFinish")
    /\ Log(call[c].job, "finished", call[c].by, call[c].outcome)
    /\ BeginTransition(c, TerminalState(call[c].outcome))
    /\ UNCHANGED <<manifest, record, trail, result, receipt, history, calls, faults>>

-----------------------------------------------------------------------------
(* A call is cut short before its next file operation takes effect: the    *)
(* process dies, or the operation raises and no handler changes a file.    *)
Abandon(c) ==
    /\ ~At(c, "idle")
    /\ faults < MaxFaults
    /\ faults' = faults + 1
    /\ Return(c)
    /\ UNCHANGED <<disk, history, calls>>

(* Every begun call has returned and the bound admits no other. *)
Quiesced ==
    /\ calls = MaxCalls
    /\ \A c \in Callers : At(c, "idle")
    /\ UNCHANGED vars

Step(c) ==
    \/ CreateManifest(c) \/ LogSubmission(c) \/ RemoveManifest(c) \/ CreateRecord(c)
    \/ CheckExisting(c) \/ AnswerRetry(c)
    \/ ReadRecord(c) \/ AppendState(c) \/ WriteRecord(c)
    \/ LogStart(c) \/ RunJob(c) \/ StoreResult(c) \/ StoreReceipt(c)
    \/ LogReceipt(c) \/ CheckReport(c) \/ LogReport(c)
    \/ CheckFinish(c) \/ LogFinish(c)

Next ==
    \/ \E c \in Callers :
          \/ \E j \in Jobs : \/ \E r \in Requests : Submit(c, j, r)
                             \/ \E w \in Workers : Execute(c, j, w)
                             \/ Cancel(c, j)
          \/ Step(c)
          \/ LogSubmissionFails(c)
          \/ Abandon(c)
    \/ Quiesced

Spec == Init /\ [][Next]_vars

(* A call is a synchronous function: once begun, its thread runs it on. *)
FairSpec == Spec /\ \A c \in Callers : WF_vars(Step(c))
=============================================================================
