------------------------- MODULE LocalJobsProperties -------------------------
(***************************************************************************)
(* What LocalJobs is checked for.  The first group holds however calls     *)
(* interleave and stop; the second when calls are Serialized, whatever is  *)
(* cut short; the last is what the repository states and unsynchronised    *)
(* calls break.                                                            *)
(***************************************************************************)
EXTENDS JobViews

(* _contribution_summary_item accepts the job: status, receipt and         *)
(* attribution agree.  One field mismatch degrades the item.               *)
Credited(j) ==
    /\ manifest[j] # None /\ record[j] # None /\ receipt[j] # None
    /\ record[j].evidence # None
    /\ record[j].status = "succeeded"
    /\ record[j].evidence.passed /\ receipt[j].accepted
    /\ record[j].worker = record[j].evidence.by
    /\ receipt[j].by = record[j].worker
    /\ SameAttribution(j) /\ Origin[receipt[j].req] = Origin[manifest[j]]

(* trace_local_job_attribution returns a chain: it joins manifest, result, *)
(* receipt and the record's attribution, and does not look at its status.  *)
Traced(j) ==
    /\ manifest[j] # None /\ record[j] # None
    /\ result[j] # None /\ receipt[j] # None
    /\ receipt[j].accepted
    /\ result[j].outcome = "completed"
    /\ record[j].evidence # None
    /\ SameAttribution(j)
    /\ receipt[j].req = result[j].req /\ result[j].req = manifest[j]

-----------------------------------------------------------------------------
(* Under every interleaving and fault. *)

(* Every file and every call in progress has the shape the code gives it.  *)
TypeOK ==
    /\ manifest \in [Jobs -> Requests \cup {None}]
    /\ record \in [Jobs -> Records \cup {None}]
    /\ trail \in [Jobs -> Seq(Lines)]
    /\ result \in [Jobs -> Results \cup {None}]
    /\ receipt \in [Jobs -> Receipts \cup {None}]
    /\ audit \in [Jobs -> Seq(Events)]
    /\ call \in [Callers -> Calls]
    /\ accepted \in [Jobs -> SUBSET Requests]
    /\ attempts \in [Jobs -> Nat]
    /\ calls \in 0..MaxCalls /\ faults \in 0..MaxFaults

(* A job is credited or traced only to the worker whose start was logged,  *)
(* whose completed result and accepted receipt, of one and the same        *)
(* manifest, are the ones on disk and                                      *)
(* whose job succeeded, with a finish event logged: racing executors and   *)
(* cancellers never produce credit out of mixed evidence.                  *)
CreditIsEarned ==
    \A j \in Jobs : Credited(j) \/ Traced(j) =>
        /\ record[j].status = "succeeded"
        /\ result[j] = [by |-> receipt[j].by, outcome |-> "completed", req |-> receipt[j].req]
        /\ attempts[j] > 0
        /\ Logged(j, "finished")
        /\ \E i \in DOMAIN audit[j] :
              audit[j][i].type = "started" /\ audit[j][i].by = receipt[j].by

(* The receipt and every audit event about it come from the one call whose *)
(* result is on disk, each only after the evidence it names: a receipt     *)
(* event after the receipt, a report after the receipt event.              *)
EvidenceChain ==
    \A j \in Jobs :
        /\ receipt[j] # None =>
              /\ result[j] # None
              /\ receipt[j].by = result[j].by /\ receipt[j].req = result[j].req
              /\ receipt[j].accepted = (result[j].outcome = "completed")
        /\ \A i \in DOMAIN audit[j] :
              /\ audit[j][i].type \in {"receipt", "reported"} =>
                    receipt[j] # None /\ audit[j][i].by = receipt[j].by
              /\ audit[j][i].type = "reported" =>
                    \E h \in 1..(i - 1) : audit[j][h].type = "receipt"

(* A status record exists only for a job whose manifest is on disk and     *)
(* whose submission was logged (docs: the event is appended before the     *)
(* submission is queued).                                                  *)
RecordIsAnchored ==
    \A j \in Jobs : record[j] # None => manifest[j] # None /\ Logged(j, "submitted")

(* The state written to the record is one whose audit line was appended    *)
(* before, and the record never refers to more lines than were appended.   *)
TrailLeadsStatus ==
    \A j \in Jobs : record[j] # None =>
        /\ record[j].refs <= Len(trail[j])
        /\ record[j].status = "created"
           \/ \E i \in DOMAIN trail[j] : trail[j][i].to = record[j].status

(* The manifest on disk is not the one the reported work was run for: a    *)
(* failed submission's clean-up removed that one and another submission    *)
(* took the job ID while the work ran.                                     *)
Replaced(j) == result[j] # None /\ result[j].req # manifest[j]

(* The read-only calls, each with its own checks, tell the same story of a *)
(* job at every instant unless its manifest was replaced, which only a     *)
(* failed submission beside another call can do: the summary accepts the   *)
(* job if and only if its receipt can be shown as accepted and its         *)
(* attribution can be traced, and rejects only what the lookup rejects.    *)
(* Replaced or not, what the lookup accepts the summary accepts, a summary *)
(* accepts only a completed result that is listed for its worker, the      *)
(* inspection, if it answers, lists the execution with the receipt's       *)
(* verdict, and only a worker whose start of this very job was logged has  *)
(* a report held ready for validation.                                     *)
ViewsAgree ==
    \A j \in Jobs :
        LET answer  == ReceiptAnswer(j)
            counted == j \in AcceptedCount
        IN
        /\ Replaced(j) => faults > 0 /\ ~Serialized
        /\ ~Replaced(j) =>
              /\ counted <=> answer = "accepted"
              /\ counted <=> Traceable(j)
              /\ j \in Summarized /\ SummaryValidation(j) = "rejected"
                    => answer = "rejected"
        /\ answer = "accepted" => counted
        /\ counted =>
              /\ SummaryValidation(j) = "accepted"
              /\ [job |-> j, by |-> TakenBy(j), outcome |-> "completed"] \in ListedResults
        /\ ~InspectionFails => \A w \in Workers : \A shown \in Inspect("job_executed", w) :
              shown[1] = j => shown[2].validation = answer
        /\ \A report \in Reports : Preflight(j, report) = "ready_for_validation" =>
              \E i \in DOMAIN audit[j] :
                  audit[j][i].type = "started" /\ audit[j][i].by = report.by

(* A record rests on what was written before it: the manifest, the logged  *)
(* submission and the audit line of every transition it went through.      *)
RecordIsFounded == RecordIsAnchored /\ TrailLeadsStatus

(* Once a job has a status record, no racing submission and no failed      *)
(* submission's clean-up replaces or removes its manifest.                 *)
ManifestImmutable ==
    [][\A j \in Jobs : record[j] # None => manifest'[j] = manifest[j]]_vars

-----------------------------------------------------------------------------
(* When calls are serialized. *)

(* A request a caller was told is recorded is the one in the manifest,     *)
(* whichever submission of it, retried in another second, wrote it.        *)
AcceptedIsRecorded ==
    \A j \in Jobs : \A r \in accepted[j] :
        manifest[j] # None /\ Fingerprint[manifest[j]] = Fingerprint[r]

(* Unless a call was cut short, every list and inspection answers whenever *)
(* no call is in progress, the latest receipt can be shown, and only a     *)
(* canceled job is degraded in the summary.                                *)
ListsAnswer ==
    faults = 0 /\ (\A c \in Callers : At(c, "idle")) =>
        /\ ~ReceiptListFails /\ "invalid" \notin LatestAnswers
        /\ ~InspectionFails
        /\ \A j \in Summarized : Acceptance(j) = "degraded" => record[j].status = "canceled"

(* A job has at most one finish event, retried cancellations included, and *)
(* unless a call was cut short it names the terminal state of the record.  *)
FinishedOnce ==
    \A j \in Jobs :
        /\ \A h, i \in DOMAIN audit[j] :
              audit[j][h].type = "finished" /\ audit[j][i].type = "finished" => h = i
        /\ faults = 0 /\ record[j] # None /\ record[j].status \in Terminal =>
              \E i \in DOMAIN audit[j] :
                  /\ audit[j][i].type = "finished"
                  /\ TerminalState(audit[j][i].outcome) = record[j].status

(* The state trail replays to the record: its last line led to the current *)
(* status, or is the line of a transition cut short in that status, and a  *)
(* record without a line is still as created.                              *)
TrailEndsAtStatus ==
    \A j \in Jobs : (\A c \in Callers : At(c, "idle")) =>
        IF trail[j] = <<>>
        THEN record[j] = None \/ record[j] = NewRecord
        ELSE LET last == trail[j][Len(trail[j])] IN
             record[j] # None /\ record[j].status \in {last.from, last.to}

(* The files implement the promised lifecycle: valid transitions only, one *)
(* attempt, terminal states final, credit exactly on success, and to the   *)
(* worker that took the job.                                               *)
Promise == INSTANCE JobLifecycle WITH
    state    <- [j \in Jobs |-> IF record[j] = None THEN "absent" ELSE record[j].status],
    worker   <- [j \in Jobs |-> IF record[j] = None THEN None ELSE record[j].worker],
    attempts <- attempts,
    credit   <- [j \in Jobs |-> IF Credited(j) THEN receipt[j].by ELSE None]

KeepsPromise == Promise!Spec

(* A job left created or running by nothing but calls in progress settles: *)
(* each becomes queued or terminal unless a call was cut short.            *)
Settles ==
    \A j \in Jobs :
        (StatusOf(j) \in {"created", "running"})
        ~> (faults > 0 \/ StatusOf(j) \in Terminal \cup {"queued"})

-----------------------------------------------------------------------------
(* Stated by the repository, broken by unsynchronised calls. *)

(* Terminal jobs cannot be executed or restarted in place.                 *)
TerminalIsFinal ==
    [][\A j \in Jobs : record[j] # None /\ record[j].status \in Terminal =>
          record'[j] = record[j]]_vars
=============================================================================
