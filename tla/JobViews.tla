------------------------------- MODULE JobViews -------------------------------
(***************************************************************************)
(* The read-only calls of the local job service: receipt lookup and list,  *)
(* contribution summary, audit inspection, attribution trace and the       *)
(* preflight of a result report.  Each joins the files of LocalJobs anew   *)
(* on every call and stores nothing it derived, so each is a function of   *)
(* the state it reads.                                                     *)
(***************************************************************************)
EXTENDS LocalJobs

(* The record holds a validation, and with it a reference to the receipt   *)
(* and the attribution of the worker that wrote it.                        *)
Validated(j) == record[j] # None /\ record[j].evidence # None

TakenBy(j) == IF record[j] = None THEN None ELSE record[j].worker

(* list_local_job_results: every stored result, with its job's outcome. *)
ListedResults ==
    {[job |-> j, by |-> result[j].by, outcome |-> result[j].outcome] :
        j \in {k \in Jobs : result[k] # None}}

Judged(passed) == IF passed THEN "accepted" ELSE "rejected"

-----------------------------------------------------------------------------
(* get_local_validation_receipt, and what is built on it *)

(* The validation method names the creator and the parents of the manifest *)
(* the work was run for, and with it the attribution the record holds.     *)
SameAttribution(j) ==
    /\ record[j].evidence.by = receipt[j].by
    /\ Origin[record[j].evidence.req] = Origin[receipt[j].req]

Provenance(j) ==
    /\ manifest[j] # None /\ record[j] # None /\ result[j] # None
    /\ Validated(j) /\ SameAttribution(j)
    /\ Input[manifest[j]] = Input[receipt[j].req]
    /\ result[j].req = receipt[j].req

(* Mutant: the executor is not compared with the status record. *)
ExecutorOfResultOnly(j) == result[j].by = receipt[j].by

SameExecutor(j) == result[j].by = receipt[j].by /\ TakenBy(j) = receipt[j].by

(* "invalid": the call raises, the receipt is there. *)
ReceiptAnswer(j) ==
    CASE receipt[j] = None -> "not_found"
      [] receipt[j] # None /\ Provenance(j) /\ SameExecutor(j)
            /\ receipt[j].accepted = (result[j].outcome = "completed")
                           -> Judged(receipt[j].accepted)
      [] OTHER             -> "invalid"

(* One receipt that cannot be shown fails the whole list. *)
ReceiptListFails == \E j \in Jobs : ReceiptAnswer(j) = "invalid"

(* The newest by modification time: any of them. *)
LatestAnswers ==
    LET kept == {j \in Jobs : receipt[j] # None} IN
    IF kept = {} THEN {"not_found"} ELSE {ReceiptAnswer(j) : j \in kept}

(* The result's manifest ID is the hash of the whole manifest it was run   *)
(* for, the second of its submission included.                             *)
Traceable(j) ==
    /\ manifest[j] # None
    /\ result[j] # None
    /\ ReceiptAnswer(j) = "accepted"
    /\ result[j].req = manifest[j]

-----------------------------------------------------------------------------
(* inspect_local_audit_events: derived from the files, not from the journal *)

DerivedEvents(j) ==
    IF manifest[j] = None THEN {}
    ELSE {[type |-> "job_submitted", by |-> None, validation |-> "pending"]}
         \cup IF Validated(j)
              THEN {[type |-> "job_executed", by |-> TakenBy(j),
                     validation |-> Judged(receipt[j].accepted)]}
              ELSE {}

InspectionFails ==
    \E j \in Jobs :
        /\ manifest[j] # None /\ Validated(j)
        /\ \/ TakenBy(j) = None
           \/ ReceiptAnswer(j) \in {"not_found", "invalid"}
           \/ record[j].evidence.passed # receipt[j].accepted

Inspect(type, by) ==
    UNION {{<<j, e>> : e \in {d \in DerivedEvents(j) : d.type = type /\ d.by = by}} : j \in Jobs}

-----------------------------------------------------------------------------
(* contribution_summary *)

Summarized == {j \in Jobs : manifest[j] # None \/ record[j] # None \/ receipt[j] # None}

DocumentErrors(j) ==
    {e \in {"no manifest", "no status", "no receipt", "no reference"} :
        CASE e = "no manifest"  -> manifest[j] = None
          [] e = "no status"    -> record[j] = None
          [] e = "no receipt"   -> Validated(j) /\ receipt[j] = None
          [] e = "no reference" ->
                ~Validated(j) /\ \/ receipt[j] # None
                                 \/ record[j] # None /\ record[j].status \in Terminal}

(* An attribution without a worker is given the worker of the record. *)
Contributor(j) == IF Validated(j) THEN record[j].evidence.by ELSE TakenBy(j)

AttributionErrors(j) ==
    {e \in {"no contributor", "other worker", "other validator", "other attribution",
            "other creator", "other method"} :
        CASE e = "no contributor"  ->
                record[j] # None /\ record[j].status = "succeeded" /\ Contributor(j) = None
          [] e = "other worker"    -> record[j] # None /\ Contributor(j) # TakenBy(j)
          [] e = "other validator" -> receipt[j] # None /\ receipt[j].by # TakenBy(j)
          [] e = "other attribution" ->
                receipt[j] # None /\ ~(Validated(j) /\ SameAttribution(j))
          [] e = "other creator" ->
                /\ manifest[j] # None /\ Validated(j)
                /\ Origin[record[j].evidence.req] # Origin[manifest[j]]
          [] e = "other method" ->
                /\ receipt[j] # None /\ manifest[j] # None
                /\ Origin[receipt[j].req] # Origin[manifest[j]]}

VerdictErrors(j) ==
    {e \in {"other verdict"} :
        /\ receipt[j] # None
        /\ ~(Validated(j) /\ record[j].evidence.passed = receipt[j].accepted)}

Errors(j) == DocumentErrors(j) \cup AttributionErrors(j) \cup VerdictErrors(j)

Acceptance(j) ==
    IF Errors(j) # {} THEN "degraded"
    ELSE IF record[j].status = "succeeded" /\ Validated(j)
            /\ record[j].evidence.passed /\ receipt[j].accepted
         THEN "accepted" ELSE "not_accepted"

SummaryValidation(j) ==
    LET errors == Errors(j) IN
    CASE errors # {} ->
            IF errors \cap {"no manifest", "no status", "no receipt"} # {}
            THEN "unavailable" ELSE "invalid"
      [] errors = {} /\ receipt[j] # None -> Judged(receipt[j].accepted)
      [] OTHER -> "pending"

AcceptedCount == {j \in Summarized : Acceptance(j) = "accepted"}

-----------------------------------------------------------------------------
(* preflight_local_result_report: a report names the manifest it is for by *)
(* its hash, or by its path (None), and its executor.                      *)

Reports == [manifest : Requests \cup {None}, by : Workers, validated : BOOLEAN]

(* The report names this manifest and the worker of the record. *)
FitsJob(j, report) ==
    report.manifest \in {None, manifest[j]} /\ report.by = TakenBy(j)

Preflight(j, report) ==
    IF manifest[j] = None THEN "missing_manifest"
    ELSE IF record[j] = None THEN "missing_work_state"
    ELSE IF ~FitsJob(j, report) THEN "manifest_mismatch"
    ELSE IF report.validated THEN "premature_validation" ELSE "ready_for_validation"
=============================================================================
