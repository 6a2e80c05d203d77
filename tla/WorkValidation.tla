--------------------------- MODULE WorkValidation ---------------------------
(***************************************************************************)
(* One assigned job on its way through the gate. LocalNodeService runs it  *)
(* with the local runner and reports a credited result; LocalExecutor runs *)
(* it with a runner it does not know; a replay validates what the message  *)
(* log says was reported.                                                  *)
(***************************************************************************)
EXTENDS Workloads

CONSTANTS
    Node, OtherNode,    \* the assigned node and one that is not assigned
    OtherJob,           \* the ID of another job
    Jobs                \* the jobs that may be assigned, [id, type, payload]

VARIABLES
    job,        \* the assigned job
    phase,      \* how far it has come
    result,     \* the reported result, its units the credited ones
    verdict,    \* reason of the worker's or the executor's own validation
    failure,    \* the failure code of an execution receipt
    replayed,   \* reason a replay of the message log gives
    altered     \* the result is not the one the local runner computed

vars == <<job, phase, result, verdict, failure, replayed, altered>>

Nothing == "nothing"
Phases == {"assigned", "reported", "received", "aborted", "replayed"}
Reasons == {Nothing, "ok", "unsupported_job_type", "result_not_completed",
            "job_id_mismatch", "result_node_id_mismatch", "executor_node_id_mismatch",
            "unexpected_contribution_units", "malformed_payload", "output_schema",
            "output_mismatch"}
\* What a validation raises is told from the reasons it gives.
WorkAssumption == Raised \notin Reasons /\ Node # AnyNode
ASSUME WorkAssumption

\* What payload fields may hold: a text, a number, or nothing usable.
MaybeText(t) == t \in {Absent, Bad} \/ t \in Seq(Int)
MaybeNumber(n) == n \in {Absent, Bad} \/ n \in Int
IsLeaf(v) == v = Leaf(v.kind, v.val)
IsList(s) == Len(s) \in Nat /\ s = [i \in 1 .. Len(s) |-> s[i]]
PayloadOK(type, p) ==
    /\ type \in ScaledTypes => MaybeText(p.text)
    /\ type = "keyword_extract" => MaybeNumber(p.limit)
    /\ type = "text_chunk" => MaybeNumber(p.max_chars)
    /\ type = "text_embed" => MaybeNumber(p.dimensions)
    /\ type = "text_retrieve" =>
          /\ MaybeText(p.query) /\ MaybeNumber(p.limit)
          /\ IsList(p.documents)
          /\ \A i \in DOMAIN p.documents :
                p.documents[i].id \in Int /\ MaybeText(p.documents[i].text)
    /\ type = "basic_compute" => p.operands = Bad \/ IsList(p.operands)
    /\ type = "schema_transform" =>
          p.record = Bad \/ \A f \in DOMAIN p.record : IsLeaf(p.record[f])
JobsAssumption == \A j \in Jobs : PayloadOK(j.type, j.payload)
ASSUME JobsAssumption

\* A digest is read as a number.
DigestAssumption ==
    \A j \in Jobs : j.type = "text_embed" /\ IsText(j.payload.text) =>
        \A i \in DOMAIN Tokens(j.payload.text) : Digest(Tokens(j.payload.text)[i]) \in Nat
ASSUME DigestAssumption

FailedResult == Result(job, Node, "failed", Malformed, 0)

-----------------------------------------------------------------------------
(* What another runner, or whoever edits a message log, may make of an     *)
(* honest result: one change anywhere in it.                               *)

Lookalikes(leaf) ==
    {Leaf(leaf.kind, Other)} \cup
    (CASE leaf.kind = "int" -> {Leaf("float", leaf.val)} \cup
                               {Leaf("bool", n) : n \in {0, 1} \cap {leaf.val}}
       [] leaf.kind = "float" -> {Leaf("int", leaf.val)}
       [] leaf.kind = "bool" -> {Num(leaf.val)}
       [] OTHER -> {Leaf("null", Bad)})
ChangedLeaves(out) ==
    UNION {UNION {UNION {{[out EXCEPT ![f][i][k] = leaf] : leaf \in Lookalikes(out[f][i][k])}
                         : k \in DOMAIN out[f][i]} : i \in DOMAIN out[f]} : f \in DOMAIN out}
ChangedRows(out) ==
    UNION {{[out EXCEPT ![f] = Front(@)], [out EXCEPT ![f] = Append(@, Last(@))],
            [out EXCEPT ![f] = Reverse(@)]} : f \in {g \in DOMAIN out : out[g] # <<>>}}
ChangedFields(out) ==
    {[g \in DOMAIN out \ {f} |-> out[g]] : f \in DOMAIN out} \cup
    {[g \in DOMAIN out \cup {"more"} |-> IF g = "more" THEN Scalar(Str(Other)) ELSE out[g]]}
ChangedOutputs(out) ==
    {Malformed} \cup (IF out = Malformed THEN {}
                      ELSE ChangedLeaves(out) \cup ChangedRows(out) \cup ChangedFields(out))
Alterations(r) ==
    {[r EXCEPT !.output = o] : o \in ChangedOutputs(r.output)} \cup
    {[r EXCEPT !.status = "completed"], [r EXCEPT !.status = "failed"],
     [r EXCEPT !.job = OtherJob], [r EXCEPT !.node = OtherNode], [r EXCEPT !.units = 2]}

-----------------------------------------------------------------------------
Init ==
    /\ job \in Jobs
    /\ phase = "assigned"
    /\ result = FailedResult
    /\ verdict = Nothing /\ failure = Nothing /\ replayed = Nothing
    /\ altered = FALSE

Own == RunJob(job, Node)

\* LocalNodeService._process_assignment: run, validate, credit, report.
ProcessAssignment ==
    /\ phase = "assigned"
    /\ \E own \in {Own} :
          /\ own # Raised
          /\ \E reason \in {ValidateJobResult(job, own, Node)} :
                /\ verdict' = reason
                /\ result' = [own EXCEPT !.units = IF reason = "ok" THEN Score(job, own) ELSE 0]
    /\ phase' = "reported"
    /\ UNCHANGED <<job, failure, replayed, altered>>

\* An exception other than ValueError leaves the runner, and process_inbox:
\* the pass over the inbox ends and nothing of it is recorded.
ProcessingRaises ==
    /\ phase = "assigned"
    /\ Own = Raised
    /\ phase' = "aborted"
    /\ UNCHANGED <<job, result, verdict, failure, replayed, altered>>

\* LocalExecutor.execute, once its runner has returned r or raised. The gate
\* runs outside the handler: what its own run of the workload raises, escapes.
Receive(r, raised) ==
    \E gate \in {ValidateJobResult(job, r, AnyNode)} :
    LET reason == IF r.node # Node THEN "executor_node_id_mismatch" ELSE gate
    IN  /\ IF gate = Raised
           THEN phase' = "aborted" /\ UNCHANGED <<verdict, failure, result>>
           ELSE /\ phase' = "received"
                /\ verdict' = reason
                /\ failure' = IF reason = "ok" THEN Nothing
                              ELSE IF raised THEN "executor_exception" ELSE reason
                /\ result' = r
        /\ altered' = (Own = Raised \/ r # Own)
        /\ UNCHANGED <<job, replayed>>

\* The runner is the local one, or another that may return anything.
Execute ==
    /\ phase = "assigned"
    /\ \E own \in {Own} :
          LET honest == IF own = Raised
                        THEN [FailedResult EXCEPT !.status = "completed", !.units = 1]
                        ELSE own
          IN  \E r \in {honest} \cup Alterations(honest) : Receive(r, FALSE)

\* A runner that raises anything becomes a failed result with its code.
ExecuteRaises ==
    /\ phase = "assigned"
    /\ Receive(FailedResult, TRUE)

\* The message log is edited, or was written by something else.
AlterReport ==
    /\ phase = "reported"
    /\ ~altered
    /\ \E r \in Alterations(result) : result' = r /\ altered' = (r # result)
    /\ UNCHANGED <<job, phase, verdict, failure, replayed>>

\* A mutant of ForOutputValidation: the credited units are left as they are.
AsReported(r) == r

\* validate_local_results: the credited units of a completed result are the
\* scorer's, so they are set back to the runner's before it is validated.
ForOutputValidation(r) == IF r.status = "completed" THEN [r EXCEPT !.units = 1] ELSE r
Replay ==
    /\ phase = "reported"
    /\ result.job = job.id
    /\ replayed' = ValidateJobResult(job, ForOutputValidation(result), Node)
    /\ phase' = "replayed"
    /\ UNCHANGED <<job, result, verdict, failure, altered>>

\* A result without an assignment of the same job ends the replay.
ReplayRefuses ==
    /\ phase = "reported"
    /\ result.job # job.id
    /\ phase' = "aborted"
    /\ UNCHANGED <<job, result, verdict, failure, replayed, altered>>

Next ==
    \/ ProcessAssignment \/ ProcessingRaises \/ Execute \/ ExecuteRaises
    \/ AlterReport \/ Replay \/ ReplayRefuses

Spec == Init /\ [][Next]_vars
=============================================================================
