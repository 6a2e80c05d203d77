--------------------------- MODULE SafeExecution ---------------------------
(***************************************************************************)
(* run_local_job: one submitted job under the operator's local safety      *)
(* controls, as execute_submitted_local_job calls it. With a timeout the   *)
(* work runs in a spawned process that hands its result over through a     *)
(* multiprocessing queue: put leaves it with a feeder thread, the feeder   *)
(* writes it to a pipe of limited capacity, the process exits only when    *)
(* the feeder is done, and the parent reads only after the process exited. *)
(***************************************************************************)
EXTENDS Integers

CONSTANTS
    PipeSize,       \* parts of a result the pipe holds
    MaxSize,        \* parts of the largest result
    MaxKills,       \* how often something else may kill the child
    AmpleTime       \* the deadline passes only once the child cannot go on

ASSUME ExecutionAssumption ==
    /\ PipeSize \in Nat \ {0} /\ MaxSize \in Nat \ {0} /\ MaxKills \in Nat
    /\ AmpleTime \in BOOLEAN

VARIABLES
    job,        \* what the work comes to, how large its result is, the controls
    pc,         \* where run_local_job, or its caller, is
    child,      \* the spawned process
    unsent,     \* parts of the result the feeder has not written
    pipe,       \* parts in the pipe
    read,       \* parts the parent has read
    expired,    \* the deadline of the join has passed
    status,     \* the status of the result run_local_job returned
    state,      \* the status the service gives the job
    units,      \* the contribution units the service records
    kills       \* kills so far

vars == <<job, pc, child, unsent, pipe, read, expired, status, state, units, kills>>

\* "valid" work completes and validates, "refused" completes with an output
\* the gate refuses, "malformed" fails, "raising" lets an exception out.
Outcomes == {"valid", "refused", "malformed", "raising"}
Jobs == [outcome : Outcomes, size : 1 .. MaxSize,
         timeout : {"none", "zero", "some"}, cancel : BOOLEAN]
Alive == {"started", "putting"}

-----------------------------------------------------------------------------
Init ==
    /\ job \in Jobs
    /\ pc = "called"
    /\ child = "none"
    /\ unsent = 0 /\ pipe = 0 /\ read = 0
    /\ expired = FALSE
    /\ status = "none"
    /\ state = "running"
    /\ units = 0
    /\ kills = 0

Return(s) == status' = s /\ pc' = "returned"

\* The status of the result LocalRunner makes of the work; what it raises is
\* caught by the service, or ends the child without a result.
OwnStatus == IF job.outcome \in {"valid", "refused"} THEN "completed" ELSE "failed"

\* A cancellation that was requested is looked at before anything is started.
Cancel ==
    /\ pc = "called"
    /\ job.cancel
    /\ Return("cancelled")
    /\ UNCHANGED <<job, child, unsent, pipe, read, expired, state, units, kills>>

\* Without a timeout the work runs in the calling thread.
RunDirectly ==
    /\ pc = "called"
    /\ ~job.cancel
    /\ job.timeout = "none"
    /\ Return(OwnStatus)
    /\ read' = job.size
    /\ UNCHANGED <<job, child, unsent, pipe, expired, state, units, kills>>

Spawn ==
    /\ pc = "called"
    /\ ~job.cancel
    /\ job.timeout # "none"
    /\ child' = "started"
    /\ expired' = (job.timeout = "zero")
    /\ pc' = "joining"
    /\ UNCHANGED <<job, unsent, pipe, read, status, state, units, kills>>

-----------------------------------------------------------------------------
(* The child.                                                              *)

Work ==
    /\ child = "started"
    /\ IF job.outcome = "raising"
       THEN child' = "exited" /\ UNCHANGED unsent
       ELSE child' = "putting" /\ unsent' = job.size
    /\ UNCHANGED <<job, pc, pipe, read, expired, status, state, units, kills>>

Feed ==
    /\ child = "putting"
    /\ unsent > 0 /\ pipe < PipeSize
    /\ unsent' = unsent - 1
    /\ pipe' = pipe + 1
    /\ UNCHANGED <<job, pc, child, read, expired, status, state, units, kills>>

Exit ==
    /\ child = "putting"
    /\ unsent = 0
    /\ child' = "exited"
    /\ UNCHANGED <<job, pc, unsent, pipe, read, expired, status, state, units, kills>>

\* Something else kills the process: the system is out of memory, an operator.
Kill ==
    /\ child \in Alive
    /\ kills < MaxKills
    /\ child' = "killed"
    /\ unsent' = 0
    /\ kills' = kills + 1
    /\ UNCHANGED <<job, pc, pipe, read, expired, status, state, units>>

ChildCanGoOn ==
    \/ child = "started"
    \/ child = "putting" /\ (unsent = 0 \/ pipe < PipeSize)

-----------------------------------------------------------------------------
(* The parent.                                                             *)

Expire ==
    /\ pc = "joining"
    /\ ~expired
    /\ AmpleTime => ~ChildCanGoOn
    /\ expired' = TRUE
    /\ UNCHANGED <<job, pc, child, unsent, pipe, read, status, state, units, kills>>

\* The join ends, at the deadline or because the process has.
Joined ==
    /\ pc = "joining"
    /\ expired \/ child \notin Alive
    /\ pc' = "checking"
    /\ UNCHANGED <<job, child, unsent, pipe, read, expired, status, state, units, kills>>

\* Mutant: the timeout only stops waiting.
CheckAliveOnly ==
    /\ pc = "checking"
    /\ IF child \in Alive THEN Return("timed_out") ELSE pc' = "getting" /\ UNCHANGED status
    /\ UNCHANGED <<job, child, unsent, pipe, read, expired, state, units, kills>>

CheckAlive ==
    /\ pc = "checking"
    /\ pc' = IF child \in Alive THEN "terminating" ELSE "getting"
    /\ UNCHANGED <<job, child, unsent, pipe, read, expired, status, state, units, kills>>

\* terminate sends a signal; the process may have exited before it arrives.
Terminate ==
    /\ pc = "terminating"
    /\ child' = IF child \in Alive THEN "killed" ELSE child
    /\ unsent' = 0
    /\ pc' = "reaping"
    /\ UNCHANGED <<job, pipe, read, expired, status, state, units, kills>>

\* The second join, without a deadline; the queue is closed unread.
Reap ==
    /\ pc = "reaping"
    /\ child \notin Alive
    /\ Return("timed_out")
    /\ UNCHANGED <<job, child, unsent, pipe, read, expired, state, units, kills>>

\* Mutant: the first bytes are waited for without an end.
GetEmptyNever == FALSE /\ UNCHANGED vars

\* The get waits a second for the first bytes and then for all the others.
GetEmpty ==
    /\ pc = "getting"
    /\ pipe = 0 /\ read = 0
    /\ Return("failed")
    /\ UNCHANGED <<job, child, unsent, pipe, read, expired, state, units, kills>>

Get ==
    /\ pc = "getting"
    /\ pipe > 0
    /\ pipe' = pipe - 1
    /\ read' = read + 1
    /\ IF read + 1 = job.size THEN Return(OwnStatus) ELSE UNCHANGED <<pc, status>>
    /\ UNCHANGED <<job, child, unsent, expired, state, units, kills>>

-----------------------------------------------------------------------------
\* The service validates whatever it got and records the outcome.
Record ==
    /\ pc = "returned"
    /\ LET valid == status = "completed" /\ job.outcome = "valid"
       IN  /\ state' = IF valid THEN "succeeded" ELSE "failed"
           /\ units' = IF valid THEN 1 ELSE 0
    /\ pc' = "recorded"
    /\ UNCHANGED <<job, child, unsent, pipe, read, expired, status, kills>>

Parent == Cancel \/ RunDirectly \/ Spawn \/ Joined \/ CheckAlive \/ Terminate
              \/ Reap \/ GetEmpty \/ Get \/ Record
Child == Work \/ Feed \/ Exit
Next == Parent \/ Child \/ Expire \/ Kill

Spec == Init /\ [][Next]_vars

\* The operating system runs both processes, and time passes.
FairSpec == Spec /\ WF_vars(Parent) /\ WF_vars(Child) /\ WF_vars(Expire)
=============================================================================
