----------------------- MODULE SafeExecutionProperties -----------------------
(***************************************************************************)
(* What the local safety controls promise.                                 *)
(***************************************************************************)
EXTENDS SafeExecution

\* Every variable holds a value of its kind, and no part of a result is
\* invented on its way.
TypeOK ==
    /\ job \in Jobs
    /\ pc \in {"called", "joining", "checking", "terminating", "reaping", "getting",
               "returned", "recorded"}
    /\ child \in Alive \cup {"none", "exited", "killed"}
    /\ unsent \in 0 .. MaxSize /\ pipe \in 0 .. PipeSize /\ read \in 0 .. MaxSize
    /\ expired \in BOOLEAN
    /\ status \in {"none", "completed", "failed", "cancelled", "timed_out"}
    /\ state \in {"running", "succeeded", "failed"} /\ units \in {0, 1}
    /\ kills \in 0 .. MaxKills

-----------------------------------------------------------------------------
\* "A declared timeout runs in an isolated local process and stops it on
\* expiry; a requested cancellation stops before execution." Once the call
\* has returned no process works for it any more, a cancelled job never had
\* one, and no job without a complete result of its own earns anything.
Over == pc \in {"returned", "recorded"}
StoppedIsStopped ==
    /\ Over => child \notin Alive
    /\ job.cancel => child = "none" /\ units = 0
    /\ Over /\ status # "completed" => units = 0 /\ state # "succeeded"
    /\ units > 0 => /\ job.outcome = "valid"
                    /\ read = job.size
                    /\ job.timeout # "none" => child = "exited" \/ kills > 0

-----------------------------------------------------------------------------
\* The call returns and the job gets its outcome, whatever the work does and
\* whenever the deadline falls, unless something else killed the process
\* after it had written a part of its result and before it had written all.
Torn == kills > 0 /\ pipe + read \in 1 .. job.size - 1
EveryCallRecorded == <>(pc = "recorded" \/ Torn)

-----------------------------------------------------------------------------
\* Only work that is not done when its time is up is timed out: if the
\* deadline leaves the process all the time it can use, a finished result is
\* the result of the job.
FinishedIsNotTimedOut ==
    status = "timed_out" /\ job.timeout = "some" => pipe = 0
=============================================================================
