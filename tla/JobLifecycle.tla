---------------------------- MODULE JobLifecycle ----------------------------
(***************************************************************************)
(* What the local job service promises about one job: the states of        *)
(* LOCAL_JOB_STATES and the transitions of LOCAL_JOB_STATE_TRANSITIONS,    *)
(* one execution attempt, by the worker that took the job, and credit for  *)
(* that worker at the moment the job succeeds and at no other.  How the    *)
(* promise is kept, with files written one at a time, is LocalJobs.        *)
(***************************************************************************)
EXTENDS Naturals

CONSTANTS Jobs, Workers, None

VARIABLES state,     \* the job's lifecycle state, "absent" before submission
          worker,    \* the worker that took the job
          attempts,  \* how often the job's work has been run
          credit     \* the worker the summary credits for the job

vars == <<state, worker, attempts, credit>>

States == {"created", "queued", "running", "succeeded", "failed", "canceled"}

Terminal == {"succeeded", "failed", "canceled"}

Init ==
    /\ state = [j \in Jobs |-> "absent"]
    /\ worker = [j \in Jobs |-> None]
    /\ attempts = [j \in Jobs |-> 0]
    /\ credit = [j \in Jobs |-> None]

Move(j, from, to) ==
    /\ state[j] = from
    /\ state' = [state EXCEPT ![j] = to]

Create(j) == Move(j, "absent", "created") /\ UNCHANGED <<worker, attempts, credit>>

Queue(j) == Move(j, "created", "queued") /\ UNCHANGED <<worker, attempts, credit>>

Start(j, w) ==
    /\ Move(j, "queued", "running")
    /\ worker' = [worker EXCEPT ![j] = w]
    /\ UNCHANGED <<attempts, credit>>

(* The single attempt: a job whose worker vanished is not run again. *)
Attempt(j) ==
    /\ state[j] = "running"
    /\ attempts[j] = 0
    /\ attempts' = [attempts EXCEPT ![j] = 1]
    /\ UNCHANGED <<state, worker, credit>>

Succeed(j) ==
    /\ attempts[j] = 1
    /\ Move(j, "running", "succeeded")
    /\ credit' = [credit EXCEPT ![j] = worker[j]]
    /\ UNCHANGED <<worker, attempts>>

Fail(j) ==
    /\ attempts[j] = 1
    /\ Move(j, "running", "failed")
    /\ UNCHANGED <<worker, attempts, credit>>

Cancel(j) ==
    /\ \E from \in States \ Terminal : Move(j, from, "canceled")
    /\ UNCHANGED <<worker, attempts, credit>>

Next ==
    \E j \in Jobs :
        \/ Create(j) \/ Queue(j) \/ Attempt(j)
        \/ Succeed(j) \/ Fail(j) \/ Cancel(j)
        \/ \E w \in Workers : Start(j, w)

Spec == Init /\ [][Next]_vars
=============================================================================
