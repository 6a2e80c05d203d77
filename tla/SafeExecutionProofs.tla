------------------------- MODULE SafeExecutionProofs -------------------------
(***************************************************************************)
(* Proofs about SafeExecution for results and pipes of any size and any    *)
(* number of kills, whenever the deadline falls.                           *)
(***************************************************************************)
EXTENDS SafeExecutionProperties, TLAPS

USE ExecutionAssumption DEF ExecutionAssumption

(***************************************************************************)
(* The strengthening: parts of a result are never multiplied, what runs    *)
(* follows from where the parent is, and a status other than the initial   *)
(* one is only there once the call has returned.                           *)
(***************************************************************************)

\* No part of a result is read that was not put, and none is put before the
\* work is done.
Conserved ==
    /\ unsent + pipe + read <= job.size
    /\ pc = "called" \/ child = "started" => unsent = 0 /\ pipe = 0 /\ read = 0

\* No process before the call has looked at the controls, none that still
\* runs once it was joined.
ChildFits ==
    /\ pc = "called" => child = "none"
    /\ pc \in {"joining", "checking", "terminating"} => read = 0
    /\ pc \in {"joining", "checking", "terminating", "reaping", "getting"} => ~job.cancel
    /\ pc \in {"getting", "reaping"} \cup {"returned", "recorded"} => child \notin Alive
    /\ job.cancel => child = "none"

\* A result that is read is read of a process that was not terminated.
GottenFits ==
    /\ pc \in {"joining", "checking", "getting"} =>
          /\ child # "none"
          /\ child = "killed" => kills > 0

\* Only a result read to its end is a completed one, and only a completed one
\* of valid work is recorded as a success.
StatusFits ==
    /\ status = "completed" =>
          /\ read = job.size
          /\ ~job.cancel
          /\ Over
          /\ job.timeout # "none" => child = "exited" \/ kills > 0
    /\ ~Over => status = "none"
    /\ pc # "recorded" => units = 0 /\ state = "running"
    /\ units > 0 \/ state = "succeeded" =>
          status = "completed" /\ job.outcome = "valid"

ExecInv == TypeOK /\ Conserved /\ ChildFits /\ GottenFits /\ StatusFits

LEMMA InitExec == Init => ExecInv
<1>. SUFFICES ASSUME Init PROVE ExecInv
  OBVIOUS
<1>1. TypeOK
  <2>1. unsent \in 0 .. MaxSize /\ pipe \in 0 .. PipeSize /\ read \in 0 .. MaxSize
    BY DEF Init
  <2>2. kills \in 0 .. MaxKills
    BY DEF Init
  <2>3. expired \in BOOLEAN
    BY DEF Init
  <2>. QED BY <2>1, <2>2, <2>3, Zenon DEF Init, TypeOK, Alive
<1>2. Conserved
  BY DEF Init, Conserved, Jobs
<1>. QED
  BY <1>1, <1>2 DEF Init, ExecInv, ChildFits, GottenFits, StatusFits, Alive, Over

LEMMA StepExec == ExecInv /\ [Next]_vars => ExecInv'
<1>. SUFFICES ASSUME ExecInv, [Next]_vars PROVE ExecInv'
  OBVIOUS
<1>. USE DEF ExecInv, TypeOK, Conserved, ChildFits, GottenFits, StatusFits, Jobs, Alive, Over
<1>1. CASE Cancel
  BY <1>1 DEF Cancel, Return
<1>2. CASE RunDirectly
  BY <1>2 DEF RunDirectly, Return, OwnStatus
<1>3. CASE Spawn
  BY <1>3 DEF Spawn
<1>4. CASE Work
  BY <1>4 DEF Work
<1>5. CASE Feed
  BY <1>5 DEF Feed
<1>6. CASE Exit
  BY <1>6 DEF Exit
<1>7. CASE Kill
  BY <1>7 DEF Kill
<1>8. CASE Expire
  BY <1>8 DEF Expire
<1>9. CASE Joined
  BY <1>9 DEF Joined
<1>10. CASE CheckAlive
  BY <1>10 DEF CheckAlive
<1>11. CASE Terminate
  BY <1>11 DEF Terminate
<1>12. CASE Reap
  BY <1>12 DEF Reap, Return
<1>13. CASE GetEmpty
  BY <1>13 DEF GetEmpty, Return
<1>14. CASE Get
  BY <1>14 DEF Get, Return, OwnStatus
<1>15. CASE Record
  BY <1>15 DEF Record
<1>16. CASE UNCHANGED vars
  BY <1>16 DEF vars
<1>. QED
  BY <1>1, <1>2, <1>3, <1>4, <1>5, <1>6, <1>7, <1>8, <1>9, <1>10, <1>11, <1>12, <1>13, <1>14,
     <1>15, <1>16 DEF Next, Parent, Child

(* Whatever the work does and whenever the deadline falls, every variable  *)
(* keeps its kind: the parent never reads more than the largest result.    *)
THEOREM ExecutionTypeCorrect == Spec => []TypeOK
<1>1. ExecInv => TypeOK
  BY DEF ExecInv
<1>. QED BY <1>1, InitExec, StepExec, PTL DEF Spec

(* A call that has returned has left no process at work, a cancelled job   *)
(* never had one, and only valid work that was read to its end earns.      *)
THEOREM StoppedStays == Spec => []StoppedIsStopped
<1>1. ExecInv => StoppedIsStopped
  BY DEF ExecInv, TypeOK, ChildFits, GottenFits, StatusFits, StoppedIsStopped, Jobs, Over
<1>. QED BY <1>1, InitExec, StepExec, PTL DEF Spec
=============================================================================
