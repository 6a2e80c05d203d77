-------------------------- MODULE ContributionJournal --------------------------
(***************************************************************************)
(* record_validated_contribution (contribution_record.py) called by any    *)
(* number of processes on one journal: evidence is validated, then the     *)
(* journal is loaded, searched and appended to under a file lock, and one  *)
(* line goes to the ledger-update audit, after the lock is released for a  *)
(* new entry and before for a known one.  A write may fail part-way and a  *)
(* process may die before any step; the lock of a dead process is          *)
(* released by the system.  Hashes are taken as collision-free: the hash   *)
(* of an entry stands for the contributions up to it.                      *)
(***************************************************************************)
EXTENDS Naturals, Sequences

CONSTANTS
    Processes,
    Contributions,  \* submitted records with the evidence they refer to
    Manifests,      \* content-addressed work manifests
    Manifest,       \* the manifest of each contribution
    Verdict,        \* what each contribution's evidence amounts to
    Torn,           \* a journal line that is not an entry
    None,
    MaxAttempts,    \* bound: calls made
    MaxFaults       \* bound: failed writes and dead processes

VARIABLES
    lines,     \* the journal's lines
    ended,     \* its last line ends with a newline
    lock,      \* the process holding the journal lock, or None
    audit,     \* lines of the ledger-update audit, by attempt
    call,      \* the call each process is in
    returned,  \* history: manifests for which a call returned an entry
    attempts, faults

journal == <<lines, ended>>
vars == <<journal, lock, audit, call, returned, attempts, faults>>

Verdicts == {"accepted", "rejected", "invalid"}
JournalAssumption ==
    /\ Manifest \in [Contributions -> Manifests]
    /\ Verdict \in [Contributions -> Verdicts]
    /\ None \notin Processes \cup Contributions
    /\ MaxAttempts \in Nat /\ MaxFaults \in Nat
ASSUME JournalAssumption

Entries == [contribution : Contributions, prior : Seq(Contributions)]
ASSUME TornIsNoEntry == Torn \notin Entries

Outcomes == {"recorded", "already_recorded", "rejected", "validation_failed"}
AuditLines == [attempt : Nat, contribution : Contributions, outcome : Outcomes]

Steps == {"idle", "validate", "lock", "load", "append",
          "auditRecorded", "auditKnown", "auditFailure"}
Calls == [pc : Steps, attempt : Nat, contribution : Contributions \cup {None},
          chain : Seq(Contributions), outcome : Outcomes]
NoCall == [pc |-> "idle", attempt |-> 0, contribution |-> None,
           chain |-> <<>>, outcome |-> "recorded"]

Init ==
    /\ lines = <<>> /\ ended = TRUE
    /\ lock = None
    /\ audit = {}
    /\ call = [p \in Processes |-> NoCall]
    /\ returned = {}
    /\ attempts = 0 /\ faults = 0

-----------------------------------------------------------------------------
(* The journal. *)

(* The contributions of the first n lines, up to their hash. *)
Chain(n) == [i \in 1..n |-> lines[i].contribution]

(* Every line is an entry linked to the one before. *)
Loads == \A i \in DOMAIN lines : lines[i] # Torn /\ lines[i].prior = Chain(i - 1)

Found(m) == \E i \in DOMAIN lines : lines[i] # Torn /\ Manifest[lines[i].contribution] = m

(* Text written to the end of the journal begins a line, or runs into an   *)
(* unended one, which then no longer parses.                               *)
Written(line) ==
    IF ended THEN Append(lines, line) ELSE [lines EXCEPT ![Len(lines)] = Torn]

-----------------------------------------------------------------------------
(* One call. *)

Manifested(p) == Manifest[call[p].contribution]

Go(p, to) == call' = [call EXCEPT ![p].pc = to]

Release(p) == lock' = IF lock = p THEN None ELSE lock

(* Mutant: the lock is kept when the call fails. *)
RefuseHolding(p, outcome) ==
    /\ call' = [call EXCEPT ![p].pc = "auditFailure", ![p].outcome = outcome]
    /\ UNCHANGED lock

(* A contribution error: the journal lock is released if the call holds it *)
(* and the failed attempt is still to be audited.                          *)
Refuse(p, outcome) ==
    /\ call' = [call EXCEPT ![p].pc = "auditFailure", ![p].outcome = outcome]
    /\ Release(p)

Log(p, outcome) ==
    audit' = audit \cup {[attempt |-> call[p].attempt,
                          contribution |-> call[p].contribution, outcome |-> outcome]}

End(p) == call' = [call EXCEPT ![p] = NoCall]

Begin(p, c) ==
    /\ call[p].pc = "idle"
    /\ attempts < MaxAttempts
    /\ attempts' = attempts + 1
    /\ call' = [call EXCEPT ![p] = [NoCall EXCEPT !.pc = "validate", !.contribution = c,
                                                  !.attempt = attempts + 1]]
    /\ UNCHANGED <<journal, lock, audit, returned, faults>>

Validate(p) ==
    /\ call[p].pc = "validate"
    /\ CASE Verdict[call[p].contribution] = "accepted" -> Go(p, "lock") /\ UNCHANGED lock
         [] Verdict[call[p].contribution] = "rejected" -> Refuse(p, "rejected")
         [] Verdict[call[p].contribution] = "invalid"  -> Refuse(p, "validation_failed")
    /\ UNCHANGED <<journal, audit, returned, attempts, faults>>

(* Mutant: the lock is shared. *)
AcquireShared(p) ==
    /\ call[p].pc = "lock"
    /\ lock' = p
    /\ Go(p, "load")
    /\ UNCHANGED <<journal, audit, returned, attempts, faults>>

Acquire(p) ==
    /\ call[p].pc = "lock" /\ lock = None
    /\ lock' = p
    /\ Go(p, "load")
    /\ UNCHANGED <<journal, audit, returned, attempts, faults>>

(* Mutant: the journal is appended to without being validated. *)
LoadUnvalidated(p) ==
    /\ call[p].pc = "load"
    /\ \/ Found(Manifested(p)) /\ Go(p, "auditKnown") /\ UNCHANGED lock
       \/ /\ ~Found(Manifested(p))
          /\ call' = [call EXCEPT ![p].pc = "append"]
          /\ UNCHANGED lock
    /\ UNCHANGED <<journal, audit, returned, attempts, faults>>

(* The journal is validated and searched for the manifest; a new entry     *)
(* will link to the last one.                                              *)
Load(p) ==
    /\ call[p].pc = "load"
    /\ \/ ~Loads /\ Refuse(p, "validation_failed")
       \/ Loads /\ Found(Manifested(p)) /\ Go(p, "auditKnown") /\ UNCHANGED lock
       \/ /\ Loads /\ ~Found(Manifested(p))
          /\ call' = [call EXCEPT ![p].pc = "append", ![p].chain = Chain(Len(lines))]
          /\ UNCHANGED lock
    /\ UNCHANGED <<journal, audit, returned, attempts, faults>>

Entry(p) == [contribution |-> call[p].contribution, prior |-> call[p].chain]

AppendEntry(p) ==
    /\ call[p].pc = "append"
    /\ lines' = Written(Entry(p)) /\ ended' = TRUE
    /\ Release(p)
    /\ Go(p, "auditRecorded")
    /\ UNCHANGED <<audit, returned, attempts, faults>>

(* Both answers return an entry once it is audited. *)
Return(p) == End(p) /\ returned' = returned \cup {Manifested(p)}

AuditRecorded(p) ==
    /\ call[p].pc = "auditRecorded"
    /\ Log(p, "recorded")
    /\ Return(p)
    /\ UNCHANGED <<journal, lock, attempts, faults>>

(* Mutant: a known manifest is audited like a new one. *)
AuditKnownAsNew(p) ==
    /\ call[p].pc = "auditKnown"
    /\ Log(p, "recorded")
    /\ Release(p) /\ Return(p)
    /\ UNCHANGED <<journal, attempts, faults>>

AuditKnown(p) ==
    /\ call[p].pc = "auditKnown"
    /\ Log(p, "already_recorded")
    /\ Release(p) /\ Return(p)
    /\ UNCHANGED <<journal, attempts, faults>>

(* Mutant: a refused attempt leaves no audit line. *)
AuditFailureSkipped(p) ==
    /\ call[p].pc = "auditFailure"
    /\ End(p)
    /\ UNCHANGED <<journal, lock, audit, returned, attempts, faults>>

AuditFailure(p) ==
    /\ call[p].pc = "auditFailure"
    /\ Log(p, call[p].outcome)
    /\ End(p)
    /\ UNCHANGED <<journal, lock, returned, attempts, faults>>

-----------------------------------------------------------------------------
(* Failures. *)

Fault == faults < MaxFaults /\ faults' = faults + 1

(* The append stops before the newline, with the whole entry or a part of  *)
(* it in the file; the write raises or the process dies.                   *)
AppendCut(p) ==
    /\ call[p].pc = "append" /\ Fault
    /\ \E text \in {Entry(p), Torn} : lines' = Written(text)
    /\ ended' = FALSE
    /\ \/ Refuse(p, "validation_failed")
       \/ End(p) /\ Release(p)
    /\ UNCHANGED <<audit, returned, attempts>>

(* Evidence, lock or journal cannot be used: a contribution error, but for *)
(* the journal's directory, whose error is neither wrapped nor audited.    *)
OperationFails(p) ==
    /\ call[p].pc \in {"validate", "lock", "load", "append"} /\ Fault
    /\ \/ Refuse(p, "validation_failed")
       \/ call[p].pc = "lock" /\ End(p) /\ UNCHANGED lock
    /\ UNCHANGED <<journal, audit, returned, attempts>>

(* The audit append raises, with the line in the file or not: under the    *)
(* lock the error is taken for an unavailable lock.                        *)
AuditFails(p) ==
    /\ \E outcome \in Outcomes :
          /\ \/ call[p].pc = "auditRecorded" /\ outcome = "recorded"
             \/ call[p].pc = "auditKnown" /\ outcome = "already_recorded"
             \/ call[p].pc = "auditFailure" /\ outcome = call[p].outcome
          /\ Log(p, outcome) \/ UNCHANGED audit
    /\ Fault
    /\ IF call[p].pc = "auditKnown" THEN Refuse(p, "validation_failed")
                                    ELSE End(p) /\ UNCHANGED lock
    /\ UNCHANGED <<journal, returned, attempts>>

(* The process dies before its next step. *)
Die(p) ==
    /\ call[p].pc # "idle" /\ Fault
    /\ End(p) /\ Release(p)
    /\ UNCHANGED <<journal, audit, returned, attempts>>

Finished == /\ attempts = MaxAttempts
            /\ \A p \in Processes : call[p].pc = "idle"
            /\ UNCHANGED vars

Step(p) == \/ Validate(p) \/ Acquire(p) \/ Load(p) \/ AppendEntry(p)
           \/ AuditRecorded(p) \/ AuditKnown(p) \/ AuditFailure(p)
Failure(p) == AppendCut(p) \/ OperationFails(p) \/ AuditFails(p) \/ Die(p)

Next == \/ \E p \in Processes : \/ \E c \in Contributions : Begin(p, c)
                                \/ Step(p) \/ Failure(p)
        \/ Finished

Spec == Init /\ [][Next]_vars
FairSpec == Spec /\ \A p \in Processes : WF_vars(Step(p))
=============================================================================
