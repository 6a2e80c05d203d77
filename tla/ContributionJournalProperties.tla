--------------------- MODULE ContributionJournalProperties ---------------------
(***************************************************************************)
(* What ContributionJournal is checked for, and the promise it implements. *)
(***************************************************************************)
EXTENDS ContributionJournal

(* Files, lock and calls keep their shape, and a call past validation has  *)
(* a contribution with accepted evidence.                                  *)
Accepted == {"lock", "load", "append", "auditRecorded", "auditKnown"}
TypeOK ==
    /\ lines \in Seq(Entries \cup {Torn})
    /\ ended \in BOOLEAN
    /\ lock \in Processes \cup {None}
    /\ audit \subseteq AuditLines
    /\ call \in [Processes -> Calls]
    /\ \A p \in Processes : call[p].pc # "idle" => call[p].contribution \in Contributions
    /\ \A p \in Processes :
          call[p].pc \in Accepted => Verdict[call[p].contribution] = "accepted"
    /\ returned \subseteq Manifests
    /\ attempts \in 0..MaxAttempts /\ faults \in 0..MaxFaults

(* The journal is the promised log: contributions with accepted evidence,  *)
(* one for each manifest, appended and never removed, and refused for good *)
(* once a write has failed.                                                *)
Promise == INSTANCE ContributionLog WITH
    log      <- IF Loads THEN Chain(Len(lines)) ELSE <<>>,
    readable <- Loads
KeepsPromise == Promise!Spec

(* Whatever fails and however calls overlap, entries stay linked in the    *)
(* order of their lines and only the last line can be damaged.             *)
DamageIsLast ==
    \A i \in DOMAIN lines :
        IF lines[i] = Torn THEN i = Len(lines)
                           ELSE lines[i].prior = Chain(i - 1)

(* A journal that loads holds every entry a call has returned, and without *)
(* a failure it loads.                                                     *)
ReturnedIsRecorded ==
    /\ Loads => \A m \in returned : Found(m)
    /\ faults = 0 => Loads

(* What was returned stays: a failure damages only what it was writing.    *)
EntriesAreKept == DamageIsLast /\ ReturnedIsRecorded

(* At most one attempt is audited as the one that recorded a manifest, and *)
(* its entry is in the journal as long as that loads.                      *)
RecordedAuditedOnce ==
    \A a, b \in audit :
        a.outcome = "recorded" /\ b.outcome = "recorded" =>
            /\ Manifest[a.contribution] = Manifest[b.contribution] => a = b
            /\ Loads => Found(Manifest[a.contribution])

(* Without a failure each attempt that has ended left one audit line.      *)
EveryAttemptAudited ==
    faults = 0 =>
        \A n \in 1..attempts :
            \/ \E p \in Processes : call[p].attempt = n
            \/ \E a \in audit : \A b \in audit : b.attempt = n <=> b = a

(* A call ends, the lock notwithstanding.                                  *)
CallsEnd == \A p \in Processes : call[p].pc # "idle" ~> call[p].pc = "idle"
=============================================================================
