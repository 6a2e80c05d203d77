---------------------------- MODULE ContributionLog ----------------------------
(***************************************************************************)
(* What the contribution journal promises (contribution-record-schema.md,  *)
(* "Recorded contributions"): an append-only log of contributions with     *)
(* accepted evidence, at most one for each work manifest, which may be     *)
(* ruined by a failing write and is then refused for good.                 *)
(***************************************************************************)
EXTENDS Naturals, Sequences

CONSTANTS Contributions, Manifest, Verdict

VARIABLES log,       \* the contributions that can be read, in order
          readable,  \* the journal is accepted by its readers
          faults     \* writes that failed and processes that died

vars == <<log, readable, faults>>

Init == log = <<>> /\ readable = TRUE /\ faults = 0

Record(c) ==
    /\ readable
    /\ Verdict[c] = "accepted"
    /\ \A i \in DOMAIN log : Manifest[log[i]] # Manifest[c]
    /\ log' = Append(log, c)
    /\ UNCHANGED readable

Ruin == faults' > 0 /\ log' = <<>> /\ readable' = FALSE

Keep == UNCHANGED <<log, readable>>

Next == /\ faults' \in {faults, faults + 1}
        /\ (\E c \in Contributions : Record(c)) \/ Ruin \/ Keep

Spec == Init /\ [][Next]_vars
=============================================================================
