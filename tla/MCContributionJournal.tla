------------------------- MODULE MCContributionJournal -------------------------
(* ContributionJournal for TLC: two records of one manifest, a record of     *)
(* another, and one each with rejected and invalid evidence.                 *)
EXTENDS ContributionJournalProperties, TLC

CONSTANTS p1, p2, first, again, other, refused, broken, m1, m2

ManifestOf == [c \in Contributions |-> IF c \in {first, again} THEN m1 ELSE m2]
VerdictOf == [c \in Contributions |->
    CASE c = refused -> "rejected" [] c = broken -> "invalid" [] OTHER -> "accepted"]
=============================================================================
