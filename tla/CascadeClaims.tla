--------------------------- MODULE CascadeClaims ----------------------------
(***************************************************************************)
(* What the repository's documents say of the cascade and the code does    *)
(* not do.  TLC refutes it with a run of Containment.                      *)
(***************************************************************************)
EXTENDS MCContainment

TwoTimes == 1..2

\* Keeps the run of CascadeCompletes to histories without reviewers.
NoReviews == \A b \in Belief : Range(quarantine[b]) \subseteq {"held"}

(***************************************************************************)
(* README.md:978: cascade completeness is a "structural guarantee".  A     *)
(* superseded descendant cannot be taken back to pending: the database     *)
(* refuses the UPDATE, the error ends the cascade, and the descendants     *)
(* that were still to come stay retrievable.                               *)
(***************************************************************************)
CascadeCompletes ==
    phase = "aborted" => suspects \intersect TrustedCurrent = {}
=============================================================================
