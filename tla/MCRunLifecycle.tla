--------------------------- MODULE MCRunLifecycle ---------------------------
(* RunLifecycle on instances small enough for TLC. *)
EXTENDS RunLifecycle, TLC

CONSTANTS c1, c2

TwoCriteria == {c1, c2}
OwnersCriterion == {c2}

\* Two criteria without an owner-judged one play the same part.
CriteriaSymmetry == Permutations(TwoCriteria)
=============================================================================
