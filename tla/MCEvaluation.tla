---------------------------- MODULE MCEvaluation ----------------------------
(* Evaluation on instances small enough for TLC. *)
EXTENDS Evaluation

CONSTANTS controller, owner, functional, checked

Everyone == {owner}

TwoCriteria == {functional, checked}
OneCriterion == {functional}
CheckedCriterion == {checked}

\* A fresh artifact for the functional criterion.
Artifact == [criteria |-> {functional}, required |-> {functional}, prior |-> FALSE]

\* A command that was already green at the baseline.
GreenBefore == [criteria |-> {functional}, required |-> {functional}, prior |-> TRUE]

\* What the check of the checked criterion leaves.
CheckRecord == [criteria |-> {checked}, required |-> {checked}, prior |-> FALSE]

CheckedItems == {Artifact, CheckRecord}
UncheckedItems == {Artifact, GreenBefore}
ChecksOfChecked == [c \in {checked} |-> CheckRecord]
NoChecks == [c \in {} |-> CheckRecord]
=============================================================================
