------------------------------ MODULE Verdicts ------------------------------
(***************************************************************************)
(* The vocabulary of longrun's judgements: the statuses of a run, the      *)
(* verdicts of a criterion, the verdict objects the controller accepts and *)
(* what applying one does to the criteria of a run.                        *)
(*                                                                         *)
(* A criterion's evidence, reason and history are left out: the control    *)
(* code of a run reads only a criterion's status.                          *)
(***************************************************************************)
CONSTANTS
    Criteria,      \* the ids of the criteria of the frozen contract
    OwnerJudged    \* those whose evaluator_policy is "owner_judgment"

ASSUME CriteriaAssumption ==
    /\ Criteria # {}
    /\ OwnerJudged \subseteq Criteria

CritVerdicts == {"PASS", "FAIL", "INSUFFICIENT_EVIDENCE", "OWNER_JUDGMENT_REQUIRED"}
Overall == {"PASS", "NEEDS_REWORK", "RESET_RECOMMENDED", "OWNER_JUDGMENT_REQUIRED"}

TerminalStates ==
    {"PASSED", "PARTIAL_PASS", "RESET_RECOMMENDED", "OWNER_JUDGMENT_REQUIRED", "BLOCKED",
     "STOPPED", "INTERRUPTED", "BUDGET_EXHAUSTED", "FAILED"}

\* ACTIVE_STATES without CREATED: a run enters the controller loop with a contract.
ActiveStates == {"PLANNED", "FROZEN", "RUNNING", "EVALUATING", "REPAIRING", "RESTARTING"}

\* The states in which the controller judges, or lets a session edit, the workspace.
ExecutingStates == {"RUNNING", "EVALUATING", "REPAIRING", "RESTARTING"}

\* Every criterion starts FAIL.
InitialCriteria == [c \in Criteria |-> "FAIL"]

AllPass(crit) == \A c \in Criteria : crit[c] = "PASS"
SomePass(crit) == \E c \in Criteria : crit[c] = "PASS"

-----------------------------------------------------------------------------
\* Mutant: an overall PASS is taken at its word.
AcceptedVerdicts_OverallTrusted ==
    {v \in [crit : [Criteria -> CritVerdicts], overall : Overall] :
        /\ AllPass(v.crit) => v.overall = "PASS"
        /\ \A c \in OwnerJudged : v.crit[c] # "PASS"}

(***************************************************************************)
(* What is left of an evaluator's answer once validate_verdict and the     *)
(* deterministic_only override have accepted it: one verdict per           *)
(* criterion, an overall that is PASS exactly when all of them are, and no *)
(* PASS from the evaluator on a criterion that belongs to the owner.       *)
(***************************************************************************)
AcceptedVerdicts ==
    {v \in [crit : [Criteria -> CritVerdicts], overall : Overall] :
        /\ (v.overall = "PASS") <=> AllPass(v.crit)
        /\ \A c \in OwnerJudged : v.crit[c] # "PASS"}

\* delta["passed"] or delta["regressed"] is not empty: a criterion is PASS in the
\* verdict (whether or not it was PASS before), or was PASS and no longer is.
Moved(before, v) == \E c \in Criteria : v.crit[c] = "PASS" \/ before[c] = "PASS"

\* The verdict leaves something that only the owner can judge.
NeedsOwner(v) ==
    \/ v.overall = "OWNER_JUDGMENT_REQUIRED"
    \/ \E c \in Criteria : v.crit[c] = "OWNER_JUDGMENT_REQUIRED"

\* Mutant: a status that no terminal set knows.
BoundedStatus_Unknown(crit) == IF SomePass(crit) THEN "PARTIAL" ELSE "RESET_RECOMMENDED"

\* The terminal status of a run that hit a bound.
BoundedStatus(crit) ==
    IF SomePass(crit) /\ ~AllPass(crit) THEN "PARTIAL_PASS" ELSE "RESET_RECOMMENDED"
=============================================================================
