----------------------------- MODULE AutoPlan -----------------------------
(***************************************************************************)
(* How `longrun go` turns a goal into a contract (auto_plan): up to three  *)
(* drafts, each written by a planner or a repairer session, checked, and   *)
(* read by an independent reviewer session before set_contract makes it    *)
(* the run's contract.                                                     *)
(*                                                                         *)
(* A draft is the number of the attempt that wrote it.  What a session     *)
(* answers is abstracted to what the code tells apart.  The variables      *)
(* belong to one call; module Project says what each way out of the call   *)
(* does to the run and to the chain.                                       *)
(***************************************************************************)
EXTENDS Naturals

VARIABLES
    step,        \* where auto_plan is; "out": not called, or returned or raised
    attempt,     \* attempt
    candidate,   \* candidate_spec: a draft, or 0 for None
    review       \* repair_review: the draft that the review rejected, or 0 for None

planVars == <<step, attempt, candidate, review>>

Drafts == 0 .. 3
Steps == {"out", "drafting", "reviewing", "setting"}

PlanTypeOK ==
    /\ step \in Steps
    /\ attempt \in Drafts /\ candidate \in Drafts /\ review \in Drafts

PlanInit == step = "out" /\ attempt = 0 /\ candidate = 0 /\ review = 0

\* The locals of a call that is over.
ForgetPlan == step' = "out" /\ attempt' = 0 /\ candidate' = 0 /\ review' = 0

BeginPlan ==
    /\ step = "out"
    /\ step' = "drafting"
    /\ attempt' = 1
    /\ UNCHANGED <<candidate, review>>

\* The prompt and the role of the session that drafts.
Repairing == candidate # 0 /\ review # 0

LastAttempt == attempt = 3

\* Mutant: the loop has no last round.
Again_Unbounded(spec, rejected) ==
    /\ step' = "drafting"
    /\ attempt' = attempt + 1
    /\ candidate' = spec
    /\ review' = rejected

\* The next round of the loop, with what this one leaves to it.
Again(spec, rejected) ==
    /\ ~LastAttempt
    /\ step' = "drafting"
    /\ attempt' = attempt + 1
    /\ candidate' = spec
    /\ review' = rejected

\* parse_spec and validate_planner_spec accept what the session wrote.
DraftMade ==
    /\ step = "drafting"
    /\ candidate' = attempt
    /\ step' = "reviewing"
    /\ UNCHANGED <<attempt, review>>

\* Points at which a local failure, one that is no rejection by the reviewer, is caught: the
\* draft does not parse or validate, the reviewer cannot be launched or its answer cannot be
\* used (no JSON, an unknown verdict, a verdict that contradicts its lists, an objection
\* without confidence or sources), set_contract refuses the spec.
CatchesLocal == step \in {"drafting", "reviewing", "setting"}

\* Mutant: what the repair would start from is kept.
LocalFailure_Kept == CatchesLocal /\ Again(candidate, review)

LocalFailure == CatchesLocal /\ Again(0, 0)

\* A REJECT with at least one mismatch and no objection.
ReviewRejects ==
    /\ step = "reviewing"
    /\ Again(candidate, candidate)

\* PASS, or an objection that the owner has overridden in the goal.
ReviewAccepts ==
    /\ step = "reviewing"
    /\ step' = "setting"
    /\ review' = 0
    /\ UNCHANGED <<attempt, candidate>>

\* Steps that stay inside the call.
PlanStep ==
    \/ DraftMade \/ LocalFailure \/ ReviewRejects \/ ReviewAccepts

\* Ways out: set_contract has made the run PLANNED; the third attempt fails, locally or by a
\* rejection; the reviewer asks the owner; a session raises. launch_session of the planner
\* stands outside the try, so each of its errors escapes; of the reviewer's only the terminal
\* ones do.
MarkPlanned == step = "setting" /\ ForgetPlan
GiveUpPlan == CatchesLocal /\ LastAttempt /\ ForgetPlan
AskOwner == step = "reviewing" /\ ForgetPlan
SessionRaises(terminal) ==
    /\ step \in (IF terminal THEN {"drafting", "reviewing"} ELSE {"drafting"})
    /\ ForgetPlan

PlanNext ==
    \/ BeginPlan \/ PlanStep
    \/ MarkPlanned \/ GiveUpPlan \/ AskOwner
    \/ \E terminal \in BOOLEAN : SessionRaises(terminal)

PlanSpec == PlanInit /\ [][PlanNext]_planVars

-----------------------------------------------------------------------------
(* A repairer is shown a draft and a review and told to change nothing that the review does
   not name: the two must be of the same draft, over local failures in between (controller.py
   1911-1984). *)
RepairsTheRejected == step = "drafting" /\ Repairing => review = candidate
=============================================================================
