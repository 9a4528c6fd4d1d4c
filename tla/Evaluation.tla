----------------------------- MODULE Evaluation -----------------------------
(***************************************************************************)
(* How a run's criteria get their verdicts: evaluate runs the contract's   *)
(* checks, takes the evidence of the current revision and contract, has an *)
(* evaluator session answer, validates the answer, lets the checks settle  *)
(* the criteria that are theirs, and applies what is left.                 *)
(*                                                                         *)
(* `longrun evaluate` and `longrun contract rebase` do not take the run's  *)
(* lease: they interleave with the controller's own evaluation.  RunStore  *)
(* models the transactions, which are single steps here; RunLifecycle      *)
(* models the round loop, of which only what surrounds evaluate is here.   *)
(***************************************************************************)
EXTENDS Verdicts, Naturals, FiniteSets

CONSTANTS
    Controller,         \* the process that runs the round loop
    Owners,             \* processes that run `longrun evaluate`
    DeterministicOnly,  \* criteria whose evaluator_policy is "deterministic_only"
    Items,              \* what a record can be evidence of
    CheckItem,          \* the evidence that each checked criterion's checks leave
    MaxRevision,        \* bound: revisions of the workspace
    MaxVersion,         \* bound: versions of the contract
    MaxRecords,         \* bound: records in the ledger
    MaxEvaluations      \* bound: evaluations that began when fewer had ended

Evaluators == {Controller} \cup Owners

\* Criteria that have deterministic checks.
Checked == DOMAIN CheckItem

ASSUME EvaluationAssumption ==
    /\ Controller \notin Owners
    /\ Items \subseteq [criteria : SUBSET Criteria, required : SUBSET Criteria, prior : BOOLEAN]
    /\ CheckItem \in [Checked -> Items]
    /\ DeterministicOnly \subseteq Checked \ OwnerJudged

VARIABLES
    status,        \* state["status"]
    version,       \* the contract that state["contract_hash"] is the hash of
    contractFile,  \* the contract in contract.json
    criteria,      \* criteria[c].status
    lastVerdict,   \* state["last_verdict"] with the contract text that was judged
    lastInputs,    \* loop.last_eval_input_hash
    evaluations,   \* counters.evaluations
    revision,      \* the content revision of the workspace
    ledger,        \* the evidence records
    pc,            \* where each evaluation is
    work           \* the locals of each evaluation

contract == <<version, contractFile>>
judgement == <<criteria, lastVerdict, lastInputs, evaluations>>
runVars == <<status, version, contractFile, criteria, lastVerdict, lastInputs, evaluations>>
vars == <<status, version, contractFile, criteria, lastVerdict, lastInputs, evaluations,
          revision, ledger,
          pc, work>>

Evidence == [item : Items, revision : Nat, version : Nat]
Current(item) == [item |-> item, revision |-> revision, version |-> version]

\* Mutant: the manifest keeps the evidence of earlier revisions.
Manifest_AnyRevision == {e \in ledger : e.version = version}

\* Mutant: the manifest keeps the evidence under earlier contracts.
Manifest_AnyContract == {e \in ledger : e.revision = revision}

\* evidence_manifest: what is bound to the current revision and the current contract.
Manifest == {e \in ledger : e.revision = revision /\ e.version = version}

\* A judgement as validate_verdict normalises it.
Judgements == [crit : [Criteria -> CritVerdicts], overall : Overall,
               cites : [Criteria -> SUBSET Evidence]]

Unjudged == [crit |-> InitialCriteria, overall |-> "NEEDS_REWORK", cites |-> [c \in Criteria |-> {}]]

\* record_evidence rejects evidence for a run in one of these states.
ClosedStates == {"PASSED", "STOPPED", "INTERRUPTED", "RESET_RECOMMENDED", "FAILED"}

\* The results whose bytes the controller has hashed; a check's own record has none.
Results(manifest) == {e.item : e \in manifest} \ {CheckItem[c] : c \in Checked}

\* manifest_hash: the results, not who reported them; the checks, the contract, the revision.
Inputs == [version : Nat, revision : Nat, checks : [Checked -> BOOLEAN], items : SUBSET Items]
NoInputs == [version |-> 0, revision |-> 0, checks |-> [c \in Checked |-> FALSE], items |-> {}]

Work == [version : Nat, text : Nat, last : Inputs, inputs : Inputs, manifest : SUBSET Evidence,
         attempt : 0..2, refused : SUBSET Criteria, judged : Judgements]
NoWork == [version |-> 0, text |-> 0, last |-> NoInputs, inputs |-> NoInputs, manifest |-> {},
           attempt |-> 0, refused |-> {}, judged |-> Unjudged]

\* A run that has been frozen under version 1 of its contract.
Init ==
    /\ status = "RUNNING"
    /\ version = 1 /\ contractFile = 1
    /\ criteria = InitialCriteria
    /\ lastVerdict = [version |-> 0, text |-> 0, inputs |-> NoInputs, judged |-> Unjudged]
    /\ lastInputs = NoInputs /\ evaluations = 0
    /\ revision = 1
    /\ ledger = {}
    /\ pc = [p \in Evaluators |-> "idle"]
    /\ work = [p \in Evaluators |-> NoWork]

At(p, point) == pc[p] = point
Goto(p, point) == pc' = [pc EXCEPT ![p] = point]

\* The call returns and its locals are gone.
Return(p) ==
    /\ Goto(p, "idle")
    /\ work' = [work EXCEPT ![p] = NoWork]

-----------------------------------------------------------------------------
(* The head of evaluate: the state, the contract, the checks, the manifest. *)

Begin(p) ==
    /\ At(p, "idle")
    /\ status \in {"FROZEN"} \cup ExecutingStates
    /\ evaluations < MaxEvaluations
    /\ work' = [work EXCEPT ![p] =
                [@ EXCEPT !.version = version, !.text = contractFile, !.last = lastInputs]]
    /\ Goto(p, "checking")
    /\ UNCHANGED <<runVars, revision, ledger>>

\* The checks answer, leave their evidence, and the inputs are what they and the ledger say.
RunChecks(p) ==
    /\ At(p, "checking")
    /\ UNCHANGED <<runVars, revision>>
    /\ ledger' = IF status \in ClosedStates THEN ledger
                 ELSE ledger \cup {Current(CheckItem[c]) : c \in Checked}
    /\ \E checks \in [Checked -> BOOLEAN] :
          work' = [work EXCEPT ![p] =
                     [@ EXCEPT !.manifest = Manifest',
                               !.inputs = [version |-> work[p].version, revision |-> revision,
                                           checks |-> checks, items |-> Results(Manifest')]]]
    /\ Goto(p, "checked")

SkipUnchanged(p) ==
    /\ At(p, "checked")
    /\ work[p].inputs = work[p].last
    /\ Return(p)
    /\ UNCHANGED <<runVars, revision, ledger>>

\* `longrun evaluate --force` asks whatever the inputs are.
StartEvaluation(p) ==
    /\ At(p, "checked")
    /\ work[p].inputs # work[p].last \/ p \in Owners
    /\ status' = "EVALUATING"
    /\ work' = [work EXCEPT ![p].attempt = 1]
    /\ Goto(p, "asked")
    /\ UNCHANGED <<contract, judgement, revision, ledger>>

-----------------------------------------------------------------------------
(* The evaluator session's answer. *)

\* What validate_verdict asks of the evidence that a PASS of c cites.
Supports(cites, c, manifest) ==
    /\ cites # {}
    /\ cites \subseteq manifest
    /\ \A e \in cites : c \in e.item.criteria
    /\ \E e \in cites : c \in e.item.required
    /\ \E e \in cites : ~e.item.prior

\* validate_verdict, for an object of the right form.
Valid(j, manifest) ==
    /\ \A c \in Criteria : j.cites[c] \subseteq manifest
    /\ \A c \in Criteria :
          j.crit[c] = "PASS" => Supports(j.cites[c], c, manifest) /\ c \notin OwnerJudged
    /\ j.overall = "PASS" => AllPass(j.crit)

\* The overall that agrees with the criteria.
Agreed(overall, crit) ==
    CASE AllPass(crit) -> "PASS"
      [] ~AllPass(crit) /\ overall = "PASS" -> "NEEDS_REWORK"
      [] ~AllPass(crit) /\ overall # "PASS" -> overall

\* The criteria of a judgement decide its overall; only a PASS keeps its evidence.
Normalised(j) ==
    [crit |-> j.crit,
     overall |-> Agreed(j.overall, j.crit),
     cites |-> [c \in Criteria |-> IF j.crit[c] = "PASS" THEN j.cites[c] ELSE {}]]

\* Mutant: a verdict that no vocabulary has.
AfterChecks_Failed(crit, checks) ==
    [c \in Criteria |->
        IF c \in DeterministicOnly THEN IF checks[c] THEN "PASS" ELSE "FAILED" ELSE crit[c]]

\* The verdicts once the checks have settled the deterministic_only criteria.
AfterChecks(crit, checks) ==
    [c \in Criteria |->
        IF c \in DeterministicOnly THEN IF checks[c] THEN "PASS" ELSE "FAIL" ELSE crit[c]]

\* Mutant: the checks settle their criteria, and the overall stays what it was.
Settled_OverallKept(j, checks) ==
    [crit |-> AfterChecks(j.crit, checks), overall |-> j.overall, cites |-> j.cites]

\* The override of evaluate: what the checks settle, and the overall that follows.
Settled(j, checks) ==
    [crit |-> AfterChecks(j.crit, checks),
     overall |-> Agreed(j.overall, AfterChecks(j.crit, checks)),
     cites |-> j.cites]

\* The criteria of which an answer says something else than PASS.
Refused(crit) == {c \in Criteria : crit[c] # "PASS"}

\* The retry says PASS of a criterion that the first answer refused.
Upgraded(j, refused) == \E c \in refused : j.crit[c] = "PASS"

\* The first rejection buys a second answer, the second one ends the evaluation.
AskAgain(p, refused) ==
    IF work[p].attempt = 1
    THEN /\ work' = [work EXCEPT ![p].attempt = 2, ![p].refused = refused]
         /\ UNCHANGED pc
    ELSE /\ Goto(p, "rejected")
         /\ UNCHANGED work

\* No JSON object, or one that breaks a rule about its form: a key, the run, the hash, the
\* revision, a criterion that is unknown, missing or twice there, a word, a reason.  It may
\* still have said of some criteria that they do not pass.
Malformed(p) ==
    /\ At(p, "asked")
    /\ \E refused \in SUBSET Criteria : AskAgain(p, refused)
    /\ UNCHANGED <<runVars, revision, ledger>>

\* Objects of the right form, which may cite whatever the session can see in the ledger.
WellFormed == [crit : [Criteria -> CritVerdicts], overall : Overall,
               cites : [Criteria -> SUBSET ledger]]

Unfounded(p) ==
    /\ At(p, "asked")
    /\ \E j \in WellFormed :
          /\ ~Valid(j, work[p].manifest) \/ (work[p].attempt = 2 /\ Upgraded(j, work[p].refused))
          /\ AskAgain(p, Refused(j.crit))
    /\ UNCHANGED <<runVars, revision, ledger>>

Accepted(p) ==
    /\ At(p, "asked")
    /\ \E j \in WellFormed :
          /\ Valid(j, work[p].manifest)
          /\ work[p].attempt = 2 => ~Upgraded(j, work[p].refused)
          /\ work' = [work EXCEPT ![p].judged = Settled(Normalised(j), work[p].inputs.checks)]
    /\ Goto(p, "accepted")
    /\ UNCHANGED <<runVars, revision, ledger>>

\* The session is interrupted, refused or fails for good, or the process dies: the
\* run is left as the last step left it.
Abandoned(p) ==
    /\ ~At(p, "idle")
    /\ Return(p)
    /\ UNCHANGED <<runVars, revision, ledger>>

-----------------------------------------------------------------------------
(* The end of evaluate. *)

RejectVerdict(p) ==
    /\ At(p, "rejected")
    /\ status' = "RUNNING"
    /\ lastInputs' = work[p].inputs
    /\ evaluations' = evaluations + 1
    /\ Return(p)
    /\ UNCHANGED <<contract, criteria, lastVerdict, revision, ledger>>

\* apply_transitions; the round loop finishes a run on the PASS that evaluate returned to it.
ApplyVerdict(p) ==
    /\ At(p, "accepted")
    /\ criteria' = work[p].judged.crit
    /\ lastVerdict' = [version |-> work[p].version, text |-> work[p].text,
                       inputs |-> work[p].inputs, judged |-> work[p].judged]
    /\ lastInputs' = work[p].inputs
    /\ evaluations' = evaluations + 1
    /\ status' = "RUNNING"
    /\ IF p = Controller /\ work[p].judged.overall = "PASS"
       THEN Goto(p, "won") /\ UNCHANGED work
       ELSE Return(p)
    /\ UNCHANGED <<contract, revision, ledger>>

FinishPassed ==
    /\ At(Controller, "won")
    /\ status' = "PASSED"
    /\ Return(Controller)
    /\ UNCHANGED <<contract, judgement, revision, ledger>>

-----------------------------------------------------------------------------
(* What goes on around an evaluation. *)

\* The round loop ends for another reason, or `longrun stop` ends a run without a controller.
FinishOtherwise ==
    /\ At(Controller, "idle")
    /\ status \notin TerminalStates
    /\ status' = "STOPPED"
    /\ UNCHANGED <<contract, judgement, revision, ledger, pc, work>>

SubmitEvidence ==
    /\ status \notin ClosedStates
    /\ Cardinality(ledger) < MaxRecords
    /\ \E item \in Items : ledger' = ledger \cup {Current(item)}
    /\ UNCHANGED <<runVars, revision, pc, work>>

\* The builder's session edits, or reverts what it edited.
Edit ==
    /\ At(Controller, "idle")
    /\ revision' \in 1..MaxRevision
    /\ UNCHANGED <<runVars, ledger, pc, work>>

\* `longrun contract rebase` writes the file, then the state.
RebaseFile ==
    /\ contractFile = version
    /\ version < MaxVersion
    /\ contractFile' = version + 1
    /\ UNCHANGED <<status, version, judgement, revision, ledger, pc, work>>

RebaseState ==
    /\ contractFile # version
    /\ version' = contractFile
    /\ criteria' = InitialCriteria
    /\ lastInputs' = NoInputs
    /\ UNCHANGED <<status, contractFile, lastVerdict, evaluations, revision, ledger, pc, work>>

-----------------------------------------------------------------------------
Evaluate(p) ==
    Begin(p) \/ RunChecks(p) \/ SkipUnchanged(p) \/ StartEvaluation(p) \/ Malformed(p)
    \/ Unfounded(p) \/ Accepted(p) \/ Abandoned(p) \/ RejectVerdict(p) \/ ApplyVerdict(p)
Rebase == RebaseFile \/ RebaseState

Next ==
    \/ \E p \in Evaluators : Evaluate(p)
    \/ FinishPassed \/ FinishOtherwise \/ SubmitEvidence \/ Edit \/ Rebase

Spec == Init /\ [][Next]_vars

-----------------------------------------------------------------------------
(* Properties *)

Points == {"idle", "checking", "checked", "asked", "rejected", "accepted", "won"}

\* Every variable has a value of its type.
TypeOK ==
    /\ status \in ActiveStates \cup TerminalStates
    /\ version \in Nat /\ contractFile \in Nat /\ revision \in Nat
    /\ evaluations \in Nat
    /\ criteria \in [Criteria -> CritVerdicts]
    /\ lastVerdict \in [version : Nat, text : Nat, inputs : Inputs, judged : Judgements]
    /\ lastInputs \in Inputs
    /\ ledger \subseteq Evidence
    /\ pc \in [Evaluators -> Points]
    /\ work \in [Evaluators -> Work]

\* What evaluate applies is a verdict as the round loop (RunLifecycle) takes it for granted:
\* whatever the evaluator answered, whatever the checks settled against it, after any retry.
VerdictsAreAccepted ==
    [crit |-> lastVerdict.judged.crit, overall |-> lastVerdict.judged.overall] \in AcceptedVerdicts

\* e is on record, and of the revision that v judged and of version n of the contract.
Recorded(e, v, n) ==
    /\ e \in ledger
    /\ e.revision = v.inputs.revision
    /\ e.version = n

\* The evidence that v cites is what README's "criterion-level truth" asks of a PASS of c: on
\* record, bound to c, of a required kind, not all of it older than the run.
Evidenced(v, n, c) ==
    LET cites == v.judged.cites[c]
    IN  /\ \A e \in cites : Recorded(e, v, n) /\ c \in e.item.criteria
        /\ \E e \in cites : c \in e.item.required
        /\ \E e \in cites : ~e.item.prior

\* Every PASS of a verdict rests on such evidence, all of it under one contract that was in force
\* since the evaluation began, or, for a deterministic_only criterion, on the checks that the
\* same evaluation ran.
Founded(v) ==
    \E n \in v.version..version : \A c \in Criteria :
        v.judged.crit[c] = "PASS" =>
            IF c \in DeterministicOnly THEN v.inputs.checks[c] ELSE Evidenced(v, n, c)

\* The verdict on disk is founded - through edits, new evidence and rebases since.
PassIsEvidenced == Founded(lastVerdict)

\* The round loop makes a run PASSED only on a PASS of every criterion that one evaluation of its
\* own reached and that is founded when it does - whoever else evaluates, edits or rebases
\* meanwhile (README: longrun judges "explicit criteria from revision-bound evidence").
PassedOnFoundedVerdict ==
    [][status # "PASSED" /\ status' = "PASSED" =>
          /\ Founded(work[Controller])
          /\ work[Controller].judged.overall = "PASS"
          /\ AllPass(work[Controller].judged.crit)]_vars

-----------------------------------------------------------------------------
(* What the repository says of evaluation and the code does not keep. *)

\* A criterion that is PASS on disk was judged under the contract that is in force, and the
\* text that was judged is that contract's (README: PASS requires evidence "under the current
\* contract hash").  A rebase during an evaluation (cli.py:394) is followed by the old verdict.
StandingIsCurrent ==
    SomePass(criteria) => lastVerdict.version = version /\ lastVerdict.text = version

\* A run becomes PASSED only while every criterion stands at PASS (finish: "all criteria PASS
\* by independent evaluation").  The owner's evaluation, or a rebase, may come between the
\* controller's verdict and finish.
PassedOnStandingVerdict == [][status # "PASSED" /\ status' = "PASSED" => AllPass(criteria)]_vars

\* No evaluation takes a run out of a terminal state (README: "after a terminal state use
\* longrun reset for a fresh child run").  evaluate looks at the status once, minutes before
\* it writes it.
TerminalIsFinal == [][(status \in TerminalStates) => status' = status]_vars

-----------------------------------------------------------------------------
(* Strengthenings that are inductive: what the proofs use. *)

Verdict(j) == [crit |-> j.crit, overall |-> j.overall]

\* Where an evaluation holds the contract it began with, where it holds the manifest, and where
\* it holds a judgement.
Begun == {"checking", "checked", "asked", "rejected", "accepted", "won"}
Informed == Begun \ {"checking"}
Decided == {"accepted", "won"}

\* Only a judgement that the round loop may rely on waits to be applied or to end the run.
AcceptanceInv ==
    /\ \A p \in Evaluators : pc[p] \in Decided => Verdict(work[p].judged) \in AcceptedVerdicts
    /\ \A p \in Evaluators : At(p, "won") => work[p].judged.overall = "PASS"
    /\ Verdict(lastVerdict.judged) \in AcceptedVerdicts

\* The manifest is evidence of what is being judged, and a judgement that waits to be applied or
\* to end the run rests on it.
EvidenceInv ==
    /\ \A p \in Evaluators : pc[p] \in Begun => work[p].version <= version
    /\ \A p \in Evaluators : pc[p] \in Informed =>
          \E n \in work[p].version..version : \A e \in work[p].manifest : Recorded(e, work[p], n)
    /\ \A p \in Evaluators : pc[p] \in Decided => Founded(work[p])
    /\ PassIsEvidenced
    /\ version <= contractFile
=============================================================================
