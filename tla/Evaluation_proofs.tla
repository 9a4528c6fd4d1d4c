-------------------------- MODULE Evaluation_proofs --------------------------
(***************************************************************************)
(* Proofs about Evaluation, for every set of criteria, evidence, owners    *)
(* and every bound.                                                        *)
(***************************************************************************)
EXTENDS Evaluation, TLAPS

\* A verdict is put together from accepted parts: every criterion has one, the owner's are not
\* PASS, and the overall agrees.
LEMMA AgreedOverall ==
    ASSUME NEW overall \in Overall, NEW crit \in [Criteria -> CritVerdicts]
    PROVE  /\ Agreed(overall, crit) \in Overall
           /\ Agreed(overall, crit) = "PASS" <=> AllPass(crit)
BY DEF Agreed, Overall

\* What validate_verdict and the checks leave of an answer is a judgement that the round loop
\* may rely on.
LEMMA SettledIsAccepted ==
    ASSUME NEW j \in WellFormed, NEW manifest, Valid(j, manifest), ledger \subseteq Evidence,
           NEW checks \in [Checked -> BOOLEAN]
    PROVE  /\ Settled(Normalised(j), checks) \in Judgements
           /\ Verdict(Settled(Normalised(j), checks)) \in AcceptedVerdicts
<1> DEFINE n == Normalised(j)
           crit == AfterChecks(n.crit, checks)
           s == Settled(n, checks)
<1>1. /\ j.crit \in [Criteria -> CritVerdicts]
      /\ j.overall \in Overall
      /\ j.cites \in [Criteria -> SUBSET ledger]
      /\ j = [crit |-> j.crit, overall |-> j.overall, cites |-> j.cites]
  BY DEF WellFormed
<1>2. /\ n.crit = j.crit
      /\ n.overall = Agreed(j.overall, j.crit)
      /\ n.cites \in [Criteria -> SUBSET Evidence]
  BY <1>1 DEF Normalised
<1>3. n.overall \in Overall
  BY <1>1, <1>2, AgreedOverall
<1>4. crit \in [Criteria -> CritVerdicts]
  BY <1>1, <1>2 DEF CritVerdicts, AfterChecks
<1>5. \A c \in OwnerJudged : crit[c] # "PASS"
  BY <1>2, EvaluationAssumption, CriteriaAssumption, <1>1 DEF Valid, AfterChecks
<1>6. s = [crit |-> crit, overall |-> Agreed(n.overall, crit), cites |-> n.cites]
  BY <1>2 DEF Settled
<1>7. /\ Agreed(n.overall, crit) \in Overall
      /\ Agreed(n.overall, crit) = "PASS" <=> AllPass(crit)
  BY <1>3, <1>4, AgreedOverall
<1> HIDE DEF crit, n
<1>8. s \in Judgements
  BY <1>2, <1>4, <1>6, <1>7 DEF Judgements
<1>9. Verdict(s) \in AcceptedVerdicts
  BY <1>4, <1>5, <1>6, <1>7 DEF Verdict, AcceptedVerdicts
<1> QED BY <1>8, <1>9 DEF n

-----------------------------------------------------------------------------
(* Types *)

LEMMA InitialValues ==
    /\ Unjudged \in Judgements
    /\ Verdict(Unjudged) \in AcceptedVerdicts
    /\ NoInputs \in Inputs
    /\ NoWork \in Work
<1>1. InitialCriteria \in [Criteria -> CritVerdicts]
  BY DEF InitialCriteria, CritVerdicts
<1>2. Unjudged \in Judgements
  BY <1>1 DEF Unjudged, Judgements, Overall
<1>3. ~AllPass(InitialCriteria) /\ \A c \in OwnerJudged : InitialCriteria[c] # "PASS"
  BY CriteriaAssumption DEF AllPass, InitialCriteria
<1>4. Verdict(Unjudged) \in AcceptedVerdicts
  BY <1>1, <1>3 DEF Verdict, Unjudged, AcceptedVerdicts, Overall
<1>5. NoInputs \in Inputs
  BY DEF NoInputs, Inputs
<1> QED BY <1>2, <1>4, <1>5 DEF NoWork, Work

LEMMA TypeInit == Init => TypeOK
BY InitialValues DEF Init, TypeOK, ActiveStates, InitialCriteria, CritVerdicts, Points

LEMMA AskAgainTyped ==
    ASSUME TypeOK, NEW p \in Evaluators, NEW refused \in SUBSET Criteria, AskAgain(p, refused)
    PROVE  work' \in [Evaluators -> Work] /\ pc' \in [Evaluators -> Points]
BY DEF AskAgain, TypeOK, Work, Goto, Points

LEMMA TypeStep == ASSUME TypeOK, [Next]_vars PROVE TypeOK'
<1>1. ASSUME NEW p \in Evaluators, Begin(p) PROVE TypeOK'
  <2>1. [work[p] EXCEPT !.version = version, !.text = contractFile, !.last = lastInputs] \in Work
    BY DEF TypeOK, Work
  <2>2. work' \in [Evaluators -> Work]
    BY <1>1, <2>1 DEF Begin, TypeOK
  <2> QED BY <1>1, <2>2 DEF Begin, TypeOK, Goto, runVars, Points
<1>2. ASSUME NEW p \in Evaluators, RunChecks(p) PROVE TypeOK'
  <2>1. ledger' \subseteq Evidence
    BY <1>2, EvaluationAssumption DEF RunChecks, TypeOK, Current, Evidence
  <2>2. Results(Manifest') \in SUBSET Items
    BY <2>1 DEF Results, Manifest, Evidence
  <2>3. Manifest' \in SUBSET Evidence
    BY <2>1 DEF Manifest
  <2>4. PICK checks \in [Checked -> BOOLEAN] :
           work' = [work EXCEPT ![p] =
                      [@ EXCEPT !.manifest = Manifest',
                                !.inputs = [version |-> work[p].version, revision |-> revision,
                                            checks |-> checks, items |-> Results(Manifest')]]]
    BY <1>2 DEF RunChecks
  <2>5. [version |-> work[p].version, revision |-> revision,
         checks |-> checks, items |-> Results(Manifest')] \in Inputs
    BY <2>2 DEF TypeOK, Work, Inputs
  <2> DEFINE inputs == [version |-> work[p].version, revision |-> revision,
                        checks |-> checks, items |-> Results(Manifest')]
  <2> HIDE DEF inputs
  <2>6. [work[p] EXCEPT !.manifest = Manifest', !.inputs = inputs] \in Work
    BY <2>3, <2>5 DEF TypeOK, Work, inputs
  <2>7. work' \in [Evaluators -> Work]
    BY <2>4, <2>6 DEF TypeOK, inputs
  <2> QED BY <1>2, <2>1, <2>7 DEF RunChecks, TypeOK, At, Goto, runVars, Points
<1>3. ASSUME NEW p \in Evaluators, SkipUnchanged(p) PROVE TypeOK'
  BY <1>3, InitialValues DEF SkipUnchanged, TypeOK, Goto, Return, runVars, Points
<1>4. ASSUME NEW p \in Evaluators, StartEvaluation(p) PROVE TypeOK'
  BY <1>4 DEF StartEvaluation, TypeOK, At, Goto, Work, contract, judgement, ActiveStates, Points
<1>5. ASSUME NEW p \in Evaluators, Malformed(p) PROVE TypeOK'
  <2>1. PICK refused \in SUBSET Criteria : AskAgain(p, refused)
    BY <1>5 DEF Malformed
  <2> QED BY <1>5, <2>1, AskAgainTyped DEF Malformed, TypeOK, runVars
<1>6. ASSUME NEW p \in Evaluators, Unfounded(p) PROVE TypeOK'
  <2>1. PICK j \in WellFormed : AskAgain(p, Refused(j.crit))
    BY <1>6 DEF Unfounded
  <2>2. Refused(j.crit) \in SUBSET Criteria
    BY DEF Refused
  <2> QED BY <1>6, <2>1, <2>2, AskAgainTyped DEF Unfounded, TypeOK, runVars
<1>7. ASSUME NEW p \in Evaluators, Accepted(p) PROVE TypeOK'
  <2>1. PICK j \in WellFormed :
           /\ Valid(j, work[p].manifest)
           /\ work' = [work EXCEPT ![p].judged = Settled(Normalised(j), work[p].inputs.checks)]
    BY <1>7 DEF Accepted
  <2>2. work[p] \in Work /\ work[p].inputs.checks \in [Checked -> BOOLEAN]
    BY DEF TypeOK, Work, Inputs
  <2>3. Settled(Normalised(j), work[p].inputs.checks) \in Judgements
    BY <2>1, <2>2, SettledIsAccepted DEF TypeOK
  <2>4. work' \in [Evaluators -> Work]
    BY <2>1, <2>3 DEF TypeOK, Work
  <2> QED BY <1>7, <2>4 DEF Accepted, TypeOK, Goto, runVars, Points
<1>8. ASSUME NEW p \in Evaluators, Abandoned(p) PROVE TypeOK'
  BY <1>8, InitialValues DEF Abandoned, TypeOK, Goto, Return, runVars, Points
<1>9. ASSUME NEW p \in Evaluators, RejectVerdict(p) PROVE TypeOK'
  BY <1>9, InitialValues
     DEF RejectVerdict, TypeOK, Goto, Return, Work, contract, ActiveStates, Points
<1>10. ASSUME NEW p \in Evaluators, ApplyVerdict(p) PROVE TypeOK'
  <2>1. /\ work[p].version \in Nat /\ work[p].text \in Nat
        /\ work[p].inputs \in Inputs /\ work[p].judged \in Judgements
    BY DEF TypeOK, Work
  <2>2. criteria' \in [Criteria -> CritVerdicts]
    BY <1>10, <2>1 DEF ApplyVerdict, Judgements
  <2>3. pc' \in [Evaluators -> Points] /\ work' \in [Evaluators -> Work]
    BY <1>10, InitialValues DEF ApplyVerdict, TypeOK, Goto, Return, Points
  <2> QED BY <1>10, <2>1, <2>2, <2>3 DEF ApplyVerdict, TypeOK, contract, ActiveStates
<1>11. CASE FinishPassed
  BY <1>11, InitialValues
     DEF FinishPassed, TypeOK, Goto, Return, contract, judgement, TerminalStates, Points
<1>12. CASE FinishOtherwise
  BY <1>12 DEF FinishOtherwise, TypeOK, contract, judgement, TerminalStates
<1>13. CASE SubmitEvidence
  BY <1>13 DEF SubmitEvidence, TypeOK, runVars, Current, Evidence
<1>14. CASE Edit
  BY <1>14 DEF Edit, TypeOK, runVars
<1>15. CASE RebaseFile
  BY <1>15 DEF RebaseFile, TypeOK, judgement
<1>16. CASE RebaseState
  BY <1>16, InitialValues DEF RebaseState, TypeOK, InitialCriteria, CritVerdicts
<1>17. CASE UNCHANGED vars
  BY <1>17 DEF TypeOK, vars
<1> QED
  BY <1>1, <1>2, <1>3, <1>4, <1>5, <1>6, <1>7, <1>8, <1>9, <1>10, <1>11, <1>12, <1>13, <1>14,
     <1>15, <1>16, <1>17
     DEF Next, Evaluate, Rebase

\* Every variable keeps its type (TypeOK), whatever the evaluators answer.
THEOREM TypeCorrect == Spec => []TypeOK
<1>1. Init => TypeOK
  BY TypeInit
<1>2. TypeOK /\ [Next]_vars => TypeOK'
  BY TypeStep
<1> QED BY <1>1, <1>2, PTL DEF Spec

-----------------------------------------------------------------------------
(* Acceptance *)

LEMMA AcceptanceStep == ASSUME TypeOK, AcceptanceInv, [Next]_vars PROVE AcceptanceInv'
<1>1. ASSUME NEW p \in Evaluators, Begin(p) PROVE AcceptanceInv'
  BY <1>1 DEF Begin, AcceptanceInv, Decided, TypeOK, At, Goto, runVars
<1>2. ASSUME NEW p \in Evaluators, RunChecks(p) PROVE AcceptanceInv'
  BY <1>2 DEF RunChecks, AcceptanceInv, Decided, TypeOK, At, Goto, runVars
<1>3. ASSUME NEW p \in Evaluators, SkipUnchanged(p) PROVE AcceptanceInv'
  BY <1>3 DEF SkipUnchanged, AcceptanceInv, Decided, TypeOK, At, Goto, Return, runVars
<1>4. ASSUME NEW p \in Evaluators, StartEvaluation(p) PROVE AcceptanceInv'
  BY <1>4 DEF StartEvaluation, AcceptanceInv, Decided, TypeOK, At, Goto, judgement
<1>5. ASSUME NEW p \in Evaluators, Malformed(p) PROVE AcceptanceInv'
  BY <1>5 DEF Malformed, AskAgain, AcceptanceInv, Decided, TypeOK, At, Goto, runVars
<1>6. ASSUME NEW p \in Evaluators, Unfounded(p) PROVE AcceptanceInv'
  BY <1>6 DEF Unfounded, AskAgain, AcceptanceInv, Decided, TypeOK, At, Goto, runVars
<1>7. ASSUME NEW p \in Evaluators, Accepted(p) PROVE AcceptanceInv'
  <2>1. PICK j \in WellFormed :
           /\ Valid(j, work[p].manifest)
           /\ work' = [work EXCEPT ![p].judged = Settled(Normalised(j), work[p].inputs.checks)]
    BY <1>7 DEF Accepted
  <2>2. work[p].inputs.checks \in [Checked -> BOOLEAN]
    BY DEF TypeOK, Work, Inputs
  <2>3. Verdict(Settled(Normalised(j), work[p].inputs.checks)) \in AcceptedVerdicts
    BY <2>1, <2>2, SettledIsAccepted DEF TypeOK
  <2>4. work'[p].judged = Settled(Normalised(j), work[p].inputs.checks)
    BY <2>1 DEF TypeOK, Work
  <2>5. \A q \in Evaluators : q # p => pc'[q] = pc[q] /\ work'[q] = work[q]
    BY <1>7, <2>1 DEF Accepted, Goto, TypeOK
  <2>6. UNCHANGED lastVerdict
    BY <1>7 DEF Accepted, runVars
  <2>7. pc'[p] = "accepted"
    BY <1>7 DEF Accepted, Goto, TypeOK
  <2> QED BY <2>3, <2>4, <2>5, <2>6, <2>7 DEF AcceptanceInv, At
<1>8. ASSUME NEW p \in Evaluators, Abandoned(p) PROVE AcceptanceInv'
  BY <1>8 DEF Abandoned, AcceptanceInv, Decided, TypeOK, At, Goto, Return, runVars
<1>9. ASSUME NEW p \in Evaluators, RejectVerdict(p) PROVE AcceptanceInv'
  BY <1>9 DEF RejectVerdict, AcceptanceInv, Decided, TypeOK, At, Goto, Return
<1>10. ASSUME NEW p \in Evaluators, ApplyVerdict(p) PROVE AcceptanceInv'
  <2>1. pc[p] = "accepted" /\ Verdict(work[p].judged) \in AcceptedVerdicts
    BY <1>10 DEF ApplyVerdict, AcceptanceInv, Decided, At
  <2>2. Verdict(lastVerdict'.judged) \in AcceptedVerdicts
    BY <1>10, <2>1 DEF ApplyVerdict
  <2>3. pc'[p] \in Decided => /\ work'[p] = work[p]
                             /\ work[p].judged.overall = "PASS"
    BY <1>10 DEF ApplyVerdict, TypeOK, Goto, Return, Decided
  <2>4. \A q \in Evaluators : q # p => pc'[q] = pc[q] /\ work'[q] = work[q]
    BY <1>10 DEF ApplyVerdict, Return, Goto, TypeOK
  <2> QED BY <2>1, <2>2, <2>3, <2>4 DEF AcceptanceInv, At, Decided
<1>11. CASE FinishPassed
  BY <1>11 DEF FinishPassed, AcceptanceInv, Decided, TypeOK, At, Goto, Return, judgement
<1>12. CASE FinishOtherwise
  BY <1>12 DEF FinishOtherwise, AcceptanceInv, Decided, TypeOK, At, Goto, runVars, judgement
<1>13. CASE SubmitEvidence
  BY <1>13 DEF SubmitEvidence, AcceptanceInv, Decided, TypeOK, At, Goto, runVars, judgement
<1>14. CASE Edit
  BY <1>14 DEF Edit, AcceptanceInv, Decided, TypeOK, At, Goto, runVars, judgement
<1>15. CASE RebaseFile
  BY <1>15 DEF RebaseFile, AcceptanceInv, Decided, TypeOK, At, Goto, runVars, judgement
<1>16. CASE RebaseState
  BY <1>16 DEF RebaseState, AcceptanceInv, Decided, TypeOK, At, Goto, runVars, judgement
<1>17. CASE UNCHANGED vars
  BY <1>17 DEF AcceptanceInv, Decided, At, vars
<1> QED
  BY <1>1, <1>2, <1>3, <1>4, <1>5, <1>6, <1>7, <1>8, <1>9, <1>10, <1>11, <1>12, <1>13, <1>14,
     <1>15, <1>16, <1>17
     DEF Next, Evaluate, Rebase

\* Whatever evaluators answer and however evaluations, edits, rebases and crashes interleave,
\* the verdict that evaluate applies is one the round loop may rely on (VerdictsAreAccepted).
THEOREM AppliedVerdictsAreAccepted == Spec => []VerdictsAreAccepted
<1>1. Init => TypeOK /\ AcceptanceInv
  BY TypeInit, InitialValues DEF Init, AcceptanceInv, Decided, At
<1>2. TypeOK /\ AcceptanceInv /\ [Next]_vars => TypeOK' /\ AcceptanceInv'
  BY TypeStep, AcceptanceStep
<1>3. AcceptanceInv => VerdictsAreAccepted
  BY DEF AcceptanceInv, VerdictsAreAccepted, Verdict
<1> QED BY <1>1, <1>2, <1>3, PTL DEF Spec

-----------------------------------------------------------------------------
(* Founded verdicts *)

\* What AskAgain leaves alone.
LEMMA AskAgainKeeps ==
    ASSUME TypeOK, NEW p \in Evaluators, NEW refused, AskAgain(p, refused), At(p, "asked")
    PROVE  /\ pc'[p] \in {"asked", "rejected"}
           /\ \A f \in {"version", "inputs", "manifest"} : work'[p][f] = work[p][f]
           /\ \A q \in Evaluators : q # p => pc'[q] = pc[q] /\ work'[q] = work[q]
BY DEF AskAgain, TypeOK, Work, Goto, At

\* What is founded stays founded while records are only added and contracts only replaced.
LEMMA FoundedStays ==
    ASSUME NEW v, NEW w, Founded(v), v.version \in Nat, version \in Nat, version' \in Nat,
           version <= version', ledger \subseteq ledger',
           w.version = v.version, w.inputs = v.inputs, w.judged = v.judged
    PROVE  \E n \in w.version..version' : \A c \in Criteria :
              w.judged.crit[c] = "PASS" =>
                 IF c \in DeterministicOnly THEN w.inputs.checks[c]
                 ELSE LET cites == w.judged.cites[c]
                      IN  /\ \A e \in cites : /\ e \in ledger' /\ e.version = n
                                              /\ e.revision = w.inputs.revision
                                              /\ c \in e.item.criteria
                          /\ \E e \in cites : c \in e.item.required
                          /\ \E e \in cites : ~e.item.prior
<1>1. PICK n \in v.version..version : \A c \in Criteria :
         v.judged.crit[c] = "PASS" =>
            IF c \in DeterministicOnly THEN v.inputs.checks[c] ELSE Evidenced(v, n, c)
  BY DEF Founded
<1>2. n \in w.version..version'
  OBVIOUS
<1> QED BY <1>1, <1>2 DEF Evidenced, Recorded

\* A step that only adds to the ledger, leaves the verdict on disk alone and keeps the manifests
\* and judgements that it does not drop keeps everything founded.
LEMMA StaysFounded ==
    ASSUME TypeOK, EvidenceInv, ledger \subseteq ledger', UNCHANGED lastVerdict,
           version' \in Nat, version <= version', version' <= contractFile',
           \A p \in Evaluators :
              /\ pc'[p] \in Begun => \/ pc[p] \in Begun /\ work'[p].version = work[p].version
                                     \/ work'[p].version = version
              /\ pc'[p] \in Informed =>
                    /\ pc[p] \in Informed
                    /\ \A f \in {"version", "inputs", "manifest"} : work'[p][f] = work[p][f]
              /\ pc'[p] \in Decided => pc[p] \in Decided /\ work'[p].judged = work[p].judged
    PROVE  EvidenceInv'
<1> version \in Nat /\ \A p \in Evaluators : work[p].version \in Nat
  BY DEF TypeOK, Work
<1>1. ASSUME NEW p \in Evaluators, pc'[p] \in Begun PROVE work'[p].version <= version'
  BY <1>1 DEF EvidenceInv
<1>2. ASSUME NEW p \in Evaluators, pc'[p] \in Informed
      PROVE  \E n \in work'[p].version..version' : \A e \in work'[p].manifest : Recorded(e, work[p], n)'
  <2>1. /\ pc[p] \in Informed
        /\ work'[p].version = work[p].version
        /\ work'[p].inputs = work[p].inputs
        /\ work'[p].manifest = work[p].manifest
    BY <1>2
  <2>2. PICK n \in work[p].version..version : \A e \in work[p].manifest : Recorded(e, work[p], n)
    BY <2>1 DEF EvidenceInv
  <2>3. n \in work'[p].version..version'
    BY <2>1
  <2> QED BY <2>1, <2>2, <2>3 DEF Recorded
<1>3. ASSUME NEW p \in Evaluators, pc'[p] \in Decided PROVE Founded(work[p])'
  <2>1. /\ pc[p] \in Decided
        /\ work'[p].version = work[p].version
        /\ work'[p].inputs = work[p].inputs
        /\ work'[p].judged = work[p].judged
    BY <1>3 DEF Informed, Begun, Decided
  <2>2. Founded(work[p])
    BY <2>1 DEF EvidenceInv
  <2> QED BY <2>1, <2>2, FoundedStays DEF Founded, Evidenced, Recorded
<1>4. PassIsEvidenced'
  <2>1. Founded(lastVerdict) /\ lastVerdict.version \in Nat
    BY DEF EvidenceInv, PassIsEvidenced, TypeOK
  <2> QED BY <2>1, FoundedStays DEF PassIsEvidenced, Founded, Evidenced, Recorded
<1> QED BY <1>1, <1>2, <1>3, <1>4 DEF EvidenceInv

\* What the checks settle rests on the checks, and what the evaluator decides on what it cites.
LEMMA SettledIsFounded ==
    ASSUME NEW j \in WellFormed, NEW manifest, Valid(j, manifest), NEW checks,
           NEW c \in Criteria, Settled(Normalised(j), checks).crit[c] = "PASS"
    PROVE  /\ c \in DeterministicOnly => checks[c]
           /\ c \notin DeterministicOnly =>
                 Supports(Settled(Normalised(j), checks).cites[c], c, manifest)
<1>1. AfterChecks(j.crit, checks)[c] = "PASS"
  BY DEF Settled, Normalised
<1>2. c \in DeterministicOnly => checks[c]
  BY <1>1 DEF AfterChecks
<1>3. ASSUME c \notin DeterministicOnly
      PROVE  Supports(Settled(Normalised(j), checks).cites[c], c, manifest)
  <2>1. j.crit[c] = "PASS"
    BY <1>1, <1>3 DEF AfterChecks
  <2>2. Settled(Normalised(j), checks).cites[c] = j.cites[c]
    BY <2>1 DEF Settled, Normalised
  <2> QED BY <2>1, <2>2 DEF Valid
<1> QED BY <1>2, <1>3

LEMMA EvidenceStep ==
    ASSUME TypeOK, EvidenceInv, [Next]_vars
    PROVE  EvidenceInv'
<1> version \in Nat /\ contractFile \in Nat /\ version <= contractFile
  BY DEF TypeOK, EvidenceInv
<1> USE DEF Informed, Begun, Decided
<1>1. ASSUME NEW p \in Evaluators, Begin(p) PROVE EvidenceInv'
  <2>1. pc'[p] = "checking" /\ work'[p].version = version
    BY <1>1 DEF Begin, Goto, TypeOK, Work
  <2>2. \A q \in Evaluators : q # p => pc'[q] = pc[q] /\ work'[q] = work[q]
    BY <1>1 DEF Begin, Goto, TypeOK
  <2> QED BY <1>1, <2>1, <2>2, StaysFounded DEF Begin, runVars
<1>2. ASSUME NEW p \in Evaluators, RunChecks(p) PROVE EvidenceInv'
  <2>1. pc[p] = "checking" /\ pc'[p] = "checked" /\ ledger \subseteq ledger'
    BY <1>2 DEF RunChecks, At, Goto, TypeOK
  <2>2. UNCHANGED <<lastVerdict, version, contractFile, revision>>
    BY <1>2 DEF RunChecks, runVars
  <2>3. \A q \in Evaluators : q # p => pc'[q] = pc[q] /\ work'[q] = work[q]
    BY <1>2 DEF RunChecks, Goto, TypeOK
  <2>4. /\ work'[p].version = work[p].version
        /\ work'[p].inputs.revision = revision
        /\ work'[p].manifest = Manifest'
    BY <1>2 DEF RunChecks, TypeOK, Work
  <2>5. work[p].version \in Nat /\ work[p].version <= version
    BY <2>1 DEF EvidenceInv, TypeOK, Work
  <2>6. \A e \in work'[p].manifest :
           e \in ledger' /\ e.revision = work'[p].inputs.revision /\ e.version = version
    BY <2>2, <2>4 DEF Manifest
  <2>7. version \in work'[p].version..version'
    BY <2>2, <2>4, <2>5
  <2>8. PassIsEvidenced'
    BY <2>1, <2>2 DEF EvidenceInv, PassIsEvidenced, Founded, Evidenced, Recorded
  <2>9. ASSUME NEW q \in Evaluators, pc'[q] \in Decided PROVE Founded(work[q])'
    <3>1. pc[q] \in Decided /\ work'[q] = work[q]
      BY <2>1, <2>3, <2>9
    <3>2. Founded(work[q])
      BY <3>1 DEF EvidenceInv
    <3> QED BY <2>1, <2>2, <3>1, <3>2 DEF Founded, Evidenced, Recorded
  <2>10. ASSUME NEW q \in Evaluators, pc'[q] \in Informed
         PROVE  \E n \in work'[q].version..version' : \A e \in work'[q].manifest : Recorded(e, work[q], n)'
    <3>1. CASE q = p
      BY <2>6, <2>7, <3>1 DEF Recorded
    <3>2. CASE q # p
      <4>1. PICK n \in work[q].version..version : \A e \in work[q].manifest : Recorded(e, work[q], n)
        BY <2>3, <2>10, <3>2 DEF EvidenceInv
      <4> QED BY <2>1, <2>2, <2>3, <3>2, <4>1 DEF Recorded
    <3> QED BY <3>1, <3>2
  <2>11. \A q \in Evaluators : pc'[q] \in Begun => work'[q].version <= version'
    BY <2>2, <2>3, <2>4, <2>5 DEF EvidenceInv
  <2> HIDE DEF Informed, Begun, Decided
  <2> QED BY <2>2, <2>8, <2>9, <2>10, <2>11 DEF EvidenceInv
<1>3. ASSUME NEW p \in Evaluators, SkipUnchanged(p) PROVE EvidenceInv'
  BY <1>3, StaysFounded DEF SkipUnchanged, Return, Goto, runVars, TypeOK
<1>4. ASSUME NEW p \in Evaluators, StartEvaluation(p) PROVE EvidenceInv'
  <2>1. /\ pc[p] = "checked" /\ pc'[p] = "asked"
        /\ \A f \in {"version", "inputs", "manifest"} : work'[p][f] = work[p][f]
    BY <1>4 DEF StartEvaluation, At, Goto, TypeOK, Work
  <2>2. \A q \in Evaluators : q # p => pc'[q] = pc[q] /\ work'[q] = work[q]
    BY <1>4 DEF StartEvaluation, Goto, TypeOK
  <2> QED BY <1>4, <2>1, <2>2, StaysFounded DEF StartEvaluation, judgement, contract
<1>5. ASSUME NEW p \in Evaluators, Malformed(p) PROVE EvidenceInv'
  <2>1. PICK refused \in SUBSET Criteria : AskAgain(p, refused)
    BY <1>5 DEF Malformed
  <2> QED BY <1>5, <2>1, AskAgainKeeps, StaysFounded DEF Malformed, At, runVars
<1>6. ASSUME NEW p \in Evaluators, Unfounded(p) PROVE EvidenceInv'
  <2>1. PICK j \in WellFormed : AskAgain(p, Refused(j.crit))
    BY <1>6 DEF Unfounded
  <2> QED BY <1>6, <2>1, AskAgainKeeps, StaysFounded DEF Unfounded, At, runVars
<1>7. ASSUME NEW p \in Evaluators, Accepted(p) PROVE EvidenceInv'
  <2>1. PICK j \in WellFormed :
           /\ Valid(j, work[p].manifest)
           /\ work' = [work EXCEPT ![p].judged = Settled(Normalised(j), work[p].inputs.checks)]
    BY <1>7 DEF Accepted
  <2>2. /\ pc[p] = "asked" /\ pc'[p] = "accepted"
        /\ UNCHANGED <<lastVerdict, ledger, version, contractFile>>
    BY <1>7 DEF Accepted, At, Goto, TypeOK, runVars
  <2>3. \A q \in Evaluators : q # p => pc'[q] = pc[q] /\ work'[q] = work[q]
    BY <1>7, <2>1 DEF Accepted, Goto, TypeOK
  <2>4. /\ \A f \in {"version", "inputs", "manifest"} : work'[p][f] = work[p][f]
        /\ work'[p].judged = Settled(Normalised(j), work[p].inputs.checks)
    BY <2>1 DEF TypeOK, Work
  <2>5. PICK n \in work[p].version..version : \A e \in work[p].manifest : Recorded(e, work[p], n)
    BY <2>2 DEF EvidenceInv
  <2>6. Founded(work[p])'
    <3>1. ASSUME NEW c \in Criteria, work'[p].judged.crit[c] = "PASS"
          PROVE  IF c \in DeterministicOnly THEN work'[p].inputs.checks[c]
                 ELSE Evidenced(work[p], n, c)'
      <4>1. /\ c \in DeterministicOnly => work[p].inputs.checks[c]
            /\ c \notin DeterministicOnly => Supports(work'[p].judged.cites[c], c, work[p].manifest)
        BY <2>1, <2>4, <3>1, SettledIsFounded
      <4>2. CASE c \in DeterministicOnly
        BY <2>4, <4>1, <4>2
      <4>3. CASE c \notin DeterministicOnly
        BY <2>2, <2>4, <2>5, <4>1, <4>3 DEF Supports, Evidenced, Recorded
      <4> QED BY <4>2, <4>3
    <3>2. n \in work'[p].version..version'
      BY <2>2, <2>4, <2>5
    <3> QED BY <3>1, <3>2 DEF Founded
  <2>7. ASSUME NEW q \in Evaluators, q # p, pc'[q] \in Decided PROVE Founded(work[q])'
    <3>1. Founded(work[q]) /\ work'[q] = work[q]
      BY <2>3, <2>7 DEF EvidenceInv
    <3> QED BY <2>2, <3>1 DEF Founded, Evidenced, Recorded
  <2>8. \A q \in Evaluators : pc'[q] \in Informed =>
           \E m \in work'[q].version..version' : \A e \in work'[q].manifest : Recorded(e, work[q], m)'
    BY <2>2, <2>3, <2>4, <2>5 DEF EvidenceInv, Recorded
  <2>9. PassIsEvidenced'
    BY <2>2 DEF EvidenceInv, PassIsEvidenced, Founded, Evidenced, Recorded
  <2>10. \A q \in Evaluators : pc'[q] \in Begun => work'[q].version <= version'
    BY <2>2, <2>3, <2>4 DEF EvidenceInv
  <2> HIDE DEF Informed, Begun, Decided
  <2> QED BY <2>2, <2>6, <2>7, <2>8, <2>9, <2>10 DEF EvidenceInv
<1>8. ASSUME NEW p \in Evaluators, Abandoned(p) PROVE EvidenceInv'
  BY <1>8, StaysFounded DEF Abandoned, Return, Goto, runVars, TypeOK
<1>9. ASSUME NEW p \in Evaluators, RejectVerdict(p) PROVE EvidenceInv'
  BY <1>9, StaysFounded DEF RejectVerdict, Return, Goto, contract, TypeOK
<1>10. ASSUME NEW p \in Evaluators, ApplyVerdict(p) PROVE EvidenceInv'
  <2>1. /\ pc[p] = "accepted"
        /\ UNCHANGED <<ledger, version, contractFile>>
    BY <1>10 DEF ApplyVerdict, contract, At
  <2>2. pc'[p] \in Begun => pc'[p] = "won" /\ work'[p] = work[p]
    BY <1>10 DEF ApplyVerdict, Return, Goto, TypeOK
  <2>3. \A q \in Evaluators : q # p => pc'[q] = pc[q] /\ work'[q] = work[q]
    BY <1>10 DEF ApplyVerdict, Return, Goto, TypeOK
  <2>4. Founded(work[p])
    BY <2>1 DEF EvidenceInv
  <2>5. /\ lastVerdict'.version = work[p].version
        /\ lastVerdict'.inputs = work[p].inputs
        /\ lastVerdict'.judged = work[p].judged
    BY <1>10 DEF ApplyVerdict
  <2>6. PassIsEvidenced'
    BY <2>1, <2>4, <2>5 DEF PassIsEvidenced, Founded, Evidenced, Recorded
  <2>7. \A q \in Evaluators :
           /\ pc'[q] \in Begun => pc[q] \in Begun /\ work'[q] = work[q]
           /\ pc'[q] \in Informed => pc[q] \in Informed
           /\ pc'[q] \in Decided => pc[q] \in Decided
    BY <2>1, <2>2, <2>3
  <2>8. ASSUME NEW q \in Evaluators, pc'[q] \in Decided PROVE Founded(work[q])'
    <3>1. Founded(work[q]) /\ work'[q] = work[q]
      BY <2>7, <2>8 DEF EvidenceInv
    <3> QED BY <2>1, <3>1 DEF Founded, Evidenced, Recorded
  <2>9. \A q \in Evaluators : pc'[q] \in Informed =>
           \E n \in work'[q].version..version' : \A e \in work'[q].manifest : Recorded(e, work[q], n)'
    BY <2>1, <2>7 DEF EvidenceInv, Recorded
  <2>10. \A q \in Evaluators : pc'[q] \in Begun => work'[q].version <= version'
    BY <2>1, <2>7 DEF EvidenceInv
  <2> HIDE DEF Informed, Begun, Decided
  <2> QED BY <2>1, <2>6, <2>8, <2>9, <2>10 DEF EvidenceInv
<1>11. CASE FinishPassed
  BY <1>11, StaysFounded DEF FinishPassed, Return, Goto, judgement, contract, TypeOK
<1>12. CASE FinishOtherwise
  BY <1>12, StaysFounded DEF FinishOtherwise, judgement, contract
<1>13. CASE SubmitEvidence
  BY <1>13, StaysFounded DEF SubmitEvidence, runVars
<1>14. CASE Edit
  BY <1>14, StaysFounded DEF Edit, runVars
<1>15. CASE RebaseFile
  BY <1>15, StaysFounded DEF RebaseFile, judgement
<1>16. CASE RebaseState
  BY <1>16, StaysFounded DEF RebaseState
<1>17. CASE UNCHANGED vars
  BY <1>17, StaysFounded DEF vars
<1> QED
  BY <1>1, <1>2, <1>3, <1>4, <1>5, <1>6, <1>7, <1>8, <1>9, <1>10, <1>11, <1>12, <1>13, <1>14,
     <1>15, <1>16, <1>17
     DEF Next, Evaluate, Rebase

LEMMA EvidenceInit == Init => EvidenceInv
BY DEF Init, EvidenceInv, PassIsEvidenced, Founded, Unjudged, InitialCriteria, Decided, Informed, Begun

\* Every PASS of the verdict on disk rests on evidence in the ledger that is bound to its
\* criterion, of a required kind, of the evaluated revision and of one contract that was in force
\* since the evaluation began, or on the checks, whatever the evaluators answer and however
\* evaluations, edits and rebases interleave (PassIsEvidenced).
THEOREM VerdictsAreEvidenced == Spec => []PassIsEvidenced
<1>1. Init => EvidenceInv
  BY EvidenceInit
<1>2. TypeOK /\ EvidenceInv /\ [Next]_vars => EvidenceInv'
  BY EvidenceStep
<1>3. EvidenceInv => PassIsEvidenced
  BY DEF EvidenceInv
<1> QED BY <1>1, <1>2, <1>3, TypeCorrect, PTL DEF Spec

-----------------------------------------------------------------------------
(* How a run becomes PASSED *)

\* Only finish makes a run PASSED, and it finds the controller's verdict as it was accepted.
LEMMA PassedStep ==
    ASSUME TypeOK, AcceptanceInv, EvidenceInv, [Next]_vars, status # "PASSED", status' = "PASSED"
    PROVE  /\ Founded(work[Controller])
           /\ work[Controller].judged.overall = "PASS"
           /\ AllPass(work[Controller].judged.crit)
<1>1. ASSUME NEW p \in Evaluators, Evaluate(p) PROVE FALSE
  BY <1>1
     DEF Evaluate, Begin, RunChecks, SkipUnchanged, StartEvaluation, Malformed, Unfounded, Accepted,
         Abandoned, RejectVerdict, ApplyVerdict, runVars
<1>2. CASE FinishPassed
  <2>1. Controller \in Evaluators /\ pc[Controller] = "won"
    BY <1>2 DEF FinishPassed, Evaluators, At
  <2>2. /\ Verdict(work[Controller].judged) \in AcceptedVerdicts
        /\ work[Controller].judged.overall = "PASS"
    BY <2>1 DEF AcceptanceInv, Decided, At
  <2>3. Founded(work[Controller])
    BY <2>1 DEF EvidenceInv, Decided
  <2> QED BY <2>2, <2>3 DEF AcceptedVerdicts, Verdict, AllPass
<1>3. CASE FinishOtherwise \/ SubmitEvidence \/ Edit \/ Rebase \/ UNCHANGED vars
  BY <1>3 DEF FinishOtherwise, SubmitEvidence, Edit, Rebase, RebaseFile, RebaseState, runVars, vars
<1> QED BY <1>1, <1>2, <1>3 DEF Next

\* The controller makes a run PASSED only on a PASS of every criterion that its own evaluation
\* reached, that was accepted and that is founded at that moment, whoever else evaluates, edits,
\* submits evidence or rebases in between (PassedOnFoundedVerdict).
THEOREM PassedIsFounded == Spec => PassedOnFoundedVerdict
<1>1. Init => AcceptanceInv /\ EvidenceInv
  BY InitialValues, EvidenceInit DEF Init, AcceptanceInv, Decided, At
<1>2. TypeOK /\ AcceptanceInv /\ EvidenceInv /\ [Next]_vars => (AcceptanceInv /\ EvidenceInv)'
  BY AcceptanceStep, EvidenceStep
<1>3. TypeOK /\ AcceptanceInv /\ EvidenceInv /\ [Next]_vars
         => [status # "PASSED" /\ status' = "PASSED" =>
                /\ Founded(work[Controller])
                /\ work[Controller].judged.overall = "PASS"
                /\ AllPass(work[Controller].judged.crit)]_vars
  BY PassedStep
<1> QED BY <1>1, <1>2, <1>3, TypeCorrect, PTL DEF Spec, PassedOnFoundedVerdict
=============================================================================
