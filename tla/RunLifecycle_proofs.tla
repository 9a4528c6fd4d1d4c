------------------------ MODULE RunLifecycle_proofs ------------------------
(***************************************************************************)
(* What holds of every run of longrun, for every contract: any criteria,   *)
(* any budgets validate_contract admits, any number of entries.            *)
(***************************************************************************)
EXTENDS RunLifecycle, TLAPS

\* The verdict on a bound is a terminal status.
LEMMA BoundedStatusTerminal ==
    ASSUME NEW crit
    PROVE  BoundedStatus(crit) \in {"PARTIAL_PASS", "RESET_RECOMMENDED"}
BY DEF BoundedStatus

\* What evaluate returns has the shape the loop expects.
LEMMA ReturnedType ==
    ASSUME NEW v \in AcceptedVerdicts
    PROVE  /\ v.crit \in [Criteria -> CritVerdicts]
           /\ Returned(v) \in Evaluations
<1>1. v \in [crit : [Criteria -> CritVerdicts], overall : Overall]
  BY DEF AcceptedVerdicts
<1>2. NeedsOwner(v) \in BOOLEAN
  BY <1>1 DEF NeedsOwner
<1>3. Moved(criteria, v) \in BOOLEAN
  BY <1>1 DEF Moved
<1> QED
  BY <1>1, <1>2, <1>3 DEF Returned, Evaluations

\* The two verdicts of the loop itself have that shape too.
LEMMA OwnVerdictsType == NoVerdict \in Evaluations /\ NoDeltaVerdict \in Evaluations
BY DEF NoVerdict, NoDeltaVerdict, Evaluations, Overall

\* A checkpoint keeps the shape of the loop record.
LEMMA CheckpointType ==
    ASSUME NEW now \in [Criteria -> CritVerdicts], NEW moved \in BOOLEAN, NEW seen \in BOOLEAN,
           NEW lp \in LoopRecords
    PROVE  Checkpoint(lp, now, moved, seen) \in LoopRecords
<1>1. NoDeltaAfter(lp, now, moved, seen) \in Nat
  BY DEF NoDeltaAfter, AtLeastOne, LoopRecords
<1> QED
  BY <1>1 DEF Checkpoint, LoopRecords

-----------------------------------------------------------------------------
\* The ways out of the loop keep every variable in its type.
LEMMA FinishType == ASSUME TypeOK, NEW s \in TerminalStates, Finish(s) PROVE TypeOK'
<1>1. pc' \in PCs /\ isRepair' \in BOOLEAN /\ ev' \in Evaluations /\ status' = s
  BY OwnVerdictsType DEF Finish, LeaveLoop, PCs
<1>2. UNCHANGED <<rounds, repairs, restarts, criteria, loop, unchanged, branch, contractFrozen,
                  baseline, delta, atVerdict, blocker, stopFile, late, entries, stopping,
                  signal, stopAt>>
  BY DEF Finish, counters, judgement, frozenParts, workspace, environment
<1> QED
  BY <1>1, <1>2 DEF TypeOK

LEMMA FinishBoundedType == ASSUME TypeOK, FinishBounded PROVE TypeOK'
<1>1. BoundedStatus(criteria) \in TerminalStates
  BY BoundedStatusTerminal DEF TerminalStates
<1> QED
  BY <1>1, FinishType DEF FinishBounded

LEMMA DieType == ASSUME TypeOK, Die PROVE TypeOK'
<1>1. pc' \in PCs /\ isRepair' \in BOOLEAN /\ ev' \in Evaluations
  BY OwnVerdictsType DEF Die, LeaveLoop, PCs
<1>2. signal' = "none" /\ stopAt' \in Int
  BY DEF Die, NotAsked
<1>3. UNCHANGED <<status, rounds, repairs, restarts, criteria, loop, unchanged, branch,
                  contractFrozen, baseline, delta, atVerdict, blocker, stopFile, late, entries,
                  stopping>>
  BY DEF Die, diskVars
<1> QED
  BY <1>1, <1>2, <1>3 DEF TypeOK

LEMMA RaiseType == ASSUME TypeOK, Raise PROVE TypeOK'
BY DEF TypeOK, PCs, Raise, diskVars

LEMMA SessionEndsType ==
    ASSUME TypeOK, NEW role, SessionInterrupted(role) \/ SessionFailed(role)
    PROVE  TypeOK'
BY FinishType DEF SessionInterrupted, SessionFailed, TerminalStates

\* Every step keeps every variable in its type.
LEMMA TypeStep == TypeOK /\ [Next]_vars => TypeOK'
<1> SUFFICES ASSUME TypeOK, [Next]_vars
             PROVE  TypeOK'
  OBVIOUS
<1> USE DEF Goto, counters, judgement, frozenParts, workspace, process, environment
<1>1. CASE Enter
  BY <1>1 DEF Enter, TypeOK, PCs
<1>2. CASE ClearStop
  <2>1. pc' \in PCs
    BY <1>2 DEF ClearStop, AfterFreeze, PCs, FreezePoints
  <2>2. UNCHANGED <<status, rounds, repairs, restarts, criteria, loop, unchanged, branch,
                    contractFrozen, baseline, delta, atVerdict, blocker, late, entries, stopping,
                    isRepair, ev, signal, stopAt>>
    BY <1>2 DEF ClearStop, AfterFreeze
  <2>3. stopFile' \in BOOLEAN
    BY <1>2 DEF ClearStop, AfterFreeze
  <2> QED
    BY <2>1, <2>2, <2>3 DEF TypeOK
<1>3. CASE AddWorktree
  <2>1. branch' \in BOOLEAN
    BY <1>3, BudgetsAssumption DEF AddWorktree
  <2>2. UNCHANGED <<status, rounds, repairs, restarts, criteria, loop, unchanged,
                    contractFrozen, baseline, delta, atVerdict, blocker, stopFile, late,
                    entries, stopping, isRepair, ev, signal, stopAt>>
    BY <1>3 DEF AddWorktree
  <2>3. pc' \in PCs
    BY <1>3 DEF AddWorktree, PCs, FreezePoints
  <2> QED
    BY <2>1, <2>2, <2>3 DEF TypeOK
<1>4. CASE RefuseFreeze
  BY <1>4, RaiseType DEF RefuseFreeze
<1>5. CASE WriteContract
  BY <1>5 DEF WriteContract, TypeOK, PCs, FreezePoints
<1>6. CASE ContractAlreadyFrozen
  BY <1>6, DieType DEF ContractAlreadyFrozen
<1>7. CASE MarkFrozen
  <2>1. /\ pc' \in PCs /\ status' \in ActiveStates /\ late' \in BOOLEAN
        /\ baseline' \in {"none", "revision", "checks"}
    BY <1>7 DEF MarkFrozen, PCs, FreezePoints, ActiveStates
  <2>2. UNCHANGED <<rounds, repairs, restarts, criteria, loop, unchanged, branch, contractFrozen,
                    delta, atVerdict, blocker, stopFile, entries, stopping, isRepair, ev,
                    signal, stopAt>>
    BY <1>7 DEF MarkFrozen
  <2> QED
    BY <2>1, <2>2 DEF TypeOK
<1>8. CASE RecordBaseline
  BY <1>8 DEF RecordBaseline, AfterFreeze, TypeOK, PCs
<1>9. CASE StartRunning
  BY <1>9 DEF StartRunning, TypeOK, PCs, ActiveStates
<1>10. CASE StopRequested
  BY <1>10, FinishType DEF StopRequested, TerminalStates
<1>11. CASE BudgetExhausted
  BY <1>11, FinishType DEF BudgetExhausted, TerminalStates
<1>12. CASE RoundsExhausted
  BY <1>12, FinishBoundedType DEF RoundsExhausted
<1>13. CASE Overspent
  BY <1>13, FinishBoundedType DEF Overspent
<1>14. CASE BudgetLeft
  BY <1>14 DEF BudgetLeft, TypeOK, PCs, diskVars
<1>15. CASE RoundStart
  BY <1>15 DEF RoundStart, TypeOK, PCs, ActiveStates, Sessions
<1>16. CASE BuilderStops
  BY <1>16, SessionEndsType DEF BuilderStops
<1>17. CASE BuilderReturns
  BY <1>17 DEF BuilderReturns, TypeOK, PCs, SessionReturns, diskVars
<1>18. CASE BuilderWorks
  <2>1. /\ delta' \in BOOLEAN /\ atVerdict' \in BOOLEAN /\ unchanged' \in BOOLEAN
        /\ blocker' \in {"none", "earlier", "now"}
    BY <1>18 DEF BuilderWorks, TypeOK, Rewrite
  <2> QED
    BY <1>18, <2>1 DEF BuilderWorks, TypeOK
<1>19. CASE HostServiceMissing
  BY <1>19, RaiseType DEF HostServiceMissing
<1>20. CASE GateFails
  BY <1>20 DEF GateFails, TypeOK, PCs
<1>21. CASE GateKeptFailing
  BY <1>21, FinishBoundedType DEF GateKeptFailing
<1>22. CASE GatePasses
  BY <1>22, OwnVerdictsType DEF GatePasses, TypeOK, PCs, diskVars
<1>23. CASE SkipUnchanged
  BY <1>23, OwnVerdictsType DEF SkipUnchanged, TypeOK, PCs, diskVars
<1>24. CASE EvaluationStart
  BY <1>24 DEF EvaluationStart, TypeOK, PCs, ActiveStates, Sessions
<1>25. CASE EvaluatorStops
  BY <1>25, SessionEndsType, RaiseType DEF EvaluatorStops
<1>26. CASE VerdictRejected
  BY <1>26, OwnVerdictsType DEF VerdictRejected, TypeOK, PCs, ActiveStates, SessionReturns
<1>27. CASE VerdictApplied
  BY <1>27, ReturnedType DEF VerdictApplied, TypeOK, PCs, ActiveStates, SessionReturns
<1>28. CASE AllCriteriaPass
  BY <1>28, FinishType DEF AllCriteriaPass, TerminalStates
<1>29. CASE OwnerMustJudge
  BY <1>29, FinishType DEF OwnerMustJudge, TerminalStates
<1>30. CASE StrategicCheck
  <2>1. (blocker = "now") \in BOOLEAN /\ ev.moved \in BOOLEAN
    BY DEF TypeOK, Evaluations
  <2>2. loop' \in LoopRecords
    BY <1>30, <2>1, CheckpointType DEF StrategicCheck, TypeOK
  <2> QED
    BY <1>30, <2>2 DEF StrategicCheck, TypeOK, PCs
<1>31. CASE ResetWithoutBudget
  BY <1>31, FinishBoundedType DEF ResetWithoutBudget
<1>32. CASE ScheduleRepair
  BY <1>32, OwnVerdictsType DEF ScheduleRepair, TypeOK, PCs
<1>33. CASE FreshRestart
  BY <1>33, OwnVerdictsType DEF FreshRestart, TypeOK, PCs, ActiveStates
<1>34. CASE GiveUp
  BY <1>34, FinishType, FinishBoundedType DEF GiveUp, TerminalStates
<1>35. CASE KeepWork
  BY <1>35 DEF KeepWork, TypeOK, PCs, ActiveStates
<1>36. CASE AskRestartManager
  BY <1>36 DEF AskRestartManager, TypeOK, PCs, Sessions, diskVars
<1>37. CASE RestartJudged
  <2>1. delta' \in BOOLEAN /\ atVerdict' \in BOOLEAN /\ unchanged' \in BOOLEAN
    BY <1>37 DEF RestartJudged, Rewrite, TypeOK
  <2>2. pc' \in PCs /\ status' \in ActiveStates
    BY <1>37 DEF RestartJudged, PCs, ActiveStates
  <2>3. UNCHANGED <<rounds, repairs, restarts, entries, criteria, loop, branch, contractFrozen,
                    baseline, blocker, stopFile, late, stopping, isRepair, ev, signal, stopAt>>
    BY <1>37 DEF RestartJudged
  <2> QED
    BY <2>1, <2>2, <2>3 DEF TypeOK
<1>38. CASE RestartErrorSwallowed
  <2>1. delta' \in BOOLEAN /\ atVerdict' \in BOOLEAN /\ unchanged' \in BOOLEAN
    <3>1. CASE Rewrite
      BY <3>1 DEF Rewrite
    <3>2. CASE UNCHANGED <<delta, atVerdict, unchanged>>
      BY <3>2 DEF TypeOK
    <3> QED
      BY <1>38, <3>1, <3>2 DEF RestartErrorSwallowed
  <2>2. pc' = "resume" /\ status' = "RUNNING"
    BY <1>38 DEF RestartErrorSwallowed, Goto
  <2>3. UNCHANGED <<rounds, repairs, restarts, entries, criteria, loop, branch, contractFrozen,
                    baseline, blocker, stopFile, late, stopping, isRepair, ev, signal, stopAt>>
    BY <1>38 DEF RestartErrorSwallowed, counters, frozenParts, process, environment
  <2> QED
    BY <2>1, <2>2, <2>3 DEF TypeOK, PCs, ActiveStates
<1>39. CASE RestartFails
  BY <1>39, SessionEndsType DEF RestartFails
<1>40. CASE ResumeAfterRestart
  <2>1. loop' \in LoopRecords
    BY <1>40 DEF ResumeAfterRestart, TypeOK, LoopRecords
  <2>2. UNCHANGED <<status, rounds, restarts, criteria, unchanged, branch, contractFrozen,
                    baseline, delta, atVerdict, blocker, stopFile, late, entries, stopping, ev,
                    signal, stopAt>>
    BY <1>40 DEF ResumeAfterRestart
  <2>3. repairs' \in Nat /\ isRepair' \in BOOLEAN /\ pc' \in PCs
    BY <1>40 DEF ResumeAfterRestart, PCs
  <2> QED
    BY <2>1, <2>2, <2>3 DEF TypeOK
<1>41. CASE CommandReportsError
  BY <1>41, DieType DEF CommandReportsError
<1>42. CASE ChainFinishesFailed
  BY <1>42, FinishType DEF ChainFinishesFailed, TerminalStates
<1>43. CASE Crash
  BY <1>43, DieType DEF Crash
<1>44. CASE Signal
  BY <1>44 DEF Signal, TypeOK, PCs, diskVars
<1>45. CASE StopLive
  BY <1>45 DEF StopLive, TypeOK, PCs
<1>46. CASE StopFindsNobody
  <2>1. stopFile' \in BOOLEAN /\ stopping' \in {"none", "read", "nobody"}
    BY <1>46 DEF StopFindsNobody, TypeOK
  <2>2. UNCHANGED <<status, rounds, repairs, restarts, criteria, loop, unchanged, branch,
                    contractFrozen, baseline, delta, atVerdict, blocker, late, entries, pc,
                    isRepair, ev, signal, stopAt>>
    BY <1>46 DEF StopFindsNobody
  <2> QED
    BY <2>1, <2>2 DEF TypeOK
<1>47. CASE TimeRunsOut
  BY <1>47 DEF TimeRunsOut, TypeOK, PCs
<1>48. CASE UNCHANGED vars \/ Ended
  BY <1>48 DEF Ended, vars, TypeOK
<1>49. CASE EvaluateRefused
  BY <1>49, RaiseType DEF EvaluateRefused
<1>50. CASE StopWrites
  BY <1>50 DEF StopWrites, TypeOK, TerminalStates
<1> QED
  BY <1>1, <1>2, <1>3, <1>4, <1>5, <1>6, <1>7, <1>8, <1>9, <1>10, <1>11, <1>12, <1>13,
     <1>14, <1>15, <1>16, <1>17, <1>18, <1>19, <1>20, <1>21, <1>22, <1>23, <1>24, <1>25,
     <1>26, <1>27, <1>28, <1>29, <1>30, <1>31, <1>32, <1>33, <1>34, <1>35, <1>36, <1>37,
     <1>38, <1>39, <1>40, <1>41, <1>42, <1>43, <1>44, <1>45, <1>46, <1>47, <1>48,
     <1>49, <1>50
     DEF Next, Controller, Freeze, LoopHead, Build, Evaluate, Policy, Restart, Escape, Stop

\* Every variable keeps its type, whatever the budgets and the criteria.
THEOREM TypeCorrect == Spec => []TypeOK
<1>1. Init => TypeOK
  <2> SUFFICES ASSUME Init PROVE TypeOK
    OBVIOUS
  <2>1. criteria \in [Criteria -> CritVerdicts]
    BY DEF Init, InitialCriteria, CritVerdicts
  <2>2. loop \in LoopRecords
    BY DEF Init, InitialLoop, LoopRecords
  <2>3. NotAsked \in Int
    BY DEF NotAsked
  <2> QED
    BY <2>1, <2>2, <2>3, OwnVerdictsType DEF Init, TypeOK, PCs, ActiveStates
<1> QED
  BY <1>1, TypeStep, PTL DEF Spec

-----------------------------------------------------------------------------
\* Where the process leaves the loop, ControlInv asks nothing of it but the end of the run.
LEMMA FinishControl == ASSUME NEW s \in TerminalStates, Finish(s) PROVE ControlInv'
BY DEF Finish, LeaveLoop, ControlInv, WorkPoints, InRound, RestartPoints, Sessions,
       FreezePoints, TerminalStates, ExecutingStates

LEMMA FinishBoundedControl == ASSUME FinishBounded PROVE ControlInv'
<1>1. BoundedStatus(criteria) \in TerminalStates
  BY BoundedStatusTerminal DEF TerminalStates
<1> QED
  BY <1>1, FinishControl DEF FinishBounded

LEMMA DieControl == ASSUME ControlInv, Die PROVE ControlInv'
BY DEF Die, LeaveLoop, diskVars, ControlInv, WorkPoints, InRound, RestartPoints, Sessions, FreezePoints,
       TerminalStates, ExecutingStates

LEMMA SessionEndsControl ==
    ASSUME NEW role, SessionInterrupted(role) \/ SessionFailed(role)
    PROVE  ControlInv'
BY FinishControl DEF SessionInterrupted, SessionFailed, TerminalStates

\* Every step keeps the program point and the status of the run in agreement.
LEMMA ControlStep == TypeOK /\ ControlInv /\ [Next]_vars => ControlInv'
<1> SUFFICES ASSUME TypeOK, ControlInv, [Next]_vars
             PROVE  ControlInv'
  OBVIOUS
<1> USE DEF Goto, counters, judgement, frozenParts, workspace, process, environment
<1>1. CASE Enter
  BY <1>1
     DEF Enter, ControlInv, WorkPoints, InRound, RestartPoints, Sessions, FreezePoints,
         TerminalStates, ExecutingStates
<1>2. CASE ClearStop
  BY <1>2
     DEF ClearStop, AfterFreeze, TypeOK, ActiveStates, ControlInv, WorkPoints, InRound,
         RestartPoints, Sessions, FreezePoints, TerminalStates, ExecutingStates
<1>3. CASE AddWorktree
  BY <1>3
     DEF AddWorktree, ControlInv, WorkPoints, InRound, RestartPoints, Sessions, FreezePoints,
         TerminalStates, ExecutingStates
<1>4. CASE RefuseFreeze
  BY <1>4
     DEF RefuseFreeze, Raise, diskVars, ControlInv, WorkPoints, InRound, RestartPoints,
         Sessions, FreezePoints, TerminalStates, ExecutingStates
<1>5. CASE WriteContract
  BY <1>5
     DEF WriteContract, ControlInv, WorkPoints, InRound, RestartPoints, Sessions, FreezePoints,
         TerminalStates, ExecutingStates
<1>6. CASE ContractAlreadyFrozen
  BY <1>6, DieControl DEF ContractAlreadyFrozen
<1>7. CASE MarkFrozen
  BY <1>7
     DEF MarkFrozen, ControlInv, WorkPoints, InRound, RestartPoints, Sessions, FreezePoints,
         TerminalStates, ExecutingStates
<1>8. CASE RecordBaseline
  BY <1>8
     DEF RecordBaseline, AfterFreeze, ControlInv, WorkPoints, InRound, RestartPoints, Sessions,
         FreezePoints, TerminalStates, ExecutingStates
<1>9. CASE StartRunning
  BY <1>9
     DEF StartRunning, TypeOK, ControlInv, ActiveStates, WorkPoints, InRound, RestartPoints,
         Sessions, FreezePoints, TerminalStates, ExecutingStates
<1>10. CASE StopRequested
  BY <1>10, FinishControl DEF StopRequested, TerminalStates
<1>11. CASE BudgetExhausted
  BY <1>11, FinishControl DEF BudgetExhausted, TerminalStates
<1>12. CASE RoundsExhausted
  BY <1>12, FinishBoundedControl DEF RoundsExhausted
<1>13. CASE Overspent
  BY <1>13, FinishBoundedControl DEF Overspent
<1>14. CASE BudgetLeft
  BY <1>14
     DEF BudgetLeft, diskVars, ControlInv, WorkPoints, InRound, RestartPoints, Sessions,
         FreezePoints, TerminalStates, ExecutingStates
<1>15. CASE RoundStart
  BY <1>15
     DEF RoundStart, TypeOK, ControlInv, WorkPoints, InRound, RestartPoints, Sessions,
         FreezePoints, TerminalStates, ExecutingStates
<1>16. CASE BuilderStops
  BY <1>16, SessionEndsControl DEF BuilderStops
<1>17. CASE BuilderReturns
  BY <1>17
     DEF BuilderReturns, SessionReturns, diskVars, ControlInv, WorkPoints, InRound,
         RestartPoints, Sessions, FreezePoints, TerminalStates, ExecutingStates
<1>18. CASE BuilderWorks
  BY <1>18
     DEF BuilderWorks, ControlInv, WorkPoints, InRound, RestartPoints, Sessions, FreezePoints,
         TerminalStates, ExecutingStates
<1>19. CASE HostServiceMissing
  BY <1>19
     DEF HostServiceMissing, Raise, diskVars, ControlInv, WorkPoints, InRound, RestartPoints,
         Sessions, FreezePoints, TerminalStates, ExecutingStates
<1>20. CASE GateFails
  BY <1>20
     DEF GateFails, ControlInv, WorkPoints, InRound, RestartPoints, Sessions, FreezePoints,
         TerminalStates, ExecutingStates
<1>21. CASE GateKeptFailing
  BY <1>21, FinishBoundedControl DEF GateKeptFailing
<1>22. CASE GatePasses
  BY <1>22
     DEF GatePasses, diskVars, ControlInv, WorkPoints, InRound, RestartPoints, Sessions,
         FreezePoints, TerminalStates, ExecutingStates
<1>23. CASE SkipUnchanged
  BY <1>23
     DEF SkipUnchanged, diskVars, ControlInv, WorkPoints, InRound, RestartPoints, Sessions,
         FreezePoints, TerminalStates, ExecutingStates
<1>24. CASE EvaluationStart
  BY <1>24
     DEF EvaluationStart, ControlInv, WorkPoints, InRound, RestartPoints, Sessions,
         FreezePoints, TerminalStates, ExecutingStates
<1>25. CASE EvaluatorStops
  <2>1. CASE SessionInterrupted("evaluator") \/ SessionFailed("evaluator")
    BY <2>1, SessionEndsControl
  <2>2. CASE SessionRefused("evaluator") /\ Raise
    BY <2>2
       DEF SessionRefused, Raise, diskVars, ControlInv, WorkPoints, InRound, RestartPoints,
           Sessions, FreezePoints, TerminalStates, ExecutingStates
  <2> QED
    BY <1>25, <2>1, <2>2 DEF EvaluatorStops
<1>26. CASE VerdictRejected
  BY <1>26
     DEF VerdictRejected, SessionReturns, ControlInv, WorkPoints, InRound, RestartPoints,
         Sessions, FreezePoints, TerminalStates, ExecutingStates
<1>27. CASE VerdictApplied
  BY <1>27
     DEF VerdictApplied, SessionReturns, ControlInv, WorkPoints, InRound, RestartPoints,
         Sessions, FreezePoints, TerminalStates, ExecutingStates
<1>28. CASE AllCriteriaPass
  BY <1>28, FinishControl DEF AllCriteriaPass, TerminalStates
<1>29. CASE OwnerMustJudge
  BY <1>29, FinishControl DEF OwnerMustJudge, TerminalStates
<1>30. CASE StrategicCheck
  BY <1>30
     DEF StrategicCheck, ControlInv, WorkPoints, InRound, RestartPoints, Sessions,
         FreezePoints, TerminalStates, ExecutingStates
<1>31. CASE ResetWithoutBudget
  BY <1>31, FinishBoundedControl DEF ResetWithoutBudget
<1>32. CASE ScheduleRepair
  BY <1>32
     DEF ScheduleRepair, ControlInv, WorkPoints, InRound, RestartPoints, Sessions,
         FreezePoints, TerminalStates, ExecutingStates
<1>33. CASE FreshRestart
  BY <1>33
     DEF FreshRestart, ControlInv, WorkPoints, InRound, RestartPoints, Sessions, FreezePoints,
         TerminalStates, ExecutingStates
<1>34. CASE GiveUp
  BY <1>34, FinishControl, FinishBoundedControl DEF GiveUp, TerminalStates
<1>35. CASE KeepWork
  BY <1>35
     DEF KeepWork, ControlInv, WorkPoints, InRound, RestartPoints, Sessions, FreezePoints,
         TerminalStates, ExecutingStates
<1>36. CASE AskRestartManager
  BY <1>36
     DEF AskRestartManager, diskVars, ControlInv, WorkPoints, InRound, RestartPoints, Sessions,
         FreezePoints, TerminalStates, ExecutingStates
<1>37. CASE RestartJudged
  BY <1>37
     DEF RestartJudged, SessionReturns, ControlInv, WorkPoints, InRound, RestartPoints,
         Sessions, FreezePoints, TerminalStates, ExecutingStates
<1>38. CASE RestartErrorSwallowed
  BY <1>38
     DEF RestartErrorSwallowed, ControlInv, WorkPoints, InRound, RestartPoints, Sessions,
         FreezePoints, TerminalStates, ExecutingStates
<1>39. CASE RestartFails
  BY <1>39, SessionEndsControl DEF RestartFails
<1>40. CASE ResumeAfterRestart
  BY <1>40
     DEF ResumeAfterRestart, ControlInv, WorkPoints, InRound, RestartPoints, Sessions,
         FreezePoints, TerminalStates, ExecutingStates
<1>41. CASE CommandReportsError
  BY <1>41, DieControl DEF CommandReportsError
<1>42. CASE ChainFinishesFailed
  BY <1>42, FinishControl DEF ChainFinishesFailed, TerminalStates
<1>43. CASE Crash
  BY <1>43, DieControl DEF Crash
<1>44. CASE Signal
  BY <1>44
     DEF Signal, diskVars, ControlInv, WorkPoints, InRound, RestartPoints, Sessions,
         FreezePoints, TerminalStates, ExecutingStates
<1>45. CASE StopLive
  BY <1>45
     DEF StopLive, ControlInv, WorkPoints, InRound, RestartPoints, Sessions, FreezePoints,
         TerminalStates, ExecutingStates
<1>46. CASE StopFindsNobody
  BY <1>46
     DEF StopFindsNobody, ControlInv, WorkPoints, InRound, RestartPoints, Sessions, FreezePoints,
         TerminalStates, ExecutingStates
<1>47. CASE TimeRunsOut
  BY <1>47
     DEF TimeRunsOut, ControlInv, WorkPoints, InRound, RestartPoints, Sessions, FreezePoints,
         TerminalStates, ExecutingStates
<1>48. CASE UNCHANGED vars \/ Ended
  BY <1>48 DEF Ended, vars, ControlInv
<1>49. CASE EvaluateRefused
  BY <1>49
     DEF EvaluateRefused, Raise, diskVars, ControlInv, WorkPoints, InRound, RestartPoints, Sessions,
         FreezePoints, TerminalStates, ExecutingStates
<1>50. CASE StopWrites
  BY <1>50
     DEF StopWrites, ControlInv, WorkPoints, InRound, RestartPoints, Sessions,
         FreezePoints, TerminalStates, ExecutingStates
<1> QED
  BY <1>1, <1>2, <1>3, <1>4, <1>5, <1>6, <1>7, <1>8, <1>9, <1>10, <1>11, <1>12, <1>13,
     <1>14, <1>15, <1>16, <1>17, <1>18, <1>19, <1>20, <1>21, <1>22, <1>23, <1>24, <1>25,
     <1>26, <1>27, <1>28, <1>29, <1>30, <1>31, <1>32, <1>33, <1>34, <1>35, <1>36, <1>37,
     <1>38, <1>39, <1>40, <1>41, <1>42, <1>43, <1>44, <1>45, <1>46, <1>47, <1>48,
     <1>49, <1>50
     DEF Next, Controller, Freeze, LoopHead, Build, Evaluate, Policy, Restart, Escape, Stop

\* The program point and the status of the run agree in every reachable state.
THEOREM ControlCorrect == Spec => []ControlInv
<1>1. Init => ControlInv
  BY
     DEF Init, ControlInv, WorkPoints, InRound, RestartPoints, Sessions, FreezePoints,
         TerminalStates, ExecutingStates
<1> QED
  BY <1>1, TypeCorrect, ControlStep, PTL DEF Spec

-----------------------------------------------------------------------------
\* The parts of the account are numbers.
LEMMA PaidType ==
    ASSUME TypeOK
    PROVE  /\ RepairsPaid \in Nat
           /\ restarts * (MaxRepairs + 1) \in Nat
           /\ entries + restarts * (MaxRepairs + 1) \in Nat
           /\ RoundsPaid \in Nat
<1>1. RepairsPaid \in Nat
  BY BudgetsAssumption DEF RepairsPaid, TypeOK
<1>2. restarts * (MaxRepairs + 1) \in Nat
  BY BudgetsAssumption DEF TypeOK
<1> QED
  BY <1>1, <1>2 DEF RoundsPaid, TypeOK

\* A step that pays for nothing, begins no round and enters no such stretch of the code.
LEMMA QuietAccount ==
    ASSUME AccountInv,
           UNCHANGED <<rounds, repairs, restarts, entries>>,
           pc' \in RoundPending => pc \in RoundPending,
           pc' \in RestartPoints => pc \in RestartPoints
    PROVE  AccountInv'
BY DEF AccountInv, RoundsAccounted, RoundsPaid, RepairsPaid

LEMMA FinishAccount == ASSUME AccountInv, NEW s, Finish(s) PROVE AccountInv'
BY QuietAccount
   DEF Finish, LeaveLoop, counters, environment, RoundPending, RestartPoints, FreezePoints

\* Every step keeps the account of the rounds balanced.
LEMMA AccountStep == TypeOK /\ TypeOK' /\ AccountInv /\ [Next]_vars => AccountInv'
<1> SUFFICES ASSUME TypeOK, TypeOK', AccountInv, [Next]_vars
             PROVE  AccountInv'
  OBVIOUS
<1> USE DEF Goto, counters, judgement, frozenParts, workspace, process, environment
<1>1. CASE Enter
  <2>1. pc' = "entered" /\ rounds' = rounds /\ entries' = entries + 1
    BY <1>1 DEF Enter
  <2>2. restarts' * (MaxRepairs + 1) = restarts * (MaxRepairs + 1) /\ RepairsPaid' = RepairsPaid
    BY <1>1 DEF Enter, RepairsPaid
  <2>3. RoundsPaid' = RoundsPaid + 1
    BY <2>1, <2>2, PaidType DEF RoundsPaid, TypeOK
  <2> QED
    BY <2>1, <2>3, PaidType DEF AccountInv, RoundsAccounted, RestartPoints, TypeOK
<1>2. CASE ClearStop
  BY <1>2, QuietAccount DEF ClearStop, AfterFreeze, RoundPending, RestartPoints, FreezePoints
<1>3. CASE AddWorktree
  BY <1>3, QuietAccount DEF AddWorktree, RoundPending, RestartPoints, FreezePoints
<1>4. CASE RefuseFreeze
  BY <1>4, QuietAccount
     DEF RefuseFreeze, Raise, diskVars, RoundPending, RestartPoints, FreezePoints
<1>5. CASE WriteContract
  BY <1>5, QuietAccount DEF WriteContract, RoundPending, RestartPoints, FreezePoints
<1>6. CASE ContractAlreadyFrozen
  BY <1>6, QuietAccount
     DEF ContractAlreadyFrozen, Die, LeaveLoop, diskVars, RoundPending, RestartPoints,
         FreezePoints
<1>7. CASE MarkFrozen
  BY <1>7, QuietAccount DEF MarkFrozen, RoundPending, RestartPoints, FreezePoints
<1>8. CASE RecordBaseline
  BY <1>8, QuietAccount DEF RecordBaseline, AfterFreeze, RoundPending, RestartPoints, FreezePoints
<1>9. CASE StartRunning
  BY <1>9, QuietAccount DEF StartRunning, RoundPending, RestartPoints, FreezePoints
<1>10. CASE StopRequested
  BY <1>10, FinishAccount DEF StopRequested
<1>11. CASE BudgetExhausted
  BY <1>11, FinishAccount DEF BudgetExhausted
<1>12. CASE RoundsExhausted
  BY <1>12, FinishAccount DEF RoundsExhausted, FinishBounded
<1>13. CASE Overspent
  BY <1>13, FinishAccount DEF Overspent, FinishBounded
<1>14. CASE BudgetLeft
  BY <1>14, QuietAccount DEF BudgetLeft, diskVars, RoundPending, RestartPoints, FreezePoints
<1>15. CASE RoundStart
  BY <1>15
     DEF RoundStart, AccountInv, RoundsAccounted, RoundsPaid, RepairsPaid, TypeOK,
         RoundPending, RestartPoints, FreezePoints
<1>16. CASE BuilderStops
  BY <1>16, FinishAccount DEF BuilderStops, SessionInterrupted, SessionFailed
<1>17. CASE BuilderReturns
  BY <1>17, QuietAccount
     DEF BuilderReturns, SessionReturns, diskVars, RoundPending, RestartPoints, FreezePoints
<1>18. CASE BuilderWorks
  BY <1>18, QuietAccount DEF BuilderWorks, RoundPending, RestartPoints, FreezePoints
<1>19. CASE HostServiceMissing
  BY <1>19, QuietAccount
     DEF HostServiceMissing, Raise, diskVars, RoundPending, RestartPoints, FreezePoints
<1>20. CASE GateFails
  <2>1. pc' \notin RestartPoints /\ rounds' = rounds /\ restarts' = restarts /\ entries' = entries
    BY <1>20 DEF GateFails, RestartPoints
  <2>2. repairs' = repairs + 1 /\ (pc' \in RoundPending => repairs + 1 <= MaxRepairs)
    BY <1>20, BudgetsAssumption DEF GateFails, TypeOK, RoundPending, RestartPoints, FreezePoints
  <2>3. RepairsPaid' \in Nat /\ RepairsPaid' >= RepairsPaid
        /\ (pc' \in RoundPending => RepairsPaid' = RepairsPaid + 1)
    BY <2>2, BudgetsAssumption DEF RepairsPaid, TypeOK
  <2>4. RoundsPaid' = RoundsPaid - RepairsPaid + RepairsPaid'
    BY <2>1, PaidType DEF RoundsPaid
  <2> QED
    BY <2>1, <2>3, <2>4, PaidType DEF AccountInv, RoundsAccounted, TypeOK
<1>21. CASE GateKeptFailing
  BY <1>21, FinishAccount DEF GateKeptFailing, FinishBounded
<1>22. CASE GatePasses
  BY <1>22, QuietAccount DEF GatePasses, diskVars, RoundPending, RestartPoints, FreezePoints
<1>23. CASE SkipUnchanged
  BY <1>23, QuietAccount DEF SkipUnchanged, diskVars, RoundPending, RestartPoints, FreezePoints
<1>24. CASE EvaluationStart
  BY <1>24, QuietAccount DEF EvaluationStart, RoundPending, RestartPoints, FreezePoints
<1>25. CASE EvaluatorStops
  <2>1. CASE SessionInterrupted("evaluator") \/ SessionFailed("evaluator")
    BY <2>1, FinishAccount DEF SessionInterrupted, SessionFailed
  <2>2. CASE SessionRefused("evaluator") /\ Raise
    BY <2>2, QuietAccount DEF Raise, diskVars, RoundPending, RestartPoints, FreezePoints
  <2> QED
    BY <1>25, <2>1, <2>2 DEF EvaluatorStops
<1>26. CASE VerdictRejected
  BY <1>26, QuietAccount
     DEF VerdictRejected, SessionReturns, RoundPending, RestartPoints, FreezePoints
<1>27. CASE VerdictApplied
  BY <1>27, QuietAccount
     DEF VerdictApplied, SessionReturns, RoundPending, RestartPoints, FreezePoints
<1>28. CASE AllCriteriaPass
  BY <1>28, FinishAccount DEF AllCriteriaPass
<1>29. CASE OwnerMustJudge
  BY <1>29, FinishAccount DEF OwnerMustJudge
<1>30. CASE StrategicCheck
  BY <1>30, QuietAccount DEF StrategicCheck, RoundPending, RestartPoints, FreezePoints
<1>31. CASE ResetWithoutBudget
  BY <1>31, FinishAccount DEF ResetWithoutBudget, FinishBounded
<1>32. CASE ScheduleRepair
  <2>1. pc' = "top" /\ rounds' = rounds /\ restarts' = restarts /\ entries' = entries
    BY <1>32 DEF ScheduleRepair
  <2>2. RepairsPaid' = RepairsPaid + 1
    BY <1>32, BudgetsAssumption DEF ScheduleRepair, RepairsPaid, TypeOK
  <2>3. RoundsPaid' = RoundsPaid + 1
    BY <2>1, <2>2, PaidType DEF RoundsPaid
  <2> QED
    BY <2>1, <2>3, PaidType DEF AccountInv, RoundsAccounted, RestartPoints, TypeOK
<1>33. CASE FreshRestart
  <2>1. pc' = "restart" /\ rounds' = rounds /\ repairs' = repairs /\ entries' = entries
    BY <1>33 DEF FreshRestart
  <2>2. restarts' = restarts + 1 /\ repairs >= MaxRepairs
    BY <1>33 DEF FreshRestart
  <2>3. restarts' * (MaxRepairs + 1) = restarts * (MaxRepairs + 1) + MaxRepairs + 1
    BY <2>2, BudgetsAssumption DEF TypeOK
  <2>4. RoundsPaid' = RoundsPaid + MaxRepairs + 1
    <3>1. RepairsPaid' = RepairsPaid
      BY <2>1 DEF RepairsPaid
    <3> DEFINE P == restarts * (MaxRepairs + 1)
    <3>2. RoundsPaid' = entries + (P + MaxRepairs + 1) + RepairsPaid
      BY <2>1, <2>3, <3>1 DEF RoundsPaid
    <3>3. RoundsPaid = entries + P + RepairsPaid
      BY DEF RoundsPaid
    <3>4. P \in Nat /\ RepairsPaid \in Nat /\ entries \in Nat /\ MaxRepairs \in Nat
      BY PaidType, BudgetsAssumption DEF TypeOK
    <3> QED
      <4> HIDE DEF P
      <4> QED
        BY <3>2, <3>3, <3>4
  <2> QED
    BY <2>1, <2>2, <2>4, PaidType, BudgetsAssumption
       DEF AccountInv, RoundsAccounted, RoundPending, RestartPoints, FreezePoints, TypeOK
<1>34. CASE GiveUp
  BY <1>34, FinishAccount DEF GiveUp, FinishBounded
<1>35. CASE KeepWork
  BY <1>35, QuietAccount DEF KeepWork, RoundPending, RestartPoints, FreezePoints
<1>36. CASE AskRestartManager
  BY <1>36, QuietAccount
     DEF AskRestartManager, diskVars, RoundPending, RestartPoints, FreezePoints
<1>37. CASE RestartJudged
  BY <1>37, QuietAccount
     DEF RestartJudged, SessionReturns, RoundPending, RestartPoints, FreezePoints
<1>38. CASE RestartErrorSwallowed
  BY <1>38, QuietAccount DEF RestartErrorSwallowed, RoundPending, RestartPoints, FreezePoints
<1>39. CASE RestartFails
  BY <1>39, FinishAccount DEF RestartFails, SessionFailed
<1>40. CASE ResumeAfterRestart
  <2>1. pc' = "top" /\ rounds' = rounds /\ restarts' = restarts /\ entries' = entries
    BY <1>40 DEF ResumeAfterRestart
  <2>2. RepairsPaid = MaxRepairs /\ rounds + MaxRepairs + 1 <= RoundsPaid
    BY <1>40, BudgetsAssumption
       DEF ResumeAfterRestart, AccountInv, RestartPoints, RepairsPaid, TypeOK
  <2>3. RepairsPaid' = 0
    BY <1>40, BudgetsAssumption DEF ResumeAfterRestart, RepairsPaid
  <2>4. RoundsPaid' = RoundsPaid - MaxRepairs
    BY <2>1, <2>2, <2>3, PaidType DEF RoundsPaid
  <2> QED
    BY <2>1, <2>2, <2>4, PaidType, BudgetsAssumption
       DEF AccountInv, RoundsAccounted, RestartPoints, TypeOK
<1>41. CASE CommandReportsError
  BY <1>41, QuietAccount
     DEF CommandReportsError, Die, LeaveLoop, diskVars, RoundPending, RestartPoints,
         FreezePoints
<1>42. CASE ChainFinishesFailed
  BY <1>42, FinishAccount DEF ChainFinishesFailed
<1>43. CASE Crash
  BY <1>43, QuietAccount
     DEF Crash, Die, LeaveLoop, diskVars, RoundPending, RestartPoints, FreezePoints
<1>44. CASE Signal
  BY <1>44, QuietAccount DEF Signal, diskVars, RoundPending, RestartPoints, FreezePoints
<1>45. CASE StopLive
  BY <1>45, QuietAccount DEF StopLive, RoundPending, RestartPoints, FreezePoints
<1>46. CASE StopFindsNobody
  BY <1>46, QuietAccount DEF StopFindsNobody, RoundPending, RestartPoints, FreezePoints
<1>47. CASE TimeRunsOut
  BY <1>47, QuietAccount DEF TimeRunsOut, RoundPending, RestartPoints, FreezePoints
<1>48. CASE UNCHANGED vars \/ Ended
  BY <1>48, QuietAccount DEF Ended, vars
<1>49. CASE EvaluateRefused
  BY <1>49, QuietAccount
     DEF EvaluateRefused, Raise, diskVars, RoundPending, RestartPoints, FreezePoints
<1>50. CASE StopWrites
  BY <1>50, QuietAccount DEF StopWrites
<1> QED
  BY <1>1, <1>2, <1>3, <1>4, <1>5, <1>6, <1>7, <1>8, <1>9, <1>10, <1>11, <1>12, <1>13,
     <1>14, <1>15, <1>16, <1>17, <1>18, <1>19, <1>20, <1>21, <1>22, <1>23, <1>24, <1>25,
     <1>26, <1>27, <1>28, <1>29, <1>30, <1>31, <1>32, <1>33, <1>34, <1>35, <1>36, <1>37,
     <1>38, <1>39, <1>40, <1>41, <1>42, <1>43, <1>44, <1>45, <1>46, <1>47, <1>48,
     <1>49, <1>50
     DEF Next, Controller, Freeze, LoopHead, Build, Evaluate, Policy, Restart, Escape, Stop

\* Every round of a run - whatever crashes, re-entries, gate failures and restarts it went
\* through - has been paid for by an entry, a repair or a fresh restart.
THEOREM RoundsAreAccounted == Spec => []RoundsAccounted
<1>1. Init => AccountInv
  BY BudgetsAssumption
     DEF Init, AccountInv, RoundsAccounted, RoundsPaid, RepairsPaid, RoundPending,
         RestartPoints, FreezePoints
<1>2. AccountInv => RoundsAccounted
  BY DEF AccountInv
<1> QED
  BY <1>1, <1>2, TypeCorrect, AccountStep, PTL DEF Spec
-----------------------------------------------------------------------------
\* A step that begins no round and no restart, and does not reach the point between the
\* head of the loop and the round.
LEMMA QuietBudget ==
    ASSUME BudgetInv, UNCHANGED <<rounds, restarts>>, pc' = "round" => pc = "round"
    PROVE  BudgetInv'
BY DEF BudgetInv, BudgetsRespected

LEMMA FinishBudget == ASSUME BudgetInv, NEW s, Finish(s) PROVE BudgetInv'
BY QuietBudget DEF Finish, LeaveLoop, counters

\* No step takes a run over its budgets.
LEMMA BudgetStep == TypeOK /\ BudgetInv /\ [Next]_vars => BudgetInv'
<1> SUFFICES ASSUME TypeOK, BudgetInv, [Next]_vars
             PROVE  BudgetInv'
  OBVIOUS
<1> USE DEF Goto, counters, judgement, frozenParts, workspace, process, environment
<1>1. CASE Enter
  BY <1>1, QuietBudget DEF Enter
<1>2. CASE ClearStop
  BY <1>2, QuietBudget DEF ClearStop, AfterFreeze
<1>3. CASE AddWorktree
  BY <1>3, QuietBudget DEF AddWorktree
<1>4. CASE RefuseFreeze
  BY <1>4, QuietBudget DEF RefuseFreeze, Raise, diskVars
<1>5. CASE WriteContract
  BY <1>5, QuietBudget DEF WriteContract
<1>6. CASE ContractAlreadyFrozen
  BY <1>6, QuietBudget DEF ContractAlreadyFrozen, Die, LeaveLoop, diskVars
<1>7. CASE MarkFrozen
  BY <1>7, QuietBudget DEF MarkFrozen
<1>8. CASE RecordBaseline
  BY <1>8, QuietBudget DEF RecordBaseline, AfterFreeze
<1>9. CASE StartRunning
  BY <1>9, QuietBudget DEF StartRunning
<1>10. CASE StopRequested
  BY <1>10, FinishBudget DEF StopRequested
<1>11. CASE BudgetExhausted
  BY <1>11, FinishBudget DEF BudgetExhausted
<1>12. CASE RoundsExhausted
  BY <1>12, FinishBudget DEF RoundsExhausted, FinishBounded
<1>13. CASE Overspent
  BY <1>13, FinishBudget DEF Overspent, FinishBounded
<1>14. CASE BudgetLeft
  BY <1>14 DEF BudgetLeft, diskVars, BudgetInv, BudgetsRespected
<1>15. CASE RoundStart
  BY <1>15, BudgetsAssumption DEF RoundStart, BudgetInv, BudgetsRespected, TypeOK
<1>16. CASE BuilderStops
  BY <1>16, FinishBudget DEF BuilderStops, SessionInterrupted, SessionFailed
<1>17. CASE BuilderReturns
  BY <1>17, QuietBudget DEF BuilderReturns, SessionReturns, diskVars
<1>18. CASE BuilderWorks
  BY <1>18, QuietBudget DEF BuilderWorks
<1>19. CASE HostServiceMissing
  BY <1>19, QuietBudget DEF HostServiceMissing, Raise, diskVars
<1>20. CASE GateFails
  BY <1>20, QuietBudget DEF GateFails
<1>21. CASE GateKeptFailing
  BY <1>21, FinishBudget DEF GateKeptFailing, FinishBounded
<1>22. CASE GatePasses
  BY <1>22, QuietBudget DEF GatePasses, diskVars
<1>23. CASE SkipUnchanged
  BY <1>23, QuietBudget DEF SkipUnchanged, diskVars
<1>24. CASE EvaluationStart
  BY <1>24, QuietBudget DEF EvaluationStart
<1>25. CASE EvaluatorStops
  <2>1. CASE SessionInterrupted("evaluator") \/ SessionFailed("evaluator")
    BY <2>1, FinishBudget DEF SessionInterrupted, SessionFailed
  <2>2. CASE SessionRefused("evaluator") /\ Raise
    BY <2>2, QuietBudget DEF Raise, diskVars
  <2> QED
    BY <1>25, <2>1, <2>2 DEF EvaluatorStops
<1>26. CASE VerdictRejected
  BY <1>26, QuietBudget DEF VerdictRejected, SessionReturns
<1>27. CASE VerdictApplied
  BY <1>27, QuietBudget DEF VerdictApplied, SessionReturns
<1>28. CASE AllCriteriaPass
  BY <1>28, FinishBudget DEF AllCriteriaPass
<1>29. CASE OwnerMustJudge
  BY <1>29, FinishBudget DEF OwnerMustJudge
<1>30. CASE StrategicCheck
  BY <1>30, QuietBudget DEF StrategicCheck
<1>31. CASE ResetWithoutBudget
  BY <1>31, FinishBudget DEF ResetWithoutBudget, FinishBounded
<1>32. CASE ScheduleRepair
  BY <1>32, QuietBudget DEF ScheduleRepair
<1>33. CASE FreshRestart
  BY <1>33, BudgetsAssumption DEF FreshRestart, BudgetInv, BudgetsRespected, TypeOK
<1>34. CASE GiveUp
  BY <1>34, FinishBudget DEF GiveUp, FinishBounded
<1>35. CASE KeepWork
  BY <1>35, QuietBudget DEF KeepWork
<1>36. CASE AskRestartManager
  BY <1>36, QuietBudget DEF AskRestartManager, diskVars
<1>37. CASE RestartJudged
  BY <1>37, QuietBudget DEF RestartJudged, SessionReturns
<1>38. CASE RestartErrorSwallowed
  BY <1>38, QuietBudget DEF RestartErrorSwallowed
<1>39. CASE RestartFails
  BY <1>39, FinishBudget DEF RestartFails, SessionFailed
<1>40. CASE ResumeAfterRestart
  BY <1>40, QuietBudget DEF ResumeAfterRestart
<1>41. CASE CommandReportsError
  BY <1>41, QuietBudget DEF CommandReportsError, Die, LeaveLoop, diskVars
<1>42. CASE ChainFinishesFailed
  BY <1>42, FinishBudget DEF ChainFinishesFailed
<1>43. CASE Crash
  BY <1>43, QuietBudget DEF Crash, Die, LeaveLoop, diskVars
<1>44. CASE Signal
  BY <1>44, QuietBudget DEF Signal, diskVars
<1>45. CASE StopLive
  BY <1>45, QuietBudget DEF StopLive
<1>46. CASE StopFindsNobody
  BY <1>46, QuietBudget DEF StopFindsNobody
<1>47. CASE TimeRunsOut
  BY <1>47, QuietBudget DEF TimeRunsOut
<1>48. CASE UNCHANGED vars \/ Ended
  BY <1>48, QuietBudget DEF Ended, vars
<1>49. CASE EvaluateRefused
  BY <1>49, QuietBudget DEF EvaluateRefused, Raise, diskVars
<1>50. CASE StopWrites
  BY <1>50, QuietBudget DEF StopWrites
<1> QED
  BY <1>1, <1>2, <1>3, <1>4, <1>5, <1>6, <1>7, <1>8, <1>9, <1>10, <1>11, <1>12, <1>13,
     <1>14, <1>15, <1>16, <1>17, <1>18, <1>19, <1>20, <1>21, <1>22, <1>23, <1>24, <1>25,
     <1>26, <1>27, <1>28, <1>29, <1>30, <1>31, <1>32, <1>33, <1>34, <1>35, <1>36, <1>37,
     <1>38, <1>39, <1>40, <1>41, <1>42, <1>43, <1>44, <1>45, <1>46, <1>47, <1>48,
     <1>49, <1>50
     DEF Next, Controller, Freeze, LoopHead, Build, Evaluate, Policy, Restart, Escape, Stop

\* A run never starts more rounds or restarts than its contract allows, however often it
\* crashes and is entered again.
THEOREM BudgetsAreRespected == Spec => []BudgetsRespected
<1>1. Init => BudgetInv
  BY BudgetsAssumption DEF Init, BudgetInv, BudgetsRespected
<1>2. BudgetInv => BudgetsRespected
  BY DEF BudgetInv
<1> QED
  BY <1>1, <1>2, TypeCorrect, BudgetStep, PTL DEF Spec
-----------------------------------------------------------------------------
\* A step of a live controller that neither finishes the run PASSED nor carries a PASS to
\* the point where the loop acts on it.
LEMMA AwayVerdict ==
    ASSUME VerdictInv,
           pc # "idle",
           pc' = "decide" => ev'.overall # "PASS",
           status' # "PASSED" \/ status' = status
    PROVE  VerdictInv'
BY DEF VerdictInv

LEMMA FinishVerdict == ASSUME NEW s, s # "PASSED", Finish(s) PROVE VerdictInv'
BY DEF Finish, LeaveLoop, VerdictInv

LEMMA FinishBoundedVerdict == ASSUME FinishBounded PROVE VerdictInv'
BY BoundedStatusTerminal, FinishVerdict DEF FinishBounded

\* Only an accepted verdict on the present workspace can bring a run to PASSED.
LEMMA VerdictStep == VerdictInv /\ [Next]_vars => VerdictInv'
<1> SUFFICES ASSUME VerdictInv, [Next]_vars
             PROVE  VerdictInv'
  OBVIOUS
<1> USE DEF Goto, counters, judgement, frozenParts, workspace, process, environment
<1>1. CASE Enter
  BY <1>1 DEF Enter, VerdictInv, TerminalStates
<1>2. CASE ClearStop
  BY <1>2, AwayVerdict DEF ClearStop, AfterFreeze
<1>3. CASE AddWorktree
  BY <1>3, AwayVerdict DEF AddWorktree
<1>4. CASE RefuseFreeze
  BY <1>4, AwayVerdict DEF RefuseFreeze, Raise, diskVars
<1>5. CASE WriteContract
  BY <1>5, AwayVerdict DEF WriteContract
<1>6. CASE ContractAlreadyFrozen
  BY <1>6, AwayVerdict DEF ContractAlreadyFrozen, Die, LeaveLoop, diskVars
<1>7. CASE MarkFrozen
  BY <1>7, AwayVerdict DEF MarkFrozen
<1>8. CASE RecordBaseline
  BY <1>8, AwayVerdict DEF RecordBaseline, AfterFreeze
<1>9. CASE StartRunning
  BY <1>9, AwayVerdict DEF StartRunning
<1>10. CASE StopRequested
  BY <1>10, FinishVerdict DEF StopRequested
<1>11. CASE BudgetExhausted
  BY <1>11, FinishVerdict DEF BudgetExhausted
<1>12. CASE RoundsExhausted
  BY <1>12, FinishBoundedVerdict DEF RoundsExhausted
<1>13. CASE Overspent
  BY <1>13, FinishBoundedVerdict DEF Overspent
<1>14. CASE BudgetLeft
  BY <1>14, AwayVerdict DEF BudgetLeft, diskVars
<1>15. CASE RoundStart
  BY <1>15, AwayVerdict DEF RoundStart
<1>16. CASE BuilderStops
  BY <1>16, FinishVerdict DEF BuilderStops, SessionInterrupted, SessionFailed
<1>17. CASE BuilderReturns
  BY <1>17, AwayVerdict DEF BuilderReturns, SessionReturns, diskVars
<1>18. CASE BuilderWorks
  BY <1>18, AwayVerdict DEF BuilderWorks
<1>19. CASE HostServiceMissing
  BY <1>19, AwayVerdict DEF HostServiceMissing, Raise, diskVars
<1>20. CASE GateFails
  BY <1>20, AwayVerdict DEF GateFails
<1>21. CASE GateKeptFailing
  BY <1>21, FinishBoundedVerdict DEF GateKeptFailing
<1>22. CASE GatePasses
  BY <1>22, AwayVerdict DEF GatePasses, diskVars, NoVerdict, NoDeltaVerdict
<1>23. CASE SkipUnchanged
  BY <1>23, AwayVerdict DEF SkipUnchanged, diskVars, NoVerdict
<1>24. CASE EvaluationStart
  BY <1>24, AwayVerdict DEF EvaluationStart
<1>25. CASE EvaluatorStops
  <2>1. CASE SessionInterrupted("evaluator") \/ SessionFailed("evaluator")
    BY <2>1, FinishVerdict DEF SessionInterrupted, SessionFailed
  <2>2. CASE SessionRefused("evaluator") /\ Raise
    BY <2>2, AwayVerdict DEF SessionRefused, Raise, diskVars
  <2> QED
    BY <1>25, <2>1, <2>2 DEF EvaluatorStops
<1>26. CASE VerdictRejected
  BY <1>26, AwayVerdict DEF VerdictRejected, SessionReturns, NoVerdict
<1>27. CASE VerdictApplied
  <2>1. PICK v \in AcceptedVerdicts : criteria' = v.crit /\ ev' = Returned(v)
    BY <1>27 DEF VerdictApplied
  <2>2. /\ pc' = "decide"
        /\ status' = "RUNNING"
        /\ atVerdict'
    BY <1>27 DEF VerdictApplied
  <2>3. ASSUME ev'.overall = "PASS" PROVE AllPass(v.crit) /\ OwnerJudged = {}
    <3>1. v.overall = "PASS"
      BY <2>1, <2>3 DEF Returned
    <3> QED
      BY <3>1, CriteriaAssumption DEF AcceptedVerdicts, AllPass
  <2>4. AllPass(v.crit) => AllPass(criteria)'
    BY <2>1 DEF AllPass
  <2> QED
    BY <2>2, <2>3, <2>4 DEF VerdictInv, Earned
<1>28. CASE AllCriteriaPass
  BY <1>28 DEF AllCriteriaPass, Finish, LeaveLoop, judgement, workspace, VerdictInv, Earned, AllPass,
         NoVerdict
<1>29. CASE OwnerMustJudge
  BY <1>29, FinishVerdict DEF OwnerMustJudge
<1>30. CASE StrategicCheck
  BY <1>30, AwayVerdict DEF StrategicCheck
<1>31. CASE ResetWithoutBudget
  BY <1>31, FinishBoundedVerdict DEF ResetWithoutBudget
<1>32. CASE ScheduleRepair
  BY <1>32, AwayVerdict DEF ScheduleRepair
<1>33. CASE FreshRestart
  BY <1>33, AwayVerdict DEF FreshRestart
<1>34. CASE GiveUp
  BY <1>34, FinishVerdict, FinishBoundedVerdict DEF GiveUp
<1>35. CASE KeepWork
  BY <1>35, AwayVerdict DEF KeepWork
<1>36. CASE AskRestartManager
  BY <1>36, AwayVerdict DEF AskRestartManager, diskVars
<1>37. CASE RestartJudged
  BY <1>37, AwayVerdict DEF RestartJudged, SessionReturns
<1>38. CASE RestartErrorSwallowed
  BY <1>38, AwayVerdict DEF RestartErrorSwallowed
<1>39. CASE RestartFails
  BY <1>39, FinishVerdict DEF RestartFails, SessionFailed
<1>40. CASE ResumeAfterRestart
  BY <1>40, AwayVerdict DEF ResumeAfterRestart
<1>41. CASE CommandReportsError
  BY <1>41, AwayVerdict DEF CommandReportsError, Die, LeaveLoop, diskVars
<1>42. CASE ChainFinishesFailed
  BY <1>42, FinishVerdict DEF ChainFinishesFailed
<1>43. CASE Crash
  BY <1>43, AwayVerdict DEF Crash, Die, LeaveLoop, diskVars
<1>44. CASE Signal
  BY <1>44 DEF Signal, diskVars, VerdictInv, Earned, AllPass
<1>45. CASE StopLive
  BY <1>45 DEF StopLive, VerdictInv, Earned, AllPass
<1>46. CASE StopFindsNobody
  BY <1>46 DEF StopFindsNobody, VerdictInv, Earned, AllPass
<1>47. CASE TimeRunsOut
  BY <1>47 DEF TimeRunsOut, VerdictInv, Earned, AllPass
<1>48. CASE UNCHANGED vars \/ Ended
  BY <1>48 DEF Ended, vars, VerdictInv, Earned, AllPass
<1>49. CASE EvaluateRefused
  BY <1>49, AwayVerdict DEF EvaluateRefused, Raise, diskVars
<1>50. CASE StopWrites
  BY <1>50 DEF StopWrites, VerdictInv, Earned, AllPass
<1> QED
  BY <1>1, <1>2, <1>3, <1>4, <1>5, <1>6, <1>7, <1>8, <1>9, <1>10, <1>11, <1>12, <1>13,
     <1>14, <1>15, <1>16, <1>17, <1>18, <1>19, <1>20, <1>21, <1>22, <1>23, <1>24, <1>25,
     <1>26, <1>27, <1>28, <1>29, <1>30, <1>31, <1>32, <1>33, <1>34, <1>35, <1>36, <1>37,
     <1>38, <1>39, <1>40, <1>41, <1>42, <1>43, <1>44, <1>45, <1>46, <1>47, <1>48,
     <1>49, <1>50
     DEF Next, Controller, Freeze, LoopHead, Build, Evaluate, Policy, Restart, Escape, Stop

\* No run is PASSED on an older verdict than the work it stands for, with a criterion that
\* did not pass, or over the head of the owner - for any contract and any history of
\* crashes, repairs and restarts.
THEOREM PassedRunsAreEarned == Spec => []PassedIsEarned
<1>1. Init => VerdictInv
  BY DEF Init, VerdictInv
<1>2. VerdictInv => PassedIsEarned
  BY DEF VerdictInv, PassedIsEarned, Earned
<1> QED
  BY <1>1, <1>2, VerdictStep, PTL DEF Spec
-----------------------------------------------------------------------------
\* The abstract specification speaks of the same verdicts and statuses.
LEMMA SameVerdicts ==
    /\ Outcome!AcceptedVerdicts = AcceptedVerdicts
    /\ Outcome!TerminalStates = TerminalStates
    /\ Outcome!InitialCriteria = InitialCriteria
    /\ Outcome!AllPass(criteria) = AllPass(criteria)
    /\ Outcome!SomePass(criteria) = SomePass(criteria)
BY DEF Outcome!AcceptedVerdicts, AcceptedVerdicts, Outcome!TerminalStates, TerminalStates,
       Outcome!InitialCriteria, InitialCriteria, Outcome!AllPass, AllPass, Outcome!SomePass,
       SomePass, Outcome!CritVerdicts, CritVerdicts, Outcome!Overall, Overall

\* In the round loop the run is being worked on, or was stopped over the controller's head.
LEMMA AtWork ==
    ASSUME ControlInv, pc \in WorkPoints
    PROVE  pc # "idle" /\ status \in {"STOPPED"} \cup ExecutingStates
BY DEF ControlInv, WorkPoints, InRound, Sessions, RestartPoints

\* The owner does not see the steps between two statuses of a run at work.
LEMMA QuietPromise ==
    ASSUME UNCHANGED <<rounds, criteria, stopping>>,
           \/ status' = status /\ (status = "STOPPED" => pc # "idle" /\ pc' # "idle")
           \/ UNCHANGED <<status, pc>>
           \/ status \in ExecutingStates /\ status' \in ExecutingStates
    PROVE  UNCHANGED Outcome!view
BY DEF Outcome!view, Phase

\* Work begins or goes on, even if somebody else has stopped the run.
LEMMA WorkPromise ==
    ASSUME pc # "idle", status \in {"FROZEN", "STOPPED"} \cup ExecutingStates,
           status' \in ExecutingStates, UNCHANGED <<rounds, criteria, stopping>>
    PROVE  Outcome!Next \/ UNCHANGED Outcome!view
<1>1. CASE status \in ExecutingStates
  BY <1>1, QuietPromise
<1>2. CASE status \notin ExecutingStates
  <2>1. Phase \in {"FROZEN", "overruled"} /\ Phase' = "working"
    BY <1>2 DEF Phase, ExecutingStates
  <2> QED
    BY <2>1 DEF Outcome!Next, Outcome!Begin
<1> QED
  BY <1>1, <1>2

\* A run at work ends as its criteria justify.
LEMMA EndPromise ==
    ASSUME pc # "idle", status \in {"STOPPED"} \cup ExecutingStates,
           NEW s \in TerminalStates, Finish(s),
           s = "PASSED" => AllPass(criteria),
           s = "PARTIAL_PASS" => SomePass(criteria) /\ ~AllPass(criteria),
           s = "RESET_RECOMMENDED" => ~SomePass(criteria) \/ AllPass(criteria)
    PROVE  Outcome!Next
<1>1. /\ Phase \in {"working", "overruled"} /\ Phase' = s
      /\ UNCHANGED <<rounds, criteria, stopping>>
  BY DEF Finish, LeaveLoop, counters, judgement, environment, Phase, ExecutingStates, TerminalStates
<1>2. Phase \notin TerminalStates
  BY <1>1 DEF TerminalStates
<1> QED
  BY <1>1, <1>2, SameVerdicts DEF Outcome!Next, Outcome!End, Outcome!Justified

LEMMA BoundedPromise ==
    ASSUME pc # "idle", status \in {"STOPPED"} \cup ExecutingStates, FinishBounded
    PROVE  Outcome!Next
<1>1. BoundedStatus(criteria) \in TerminalStates
  BY BoundedStatusTerminal DEF TerminalStates
<1> QED
  BY <1>1, EndPromise DEF FinishBounded, BoundedStatus

LEMMA SessionEndsPromise ==
    ASSUME ControlInv, NEW role \in Sessions, SessionInterrupted(role) \/ SessionFailed(role)
    PROVE  Outcome!Next
<1>1. pc # "idle" /\ status \in {"STOPPED"} \cup ExecutingStates
  BY AtWork DEF SessionInterrupted, SessionFailed, WorkPoints, InRound
<1> QED
  BY <1>1, EndPromise DEF SessionInterrupted, SessionFailed, TerminalStates

\* When the controller of a stopped run dies, nobody works against the stop any more.
LEMMA DiePromise == ASSUME pc # "idle", Die PROVE Outcome!Next \/ UNCHANGED Outcome!view
<1>1. UNCHANGED <<status, rounds, criteria, stopping>> /\ pc' = "idle"
  BY DEF Die, LeaveLoop, diskVars
<1>2. CASE status # "STOPPED"
  BY <1>1, <1>2, QuietPromise
<1>3. CASE status = "STOPPED"
  <2>1. Phase = "overruled" /\ Phase' = "STOPPED"
    BY <1>1, <1>3 DEF Phase, ExecutingStates
  <2>2. "STOPPED" \in TerminalStates /\ "overruled" \notin TerminalStates
    BY DEF TerminalStates
  <2> QED
    BY <1>1, <2>1, <2>2, SameVerdicts DEF Outcome!Next, Outcome!End, Outcome!Justified
<1> QED
  BY <1>2, <1>3

\* Every step of a run is a step of what its owner was promised, or one that he does not see.
LEMMA PromiseStep ==
    TypeOK /\ ControlInv /\ BudgetInv /\ VerdictInv /\ [Next]_vars
    => [Outcome!Next]_(Outcome!view)
<1> SUFFICES ASSUME TypeOK, ControlInv, BudgetInv, VerdictInv, [Next]_vars
             PROVE  Outcome!Next \/ UNCHANGED Outcome!view
  OBVIOUS
<1> USE DEF Goto, counters, judgement, frozenParts, workspace, process, environment,
            WorkPoints, InRound, RestartPoints
<1>1. CASE Enter
  <2>1. status # "STOPPED" /\ UNCHANGED <<status, rounds, criteria, stopping>>
    BY <1>1 DEF Enter, TerminalStates
  <2> QED
    BY <2>1, QuietPromise
<1>2. CASE ClearStop
  BY <1>2, QuietPromise DEF ClearStop, AfterFreeze
<1>3. CASE AddWorktree
  BY <1>3, QuietPromise DEF AddWorktree
<1>4. CASE RefuseFreeze
  BY <1>4, QuietPromise DEF RefuseFreeze, Raise, diskVars
<1>5. CASE WriteContract
  BY <1>5, QuietPromise DEF WriteContract
<1>6. CASE ContractAlreadyFrozen
  BY <1>6, DiePromise DEF ContractAlreadyFrozen
<1>7. CASE MarkFrozen
  <2>1. /\ Phase = "PLANNED" \/ (Phase = "overruled" /\ rounds = 0)
        /\ Phase' = "FROZEN"
        /\ UNCHANGED <<rounds, criteria, stopping>>
    BY <1>7 DEF MarkFrozen, ControlInv, Phase, ExecutingStates
  <2> QED
    BY <2>1 DEF Outcome!Next, Outcome!Freeze
<1>8. CASE RecordBaseline
  BY <1>8, QuietPromise DEF RecordBaseline, AfterFreeze
<1>9. CASE StartRunning
  BY <1>9, WorkPromise DEF StartRunning, ControlInv, ExecutingStates
<1>10. CASE StopRequested
  BY <1>10, AtWork, EndPromise DEF StopRequested, TerminalStates
<1>11. CASE BudgetExhausted
  BY <1>11, AtWork, EndPromise DEF BudgetExhausted, TerminalStates
<1>12. CASE RoundsExhausted
  BY <1>12, AtWork, BoundedPromise DEF RoundsExhausted
<1>13. CASE Overspent
  BY <1>13, AtWork, BoundedPromise DEF Overspent
<1>14. CASE BudgetLeft
  BY <1>14, QuietPromise DEF BudgetLeft, diskVars
<1>15. CASE RoundStart
  <2>1. pc # "idle" /\ status \in {"STOPPED"} \cup ExecutingStates /\ rounds < MaxRounds
    BY <1>15, AtWork DEF RoundStart, BudgetInv
  <2>2. Phase \in {"working", "overruled"} /\ Phase' = "working"
    BY <1>15, <2>1 DEF RoundStart, Phase, ExecutingStates
  <2>3. rounds' = rounds + 1 /\ UNCHANGED <<criteria, stopping>>
    BY <1>15 DEF RoundStart
  <2> QED
    BY <2>1, <2>2, <2>3 DEF Outcome!Next, Outcome!Round
<1>16. CASE BuilderStops
  BY <1>16, SessionEndsPromise DEF BuilderStops, Sessions
<1>17. CASE BuilderReturns
  BY <1>17, QuietPromise DEF BuilderReturns, SessionReturns, diskVars
<1>18. CASE BuilderWorks
  BY <1>18, QuietPromise DEF BuilderWorks
<1>19. CASE HostServiceMissing
  BY <1>19, QuietPromise DEF HostServiceMissing, Raise, diskVars
<1>20. CASE GateFails
  BY <1>20, QuietPromise DEF GateFails
<1>21. CASE GateKeptFailing
  BY <1>21, AtWork, BoundedPromise DEF GateKeptFailing
<1>22. CASE GatePasses
  BY <1>22, QuietPromise DEF GatePasses, diskVars
<1>23. CASE SkipUnchanged
  BY <1>23, QuietPromise DEF SkipUnchanged, diskVars
<1>24. CASE EvaluationStart
  BY <1>24, AtWork, WorkPromise DEF EvaluationStart, ExecutingStates
<1>25. CASE EvaluatorStops
  <2>1. CASE SessionInterrupted("evaluator") \/ SessionFailed("evaluator")
    BY <2>1, SessionEndsPromise DEF Sessions
  <2>2. CASE SessionRefused("evaluator") /\ Raise
    BY <2>2, QuietPromise DEF SessionRefused, Raise, diskVars
  <2> QED
    BY <1>25, <2>1, <2>2 DEF EvaluatorStops
<1>26. CASE VerdictRejected
  BY <1>26, AtWork, WorkPromise DEF VerdictRejected, SessionReturns, Sessions, ExecutingStates
<1>27. CASE VerdictApplied
  <2>1. pc # "idle" /\ status \in {"STOPPED"} \cup ExecutingStates /\ rounds > 0
    BY <1>27, AtWork DEF VerdictApplied, SessionReturns, ControlInv, InRound, Sessions
  <2>2. Phase \in {"working", "overruled"} /\ Phase' = "working" /\ status' \in ExecutingStates
    BY <1>27, <2>1 DEF VerdictApplied, Phase, ExecutingStates
  <2>3. UNCHANGED <<rounds, stopping>> /\ criteria' \in {v.crit : v \in Outcome!AcceptedVerdicts}
    BY <1>27, SameVerdicts DEF VerdictApplied
  <2>4. CASE criteria' = criteria
    BY <2>1, <2>2, <2>3, <2>4, WorkPromise
  <2>5. CASE criteria' # criteria
    BY <2>1, <2>2, <2>3, <2>5 DEF Outcome!Next, Outcome!Judge
  <2> QED
    BY <2>4, <2>5
<1>28. CASE AllCriteriaPass
  <2>1. pc # "idle" /\ status \in {"STOPPED"} \cup ExecutingStates /\ AllPass(criteria)
    BY <1>28, AtWork DEF AllCriteriaPass, VerdictInv, Earned
  <2> QED
    BY <1>28, <2>1, EndPromise DEF AllCriteriaPass, TerminalStates
<1>29. CASE OwnerMustJudge
  BY <1>29, AtWork, EndPromise DEF OwnerMustJudge, TerminalStates
<1>30. CASE StrategicCheck
  BY <1>30, QuietPromise DEF StrategicCheck
<1>31. CASE ResetWithoutBudget
  BY <1>31, AtWork, BoundedPromise DEF ResetWithoutBudget
<1>32. CASE ScheduleRepair
  BY <1>32, QuietPromise DEF ScheduleRepair
<1>33. CASE FreshRestart
  BY <1>33, AtWork, WorkPromise DEF FreshRestart, ExecutingStates
<1>34. CASE GiveUp
  BY <1>34, AtWork, EndPromise, BoundedPromise DEF GiveUp, TerminalStates
<1>35. CASE KeepWork
  BY <1>35, AtWork, WorkPromise DEF KeepWork, ExecutingStates
<1>36. CASE AskRestartManager
  BY <1>36, QuietPromise DEF AskRestartManager, diskVars
<1>37. CASE RestartJudged
  BY <1>37, AtWork, WorkPromise DEF RestartJudged, SessionReturns, ExecutingStates
<1>38. CASE RestartErrorSwallowed
  BY <1>38, AtWork, WorkPromise DEF RestartErrorSwallowed, ExecutingStates
<1>39. CASE RestartFails
  BY <1>39, SessionEndsPromise DEF RestartFails, Sessions
<1>40. CASE ResumeAfterRestart
  BY <1>40, QuietPromise DEF ResumeAfterRestart
<1>41. CASE CommandReportsError
  BY <1>41, DiePromise DEF CommandReportsError
<1>42. CASE ChainFinishesFailed
  <2>1. pc # "idle" /\ status \in {"STOPPED"} \cup ExecutingStates
    BY <1>42 DEF ChainFinishesFailed, ControlInv, TypeOK
  <2> QED
    BY <1>42, <2>1, EndPromise DEF ChainFinishesFailed, TerminalStates
<1>43. CASE Crash
  BY <1>43, DiePromise DEF Crash
<1>44. CASE Signal
  BY <1>44, QuietPromise DEF Signal, diskVars
<1>45. CASE StopLive
  <2>1. CASE UNCHANGED stopping
    BY <1>45, <2>1, QuietPromise DEF StopLive
  <2>2. CASE stopping = "none" /\ stopping' # "none" /\ status \notin TerminalStates
    <3>1. Phase \notin {"overruled"} \cup TerminalStates /\ Phase' = Phase
      BY <1>45, <2>2 DEF StopLive, TypeOK, ActiveStates, Phase, ExecutingStates, TerminalStates
    <3>2. UNCHANGED <<rounds, criteria>>
      BY <1>45 DEF StopLive
    <3> QED
      BY <2>2, <3>1, <3>2, SameVerdicts DEF Outcome!Next, Outcome!StopLooks
  <2> QED
    BY <1>45, <2>1, <2>2 DEF StopLive
<1>46. CASE StopFindsNobody
  <2>1. CASE stopping # "none" /\ stopping' # "none"
    BY <1>46, <2>1 DEF StopFindsNobody, Outcome!view, Phase
  <2>2. CASE stopping = "none" /\ stopping' # "none" /\ status \notin TerminalStates
    <3>1. Phase \notin {"overruled"} \cup TerminalStates /\ Phase' = Phase
      BY <1>46, <2>2 DEF StopFindsNobody, TypeOK, ActiveStates, Phase, ExecutingStates, TerminalStates
    <3>2. UNCHANGED <<rounds, criteria>>
      BY <1>46 DEF StopFindsNobody
    <3> QED
      BY <2>2, <3>1, <3>2, SameVerdicts DEF Outcome!Next, Outcome!StopLooks
  <2> QED
    BY <1>46, <2>1, <2>2 DEF StopFindsNobody
<1>47. CASE TimeRunsOut
  BY <1>47, QuietPromise DEF TimeRunsOut
<1>48. CASE UNCHANGED vars \/ Ended
  BY <1>48, QuietPromise DEF Ended, vars
<1>49. CASE EvaluateRefused
  BY <1>49, QuietPromise DEF EvaluateRefused, Raise, diskVars
<1>50. CASE StopWrites
  <2>1. /\ stopping # "none" /\ stopping' = "none"
        /\ UNCHANGED <<rounds, criteria>>
        /\ Phase' = "STOPPED" \/ Phase' = "overruled"
    BY <1>50 DEF StopWrites, Phase, ExecutingStates
  <2>2. ASSUME Phase' = "overruled" PROVE Phase \notin TerminalStates
    BY <1>50, <2>2 DEF StopWrites, ControlInv, Phase, TerminalStates, ExecutingStates
  <2> QED
    BY <2>1, <2>2, SameVerdicts DEF Outcome!Next, Outcome!StopWrites
<1> QED
  BY <1>1, <1>2, <1>3, <1>4, <1>5, <1>6, <1>7, <1>8, <1>9, <1>10, <1>11, <1>12, <1>13,
     <1>14, <1>15, <1>16, <1>17, <1>18, <1>19, <1>20, <1>21, <1>22, <1>23, <1>24, <1>25,
     <1>26, <1>27, <1>28, <1>29, <1>30, <1>31, <1>32, <1>33, <1>34, <1>35, <1>36, <1>37,
     <1>38, <1>39, <1>40, <1>41, <1>42, <1>43, <1>44, <1>45, <1>46, <1>47, <1>48,
     <1>49, <1>50
     DEF Next, Controller, Freeze, LoopHead, Build, Evaluate, Policy, Restart, Escape, Stop

\* A run implements what its owner was promised: it is frozen before it is worked on, judged
\* only after work and in bounded rounds, and ended with a status its criteria justify, once -
\* unless a stop looked at it before its end and writes after it.
THEOREM RunKeepsPromise == Spec => KeepsPromise
<1>1. Init => Outcome!Init
  BY SameVerdicts DEF Init, Outcome!Init, Phase, ExecutingStates
<1>2. Init => BudgetInv /\ VerdictInv
  BY BudgetsAssumption DEF Init, BudgetInv, BudgetsRespected, VerdictInv
<1> QED
  BY <1>1, <1>2, TypeCorrect, ControlCorrect, BudgetStep, VerdictStep, PromiseStep, PTL
     DEF Spec, KeepsPromise, Outcome!Spec
-----------------------------------------------------------------------------
\* A step that begins no round, asks nobody to stop and reaches neither the point between the
\* head of the loop and the round nor the end of the process.
LEMMA QuietStop ==
    ASSUME StopInv, UNCHANGED <<rounds, stopFile, stopAt>>,
           pc' = "round" => pc = "round",
           pc' # "idle" \/ (pc = "idle" /\ status' = status)
    PROVE  StopInv'
BY DEF StopInv

LEMMA FinishStop == ASSUME StopInv, NEW s \in TerminalStates, Finish(s) PROVE StopInv'
BY DEF StopInv, Finish, LeaveLoop, counters, environment

LEMMA FinishBoundedStop == ASSUME StopInv, FinishBounded PROVE StopInv'
<1>1. BoundedStatus(criteria) \in TerminalStates
  BY BoundedStatusTerminal DEF TerminalStates
<1> QED
  BY <1>1, FinishStop DEF FinishBounded

LEMMA DieStop == ASSUME Die PROVE StopInv'
BY DEF Die, LeaveLoop, StopInv

\* No step lets a second round begin under a STOP file that a live controller promised to heed.
LEMMA StopStep ==
    ASSUME TypeOK, ControlInv, StopInv, [Next]_vars
    PROVE  StopInv'
<1> USE DEF Goto, counters, judgement, frozenParts, workspace, process, environment
<1>1. CASE Enter
  BY <1>1 DEF Enter, StopInv
<1>2. CASE ClearStop
  BY <1>2 DEF ClearStop, AfterFreeze, StopInv
<1>3. CASE AddWorktree
  BY <1>3, QuietStop DEF AddWorktree
<1>4. CASE RefuseFreeze
  BY <1>4, QuietStop DEF RefuseFreeze, Raise, diskVars
<1>5. CASE WriteContract
  BY <1>5, QuietStop DEF WriteContract
<1>6. CASE ContractAlreadyFrozen
  BY <1>6, DieStop DEF ContractAlreadyFrozen
<1>7. CASE MarkFrozen
  BY <1>7, QuietStop DEF MarkFrozen
<1>8. CASE RecordBaseline
  BY <1>8, QuietStop DEF RecordBaseline, AfterFreeze
<1>9. CASE StartRunning
  BY <1>9, QuietStop DEF StartRunning
<1>10. CASE StopRequested
  BY <1>10, FinishStop DEF StopRequested, TerminalStates
<1>11. CASE BudgetExhausted
  BY <1>11, FinishStop DEF BudgetExhausted, TerminalStates
<1>12. CASE RoundsExhausted
  BY <1>12, FinishBoundedStop DEF RoundsExhausted
<1>13. CASE Overspent
  BY <1>13, FinishBoundedStop DEF Overspent
<1>14. CASE BudgetLeft
  BY <1>14 DEF BudgetLeft, diskVars, StopInv
<1>15. CASE RoundStart
  BY <1>15 DEF RoundStart, StopInv, TypeOK
<1>16. CASE BuilderStops
  BY <1>16, FinishStop DEF BuilderStops, SessionInterrupted, SessionFailed, TerminalStates
<1>17. CASE BuilderReturns
  BY <1>17, QuietStop DEF BuilderReturns, SessionReturns, diskVars
<1>18. CASE BuilderWorks
  BY <1>18, QuietStop DEF BuilderWorks
<1>19. CASE HostServiceMissing
  BY <1>19, QuietStop DEF HostServiceMissing, Raise, diskVars
<1>20. CASE GateFails
  BY <1>20, QuietStop DEF GateFails
<1>21. CASE GateKeptFailing
  BY <1>21, FinishBoundedStop DEF GateKeptFailing
<1>22. CASE GatePasses
  BY <1>22, QuietStop DEF GatePasses, diskVars
<1>23. CASE SkipUnchanged
  BY <1>23, QuietStop DEF SkipUnchanged, diskVars
<1>24. CASE EvaluationStart
  BY <1>24, QuietStop DEF EvaluationStart
<1>25. CASE EvaluatorStops
  <2>1. CASE SessionInterrupted("evaluator") \/ SessionFailed("evaluator")
    BY <2>1, FinishStop DEF SessionInterrupted, SessionFailed, TerminalStates
  <2>2. CASE SessionRefused("evaluator") /\ Raise
    BY <2>2, QuietStop DEF SessionRefused, Raise, diskVars
  <2> QED
    BY <1>25, <2>1, <2>2 DEF EvaluatorStops
<1>26. CASE VerdictRejected
  BY <1>26, QuietStop DEF VerdictRejected, SessionReturns
<1>27. CASE VerdictApplied
  BY <1>27, QuietStop DEF VerdictApplied, SessionReturns
<1>28. CASE AllCriteriaPass
  BY <1>28, FinishStop DEF AllCriteriaPass, TerminalStates
<1>29. CASE OwnerMustJudge
  BY <1>29, FinishStop DEF OwnerMustJudge, TerminalStates
<1>30. CASE StrategicCheck
  BY <1>30, QuietStop DEF StrategicCheck
<1>31. CASE ResetWithoutBudget
  BY <1>31, FinishBoundedStop DEF ResetWithoutBudget
<1>32. CASE ScheduleRepair
  BY <1>32, QuietStop DEF ScheduleRepair
<1>33. CASE FreshRestart
  BY <1>33, QuietStop DEF FreshRestart
<1>34. CASE GiveUp
  BY <1>34, FinishStop, FinishBoundedStop DEF GiveUp, TerminalStates
<1>35. CASE KeepWork
  BY <1>35, QuietStop DEF KeepWork
<1>36. CASE AskRestartManager
  BY <1>36, QuietStop DEF AskRestartManager, diskVars
<1>37. CASE RestartJudged
  BY <1>37, QuietStop DEF RestartJudged, SessionReturns
<1>38. CASE RestartErrorSwallowed
  BY <1>38, QuietStop DEF RestartErrorSwallowed
<1>39. CASE RestartFails
  BY <1>39, FinishStop DEF RestartFails, SessionFailed, TerminalStates
<1>40. CASE ResumeAfterRestart
  BY <1>40, QuietStop DEF ResumeAfterRestart
<1>41. CASE CommandReportsError
  BY <1>41, DieStop DEF CommandReportsError
<1>42. CASE ChainFinishesFailed
  BY <1>42, FinishStop DEF ChainFinishesFailed, TerminalStates
<1>43. CASE Crash
  BY <1>43, DieStop DEF Crash
<1>44. CASE Signal
  BY <1>44, QuietStop DEF Signal, diskVars
<1>45. CASE StopLive
  BY <1>45 DEF StopLive, StopInv, TypeOK, NotAsked
<1>46. CASE StopFindsNobody
  BY <1>46 DEF StopFindsNobody, StopInv, TerminalStates
<1>47. CASE TimeRunsOut
  BY <1>47, QuietStop DEF TimeRunsOut
<1>48. CASE UNCHANGED vars \/ Ended
  BY <1>48, QuietStop DEF Ended, vars
<1>49. CASE EvaluateRefused
  BY <1>49, QuietStop DEF EvaluateRefused, Raise, diskVars
<1>50. CASE StopWrites
  BY <1>50 DEF StopWrites, StopInv, TerminalStates
<1> QED
  BY <1>1, <1>2, <1>3, <1>4, <1>5, <1>6, <1>7, <1>8, <1>9, <1>10, <1>11, <1>12, <1>13,
     <1>14, <1>15, <1>16, <1>17, <1>18, <1>19, <1>20, <1>21, <1>22, <1>23, <1>24, <1>25,
     <1>26, <1>27, <1>28, <1>29, <1>30, <1>31, <1>32, <1>33, <1>34, <1>35, <1>36, <1>37,
     <1>38, <1>39, <1>40, <1>41, <1>42, <1>43, <1>44, <1>45, <1>46, <1>47, <1>48,
     <1>49, <1>50
     DEF Next, Controller, Freeze, LoopHead, Build, Evaluate, Policy, Restart, Escape, Stop

\* However signals, crashes and re-entries fall: once a live controller has been asked to stop,
\* at most the round begins whose head had already looked.
THEOREM StopEndsRounds == Spec => []StopBoundsRounds
<1>1. Init => StopInv
  BY DEF Init, StopInv
<1>2. TypeOK /\ ControlInv /\ StopInv /\ [Next]_vars => StopInv'
  BY StopStep
<1>3. StopInv => StopBoundsRounds
  BY DEF StopInv, StopBoundsRounds
<1> QED
  BY <1>1, <1>2, <1>3, TypeCorrect, ControlCorrect, PTL DEF Spec
-----------------------------------------------------------------------------
\* A step of a process whose session, if it is in one, was not killed.
LEMMA QuietSignal ==
    ASSUME SignalInv, pc # "idle", signal # pc, UNCHANGED signal
    PROVE  SignalInv'
BY DEF SignalInv

LEMMA FinishSignal ==
    ASSUME SignalInv, pc # "idle", signal # pc, NEW s, Finish(s)
    PROVE  SignalInv'
BY QuietSignal DEF Finish, environment

LEMMA FinishBoundedSignal ==
    ASSUME SignalInv, pc # "idle", signal # pc, FinishBounded
    PROVE  SignalInv'
BY FinishSignal DEF FinishBounded

LEMMA DieSignal == ASSUME Die PROVE SignalInv'
BY DEF Die, SignalInv

LEMMA SessionEndsSignal ==
    ASSUME SignalInv, NEW role \in Sessions, SessionInterrupted(role) \/ SessionFailed(role)
    PROVE  SignalInv'
<1>1. role # "idle"
  BY DEF Sessions
<1>2. CASE SessionInterrupted(role)
  BY <1>2 DEF SessionInterrupted, SignalInv, Finish, LeaveLoop, environment,
                TerminalStates
<1>3. CASE SessionFailed(role)
  BY <1>1, <1>3, FinishSignal DEF SessionFailed
<1> QED
  BY <1>2, <1>3

\* Away from the sessions no signal names the place where the process is.
LEMMA NoSignalHere == ASSUME TypeOK, pc \notin Sessions, pc # "none" PROVE signal # pc
<1>1. CASE pc = "flagged"
  BY <1>1 DEF TypeOK, PCs, Sessions, FreezePoints
<1> QED
  BY <1>1 DEF TypeOK

\* No step leaves a session that a signal killed, but to the end of the run.
LEMMA SignalStep ==
    ASSUME TypeOK, ControlInv, SignalInv, [Next]_vars
    PROVE  SignalInv'
<1> USE DEF Goto, counters, judgement, frozenParts, workspace, process, environment
<1>1. CASE Enter
  BY <1>1 DEF Enter, SignalInv
<1>2. CASE ClearStop
  BY <1>2, QuietSignal, NoSignalHere DEF ClearStop, AfterFreeze, Sessions
<1>3. CASE AddWorktree
  BY <1>3, QuietSignal, NoSignalHere DEF AddWorktree, Sessions
<1>4. CASE RefuseFreeze
  BY <1>4, QuietSignal, NoSignalHere DEF RefuseFreeze, Raise, diskVars, Sessions
<1>5. CASE WriteContract
  BY <1>5, QuietSignal, NoSignalHere DEF WriteContract, Sessions
<1>6. CASE ContractAlreadyFrozen
  BY <1>6, DieSignal DEF ContractAlreadyFrozen
<1>7. CASE MarkFrozen
  BY <1>7, QuietSignal, NoSignalHere DEF MarkFrozen, Sessions
<1>8. CASE RecordBaseline
  BY <1>8, QuietSignal, NoSignalHere DEF RecordBaseline, AfterFreeze, Sessions
<1>9. CASE StartRunning
  BY <1>9, QuietSignal, NoSignalHere DEF StartRunning, Sessions
<1>10. CASE StopRequested
  BY <1>10, FinishSignal, NoSignalHere DEF StopRequested, TerminalStates, Sessions
<1>11. CASE BudgetExhausted
  BY <1>11, FinishSignal, NoSignalHere DEF BudgetExhausted, TerminalStates, Sessions
<1>12. CASE RoundsExhausted
  BY <1>12, FinishBoundedSignal, NoSignalHere DEF RoundsExhausted, Sessions
<1>13. CASE Overspent
  BY <1>13, FinishBoundedSignal, NoSignalHere DEF Overspent, Sessions
<1>14. CASE BudgetLeft
  BY <1>14, QuietSignal, NoSignalHere DEF BudgetLeft, diskVars, Sessions
<1>15. CASE RoundStart
  BY <1>15, QuietSignal, NoSignalHere DEF RoundStart, Sessions
<1>16. CASE BuilderStops
  BY <1>16, SessionEndsSignal DEF BuilderStops, Sessions
<1>17. CASE BuilderReturns
  BY <1>17, QuietSignal, NoSignalHere DEF BuilderReturns, SessionReturns, diskVars, Sessions
<1>18. CASE BuilderWorks
  BY <1>18 DEF BuilderWorks, SignalInv
<1>19. CASE HostServiceMissing
  BY <1>19, QuietSignal, NoSignalHere DEF HostServiceMissing, Raise, diskVars, Sessions
<1>20. CASE GateFails
  BY <1>20, QuietSignal, NoSignalHere DEF GateFails, Sessions
<1>21. CASE GateKeptFailing
  BY <1>21, FinishBoundedSignal, NoSignalHere DEF GateKeptFailing, Sessions
<1>22. CASE GatePasses
  BY <1>22, QuietSignal, NoSignalHere DEF GatePasses, diskVars, Sessions
<1>23. CASE SkipUnchanged
  BY <1>23, QuietSignal, NoSignalHere DEF SkipUnchanged, diskVars, Sessions
<1>24. CASE EvaluationStart
  BY <1>24, QuietSignal, NoSignalHere DEF EvaluationStart, Sessions
<1>25. CASE EvaluatorStops
  <2>1. CASE SessionInterrupted("evaluator") \/ SessionFailed("evaluator")
    BY <2>1, SessionEndsSignal DEF Sessions
  <2>2. CASE SessionRefused("evaluator") /\ Raise
    BY <2>2, QuietSignal DEF SessionRefused, Raise
  <2> QED
    BY <1>25, <2>1, <2>2 DEF EvaluatorStops
<1>26. CASE VerdictRejected
  BY <1>26, QuietSignal, NoSignalHere DEF VerdictRejected, SessionReturns, Sessions
<1>27. CASE VerdictApplied
  BY <1>27, QuietSignal, NoSignalHere DEF VerdictApplied, SessionReturns, Sessions
<1>28. CASE AllCriteriaPass
  BY <1>28, FinishSignal, NoSignalHere DEF AllCriteriaPass, TerminalStates, Sessions
<1>29. CASE OwnerMustJudge
  BY <1>29, FinishSignal, NoSignalHere DEF OwnerMustJudge, TerminalStates, Sessions
<1>30. CASE StrategicCheck
  BY <1>30, QuietSignal, NoSignalHere DEF StrategicCheck, Sessions
<1>31. CASE ResetWithoutBudget
  BY <1>31, FinishBoundedSignal, NoSignalHere DEF ResetWithoutBudget, Sessions
<1>32. CASE ScheduleRepair
  BY <1>32, QuietSignal, NoSignalHere DEF ScheduleRepair, Sessions
<1>33. CASE FreshRestart
  BY <1>33, QuietSignal, NoSignalHere DEF FreshRestart, Sessions
<1>34. CASE GiveUp
  BY <1>34, FinishSignal, FinishBoundedSignal, NoSignalHere DEF GiveUp, TerminalStates, Sessions
<1>35. CASE KeepWork
  BY <1>35, QuietSignal, NoSignalHere DEF KeepWork, Sessions
<1>36. CASE AskRestartManager
  BY <1>36, QuietSignal, NoSignalHere DEF AskRestartManager, diskVars, Sessions
<1>37. CASE RestartJudged
  BY <1>37, QuietSignal, NoSignalHere DEF RestartJudged, SessionReturns, Sessions
<1>38. CASE RestartErrorSwallowed
  BY <1>38 DEF RestartErrorSwallowed, SignalInv
<1>39. CASE RestartFails
  BY <1>39, SessionEndsSignal DEF RestartFails, Sessions
<1>40. CASE ResumeAfterRestart
  BY <1>40, QuietSignal, NoSignalHere DEF ResumeAfterRestart, Sessions
<1>41. CASE CommandReportsError
  BY <1>41, DieSignal DEF CommandReportsError
<1>42. CASE ChainFinishesFailed
  BY <1>42, FinishSignal, NoSignalHere DEF ChainFinishesFailed, TerminalStates, Sessions
<1>43. CASE Crash
  BY <1>43, DieSignal DEF Crash
<1>44. CASE Signal
  BY <1>44 DEF Signal, SignalInv, diskVars, Sessions
<1>45. CASE StopLive
  BY <1>45 DEF StopLive, SignalInv, TerminalStates
<1>46. CASE StopFindsNobody
  BY <1>46 DEF StopFindsNobody, SignalInv, TerminalStates
<1>47. CASE TimeRunsOut
  BY <1>47 DEF TimeRunsOut, SignalInv, TerminalStates
<1>48. CASE UNCHANGED vars \/ Ended
  BY <1>48 DEF Ended, vars, SignalInv
<1>49. CASE EvaluateRefused
  BY <1>49, QuietSignal, NoSignalHere DEF EvaluateRefused, Raise, diskVars, Sessions
<1>50. CASE StopWrites
  BY <1>50 DEF StopWrites, SignalInv, TerminalStates
<1> QED
  BY <1>1, <1>2, <1>3, <1>4, <1>5, <1>6, <1>7, <1>8, <1>9, <1>10, <1>11, <1>12, <1>13,
     <1>14, <1>15, <1>16, <1>17, <1>18, <1>19, <1>20, <1>21, <1>22, <1>23, <1>24, <1>25,
     <1>26, <1>27, <1>28, <1>29, <1>30, <1>31, <1>32, <1>33, <1>34, <1>35, <1>36, <1>37,
     <1>38, <1>39, <1>40, <1>41, <1>42, <1>43, <1>44, <1>45, <1>46, <1>47, <1>48,
     <1>49, <1>50
     DEF Next, Controller, Freeze, LoopHead, Build, Evaluate, Policy, Restart, Escape, Stop

\* A process whose builder or evaluator was killed reports it, if it ends at all without a crash.
LEMMA KilledStep ==
    ASSUME SignalInv, [Next]_vars,
           pc # "idle", pc' = "idle", signal' \in {"builder", "evaluator"}
    PROVE  status' = "INTERRUPTED"
<1> USE DEF Goto, counters, judgement, frozenParts, workspace, process, environment
<1>1. ~Die /\ ~Raise
  BY DEF Die, Raise
<1>2. ASSUME NEW s, Finish(s) PROVE pc = signal /\ pc \in {"builder", "evaluator"}
  BY <1>2 DEF Finish, SignalInv
<1>3. CASE ClearStop \/ Freeze \/ StartRunning
  BY <1>1, <1>3
     DEF ClearStop, AfterFreeze, Freeze, AddWorktree, RefuseFreeze, WriteContract,
         ContractAlreadyFrozen, MarkFrozen, RecordBaseline, StartRunning
<1>4. CASE LoopHead
  BY <1>2, <1>4
     DEF LoopHead, StopRequested, BudgetExhausted, RoundsExhausted, Overspent, BudgetLeft,
         RoundStart, FinishBounded
<1>5. ASSUME NEW role, SessionInterrupted(role) \/ SessionFailed(role)
      PROVE  status' = "INTERRUPTED"
  BY <1>2, <1>5 DEF SessionInterrupted, SessionFailed, Finish
<1>6. CASE Build
  BY <1>1, <1>2, <1>5, <1>6
     DEF Build, BuilderStops, BuilderReturns, HostServiceMissing, GateFails, GateKeptFailing,
         GatePasses, FinishBounded
<1>7. CASE Evaluate
  BY <1>1, <1>5, <1>7
     DEF Evaluate, EvaluateRefused, SkipUnchanged, EvaluationStart, EvaluatorStops,
         VerdictRejected, VerdictApplied
<1>8. CASE Policy
  BY <1>2, <1>8
     DEF Policy, AllCriteriaPass, OwnerMustJudge, StrategicCheck, ResetWithoutBudget,
         ScheduleRepair, FreshRestart, GiveUp, FinishBounded
<1>9. CASE Restart
  BY <1>5, <1>9
     DEF Restart, KeepWork, AskRestartManager, RestartJudged, RestartErrorSwallowed, RestartFails,
         ResumeAfterRestart
<1>10. CASE Escape
  BY <1>1, <1>2, <1>10 DEF Escape, CommandReportsError, ChainFinishesFailed
<1>11. CASE Enter \/ BuilderWorks \/ Signal \/ Stop \/ TimeRunsOut \/ Ended \/ UNCHANGED vars
  BY <1>11
     DEF Enter, BuilderWorks, Signal, Stop, StopLive, StopFindsNobody, StopWrites, TimeRunsOut,
         Ended, vars
<1>12. CASE Crash
  BY <1>1, <1>12 DEF Crash
<1> QED
  BY <1>3, <1>4, <1>6, <1>7, <1>8, <1>9, <1>10, <1>11, <1>12 DEF Next, Controller

\* However the loop, the owner and the clock interleave with it: the signal that kills the
\* builder or the evaluator is what the run reports.
THEOREM SignalsInterrupt == Spec => WorkerSignalInterrupts
<1>1. Init => SignalInv
  BY DEF Init, SignalInv
<1>2. TypeOK /\ ControlInv /\ SignalInv /\ [Next]_vars => SignalInv'
  BY SignalStep
<1>3. SignalInv /\ [Next]_vars
        => [pc # "idle" /\ pc' = "idle" /\ signal' \in {"builder", "evaluator"}
              => status' = "INTERRUPTED"]_vars
  BY KilledStep
<1> QED
  BY <1>1, <1>2, <1>3, TypeCorrect, ControlCorrect, PTL DEF Spec, WorkerSignalInterrupts
-----------------------------------------------------------------------------
\* What is left to do is a natural number.
LEMMA StepsNatural ==
    ASSUME TypeOK, BudgetInv
    PROVE  /\ StepsLeft \in Nat
           /\ pc \notin {"idle", "launch"} => StepsLeft > 0
<1>1. MaxRounds - rounds \in Nat
  BY BudgetsAssumption DEF TypeOK, BudgetInv, BudgetsRespected
<1>2. pc \notin {"idle", "launch"} => StepsToReturn[pc] \in 1..11
  BY DEF TypeOK, PCs, Sessions, FreezePoints, StepsToReturn
<1> QED
  BY <1>1, <1>2 DEF StepsLeft

\* A step of the controller within a round, on the code's way down.
LEMMA Onward ==
    ASSUME TypeOK, BudgetInv,
           pc \notin {"idle", "launch"}, pc' \in PCs \ {"idle", "launch"},
           StepsToReturn[pc'] < StepsToReturn[pc],
           UNCHANGED rounds
    PROVE  StepsLeft' < StepsLeft
<1>1. 11 * (MaxRounds - rounds) \in Int
  BY BudgetsAssumption DEF TypeOK
<1>2. StepsToReturn[pc] \in Int /\ StepsToReturn[pc'] \in Int
  BY DEF TypeOK, PCs, Sessions, FreezePoints, StepsToReturn
<1>3. /\ StepsLeft = 11 * (MaxRounds - rounds) + StepsToReturn[pc]
      /\ StepsLeft' = 11 * (MaxRounds - rounds) + StepsToReturn[pc']
  BY DEF StepsLeft
<1> QED
  BY <1>1, <1>2, <1>3

\* A step that leaves run_loop.
LEMMA Leaves ==
    ASSUME TypeOK, BudgetInv, pc \notin {"idle", "launch"}, pc' = "idle"
    PROVE  StepsLeft' < StepsLeft
BY StepsNatural DEF StepsLeft

\* No part of the loop is on a way back, but for the head of the loop, which has paid for it
\* with a round.
LEMMA ControllerDescends ==
    ASSUME TypeOK, BudgetInv, Controller
    PROVE  StepsLeft' < StepsLeft
<1> USE DEF Goto, Finish, LeaveLoop, Die, Raise, counters, diskVars, PCs, Sessions, FreezePoints,
            StepsToReturn
<1>1. CASE ClearStop
  BY <1>1, Onward DEF ClearStop, AfterFreeze
<1>2. CASE AddWorktree
  BY <1>2, Onward DEF AddWorktree
<1>3. CASE RefuseFreeze
  BY <1>3, Onward DEF RefuseFreeze
<1>4. CASE WriteContract
  BY <1>4, Onward DEF WriteContract
<1>5. CASE MarkFrozen
  BY <1>5, Onward DEF MarkFrozen
<1>6. CASE RecordBaseline
  BY <1>6, Onward DEF RecordBaseline, AfterFreeze
<1>7. CASE StartRunning
  BY <1>7, Onward DEF StartRunning
<1>8. CASE BudgetLeft
  BY <1>8, Onward DEF BudgetLeft
<1>9. CASE BuilderReturns
  BY <1>9, Onward DEF BuilderReturns, SessionReturns
<1>10. CASE HostServiceMissing
  BY <1>10, Onward DEF HostServiceMissing
<1>11. CASE GateFails
  BY <1>11, Onward DEF GateFails
<1>12. CASE GatePasses
  BY <1>12, Onward DEF GatePasses
<1>13. CASE SkipUnchanged
  BY <1>13, Onward DEF SkipUnchanged
<1>14. CASE EvaluationStart
  BY <1>14, Onward DEF EvaluationStart
<1>15. CASE VerdictRejected
  BY <1>15, Onward DEF VerdictRejected, SessionReturns
<1>16. CASE VerdictApplied
  BY <1>16, Onward DEF VerdictApplied, SessionReturns
<1>17. CASE StrategicCheck
  BY <1>17, Onward DEF StrategicCheck
<1>18. CASE ScheduleRepair
  BY <1>18, Onward DEF ScheduleRepair
<1>19. CASE FreshRestart
  BY <1>19, Onward DEF FreshRestart
<1>20. CASE KeepWork
  BY <1>20, Onward DEF KeepWork
<1>21. CASE AskRestartManager
  BY <1>21, Onward DEF AskRestartManager
<1>22. CASE RestartJudged
  BY <1>22, Onward DEF RestartJudged, SessionReturns
<1>23. CASE RestartErrorSwallowed
  BY <1>23, Onward DEF RestartErrorSwallowed
<1>24. CASE ResumeAfterRestart
  BY <1>24, Onward DEF ResumeAfterRestart
<1>25. CASE ContractAlreadyFrozen
  BY <1>25, Leaves DEF ContractAlreadyFrozen
<1>26. CASE StopRequested
  BY <1>26, Leaves DEF StopRequested
<1>27. CASE BudgetExhausted
  BY <1>27, Leaves DEF BudgetExhausted
<1>28. CASE RoundsExhausted
  BY <1>28, Leaves DEF RoundsExhausted, FinishBounded
<1>29. CASE Overspent
  BY <1>29, Leaves DEF Overspent, FinishBounded
<1>30. CASE BuilderStops
  BY <1>30, Leaves DEF BuilderStops, SessionInterrupted, SessionFailed
<1>31. CASE GateKeptFailing
  BY <1>31, Leaves DEF GateKeptFailing, FinishBounded
<1>32. CASE AllCriteriaPass
  BY <1>32, Leaves DEF AllCriteriaPass
<1>33. CASE OwnerMustJudge
  BY <1>33, Leaves DEF OwnerMustJudge
<1>34. CASE ResetWithoutBudget
  BY <1>34, Leaves DEF ResetWithoutBudget, FinishBounded
<1>35. CASE GiveUp
  BY <1>35, Leaves DEF GiveUp, FinishBounded
<1>36. CASE RestartFails
  BY <1>36, Leaves DEF RestartFails, SessionFailed
<1>37. CASE CommandReportsError
  BY <1>37, Leaves DEF CommandReportsError
<1>38. CASE ChainFinishesFailed
  BY <1>38, Leaves DEF ChainFinishesFailed
<1>39. CASE EvaluatorStops
  <2>1. CASE SessionInterrupted("evaluator") \/ SessionFailed("evaluator")
    BY <2>1, Leaves DEF SessionInterrupted, SessionFailed
  <2>2. CASE SessionRefused("evaluator") /\ Raise
    BY <2>2, Onward DEF SessionRefused
  <2> QED
    BY <1>39, <2>1, <2>2 DEF EvaluatorStops
<1>40. CASE RoundStart
  <2>1. /\ pc = "round" /\ pc' = "builder" /\ rounds' = rounds + 1
        /\ rounds \in Nat /\ MaxRounds \in Nat /\ rounds < MaxRounds
    BY <1>40, BudgetsAssumption DEF RoundStart, BudgetInv, TypeOK
  <2>2. /\ StepsLeft = 11 * (MaxRounds - rounds) + 1
        /\ StepsLeft' = 11 * (MaxRounds - (rounds + 1)) + 11
    BY <2>1 DEF StepsLeft, StepsToReturn
  <2> QED
    BY <2>1, <2>2
<1>41. CASE EvaluateRefused
  BY <1>41, Onward DEF EvaluateRefused
<1> QED
  BY <1>1, <1>2, <1>3, <1>4, <1>5, <1>6, <1>7, <1>8, <1>9, <1>10, <1>11, <1>12, <1>13,
     <1>14, <1>15, <1>16, <1>17, <1>18, <1>19, <1>20, <1>21, <1>22, <1>23, <1>24, <1>25,
     <1>26, <1>27, <1>28, <1>29, <1>30, <1>31, <1>32, <1>33, <1>34, <1>35, <1>36, <1>37,
     <1>38, <1>39, <1>40, <1>41
     DEF Controller, Freeze, LoopHead, Build, Evaluate, Policy, Restart, Escape

LEMMA StepsStep ==
    ASSUME TypeOK, TypeOK', BudgetInv, BudgetInv', [Next]_vars, pc \notin {"idle", "launch"}
    PROVE  StepsLeft' <= StepsLeft /\ (Controller => StepsLeft' < StepsLeft)
<1>1. StepsLeft \in Int /\ StepsLeft' \in Int
  BY BudgetsAssumption
     DEF StepsLeft, TypeOK, PCs, Sessions, FreezePoints, StepsToReturn
<1>2. CASE Controller
  BY <1>1, <1>2, ControllerDescends
<1>3. CASE BuilderWorks \/ Signal \/ Stop \/ TimeRunsOut \/ Ended \/ UNCHANGED vars
  <2>1. UNCHANGED <<pc, rounds>>
    BY <1>3 DEF BuilderWorks, Signal, Stop, StopLive, StopFindsNobody, StopWrites, TimeRunsOut, Ended,
           vars, diskVars, counters
  <2>2. StepsLeft' = StepsLeft
    BY <2>1 DEF StepsLeft
  <2>3. ~Controller
    BY <2>1, <2>2, <1>1, ControllerDescends
  <2> QED
    BY <1>1, <2>2, <2>3
<1>4. CASE Crash
  <2>1. StepsLeft' < StepsLeft
    BY <1>4, Leaves DEF Crash, Die, LeaveLoop
  <2> QED
    BY <1>1, <2>1
<1>5. CASE Enter
  BY <1>5 DEF Enter
<1> QED
  BY <1>2, <1>3, <1>4, <1>5 DEF Next

LEMMA BudgetCorrect == Spec => [](TypeOK /\ BudgetInv)
<1>1. Init => BudgetInv
  BY BudgetsAssumption DEF Init, BudgetInv, BudgetsRespected
<1> QED
  BY <1>1, TypeCorrect, BudgetStep, PTL DEF Spec

\* A call of run_loop has at most eleven steps of the controller for each round of its budget,
\* and eight before the first (StepsAreFinite).
THEOREM RunLoopIsFinite == Spec => []StepsAreFinite
<1>1. TypeOK /\ BudgetInv /\ ControlInv => StepsAreFinite
  <2> SUFFICES ASSUME TypeOK, BudgetInv, ControlInv PROVE StepsAreFinite
    OBVIOUS
  <2>1. MaxRounds \in Nat /\ rounds \in Nat /\ rounds <= MaxRounds
    BY BudgetsAssumption DEF TypeOK, BudgetInv, BudgetsRespected
  <2>2. CASE pc \in {"idle", "launch"}
    BY <2>1, <2>2 DEF StepsAreFinite, StepsLeft
  <2>3. CASE pc \in InRound
    BY <2>1, <2>3
       DEF ControlInv, StepsAreFinite, StepsLeft, InRound, Sessions, RestartPoints, StepsToReturn
  <2>4. CASE pc \in RoundPending \cup {"raised"}
    BY <2>1, <2>4 DEF StepsAreFinite, StepsLeft, RoundPending, FreezePoints, StepsToReturn
  <2> QED
    BY <2>2, <2>3, <2>4 DEF TypeOK, PCs, InRound, RestartPoints, RoundPending, Sessions, FreezePoints
<1> QED
  BY <1>1, BudgetCorrect, ControlCorrect, PTL

\* Every step of the controller leaves less of the loop to do, and no builder, signal, owner,
\* clock or crash adds to it (EveryStepCounts): with RunLoopIsFinite, what ReturnsEventually
\* takes from the code besides fairness, for any budgets.
THEOREM RunLoopAdvances == Spec => EveryStepCounts
<1>1. TypeOK /\ TypeOK' /\ BudgetInv /\ BudgetInv' /\ [Next]_vars
        => [pc \notin {"idle", "launch"} =>
              /\ StepsLeft' <= StepsLeft
              /\ Controller => StepsLeft' < StepsLeft]_vars
  BY StepsStep
<1> QED
  BY <1>1, BudgetCorrect, PTL DEF Spec, EveryStepCounts
=============================================================================
