-------------------------- MODULE Project_proofs --------------------------
(***************************************************************************)
(* Theorems about Project, for any number of runs and events.  The         *)
(* invariants stand on one another in the order in which they are proved:  *)
(* types, where the processes are, and then the three questions: what the  *)
(* stop latch keeps from being planned, who else is live when a launch is  *)
(* admitted, and what a chain may go on with or without.                   *)
(***************************************************************************)
EXTENDS Project, TLAPS

Working == {"entered", "freezing", "executing"}

\* A repair, and nothing else, begins with a draft; auto_plan's locals do not outlive a call.
PlanInv ==
    /\ step = "out" => candidate = 0 /\ review = 0
    /\ step = "drafting" => review = candidate

(* Where the processes are, and what they hold there. *)
ControlInv ==
    /\ \A p \in Procs, r \in Runs : owner[r] = p \/ lease[r] = p => at[p] # "down"
    /\ \A r \in Runs : owner[r] = "shell" => current["shell"] = r
    /\ \A p \in Procs : admission = p <=> at[p] = "admitted"
    /\ \A p \in Procs :
         at[p] \in {"down", "head", "admitting", "admitted"} => current[p] = NoRun
    /\ \A p \in Procs : current[p] # NoRun => status[current[p]] # "none"
    /\ \A p \in Procs : at[p] \in Working =>
         /\ current[p] \in Runs
         /\ lease[current[p]] = p /\ owner[current[p]] = p
    /\ at["go"] \in Working => current["go"] \in beside \/ status[current["go"]] \in Active
    /\ current["go"] <= ChainRuns
    /\ at["shell"] \in {"down", "admitting", "admitted", "reviewing", "returned"} \cup Working
    /\ at["shell"] = "reviewing" =>
         /\ current["shell"] \in Runs /\ current["shell"] > ChainRuns
         /\ owner[current["shell"]] = "shell" /\ status[current["shell"]] = "CREATED"
    /\ at["shell"] \in Working => current["shell"] \in beside \/ at["go"] = "down"
    /\ at["go"] # "reviewing"
    /\ at["go"] \in {"visible", "planning"} =>
         /\ current["go"] \in Runs
         /\ owner[current["go"]] = "go" /\ status[current["go"]] = "CREATED"
    /\ at["go"] \in {"planned", "returned"} => current["go"] \in Runs
    /\ at["go"] = "planned" => current["go"] \in beside \/ owner[current["go"]] = "go"
    /\ stopping # "idle" => target \in Runs /\ status[target] # "none"
    /\ stopping = "dead" =>
         /\ target \in beside \/ owner[target] # "go"
         /\ at["go"] \in {"visible", "planning"} => target # current["go"]
         /\ at["shell"] = "reviewing" => target # current["shell"]

(* What is left of the chain's own run when it was not executed to its end: its controller is
   still the chain, or the shell has taken it over. *)
Held(r) == owner[r] = "go" /\ status[r] \in Active \cup {"OWNER_JUDGMENT_REQUIRED"}
OwnRunInv ==
    /\ at["go"] = "planned" => current["go"] \in beside \/ Held(current["go"])
    /\ at["go"] = "handling" /\ raised = "controller" /\ current["go"] # NoRun =>
         current["go"] \in beside \/ Held(current["go"])

LatchInv ==
    /\ NothingPlannedUnderStop
    /\ at["go"] = "visible" /\ current["go"] \in underLatch => latch = TRUE
    /\ at["go"] # "visible" => current["go"] \notin underLatch
    /\ current["shell"] \notin underLatch

AloneInv ==
    /\ AdmittedAlone
    /\ \A p \in Procs : at[p] = "admitted" => Live \ beside = {}

(* What is accepted is somewhere; a chain is admitted only when what is not landed cannot be
   seen to be missing; a run that was missed is over. *)
LandedInv ==
    /\ LandedBeforeNext
    /\ \A r \in inWorktree : status[r] = "PASSED" => work[r] # "none"
    /\ at["go"] \in {"admitting", "admitted"} =>
         \A r \in Unlanded \ beside : work[r] \in {"workspace", "pruned"}
    /\ \A r \in missed : status[r] \in Terminal
    /\ \A p \in Procs : at[p] \in Working => current[p] \notin missed

(* The runs of the chain that nothing was accepted of and that have ended: at most one, and it
   is counted. *)
Ended == {r \in wasted \ (expired \cup beside) : status[r] \notin Active /\ r # current["go"]}
OneEnded ==
    /\ at["go"] = "down" => wasted = {}
    /\ wasted \subseteq 1 .. ChainRuns
    /\ \A r \in wasted \ beside : owner[r] = "go"
    /\ \A r, q \in Ended : r = q
    /\ Ended # {} => failures >= 1
-----------------------------------------------------------------------------
\* A process that is gone leaves the types as they are.
LEMMA LeaveTyped ==
    ASSUME TypeOK, NEW p \in Procs, Leave(p)
    PROVE  /\ at' \in [Procs -> Places] /\ current' \in [Procs -> Runs \cup {NoRun}]
           /\ owner' \in [Runs -> Procs \cup {Nobody}]
           /\ lease' \in [Runs -> Procs \cup {Nobody}]
           /\ admission' \in Procs \cup {Nobody}
<1>1. at' \in [Procs -> Places] /\ current' \in [Procs -> Runs \cup {NoRun}]
  BY DEF Leave, TypeOK, Places
<1>2. owner' \in [Runs -> Procs \cup {Nobody}] /\ lease' \in [Runs -> Procs \cup {Nobody}]
  BY DEF Leave, TypeOK
<1>3. admission' \in Procs \cup {Nobody}
  BY DEF Leave, TypeOK
<1> QED
  BY <1>1, <1>2, <1>3

\* What is written for a run is of its type.
LEMMA StatusTyped ==
    ASSUME TypeOK, NEW r, NEW s \in Statuses, status' = [status EXCEPT ![r] = s]
    PROVE  status' \in [Runs -> Statuses]
BY DEF TypeOK

\* Every step keeps the types.
LEMMA TypeStep == TypeOK /\ ControlInv /\ [Next]_vars => TypeOK'
<1> SUFFICES ASSUME TypeOK, ControlInv, [Next]_vars
             PROVE  TypeOK'
  OBVIOUS
<1> USE ProjectAssumption DEF Goto, GoAt, At, Cur, SetStatus, Happens, runVars, stopVars,
    lockVars, gitVars, chainVars, history, planVars, TypeOK, PlanTypeOK
<1>a. /\ \A p \in Procs : at[p] \in {"freezing", "executing", "entered"} => current[p] \in Runs
      /\ at["go"] = "visible" => current["go"] \in Runs
  BY DEF ControlInv, Working
<1>b. {"CREATED", "PLANNED", "RUNNING", "PASSED", "FAILED", "STOPPED", "OWNER_JUDGMENT_REQUIRED"}
        \subseteq Statuses
  BY DEF Statuses, Terminal, Active
<1>c. /\ \A r \in Runs, p \in Procs : r \in Fresh(p) => r \in Runs
      /\ Procs = {"go", "shell"} /\ Ends \subseteq Statuses
      /\ "out" \in Steps /\ "drafting" \in Steps /\ 0 \in Drafts /\ 1 \in Drafts
  BY DEF Procs, Fresh, Ends, Statuses, Terminal, Steps, Drafts
<1> USE <1>a, <1>b, <1>c DEF Places, Exceptions
<1>1. ASSUME NEW p \in Procs, Either(p) PROVE TypeOK'
  <2>1. CASE Admit(p)
    BY <2>1 DEF Admit
  <2>2. CASE CreateRecord(p)
    <3>1. status' \in [Runs -> Statuses] /\ owner' \in [Runs -> Procs \cup {Nobody}]
      BY <2>2 DEF CreateRecord, Fresh
    <3>2. base' \in [Runs -> SUBSET (Runs \cup {OwnerWork})]
      BY <2>2 DEF CreateRecord, Fresh
    <3>3. at' \in [Procs -> Places] /\ current' \in [Procs -> Runs \cup {NoRun}]
      BY <2>2 DEF CreateRecord, Fresh
    <3>4. inWorktree' \subseteq Runs /\ wasted' \subseteq Runs /\ underLatch' \subseteq Runs
      BY <2>2 DEF CreateRecord, Fresh
    <3>5. missed' \subseteq Runs
      BY <2>2 DEF CreateRecord, Unlanded
    <3> QED
      BY <2>2, <3>1, <3>2, <3>3, <3>4, <3>5 DEF CreateRecord
  <2>3. CASE RefuseAdmission(p)
    BY <2>3 DEF RefuseAdmission, Leave
  <2>4. CASE ClearStop(p)
    BY <2>4 DEF ClearStop
  <2>5. CASE Freeze(p)
    BY <2>5 DEF Freeze
  <2>6. CASE LoopRaises(p)
    BY <2>6 DEF LoopRaises, Leave
  <2>7. CASE \E s \in Ends : Finish(p, s)
    <3> SUFFICES ASSUME NEW s \in Ends, Finish(p, s) PROVE TypeOK'
      BY <2>7
    <3>1. status' \in [Runs -> Statuses]
      BY StatusTyped DEF Finish
    <3>2. /\ work' \in [Runs -> {"none", "workspace", "branch", "pruned", "dropped"}]
          /\ head' \subseteq Runs \cup {OwnerWork} /\ dirty' \in BOOLEAN
      BY DEF Finish
    <3> QED
      BY <3>1, <3>2 DEF Finish
  <2> QED
    BY <1>1, <2>1, <2>2, <2>3, <2>4, <2>5, <2>6, <2>7 DEF Either
<1>2. CASE ChainStep /\ ~Either("go")
  <2>1. CASE LoopHead
    BY <2>1 DEF LoopHead
  <2>2. CASE RefuseNext
    BY <2>2 DEF RefuseNext, EndChain, Leave
  <2>3. CASE OutcomesDone
    BY <2>3 DEF OutcomesDone, EndChain, Leave
  <2>4. CASE StopBeforePlanning
    BY <2>4 DEF StopBeforePlanning, EndChain, Leave
  <2>5. CASE StartPlanning
    BY <2>5 DEF StartPlanning, BeginPlan
  <2>6. CASE Plan
    BY <2>6 DEF Plan, PlanStep, DraftMade, LocalFailure, ReviewRejects, ReviewAccepts, Again,
        LastAttempt, CatchesLocal, planVars, Drafts, Steps
  <2>7. CASE Planned
    BY <2>7 DEF Planned, MarkPlanned, ForgetPlan
  <2>8. CASE PlanRaises
    BY <2>8 DEF PlanRaises, GiveUpPlan, AskOwner, SessionRaises, ForgetPlan
  <2>9. CASE EnterOwn
    BY <2>9 DEF EnterOwn, Enter
  <2>10. CASE EnterRefused
    BY <2>10 DEF EnterRefused
  <2>11. CASE HandleTerminal
    BY <2>11 DEF HandleTerminal, EndChain, Leave
  <2>12. CASE HandleStop
    BY <2>12 DEF HandleStop, EndChain, Leave
  <2>13. CASE HandleExecutionFailure
    BY <2>13 DEF HandleExecutionFailure, CountFailure, NextOutcome, HasRun, EndChain, Leave
  <2>14. CASE HandleStartFailure
    BY <2>14 DEF HandleStartFailure, HasRun, StopsHere, NextOutcome, EndChain, Leave
  <2>15. CASE Accepted
    BY <2>15 DEF Accepted, NextOutcome, Tip
  <2>16. CASE LandingBlocked
    BY <2>16 DEF LandingBlocked, EndChain, Leave
  <2>17. CASE NotAccepted
    BY <2>17 DEF NotAccepted, NextOutcome, EndChain, Leave
  <2> QED
    BY <1>2, <2>1, <2>2, <2>3, <2>4, <2>5, <2>6, <2>7, <2>8, <2>9, <2>10, <2>11, <2>12, <2>13,
        <2>14, <2>15, <2>16, <2>17 DEF ChainStep
<1>3. CASE ManualReview
  <2>1. status' \in [Runs -> Statuses]
    BY <1>3, StatusTyped DEF ManualReview
  <2> QED
    BY <1>3, <2>1 DEF ManualReview, Leave
<1>4. CASE OwnerRunEnds
  BY <1>4 DEF OwnerRunEnds, Leave
<1>5. CASE StopStep
  <2>1. CASE \E r \in Runs : StopFile(r)
    BY <2>1 DEF StopFile
  <2>2. CASE StopLatch
    BY <2>2 DEF StopLatch
  <2>3. CASE StopChecks
    BY <2>3 DEF StopChecks
  <2>4. CASE StopDead
    BY <2>4 DEF StopDead
  <2> QED
    BY <1>5, <2>1, <2>2, <2>3, <2>4 DEF StopStep
<1>6. ASSUME NEW r \in Runs,
             OwnerRun(r) \/ Prune(r) \/ MergeByHand(r) \/ DropBranch(r) \/ Expire(r)
      PROVE  TypeOK'
  <2>1. CASE OwnerRun(r)
    BY <2>1 DEF OwnerRun, Enter
  <2>2. CASE Prune(r)
    BY <2>2 DEF Prune
  <2>3. CASE MergeByHand(r)
    BY <2>3 DEF MergeByHand, Tip, RequiringLanding, Unlanded
  <2>4. CASE DropBranch(r)
    BY <2>4 DEF DropBranch
  <2>5. CASE Expire(r)
    BY <2>5 DEF Expire
  <2> QED
    BY <1>6, <2>1, <2>2, <2>3, <2>4, <2>5
<1>7. CASE OwnerPlan
  BY <1>7 DEF OwnerPlan, Fresh
<1>8. CASE Edit
  BY <1>8 DEF Edit
<1>9. CASE Commit
  BY <1>9 DEF Commit
<1>10. CASE Launch
  <2>1. at' \in [Procs -> Places]
    BY <1>10 DEF Launch
  <2>2. beside' \subseteq Runs
    BY <1>10 DEF Launch
  <2>3. latch' \in BOOLEAN
    <3>1. latch' = FALSE
      BY ONLY <1>10, Zenon DEF Launch
    <3> QED
      BY ONLY <3>1, Zenon
  <2>4. events' \in Nat
    BY <1>10 DEF Launch
  <2> QED
    BY <1>10, <2>1, <2>2, <2>3, <2>4 DEF Launch
<1>11. ASSUME NEW p \in Procs, Crash(p) PROVE TypeOK'
  BY <1>11 DEF Crash, Leave, ForgetPlan
<1>12. CASE UNCHANGED vars
  BY <1>12 DEF vars
<1> QED
  BY <1>1, <1>2, <1>3, <1>4, <1>5, <1>6, <1>7, <1>8, <1>9, <1>10, <1>11, <1>12 DEF Next,
      ShellStep, ChainStep, OwnerStep, Procs
\* Every step keeps what a repair begins with.
LEMMA PlanInvStep == PlanInv /\ [Next]_vars => PlanInv'
<1> SUFFICES ASSUME PlanInv, [Next]_vars
             PROVE  PlanInv'
  OBVIOUS
<1> USE DEF Goto, GoAt, At, Cur, Happens, runVars, stopVars, lockVars, gitVars, chainVars,
    history, planVars, PlanInv
<1>1. ASSUME NEW p \in Procs, Either(p) PROVE PlanInv'
  <2>1. CASE Admit(p)
    BY <2>1 DEF Admit
  <2>2. CASE CreateRecord(p)
    BY <2>2 DEF CreateRecord, Fresh
  <2>3. CASE RefuseAdmission(p)
    BY <2>3 DEF RefuseAdmission, Leave
  <2>4. CASE ClearStop(p)
    BY <2>4 DEF ClearStop
  <2>5. CASE Freeze(p)
    BY <2>5 DEF Freeze
  <2>6. CASE LoopRaises(p)
    BY <2>6 DEF LoopRaises, Leave
  <2>7. CASE \E s \in Ends : Finish(p, s)
    BY <2>7 DEF Finish, Ends
  <2> QED
    BY <1>1, <2>1, <2>2, <2>3, <2>4, <2>5, <2>6, <2>7 DEF Either
<1>2. CASE ChainStep /\ ~Either("go")
  <2>1. CASE LoopHead
    BY <2>1 DEF LoopHead
  <2>2. CASE RefuseNext
    BY <2>2 DEF RefuseNext, EndChain, Leave
  <2>3. CASE OutcomesDone
    BY <2>3 DEF OutcomesDone, EndChain, Leave
  <2>4. CASE StopBeforePlanning
    BY <2>4 DEF StopBeforePlanning, EndChain, Leave
  <2>5. CASE StartPlanning
    BY <2>5 DEF StartPlanning, BeginPlan
  <2>6. CASE Plan
    BY <2>6 DEF Plan, PlanStep, DraftMade, LocalFailure, ReviewRejects, ReviewAccepts, Again,
        LastAttempt, CatchesLocal, planVars
  <2>7. CASE Planned
    BY <2>7 DEF Planned, MarkPlanned, ForgetPlan
  <2>8. CASE PlanRaises
    BY <2>8 DEF PlanRaises, GiveUpPlan, AskOwner, SessionRaises, ForgetPlan
  <2>9. CASE EnterOwn
    BY <2>9 DEF EnterOwn, Enter
  <2>10. CASE EnterRefused
    BY <2>10 DEF EnterRefused
  <2>11. CASE HandleTerminal
    BY <2>11 DEF HandleTerminal, EndChain, Leave
  <2>12. CASE HandleStop
    BY <2>12 DEF HandleStop, EndChain, Leave
  <2>13. CASE HandleExecutionFailure
    BY <2>13 DEF HandleExecutionFailure, CountFailure, NextOutcome, HasRun, EndChain, Leave
  <2>14. CASE HandleStartFailure
    BY <2>14 DEF HandleStartFailure, HasRun, StopsHere, NextOutcome, EndChain, Leave
  <2>15. CASE Accepted
    BY <2>15 DEF Accepted, NextOutcome
  <2>16. CASE LandingBlocked
    BY <2>16 DEF LandingBlocked, EndChain, Leave
  <2>17. CASE NotAccepted
    BY <2>17 DEF NotAccepted, NextOutcome, EndChain, Leave
  <2> QED
    BY <1>2, <2>1, <2>2, <2>3, <2>4, <2>5, <2>6, <2>7, <2>8, <2>9, <2>10, <2>11, <2>12, <2>13,
        <2>14, <2>15, <2>16, <2>17 DEF ChainStep
<1>3. CASE ManualReview
  BY <1>3 DEF ManualReview, Leave
<1>4. CASE OwnerRunEnds
  BY <1>4 DEF OwnerRunEnds, Leave
<1>5. CASE StopStep
  <2>1. CASE \E r \in Runs : StopFile(r)
    BY <2>1 DEF StopFile
  <2>2. CASE StopLatch
    BY <2>2 DEF StopLatch
  <2>3. CASE StopChecks
    BY <2>3 DEF StopChecks
  <2>4. CASE StopDead
    BY <2>4 DEF StopDead
  <2> QED
    BY <1>5, <2>1, <2>2, <2>3, <2>4 DEF StopStep
<1>6. ASSUME NEW r \in Runs,
             OwnerRun(r) \/ Prune(r) \/ MergeByHand(r) \/ DropBranch(r) \/ Expire(r)
      PROVE  PlanInv'
  <2>1. CASE OwnerRun(r)
    BY <2>1 DEF OwnerRun, Enter
  <2>2. CASE Prune(r)
    BY <2>2 DEF Prune
  <2>3. CASE MergeByHand(r)
    BY <2>3 DEF MergeByHand
  <2>4. CASE DropBranch(r)
    BY <2>4 DEF DropBranch
  <2>5. CASE Expire(r)
    BY <2>5 DEF Expire
  <2> QED
    BY <1>6, <2>1, <2>2, <2>3, <2>4, <2>5
<1>7. CASE OwnerPlan
  BY <1>7 DEF OwnerPlan, Fresh
<1>8. CASE Edit
  BY <1>8 DEF Edit
<1>9. CASE Commit
  BY <1>9 DEF Commit
<1>10. CASE Launch
  BY <1>10 DEF Launch, Fresh
<1>11. ASSUME NEW p \in Procs, Crash(p) PROVE PlanInv'
  BY <1>11 DEF Crash, Leave, ForgetPlan
<1>12. CASE UNCHANGED vars
  BY <1>12 DEF vars
<1> QED
  BY <1>1, <1>2, <1>3, <1>4, <1>5, <1>6, <1>7, <1>8, <1>9, <1>10, <1>11, <1>12 DEF Next,
      ShellStep, ChainStep, OwnerStep, Procs
\* Every step keeps where the processes are.
LEMMA ControlStep == TypeOK /\ ControlInv /\ [Next]_vars => ControlInv'
<1> SUFFICES ASSUME TypeOK, ControlInv, [Next]_vars
             PROVE  ControlInv'
  OBVIOUS
<1> USE ProjectAssumption DEF Goto, GoAt, At, Cur, SetStatus, Happens, runVars, stopVars,
    lockVars, gitVars, chainVars, history, planVars, TypeOK, ControlInv, Working, Runs, Procs,
    Statuses, Terminal, Active, NoRun, Nobody
<1>1. ASSUME NEW p \in Procs, Either(p) PROVE ControlInv'
  <2>1. CASE Admit(p)
    BY <2>1 DEF Admit
  <2>2. CASE CreateRecord(p)
    BY <2>2 DEF CreateRecord, Fresh
  <2>3. CASE RefuseAdmission(p)
    BY <2>3 DEF RefuseAdmission, Leave
  <2>4. CASE ClearStop(p)
    BY <2>4 DEF ClearStop
  <2>5. CASE Freeze(p)
    BY <2>5 DEF Freeze
  <2>6. CASE LoopRaises(p)
    BY <2>6 DEF LoopRaises, Leave
  <2>7. CASE \E s \in Ends : Finish(p, s)
    BY <2>7 DEF Finish, Ends
  <2> QED
    BY <1>1, <2>1, <2>2, <2>3, <2>4, <2>5, <2>6, <2>7 DEF Either
<1>2. CASE ChainStep /\ ~Either("go")
  <2>1. CASE LoopHead
    BY <2>1 DEF LoopHead
  <2>2. CASE RefuseNext
    BY <2>2 DEF RefuseNext, EndChain, Leave
  <2>3. CASE OutcomesDone
    BY <2>3 DEF OutcomesDone, EndChain, Leave
  <2>4. CASE StopBeforePlanning
    BY <2>4 DEF StopBeforePlanning, EndChain, Leave
  <2>5. CASE StartPlanning
    BY <2>5 DEF StartPlanning, BeginPlan
  <2>6. CASE Plan
    BY <2>6 DEF Plan, PlanStep
  <2>7. CASE Planned
    BY <2>7 DEF Planned, MarkPlanned, ForgetPlan
  <2>8. CASE PlanRaises
    BY <2>8 DEF PlanRaises, GiveUpPlan, AskOwner, SessionRaises, ForgetPlan
  <2>9. CASE EnterOwn
    BY <2>9 DEF EnterOwn, Enter
  <2>10. CASE EnterRefused
    BY <2>10 DEF EnterRefused
  <2>11. CASE HandleTerminal
    BY <2>11 DEF HandleTerminal, EndChain, Leave
  <2>12. CASE HandleStop
    BY <2>12 DEF HandleStop, EndChain, Leave
  <2>13. CASE HandleExecutionFailure
    BY <2>13 DEF HandleExecutionFailure, CountFailure, NextOutcome, HasRun, EndChain, Leave
  <2>14. CASE HandleStartFailure
    BY <2>14 DEF HandleStartFailure, HasRun, StopsHere, NextOutcome, EndChain, Leave
  <2>15. CASE Accepted
    BY <2>15 DEF Accepted, NextOutcome
  <2>16. CASE LandingBlocked
    BY <2>16 DEF LandingBlocked, EndChain, Leave
  <2>17. CASE NotAccepted
    BY <2>17 DEF NotAccepted, NextOutcome, EndChain, Leave
  <2> QED
    BY <1>2, <2>1, <2>2, <2>3, <2>4, <2>5, <2>6, <2>7, <2>8, <2>9, <2>10, <2>11, <2>12, <2>13,
        <2>14, <2>15, <2>16, <2>17 DEF ChainStep
<1>3. CASE ManualReview
  BY <1>3 DEF ManualReview, Leave
<1>4. CASE OwnerRunEnds
  BY <1>4 DEF OwnerRunEnds, Leave
<1>5. CASE StopStep
  <2>1. CASE \E r \in Runs : StopFile(r)
    <3> SUFFICES ASSUME NEW r \in Runs, StopFile(r) PROVE ControlInv'
      BY <2>1
    <3>1. status[r] # "none"
      BY DEF StopFile, Created
    <3> QED
      BY <3>1 DEF StopFile
  <2>2. CASE StopLatch
    BY <2>2 DEF StopLatch
  <2>3. CASE StopChecks
    BY <2>3 DEF StopChecks
  <2>4. CASE StopDead
    <3>1. /\ target \in Runs /\ status[target] # "none"
          /\ target \in beside \/ owner[target] # "go"
          /\ at["go"] \in {"visible", "planning"} => target # current["go"]
          /\ at["shell"] = "reviewing" => target # current["shell"]
          /\ status' = [status EXCEPT ![target] = "STOPPED"] /\ stopping' = "idle"
          /\ UNCHANGED <<owner, lease, admission, at, current, beside>>
      BY <2>4 DEF StopDead
    <3>2. \A p \in Procs : current[p] # NoRun => status'[current[p]] # "none"
      BY <3>1
    <3>3. /\ at["go"] \in Working => current["go"] \in beside \/ status'[current["go"]] \in Active
          /\ at["go"] \in {"visible", "planning"} => status'[current["go"]] = "CREATED"
          /\ at["shell"] = "reviewing" => status'[current["shell"]] = "CREATED"
      BY <3>1
    <3> QED
      BY <3>1, <3>2, <3>3
  <2> QED
    BY <1>5, <2>1, <2>2, <2>3, <2>4 DEF StopStep
<1>6. ASSUME NEW r \in Runs,
             OwnerRun(r) \/ Prune(r) \/ MergeByHand(r) \/ DropBranch(r) \/ Expire(r)
      PROVE  ControlInv'
  <2>1. CASE OwnerRun(r)
    BY <2>1 DEF OwnerRun, Enter
  <2>2. CASE Prune(r)
    BY <2>2 DEF Prune
  <2>3. CASE MergeByHand(r)
    BY <2>3 DEF MergeByHand
  <2>4. CASE DropBranch(r)
    BY <2>4 DEF DropBranch
  <2>5. CASE Expire(r)
    BY <2>5 DEF Expire
  <2> QED
    BY <1>6, <2>1, <2>2, <2>3, <2>4, <2>5
<1>7. CASE OwnerPlan
  BY <1>7 DEF OwnerPlan, Fresh
<1>8. CASE Edit
  BY <1>8 DEF Edit
<1>9. CASE Commit
  BY <1>9 DEF Commit
<1>10. CASE Launch
  BY <1>10 DEF Launch, Fresh
<1>11. ASSUME NEW p \in Procs, Crash(p) PROVE ControlInv'
  BY <1>11 DEF Crash, Leave, ForgetPlan
<1>12. CASE UNCHANGED vars
  BY <1>12 DEF vars
<1> QED
  BY <1>1, <1>2, <1>3, <1>4, <1>5, <1>6, <1>7, <1>8, <1>9, <1>10, <1>11, <1>12 DEF Next,
      ShellStep, ChainStep, OwnerStep, Procs
\* Every step keeps the chain in charge of its own run, or the shell.
LEMMA OwnRunStep == TypeOK /\ ControlInv /\ OwnRunInv /\ [Next]_vars => OwnRunInv'
<1> SUFFICES ASSUME TypeOK, ControlInv, OwnRunInv, [Next]_vars
             PROVE  OwnRunInv'
  OBVIOUS
<1> USE ProjectAssumption DEF Goto, GoAt, At, Cur, SetStatus, Happens, runVars, stopVars,
    lockVars, gitVars, chainVars, history, planVars, TypeOK, ControlInv, Working, Runs, Procs,
    Statuses, Terminal, Active, NoRun, Nobody, OwnRunInv, Held
<1>1. ASSUME NEW p \in Procs, Either(p) PROVE OwnRunInv'
  <2>1. CASE Admit(p)
    BY <2>1 DEF Admit
  <2>2. CASE CreateRecord(p)
    BY <2>2 DEF CreateRecord, Fresh
  <2>3. CASE RefuseAdmission(p)
    BY <2>3 DEF RefuseAdmission, Leave
  <2>4. CASE ClearStop(p)
    BY <2>4 DEF ClearStop
  <2>5. CASE Freeze(p)
    BY <2>5 DEF Freeze
  <2>6. CASE LoopRaises(p)
    BY <2>6 DEF LoopRaises, Leave
  <2>7. CASE \E s \in Ends : Finish(p, s)
    BY <2>7 DEF Finish, Ends
  <2> QED
    BY <1>1, <2>1, <2>2, <2>3, <2>4, <2>5, <2>6, <2>7 DEF Either
<1>2. CASE ChainStep /\ ~Either("go")
  <2>1. CASE LoopHead
    BY <2>1 DEF LoopHead
  <2>2. CASE RefuseNext
    BY <2>2 DEF RefuseNext, EndChain, Leave
  <2>3. CASE OutcomesDone
    BY <2>3 DEF OutcomesDone, EndChain, Leave
  <2>4. CASE StopBeforePlanning
    BY <2>4 DEF StopBeforePlanning, EndChain, Leave
  <2>5. CASE StartPlanning
    BY <2>5 DEF StartPlanning, BeginPlan
  <2>6. CASE Plan
    BY <2>6 DEF Plan, PlanStep
  <2>7. CASE Planned
    BY <2>7 DEF Planned, MarkPlanned, ForgetPlan
  <2>8. CASE PlanRaises
    BY <2>8 DEF PlanRaises, GiveUpPlan, AskOwner, SessionRaises, ForgetPlan
  <2>9. CASE EnterOwn
    BY <2>9 DEF EnterOwn, Enter
  <2>10. CASE EnterRefused
    BY <2>10 DEF EnterRefused
  <2>11. CASE HandleTerminal
    BY <2>11 DEF HandleTerminal, EndChain, Leave
  <2>12. CASE HandleStop
    BY <2>12 DEF HandleStop, EndChain, Leave
  <2>13. CASE HandleExecutionFailure
    BY <2>13 DEF HandleExecutionFailure, CountFailure, NextOutcome, HasRun, EndChain, Leave
  <2>14. CASE HandleStartFailure
    BY <2>14 DEF HandleStartFailure, HasRun, StopsHere, NextOutcome, EndChain, Leave
  <2>15. CASE Accepted
    BY <2>15 DEF Accepted, NextOutcome
  <2>16. CASE LandingBlocked
    BY <2>16 DEF LandingBlocked, EndChain, Leave
  <2>17. CASE NotAccepted
    BY <2>17 DEF NotAccepted, NextOutcome, EndChain, Leave
  <2> QED
    BY <1>2, <2>1, <2>2, <2>3, <2>4, <2>5, <2>6, <2>7, <2>8, <2>9, <2>10, <2>11, <2>12, <2>13,
        <2>14, <2>15, <2>16, <2>17 DEF ChainStep
<1>3. CASE ManualReview
  BY <1>3 DEF ManualReview, Leave
<1>4. CASE OwnerRunEnds
  BY <1>4 DEF OwnerRunEnds, Leave
<1>5. CASE StopStep
  <2>1. CASE \E r \in Runs : StopFile(r)
    BY <2>1 DEF StopFile
  <2>2. CASE StopLatch
    BY <2>2 DEF StopLatch
  <2>3. CASE StopChecks
    BY <2>3 DEF StopChecks
  <2>4. CASE StopDead
    BY <2>4 DEF StopDead
  <2> QED
    BY <1>5, <2>1, <2>2, <2>3, <2>4 DEF StopStep
<1>6. ASSUME NEW r \in Runs,
             OwnerRun(r) \/ Prune(r) \/ MergeByHand(r) \/ DropBranch(r) \/ Expire(r)
      PROVE  OwnRunInv'
  <2>1. CASE OwnerRun(r)
    BY <2>1 DEF OwnerRun, Enter
  <2>2. CASE Prune(r)
    BY <2>2 DEF Prune
  <2>3. CASE MergeByHand(r)
    BY <2>3 DEF MergeByHand
  <2>4. CASE DropBranch(r)
    BY <2>4 DEF DropBranch
  <2>5. CASE Expire(r)
    BY <2>5 DEF Expire
  <2> QED
    BY <1>6, <2>1, <2>2, <2>3, <2>4, <2>5
<1>7. CASE OwnerPlan
  BY <1>7 DEF OwnerPlan, Fresh
<1>8. CASE Edit
  BY <1>8 DEF Edit
<1>9. CASE Commit
  BY <1>9 DEF Commit
<1>10. CASE Launch
  BY <1>10 DEF Launch, Fresh
<1>11. ASSUME NEW p \in Procs, Crash(p) PROVE OwnRunInv'
  BY <1>11 DEF Crash, Leave, ForgetPlan
<1>12. CASE UNCHANGED vars
  BY <1>12 DEF vars
<1> QED
  BY <1>1, <1>2, <1>3, <1>4, <1>5, <1>6, <1>7, <1>8, <1>9, <1>10, <1>11, <1>12 DEF Next,
      ShellStep, ChainStep, OwnerStep, Procs
\* Every step keeps a run that was created under the latch from being planned.
LEMMA LatchStep == TypeOK /\ ControlInv /\ LatchInv /\ [Next]_vars => LatchInv'
<1> SUFFICES ASSUME TypeOK, ControlInv, LatchInv, [Next]_vars
             PROVE  LatchInv'
  OBVIOUS
<1> USE ProjectAssumption DEF Goto, GoAt, At, Cur, SetStatus, Happens, runVars, stopVars,
    lockVars, gitVars, chainVars, history, planVars, TypeOK, ControlInv, Working, Runs, Procs,
    Statuses, Terminal, Active, NoRun, Nobody, LatchInv, NothingPlannedUnderStop
<1>1. ASSUME NEW p \in Procs, Either(p) PROVE LatchInv'
  <2>1. CASE Admit(p)
    BY <2>1 DEF Admit
  <2>2. CASE CreateRecord(p)
    BY <2>2 DEF CreateRecord, Fresh
  <2>3. CASE RefuseAdmission(p)
    BY <2>3 DEF RefuseAdmission, Leave
  <2>4. CASE ClearStop(p)
    BY <2>4 DEF ClearStop
  <2>5. CASE Freeze(p)
    BY <2>5 DEF Freeze
  <2>6. CASE LoopRaises(p)
    BY <2>6 DEF LoopRaises, Leave
  <2>7. CASE \E s \in Ends : Finish(p, s)
    BY <2>7 DEF Finish, Ends
  <2> QED
    BY <1>1, <2>1, <2>2, <2>3, <2>4, <2>5, <2>6, <2>7 DEF Either
<1>2. CASE ChainStep /\ ~Either("go")
  <2>1. CASE LoopHead
    BY <2>1 DEF LoopHead
  <2>2. CASE RefuseNext
    BY <2>2 DEF RefuseNext, EndChain, Leave
  <2>3. CASE OutcomesDone
    BY <2>3 DEF OutcomesDone, EndChain, Leave
  <2>4. CASE StopBeforePlanning
    BY <2>4 DEF StopBeforePlanning, EndChain, Leave
  <2>5. CASE StartPlanning
    BY <2>5 DEF StartPlanning, BeginPlan
  <2>6. CASE Plan
    BY <2>6 DEF Plan, PlanStep
  <2>7. CASE Planned
    BY <2>7 DEF Planned, MarkPlanned, ForgetPlan
  <2>8. CASE PlanRaises
    BY <2>8 DEF PlanRaises, GiveUpPlan, AskOwner, SessionRaises, ForgetPlan
  <2>9. CASE EnterOwn
    BY <2>9 DEF EnterOwn, Enter
  <2>10. CASE EnterRefused
    BY <2>10 DEF EnterRefused
  <2>11. CASE HandleTerminal
    <3>1. current["go"] \notin underLatch
      BY <2>11 DEF HandleTerminal
    <3>2. \A r \in Runs : status'[r] = status[r] \/ (r = current["go"] /\ status'[r] = "FAILED")
      BY <2>11 DEF HandleTerminal
    <3>3. at'["go"] \in {"down", "head"} /\ current'["go"] = NoRun /\ current'["shell"] = current["shell"]
      BY <2>11 DEF HandleTerminal, EndChain, Leave, NextOutcome
    <3>4. underLatch' = underLatch
      BY <2>11 DEF HandleTerminal, EndChain, NextOutcome
    <3> QED
      BY <3>1, <3>2, <3>3, <3>4
  <2>12. CASE HandleStop
    BY <2>12 DEF HandleStop, EndChain, Leave
  <2>13. CASE HandleExecutionFailure
    <3>1. current["go"] \notin underLatch
      BY <2>13 DEF HandleExecutionFailure
    <3>2. \A r \in Runs : status'[r] = status[r] \/ (r = current["go"] /\ status'[r] = "FAILED")
      BY <2>13 DEF HandleExecutionFailure
    <3>3. at'["go"] \in {"down", "head"} /\ current'["go"] = NoRun /\ current'["shell"] = current["shell"]
      BY <2>13 DEF HandleExecutionFailure, CountFailure, EndChain, Leave, NextOutcome
    <3>4. underLatch' = underLatch
      BY <2>13 DEF HandleExecutionFailure, CountFailure, EndChain, NextOutcome
    <3> QED
      BY <3>1, <3>2, <3>3, <3>4
  <2>14. CASE HandleStartFailure
    <3>1. current["go"] \notin underLatch
      BY <2>14 DEF HandleStartFailure
    <3>2. \A r \in Runs : status'[r] = status[r] \/ (r = current["go"] /\ status'[r] = "FAILED")
      BY <2>14 DEF HandleStartFailure
    <3>3. at'["go"] \in {"down", "head"} /\ current'["go"] = NoRun /\ current'["shell"] = current["shell"]
      BY <2>14 DEF HandleStartFailure, EndChain, Leave, NextOutcome
    <3>4. underLatch' = underLatch
      BY <2>14 DEF HandleStartFailure, EndChain, NextOutcome
    <3> QED
      BY <3>1, <3>2, <3>3, <3>4
  <2>15. CASE Accepted
    BY <2>15 DEF Accepted, NextOutcome
  <2>16. CASE LandingBlocked
    BY <2>16 DEF LandingBlocked, EndChain, Leave
  <2>17. CASE NotAccepted
    <3>1. current["go"] \notin underLatch
      BY <2>17 DEF NotAccepted
    <3>2. \A r \in Runs : status'[r] = status[r] \/ (r = current["go"] /\ status'[r] = "FAILED")
      BY <2>17 DEF NotAccepted
    <3>3. at'["go"] \in {"down", "head"} /\ current'["go"] = NoRun /\ current'["shell"] = current["shell"]
      BY <2>17 DEF NotAccepted, EndChain, Leave, NextOutcome
    <3>4. underLatch' = underLatch
      BY <2>17 DEF NotAccepted, EndChain, NextOutcome
    <3> QED
      BY <3>1, <3>2, <3>3, <3>4
  <2> QED
    BY <1>2, <2>1, <2>2, <2>3, <2>4, <2>5, <2>6, <2>7, <2>8, <2>9, <2>10, <2>11, <2>12, <2>13,
        <2>14, <2>15, <2>16, <2>17 DEF ChainStep
<1>3. CASE ManualReview
  BY <1>3 DEF ManualReview, Leave
<1>4. CASE OwnerRunEnds
  BY <1>4 DEF OwnerRunEnds, Leave
<1>5. CASE StopStep
  <2>1. CASE \E r \in Runs : StopFile(r)
    BY <2>1 DEF StopFile
  <2>2. CASE StopLatch
    BY <2>2 DEF StopLatch
  <2>3. CASE StopChecks
    BY <2>3 DEF StopChecks
  <2>4. CASE StopDead
    BY <2>4 DEF StopDead
  <2> QED
    BY <1>5, <2>1, <2>2, <2>3, <2>4 DEF StopStep
<1>6. ASSUME NEW r \in Runs,
             OwnerRun(r) \/ Prune(r) \/ MergeByHand(r) \/ DropBranch(r) \/ Expire(r)
      PROVE  LatchInv'
  <2>1. CASE OwnerRun(r)
    BY <2>1 DEF OwnerRun, Enter
  <2>2. CASE Prune(r)
    BY <2>2 DEF Prune
  <2>3. CASE MergeByHand(r)
    BY <2>3 DEF MergeByHand
  <2>4. CASE DropBranch(r)
    BY <2>4 DEF DropBranch
  <2>5. CASE Expire(r)
    BY <2>5 DEF Expire
  <2> QED
    BY <1>6, <2>1, <2>2, <2>3, <2>4, <2>5
<1>7. CASE OwnerPlan
  BY <1>7 DEF OwnerPlan, Fresh
<1>8. CASE Edit
  BY <1>8 DEF Edit
<1>9. CASE Commit
  BY <1>9 DEF Commit
<1>10. CASE Launch
  BY <1>10 DEF Launch, Fresh
<1>11. ASSUME NEW p \in Procs, Crash(p) PROVE LatchInv'
  BY <1>11 DEF Crash, Leave, ForgetPlan
<1>12. CASE UNCHANGED vars
  BY <1>12 DEF vars
<1> QED
  BY <1>1, <1>2, <1>3, <1>4, <1>5, <1>6, <1>7, <1>8, <1>9, <1>10, <1>11, <1>12 DEF Next,
      ShellStep, ChainStep, OwnerStep, Procs
\* Every step keeps the admitted run alone.
LEMMA AloneStep == TypeOK /\ ControlInv /\ OwnRunInv /\ AloneInv /\ [Next]_vars => AloneInv'
<1> SUFFICES ASSUME TypeOK, ControlInv, OwnRunInv, AloneInv, [Next]_vars
             PROVE  AloneInv'
  OBVIOUS
<1> USE ProjectAssumption DEF Goto, GoAt, At, Cur, SetStatus, Happens, runVars, stopVars,
    lockVars, gitVars, chainVars, history, planVars, TypeOK, ControlInv, Working, Runs, Procs,
    Statuses, Terminal, Active, NoRun, Nobody, AloneInv, AdmittedAlone, OwnRunInv, Held, Live
<1>1. ASSUME NEW p \in Procs, Either(p) PROVE AloneInv'
  <2>1. CASE Admit(p)
    BY <2>1 DEF Admit
  <2>2. CASE CreateRecord(p)
    <3>1. PICK r \in Fresh(p) :
             /\ status' = [status EXCEPT ![r] = "CREATED"]
             /\ owner' = [owner EXCEPT ![r] = p]
             /\ expired' = expired /\ beside' = beside
      BY <2>2 DEF CreateRecord
    <3>2. \A q \in Live : q \in beside
      BY <2>2 DEF CreateRecord
    <3>3. r \in Runs
      BY DEF Fresh
    <3>4. \A q \in Live' \ beside' : q = r
      BY <3>1, <3>2, <3>3
    <3>5. \A q \in Procs : at'[q] # "admitted"
      BY <2>2 DEF CreateRecord
    <3> QED
      BY <3>4, <3>5
  <2>3. CASE RefuseAdmission(p)
    BY <2>3 DEF RefuseAdmission, Leave
  <2>4. CASE ClearStop(p)
    BY <2>4 DEF ClearStop
  <2>5. CASE Freeze(p)
    <3>1. /\ current[p] \in Runs /\ owner[current[p]] # Nobody
          /\ UNCHANGED <<owner, expired, beside>>
          /\ status' = [status EXCEPT ![current[p]] = "RUNNING"]
      BY <2>5 DEF Freeze
    <3>2. \A q \in Procs : at'[q] = "admitted" => at[q] = "admitted" /\ q # p
      BY <2>5 DEF Freeze
    <3>3. CASE current[p] \in beside \/ status[current[p]] \in Active
      <4>1. Live' \ beside' = Live \ beside
        BY <3>1, <3>3
      <4> HIDE DEF Live
      <4> QED
        BY <3>2, <4>1
    <3>4. CASE p = "shell" /\ at["go"] = "down"
      <4>1. \A r \in Live' : r = current["shell"]
        BY <3>1, <3>4
      <4>2. \A q \in Procs : at'[q] # "admitted"
        BY <3>2, <3>4
      <4> QED
        BY <4>1, <4>2
    <3> QED
      BY <2>5, <3>3, <3>4 DEF Freeze
  <2>6. CASE LoopRaises(p)
    BY <2>6 DEF LoopRaises, Leave
  <2>7. CASE \E s \in Ends : Finish(p, s)
    BY <2>7 DEF Finish, Ends
  <2> QED
    BY <1>1, <2>1, <2>2, <2>3, <2>4, <2>5, <2>6, <2>7 DEF Either
<1>2. CASE ChainStep /\ ~Either("go")
  <2>1. CASE LoopHead
    BY <2>1 DEF LoopHead
  <2>2. CASE RefuseNext
    BY <2>2 DEF RefuseNext, EndChain, Leave
  <2>3. CASE OutcomesDone
    BY <2>3 DEF OutcomesDone, EndChain, Leave
  <2>4. CASE StopBeforePlanning
    BY <2>4 DEF StopBeforePlanning, EndChain, Leave
  <2>5. CASE StartPlanning
    BY <2>5 DEF StartPlanning, BeginPlan
  <2>6. CASE Plan
    BY <2>6 DEF Plan, PlanStep
  <2>7. CASE Planned
    BY <2>7 DEF Planned, MarkPlanned, ForgetPlan
  <2>8. CASE PlanRaises
    <3>1. \A r \in Runs : status'[r] = status[r] \/ status'[r] \notin Active
      BY <2>8 DEF PlanRaises
    <3>2. UNCHANGED <<owner, expired, beside>> /\ at' = [at EXCEPT !["go"] = "handling"]
      BY <2>8 DEF PlanRaises
    <3>3. Live' \ beside' \subseteq Live \ beside
      BY <3>1, <3>2
    <3> HIDE DEF Live
    <3> QED
      BY <3>2, <3>3
  <2>9. CASE EnterOwn
    BY <2>9 DEF EnterOwn, Enter
  <2>10. CASE EnterRefused
    BY <2>10 DEF EnterRefused
  <2>11. CASE HandleTerminal
    BY <2>11 DEF HandleTerminal, EndChain, Leave
  <2>12. CASE HandleStop
    BY <2>12 DEF HandleStop, EndChain, Leave
  <2>13. CASE HandleExecutionFailure
    BY <2>13 DEF HandleExecutionFailure, CountFailure, NextOutcome, HasRun, EndChain, Leave
  <2>14. CASE HandleStartFailure
    BY <2>14 DEF HandleStartFailure, HasRun, StopsHere, NextOutcome, EndChain, Leave
  <2>15. CASE Accepted
    BY <2>15 DEF Accepted, NextOutcome
  <2>16. CASE LandingBlocked
    BY <2>16 DEF LandingBlocked, EndChain, Leave
  <2>17. CASE NotAccepted
    BY <2>17 DEF NotAccepted, NextOutcome, EndChain, Leave
  <2> QED
    BY <1>2, <2>1, <2>2, <2>3, <2>4, <2>5, <2>6, <2>7, <2>8, <2>9, <2>10, <2>11, <2>12, <2>13,
        <2>14, <2>15, <2>16, <2>17 DEF ChainStep
<1>3. CASE ManualReview
  BY <1>3 DEF ManualReview, Leave
<1>4. CASE OwnerRunEnds
  BY <1>4 DEF OwnerRunEnds, Leave
<1>5. CASE StopStep
  <2>1. CASE \E r \in Runs : StopFile(r)
    BY <2>1 DEF StopFile
  <2>2. CASE StopLatch
    BY <2>2 DEF StopLatch
  <2>3. CASE StopChecks
    BY <2>3 DEF StopChecks
  <2>4. CASE StopDead
    BY <2>4 DEF StopDead
  <2> QED
    BY <1>5, <2>1, <2>2, <2>3, <2>4 DEF StopStep
<1>6. ASSUME NEW r \in Runs,
             OwnerRun(r) \/ Prune(r) \/ MergeByHand(r) \/ DropBranch(r) \/ Expire(r)
      PROVE  AloneInv'
  <2>1. CASE OwnerRun(r)
    BY <2>1 DEF OwnerRun, Enter
  <2>2. CASE Prune(r)
    BY <2>2 DEF Prune
  <2>3. CASE MergeByHand(r)
    BY <2>3 DEF MergeByHand
  <2>4. CASE DropBranch(r)
    BY <2>4 DEF DropBranch
  <2>5. CASE Expire(r)
    BY <2>5 DEF Expire
  <2> QED
    BY <1>6, <2>1, <2>2, <2>3, <2>4, <2>5
<1>7. CASE OwnerPlan
  BY <1>7 DEF OwnerPlan, Fresh
<1>8. CASE Edit
  BY <1>8 DEF Edit
<1>9. CASE Commit
  BY <1>9 DEF Commit
<1>10. CASE Launch
  BY <1>10 DEF Launch, Fresh
<1>11. ASSUME NEW p \in Procs, Crash(p) PROVE AloneInv'
  BY <1>11 DEF Crash, Leave, ForgetPlan
<1>12. CASE UNCHANGED vars
  BY <1>12 DEF vars
<1> QED
  BY <1>1, <1>2, <1>3, <1>4, <1>5, <1>6, <1>7, <1>8, <1>9, <1>10, <1>11, <1>12 DEF Next,
      ShellStep, ChainStep, OwnerStep, Procs
\* Every step keeps what a chain begins with.
LEMMA LandedStep == TypeOK /\ ControlInv /\ LandedInv /\ [Next]_vars => LandedInv'
<1> SUFFICES ASSUME TypeOK, ControlInv, LandedInv, [Next]_vars
             PROVE  LandedInv'
  OBVIOUS
<1> USE ProjectAssumption DEF Goto, GoAt, At, Cur, SetStatus, Happens, runVars, stopVars,
    lockVars, gitVars, chainVars, history, planVars, TypeOK, ControlInv, Working, Runs, Procs,
    Statuses, Terminal, Active, NoRun, Nobody, LandedInv, LandedBeforeNext, Unlanded
<1>1. ASSUME NEW p \in Procs, Either(p) PROVE LandedInv'
  <2>1. CASE Admit(p)
    BY <2>1 DEF Admit
  <2>2. CASE CreateRecord(p)
    <3>1. PICK r \in Fresh(p) :
             /\ status' = [status EXCEPT ![r] = "CREATED"]
             /\ inWorktree' \in {inWorktree, inWorktree \cup {r}}
             /\ missed' = IF p = "go" THEN missed \cup (Unlanded \ beside) ELSE missed
      BY <2>2 DEF CreateRecord
    <3>2. r \in Runs /\ status[r] = "none"
      BY DEF Fresh
    <3>3. UNCHANGED <<work, head, beside>>
      BY <2>2 DEF CreateRecord
    <3>4. at'["go"] \in {"admitting", "admitted"} => p # "go" /\ at["go"] = at'["go"]
      BY <2>2 DEF CreateRecord
    <3>5. \A q \in Procs : at'[q] \in Working => at[q] \in Working /\ current'[q] = current[q]
      BY <2>2 DEF CreateRecord
    <3>6. p = "go" => \A x \in Unlanded \ beside : work[x] \in {"workspace", "pruned"}
      BY <2>2 DEF CreateRecord
    <3>7. \A x \in missed' : work'[x] \in {"workspace", "pruned"} /\ status'[x] \in Terminal
      BY <3>1, <3>2, <3>3, <3>6
    <3>8. \A x \in inWorktree' : status'[x] = "PASSED" => work'[x] # "none"
      BY <3>1, <3>2, <3>3
    <3>9. ASSUME at'["go"] \in {"admitting", "admitted"}
          PROVE  \A x \in Unlanded' \ beside' : work'[x] \in {"workspace", "pruned"}
      BY <3>1, <3>2, <3>3, <3>4, <3>9
    <3>10. \A q \in Procs : at'[q] \in Working => current'[q] \notin missed'
      <4>1. \A q \in Procs : at'[q] \in Working => q # p
        BY <2>2 DEF CreateRecord
      <4>2. p = "go" => \A q \in Procs : at'[q] \in Working => current[q] \in beside
        BY <2>2, <3>5, <4>1 DEF CreateRecord
      <4> QED
        BY <3>1, <3>5, <4>2
    <3> QED
      BY <3>7, <3>8, <3>9, <3>10
  <2>3. CASE RefuseAdmission(p)
    <3>1. UNCHANGED <<status, work, inWorktree, head, missed, beside>>
      BY <2>3 DEF RefuseAdmission, Leave
    <3>2. \A q \in Procs : at'[q] \in Working => at[q] \in Working /\ current'[q] = current[q]
      BY <2>3 DEF RefuseAdmission, Leave
    <3>3. at'["go"] \in {"admitting", "admitted"} => at["go"] = at'["go"]
      BY <2>3 DEF RefuseAdmission, Leave
    <3> QED
      BY <3>1, <3>2, <3>3
  <2>4. CASE ClearStop(p)
    BY <2>4 DEF ClearStop
  <2>5. CASE Freeze(p)
    BY <2>5 DEF Freeze
  <2>6. CASE LoopRaises(p)
    <3>1. UNCHANGED <<status, work, inWorktree, head, missed, beside>>
      BY <2>6 DEF LoopRaises, Leave
    <3>2. \A q \in Procs : at'[q] \in Working => at[q] \in Working /\ current'[q] = current[q]
      BY <2>6 DEF LoopRaises, Leave
    <3>3. at'["go"] \in {"admitting", "admitted"} => at["go"] = at'["go"]
      BY <2>6 DEF LoopRaises, Leave
    <3> QED
      BY <3>1, <3>2, <3>3
  <2>7. CASE \E s \in Ends : Finish(p, s)
    <3> SUFFICES ASSUME NEW s \in Ends, Finish(p, s) PROVE LandedInv'
      BY <2>7
    <3>1. /\ current[p] \in Runs /\ current[p] \notin missed
          /\ at["go"] \in {"admitting", "admitted"} => current[p] \in beside
      BY DEF Finish
    <3>2. \A r \in Runs : r # current[p] => status'[r] = status[r] /\ work'[r] = work[r]
      BY DEF Finish
    <3>3. /\ inWorktree' = inWorktree /\ missed' = missed /\ beside' = beside /\ current' = current
          /\ head \subseteq head' /\ at' = [at EXCEPT ![p] = "returned"]
      BY DEF Finish
    <3>4. /\ current[p] \in inWorktree /\ status'[current[p]] = "PASSED" => work'[current[p]] # "none"
      BY DEF Finish
    <3>5. \A r \in missed' : work'[r] \in {"workspace", "pruned"} /\ status'[r] \in Terminal
      BY <3>1, <3>2, <3>3
    <3>6. \A r \in inWorktree' : status'[r] = "PASSED" => work'[r] # "none"
      BY <3>1, <3>2, <3>3, <3>4
    <3>7. ASSUME at'["go"] \in {"admitting", "admitted"}
          PROVE  \A r \in Unlanded' \ beside' : work'[r] \in {"workspace", "pruned"}
      BY <3>1, <3>2, <3>3, <3>7
    <3>8. \A q \in Procs : at'[q] \in Working => current'[q] \notin missed'
      BY <3>3
    <3> QED
      BY <3>5, <3>6, <3>7, <3>8
  <2> QED
    BY <1>1, <2>1, <2>2, <2>3, <2>4, <2>5, <2>6, <2>7 DEF Either
<1>2. CASE ChainStep /\ ~Either("go")
  <2>1. CASE LoopHead
    <3>1. UNCHANGED <<status, work, inWorktree, head, missed, beside, current>>
          /\ at' = [at EXCEPT !["go"] = "admitting"]
      BY <2>1 DEF LoopHead
    <3>2. \A r \in Unlanded : work[r] \in {"workspace", "pruned"}
      <4>1. \A r \in Unlanded : work[r] # "branch" /\ work[r] # "none" /\ work[r] # "dropped"
        BY <2>1 DEF LoopHead, RequiringLanding
      <4> QED
        BY <4>1
    <3>3. \A r \in Unlanded' \ beside' : work'[r] \in {"workspace", "pruned"}
      BY <3>1, <3>2
    <3>4. \A q \in Procs : at'[q] \in Working => at[q] \in Working
      BY <3>1
    <3> HIDE DEF Unlanded
    <3> QED
      BY <3>1, <3>3, <3>4
  <2>2. CASE RefuseNext
    BY <2>2 DEF RefuseNext, EndChain, Leave
  <2>3. CASE OutcomesDone
    BY <2>3 DEF OutcomesDone, EndChain, Leave
  <2>4. CASE StopBeforePlanning
    BY <2>4 DEF StopBeforePlanning, EndChain, Leave
  <2>5. CASE StartPlanning
    BY <2>5 DEF StartPlanning, BeginPlan
  <2>6. CASE Plan
    BY <2>6 DEF Plan, PlanStep
  <2>7. CASE Planned
    BY <2>7 DEF Planned, MarkPlanned, ForgetPlan
  <2>8. CASE PlanRaises
    <3>1. \A r \in Runs : status'[r] = status[r] \/ (status'[r] # "PASSED" /\ (status[r] \in Terminal => status'[r] \in Terminal))
      BY <2>8 DEF PlanRaises
    <3>2. UNCHANGED <<work, inWorktree, head, missed, beside, current>>
          /\ at' = [at EXCEPT !["go"] = "handling"]
      BY <2>8 DEF PlanRaises
    <3> QED
      BY <3>1, <3>2
  <2>9. CASE EnterOwn
    BY <2>9 DEF EnterOwn, Enter
  <2>10. CASE EnterRefused
    BY <2>10 DEF EnterRefused
  <2>11. CASE HandleTerminal
    BY <2>11 DEF HandleTerminal, EndChain, Leave
  <2>12. CASE HandleStop
    BY <2>12 DEF HandleStop, EndChain, Leave
  <2>13. CASE HandleExecutionFailure
    <3>1. \A r \in Runs : status'[r] = status[r] \/ (r = current["go"] /\ status'[r] = "FAILED")
      BY <2>13 DEF HandleExecutionFailure
    <3>2. at'["go"] \in {"down", "head"}
      BY <2>13 DEF HandleExecutionFailure, CountFailure, EndChain, Leave, NextOutcome
    <3>3. at'["shell"] = at["shell"] /\ current'["shell"] = current["shell"]
      BY <2>13 DEF HandleExecutionFailure, CountFailure, EndChain, Leave, NextOutcome
    <3>4. missed' = missed /\ work' = work /\ inWorktree' = inWorktree
      BY <2>13 DEF HandleExecutionFailure, CountFailure, EndChain, Leave, NextOutcome
    <3> QED
      BY <3>1, <3>2, <3>3, <3>4
  <2>14. CASE HandleStartFailure
    <3>1. \A r \in Runs : status'[r] = status[r] \/ (r = current["go"] /\ status'[r] = "FAILED")
      BY <2>14 DEF HandleStartFailure
    <3>2. at'["go"] \in {"down", "head"}
      BY <2>14 DEF HandleStartFailure, EndChain, Leave, NextOutcome
    <3>3. at'["shell"] = at["shell"] /\ current'["shell"] = current["shell"]
      BY <2>14 DEF HandleStartFailure, EndChain, Leave, NextOutcome
    <3>4. missed' = missed /\ work' = work /\ inWorktree' = inWorktree
      BY <2>14 DEF HandleStartFailure, EndChain, Leave, NextOutcome
    <3> QED
      BY <3>1, <3>2, <3>3, <3>4
  <2>15. CASE Accepted
    BY <2>15 DEF Accepted, NextOutcome, Tip
  <2>16. CASE LandingBlocked
    BY <2>16 DEF LandingBlocked, EndChain, Leave
  <2>17. CASE NotAccepted
    <3>1. \A r \in Runs : status'[r] = status[r] \/ (r = current["go"] /\ status'[r] = "FAILED")
      BY <2>17 DEF NotAccepted
    <3>2. at'["go"] \in {"down", "head"}
      BY <2>17 DEF NotAccepted, EndChain, Leave, NextOutcome
    <3>3. at'["shell"] = at["shell"] /\ current'["shell"] = current["shell"]
      BY <2>17 DEF NotAccepted, EndChain, Leave, NextOutcome
    <3>4. missed' = missed /\ work' = work /\ inWorktree' = inWorktree
      BY <2>17 DEF NotAccepted, EndChain, Leave, NextOutcome
    <3> QED
      BY <3>1, <3>2, <3>3, <3>4
  <2> QED
    BY <1>2, <2>1, <2>2, <2>3, <2>4, <2>5, <2>6, <2>7, <2>8, <2>9, <2>10, <2>11, <2>12, <2>13,
        <2>14, <2>15, <2>16, <2>17 DEF ChainStep
<1>3. CASE ManualReview
  BY <1>3 DEF ManualReview, Leave
<1>4. CASE OwnerRunEnds
  BY <1>4 DEF OwnerRunEnds, Leave
<1>5. CASE StopStep
  <2>1. CASE \E r \in Runs : StopFile(r)
    BY <2>1 DEF StopFile
  <2>2. CASE StopLatch
    BY <2>2 DEF StopLatch
  <2>3. CASE StopChecks
    BY <2>3 DEF StopChecks
  <2>4. CASE StopDead
    BY <2>4 DEF StopDead
  <2> QED
    BY <1>5, <2>1, <2>2, <2>3, <2>4 DEF StopStep
<1>6. ASSUME NEW r \in Runs,
             OwnerRun(r) \/ Prune(r) \/ MergeByHand(r) \/ DropBranch(r) \/ Expire(r)
      PROVE  LandedInv'
  <2>1. CASE OwnerRun(r)
    BY <2>1 DEF OwnerRun, Enter
  <2>2. CASE Prune(r)
    BY <2>2 DEF Prune
  <2>3. CASE MergeByHand(r)
    BY <2>3 DEF MergeByHand, Tip
  <2>4. CASE DropBranch(r)
    BY <2>4 DEF DropBranch, RequiringLanding
  <2>5. CASE Expire(r)
    BY <2>5 DEF Expire
  <2> QED
    BY <1>6, <2>1, <2>2, <2>3, <2>4, <2>5
<1>7. CASE OwnerPlan
  BY <1>7 DEF OwnerPlan, Fresh
<1>8. CASE Edit
  BY <1>8 DEF Edit
<1>9. CASE Commit
  BY <1>9 DEF Commit
<1>10. CASE Launch
  BY <1>10 DEF Launch, Fresh
<1>11. ASSUME NEW p \in Procs, Crash(p) PROVE LandedInv'
  BY <1>11 DEF Crash, Leave, ForgetPlan
<1>12. CASE UNCHANGED vars
  BY <1>12 DEF vars
<1> QED
  BY <1>1, <1>2, <1>3, <1>4, <1>5, <1>6, <1>7, <1>8, <1>9, <1>10, <1>11, <1>12 DEF Next,
      ShellStep, ChainStep, OwnerStep, Procs
\* Every step keeps the runs that nothing was accepted of to one.
LEMMA OneEndedStep == TypeOK /\ ControlInv /\ OwnRunInv /\ OneEnded /\ [Next]_vars => OneEnded'
<1> SUFFICES ASSUME TypeOK, ControlInv, OwnRunInv, OneEnded, [Next]_vars
             PROVE  OneEnded'
  OBVIOUS
<1> USE ProjectAssumption DEF Goto, GoAt, At, Cur, SetStatus, Happens, runVars, stopVars,
    lockVars, gitVars, chainVars, history, planVars, TypeOK, ControlInv, Working, Runs, Procs,
    Statuses, Terminal, Active, NoRun, Nobody, OwnRunInv, Held, OneEnded, Ended
<1>1. ASSUME NEW p \in Procs, Either(p) PROVE OneEnded'
  <2>1. CASE Admit(p)
    BY <2>1 DEF Admit
  <2>2. CASE CreateRecord(p)
    <3>1. PICK r \in Fresh(p) :
             /\ status' = [status EXCEPT ![r] = "CREATED"]
             /\ owner' = [owner EXCEPT ![r] = p]
             /\ current' = [current EXCEPT ![p] = r]
             /\ wasted' = IF p = "go" THEN wasted \cup {r} ELSE wasted
             /\ expired' = expired /\ beside' = beside /\ failures' = failures
      BY <2>2 DEF CreateRecord
    <3>2. r \in Runs /\ status[r] = "none" /\ (p = "go" <=> r <= ChainRuns)
      BY DEF Fresh
    <3>3. p = "go" => current["go"] = NoRun
      BY <2>2 DEF CreateRecord
    <3>4. wasted' \subseteq 1 .. ChainRuns
      BY <3>1, <3>2
    <3>5. \A q \in wasted' \ beside' : owner'[q] = "go"
      BY <3>1, <3>2, <3>4
    <3>6. Ended' \subseteq Ended
      BY <3>1, <3>2, <3>3
    <3>7. at'["go"] # "down" \/ (at'["go"] = at["go"] /\ wasted' = wasted)
      BY <2>2, <3>1 DEF CreateRecord
    <3> QED
      BY <3>1, <3>4, <3>5, <3>6, <3>7
  <2>3. CASE RefuseAdmission(p)
    <3>1. CASE p = "go"
      <4>1. UNCHANGED <<status, wasted, expired, beside, owner, failures, current>>
        BY <2>3, <3>1 DEF RefuseAdmission
      <4>2. Ended' = Ended /\ at'["go"] = "handling"
        BY <2>3, <3>1, <4>1 DEF RefuseAdmission
      <4> HIDE DEF Ended
      <4> QED
        BY <4>1, <4>2
    <3>2. CASE p = "shell"
      <4>1. UNCHANGED <<status, wasted, expired, beside, failures>>
        BY <2>3, <3>2 DEF RefuseAdmission, Leave
      <4>2. at'["go"] = at["go"] /\ current'["go"] = current["go"]
        BY <2>3, <3>2 DEF RefuseAdmission, Leave
      <4>3. \A r \in Runs : owner[r] = "go" => owner'[r] = "go"
        BY <2>3, <3>2 DEF RefuseAdmission, Leave
      <4>4. Ended' = Ended
        BY <4>1, <4>2
      <4> HIDE DEF Ended
      <4> QED
        BY <4>1, <4>2, <4>3, <4>4
    <3> QED
      BY <3>1, <3>2 DEF Procs
  <2>4. CASE ClearStop(p)
    BY <2>4 DEF ClearStop
  <2>5. CASE Freeze(p)
    BY <2>5 DEF Freeze
  <2>6. CASE LoopRaises(p)
    <3>1. CASE p = "go"
      <4>1. UNCHANGED <<status, wasted, expired, beside, owner, failures, current>>
        BY <2>6, <3>1 DEF LoopRaises
      <4>2. Ended' = Ended /\ at'["go"] = "handling"
        BY <2>6, <3>1, <4>1 DEF LoopRaises
      <4> HIDE DEF Ended
      <4> QED
        BY <4>1, <4>2
    <3>2. CASE p = "shell"
      <4>1. UNCHANGED <<status, wasted, expired, beside, failures>>
        BY <2>6, <3>2 DEF LoopRaises, Leave
      <4>2. at'["go"] = at["go"] /\ current'["go"] = current["go"]
        BY <2>6, <3>2 DEF LoopRaises, Leave
      <4>3. \A r \in Runs : owner[r] = "go" => owner'[r] = "go"
        BY <2>6, <3>2 DEF LoopRaises, Leave
      <4>4. Ended' = Ended
        BY <4>1, <4>2
      <4> HIDE DEF Ended
      <4> QED
        BY <4>1, <4>2, <4>3, <4>4
    <3> QED
      BY <3>1, <3>2 DEF Procs
  <2>7. CASE \E s \in Ends : Finish(p, s)
    BY <2>7 DEF Finish, Ends
  <2> QED
    BY <1>1, <2>1, <2>2, <2>3, <2>4, <2>5, <2>6, <2>7 DEF Either
<1>2. CASE ChainStep /\ ~Either("go")
  <2>1. CASE LoopHead
    BY <2>1 DEF LoopHead
  <2>2. CASE RefuseNext
    BY <2>2 DEF RefuseNext, EndChain, Leave
  <2>3. CASE OutcomesDone
    BY <2>3 DEF OutcomesDone, EndChain, Leave
  <2>4. CASE StopBeforePlanning
    BY <2>4 DEF StopBeforePlanning, EndChain, Leave
  <2>5. CASE StartPlanning
    BY <2>5 DEF StartPlanning, BeginPlan
  <2>6. CASE Plan
    BY <2>6 DEF Plan, PlanStep
  <2>7. CASE Planned
    BY <2>7 DEF Planned, MarkPlanned, ForgetPlan
  <2>8. CASE PlanRaises
    <3>1. \A r \in Runs : status'[r] = status[r] \/ r = current["go"]
      BY <2>8 DEF PlanRaises
    <3>2. UNCHANGED <<wasted, expired, beside, owner, failures, current>> /\ at'["go"] = "handling"
      BY <2>8 DEF PlanRaises
    <3>3. Ended' \subseteq Ended
      BY <3>1, <3>2
    <3> HIDE DEF Ended
    <3> QED
      BY <3>2, <3>3
  <2>9. CASE EnterOwn
    BY <2>9 DEF EnterOwn, Enter
  <2>10. CASE EnterRefused
    BY <2>10 DEF EnterRefused
  <2>11. CASE HandleTerminal
    BY <2>11 DEF HandleTerminal, EndChain, Leave
  <2>12. CASE HandleStop
    BY <2>12 DEF HandleStop, EndChain, Leave
  <2>13. CASE HandleExecutionFailure
    <3>1. \A r \in Runs : status'[r] = status[r] \/ r = current["go"]
      BY <2>13 DEF HandleExecutionFailure
    <3>2. CASE EndChain
      BY <3>2 DEF EndChain, Leave
    <3>3. CASE failures < 1 /\ NextOutcome(startFails, failures + 1, wasted)
      <4>1. Ended = {}
        BY <3>3
      <4>2. /\ UNCHANGED <<wasted, expired, beside, owner>>
            /\ failures' = failures + 1 /\ at'["go"] = "head" /\ current'["go"] = NoRun
        BY <3>3 DEF NextOutcome
      <4>3. Ended' \subseteq Ended \cup {current["go"]}
        BY <3>1, <4>2
      <4> HIDE DEF Ended
      <4> QED
        BY <4>1, <4>2, <4>3
    <3> QED
      BY <2>13, <3>2, <3>3 DEF HandleExecutionFailure, CountFailure
  <2>14. CASE HandleStartFailure
    <3>1. CASE EndChain
      BY <3>1 DEF EndChain, Leave
    <3>2. CASE NextOutcome(startFails + 1, failures, wasted)
      <4>1. /\ UNCHANGED <<wasted, expired, beside, owner, failures>>
            /\ at'["go"] = "head" /\ current'["go"] = NoRun
        BY <3>2 DEF NextOutcome
      <4>2. status' = status
        BY <2>14 DEF HandleStartFailure
      <4>3. current["go"] # NoRun => current["go"] \in beside \/ status[current["go"]] \in Active
        BY <2>14 DEF HandleStartFailure, StopsHere, HasRun
      <4>4. Ended' \subseteq Ended
        BY <4>1, <4>2, <4>3
      <4> HIDE DEF Ended
      <4> QED
        BY <4>1, <4>4
    <3> QED
      BY <2>14, <3>1, <3>2 DEF HandleStartFailure
  <2>15. CASE Accepted
    BY <2>15 DEF Accepted, NextOutcome
  <2>16. CASE LandingBlocked
    BY <2>16 DEF LandingBlocked, EndChain, Leave
  <2>17. CASE NotAccepted
    <3>1. CASE EndChain
      BY <3>1 DEF EndChain, Leave
    <3>2. CASE failures = 0 /\ NextOutcome(0, 1, wasted)
      <4>1. Ended = {}
        BY <3>2
      <4>2. /\ UNCHANGED <<wasted, expired, beside, owner>>
            /\ failures' = 1 /\ at'["go"] = "head" /\ current'["go"] = NoRun
        BY <3>2 DEF NextOutcome
      <4>3. status' = status
        BY <2>17 DEF NotAccepted
      <4>4. Ended' \subseteq Ended \cup {current["go"]}
        BY <4>2, <4>3
      <4> HIDE DEF Ended
      <4> QED
        BY <4>1, <4>2, <4>4
    <3> QED
      BY <2>17, <3>1, <3>2 DEF NotAccepted
  <2> QED
    BY <1>2, <2>1, <2>2, <2>3, <2>4, <2>5, <2>6, <2>7, <2>8, <2>9, <2>10, <2>11, <2>12, <2>13,
        <2>14, <2>15, <2>16, <2>17 DEF ChainStep
<1>3. CASE ManualReview
  BY <1>3 DEF ManualReview, Leave
<1>4. CASE OwnerRunEnds
  BY <1>4 DEF OwnerRunEnds, Leave
<1>5. CASE StopStep
  <2>1. CASE \E r \in Runs : StopFile(r)
    BY <2>1 DEF StopFile
  <2>2. CASE StopLatch
    BY <2>2 DEF StopLatch
  <2>3. CASE StopChecks
    BY <2>3 DEF StopChecks
  <2>4. CASE StopDead
    <3>1. \A r \in Runs : r \in beside \/ owner[r] # "go" \/ status'[r] = status[r]
      BY <2>4 DEF StopDead
    <3>2. UNCHANGED <<wasted, expired, beside, owner, failures, current, at>>
      BY <2>4 DEF StopDead
    <3>3. Ended' \subseteq Ended
      BY <3>1, <3>2
    <3> HIDE DEF Ended
    <3> QED
      BY <3>2, <3>3
  <2> QED
    BY <1>5, <2>1, <2>2, <2>3, <2>4 DEF StopStep
<1>6. ASSUME NEW r \in Runs,
             OwnerRun(r) \/ Prune(r) \/ MergeByHand(r) \/ DropBranch(r) \/ Expire(r)
      PROVE  OneEnded'
  <2>1. CASE OwnerRun(r)
    BY <2>1 DEF OwnerRun, Enter
  <2>2. CASE Prune(r)
    BY <2>2 DEF Prune
  <2>3. CASE MergeByHand(r)
    BY <2>3 DEF MergeByHand
  <2>4. CASE DropBranch(r)
    BY <2>4 DEF DropBranch
  <2>5. CASE Expire(r)
    BY <2>5 DEF Expire
  <2> QED
    BY <1>6, <2>1, <2>2, <2>3, <2>4, <2>5
<1>7. CASE OwnerPlan
  BY <1>7 DEF OwnerPlan, Fresh
<1>8. CASE Edit
  BY <1>8 DEF Edit
<1>9. CASE Commit
  BY <1>9 DEF Commit
<1>10. CASE Launch
  BY <1>10 DEF Launch, Fresh
<1>11. ASSUME NEW p \in Procs, Crash(p) PROVE OneEnded'
  <2>1. CASE p = "go"
    <3>1. wasted' = {}
      BY <1>11, <2>1 DEF Crash
    <3> QED
      BY <3>1
  <2>2. CASE p = "shell"
    <3>1. /\ UNCHANGED <<wasted, expired, beside, failures, status>>
          /\ current'["go"] = current["go"] /\ at'["go"] = at["go"]
      BY <1>11, <2>2 DEF Crash, Leave
    <3>2. \A r \in Runs : owner[r] = "go" => owner'[r] = "go"
      BY <1>11, <2>2 DEF Crash, Leave
    <3> QED
      BY <3>1, <3>2
  <2> QED
    BY <2>1, <2>2
<1>12. CASE UNCHANGED vars
  BY <1>12 DEF vars
<1> QED
  BY <1>1, <1>2, <1>3, <1>4, <1>5, <1>6, <1>7, <1>8, <1>9, <1>10, <1>11, <1>12 DEF Next,
      ShellStep, ChainStep, OwnerStep, Procs
-----------------------------------------------------------------------------
\* What every other theorem stands on.
LEMMA Foundations == Spec => [](TypeOK /\ ControlInv /\ OwnRunInv)
<1>1. Init => TypeOK
  <2> SUFFICES ASSUME Init PROVE TypeOK
    OBVIOUS
  <2>1. latch \in BOOLEAN /\ dirty \in BOOLEAN
    BY Zenon DEF Init
  <2>2. /\ status \in [Runs -> Statuses] /\ owner \in [Runs -> Procs \cup {Nobody}]
        /\ at \in [Procs -> Places] /\ current \in [Procs -> Runs \cup {NoRun}]
    BY DEF Init, Statuses, Places
  <2>3. PlanTypeOK
    BY DEF Init, PlanInit, PlanTypeOK, Drafts, Steps
  <2> QED
    BY <2>1, <2>2, <2>3 DEF Init, TypeOK, Exceptions
<1>2. Init => ControlInv /\ OwnRunInv
  BY ProjectAssumption
     DEF Init, ControlInv, OwnRunInv, Working, NoRun, Nobody, Procs
<1>3. TypeOK /\ ControlInv /\ OwnRunInv /\ [Next]_vars => (TypeOK /\ ControlInv /\ OwnRunInv)'
  BY TypeStep, ControlStep, OwnRunStep
<1> QED
  BY <1>1, <1>2, <1>3, PTL DEF Spec

(* The variables keep their types. *)
THEOREM ProjectTyped == Spec => []TypeOK
BY Foundations, PTL

(* A repairer is never shown the review of another draft than the one it repairs (auto_plan,
   controller.py 1911-1984), whichever way the chain enters and leaves the planning. *)
THEOREM RepairsGoWithTheirReview == Spec => []RepairsTheRejected
<1>1. Init => PlanInv
  BY DEF Init, PlanInit, PlanInv
<1>2. PlanInv => RepairsTheRejected
  BY DEF PlanInv, RepairsTheRejected, Repairing
<1> QED
  BY <1>1, <1>2, PlanInvStep, PTL DEF Spec

(* However the stop, its latch and the creation of the run fall, a run that a chain creates
   under the latch is not planned (cmd_go, cli.py 577-614). *)
THEOREM StopReachesTheNextRun == Spec => []NothingPlannedUnderStop
<1>1. Init => LatchInv
  BY DEF Init, LatchInv, NothingPlannedUnderStop, NoRun
<1>2. LatchInv => NothingPlannedUnderStop
  BY DEF LatchInv
<1> QED
  BY <1>1, <1>2, Foundations, LatchStep, PTL DEF Spec

(* Two commands that are admitted at the same time never both get a live run (create_run,
   controller.py 205-229). *)
THEOREM OneLiveRun == Spec => []AdmittedAlone
<1>1. Init => AloneInv
  BY DEF Init, AloneInv, AdmittedAlone, Live, Active, Procs
<1>2. AloneInv => AdmittedAlone
  BY DEF AloneInv
<1> QED
  BY <1>1, <1>2, Foundations, AloneStep, PTL DEF Spec

(* No run of a chain begins without committed work that was accepted before it (cmd_go,
   cli.py 590-595, 704-721). *)
THEOREM AcceptedWorkComesFirst == Spec => []LandedBeforeNext
<1>1. Init => LandedInv
  BY DEF Init, LandedInv, LandedBeforeNext, Unlanded, Procs, Working
<1>2. LandedInv => LandedBeforeNext
  BY DEF LandedInv
<1> QED
  BY <1>1, <1>2, Foundations, LandedStep, PTL DEF Spec

(* When a chain goes on, at most one of its runs has ended since it last had one accepted
   (cmd_go, cli.py 516-533, 641-690, 744-765). *)
THEOREM AFailureBuysOneContinuation == Spec => []OneContinuation
<1>1. Init => OneEnded
  BY DEF Init, OneEnded, Ended
<1>2. TypeOK /\ ControlInv /\ OneEnded => OneContinuation
  <2> SUFFICES ASSUME TypeOK, ControlInv, OneEnded, GoAt("head"), Live = {},
                      NEW r \in wasted \ (expired \cup beside)
               PROVE  r \in Ended
    BY DEF OneContinuation, OneEnded
  <2>1. r \in Runs /\ owner[r] = "go"
    BY DEF TypeOK, OneEnded
  <2>2. status[r] \notin Active
    BY <2>1 DEF Live, Nobody
  <2>3. current["go"] = NoRun
    BY DEF ControlInv, GoAt, At, Procs
  <2> QED
    BY <2>1, <2>2, <2>3, ProjectAssumption DEF Ended, NoRun, Runs
<1> QED
  BY <1>1, <1>2, Foundations, OneEndedStep, PTL DEF Spec
=============================================================================
