---------------------------- MODULE RunLifecycle ----------------------------
(***************************************************************************)
(* One run of longrun under its controller: run_loop, freeze_run, the      *)
(* round loop _run_loop, evaluate, fresh_restart and the terminal exits,   *)
(* with the process around them - crashes and re-entries, SIGINT/SIGTERM,  *)
(* `longrun stop`, the wall clock.                                         *)
(*                                                                         *)
(* Most variables are on disk (state.json, contract.json, the STOP file,   *)
(* the git branch, the workspace) and survive a crash; the last ones are   *)
(* the locals of the controller process.  A step of the model is the code  *)
(* between two points where a crash, a signal or the owner can make a      *)
(* difference: a state transaction, a file that appears or disappears, a   *)
(* child session.                                                          *)
(*                                                                         *)
(* One controller at a time: run_loop holds the run's lease.  `longrun     *)
(* stop` writes the run's state without it; the other commands that do,    *)
(* evaluate and rebase, are in Evaluation.                                 *)
(***************************************************************************)
EXTENDS Verdicts, LoopGuard, Integers

CONSTANTS
    Isolated,      \* the run has a git worktree and branch of its own
    MaxRounds,     \* budgets.max_rounds
    MaxRepairs,    \* budgets.max_repairs
    MaxRestarts,   \* budgets.max_fresh_restarts
    MaxEntries     \* bound: how often the run is entered (run_loop is called)

\* What validate_contract lets a contract ask for.
ASSUME BudgetsAssumption ==
    /\ Isolated \in BOOLEAN
    /\ MaxRounds \in Nat
    /\ MaxRepairs \in 0..2
    /\ MaxRestarts \in 0..1
    /\ MaxEntries \in Nat

VARIABLES
    status,          \* state["status"]
    rounds,          \* counters.rounds
    repairs,         \* counters.repairs
    restarts,        \* counters.fresh_restarts
    criteria,        \* criteria[c].status
    loop,            \* the loop record
    unchanged,       \* the evaluation inputs hash to loop.last_eval_input_hash
    branch,          \* the branch longrun/<run> exists
    contractFrozen,  \* contract.json carries frozen: true
    baseline,        \* what is recorded of it: "none", its "revision", and then its "checks"
    delta,           \* the workspace differs from the frozen baseline
    atVerdict,       \* the workspace is at the revision of the standing verdict
    blocker,         \* the last blocker observation: "none", "earlier", "now"
    stopFile,        \* the STOP file exists
    late,            \* less than 60 s are left until the deadline, or there is none yet
    entries,         \* how often run_loop has been called (history)
    stopping,        \* a `longrun stop` that has read an unfinished run: "read" while a
                     \* controller lived, has found "nobody", or "none" is under way
    pc,              \* where the controller process is; "idle": there is none
    isRepair,        \* the local is_repair
    ev,              \* what this round's evaluation returned
    signal,          \* the session a signal killed, "flagged", or "none"
    stopAt           \* rounds when a live controller was asked to stop (history)

\* What survives the controller: the disk, the clock, and the owner's stop.
diskVars == <<status, rounds, repairs, restarts, criteria, loop, unchanged, branch,
              contractFrozen, baseline, delta, atVerdict, blocker, stopFile, late, entries,
              stopping>>
vars == <<status, rounds, repairs, restarts, criteria, loop, unchanged, branch,
          contractFrozen, baseline, delta, atVerdict, blocker, stopFile, late, entries,
          stopping, pc, isRepair, ev, signal, stopAt>>

counters == <<rounds, repairs, restarts>>
judgement == <<criteria, loop, unchanged>>
frozenParts == <<branch, contractFrozen, baseline>>
workspace == <<delta, atVerdict, blocker>>
process == <<isRepair, ev>>
environment == <<stopFile, late, entries, stopping, signal, stopAt>>

Sessions == {"builder", "evaluator", "restart_manager"}
FreezePoints == {"worktree", "contract", "frozen", "baseline"}
PCs == {"idle", "launch", "entered", "start", "top", "round", "gate", "gatebound",
        "evaluate", "decide", "policy", "restart", "resume",
        "raised"} \cup Sessions \cup FreezePoints

NotAsked == -1

\* What evaluate returns to the round loop, as far as the loop looks at it.
Evaluations == [overall : Overall \cup {"none"}, owner : BOOLEAN, moved : BOOLEAN]
NoVerdict == [overall |-> "none", owner |-> FALSE, moved |-> FALSE]
NoDeltaVerdict == [overall |-> "NEEDS_REWORK", owner |-> FALSE, moved |-> FALSE]
Returned(v) == [overall |-> v.overall, owner |-> NeedsOwner(v), moved |-> Moved(criteria, v)]

\* `longrun plan` has exited, or `longrun go` has planned and is about to call run_loop.  The
\* deadline is that of planning, if any.
Init ==
    /\ status = "PLANNED"
    /\ rounds = 0 /\ repairs = 0 /\ restarts = 0
    /\ criteria = InitialCriteria
    /\ loop = InitialLoop
    /\ unchanged = FALSE
    /\ branch = FALSE /\ contractFrozen = FALSE /\ baseline = "none"
    /\ delta = FALSE /\ atVerdict = FALSE /\ blocker = "none"
    /\ stopFile = FALSE /\ late \in BOOLEAN /\ entries = 0 /\ stopping = "none"
    /\ pc \in {"idle", "launch"}
    /\ isRepair = FALSE /\ ev = NoVerdict
    /\ signal = "none" /\ stopAt = NotAsked

-----------------------------------------------------------------------------
(* The ends of a run and of a controller process. *)

Goto(point) == pc' = point

LeaveLoop ==
    /\ pc' = "idle"
    /\ isRepair' = FALSE
    /\ ev' = NoVerdict

\* The process is gone and the run is not finished.
Die ==
    /\ LeaveLoop
    /\ signal' = "none"
    /\ stopAt' = NotAsked
    /\ UNCHANGED diskVars

Finish(s) ==
    /\ status' = s
    /\ LeaveLoop
    /\ UNCHANGED <<counters, judgement, frozenParts, workspace, environment>>

FinishBounded == Finish(BoundedStatus(criteria))

\* A ControllerError that _run_loop does not catch leaves run_loop.
Raise ==
    /\ pc' = "raised"
    /\ UNCHANGED <<diskVars, isRepair, ev, signal, stopAt>>

-----------------------------------------------------------------------------
(* run_loop: the lease, the STOP file, the first transaction. *)

Enter ==
    /\ pc \in {"idle", "launch"}
    /\ status \notin TerminalStates
    /\ entries < MaxEntries
    /\ entries' = entries + 1
    /\ signal' = "none"
    /\ Goto("entered")
    /\ UNCHANGED <<status, counters, judgement, frozenParts, workspace, process,
                   stopFile, late, stopping, stopAt>>

\* _run_loop looks at the status again after the freeze; a run that is neither PLANNED nor
\* FROZEN goes straight to the loop, one that was stopped meanwhile included.
AfterFreeze == IF status = "FROZEN" THEN "start" ELSE "top"

ClearStop ==
    /\ pc = "entered"
    /\ stopFile' = FALSE
    /\ Goto(IF status = "PLANNED" THEN "worktree" ELSE AfterFreeze)
    /\ UNCHANGED <<status, counters, judgement, frozenParts, workspace, process,
                   late, entries, stopping, signal, stopAt>>

-----------------------------------------------------------------------------
(* freeze_run *)

AddWorktree ==
    /\ pc = "worktree"
    /\ ~(Isolated /\ branch)
    /\ branch' = Isolated
    /\ Goto("contract")
    /\ UNCHANGED <<status, counters, judgement, contractFrozen, baseline, workspace,
                   process, environment>>

\* The branch exists, the HEAD or the content moved, or the host services are missing.
RefuseFreeze ==
    /\ pc \in {"worktree", "contract"}
    /\ Raise

WriteContract ==
    /\ pc = "contract"
    /\ ~contractFrozen
    /\ contractFrozen' = TRUE
    /\ Goto("frozen")
    /\ UNCHANGED <<status, counters, judgement, branch, baseline, workspace,
                   process, environment>>

\* contract.freeze raises ContractError, which no handler of run_loop or of its
\* callers expects: the process dies.
ContractAlreadyFrozen ==
    /\ pc = "contract"
    /\ contractFrozen
    /\ Die

\* One transaction: the baseline's revision, the status, the deadline.
MarkFrozen ==
    /\ pc = "frozen"
    /\ baseline' = "revision"
    /\ status' = "FROZEN"
    /\ late' = FALSE
    /\ Goto("baseline")
    /\ UNCHANGED <<counters, judgement, branch, contractFrozen, workspace, process,
                   stopFile, entries, stopping, signal, stopAt>>

RecordBaseline ==
    /\ pc = "baseline"
    /\ baseline' = "checks"
    /\ Goto(AfterFreeze)
    /\ UNCHANGED <<status, counters, judgement, branch, contractFrozen, workspace,
                   process, environment>>

StartRunning ==
    /\ pc = "start"
    /\ status' = "RUNNING"
    /\ Goto("top")
    /\ UNCHANGED <<counters, judgement, frozenParts, workspace, process, environment>>

-----------------------------------------------------------------------------
(* The head of the round loop. *)

StopRequested ==
    /\ pc = "top"
    /\ stopFile
    /\ Finish("STOPPED")

\* The wall clock, or max_cost_usd, which any spending may have reached.
BudgetExhausted ==
    /\ pc = "top"
    /\ ~stopFile
    /\ Finish("BUDGET_EXHAUSTED")

RoundsExhausted ==
    /\ pc = "top"
    /\ ~stopFile /\ ~late
    /\ rounds >= MaxRounds
    /\ FinishBounded

\* More than max_cost_without_delta_usd since the last delta, and a checkpoint without one.
Overspent ==
    /\ pc = "top"
    /\ ~stopFile /\ ~late
    /\ rounds < MaxRounds
    /\ loop.noDelta >= 1
    /\ FinishBounded

\* Mutant: the head of the loop admits one round too many.
BudgetLeft_OffByOne ==
    /\ pc = "top"
    /\ ~stopFile /\ ~late
    /\ rounds <= MaxRounds
    /\ Goto("round")
    /\ UNCHANGED <<diskVars, process, signal, stopAt>>

\* Mutant: the head of the loop does not look at the STOP file.
BudgetLeft_StopUnseen ==
    /\ pc = "top"
    /\ ~late
    /\ rounds < MaxRounds
    /\ Goto("round")
    /\ UNCHANGED <<diskVars, process, signal, stopAt>>

BudgetLeft ==
    /\ pc = "top"
    /\ ~stopFile /\ ~late
    /\ rounds < MaxRounds
    /\ Goto("round")
    /\ UNCHANGED <<diskVars, process, signal, stopAt>>

RoundStart ==
    /\ pc = "round"
    /\ rounds' = rounds + 1
    /\ status' = IF isRepair THEN "REPAIRING" ELSE "RUNNING"
    /\ blocker' = IF blocker = "now" THEN "earlier" ELSE blocker
    /\ Goto("builder")
    /\ UNCHANGED <<repairs, restarts, judgement, frozenParts, delta, atVerdict, process, environment>>

-----------------------------------------------------------------------------
(* A child session (launch_session) as the round loop sees it. *)

\* The signal handler killed the child, or the flag it left stops the next one.
SessionInterrupted(role) ==
    /\ pc = role
    /\ signal # "none"
    /\ Finish("INTERRUPTED")

\* Terminal quota, a request the provider will never accept, a stalled model.
SessionFailed(role) ==
    /\ pc = role
    /\ signal # role
    /\ Finish("FAILED")

\* The driver is not available, or no wall time is left to launch it in.
SessionRefused(role) ==
    /\ pc = role
    /\ signal # role

\* Mutant: the result of a killed session is used.
SessionReturns_Killed(role) == pc = role

SessionReturns(role) ==
    /\ pc = role
    /\ signal = "none"

\* Any ControllerError of the builder's session ends the run FAILED, like SessionFailed.
BuilderStops == SessionInterrupted("builder") \/ SessionFailed("builder")

BuilderReturns ==
    /\ SessionReturns("builder")
    /\ Goto("gate")
    /\ UNCHANGED <<diskVars, process, signal, stopAt>>

\* The bytes of the workspace change, to the baseline's or away from it.
Rewrite ==
    /\ delta' \in BOOLEAN
    /\ unchanged' = FALSE
    /\ atVerdict' = FALSE

\* While it runs, the builder edits the workspace, submits evidence, observes a blocker.
BuilderWorks ==
    /\ pc = "builder"
    /\ \/ Rewrite /\ UNCHANGED blocker
       \/ unchanged' = FALSE /\ UNCHANGED workspace
       \/ blocker' = "now" /\ UNCHANGED <<delta, atVerdict, unchanged>>
    /\ UNCHANGED <<status, counters, criteria, loop, frozenParts, pc, process, environment>>

-----------------------------------------------------------------------------
(* The round gate. *)

\* Only the vr_visual adapter prepares a host service before its gate.
HostServiceMissing ==
    /\ pc = "gate"
    /\ Raise

\* Mutant: a failing gate sends the builder back to work within the same round.
GateFails_SameRound ==
    /\ pc = "gate"
    /\ isRepair' = TRUE
    /\ Goto("builder")
    /\ UNCHANGED <<diskVars, ev, signal, stopAt>>

GateFails ==
    /\ pc = "gate"
    /\ repairs' = repairs + 1
    /\ isRepair' = (repairs + 1 <= MaxRepairs)
    /\ Goto(IF repairs + 1 > MaxRepairs THEN "gatebound" ELSE "top")
    /\ UNCHANGED <<status, rounds, restarts, judgement, frozenParts, workspace, ev,
                   environment>>

GateKeptFailing ==
    /\ pc = "gatebound"
    /\ FinishBounded

\* _has_cumulative_run_delta: what has no baseline has no delta.
HasRunDelta == delta /\ baseline # "none"

\* Without a content delta the verdict is the controller's own.
GatePasses ==
    /\ pc = "gate"
    /\ ev' = IF HasRunDelta THEN NoVerdict ELSE NoDeltaVerdict
    /\ Goto(IF HasRunDelta THEN "evaluate" ELSE "decide")
    /\ UNCHANGED <<diskVars, isRepair, signal, stopAt>>

-----------------------------------------------------------------------------
(* evaluate *)

\* A run that was stopped in its round is not evaluated, unless it was stopped after this look.
EvaluateRefused ==
    /\ pc = "evaluate"
    /\ status \in TerminalStates
    /\ Raise

SkipUnchanged ==
    /\ pc = "evaluate"
    /\ unchanged
    /\ ev' = NoVerdict
    /\ Goto("decide")
    /\ UNCHANGED <<diskVars, isRepair, signal, stopAt>>

\* The checks have just run, and a check may answer differently than it did for the
\* last evaluation: the inputs need not be the ones the builder left.
EvaluationStart ==
    /\ pc = "evaluate"
    /\ status' = "EVALUATING"
    /\ Goto("evaluator")
    /\ UNCHANGED <<counters, judgement, frozenParts, workspace, process, environment>>

EvaluatorStops ==
    \/ SessionInterrupted("evaluator")
    \/ SessionFailed("evaluator")
    \/ SessionRefused("evaluator") /\ Raise

VerdictRejected ==
    /\ SessionReturns("evaluator")
    /\ status' = "RUNNING"
    /\ unchanged' = TRUE
    /\ ev' = NoVerdict
    /\ Goto("decide")
    /\ UNCHANGED <<counters, criteria, loop, frozenParts, workspace, isRepair, environment>>

VerdictApplied ==
    /\ SessionReturns("evaluator")
    /\ \E v \in AcceptedVerdicts :
          /\ criteria' = v.crit
          /\ ev' = Returned(v)
    /\ status' = "RUNNING"
    /\ unchanged' = TRUE
    /\ atVerdict' = TRUE
    /\ Goto("decide")
    /\ UNCHANGED <<counters, loop, frozenParts, delta, blocker, isRepair, environment>>

-----------------------------------------------------------------------------
(* What the loop does with the round's verdict. *)

AllCriteriaPass ==
    /\ pc = "decide"
    /\ ev.overall = "PASS"
    /\ Finish("PASSED")

OwnerMustJudge ==
    /\ pc = "decide"
    /\ ev.overall # "PASS"
    /\ ev.owner
    /\ Finish("OWNER_JUDGMENT_REQUIRED")

StrategicCheck ==
    /\ pc = "decide"
    /\ ev.overall # "PASS"
    /\ ~ev.owner
    /\ loop' = Checkpoint(loop, criteria, ev.moved, blocker = "now")
    /\ Goto("policy")
    /\ UNCHANGED <<status, counters, criteria, unchanged, frozenParts, workspace, process,
                   environment>>

ResetBudgetSpent == ev.overall = "RESET_RECOMMENDED" /\ restarts >= MaxRestarts

ResetWithoutBudget ==
    /\ pc = "policy"
    /\ ResetBudgetSpent
    /\ FinishBounded

\* Mutant: a repair is scheduled and not counted.
ScheduleRepair_Uncounted ==
    /\ pc = "policy"
    /\ ~ResetBudgetSpent
    /\ repairs < MaxRepairs
    /\ isRepair' = TRUE
    /\ ev' = NoVerdict
    /\ Goto("top")
    /\ UNCHANGED <<status, counters, judgement, frozenParts, workspace, environment>>

ScheduleRepair ==
    /\ pc = "policy"
    /\ ~ResetBudgetSpent
    /\ repairs < MaxRepairs
    /\ repairs' = repairs + 1
    /\ isRepair' = TRUE
    /\ ev' = NoVerdict
    /\ Goto("top")
    /\ UNCHANGED <<status, rounds, restarts, judgement, frozenParts, workspace, environment>>

FreshRestart ==
    /\ pc = "policy"
    /\ ~ResetBudgetSpent
    /\ repairs >= MaxRepairs
    /\ restarts < MaxRestarts
    /\ restarts' = restarts + 1
    /\ status' = "RESTARTING"
    /\ ev' = NoVerdict
    /\ Goto("restart")
    /\ UNCHANGED <<rounds, repairs, judgement, frozenParts, workspace, isRepair, environment>>

GiveUp ==
    /\ pc = "policy"
    /\ ~ResetBudgetSpent
    /\ repairs >= MaxRepairs
    /\ restarts >= MaxRestarts
    /\ IF blocker # "none" THEN Finish("BLOCKED") ELSE FinishBounded

-----------------------------------------------------------------------------
(* fresh_restart *)

\* Dirty in-place work, no recovery patch, or nothing to judge: no session is launched.
KeepWork ==
    /\ pc = "restart"
    /\ status' = "RUNNING"
    /\ Goto("resume")
    /\ UNCHANGED <<counters, judgement, frozenParts, workspace, process, environment>>

\* There is a diff to keep or to discard.
AskRestartManager ==
    /\ pc = "restart"
    /\ delta
    /\ Goto("restart_manager")
    /\ UNCHANGED <<diskVars, process, signal, stopAt>>

\* APPLY keeps the work; DISCARD and PARTIALLY_APPLY change the workspace.
RestartJudged ==
    /\ SessionReturns("restart_manager")
    /\ Rewrite \/ UNCHANGED <<delta, atVerdict, unchanged>>
    /\ status' = "RUNNING"
    /\ Goto("resume")
    /\ UNCHANGED <<counters, criteria, loop, frozenParts, blocker, process, environment>>

\* `except Exception`: a refused session, an unusable answer, a git command that did not
\* come back - and an interrupted session.
RestartErrorSwallowed ==
    /\ pc = "restart_manager"
    /\ Rewrite \/ UNCHANGED <<delta, atVerdict, unchanged>>
    /\ status' = "RUNNING"
    /\ Goto("resume")
    /\ UNCHANGED <<counters, criteria, loop, frozenParts, blocker, process, environment>>

RestartFails == SessionFailed("restart_manager")

ResumeAfterRestart ==
    /\ pc = "resume"
    /\ repairs' = 0
    /\ loop' = [loop EXCEPT !.noDelta = 0]
    /\ isRepair' = FALSE
    /\ Goto("top")
    /\ UNCHANGED <<status, rounds, restarts, criteria, unchanged, frozenParts, workspace, ev,
                   environment>>

-----------------------------------------------------------------------------
(* A ControllerError reaches the command that called run_loop. *)

\* cmd_run prints it and exits; so does cmd_go when the run never executed, or was stopped.
CommandReportsError ==
    /\ pc = "raised"
    /\ Die

\* cmd_go, which enters a run once, finishes a run that had already executed.
ChainFinishesFailed ==
    /\ pc = "raised"
    /\ entries = 1
    /\ baseline # "none" \/ rounds > 0
    /\ ~stopFile
    /\ Finish("FAILED")

-----------------------------------------------------------------------------
(* What happens to a controller. *)

Crash ==
    /\ pc # "idle"
    /\ Die

\* run_loop has installed its handlers.
Signal ==
    /\ pc \notin {"idle", "launch", "entered", "raised"}
    /\ signal = "none"
    /\ signal' = IF pc \in Sessions THEN pc ELSE "flagged"
    /\ UNCHANGED <<diskVars, pc, process, stopAt>>

\* `longrun stop` puts the STOP file there and reads the state while a controller lives.  When it
\* looks for that controller's process, it finds it and is done, or it no longer does.
StopLive ==
    /\ pc # "idle"
    /\ stopFile' = TRUE
    /\ stopAt' = IF stopFile THEN stopAt ELSE rounds
    /\ \/ UNCHANGED stopping
       \/ stopping = "none" /\ status \notin TerminalStates /\ stopping' = "read"
    /\ UNCHANGED <<status, counters, judgement, frozenParts, workspace, late, entries,
                   pc, process, signal>>

\* Mutant: `longrun stop` does not look whether the run has ended.
StopFindsNobody_Terminal ==
    /\ pc = "idle"
    /\ stopping \in {"none", "read"}
    /\ stopFile' = TRUE
    /\ stopping' = "nobody"
    /\ UNCHANGED <<status, counters, judgement, frozenParts, workspace, late, entries, pc, process,
                   signal, stopAt>>

\* `longrun stop` finds no controller: there was none, or the one that lived when it read the
\* state has gone.
StopFindsNobody ==
    /\ pc = "idle"
    /\ \/ stopping = "none" /\ status \notin TerminalStates /\ stopFile' = TRUE
       \/ stopping = "read" /\ UNCHANGED stopFile
    /\ stopping' = "nobody"
    /\ UNCHANGED <<status, counters, judgement, frozenParts, workspace, late, entries, pc, process,
                   signal, stopAt>>

\* ... and finishes the run itself, whatever has become of it.
StopWrites ==
    /\ stopping = "nobody"
    /\ status' = "STOPPED"
    /\ stopping' = "none"
    /\ UNCHANGED <<counters, judgement, frozenParts, workspace, stopFile, late, entries, pc,
                   process, signal, stopAt>>

TimeRunsOut ==
    /\ pc # "idle" \/ status \notin TerminalStates
    /\ ~late
    /\ late' = TRUE
    /\ UNCHANGED <<status, counters, judgement, frozenParts, workspace, stopFile, entries,
                   stopping, pc, process, signal, stopAt>>

\* A finished run stays as it is.
Ended ==
    /\ status \in TerminalStates
    /\ pc = "idle"
    /\ UNCHANGED vars

-----------------------------------------------------------------------------
Freeze ==
    AddWorktree \/ RefuseFreeze \/ WriteContract \/ ContractAlreadyFrozen \/ MarkFrozen
    \/ RecordBaseline
LoopHead ==
    StopRequested \/ BudgetExhausted \/ RoundsExhausted \/ Overspent \/ BudgetLeft \/ RoundStart
Build == BuilderStops \/ BuilderReturns \/ HostServiceMissing \/ GateFails \/ GateKeptFailing \/ GatePasses
Evaluate ==
    EvaluateRefused \/ SkipUnchanged \/ EvaluationStart \/ EvaluatorStops \/ VerdictRejected \/ VerdictApplied
Policy ==
    AllCriteriaPass \/ OwnerMustJudge \/ StrategicCheck \/ ResetWithoutBudget \/ ScheduleRepair
    \/ FreshRestart \/ GiveUp
Restart == KeepWork \/ AskRestartManager \/ RestartJudged \/ RestartErrorSwallowed \/ RestartFails
    \/ ResumeAfterRestart
Escape == CommandReportsError \/ ChainFinishesFailed

\* What the controller process does once run_loop has been called.
Controller ==
    \/ ClearStop \/ Freeze \/ StartRunning
    \/ LoopHead \/ Build \/ Evaluate \/ Policy \/ Restart
    \/ Escape

Stop == StopLive \/ StopFindsNobody \/ StopWrites

Next == Enter \/ Controller \/ BuilderWorks \/ Crash \/ Signal \/ Stop \/ TimeRunsOut \/ Ended

Spec == Init /\ [][Next]_vars

\* Every step of the controller is a local computation, or waits for a subprocess that
\* a timeout kills; nothing obliges anybody to enter, stop, signal or crash a run - except
\* `longrun go`, which calls run_loop as soon as it has planned.
FairSpec == Spec /\ WF_vars(Controller) /\ WF_vars(pc = "launch" /\ Enter)

-----------------------------------------------------------------------------
(* Properties *)

LoopRecords == [noDelta : Nat, fp : [Criteria -> CritVerdicts] \cup {NoFingerprint}]

\* Every variable has a value of its type; counters.repairs may pass its budget,
\* because a failing gate counts a repair before it looks at the budget.
TypeOK ==
    /\ status \in ActiveStates \cup TerminalStates
    /\ rounds \in Nat /\ repairs \in Nat /\ restarts \in Nat /\ entries \in Nat
    /\ criteria \in [Criteria -> CritVerdicts]
    /\ loop \in LoopRecords
    /\ unchanged \in BOOLEAN /\ delta \in BOOLEAN /\ atVerdict \in BOOLEAN
    /\ stopFile \in BOOLEAN /\ late \in BOOLEAN
    /\ branch \in BOOLEAN /\ contractFrozen \in BOOLEAN
    /\ baseline \in {"none", "revision", "checks"}
    /\ stopping \in {"none", "read", "nobody"}
    /\ blocker \in {"none", "earlier", "now"}
    /\ pc \in PCs
    /\ isRepair \in BOOLEAN
    /\ ev \in Evaluations
    /\ signal \in {"none", "flagged"} \cup Sessions
    /\ stopAt \in Int

\* The smaller of the repairs that were counted and the repairs that were allowed.
RepairsPaid == IF repairs < MaxRepairs THEN repairs ELSE MaxRepairs

\* What has been paid for rounds: one by each entry, one by each repair, and by each
\* fresh restart one more together with the repairs it wiped from the counter.
RoundsPaid == entries + restarts * (MaxRepairs + 1) + RepairsPaid

\* Every round that was started - max_rounds apart - is paid for by an entry, a repair or a
\* restart, however crashes, re-entries and resets of the repair counter interleave: no path
\* of _run_loop and fresh_restart buys a round twice.
RoundsAccounted == rounds <= RoundsPaid

\* No crash or re-entry takes a run over max_rounds or max_fresh_restarts.
BudgetsRespected == rounds <= MaxRounds /\ restarts <= MaxRestarts

\* A run that says PASSED has every criterion PASS on disk, judged at the revision that is
\* in the workspace now, and no criterion that only the owner may judge: no crash, repair or
\* restart lets an older verdict stand for newer work.
PassedIsEarned == status = "PASSED" => AllPass(criteria) /\ atVerdict /\ OwnerJudged = {}

\* After a stop that a live controller acknowledged, at most one more round starts
\* as long as the STOP file is there: the one whose head had already looked.
StopBoundsRounds == stopAt # NotAsked /\ stopFile => rounds <= stopAt + 1

\* A controller whose builder or evaluator was killed by a signal leaves the run INTERRUPTED,
\* whatever else the loop would have done next, and whatever the owner's stop has written
\* meanwhile; a crash forgets the signal.
WorkerSignalInterrupts ==
    [][pc # "idle" /\ pc' = "idle" /\ signal' \in {"builder", "evaluator"}
          => status' = "INTERRUPTED"]_vars

\* A controller that has been started comes back, without a crash and without
\* waiting for anybody: the loop of rounds, repairs and restarts is bounded.
ReturnsEventually == (pc # "idle") ~> (pc = "idle")

\* The run as its owner sees it.
Phase ==
    IF status \in ExecutingStates THEN "working"
    ELSE IF status = "STOPPED" /\ pc # "idle" THEN "overruled" ELSE status
Outcome == INSTANCE RunOutcome WITH phase <- Phase, stopping <- stopping # "none"

\* Through crashes, re-entries, signals and stops a run behaves as RunOutcome promises:
\* frozen once, bounded rounds, judged only while worked on, ended with a status its criteria
\* justify, and ended once but for a stop that looked before the end and writes after it.
KeepsPromise == Outcome!Spec

(* What the repository says of a run and the code does not keep. *)

\* The work that a PARTIAL_PASS lands is the work that was judged (cmd_go: "an independent
\* evaluator confirmed the criteria that passed at this revision").
PartialIsEarned == status = "PARTIAL_PASS" => atVerdict

\* When a builder works on a frozen run - one whose baseline has a revision - the baseline
\* checks have been recorded (README, "Baseline before edits").
BaselineBeforeBuilder == pc = "builder" /\ baseline # "none" => baseline = "checks"

\* A run that reports RESET_RECOMMENDED has no verified criterion to report
\* (_partial: "Report what was verified so the next planner can finish it").
VerifiedWorkIsReported == status = "RESET_RECOMMENDED" => ~SomePass(criteria)

\* A terminal status stays: what follows it is a fresh child run, never this one
\* (run_loop: "run is terminal; use `longrun reset` for a fresh child run").
TerminalIsFinal == [][(status \in TerminalStates) => status' = status]_vars

-----------------------------------------------------------------------------
(* Strengthenings that are inductive: what the proofs use. *)

\* The points at which the next round has been paid for and not yet begun.
RoundPending == {"entered", "start", "top", "round"} \cup FreezePoints
RestartPoints == {"restart", "restart_manager", "resume"}
InRound == {"gate", "gatebound", "evaluate", "decide", "policy"} \cup Sessions \cup RestartPoints
WorkPoints == {"top", "round"} \cup InRound

\* A pending round is paid for in advance; a restart has paid for its round and for the
\* repairs that it is about to wipe from the counter.
AccountInv ==
    /\ RoundsAccounted
    /\ pc \in RoundPending => rounds + 1 <= RoundsPaid
    /\ pc \in RestartPoints => repairs >= MaxRepairs /\ rounds + MaxRepairs + 1 <= RoundsPaid

\* A round begins right after the head of the loop found one left.
BudgetInv == BudgetsRespected /\ (pc = "round" => rounds < MaxRounds)

\* Where the controller is says which status the run has.
\* A run that has ended has no controller, unless a stop that was late has ended it.
ControlInv ==
    /\ status \in TerminalStates => pc = "idle" \/ status = "STOPPED"
    /\ pc \in {"worktree", "contract", "frozen"} => status \in {"PLANNED", "STOPPED"} /\ rounds = 0
    /\ pc \in {"baseline", "start"} => status \in {"FROZEN", "STOPPED"}
    /\ pc = "launch" => status \in {"PLANNED", "STOPPED"}
    /\ pc = "raised" => status \in {"PLANNED", "STOPPED"} \cup ExecutingStates
    /\ pc \in WorkPoints => status \in {"STOPPED"} \cup ExecutingStates
    /\ pc \in InRound => rounds > 0
    /\ status = "PLANNED" => rounds = 0 /\ baseline = "none"

Earned == AllPass(criteria) /\ atVerdict /\ OwnerJudged = {}

\* The PASS that the loop is about to act on is that of the verdict on disk.
VerdictInv ==
    /\ pc = "decide" /\ ev.overall = "PASS" => Earned
    /\ status = "PASSED" => pc = "idle" /\ Earned

\* The round whose head had looked before the owner asked is the only one to come; a
\* controller that died unfinished has taken its promise to stop with it.
StopInv ==
    /\ stopAt # NotAsked /\ stopFile =>
          rounds <= stopAt + 1 /\ (pc = "round" => rounds <= stopAt)
    /\ pc = "idle" /\ status \notin TerminalStates => stopAt = NotAsked

\* A session that a signal killed has not been left in any other way.
SignalInv ==
    signal \in {"builder", "evaluator"} =>
        pc = signal \/ (pc = "idle" /\ status \in TerminalStates)

-----------------------------------------------------------------------------
(* A measure of what run_loop has still to do: the part of ReturnsEventually that needs no      *)
(* fairness.                                                                                    *)

\* The steps of the controller from here to the end of the loop, if no round follows.
StepsToReturn == [raised |-> 1, gatebound |-> 1, round |-> 1, top |-> 2, resume |-> 3,
                  restart_manager |-> 4, restart |-> 5, policy |-> 6, decide |-> 7,
                  evaluator |-> 8, evaluate |-> 9, gate |-> 10, builder |-> 11,
                  start |-> 3, baseline |-> 4, frozen |-> 5, contract |-> 6, worktree |-> 7,
                  entered |-> 8]

\* Each round that is left adds at most the eleven steps from one head of the loop to the next.
StepsLeft == IF pc \in {"idle", "launch"} THEN 0 ELSE 11 * (MaxRounds - rounds) + StepsToReturn[pc]

\* A call of run_loop has at most this much to do, whatever the verdicts and the restarts.
StepsAreFinite == StepsLeft \in 0 .. 11 * MaxRounds + 8

\* Each step of the controller brings the return of run_loop nearer, and nothing that the
\* builder's edits, a signal, the owner, the clock or a crash do in between puts it off.
EveryStepCounts ==
    [][pc \notin {"idle", "launch"} =>
          /\ StepsLeft' <= StepsLeft
          /\ Controller => StepsLeft' < StepsLeft]_vars
=============================================================================
