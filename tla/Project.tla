------------------------------ MODULE Project ------------------------------
(***************************************************************************)
(* One project and the commands that work on it: `longrun go` with its     *)
(* chain of outcomes (cmd_go), and beside it a shell in which the owner    *)
(* plans and runs single runs (cmd_plan, cmd_run), stops, prunes, commits  *)
(* and merges.  They meet in the locks of the project and of a run, in the *)
(* states of the runs, in two files that mean stop, and in git.            *)
(*                                                                         *)
(* A run is a number, in the order of creation.  Its rounds are module     *)
(* RunLifecycle; here it is planned (module AutoPlan), frozen, and ends in *)
(* one of the ways that cmd_go tells apart.  A revision of the project is  *)
(* the set of the runs whose work it holds, and OwnerWork.  The pointer    *)
(* file that names the last run is left out: it only says which run a      *)
(* command without --run means, and here a command may mean any run.       *)
(***************************************************************************)
EXTENDS AutoPlan

CONSTANTS
    ChainRuns,      \* bound: runs that chains create
    ShellRuns,      \* bound: runs that the shell creates
    MaxEvents       \* bound: what happens beside the chain: commands of the shell, stops,
                    \* edits, deaths of a command, runs whose time passes

ASSUME ProjectAssumption == ChainRuns \in Nat /\ ShellRuns \in Nat /\ MaxEvents \in Nat

Runs == 1 .. (ChainRuns + ShellRuns)
NoRun == 0
OwnerWork == 0
Procs == {"go", "shell"}
Nobody == "nobody"

VARIABLES
    status,      \* status of each run; "none": not created
    owner,       \* the live process of controller_pid, or Nobody
    inWorktree,  \* the runs with isolation "worktree"
    base,        \* start_revision
    work,        \* where a worktree run's accepted work is, besides the project's HEAD
    frozen,      \* the runs with a contract_hash
    expired,     \* the runs for which created_at + wall_time_seconds has passed
    stopFiles,   \* the runs with a STOP file
    latch,       \* the chain's stop marker exists
    admission,   \* holder of the admission lock
    lease,       \* holder of each run's controller lock
    head,        \* the revision of the project's branch
    dirty,       \* tracked files of the project differ from HEAD
    at,          \* where each process is
    current,     \* the run each process works on
    raised,      \* the exception cmd_go handles
    startFails,  \* consecutive_start_failures
    failures,    \* failed_outcomes
    stopping,    \* where cmd_stop is
    target,      \* the run cmd_stop resolved
    wasted,      \* the runs of this chain since one was accepted (history)
    beside,      \* runs that `longrun run` executed while a chain was alive (history)
    missed,      \* other runs whose accepted work a later run of a chain began without (history)
    underLatch,  \* runs of a chain that were created under the latch (history)
    events       \* (history, for the bound)

runVars == <<status, owner, inWorktree, base, work, frozen, expired>>
stopVars == <<stopFiles, latch, stopping, target>>
lockVars == <<admission, lease>>
gitVars == <<head, dirty>>
chainVars == <<raised, startFails, failures>>
history == <<wasted, beside, missed, underLatch, events>>
vars == <<status, owner, inWorktree, base, work, frozen, expired, stopFiles, latch,
          admission, lease, head, dirty, at, current, raised, startFails, failures,
          stopping, target, wasted, beside, missed, underLatch, events,
          step, attempt, candidate, review>>

\* FAILED stands for every bounded failure (RESET_RECOMMENDED, BLOCKED, BUDGET_EXHAUSTED),
\* PASSED for PARTIAL_PASS, RUNNING for every executing status, STOPPED for INTERRUPTED and,
\* out of run_loop, for OWNER_JUDGMENT_REQUIRED, which the chain treats alike.
Terminal == {"PASSED", "FAILED", "STOPPED", "OWNER_JUDGMENT_REQUIRED"}
Active == {"CREATED", "PLANNED", "RUNNING"}
Statuses == Terminal \cup Active \cup {"none"}

Places == {"down", "head", "admitting", "admitted", "visible", "planning",
           "reviewing", "planned", "entered", "freezing", "executing", "returned", "handling"}
Exceptions == {"none", "terminal", "exhausted", "controller"}

TypeOK ==
    /\ status \in [Runs -> Statuses]
    /\ owner \in [Runs -> Procs \cup {Nobody}]
    /\ inWorktree \subseteq Runs /\ frozen \subseteq Runs /\ expired \subseteq Runs
    /\ base \in [Runs -> SUBSET (Runs \cup {OwnerWork})]
    /\ work \in [Runs -> {"none", "workspace", "branch", "pruned", "dropped"}]
    /\ stopFiles \subseteq Runs /\ latch \in BOOLEAN
    /\ admission \in Procs \cup {Nobody}
    /\ lease \in [Runs -> Procs \cup {Nobody}]
    /\ head \subseteq Runs \cup {OwnerWork} /\ dirty \in BOOLEAN
    /\ at \in [Procs -> Places] /\ current \in [Procs -> Runs \cup {NoRun}]
    /\ raised \in Exceptions /\ startFails \in Nat /\ failures \in Nat
    /\ stopping \in {"idle", "file", "latched", "dead"} /\ target \in Runs \cup {NoRun}
    /\ wasted \subseteq Runs /\ beside \subseteq Runs /\ missed \subseteq Runs /\ underLatch \subseteq Runs
    /\ events \in Nat
    /\ PlanTypeOK

Init ==
    /\ status = [r \in Runs |-> "none"] /\ owner = [r \in Runs |-> Nobody]
    /\ inWorktree = {} /\ base = [r \in Runs |-> {}] /\ work = [r \in Runs |-> "none"]
    /\ frozen = {} /\ expired = {} /\ stopFiles = {} /\ latch = FALSE
    /\ admission = Nobody /\ lease = [r \in Runs |-> Nobody]
    /\ head = {} /\ dirty = FALSE
    /\ at = [p \in Procs |-> "down"] /\ current = [p \in Procs |-> NoRun]
    /\ raised = "none" /\ startFails = 0 /\ failures = 0
    /\ stopping = "idle" /\ target = NoRun
    /\ wasted = {} /\ beside = {} /\ missed = {} /\ underLatch = {} /\ events = 0
    /\ PlanInit

At(p, place) == at[p] = place
Goto(p, place) == at' = [at EXCEPT ![p] = place]
GoAt(place) == At("go", place)
Cur(p) == current[p]

Created == {r \in Runs : status[r] # "none"}
\* find_active_runs whose controller is alive: what _live_chain_on and create_run look for.
Live == {r \in Runs : status[r] \in Active /\ r \notin expired /\ owner[r] # Nobody}

\* Accepted work that the project's branch does not hold and nobody dropped.
Unlanded == {r \in inWorktree : status[r] = "PASSED" /\ r \notin head /\ work[r] # "dropped"}
\* _branches_requiring_landing counts commits.
RequiringLanding == {r \in Unlanded : work[r] = "branch"}

Happens == events < MaxEvents /\ events' = events + 1

SetStatus(r, s) == status' = [status EXCEPT ![r] = s]

\* A process ends or dies: its pid is no longer alive, its locks are free.
Leave(p) ==
    /\ at' = [at EXCEPT ![p] = "down"]
    /\ current' = [current EXCEPT ![p] = NoRun]
    /\ owner' = [r \in Runs |-> IF owner[r] = p THEN Nobody ELSE owner[r]]
    /\ lease' = [r \in Runs |-> IF lease[r] = p THEN Nobody ELSE lease[r]]
    /\ admission' = IF admission = p THEN Nobody ELSE admission
    /\ UNCHANGED <<inWorktree, base, work, frozen, expired>>

-----------------------------------------------------------------------------
(* create_run, by either process. *)

\* The admission lock is not waited for; the check stands inside it.
Admit_NoLock(p) ==
    /\ At(p, "admitting")
    /\ Live = {}
    /\ Goto(p, "admitted")
    /\ UNCHANGED <<runVars, stopVars, lockVars, gitVars, chainVars, history, planVars, current>>

Admit(p) ==
    /\ At(p, "admitting")
    /\ admission = Nobody
    /\ Live = {}
    /\ admission' = p
    /\ Goto(p, "admitted")
    /\ UNCHANGED <<runVars, stopVars, lease, gitVars, chainVars, history, planVars, current>>

\* Which runs a process creates: a bound on numbers, not a rule of the code.
Fresh(p) == {r \in Runs : status[r] = "none" /\ (p = "go" <=> r <= ChainRuns)}

\* RunStore.create and the transaction that adds the pid, under the lock. The chain asks for
\* "auto" isolation; the shell may also ask for one, or take over that of an older run.
CreateRecord(p) ==
    /\ At(p, "admitted")
    /\ \E r \in Fresh(p) :
       /\ \A q \in Fresh(p) : r <= q
       /\ SetStatus(r, "CREATED")
       /\ owner' = [owner EXCEPT ![r] = p]
       /\ \/ inWorktree' = inWorktree \cup {r} /\ (p = "go" => ~dirty)
          \/ inWorktree' = inWorktree /\ (p = "go" => dirty)
       /\ base' = [base EXCEPT ![r] = head]
       /\ current' = [current EXCEPT ![p] = r]
       /\ wasted' = IF p = "go" THEN wasted \cup {r} ELSE wasted
       /\ missed' = IF p = "go" THEN missed \cup (Unlanded \ beside) ELSE missed
       /\ underLatch' = IF p = "go" /\ latch THEN underLatch \cup {r} ELSE underLatch
    /\ admission' = Nobody
    /\ Goto(p, IF p = "go" THEN "visible" ELSE "reviewing")
    /\ UNCHANGED <<work, frozen, expired, stopVars, lease, gitVars, chainVars, planVars,
                   beside, events>>

\* Mutant: a launch waits until another has been admitted.
RefuseAdmission_Waits(p) ==
    /\ At(p, "admitting") /\ admission = Nobody
    /\ Live # {}
    /\ IF p = "go"
       THEN /\ Goto(p, "handling") /\ raised' = "controller"
            /\ UNCHANGED <<runVars, lockVars, current, startFails, failures>>
       ELSE Leave(p) /\ UNCHANGED <<status, chainVars>>
    /\ UNCHANGED <<stopVars, gitVars, history, planVars>>

\* ControllerError of create_run: a live run, or another launch that is being admitted. In
\* cmd_go there is no run yet; cmd_plan dies.
RefuseAdmission(p) ==
    /\ At(p, "admitting")
    /\ admission # Nobody \/ Live # {}
    /\ IF p = "go"
       THEN /\ Goto(p, "handling") /\ raised' = "controller"
            /\ UNCHANGED <<runVars, lockVars, current, startFails, failures>>
       ELSE Leave(p) /\ UNCHANGED <<status, chainVars>>
    /\ UNCHANGED <<stopVars, gitVars, history, planVars>>

-----------------------------------------------------------------------------
(* run_loop, by either process. *)

\* The lease, the check of the status, and the transaction that reconciles and sets the pid.
Enter(p, r) ==
    /\ lease[r] = Nobody /\ status[r] \notin Terminal
    /\ lease' = [lease EXCEPT ![r] = p]
    /\ owner' = [owner EXCEPT ![r] = p]
    /\ current' = [current EXCEPT ![p] = r]
    /\ Goto(p, "entered")
    /\ beside' = IF p = "shell" /\ ~GoAt("down") THEN beside \cup {r} ELSE beside
    /\ UNCHANGED <<status, inWorktree, base, work, frozen, expired, stopVars, admission,
                   gitVars, chainVars, planVars, wasted, missed, underLatch>>

ClearStop(p) ==
    /\ At(p, "entered")
    /\ stopFiles' = stopFiles \ {Cur(p)}
    /\ Goto(p, IF Cur(p) \in frozen THEN "executing" ELSE "freezing")
    /\ UNCHANGED <<runVars, latch, stopping, target, lockVars, gitVars, chainVars, history,
                   planVars, current>>

\* freeze_run, and the RUNNING transaction.
Freeze(p) ==
    /\ At(p, "freezing")
    /\ frozen' = frozen \cup {Cur(p)}
    /\ SetStatus(Cur(p), "RUNNING")
    /\ Goto(p, "executing")
    /\ UNCHANGED <<owner, inWorktree, base, work, expired, stopVars, lockVars, gitVars,
                   chainVars, history, planVars, current>>

\* A ControllerError out of run_loop: freeze refuses (the worktree, HEAD or content of the
\* project, an old plan), or a session of a round cannot be launched. The lease is released.
LoopRaises(p) ==
    /\ at[p] \in {"freezing", "executing"}
    /\ IF p = "go"
       THEN /\ lease' = [lease EXCEPT ![Cur(p)] = Nobody]
            /\ Goto(p, "handling") /\ raised' = "controller"
            /\ UNCHANGED <<runVars, admission, current, startFails, failures>>
       ELSE Leave(p) /\ UNCHANGED <<status, chainVars>>
    /\ UNCHANGED <<stopVars, gitVars, history, planVars>>

\* What the rounds leave: an accepted result, whose work the builder has committed or not,
\* or was made in the project itself; or another terminal status. STOPPED needs the STOP
\* file or a signal.
Finish(p, s) ==
    /\ At(p, "executing")
    /\ SetStatus(Cur(p), s)
    /\ \/ /\ s # "PASSED"
          /\ UNCHANGED <<work, gitVars>>
       \/ /\ s = "PASSED" /\ Cur(p) \in inWorktree
          /\ \E where \in {"workspace", "branch"} : work' = [work EXCEPT ![Cur(p)] = where]
          /\ UNCHANGED gitVars
       \/ /\ s = "PASSED" /\ Cur(p) \notin inWorktree
          /\ head' = head \cup {Cur(p)}
          /\ dirty' = TRUE
          /\ UNCHANGED work
    /\ lease' = [lease EXCEPT ![Cur(p)] = Nobody]
    /\ Goto(p, "returned")
    /\ UNCHANGED <<owner, inWorktree, base, frozen, expired, stopVars, admission, chainVars,
                   history, planVars, current>>

-----------------------------------------------------------------------------
(* cmd_go *)

\* The chain lock is the fact that "go" is down; then the latch goes, then the check.
Launch ==
    /\ GoAt("down") /\ Fresh("go") # {} /\ Happens
    /\ latch' = FALSE
    /\ Goto("go", IF Live = {} THEN "head" ELSE "down")
    /\ beside' = beside \cup {r \in Runs : lease[r] = "shell"}
    /\ UNCHANGED <<runVars, stopFiles, stopping, target, lockVars, gitVars, chainVars, planVars,
                   current, wasted, missed, underLatch>>

\* Mutant: accepted branches are not looked for.
LoopHead_AnyBase ==
    /\ GoAt("head")
    /\ ~latch /\ Live = {}
    /\ Fresh("go") # {}
    /\ Goto("go", "admitting")
    /\ UNCHANGED <<runVars, stopVars, lockVars, gitVars, chainVars, history, planVars, current>>

\* The latch, another chain, branches to land: then the next outcome is admitted.
LoopHead ==
    /\ GoAt("head")
    /\ ~latch /\ Live = {} /\ RequiringLanding = {}
    /\ Fresh("go") # {}
    /\ Goto("go", "admitting")
    /\ UNCHANGED <<runVars, stopVars, lockVars, gitVars, chainVars, history, planVars, current>>

\* Two ways to leave an outcome, with all that they change but the status: the process of the
\* chain ends, and its locals and its lock with it; or the loop goes round.
EndChain ==
    /\ Leave("go")
    /\ raised' = "none" /\ startFails' = 0 /\ failures' = 0
    /\ wasted' = {}
    /\ UNCHANGED <<beside, missed, underLatch, events>>

NextOutcome(unstarted, failed, unaccepted) ==
    /\ Goto("go", "head")
    /\ current' = [current EXCEPT !["go"] = NoRun]
    /\ raised' = "none" /\ startFails' = unstarted /\ failures' = failed
    /\ wasted' = unaccepted
    /\ UNCHANGED <<owner, inWorktree, base, work, frozen, expired, lockVars, beside, missed,
                   underLatch, events>>

RefuseNext ==
    /\ GoAt("head")
    /\ latch \/ Live # {} \/ RequiringLanding # {}
    /\ EndChain
    /\ UNCHANGED <<status, stopVars, gitVars, planVars>>

\* The condition of the loop: --chain n has had its n outcomes. A bound of its own is left out.
OutcomesDone ==
    /\ GoAt("head")
    /\ EndChain
    /\ UNCHANGED <<status, stopVars, gitVars, planVars>>

\* The second look at the latch, after the run has become visible.
StopBeforePlanning ==
    /\ GoAt("visible") /\ latch
    /\ SetStatus(Cur("go"), "STOPPED")
    /\ stopFiles' = stopFiles \cup {Cur("go")}
    /\ EndChain
    /\ UNCHANGED <<latch, stopping, target, gitVars, planVars>>

\* Mutant: one look at the latch is enough.
StartPlanning_OneLook ==
    /\ GoAt("visible") /\ BeginPlan
    /\ Goto("go", "planning")
    /\ UNCHANGED <<runVars, stopVars, lockVars, gitVars, chainVars, history, current>>

StartPlanning ==
    /\ GoAt("visible") /\ ~latch
    /\ BeginPlan
    /\ Goto("go", "planning")
    /\ UNCHANGED <<runVars, stopVars, lockVars, gitVars, chainVars, history, current>>

Plan ==
    /\ GoAt("planning") /\ PlanStep
    /\ UNCHANGED <<runVars, stopVars, lockVars, gitVars, chainVars, history, at, current>>

Planned ==
    /\ GoAt("planning") /\ MarkPlanned
    /\ SetStatus(Cur("go"), "PLANNED")
    /\ Goto("go", "planned")
    /\ UNCHANGED <<owner, inWorktree, base, work, frozen, expired, stopVars, lockVars, gitVars,
                   chainVars, history, current>>

\* auto_plan raises: after three attempts and for the owner's confirmation it has finished the
\* run, otherwise it has not.
PlanRaises ==
    /\ GoAt("planning")
    /\ \/ GiveUpPlan /\ SetStatus(Cur("go"), "FAILED") /\ raised' = "exhausted"
       \/ /\ AskOwner
          /\ SetStatus(Cur("go"), "OWNER_JUDGMENT_REQUIRED") /\ raised' = "controller"
       \/ SessionRaises(TRUE) /\ raised' = "terminal" /\ UNCHANGED status
       \/ SessionRaises(FALSE) /\ raised' = "controller" /\ UNCHANGED status
    /\ Goto("go", "handling")
    /\ UNCHANGED <<owner, inWorktree, base, work, frozen, expired, stopVars, lockVars, gitVars,
                   startFails, failures, history, current>>

\* run_loop of the chain's own run, or the ControllerError that it is refused with.
EnterOwn == GoAt("planned") /\ Enter("go", Cur("go")) /\ UNCHANGED events
EnterRefused ==
    /\ GoAt("planned")
    /\ lease[Cur("go")] # Nobody \/ status[Cur("go")] \in Terminal
    /\ Goto("go", "handling") /\ raised' = "controller"
    /\ UNCHANGED <<runVars, stopVars, lockVars, gitVars, startFails, failures, history,
                   planVars, current>>

\* The except clauses, in their order. A terminal error of the provider finishes the run.
HandleTerminal ==
    /\ GoAt("handling") /\ raised \in {"terminal", "exhausted"}
    /\ IF raised = "terminal" THEN SetStatus(Cur("go"), "FAILED") ELSE UNCHANGED status
    /\ EndChain
    /\ UNCHANGED <<stopVars, gitVars, planVars>>

HasRun == Cur("go") # NoRun
StopsHere == HasRun /\ (Cur("go") \in stopFiles \/ status[Cur("go")] = "OWNER_JUDGMENT_REQUIRED")

HandleStop ==
    /\ GoAt("handling") /\ raised = "controller" /\ StopsHere
    /\ EndChain
    /\ UNCHANGED <<status, stopVars, gitVars, planVars>>

\* Mutant: each failure buys a continuation.
CountFailure_Free == NextOutcome(startFails, failures + 1, wasted)

\* A bounded failure: the second in a row without an accepted outcome ends the chain.
\* (_chain_failure_continuation also compares signatures, which differs only after a first
\* failure, when it has already said stop.)
CountFailure ==
    IF failures >= 1
    THEN EndChain
    ELSE NextOutcome(startFails, failures + 1, wasted)

HandleExecutionFailure ==
    /\ GoAt("handling") /\ raised = "controller" /\ ~StopsHere
    /\ HasRun /\ Cur("go") \in frozen
    /\ SetStatus(Cur("go"), "FAILED")
    /\ CountFailure
    /\ UNCHANGED <<stopVars, gitVars, planVars>>

HandleStartFailure ==
    /\ GoAt("handling") /\ raised = "controller" /\ ~StopsHere
    /\ ~(HasRun /\ Cur("go") \in frozen)
    /\ IF startFails >= 1
       THEN EndChain
       ELSE NextOutcome(startFails + 1, failures, wasted)
    /\ UNCHANGED <<status, stopVars, gitVars, planVars>>

\* fast_forward_into: tracked files unchanged, and HEAD an ancestor of the branch, or the
\* branch one of HEAD ("Already up to date"), which it is when nothing was committed on it.
Tip(r) == base[r] \cup (IF work[r] = "branch" THEN {r} ELSE {})
Lands(r) == ~dirty /\ (head \subseteq Tip(r) \/ Tip(r) \subseteq head)

Accepted ==
    /\ GoAt("returned") /\ status[Cur("go")] = "PASSED"
    /\ \/ Cur("go") \in inWorktree /\ Lands(Cur("go")) /\ head' = head \cup Tip(Cur("go"))
       \/ Cur("go") \notin inWorktree /\ UNCHANGED head
    /\ NextOutcome(0, 0, {})
    /\ UNCHANGED <<status, stopVars, dirty, planVars>>

LandingBlocked ==
    /\ GoAt("returned") /\ status[Cur("go")] = "PASSED"
    /\ Cur("go") \in inWorktree /\ ~Lands(Cur("go"))
    /\ EndChain
    /\ UNCHANGED <<status, stopVars, gitVars, planVars>>

\* A provider-wide event in the run's log ends the chain like an owner's stop does.
NotAccepted ==
    /\ GoAt("returned") /\ status[Cur("go")] # "PASSED"
    /\ \/ EndChain
       \/ /\ status[Cur("go")] = "FAILED" /\ failures = 0
          /\ NextOutcome(0, 1, wasted)
    /\ UNCHANGED <<status, stopVars, gitVars, planVars>>

-----------------------------------------------------------------------------
(* The shell: the owner's commands beside the chain, one at a time; `longrun stop` at any
   time. *)

\* cmd_plan and cmd_reset. A manual contract is reviewed, and makes the run PLANNED or FAILED;
\* that of an older run is only set, and when it is refused the run is left as it is.
OwnerPlan ==
    /\ At("shell", "down") /\ Fresh("shell") # {}
    /\ Goto("shell", "admitting")
    /\ Happens
    /\ UNCHANGED <<runVars, stopVars, lockVars, gitVars, chainVars, planVars, current, wasted,
                   beside, missed, underLatch>>

ManualReview ==
    /\ At("shell", "reviewing")
    /\ \E s \in {"PLANNED", "FAILED", "CREATED"} : SetStatus(Cur("shell"), s)
    /\ Leave("shell")
    /\ UNCHANGED <<stopVars, gitVars, chainVars, history, planVars>>

\* cmd_run looks at no other run. (Of a run without a contract the freeze fails.)
OwnerRun(r) ==
    /\ At("shell", "down")
    /\ status[r] \in {"PLANNED", "RUNNING"}
    /\ Enter("shell", r)
    /\ Happens

OwnerRunEnds ==
    /\ At("shell", "returned")
    /\ Leave("shell")
    /\ UNCHANGED <<status, stopVars, gitVars, chainVars, history, planVars>>

\* cmd_stop: the file of the run, the latch of the chain, a look at the run, and then, if the
\* controller that it records was not alive, the status.
StopFile(r) ==
    /\ stopping = "idle" /\ Happens
    /\ r \in Created
    /\ stopFiles' = stopFiles \cup {r}
    /\ stopping' = "file" /\ target' = r
    /\ UNCHANGED <<runVars, latch, lockVars, gitVars, chainVars, planVars, at, current,
                   wasted, beside, missed, underLatch>>

StopLatch ==
    /\ stopping = "file"
    /\ latch' = TRUE
    /\ stopping' = "latched"
    /\ UNCHANGED <<runVars, stopFiles, target, lockVars, gitVars, chainVars, history, planVars,
                   at, current>>

StopChecks ==
    /\ stopping = "latched"
    /\ IF owner[target] = Nobody /\ status[target] \notin Terminal
       THEN stopping' = "dead" /\ UNCHANGED target
       ELSE stopping' = "idle" /\ target' = NoRun
    /\ UNCHANGED <<runVars, stopFiles, latch, lockVars, gitVars, chainVars, history, planVars,
                   at, current>>

\* The transaction asks nothing again: by now the run may have a controller.
StopDead ==
    /\ stopping = "dead"
    /\ SetStatus(target, "STOPPED")
    /\ stopping' = "idle" /\ target' = NoRun
    /\ UNCHANGED <<owner, inWorktree, base, work, frozen, expired, stopFiles, latch, lockVars,
                   gitVars, chainVars, history, planVars, at, current>>

\* cmd_prune removes the workspace of a finished run, unless its branch holds commits that
\* the project's has not.
Prune(r) ==
    /\ status[r] \in Terminal
    /\ work[r] = "workspace"
    /\ work' = [work EXCEPT ![r] = "pruned"]
    /\ UNCHANGED <<status, owner, inWorktree, base, frozen, expired, stopVars, lockVars, gitVars,
                   chainVars, history, planVars, at, current>>

\* What the owner is told to do with a branch that did not land.
MergeByHand(r) ==
    /\ r \in RequiringLanding /\ ~dirty
    /\ head' = head \cup Tip(r)
    /\ UNCHANGED <<runVars, stopVars, lockVars, dirty, chainVars, history, planVars, at, current>>

DropBranch(r) ==
    /\ r \in RequiringLanding
    /\ work' = [work EXCEPT ![r] = "dropped"]
    /\ UNCHANGED <<status, owner, inWorktree, base, frozen, expired, stopVars, lockVars, gitVars,
                   chainVars, history, planVars, at, current>>

Edit ==
    /\ ~dirty /\ Happens
    /\ dirty' = TRUE
    /\ UNCHANGED <<runVars, stopVars, lockVars, head, chainVars, planVars, at, current,
                   wasted, beside, missed, underLatch>>

Commit ==
    /\ dirty
    /\ dirty' = FALSE /\ head' = head \cup {OwnerWork}
    /\ UNCHANGED <<runVars, stopVars, lockVars, chainVars, history, planVars, at, current>>

\* live_runs counts wall_time_seconds from created_at, the deadline counts from the freeze.
Expire(r) ==
    /\ status[r] \in Active /\ r \notin expired /\ Happens
    /\ expired' = expired \cup {r}
    /\ UNCHANGED <<status, owner, inWorktree, base, work, frozen, stopVars, lockVars, gitVars,
                   chainVars, wasted, beside, missed, underLatch, planVars, at, current>>

\* A command dies. An interrupt outside run_loop does the same: cmd_go and cmd_plan handle none.
Crash(p) ==
    /\ at[p] # "down" /\ Happens
    /\ Leave(p)
    /\ IF p = "go"
       THEN raised' = "none" /\ startFails' = 0 /\ failures' = 0 /\ wasted' = {} /\ ForgetPlan
       ELSE UNCHANGED <<chainVars, wasted, planVars>>
    /\ UNCHANGED <<status, stopVars, gitVars, beside, missed, underLatch>>

-----------------------------------------------------------------------------
Ends == {"PASSED", "FAILED", "STOPPED"}

Either(p) ==
    \/ Admit(p) \/ CreateRecord(p) \/ RefuseAdmission(p)
    \/ ClearStop(p) \/ Freeze(p) \/ LoopRaises(p)
    \/ \E s \in Ends : Finish(p, s)

\* The chain, from its launch to its end.
ChainStep ==
    \/ Either("go")
    \/ LoopHead \/ RefuseNext \/ OutcomesDone \/ StopBeforePlanning
    \/ StartPlanning \/ Plan \/ Planned \/ PlanRaises \/ EnterOwn \/ EnterRefused
    \/ HandleTerminal \/ HandleStop \/ HandleExecutionFailure \/ HandleStartFailure
    \/ Accepted \/ LandingBlocked \/ NotAccepted

ShellStep == Either("shell") \/ ManualReview \/ OwnerRunEnds

StopStep == (\E r \in Runs : StopFile(r)) \/ StopLatch \/ StopChecks \/ StopDead

OwnerStep ==
    \/ OwnerPlan
    \/ \E r \in Runs : OwnerRun(r) \/ Prune(r) \/ MergeByHand(r) \/ DropBranch(r)
    \/ Edit \/ Commit

Next ==
    \/ Launch \/ ChainStep \/ ShellStep \/ StopStep \/ OwnerStep
    \/ \E r \in Runs : Expire(r)
    \/ \E p \in Procs : Crash(p)

Spec == Init /\ [][Next]_vars

\* The chain runs on: each of its steps is its own computation, a lock that it does not wait
\* for, or a session or a round that ends (modules Session and RunLifecycle).
FairSpec == Spec /\ WF_vars(ChainStep)

-----------------------------------------------------------------------------
(* Every run of a chain begins with all that was accepted before it, merged or dropped by the
   owner (cli.py 590-595, 704-721).  Two exceptions, which the check of the branches cannot
   see: work that was never committed to its branch, and a run that `longrun run` executed
   beside the chain. *)
LandedBeforeNext == \A r \in missed : work[r] \in {"workspace", "pruned"}

(* A chain that gets nothing accepted goes on once: of the runs since the last accepted one,
   at most one has ended when the next is begun, whatever mixture of start failures, execution
   errors and bad ends they came to (cli.py 516-533, 641-690, 744-765).  Not counted are runs
   that no longer hold the chain up because they expired or were taken over while planned. *)
OneContinuation ==
    GoAt("head") /\ Live = {} => \A r, q \in wasted \ (expired \cup beside) : r = q

(* One live run per project, from chains and shells that are admitted at the same time
   (controller.py 205-229), as long as no `longrun run`, which asks nobody, took a run while a
   chain was alive. *)
AdmittedAlone == \A r, q \in Live \ beside : r = q

(* A stop that comes after the chain looked at the head of its loop still keeps the run that
   it then creates from being planned or executed (cli.py 577-580, 609-614). *)
NothingPlannedUnderStop == \A r \in underLatch : status[r] \in {"CREATED", "STOPPED"}

(* A chain that was told to stop ends, whichever run the stop named and wherever the chain
   was (cli.py 243-262, 577-580). *)
StopEndsChain == (latch /\ ~GoAt("down")) ~> GoAt("down")

-----------------------------------------------------------------------------
(* Nothing unlanded is lost by `longrun prune` (cli.py 272-273: "Only runs whose branch holds
   no unmerged work are touched, so nothing unlanded is lost."). *)
NothingUnlandedIsLost == \A r \in Runs : work[r] # "pruned"

(* At the head of its loop the chain owns no live run (cli.py 585: "Between outcomes this chain
   owns no active run, so anything live here belongs to somebody else."). *)
LiveIsSomebodyElses == GoAt("head") => \A r \in Live : owner[r] # "go"
=============================================================================
