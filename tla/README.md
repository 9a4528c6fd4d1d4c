# longrun in TLA+

This directory is a TLA+ model of `longrun` (`src/longrun`), the controller that turns a goal
into a frozen contract, has coding sessions work on it, has an independent evaluator judge it,
and ends the run with a status that its criteria justify. TLC checks the models on small
instances; TLAPS proves the properties that matter most for every value of the constants.

`PROJECT.json` lists the runs, the mutants that show each property can fail, the theorems, the
hazards of the code, and the source lines behind each definition.

## 1. The system

### Components, state, operations

| component | code | state | operations that change it |
|---|---|---|---|
| run state machine | `controller.py` `freeze_run`, `run_loop`, `_run_loop`, `fresh_restart`, `finish` | `state.json`: status, counters, criteria, loop record; the worktree and branch; `contract.json`; the STOP file | freeze, rounds, gate, repair, restart, terminal exits, re-entry |
| strategic loop guard | `loopguard.py` `strategic_check` | `state["loop"]` | one checkpoint per evaluated round |
| run store | `store.py` | `state.json`, `state.sig`, `events.jsonl`, `.lock` | `read`, `transaction`, `append_event`, create |
| evaluation | `controller.py` `evaluate`, `evaluator.py`, `evidence.py`, `contract.rebase` | criteria, last verdict, last input hash, evidence ledger | checks, validate, retry, apply, reject, rebase |
| sessions | `controller.py` `launch_session`, `process.py` | `state["children"]`, the live process, guards, retry counters | register, start, kill, retry, close, reconcile |
| child processes | `process.py` `ChildRunner.run`, `_kill_group`, the clean-ups | the current child, the interrupt flag, the reader, the sampled descendants | start behind a gate, watch, kill, drain, clean up, sweep |
| admission | `_acquire_run_admission`, `find_active_runs`, `create_run` | the project's admission lock, every run's state | create a run, or refuse |
| chain | `cli.py` `cmd_go` | project stop latch, two failure counters, the project branch | plan, run, land, go on, stop |
| the owner's shell | `cli.py` `cmd_plan`, `cmd_run`, `cmd_stop`, `cmd_prune`, git | STOP files, the latch, workspaces, the project branch | plan, run, stop, prune, commit, merge |
| auto-plan | `planner.py`, `auto_plan` | a draft and its review, the attempt | plan, review, repair, ask the owner |
| hooks and tokens | `hooks.py`, `token.py` | `stop_blocks` | admit or ignore a session's hook call |
| swarm | `swarm.py` | the task ledger of a manager | audit, corrective note |
| models, drivers, adapters, git, cost, narration, migration | the other files | configuration, text, files | - |

### How they interact

`cmd_go` admits a run to the project, plans it with `auto_plan`, executes it with `run_loop` and
lands its branch, outcome after outcome, until one of many reasons ends the chain; `cmd_plan` and
`cmd_run` do parts of that for the owner, beside it. `run_loop` takes the run's lease, reconciles the children an
earlier controller left and enters the round loop. A round is a builder session, a gate of
commands, an `evaluate` (checks, evaluator session, transaction) and a policy decision. Each
session is a `launch_session`, which registers a child, runs it under `ChildRunner` with guards
on its output stream, and retries when its end looks like infrastructure. All of them write
through `RunStore.transaction` and `append_event`. The owner's commands (`stop`, `evaluate`,
`contract rebase`), the hooks and the commands a session runs (`evidence submit`, `observe`) are
other processes on the same store; only `run_loop` takes the lease.

### What is hard

* processes that share files without a common lock: readers of `state.json` and `state.sig`,
  `longrun evaluate` beside the controller, `longrun stop` beside a resume;
* a controller that dies between two transactions, between two files, between starting a
  process and recording its pid, in the middle of a line;
* decisions on state read minutes ago (the status, the manifest, the contract);
* counters that are reset on some paths and not on others: repairs, turns, retries, flags;
* signals and STOP that arrive during a session, a backoff or a decision;
* a chain that decides from what it saw at the head of its loop: a live run, a latch, a branch,
  a project that the owner edits meanwhile;
* processes that outlive their parents, hide from every net, and keep a pipe open;
* bounded loops inside bounded loops, which must add up to an end.

PROJECT.json "hazards" gives each at its line.

### What makes each component correct

* run: bounded rounds, repairs and restarts over all crashes; ends with an earned status, once;
  baseline before edits; STOP and signals are obeyed; the loop returns;
* store: no update lost, transactions serial, a refusal only after a crash, event numbers grow,
  the lock comes back;
* evaluation: only accepted verdicts applied; a PASS has evidence at its revision and contract;
  PASSED rests on such a verdict; a terminal status stays;

(Some of these the code does not keep: section 5.)

* sessions: one live child, none forgotten; retries and turns bounded over all attempts; STOP
  obeyed; the session ends;
* child processes: the child is dead when its session is over; a descendant that outlives it
  escaped every net; the session goes on whatever descendants do;
* admission: one live run per project; chain: accepted work is in the project before the next run
  takes its base, failures buy one continuation, a stop ends it and reaches the run it is making;
* auto-plan: three drafts, and a repairer is given the draft that its review rejected.

## 2. Modules

| module | models | composed with |
|---|---|---|
| `Verdicts` | verdicts, statuses, what `validate_verdict` accepts, `_partial` | extended by the next three |
| `LoopGuard` | `strategic_check` and its counters | extended by `RunLifecycle` |
| `RunOutcome` | abstract: what a run promises its owner | refined by `RunLifecycle` |
| `RunLifecycle` | freeze, round loop, restart, exits, crash and re-entry | `KeepsPromise` |
| `SerialState` | abstract: one state, serial updates | refined by `RunStore` |
| `RunStore` | the four files, their readers and writers, crashes, the tamper handler | `TransactionsAreSerial` |
| `Evaluation` | `evaluate` by several processes, evidence, edits, rebases | shares `Verdicts` |
| `Session` | attempts, guards, retries, registry, reconcile | - |
| `ChildRunner` | one child: threads, signal handler, descendants, clean-ups | - |
| `AutoPlan` | the three attempts of `auto_plan` | extended by `Project` |
| `Project` | the chain, the owner's shell, admission, locks, STOP files, git | conjoins `AutoPlan`'s actions |
| `*_proofs` | theorems about the module of that name | |
| `MC*` | the instances for TLC | |

The components meet in what they share. `Verdicts!AcceptedVerdicts` is what `Evaluation` shows
to be all that is ever applied (`VerdictsAreAccepted`), and all that `RunLifecycle` lets an
evaluation return. A transaction is one step in `RunLifecycle`, `Evaluation` and `Session`;
`RunStore` shows by refinement when that is justified. The three ways a session can end for
`RunLifecycle` (return, interrupt, error) are `Session`'s `Results`. A running attempt of `Session`
is `ChildRunner`; the terminal statuses that `Project` lets a run end with are `RunOutcome`'s, and
an `auto_plan` call inside `Project` is `AutoPlan`, action by action.

### RunLifecycle

Variables above the line are on disk and survive `Crash`; those below are locals of the
controller. `pc` names the point in `run_loop`/`_run_loop`; a step is the code between two points
at which a crash, a signal or the owner makes a difference. `unchanged` stands for "the inputs
hash to last_eval_input_hash", `delta` for "differs from the baseline", `atVerdict` for "is the
revision that was judged". Wall time is `late`, which may become true at any moment after the
freeze; the spend limits are choices where the code compares amounts. The parts of the loop are
named as in the code: `Freeze`, `LoopHead`, `Build`, `Evaluate`, `Policy`, `Restart`, `Escape` (a
`ControllerError` that leaves `run_loop`, which `cmd_run` reports and `cmd_go` finishes).

`longrun stop` is three actions, because it looks and writes at different moments. `StopLive` finds a
controller; it may have read an unfinished run by then and still find the controller gone when it
asks (`stopping = "read"`). `StopFindsNobody` finds none, and `StopWrites` writes STOPPED later, over
whatever has become of the run: a controller that was started in between goes on under it until its
next write, or stops at `EvaluateRefused`. `baseline` tells a run that has no baseline from one that
has its revision and from one whose checks are recorded; `HasRunDelta` and `AfterFreeze` are what the
code makes of a run that was planned, stopped and entered out of turn.

### RunStore

A state is a version and the number of updates of each process it holds; a signature is the
state it signs. Reading or writing one file is one step (`os.replace`), so a transaction is
`BeginTransaction`, `ReadState`, `Verified`/`Refused`, `WriteState` or `LeaveAsItIs`,
`WriteSignature`. `Peek`/`Trusted`/`Mistrusted` is a read without the lock, `GiveUp` the hook's one
repeat, `Reread`, `FailRun`, `SignFailure` the handler in `run_loop`. A line of the log is its
number, its shape, whether `events` can read it and whether it ended with a newline: `TearLine` leaves
one that did not, and the next append is glued to it. The shapes are what `_last_seq` tells apart: a
`long` line is longer than the 4096 bytes it reads, and a `split` one holds a character at which
`splitlines` breaks (store.py:222) and `json.dumps(ensure_ascii=False)` does not escape (store.py:204), so
that no piece of it parses. `TailLines` counts lines of ordinary size. A tear exactly before the
newline, or exactly at a separator, is left out.

### Evaluation

`Evaluators` are the controller and owners running `longrun evaluate`; each is at a point of
`evaluate` with its own `work` (contract read at the start, manifest, judgement). An evaluator's
answer is any well-formed judgement, valid or not. `Settled` is what the deterministic-only
criteria and the overall become; `Upgraded` is the retry that may not improve. The contract text
and its hash are two variables because `cmd_contract` writes them in two steps, at any moment. The
controller keeps the verdict that `evaluate` returned to it (`pc = "won"`) until `finish`: between the
two anybody may replace what stands on disk.

### Session

An attempt is a number with a record (`open`, `known`) and a process (`alive`). The kinds are
those that the retry policy distinguishes. The end of an attempt is one of the classes that
`launch_session` computes from streams and exit codes: quota, invalid request, a real round,
infrastructure, unfinished swarm; with a transport error, a model limit, a stall or a signal
beside it. `flags` are `stop_flag`, the dispatch flag and the turn cap. `Outcome` keeps the order
in which the code raises.

### ChildRunner

The main thread is at a `pc` of `run` and then of `launch_session`'s `finally`; the two places
where it holds `_lock` are points of their own, because `Signal`, the handler that runs on it
between two bytecodes, takes the same lock. `killing` is where it is in a `_kill_group`, its own or
the handler's. A descendant is described by the four things it can lose: its ppid chain to the
child (`attached`), its process group, the marker in its environment, the child's stdout. It forks,
loses them and ends whenever it likes. `seen` is `tracked_descendants`, which `Sample` extends: the
sampling thread and the loop's own samples. The three nets are `KillTerm`/`KillGrace` (the group),
`CleanUp` (what was seen) and `ScanMarkers`/`Sweep` (the marker, found first and killed after).

### AutoPlan and Project

A draft is the number of its attempt, so "the review is about this draft" is an equation.
`LocalFailure` and `ReviewRejects` are the two arms of the last `except`; the ways out of the call
are actions of their own, because `Project` says what each does to the run and to the chain.

`Project` has two processes. `go` is `cmd_go`, at a place of its loop, with `raised` for the
exception that its `except` clauses look at in their order; `shell` is one command of the owner's
at a time; `longrun stop` (`StopFile`, `StopLatch`, `StopChecks`, `StopDead`) may run beside both.
`create_run` and `run_loop` are actions of either process (`Admit`, `CreateRecord`, `Enter`,
`ClearStop`, `Freeze`, `Finish`). A round is not seen here: a run is frozen, executes, and ends in
one of the ways that the chain tells apart, or raises. `owner` is the live process of the run's
`controller_pid`, so a death (`Crash`) makes it nobody. A revision of the project is the set of runs
whose work it holds; `work` says where an accepted worktree run's own work is: committed to its
branch, or in its workspace only, since nothing in the controller commits. `Lands` is
`fast_forward_into`. `wasted`, `beside`, `missed` and `underLatch` are history that only the
properties read (`beside` also marks what a bare `longrun run` took).

## 3. Runs

| run | what it asks | size |
|---|---|---|
| `run` | budgets, accounting of rounds, earned PASS, STOP, signals, refinement of `RunOutcome`; two criteria, in place, a crash and a re-entry | 3.4 M states |
| `run_once` | termination; one call, in a worktree, an owner-judged criterion, four rounds | 0.6 M |
| `store` | updates, refusals, refinement of `SerialState`; two writers, a reader, two deaths | 0.3 M |
| `store_log` | event numbers, losses, the lock under fairness; with the tamper handler, two deaths | 1.1 M |
| `evaluation` | accepted verdicts; one controller, two criteria, two evaluations, a checked criterion | 0.1 M |
| `evaluation_shared` | evidence, and what PASSED rests on; controller and owner, edits, a rebase, a record of either kind | 3.3 M |
| `session` | orphans, STOP, turns, retries, records, termination; all five kinds, two sessions, a crash | 0.9 M |
| `project` | admission, landing, continuation, stop, repairs; two runs of a chain, one of the shell | 0.3 M |
| `child_runner` | survivors, termination; two descendants, a signal | 0.04 M |
| `partial_unjudged`, `project_skip`, `project_prune` | three statements of the repository that the code does not keep (section 5) | until violated |

### Bounds and why they are enough

* Two criteria: `validate_contract` allows one to four, and the code only asks whether all, some or
  none pass and which moved; two give every combination, and they are symmetric in `run`.
* Budgets `MaxRepairs = 1`, `MaxRestarts = 1`; four rounds are `(MaxRestarts + 1) * (MaxRepairs + 1)`, which
  `run_once` has. `run` has three: a repair, the restart that resets the counter, and a round under
  the counter that was reset; the round limit is then what ends it. The theorems hold for every
  budget.
* `MaxEntries = 2`: one crash with everything that follows it. A second one meets the same disk
  states.
* Store: a lost update needs two writers; two deaths cover a death during the other's recovery;
  `TailLines = 2` in place of some dozens of ordinary lines, so that four lines make a log longer than
  the tail: a number is found in it, hidden by a long line, or pushed out by two unreadable ones.
* Evaluation: two revisions and two versions tell "current" from "not current"; one record is
  evidence of the revision and contract in force, or of another; `MaxEvaluations` counts evaluations that had ended when one begins, so
  `1` still lets two run at once, and `2` has a verdict replaced and an evaluation skipped.
* Session: retry limits are scaled down but keep their order (OpenCode < manager < transport), a
  turn limit of 2 with one turn over it; two sessions so that one inherits what another left.

* Project: `ChainRuns = 2` is a run and the one that is begun after it, which is what every property
  speaks of; `ShellRuns = 1` is a run beside them; `MaxEvents = 3` counts launches, commands of the
  shell, stops, edits, deaths and runs whose time passes. The invariants, with the inductive ones of
  section 4, were also checked once with `MaxEvents = 4` and once with `ChainRuns = 3`.
* Child: two descendants give every pair of parent and child, of seen and unseen; both may lose
  anything at any time. Three (1.2 M states) were checked once.

Each bound is in a guard and named in its module. The state counters have no other limit.

### Fairness

* `RunLifecycle!FairSpec`: weak fairness of the controller's own steps. Each is local computation or
  waits for a subprocess, and every subprocess has a timeout (`child_timeout_seconds`, check
  timeouts). Nobody has to signal, stop, or re-enter a run; `cmd_go` calls `run_loop` right after
  planning, which is the other conjunct.
* `RunStore!FairSpec`: a process that holds the lock runs on or dies; `flock` releases on death.
* `Session!FairSpec`: weak fairness of `launch_session`'s steps, justified by the attempt's
  timeout, the kill of its process group, and finite waits. No fairness for children, owner or
  resume.
* `ChildRunner!FairSpec`: weak fairness of the main thread, whose waits have timeouts but for one,
  which has a guard in the model, and of the reader at the end of its stream. None for the child,
  its descendants, or the sampler.
* `Project!FairSpec`: weak fairness of the chain's steps: computation, a lock it does not wait for,
  sessions and rounds that end (the two liveness properties above). None for the shell or a stop
  that is half done.

## 4. Proofs

All are for arbitrary constants under the named assumptions of the modules
(`CriteriaAssumption`, `BudgetsAssumption`, `StoreAssumption`, `EvaluationAssumption`,
`SessionAssumption`, `ProjectAssumption`; `ChildRunner` needs none), which TLC evaluates on its instances.
Where a theorem needs more than that, the table says so in its second column; section 5 says what
happens without it. Each strengthening was checked by TLC before it was proved, and each hypothesis
by TLC without it.

| theorem | needs | inductive invariant, and why the property alone is not inductive |
|---|---|---|
| `RoundsAreAccounted` | | `AccountInv`: a round that is pending is paid for in advance; a restart has paid for the repairs it is about to wipe |
| `BudgetsAreRespected` | | `BudgetInv`: the head of the loop found a round left before it begins |
| `PassedRunsAreEarned` | | `VerdictInv`, with `ControlInv`: the PASS in the local `ev` is the verdict on disk and the workspace has not moved since |
| `RunKeepsPromise` | | `ControlInv`, `BudgetInv` and `VerdictInv` make every step a step of `RunOutcome` or a stutter; where a stop has been written over a live controller, they say which of its next steps `RunOutcome` sees |
| `StopEndsRounds` | | `StopInv`: the round that is about to begin was decided on before the stop, so it is the last one; a dead controller leaves no stop behind unless the run has ended |
| `SignalsInterrupt` | | `SignalInv`: the session that a signal hit is still the one that is waited for, and can only end the run |
| `NoUpdateIsLost`, `TransactionsSerialize` | `Controllers = {}` | `LockInv`: what the holder of the lock has in memory is what is on disk |
| `OnlyCrashesAreRefused` | `Controllers = {}` | `SignatureInv`, with `LockInv`: while nobody has died between the two files, they differ only when the holder of the lock is about to sign, and nobody is refused |
| `LossesAreTorn` | | `LossInv`: a last line without its end is unreadable, and was paid for as torn: the append that it swallows is the loss it stands for |
| `NumbersGrow` | | `NumberingInv`: whoever is about to append has a number above that of every line in its sight |
| `AppliedVerdictsAreAccepted` | | `AcceptanceInv`: a judgement that waits to be applied, or to end the run, is accepted |
| `VerdictsAreEvidenced` | | `EvidenceInv`: the manifest in an evaluation's memory is evidence of the revision it judges and of one contract since it began, and what it has accepted rests on that manifest |
| `PassedIsFounded` | | `EvidenceInv` and `AcceptanceInv` reach to the point before `finish` |
| `OrphansAreFound` | | `ChildInv`: a child that runs is recorded as running, so the next controller finds it |
| `StopIsHeeded` | | `StopInv`: after a start under STOP the session only ends |
| `TurnsAreOneBudget` | | `TurnsInv`: the flag says that the count is over the limit, and a retry begins below it |
| `RetriesAreBounded` | | `RetriesInv`: attempts are one more than retries, and retries are below some limit |
| `RecordsAreClosed` | | `OpenInv`: at most the current record is open |
| `SurvivorsEscapedEveryNet` | | `SurvivorInv`: at each later point, one more net has been drawn: who was seen is dead after the clean-up, who has the marker was found or came later |
| `OnlyKnownWaits` | | `WaitInv`: a child that is waited for has ended, and a reader was started only for a child that is waited for |
| `RepairsGoWithTheirReview` | | `PlanInv`: nothing of a call outlives it |
| `StopReachesTheNextRun` | | `LatchInv`: a run that was created under the latch is either at the second look, where the latch still stands, or nobody's current run |
| `OneLiveRun` | | `AloneInv`: between check and record nobody else is live, for the lock is held; `ControlInv` says who holds and executes what |
| `AcceptedWorkComesFirst` | | `LandedInv`: from the check of the branches to the record of the new run, what is not landed could not be seen |
| `AFailureBuysOneContinuation` | | `OneEnded`: an ended run of the chain is counted in `failures`, over both counters; `OwnRunInv`: a run that failed to start is still held by the chain, so it cannot be counted as ended |
| `RunLoopIsFinite`, `RunLoopAdvances`; `SessionsAreFinite`, `SessionsAdvance`; `ChildIsFinite`, `ChildAdvances` | | the measures below |
| `TypeCorrect` (three), `StoreTyped`, `ChildTyped`, `ProjectTyped` | | the type invariants |

`OneLiveRun`, `AcceptedWorkComesFirst` and `AFailureBuysOneContinuation` leave out what a bare
`longrun run` executed beside the chain (`beside`), and the last one expired runs: see below.

### Progress

Liveness is out of the prover's reach, but most of what it rests on is not. `RunLifecycle`, `Session`
and `ChildRunner` each define `StepsLeft`, the number of steps that the component's own process has
to do before `run_loop`, `launch_session` or the clean-up of a child is over. For each of them it is
proved, for every value of the constants, that it is a natural number below a bound
(`StepsAreFinite`: `11 * MaxRounds + 8`, `6 * (MaxRetries + 1)`, `18`), that each step of that process
makes it smaller, and that no step of anybody else makes it larger (`EveryStepCounts`). A loop that
could go round without paying for it - a repair that is not counted, a retry that waits again -
would break it. What remains of `ReturnsEventually`, `SessionEnds` and `WatchEnds` is that the
process takes its steps: fairness, and that it is never stuck. For `ChildRunner`, whose waits have
no timeout in two places, `WaitsAreKnown` says where it can be stuck, and `OnlyKnownWaits` proves it.
The two halves are put together by TLC alone.

Model-checked only: the liveness properties (`ReturnsEventually`, `LockComesBack`, `SessionEnds`,
`WatchEnds`, `StopEndsChain`). Every invariant and every action property that a passing run checks
is stated by a theorem.

## 5. What the checks show

Most of what the repository says of itself holds in the models. What does not is stated by formulas
next to the properties. Three of them have a run that finds the counterexample, and a finding with
its quotation:

1. `PARTIAL_PASS` can report, and the chain can land, work that no evaluator saw (`partial_unjudged`).
2. A chain whose outcome could not start takes its own run for another chain's and stops, although
   it means to skip the outcome (`project_skip`).
3. `longrun prune` removes the only copy of accepted work that the builder did not commit
   (`project_prune`).

The others have none, for a property of a passing run says what the code does keep, or the
counterexample is as short as the sentence that tells it. TLC finds it when the formula takes the place
of the properties in the configuration named:

* `RunLifecycle!TerminalIsFinal` (`MCRun.cfg`): a stop that found no controller writes STOPPED over one
  that has started since (cli.py:250-256), and its next write takes the run out of a terminal state.
  `RunOutcome` has this as "overruled", so what else is promised is checked and proved with it. One
  overruled run is worse than late: a controller that has read PLANNED finds STOPPED when it has been
  entered a moment later (controller.py:1560), skips the freeze, and builds in the project's root
  without a baseline.
* `RunLifecycle!BaselineBeforeBuilder` (`MCRun.cfg`): a controller that dies after the FROZEN transaction
  and before the baseline checks (controller.py:332-337) is resumed straight into the builder, although
  `run` "captures baseline evidence at the start revision before any builder session" (README.md:95).
* `RunLifecycle!VerifiedWorkIsReported` (`MCRun.cfg`): a controller that dies between the verdict that
  passes everything (controller.py:1413) and `finish` is resumed into the loop, which never looks whether
  everything passes already; at a bound `_partial` finds nothing open and the run reports
  RESET_RECOMMENDED.
* `RunStore!SeqMonotonic` (`MCStoreLog.cfg`): event numbers repeat behind an event that is longer than
  4096 bytes - a `restart.start` event, which carries the capsule (controller.py:1807), can be - or that
  holds a U+0085, U+2028 or U+2029, although store.py:3-4 guarantees "monotonic event sequence numbers".
  `NumbersGrowInSight` says that these, and as many torn lines as the tail holds, are all that makes
  them repeat.
* `Evaluation!TerminalIsFinal` (`MCEvalShared.cfg`): the owner's evaluation takes a run that has ended
  meanwhile back to EVALUATING and then to RUNNING (controller.py:1268, 1297).
* `Evaluation!PassedOnStandingVerdict` (`MCEvalShared.cfg`): the owner's evaluation, or a rebase, replaces
  the verdict between the transaction that applied the controller's PASS and `finish`.
  `PassedOnFoundedVerdict` says what PASSED does rest on.
* `Evaluation!StandingIsCurrent` (`MCEvalShared.cfg`): an evaluation during a rebase (cli.py:394) judges
  one contract and is recorded under the other. `PassIsEvidenced` says that its evidence is still of one
  contract, which may be a newer one than the evaluation names: the manifest reads the hash again
  (evidence.py:131) after `evaluate` has read it (controller.py:1266).

### Restrictions, and what is behind them

Some properties hold only under a constant that a run sets, or leave a case out that the code leaves
open; without that TLC finds the following.

* `NoLostUpdate`, `TransactionsAreSerial` with `Controllers = {}`: the tamper handler rewrites
  `state.json` without the lock (controller.py:1547-1549) over a transaction that is under way.
* `AdmittedAlone`, `LandedBeforeNext`, `OneContinuation` without the runs in `beside`: `longrun run`
  asks nobody (cli.py:193). With one, two runs of a project execute at the same time, a chain begins
  without work that was accepted beside it, and cmd_go finishes as FAILED (cli.py:669) a run that the
  shell executes.
* `AdmittedAlone`, `OneContinuation` without expired runs: `find_active_runs` counts the wall time from
  `created_at`, the deadline from the freeze (store.py:287-295), so a run that still executes may be
  past the one and not the other.
* `LandedBeforeNext` without work that was never committed: the branches are all that the head of the
  loop can look at (cli.py:481-504).
* `WatchEnds` with its two exceptions. A signal that comes while the main thread holds `_lock`
  (process.py:113, 214-216) is never handled: the handler takes the lock again (process.py:76), and
  `Ctrl-C stops the child and marks INTERRUPTED` (README.md:208) is not what happens. A descendant
  that daemonized before it was sampled and holds stdout keeps `p.stdout.close()` (process.py:219)
  waiting for a reader that nothing wakes, past the timeout and the kill.
* `NoLostUpdate` and `RefusalMeansCrash` speak of the lock's holders. A reader without the lock
  between the two renames of `_write_state` (store.py:178-181), or after a crash there, takes the state
  for tampered with, and `run_loop` then fails the run (controller.py:1544-1551) although only longrun
  wrote. `Peek`, `Mistrusted` and `FailRun` are in the model.
* No property gives each retry limit a budget of its own: `launch_session` compares one counter with
  the limit of whatever failed last (controller.py:1078-1084), so transport failures can use up a swarm
  manager's retries, against the comment at controller.py:1071-1074.

Behaviour that the models contain and no property condemns: a STOP accepted between planning and `run_loop`
is unlinked, and only the latch ends the chain, one outcome later; an interrupt of the planner
leaves its run CREATED; the restart manager's `except
Exception` swallows an interrupt (controller.py:1848), so `WorkerSignalInterrupts` speaks of the
builder and the evaluator; a starting `run_loop` unlinks the STOP file (controller.py:1526-1527), so
`StopBoundsRounds` holds while the file is there; a child whose controller died before it recorded
the pid is never found (`unrecorded` in `Session`); a STOP during a backoff still starts the next
attempt (`StopStartsOneMore`); the retry of an evaluator is given on any rejection, although its
comment speaks of citations.

## 6. Not modelled, and why

* the run: contract validation comes before the initial state, creation and planning are in
  `Project`; the tamper exit is in `RunStore`; the branch controller.py:1778-1780 is reached by no
  decision of the policy; checks that change the workspace;
* the store: `migrate_state`, runs without a key, `expected_version` (no caller passes it), loss of
  power (renames are taken as durable in order);
* evaluation: the text rules of `validate_verdict` (quotes, lengths, extra keys, run id) are one choice
  of well-formed or not; `--force` is part of an owner's evaluation; an evaluator that reads the
  workspace while it changes;
* sessions: the OpenCode server, which outlives the sweep on purpose (controller.py:1010) and may
  outlive its controller, pid reuse, what a reader that is late writes to the flags, costs, prompts
  and resumed provider sessions; children without a streamed output (process.py:186-193), which are
  the deterministic checks, and a kqueue's way of sampling;
* the project: the pointer file and how a command without `--run` finds its run, `doctor`, `init`,
  several projects, the provider-wide event of a run's log (a choice in `NotAccepted`), several owners'
  shells at once, power loss;
* planning: what a valid spec or review looks like (a choice), the deadline of planning;
* drivers, model routing, adapters, narration, cost reports, hooks' Stop counting, migration: text,
  configuration and thin wrappers around other programs.

## 7. Plan

Done: the run, its store, its evaluations and its sessions; the child processes; the project with
its chain, its shell and its planning. Next, in this order:

1. Proofs: the same measure for the chain under a stop (`StopEndsChain`) and for the holder of the
   store's lock (`LockComesBack`).
2. `LoopGuard`'s counters against a reference definition over sequences of rounds.
3. `Hooks`: the Stop hook's counter against a controller that rewrites it.
