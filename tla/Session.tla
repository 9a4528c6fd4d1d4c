------------------------------ MODULE Session ------------------------------
(***************************************************************************)
(* One logical session of a run (launch_session): a child process that is  *)
(* registered, started behind a gate, watched, ended, and - when its end   *)
(* looks like an infrastructure failure - replaced by another attempt of   *)
(* the same session.  Around it, the controller's death and the            *)
(* reconciliation of the children it left behind.                          *)
(*                                                                         *)
(* Attempts are numbered over the life of the run; each one has a record   *)
(* in state["children"].  What a provider, a driver and a stream parser    *)
(* make of a finished attempt is abstracted to the classes that the retry  *)
(* policy tells apart.                                                     *)
(***************************************************************************)
EXTENDS Naturals

CONSTANTS
    Kinds,            \* the kinds of session that may be launched
    ManagerRetries,   \* adapter_config.builder_swarm.manager_retries
    TransportTries,   \* retries after an explicit transport error of an OpenCode builder
    OpencodeTries,    \* retries of an OpenCode builder for any other reason
    OtherTries,       \* retries of any other session
    TurnLimit,        \* budgets.max_turns_per_session
    MaxTurns,         \* bound: turns that the stream can still deliver before the kill
    MaxSessions,      \* bound: sessions
    MaxCrashes        \* bound: deaths of the controller

\* opencode: an OpenCode builder; swarm: one that manages a swarm; sol: a strategic Codex
\* session on gpt-5.6-sol; fallback: a strategic session whose model has a fallback.
KindRecords == [opencode : BOOLEAN, swarm : BOOLEAN, sol : BOOLEAN, fallback : BOOLEAN]

ASSUME SessionAssumption ==
    /\ Kinds \subseteq {k \in KindRecords :
                          /\ k.swarm => k.opencode
                          /\ k.opencode => ~k.sol /\ ~k.fallback
                          /\ ~(k.sol /\ k.fallback)}
    /\ ManagerRetries \in Nat /\ TransportTries \in Nat
    /\ OpencodeTries \in Nat /\ OtherTries \in Nat
    /\ TurnLimit \in Nat

VARIABLES
    stopFile,      \* the STOP file exists
    attempts,      \* len(state["children"])
    open,          \* the attempts whose record has no ended_at
    known,         \* the attempts whose record has a pid and a pgid
    alive,         \* the attempts whose process is alive
    pc,            \* where the controller is; "down": there is none
    interrupted,   \* runner._interrupted
    kind,          \* the kind of the session
    tries,         \* infra_tries
    stalls,        \* sol_stalls
    failedOver,    \* the model is the fallback
    turns,         \* turn_cap["count"]
    flags,         \* stop_flag, live_swarm["dispatch_stalled"] and turn_cap["fired"]
    out,           \* the class of the last attempt's end
    terminal,      \* which terminal_* local is set
    result,        \* how the last session ended
    sessions,      \* sessions launched (history)
    crashes,       \* deaths of the controller (history)
    here,          \* attempts of this session (history)
    turnsHere,     \* turns of this session (history)
    afterStop,     \* attempts of this session started under the STOP file (history)
    unrecorded     \* the attempts whose controller died between process and record (history)

registry == <<attempts, open, known>>
locals == <<kind, tries, stalls, failedOver, turns, flags, out, terminal>>
history == <<sessions, crashes, here, turnsHere, afterStop, unrecorded>>
vars == <<stopFile, attempts, open, known, alive, pc, interrupted,
          kind, tries, stalls, failedOver, turns, flags, out, terminal, result,
          sessions, crashes, here, turnsHere, afterStop, unrecorded>>

PCs == {"down", "idle", "registered", "gated", "running", "judging", "backoff", "reopening",
        "closing", "ended"}

NoKind == [opencode |-> FALSE, swarm |-> FALSE, sol |-> FALSE, fallback |-> FALSE]

\* guard: a live guard asked for the kill; dispatch: the swarm guard did, to swap the
\* manager's transport; cap: the turn limit is passed.
NoFlags == [guard |-> FALSE, dispatch |-> FALSE, cap |-> FALSE]

\* ended: "round" is the end of a real round, "infra" of an attempt to repeat, "swarm" of a
\* manager that left its swarm unfinished.
Ends == [ended : {"quota", "request", "round", "infra", "swarm"}, transport : BOOLEAN,
         limit : BOOLEAN, stall : BOOLEAN, interrupted : BOOLEAN]
NoEnd == [ended |-> "round", transport |-> FALSE, limit |-> FALSE, stall |-> FALSE,
          interrupted |-> FALSE]

Terminals == {"none", "quota", "request", "stall", "swarm"}
Results == {"none", "returned", "refused", "interrupted"} \cup (Terminals \ {"none"})

Init ==
    /\ stopFile = FALSE
    /\ attempts = 0 /\ open = {} /\ known = {} /\ alive = {}
    /\ pc = "idle" /\ interrupted = FALSE
    /\ kind = NoKind /\ tries = 0 /\ stalls = 0 /\ failedOver = FALSE
    /\ turns = 0 /\ flags = NoFlags /\ out = NoEnd /\ terminal = "none" /\ result = "none"
    /\ sessions = 0 /\ crashes = 0 /\ here = 0 /\ turnsHere = 0 /\ afterStop = 0
    /\ unrecorded = {}

Goto(point) == pc' = point

\* _register_child: a record without a pid.
Register ==
    /\ attempts' = attempts + 1
    /\ open' = open \cup {attempts + 1}
    /\ Goto("registered")
    /\ UNCHANGED known

\* _child_ended.
Closed(a) == open' = open \ {a}

\* The locals of a call that has not begun or is over.
Forget ==
    /\ kind' = NoKind /\ tries' = 0 /\ stalls' = 0 /\ failedOver' = FALSE
    /\ turns' = 0 /\ flags' = NoFlags /\ out' = NoEnd /\ terminal' = "none"

-----------------------------------------------------------------------------
(* An attempt. *)

\* The round loop goes on only after a session that returned.
Ready == pc = "idle" /\ result \in {"none", "returned"} /\ sessions < MaxSessions

\* The driver is missing, no wall time is left, or the driver cannot build the command.
RefuseLaunch ==
    /\ Ready
    /\ result' \in {"refused", "request"}
    /\ UNCHANGED <<stopFile, registry, alive, pc, interrupted, locals, history>>

Launch ==
    /\ Ready
    /\ \E k \in Kinds : kind' = k
    /\ tries' = 0 /\ stalls' = 0 /\ failedOver' = FALSE /\ turns' = 0
    /\ flags' = NoFlags /\ out' = NoEnd /\ terminal' = "none"
    /\ Register
    /\ result' = "none"
    /\ sessions' = sessions + 1
    /\ here' = 1 /\ turnsHere' = 0 /\ afterStop' = 0
    /\ UNCHANGED <<stopFile, alive, interrupted, crashes, unrecorded>>

\* ChildRunner.run raises before it starts anything, through launch_session and past its end.
InterruptedBeforeStart ==
    /\ pc = "registered"
    /\ interrupted
    /\ result' = "interrupted"
    /\ Goto("idle")
    /\ Forget
    /\ UNCHANGED <<stopFile, registry, alive, interrupted, history>>

\* The OpenCode server that a swarm needs does not come up: the record is already there.
ServerFails ==
    /\ pc = "registered"
    /\ kind.swarm /\ here = 1
    /\ result' = "refused"
    /\ Goto("idle")
    /\ Forget
    /\ UNCHANGED <<stopFile, registry, alive, interrupted, history>>

\* The process exists, behind a gate that opens when it is told to or when the
\* controller dies.
StartProcess ==
    /\ pc = "registered"
    /\ ~interrupted
    /\ alive' = alive \cup {attempts}
    /\ afterStop' = IF stopFile THEN afterStop + 1 ELSE afterStop
    /\ Goto("gated")
    /\ UNCHANGED <<stopFile, registry, interrupted, locals, result, sessions, crashes, here,
                   turnsHere, unrecorded>>

\* _child_started.
RecordStart ==
    /\ pc = "gated"
    /\ known' = known \cup {attempts}
    /\ Goto("running")
    /\ UNCHANGED <<stopFile, attempts, open, alive, interrupted, locals, result, history>>

\* The stream of an OpenCode child reports a step.
Turn ==
    /\ pc = "running"
    /\ kind.opencode
    /\ turns < MaxTurns
    /\ turns' = turns + 1
    /\ turnsHere' = turnsHere + 1
    /\ flags' = [flags EXCEPT !.cap = turns + 1 > TurnLimit]
    /\ UNCHANGED <<stopFile, registry, alive, pc, interrupted, kind, tries, stalls,
                   failedOver, out, terminal, result, sessions, crashes, here, afterStop, unrecorded>>

\* A builder that submits nothing reviewable for too many turns: only an OpenCode stream
\* reports turns.
ProgressStalls ==
    /\ pc = "running"
    /\ kind.opencode
    /\ turns > 0
    /\ ~flags.guard
    /\ flags' = [flags EXCEPT !.guard = TRUE]
    /\ UNCHANGED <<stopFile, registry, alive, pc, interrupted, kind, tries, stalls,
                   failedOver, turns, out, terminal, result, history>>

\* A builder that goes round in circles.
LoopDetected ==
    /\ pc = "running"
    /\ ~kind.sol /\ ~kind.fallback
    /\ ~flags.guard
    /\ flags' = [flags EXCEPT !.guard = TRUE]
    /\ UNCHANGED <<stopFile, registry, alive, pc, interrupted, kind, tries, stalls,
                   failedOver, turns, out, terminal, result, history>>

\* A manager that works on past an unfilled research wave.
DispatchStalls ==
    /\ pc = "running"
    /\ kind.swarm
    /\ ~flags.dispatch
    /\ flags' = [flags EXCEPT !.guard = TRUE, !.dispatch = TRUE]
    /\ UNCHANGED <<stopFile, registry, alive, pc, interrupted, kind, tries, stalls,
                   failedOver, turns, out, terminal, result, history>>

\* What may be made of an attempt of this kind that ends now.
Possible(e) ==
    /\ e.interrupted = interrupted
    /\ e.ended = "swarm" => kind.swarm
    /\ e.transport => kind.opencode
    /\ e.limit => kind.fallback /\ e.ended = "infra"
    /\ e.stall => kind.sol /\ e.ended \in {"infra", "round"}
    /\ e.interrupted => e.ended # "infra"
    /\ flags.dispatch => e.ended \notin {"round", "infra"}

\* The child exits, or is killed for a timeout, a flag, the STOP file or a signal; what it
\* left behind is killed with it.
AttemptEnds ==
    /\ pc = "running"
    /\ alive' = alive \ {attempts}
    /\ \E e \in Ends : Possible(e) /\ out' = e
    /\ Goto("judging")
    /\ UNCHANGED <<stopFile, registry, interrupted, kind, tries, stalls, failedOver, turns,
                   flags, terminal, result, history>>

-----------------------------------------------------------------------------
(* What becomes of the session when an attempt has ended. *)

\* Mutant: a swarm's own failures have no limit of their own.
RetryLimit_Unbounded == tries + 1

RetryLimit ==
    IF kind.opencode /\ out.transport THEN TransportTries
    ELSE IF out.ended = "swarm" THEN ManagerRetries
    ELSE IF kind.opencode THEN OpencodeTries
    ELSE OtherTries

\* A gpt-5.6-sol session whose stream stalled once already.
StalledTwice == kind.sol /\ out.stall /\ stalls > 0

Repeatable == out.ended \in {"infra", "swarm"} /\ ~StalledTwice /\ tries < RetryLimit

\* What should_stop sees once the flag that asked for another transport is taken back.
FlagsLeft == [flags EXCEPT !.guard = flags.guard /\ ~flags.dispatch]
StopRequested == FlagsLeft.guard \/ flags.cap \/ stopFile

\* A weekly quota or an invalid request, whatever else the attempt did.
ProviderRefuses ==
    /\ pc = "judging"
    /\ out.ended \in {"quota", "request"}
    /\ terminal' = out.ended
    /\ Goto("closing")
    /\ UNCHANGED <<stopFile, registry, alive, interrupted, kind, tries, stalls, failedOver,
                   turns, flags, out, result, history>>

StallsAgain ==
    /\ pc = "judging"
    /\ out.ended \notin {"quota", "request"}
    /\ StalledTwice
    /\ terminal' = "stall"
    /\ Goto("closing")
    /\ UNCHANGED <<stopFile, registry, alive, interrupted, kind, tries, stalls, failedOver,
                   turns, flags, out, result, history>>

\* A real round, or no retry left; a swarm that is given up is a failure of its own.
RoundOver ==
    /\ pc = "judging"
    /\ out.ended \notin {"quota", "request"} /\ ~StalledTwice
    /\ ~Repeatable
    /\ terminal' = IF out.ended = "swarm" THEN "swarm" ELSE terminal
    /\ Goto("closing")
    /\ UNCHANGED <<stopFile, registry, alive, interrupted, kind, tries, stalls, failedOver,
                   turns, flags, out, result, history>>

\* The owner's STOP, the turn limit and a live guard win over a retry; the guard that counts
\* turns, which only an OpenCode stream reports, looks again.
RetryVetoed ==
    /\ pc = "judging"
    /\ Repeatable
    /\ StopRequested \/ kind.opencode
    /\ flags' = IF StopRequested THEN FlagsLeft ELSE [FlagsLeft EXCEPT !.guard = TRUE]
    /\ Goto("closing")
    /\ UNCHANGED <<stopFile, registry, alive, interrupted, kind, tries, stalls, failedOver,
                   turns, out, terminal, result, history>>

\* Mutant: a retry does not look at what asked for the kill.
Retry_Unvetoed ==
    /\ pc = "judging"
    /\ Repeatable
    /\ tries' = tries + 1
    /\ stalls' = IF kind.sol /\ out.stall THEN stalls + 1 ELSE stalls
    /\ failedOver' = (failedOver \/ (kind.fallback /\ out.limit))
    /\ flags' = FlagsLeft
    /\ Goto("backoff")
    /\ UNCHANGED <<stopFile, registry, alive, interrupted, kind, turns, out, terminal,
                   result, sessions, crashes, here, turnsHere, afterStop, unrecorded>>

Retry ==
    /\ pc = "judging"
    /\ Repeatable
    /\ ~StopRequested
    /\ tries' = tries + 1
    /\ stalls' = IF kind.sol /\ out.stall THEN stalls + 1 ELSE stalls
    /\ failedOver' = (failedOver \/ (kind.fallback /\ out.limit))
    /\ flags' = FlagsLeft
    /\ Goto("backoff")
    /\ UNCHANGED <<stopFile, registry, alive, interrupted, kind, turns, out, terminal,
                   result, sessions, crashes, here, turnsHere, afterStop, unrecorded>>

\* Mutant: every attempt has a turn limit of its own.
BackoffEnds_FreshTurns ==
    /\ pc = "backoff"
    /\ Closed(attempts)
    /\ flags' = NoFlags
    /\ turns' = 0
    /\ Goto("reopening")
    /\ UNCHANGED <<stopFile, attempts, known, alive, interrupted, kind, tries, stalls,
                   failedOver, out, terminal, result, history>>

\* The wait is over, or a stop ended it: the attempt is closed.
BackoffEnds ==
    /\ pc = "backoff"
    /\ Closed(attempts)
    /\ flags' = NoFlags
    /\ Goto("reopening")
    /\ UNCHANGED <<stopFile, attempts, known, alive, interrupted, kind, tries, stalls,
                   failedOver, turns, out, terminal, result, history>>

\* Mutant: out of time, the session waits again.
OutOfTime_Waits ==
    /\ pc = "reopening"
    /\ Goto("backoff")
    /\ UNCHANGED <<stopFile, registry, alive, interrupted, locals, result, history>>

OutOfTime ==
    /\ pc = "reopening"
    /\ Goto("ended")
    /\ UNCHANGED <<stopFile, registry, alive, interrupted, locals, result, history>>

\* The driver cannot build the command of a retry.
RebuildRefused ==
    /\ pc = "reopening"
    /\ result' = "request"
    /\ Goto("idle")
    /\ Forget
    /\ UNCHANGED <<stopFile, registry, alive, interrupted, history>>

Reopen ==
    /\ pc = "reopening"
    /\ Register
    /\ here' = here + 1
    /\ UNCHANGED <<stopFile, alive, interrupted, locals, result, sessions, crashes,
                   turnsHere, afterStop, unrecorded>>

\* Mutant: the record of the last attempt is not closed.
Close_Left ==
    /\ pc = "closing"
    /\ Goto("ended")
    /\ UNCHANGED <<stopFile, registry, alive, interrupted, locals, result, history>>

Close ==
    /\ pc = "closing"
    /\ Closed(attempts)
    /\ Goto("ended")
    /\ UNCHANGED <<stopFile, attempts, known, alive, interrupted, locals, result, history>>

\* Mutant: a session that returned says so in a word of its own.
Outcome_Unknown ==
    CASE out.interrupted -> "interrupted"
      [] ~out.interrupted /\ terminal # "none" -> terminal
      [] ~out.interrupted /\ terminal = "none" -> "done"

\* A signal that ended the last attempt comes before every other reason.
Outcome ==
    CASE out.interrupted -> "interrupted"
      [] ~out.interrupted /\ terminal # "none" -> terminal
      [] ~out.interrupted /\ terminal = "none" -> "returned"

Report ==
    /\ pc = "ended"
    /\ result' = Outcome
    /\ Goto("idle")
    /\ Forget
    /\ UNCHANGED <<stopFile, registry, alive, interrupted, history>>

-----------------------------------------------------------------------------
(* What happens around a session. *)

Signal ==
    /\ pc # "down"
    /\ ~interrupted
    /\ interrupted' = TRUE
    /\ UNCHANGED <<stopFile, registry, alive, pc, locals, result, history>>

\* `longrun stop`
Stop ==
    /\ pc # "down"
    /\ ~stopFile
    /\ stopFile' = TRUE
    /\ UNCHANGED <<registry, alive, pc, interrupted, locals, result, history>>

\* The run goes on only if it was not ended by its last session.
Crash ==
    /\ pc # "down"
    /\ result \in {"none", "returned"}
    /\ crashes < MaxCrashes
    /\ crashes' = crashes + 1
    /\ unrecorded' = IF pc = "gated" THEN unrecorded \cup {attempts} ELSE unrecorded
    /\ interrupted' = FALSE
    /\ result' = "none"
    /\ Goto("down")
    /\ Forget
    /\ UNCHANGED <<stopFile, registry, alive, sessions, here, turnsHere, afterStop>>

\* A child whose controller is gone ends by itself.
OrphanEnds ==
    /\ \E a \in alive :
          /\ a = attempts => pc \notin {"gated", "running"}
          /\ alive' = alive \ {a}
    /\ UNCHANGED <<stopFile, registry, pc, interrupted, locals, result, history>>

\* Mutant: the children of the last controller are marked, and not killed.
Resume_Spared ==
    /\ pc = "down"
    /\ open' = open \ known
    /\ stopFile' = FALSE
    /\ Goto("idle")
    /\ UNCHANGED <<attempts, known, alive, interrupted, locals, result, history>>

\* run_loop, with the lease: reconcile_children kills what is recorded as running.
Resume ==
    /\ pc = "down"
    /\ alive' = alive \ (open \cap known)
    /\ open' = open \ known
    /\ stopFile' = FALSE
    /\ Goto("idle")
    /\ UNCHANGED <<attempts, known, interrupted, locals, result, history>>

\* A run that is over, or at the bound.
Over ==
    /\ pc = "idle"
    /\ ~Ready
    /\ UNCHANGED vars

-----------------------------------------------------------------------------
Begin == RefuseLaunch \/ Launch
Attempt == InterruptedBeforeStart \/ ServerFails \/ StartProcess \/ RecordStart \/ AttemptEnds
Judge == ProviderRefuses \/ StallsAgain \/ RoundOver \/ RetryVetoed \/ Retry
Again == BackoffEnds \/ OutOfTime \/ RebuildRefused \/ Reopen
End == Close \/ Report

\* What launch_session does once it has been called; a timeout ends every attempt.
Controller == Attempt \/ Judge \/ Again \/ End

\* What the child does.
Child == Turn \/ ProgressStalls \/ LoopDetected \/ DispatchStalls

Next == Begin \/ Controller \/ Child \/ Signal \/ Stop \/ Crash \/ OrphanEnds \/ Resume \/ Over

Spec == Init /\ [][Next]_vars

\* Nothing obliges the round loop to launch another session, or anybody to resume a run.
FairSpec == Spec /\ WF_vars(Controller)

-----------------------------------------------------------------------------
(* Properties *)

\* Every variable has a value of its type.
TypeOK ==
    /\ stopFile \in BOOLEAN /\ interrupted \in BOOLEAN /\ failedOver \in BOOLEAN
    /\ attempts \in Nat /\ tries \in Nat /\ stalls \in Nat /\ turns \in Nat
    /\ open \subseteq 1..attempts /\ known \subseteq 1..attempts /\ alive \subseteq 1..attempts
    /\ pc \in PCs
    /\ kind \in KindRecords
    /\ flags \in [guard : BOOLEAN, dispatch : BOOLEAN, cap : BOOLEAN]
    /\ out \in Ends
    /\ terminal \in Terminals
    /\ result \in Results
    /\ sessions \in Nat /\ crashes \in Nat /\ here \in Nat /\ turnsHere \in Nat
    /\ afterStop \in Nat
    /\ unrecorded \subseteq 1..attempts

Busy == pc \in {"gated", "running"}

\* While a controller runs, the only child that is alive is the one it waits for - apart
\* from children whose controller died before it could record their pid, which nothing
\* will ever find (README, "Stop / resume / restart": "children reconciled").
OnlyUnrecordedSurvive ==
    pc # "down" => \A a \in alive : (a = attempts /\ Busy) \/ a \in unrecorded

\* A session that the owner has asked to stop starts at most one more child: the backoff
\* before a retry looks for the STOP file, and starts the next attempt all the same.
StopStartsOneMore == afterStop <= 1

\* No attempt starts once the session has used up its turns: "recovery is part of the same
\* logical builder session", whatever the retries reset.
TurnsAreShared == Busy => turnsHere <= TurnLimit \/ flags.cap

RetryLimits == {ManagerRetries, TransportTries, OpencodeTries, OtherTries}

\* However the reasons for a retry follow each other, the retries of a session are bounded
\* by the largest of their limits.
RetriesBounded == \E n \in RetryLimits : here <= n + 1

\* A record stays open only while its session runs or its controller is dead - or
\* because the session was cut off before the child started.
OpenIsRunning ==
    pc = "idle" /\ result \notin {"interrupted", "refused"} /\ crashes = 0 => open = {}

\* A session that was launched comes to an end, without a crash and without help.
SessionEnds == (pc \notin {"idle", "down"}) ~> (pc \in {"idle", "down"})

-----------------------------------------------------------------------------
(* Strengthenings that are inductive: what the proofs use. *)

\* Whatever happens to an attempt, there is one.
TypeInv == TypeOK /\ (pc \notin {"idle", "down"} => attempts > 0)

\* A child that runs is recorded as running, so that a later controller finds it.
ChildInv ==
    /\ OnlyUnrecordedSurvive
    /\ pc \in {"registered", "gated", "running"} => attempts \in open
    /\ pc = "running" => attempts \in known
    /\ pc = "down" => alive \subseteq (open \cap known) \cup unrecorded

\* An attempt started under the STOP file is the session's last one.
StopInv ==
    /\ StopStartsOneMore
    /\ afterStop = 0 \/ pc \in {"idle", "down", "closing", "ended"}
         \/ (stopFile /\ pc \in {"gated", "running", "judging"})

\* The counter of turns is the session's, and the flag says that it is used up.
TurnsInv ==
    /\ pc \notin {"idle", "down"} => turnsHere = turns
    /\ pc \in {"registered", "gated", "running", "judging", "reopening"} =>
         flags.cap = (turns > TurnLimit)
    /\ pc \in {"registered", "gated", "backoff", "reopening"} => turnsHere <= TurnLimit

\* Attempts are counted by the retries that led to them.
RetriesInv ==
    /\ RetriesBounded
    /\ \E n \in RetryLimits : tries <= n
    /\ pc \in {"backoff", "reopening"} => here = tries
    /\ pc \in {"registered", "gated", "running", "judging"} => here = tries + 1

\* Without a crash, at most the record of the current attempt is open.
OpenInv ==
    /\ pc = "down" => crashes > 0
    /\ crashes = 0 =>
         /\ pc \notin {"idle", "down"} => open \subseteq {attempts}
         /\ pc \in {"reopening", "ended"} => open = {}
         /\ pc = "idle" /\ result \notin {"interrupted", "refused"} => open = {}

-----------------------------------------------------------------------------
(* A measure of what a session has still to do: the part of SessionEnds that needs no fairness. *)

MaxRetries == CHOOSE n \in RetryLimits : \A m \in RetryLimits : m <= n

\* The steps of the controller from here to the end of the session, if nothing is retried.
StepsToEnd == [ended |-> 1, closing |-> 2, judging |-> 3, running |-> 4, gated |-> 5,
               registered |-> 6, reopening |-> 7, backoff |-> 8]

\* Each retry that is left adds at most the six steps from its backoff to its judging.
StepsLeft == IF pc \in {"idle", "down"} THEN 0 ELSE 6 * (MaxRetries - tries) + StepsToEnd[pc]

\* A session has at most this much to do, whatever its kind.
StepsAreFinite == StepsLeft \in 0 .. 6 * (MaxRetries + 1)

\* Each step of launch_session brings its end nearer, and nothing that its child, a signal, the
\* owner or a crash does in between puts it off.
EveryStepCounts ==
    [][pc \notin {"idle", "down"} =>
          /\ StepsLeft' <= StepsLeft
          /\ Controller => StepsLeft' < StepsLeft]_vars

\* What is left can be counted: no counter of retries is over the largest limit.
StepInv ==
    /\ tries <= MaxRetries
    /\ pc \in {"backoff", "reopening"} => tries > 0
=============================================================================
