---------------------------- MODULE ChildRunner ----------------------------
(***************************************************************************)
(* One child process of a session, from ChildRunner.run to the last look   *)
(* for what it left behind (the finally of launch_session): the main       *)
(* thread, the signal handler that runs on it, the thread that reads the   *)
(* child's output, the thread that samples its descendants, and the        *)
(* descendants themselves, which fork, daemonize, clear their environment  *)
(* and keep the output pipe open as they like.                             *)
(*                                                                         *)
(* Time is left out: a timeout may come whenever the code waits with one.  *)
(***************************************************************************)
EXTENDS Naturals

CONSTANT Kids       \* the descendants that the child may have

VARIABLES
    pc,           \* where the main thread is in run and launch_session
    killing,      \* where it is in a _kill_group, its own or the signal handler's
    interrupted,  \* _interrupted
    current,      \* _current is the child
    leader,       \* the child: behind the gate, running, or ended
    reader,       \* the thread that reads stdout
    born,         \* the descendants that have been forked
    alive,        \* those that run
    attached,     \* those that are reached from the child by ppid
    inGroup,      \* those in the process group of the child
    marked,       \* those with LONGRUN_SESSION_MARKER in their environment
    holding,      \* those with the child's stdout open
    seen,         \* tracked_descendants: identities, of a pid and its birth
    found,        \* the descendants that the scan for the marker found
    late          \* descendants that were forked after that scan (history)

families == <<born, alive, attached, inGroup, marked, holding, late>>
vars == <<pc, killing, interrupted, current, leader, reader, born, alive, attached, inGroup,
          marked, holding, seen, found, late>>

PCs == {"idle", "started", "registering", "opening", "recording", "watching", "draining",
        "reaping", "cleaning", "leaving", "unregistering", "closing", "scanning", "sweeping",
        "done", "deadlocked"}

TypeOK ==
    /\ pc \in PCs /\ killing \in {"no", "term", "grace"}
    /\ interrupted \in BOOLEAN /\ current \in BOOLEAN
    /\ leader \in {"none", "gate", "running", "ended"}
    /\ reader \in {"none", "reading", "done"}
    /\ born \subseteq Kids /\ alive \subseteq born /\ late \subseteq born /\ seen \subseteq born
    /\ attached \subseteq alive /\ inGroup \subseteq alive /\ marked \subseteq alive
    /\ holding \subseteq alive
    /\ found \subseteq born
    /\ current => pc \notin {"idle", "started", "registering", "closing", "scanning", "sweeping",
                             "done"}

Init ==
    /\ pc = "idle" /\ killing = "no" /\ interrupted = FALSE /\ current = FALSE
    /\ leader = "none" /\ reader = "none"
    /\ born = {} /\ alive = {} /\ attached = {} /\ inGroup = {} /\ marked = {} /\ holding = {}
    /\ seen = {} /\ found = {} /\ late = {}

LeaderLives == leader \in {"gate", "running"}

\* The main thread is at a point of run, and in no _kill_group.
Main(point) == pc = point /\ killing = "no"

Goto(point) == pc' = point /\ killing' = "no"

\* Descendants die. Whoever was reached through a dead child is reached no longer.
Die(dead) ==
    /\ alive' = alive \ dead
    /\ attached' = IF leader' = "ended" THEN {} ELSE attached \ dead
    /\ inGroup' = inGroup \ dead
    /\ marked' = marked \ dead
    /\ holding' = holding \ dead
    /\ UNCHANGED <<born, late>>

-----------------------------------------------------------------------------
(* The child and its descendants, which the code does not control. *)

\* A fork inherits everything from its parent.
ForkOfLeader(k) ==
    /\ leader = "running" /\ k \notin born
    /\ born' = born \cup {k} /\ alive' = alive \cup {k} /\ attached' = attached \cup {k}
    /\ inGroup' = inGroup \cup {k} /\ marked' = marked \cup {k} /\ holding' = holding \cup {k}
    /\ late' = IF pc = "sweeping" THEN late \cup {k} ELSE late
    /\ UNCHANGED <<pc, killing, interrupted, current, leader, reader, seen, found>>

Inherit(set, parent, k) == IF parent \in set THEN set \cup {k} ELSE set

ForkOfKid(p, k) ==
    /\ p \in alive /\ k \notin born /\ pc # "done"
    /\ born' = born \cup {k} /\ alive' = alive \cup {k}
    /\ attached' = Inherit(attached, p, k) /\ inGroup' = Inherit(inGroup, p, k)
    /\ marked' = Inherit(marked, p, k) /\ holding' = Inherit(holding, p, k)
    /\ late' = IF pc = "sweeping" THEN late \cup {k} ELSE late
    /\ UNCHANGED <<pc, killing, interrupted, current, leader, reader, seen, found>>

\* setsid; an exec with another environment; a redirected output; a parent that ends.
Daemonize(k) ==
    /\ k \in alive /\ pc # "done"
    /\ \/ inGroup' = inGroup \ {k} /\ UNCHANGED <<marked, holding, attached>>
       \/ marked' = marked \ {k} /\ UNCHANGED <<inGroup, holding, attached>>
       \/ holding' = holding \ {k} /\ UNCHANGED <<inGroup, marked, attached>>
       \/ attached' = attached \ {k} /\ UNCHANGED <<inGroup, marked, holding>>
    /\ UNCHANGED <<pc, killing, interrupted, current, leader, reader, born, alive, late, seen,
                   found>>

KidEnds(k) ==
    /\ k \in alive /\ pc # "done"
    /\ UNCHANGED leader
    /\ Die({k})
    /\ UNCHANGED <<pc, killing, interrupted, current, reader, seen, found>>

LeaderEnds ==
    /\ leader = "running"
    /\ leader' = "ended"
    /\ Die({})
    /\ UNCHANGED <<pc, killing, interrupted, current, reader, seen, found>>

-----------------------------------------------------------------------------
(* The threads beside the main one. *)

\* _DescendantTracker._run, and the samples of the watch loop.
Sample ==
    /\ pc \in {"opening", "recording", "watching", "draining", "reaping"}
    /\ ~(attached \subseteq seen)
    /\ seen' = seen \cup attached
    /\ UNCHANGED <<pc, killing, interrupted, current, leader, reader, families, found>>

\* _reader: the end of the stream comes when nobody has its other end open.
ReaderEnds ==
    /\ reader = "reading"
    /\ ~LeaderLives /\ holding = {}
    /\ reader' = "done"
    /\ UNCHANGED <<pc, killing, interrupted, current, leader, families, seen, found>>

-----------------------------------------------------------------------------
(* _kill_group, which the watch loop and the signal handler call. *)

\* SIGTERM to the group: some of it obeys.
KillTerm ==
    /\ killing = "term"
    /\ LeaderLives
    /\ leader' \in {leader, "ended"}
    /\ \E dead \in SUBSET inGroup : Die(dead)
    /\ killing' = "grace"
    /\ UNCHANGED <<pc, interrupted, current, reader, seen, found>>

\* Mutant: no SIGKILL.
KillGrace_TermOnly ==
    /\ killing = "grace"
    /\ killing' = "no"
    /\ UNCHANGED <<pc, interrupted, current, leader, reader, families, seen, found>>

\* After the grace SIGKILL, but only if the leader of the group has not ended by then.
KillGrace ==
    /\ killing = "grace"
    /\ IF LeaderLives
       THEN leader' = "ended" /\ Die(inGroup)
       ELSE UNCHANGED <<leader, families>>
    /\ killing' = "no"
    /\ UNCHANGED <<pc, interrupted, current, reader, seen, found>>

\* The leader has ended before the signal was sent: p.terminate() does nothing.
KillNobody ==
    /\ killing = "term" /\ ~LeaderLives
    /\ killing' = "no"
    /\ UNCHANGED <<pc, interrupted, current, leader, reader, families, seen, found>>

\* _handle runs on the main thread between two of its bytecodes, and takes _lock, which is not
\* reentrant; it does not run while stdout.close() waits.
Signal ==
    /\ ~interrupted /\ pc \notin {"closing", "done", "deadlocked"}
    /\ interrupted' = TRUE
    /\ IF pc \in {"registering", "unregistering"}
       THEN pc' = "deadlocked" /\ UNCHANGED killing
       ELSE /\ killing' = IF current /\ LeaderLives /\ killing = "no" THEN "term" ELSE killing
            /\ UNCHANGED pc
    /\ UNCHANGED <<current, leader, reader, families, seen, found>>

-----------------------------------------------------------------------------
(* run *)

RefuseToStart ==
    /\ Main("idle") /\ interrupted
    /\ Goto("scanning")
    /\ UNCHANGED <<interrupted, current, leader, reader, families, seen, found>>

StartChild ==
    /\ Main("idle") /\ ~interrupted
    /\ leader' = "gate"
    /\ Goto("started")
    /\ UNCHANGED <<interrupted, current, reader, families, seen, found>>

\* The two places where the main thread holds _lock are points of their own.
LockForChild ==
    /\ Main("started")
    /\ Goto("registering")
    /\ UNCHANGED <<interrupted, current, leader, reader, families, seen, found>>

RecordCurrent ==
    /\ Main("registering")
    /\ current' = TRUE
    /\ Goto("opening")
    /\ UNCHANGED <<interrupted, leader, reader, families, seen, found>>

\* The tracker is started before the gate opens.
OpenGate ==
    /\ Main("opening")
    /\ leader' = IF leader = "gate" THEN "running" ELSE leader
    /\ Goto("recording")
    /\ UNCHANGED <<interrupted, current, reader, families, seen, found>>

\* on_child_start is a transaction, and may raise: then no reader is started and nobody
\* waits for the child.
ChildRecorded ==
    /\ Main("recording")
    /\ reader' = "reading"
    /\ Goto("watching")
    /\ UNCHANGED <<interrupted, current, leader, families, seen, found>>

RecordingRaises ==
    /\ Main("recording")
    /\ Goto("cleaning")
    /\ UNCHANGED <<interrupted, current, leader, reader, families, seen, found>>

\* The watch loop: the child has ended; or its time, a guard, the STOP file or a signal asks
\* for its end.
ChildGone ==
    /\ Main("watching") /\ ~LeaderLives
    /\ Goto("draining")
    /\ UNCHANGED <<interrupted, current, leader, reader, families, seen, found>>

EndChild ==
    /\ Main("watching") /\ LeaderLives
    /\ pc' = "draining" /\ killing' = "term"
    /\ UNCHANGED <<interrupted, current, leader, reader, families, seen, found>>

\* reader_done is waited for, but not longer than five seconds.
Drained ==
    /\ Main("draining")
    /\ Goto("reaping")
    /\ UNCHANGED <<interrupted, current, leader, reader, families, seen, found>>

\* After its kill it has: the second kill, after ten seconds, is not reached.
Reaped ==
    /\ Main("reaping") /\ ~LeaderLives
    /\ Goto("cleaning")
    /\ UNCHANGED <<interrupted, current, leader, reader, families, seen, found>>

\* Mutant: only what still is a descendant is cleaned up.
CleanUp_Attached ==
    /\ Main("cleaning")
    /\ UNCHANGED leader
    /\ Die(seen \cap attached)
    /\ Goto("leaving")
    /\ UNCHANGED <<interrupted, current, reader, seen, found>>

\* The tracker is stopped; cleanup_owned_pids ends the descendants that it or the loop has
\* seen, if they are the processes that were seen. The finally does it once more.
CleanUp ==
    /\ Main("cleaning")
    /\ UNCHANGED leader
    /\ Die(seen \cap alive)
    /\ Goto("leaving")
    /\ UNCHANGED <<interrupted, current, reader, seen, found>>

LockToLeave ==
    /\ Main("leaving")
    /\ Goto("unregistering")
    /\ UNCHANGED <<interrupted, current, leader, reader, families, seen, found>>

\* Mutant: _current is kept.
ForgetCurrent_Kept ==
    /\ Main("unregistering")
    /\ Goto("closing")
    /\ UNCHANGED <<interrupted, current, leader, reader, families, seen, found>>

ForgetCurrent ==
    /\ Main("unregistering")
    /\ current' = FALSE
    /\ Goto("closing")
    /\ UNCHANGED <<interrupted, leader, reader, families, seen, found>>

\* p.stdout.close() needs the lock of the buffer, which a reader that waits for input holds.
CloseStdout ==
    /\ Main("closing") /\ reader # "reading"
    /\ Goto("scanning")
    /\ UNCHANGED <<interrupted, current, leader, reader, families, seen, found>>

-----------------------------------------------------------------------------
(* cleanup_processes_with_env_marker, in the finally of launch_session. *)

ScanMarkers ==
    /\ Main("scanning")
    /\ found' = marked
    /\ Goto("sweeping")
    /\ UNCHANGED <<interrupted, current, leader, reader, families, seen>>

\* What was found is killed, and the child, if it lives: it always has the marker.
Sweep ==
    /\ Main("sweeping")
    /\ leader' = IF LeaderLives THEN "ended" ELSE leader
    /\ Die(found \cap alive)
    /\ Goto("done")
    /\ UNCHANGED <<interrupted, current, reader, seen, found>>

-----------------------------------------------------------------------------
MainStep ==
    \/ KillTerm \/ KillGrace \/ KillNobody
    \/ RefuseToStart \/ StartChild \/ LockForChild \/ RecordCurrent \/ OpenGate
    \/ ChildRecorded \/ RecordingRaises \/ ChildGone \/ EndChild \/ Drained \/ Reaped
    \/ CleanUp \/ LockToLeave \/ ForgetCurrent \/ CloseStdout
    \/ ScanMarkers \/ Sweep

FamilyStep ==
    \/ LeaderEnds
    \/ \E k \in Kids :
        \/ ForkOfLeader(k) \/ Daemonize(k) \/ KidEnds(k)
        \/ \E p \in Kids : ForkOfKid(p, k)

Next == MainStep \/ FamilyStep \/ Sample \/ ReaderEnds \/ Signal

Spec == Init /\ [][Next]_vars

\* Every wait of the main thread has a timeout, but for stdout.close(); a thread at the end of
\* its stream sees it. The child and its descendants owe nothing.
FairSpec == Spec /\ WF_vars(MainStep) /\ WF_vars(ReaderEnds)

-----------------------------------------------------------------------------
(* What survives a session was never sampled while it was a descendant, and had cleared its
   marker or was forked during the sweep; the child itself never does (process.py 200-216,
   394-472; controller.py 1007-1014). *)
SurvivorsAreUnseen ==
    pc = "done" =>
        /\ ~LeaderLives
        /\ \A k \in alive : k \notin seen /\ (k \in marked => k \in late)

(* A child that is watched is ended and its session goes on, whatever its descendants do, with
   two exceptions: a descendant that nobody sampled keeps stdout open, and p.stdout.close()
   waits for it; a signal came while the main thread held the lock that the handler takes
   (process.py 66-79, 162-222). *)
HeldOpen == pc = "closing" /\ holding # {} /\ holding \cap seen = {}
WatchEnds == pc = "watching" ~> pc \in {"done", "deadlocked"} \/ HeldOpen

-----------------------------------------------------------------------------
(* What WatchEnds takes from the code besides fairness: the main thread never goes back, and
   waits for nobody but in the known places. *)

\* The steps of the main thread from here to the end, without the two of a _kill_group.
StepsToEnd == [idle |-> 16, started |-> 15, registering |-> 14, opening |-> 13, recording |-> 12,
               watching |-> 11, draining |-> 8, reaping |-> 7, cleaning |-> 6, leaving |-> 5,
               unregistering |-> 4, closing |-> 3, scanning |-> 2, sweeping |-> 1, done |-> 0,
               deadlocked |-> 0]
StepsOfKill == [no |-> 0, term |-> 2, grace |-> 1]

\* The signal handler, which runs once, may add a kill.
StepsLeft == StepsToEnd[pc] + StepsOfKill[killing] + (IF interrupted THEN 0 ELSE 2)

StepsAreFinite == StepsLeft \in 0..18

(* Each step of the main thread leaves less to do, and the child, its descendants, the other
   threads and a signal add nothing. *)
EveryStepCounts ==
    [][StepsLeft' <= StepsLeft /\ (MainStep => StepsLeft' < StepsLeft)]_vars

\* Where the main thread can go on only when somebody else has done something.
Waits ==
    \/ Main("reaping") /\ LeaderLives
    \/ Main("closing") /\ reader = "reading"
    \/ pc = "deadlocked"

(* The main thread waits only after a signal at the wrong moment, for a descendant that was never
   sampled and keeps stdout open, or for a reader whose stream has ended: the child is dead
   before it is waited for, and so is every descendant that was seen. *)
WaitsAreKnown ==
    Waits => \/ pc = "deadlocked" /\ interrupted
             \/ HeldOpen
             \/ reader = "reading" /\ ~LeaderLives /\ holding = {}
=============================================================================
