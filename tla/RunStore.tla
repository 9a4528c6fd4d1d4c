------------------------------ MODULE RunStore ------------------------------
(***************************************************************************)
(* The run store that every longrun process of a run shares: state.json    *)
(* and its signature state.sig, the event log events.jsonl, and the lock   *)
(* file.  Processes are controllers, owner commands, hooks and the         *)
(* commands a session runs; each of them may die between any two steps.    *)
(*                                                                         *)
(* A state is the updates it contains, counted per process, with the       *)
(* version that `transaction` maintains; a signature is the state that it  *)
(* signs.  Each file is replaced as a whole, so a process reads or writes  *)
(* it in one step, and reads or writes state.json and state.sig in two.    *)
(***************************************************************************)
EXTENDS Integers, Sequences, FiniteSets, FiniteSetsExt

CONSTANTS
    Writers,        \* processes that run transactions and append events
    Readers,        \* processes that only read, without the lock
    Controllers,    \* the writers that answer TamperDetected by failing the run
    TailLines,      \* lines of ordinary size in the 4096 bytes that _last_seq reads
    MaxCommits,     \* bound: state versions
    MaxLines,       \* bound: lines of the event log
    MaxCrashes      \* bound: processes that die in the middle of an operation

Procs == Writers \cup Readers
Nobody == "nobody"

ASSUME StoreAssumption ==
    /\ Controllers \subseteq Writers
    /\ Nobody \notin Procs
    /\ TailLines \in Nat \ {0}

VARIABLES
    stateFile,   \* what state.json contains
    sigFile,     \* the state that state.sig signs
    events,      \* the lines of events.jsonl
    lock,        \* the process that holds flock(.lock)
    pc,          \* where each process is
    seen,        \* the state each process has in memory
    nextSeq,     \* the sequence number each process is about to write
    committed,   \* transactions that have replaced state.json, per process (history)
    returned,    \* appends that returned to their caller (history)
    torn,        \* crashes in the middle of a line (history)
    halfSigned,  \* crashes between state.json and state.sig (history)
    crashes      \* crashes in the middle of an operation (history)

vars == <<stateFile, sigFile, events, lock, pc, seen, nextSeq, committed, returned, torn,
          halfSigned, crashes>>

files == <<stateFile, sigFile, events>>
log == <<events, nextSeq, returned>>
history == <<committed, returned, torn, halfSigned, crashes>>

\* What a process may do while it holds the lock, and what it may do without it.
LockedPoints == {"reading", "checking", "body", "signing", "tail", "append"}
OpenPoints == {"idle", "verifying", "refused", "mistrusting", "failing", "resigning"}

\* A line may be "long", longer than what _last_seq reads, or "split": a string in it has a
\* separator that json.dumps leaves as it is and str.splitlines breaks at.
Shapes == {"short", "long", "split"}

\* "readable" is what `events` finds: it splits the log at newlines only.
Lines == [seq : Nat, shape : Shapes, readable : BOOLEAN, ended : BOOLEAN]
States == [version : Nat, updates : [Writers -> Nat], failed : BOOLEAN]

InitialState == [version |-> 0, updates |-> [w \in Writers |-> 0], failed |-> FALSE]
FirstLine == [seq |-> 1, shape |-> "short", readable |-> TRUE, ended |-> TRUE]

\* RunStore.create: a signed state and the run.created event.
Init ==
    /\ stateFile = InitialState
    /\ sigFile = InitialState
    /\ events = <<FirstLine>>
    /\ lock = Nobody
    /\ pc = [p \in Procs |-> "idle"]
    /\ seen = [p \in Procs |-> InitialState]
    /\ nextSeq = [p \in Procs |-> 0]
    /\ committed = [w \in Writers |-> 0]
    /\ returned = 1
    /\ torn = 0 /\ halfSigned = 0 /\ crashes = 0

At(p, point) == pc[p] = point
Goto(p, point) == pc' = [pc EXCEPT ![p] = point]

-----------------------------------------------------------------------------
(* transaction *)

\* Mutant: the lock is shared.
BeginTransaction_Shared(p) ==
    /\ At(p, "idle")
    /\ lock' = p
    /\ Goto(p, "reading")
    /\ UNCHANGED <<files, seen, nextSeq, history>>

BeginTransaction(p) ==
    /\ At(p, "idle")
    /\ lock = Nobody
    /\ lock' = p
    /\ Goto(p, "reading")
    /\ UNCHANGED <<files, seen, nextSeq, history>>

\* read: first the state, then its signature.
ReadState(p) ==
    /\ At(p, "reading")
    /\ seen' = [seen EXCEPT ![p] = stateFile]
    /\ Goto(p, "checking")
    /\ UNCHANGED <<files, lock, nextSeq, history>>

Verified(p) ==
    /\ At(p, "checking")
    /\ sigFile = seen[p]
    /\ Goto(p, "body")
    /\ UNCHANGED <<files, lock, seen, nextSeq, history>>

\* Mutant: the exception leaves the lock taken.
Refused_Locked(p) ==
    /\ At(p, "checking")
    /\ sigFile # seen[p]
    /\ Goto(p, "refused")
    /\ UNCHANGED <<files, lock, seen, nextSeq, history>>

\* TamperDetected leaves the transaction, and the lock with it.
Refused(p) ==
    /\ At(p, "checking")
    /\ sigFile # seen[p]
    /\ lock' = Nobody
    /\ Goto(p, "refused")
    /\ UNCHANGED <<files, seen, nextSeq, history>>

\* The body changed nothing: nothing is written.
LeaveAsItIs(p) ==
    /\ At(p, "body")
    /\ lock' = Nobody
    /\ Goto(p, "idle")
    /\ UNCHANGED <<files, seen, nextSeq, history>>

\* Mutant: the version runs backwards.
Updated_Backwards(st, p) == [st EXCEPT !.version = @ - 1, !.updates[p] = @ + 1]

Updated(st, p) ==
    [version |-> st.version + 1,
     updates |-> [st.updates EXCEPT ![p] = @ + 1],
     failed  |-> st.failed]

WriteState(p) ==
    /\ At(p, "body")
    /\ stateFile.version < MaxCommits
    /\ stateFile' = Updated(seen[p], p)
    /\ seen' = [seen EXCEPT ![p] = stateFile']
    /\ committed' = [committed EXCEPT ![p] = @ + 1]
    /\ Goto(p, "signing")
    /\ UNCHANGED <<sigFile, events, lock, nextSeq, returned, torn, halfSigned, crashes>>

\* Mutant: the lock is given back and the signature never written.
WriteSignature_Unsigned(p) ==
    /\ At(p, "signing")
    /\ sigFile' = sigFile
    /\ lock' = Nobody
    /\ Goto(p, "idle")
    /\ UNCHANGED <<stateFile, events, seen, nextSeq, history>>

WriteSignature(p) ==
    /\ At(p, "signing")
    /\ sigFile' = seen[p]
    /\ lock' = Nobody
    /\ Goto(p, "idle")
    /\ UNCHANGED <<stateFile, events, seen, nextSeq, history>>

-----------------------------------------------------------------------------
(* read, without the lock *)

Peek(p) ==
    /\ At(p, "idle")
    /\ seen' = [seen EXCEPT ![p] = stateFile]
    /\ Goto(p, "verifying")
    /\ UNCHANGED <<files, lock, nextSeq, history>>

Trusted(p) ==
    /\ At(p, "verifying")
    /\ sigFile = seen[p]
    /\ Goto(p, "idle")
    /\ UNCHANGED <<files, lock, seen, nextSeq, history>>

Mistrusted(p) ==
    /\ At(p, "verifying")
    /\ sigFile # seen[p]
    /\ Goto(p, "mistrusting")
    /\ UNCHANGED <<files, lock, seen, nextSeq, history>>

\* A hook ignores the exception, a command prints it.
GiveUp(p) ==
    /\ pc[p] \in {"refused", "mistrusting"}
    /\ p \notin Controllers
    /\ Goto(p, "idle")
    /\ UNCHANGED <<files, lock, seen, nextSeq, history>>

-----------------------------------------------------------------------------
(* run_loop's handler of TamperDetected writes the state without the lock. *)

Reread(p) ==
    /\ pc[p] \in {"refused", "mistrusting"}
    /\ p \in Controllers
    /\ seen' = [seen EXCEPT ![p] = stateFile]
    /\ Goto(p, "failing")
    /\ UNCHANGED <<files, lock, nextSeq, history>>

FailRun(p) ==
    /\ At(p, "failing")
    /\ stateFile' = [seen[p] EXCEPT !.failed = TRUE]
    /\ seen' = [seen EXCEPT ![p] = stateFile']
    /\ Goto(p, "resigning")
    /\ UNCHANGED <<sigFile, events, lock, nextSeq, history>>

SignFailure(p) ==
    /\ At(p, "resigning")
    /\ sigFile' = seen[p]
    /\ Goto(p, "idle")
    /\ UNCHANGED <<stateFile, events, lock, seen, nextSeq, history>>

-----------------------------------------------------------------------------
(* append_event *)

\* Mutant: the event is appended without the lock.
BeginAppend_Unlocked(p) ==
    /\ At(p, "idle")
    /\ Len(events) < MaxLines
    /\ Goto(p, "tail")
    /\ UNCHANGED <<files, lock, seen, nextSeq, history>>

BeginAppend(p) ==
    /\ At(p, "idle")
    /\ lock = Nobody
    /\ Len(events) < MaxLines
    /\ lock' = p
    /\ Goto(p, "tail")
    /\ UNCHANGED <<files, seen, nextSeq, history>>

\* The lines that lie completely in what _last_seq reads from the end of the log.
InTail ==
    {i \in DOMAIN events :
        /\ Len(events) - i < TailLines
        /\ \A j \in i .. Len(events) : events[j].shape # "long"}

\* Broken at its separators, a split line has no piece with a number.
Numbered == {i \in DOMAIN events : events[i].readable /\ events[i].shape # "split"}

NumberedInTail == InTail \cap Numbered

LastSeq == IF NumberedInTail = {} THEN 0 ELSE events[Max(NumberedInTail)].seq

ReadTail(p) ==
    /\ At(p, "tail")
    /\ nextSeq' = [nextSeq EXCEPT ![p] = LastSeq + 1]
    /\ Goto(p, "append")
    /\ UNCHANGED <<files, lock, seen, history>>

\* Mutant: a log that ends in a torn line is begun anew.
Appended_Truncates(line) ==
    IF events[Len(events)].ended THEN Append(events, line) ELSE <<line>>

\* The log with one more write at its end: after a torn line the two are one line,
\* which no JSON parser reads.
Appended(line) ==
    LET last == events[Len(events)]
    IN  IF last.ended
        THEN Append(events, line)
        ELSE [events EXCEPT ![Len(events)] =
                 [line EXCEPT !.readable = FALSE,
                              !.shape = IF last.shape = "long" THEN "long" ELSE line.shape]]

WriteLine(p) ==
    /\ At(p, "append")
    /\ \E shape \in Shapes :
          events' = Appended([seq |-> nextSeq[p], shape |-> shape, readable |-> TRUE, ended |-> TRUE])
    /\ returned' = returned + 1
    /\ lock' = Nobody
    /\ Goto(p, "idle")
    /\ UNCHANGED <<stateFile, sigFile, seen, nextSeq, committed, torn, halfSigned, crashes>>

-----------------------------------------------------------------------------
(* The death of a process, which the operating system answers by releasing its lock. *)

Released(p) == IF lock = p THEN Nobody ELSE lock

Crash(p) ==
    /\ ~At(p, "idle")
    /\ crashes < MaxCrashes
    /\ crashes' = crashes + 1
    /\ halfSigned' = IF At(p, "signing") \/ At(p, "resigning") THEN halfSigned + 1 ELSE halfSigned
    /\ lock' = Released(p)
    /\ Goto(p, "idle")
    /\ UNCHANGED <<files, seen, nextSeq, committed, returned, torn>>

\* It dies in the middle of writing a line.
TearLine(p) ==
    /\ At(p, "append")
    /\ crashes < MaxCrashes
    /\ crashes' = crashes + 1
    /\ torn' = torn + 1
    /\ \E shape \in {"short", "long"} :
          events' = Appended([seq |-> nextSeq[p], shape |-> shape, readable |-> FALSE, ended |-> FALSE])
    /\ lock' = Nobody
    /\ Goto(p, "idle")
    /\ UNCHANGED <<stateFile, sigFile, seen, nextSeq, committed, returned, halfSigned>>

-----------------------------------------------------------------------------
Transaction(p) ==
    BeginTransaction(p) \/ ReadState(p) \/ Verified(p) \/ Refused(p) \/ LeaveAsItIs(p)
    \/ WriteState(p) \/ WriteSignature(p)
Look(p) == Peek(p) \/ Trusted(p) \/ Mistrusted(p) \/ GiveUp(p)
TamperHandler(p) == Reread(p) \/ FailRun(p) \/ SignFailure(p)
EventLog(p) == BeginAppend(p) \/ ReadTail(p) \/ WriteLine(p)
Death(p) == Crash(p) \/ TearLine(p)

\* A writer's steps once it has begun, none of which waits for another process.
Proceed(p) ==
    ReadState(p) \/ Verified(p) \/ Refused(p) \/ LeaveAsItIs(p) \/ WriteState(p)
    \/ WriteSignature(p) \/ ReadTail(p) \/ WriteLine(p)

Next ==
    \/ \E p \in Writers : Transaction(p) \/ TamperHandler(p) \/ EventLog(p) \/ Death(p)
    \/ \E p \in Procs : Look(p)

Spec == Init /\ [][Next]_vars

\* A process that holds the lock runs on, unless it dies.
FairSpec == Spec /\ \A p \in Writers : WF_vars(Proceed(p))

-----------------------------------------------------------------------------
(* Properties *)

StateTypeOK ==
    /\ stateFile \in States
    /\ sigFile \in States
    /\ lock \in Writers \cup {Nobody}
    /\ pc \in [Procs -> LockedPoints \cup OpenPoints]
    /\ seen \in [Procs -> States]
    /\ committed \in [Writers -> Nat]

LogTypeOK ==
    /\ events \in Seq(Lines) /\ events # << >>
    /\ nextSeq \in [Procs -> Nat]
    /\ returned \in Nat /\ torn \in Nat /\ halfSigned \in Nat /\ crashes \in Nat

\* Every variable has a value of its type.
TypeOK == StateTypeOK /\ LogTypeOK

\* No transaction's update is ever lost to another process: what was committed is in
\* state.json (store.py: "file lock around every read-modify-write").
NoLostUpdate == stateFile.updates = committed

Serial == INSTANCE SerialState WITH state <- stateFile

\* Seen through state.json, transactions run one after the other: each writes the result of
\* its own update on what the one before it wrote, crashes and refusals included.
TransactionsAreSerial == Serial!Spec

\* A transaction refuses the state only if a process died between the two files:
\* otherwise whoever gets the lock finds a state and its own signature.
RefusalMeansCrash == (\E p \in Writers : At(p, "refused")) => halfSigned > 0

ReadableLines == {i \in DOMAIN events : events[i].readable}

\* The readable events are numbered upwards (store.py: "monotonic event sequence numbers"):
\* what the repository says, and the code does not keep.
SeqMonotonic == \A i, j \in ReadableLines : i < j => events[i].seq < events[j].seq

\* Whoever wrote a line after i, up to line j, found i or a numbered line after i in the tail.
Sighted(i, j) ==
    \A k \in i .. j - 1 :
        /\ events[k].shape # "long"
        /\ \E m \in i .. k : k - m < TailLines /\ m \in Numbered

\* Numbers repeat only where _last_seq lost sight of the log - behind a long line, or behind as
\* many lines without a number as the tail holds - never because two processes append at once
\* or one of them dies.
NumbersGrowInSight ==
    \A i, j \in ReadableLines : i < j /\ Sighted(i, j) => events[i].seq < events[j].seq

\* An append that returned is in the log, except that one torn line may swallow the
\* line after it.
LossIsTorn == returned - Cardinality(ReadableLines) <= torn

\* Whoever takes the lock, dead or alive, gives it back.
LockComesBack == (lock # Nobody) ~> (lock = Nobody)

-----------------------------------------------------------------------------
(* Strengthenings that are inductive: what the proofs use. *)

\* Where the process that holds the lock has read the state and has not yet released it.
Informed == {"checking", "body", "signing"}

\* Only the holder of the lock is at a point that needs it.
OneHolder == \A p \in Procs : pc[p] \in LockedPoints => lock = p

\* What the holder has in memory is what is on disk.
LockInv ==
    /\ OneHolder
    /\ \A p \in Procs : pc[p] \in Informed => seen[p] = stateFile
    /\ \A p \in Procs : pc[p] \in {"failing", "resigning"} => p \in Controllers

\* As long as nobody has died between the two files, the state is signed unless the holder
\* of the lock is about to sign it.
SignatureInv ==
    halfSigned = 0 =>
        /\ sigFile # stateFile => lock \in Procs /\ At(lock, "signing")
        /\ \A p \in Procs : ~At(p, "refused")

LastLine == events[Len(events)]

\* A line without its end is not readable, and is paid for: it is the torn line that the next
\* append may be lost to.
LossInv ==
    /\ \A i \in DOMAIN events : ~events[i].ended => ~events[i].readable
    /\ returned + (IF LastLine.ended THEN 0 ELSE 1) <= Cardinality(ReadableLines) + torn

\* Whoever is about to append has a number above that of every line that is in its sight.
NumberingInv ==
    /\ NumbersGrowInSight
    /\ \A p \in Procs : At(p, "append") =>
          \A i \in ReadableLines : Sighted(i, Len(events) + 1) => events[i].seq < nextSeq[p]
=============================================================================
