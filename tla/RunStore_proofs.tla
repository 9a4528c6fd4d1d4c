--------------------------- MODULE RunStore_proofs ---------------------------
(***************************************************************************)
(* What the lock of the run store guarantees to any number of processes:   *)
(* for state.json as long as none of them writes it without the lock, for  *)
(* the event log whatever they do.                                         *)
(***************************************************************************)
EXTENDS RunStore, TLAPS, FiniteSetTheorems, WellFoundedInduction

\* What a transaction writes is a state.
LEMMA UpdatedType ==
    ASSUME NEW st \in States, NEW p \in Writers
    PROVE  /\ Updated(st, p) \in States
           /\ Updated(st, p).updates = [st.updates EXCEPT ![p] = @ + 1]
<1>1. st.version + 1 \in Nat /\ [st.updates EXCEPT ![p] = @ + 1] \in [Writers -> Nat]
  BY DEF States
<1> QED
  BY <1>1 DEF Updated, States

\* Every step keeps the state, the lock and what the processes know of them in their types.
LEMMA StateTypeStep == StateTypeOK /\ [Next]_vars => StateTypeOK'
<1> SUFFICES ASSUME StateTypeOK, [Next]_vars
             PROVE  StateTypeOK'
  OBVIOUS
<1> USE DEF files, history, Goto, At, LockedPoints, OpenPoints
<1>1. ASSUME NEW p \in Writers, Transaction(p) PROVE StateTypeOK'
  <2>1. CASE BeginTransaction(p)
    BY <2>1 DEF BeginTransaction, StateTypeOK, Procs
  <2>2. CASE ReadState(p)
    BY <2>2 DEF ReadState, StateTypeOK, Procs
  <2>3. CASE Verified(p)
    BY <2>3 DEF Verified, StateTypeOK
  <2>4. CASE Refused(p)
    BY <2>4 DEF Refused, StateTypeOK
  <2>5. CASE LeaveAsItIs(p)
    BY <2>5 DEF LeaveAsItIs, StateTypeOK
  <2>6. CASE WriteState(p)
    <3>1. stateFile' \in States
      BY <2>6, UpdatedType DEF WriteState, StateTypeOK, Procs
    <3>2. seen' \in [Procs -> States] /\ committed' \in [Writers -> Nat]
      BY <2>6, <3>1 DEF WriteState, StateTypeOK, Procs
    <3> QED
      BY <2>6, <3>1, <3>2 DEF WriteState, StateTypeOK
  <2>7. CASE WriteSignature(p)
    BY <2>7 DEF WriteSignature, StateTypeOK, Procs
  <2> QED
    BY <1>1, <2>1, <2>2, <2>3, <2>4, <2>5, <2>6, <2>7 DEF Transaction
<1>2. ASSUME NEW p \in Writers, TamperHandler(p) PROVE StateTypeOK'
  <2>1. CASE Reread(p)
    BY <2>1 DEF Reread, StateTypeOK, Procs
  <2>2. CASE FailRun(p)
    <3>1. stateFile' \in States
      BY <2>2 DEF FailRun, StateTypeOK, States, Procs
    <3> QED
      BY <2>2, <3>1 DEF FailRun, StateTypeOK
  <2>3. CASE SignFailure(p)
    BY <2>3 DEF SignFailure, StateTypeOK, Procs
  <2> QED
    BY <1>2, <2>1, <2>2, <2>3 DEF TamperHandler
<1>3. ASSUME NEW p \in Writers, EventLog(p) \/ Death(p) PROVE StateTypeOK'
  <2>1. CASE BeginAppend(p)
    BY <2>1 DEF BeginAppend, StateTypeOK
  <2>2. CASE ReadTail(p)
    BY <2>2 DEF ReadTail, StateTypeOK
  <2>3. CASE WriteLine(p)
    BY <2>3 DEF WriteLine, StateTypeOK
  <2>4. CASE Crash(p)
    BY <2>4 DEF Crash, Released, StateTypeOK
  <2>5. CASE TearLine(p)
    BY <2>5 DEF TearLine, StateTypeOK
  <2> QED
    BY <1>3, <2>1, <2>2, <2>3, <2>4, <2>5 DEF EventLog, Death
<1>4. ASSUME NEW p \in Procs, Look(p) PROVE StateTypeOK'
  BY <1>4 DEF Look, Peek, Trusted, Mistrusted, GiveUp, StateTypeOK
<1>5. CASE UNCHANGED vars
  BY <1>5 DEF vars, StateTypeOK
<1> QED
  BY <1>1, <1>2, <1>3, <1>4, <1>5 DEF Next

\* The two state files and what is known of them keep their types.
THEOREM StateTyped == Spec => []StateTypeOK
<1>1. Init => StateTypeOK
  BY DEF Init, InitialState, States, StateTypeOK, LockedPoints, OpenPoints
<1> QED
  BY <1>1, StateTypeStep, PTL DEF Spec
-----------------------------------------------------------------------------
\* Without a controller that fails the run behind the lock, every step keeps each process
\* that has read the state under the lock the only one that may write it.
LEMMA LockStep ==
    Controllers = {} /\ StateTypeOK /\ LockInv /\ [Next]_vars => LockInv'
<1> SUFFICES ASSUME Controllers = {}, StateTypeOK, LockInv, [Next]_vars
             PROVE  LockInv'
  OBVIOUS
<1> USE StoreAssumption DEF files, history, Goto, At, LockedPoints, Informed, StateTypeOK, Procs,
        OneHolder
<1>1. ASSUME NEW p \in Writers, Transaction(p) PROVE LockInv'
  <2>1. CASE BeginTransaction(p)
    BY <2>1 DEF BeginTransaction, LockInv
  <2>2. CASE ReadState(p)
    BY <2>2 DEF ReadState, LockInv
  <2>3. CASE Verified(p)
    BY <2>3 DEF Verified, LockInv
  <2>4. CASE Refused(p)
    BY <2>4 DEF Refused, LockInv
  <2>5. CASE LeaveAsItIs(p)
    BY <2>5 DEF LeaveAsItIs, LockInv
  <2>6. CASE WriteState(p)
    BY <2>6 DEF WriteState, LockInv
  <2>7. CASE WriteSignature(p)
    BY <2>7 DEF WriteSignature, LockInv
  <2> QED
    BY <1>1, <2>1, <2>2, <2>3, <2>4, <2>5, <2>6, <2>7 DEF Transaction
<1>2. ASSUME NEW p \in Writers, TamperHandler(p) PROVE FALSE
  BY <1>2 DEF TamperHandler, Reread, FailRun, SignFailure, LockInv
<1>3. ASSUME NEW p \in Writers, EventLog(p) \/ Death(p) PROVE LockInv'
  <2>1. CASE BeginAppend(p)
    BY <2>1 DEF BeginAppend, LockInv
  <2>2. CASE ReadTail(p)
    BY <2>2 DEF ReadTail, LockInv
  <2>3. CASE WriteLine(p)
    BY <2>3 DEF WriteLine, LockInv
  <2>4. CASE Crash(p)
    BY <2>4 DEF Crash, Released, LockInv
  <2>5. CASE TearLine(p)
    BY <2>5 DEF TearLine, LockInv
  <2> QED
    BY <1>3, <2>1, <2>2, <2>3, <2>4, <2>5 DEF EventLog, Death
<1>4. ASSUME NEW p \in Procs, Look(p) PROVE LockInv'
  BY <1>4 DEF Look, Peek, Trusted, Mistrusted, GiveUp, LockInv
<1>5. CASE UNCHANGED vars
  BY <1>5 DEF vars, LockInv
<1> QED
  BY <1>1, <1>2, <1>3, <1>4, <1>5 DEF Next

\* The one step that changes state.json is a transaction's, on the state that is there.
LEMMA StateChange ==
    ASSUME Controllers = {}, StateTypeOK, LockInv, [Next]_vars
    PROVE  \/ UNCHANGED <<stateFile, committed>>
           \/ \E p \in Writers : /\ stateFile' = Updated(stateFile, p)
                                /\ committed' = [committed EXCEPT ![p] = @ + 1]
<1> USE StoreAssumption DEF files, history, Goto, At, Procs
<1>1. ASSUME NEW p \in Writers, Transaction(p)
      PROVE  \/ UNCHANGED <<stateFile, committed>>
             \/ /\ stateFile' = Updated(stateFile, p)
                /\ committed' = [committed EXCEPT ![p] = @ + 1]
  <2>1. CASE WriteState(p)
    BY <2>1 DEF WriteState, LockInv, Informed
  <2>2. CASE ~WriteState(p)
    BY <1>1, <2>2
       DEF Transaction, BeginTransaction, ReadState, Verified, Refused, LeaveAsItIs,
           WriteSignature
  <2> QED
    BY <2>1, <2>2
<1>2. ASSUME NEW p \in Writers, TamperHandler(p) PROVE FALSE
  BY <1>2 DEF TamperHandler, Reread, FailRun, SignFailure, LockInv
<1>3. ASSUME NEW p \in Writers, EventLog(p) \/ Death(p) PROVE UNCHANGED <<stateFile, committed>>
  BY <1>3 DEF EventLog, Death, BeginAppend, ReadTail, WriteLine, Crash, TearLine
<1>4. ASSUME NEW p \in Procs, Look(p) PROVE UNCHANGED <<stateFile, committed>>
  BY <1>4 DEF Look, Peek, Trusted, Mistrusted, GiveUp
<1>5. CASE UNCHANGED vars
  BY <1>5 DEF vars
<1> QED
  BY <1>1, <1>2, <1>3, <1>4, <1>5 DEF Next

\* Where no controller writes behind the lock, any number of processes may run transactions,
\* die in them and be refused: no update of any of them is lost.
THEOREM NoUpdateIsLost == ASSUME Controllers = {} PROVE Spec => []NoLostUpdate
<1>1. Init => LockInv /\ NoLostUpdate
  BY DEF Init, InitialState, LockInv, OneHolder, NoLostUpdate, LockedPoints, Informed
<1>2. LockInv /\ StateTypeOK /\ [Next]_vars => LockInv'
  BY LockStep
<1>3. StateTypeOK /\ LockInv /\ NoLostUpdate /\ [Next]_vars => NoLostUpdate'
  <2> SUFFICES ASSUME StateTypeOK, LockInv, NoLostUpdate, [Next]_vars
               PROVE  NoLostUpdate'
    OBVIOUS
  <2>1. CASE UNCHANGED <<stateFile, committed>>
    BY <2>1 DEF NoLostUpdate
  <2>2. ASSUME NEW p \in Writers, stateFile' = Updated(stateFile, p),
               committed' = [committed EXCEPT ![p] = @ + 1]
        PROVE  NoLostUpdate'
    BY <2>2, UpdatedType DEF NoLostUpdate, StateTypeOK
  <2> QED
    BY <2>1, <2>2, StateChange
<1> QED
  BY <1>1, <1>2, <1>3, StateTyped, PTL DEF Spec

\* Seen through state.json, the transactions of any number of processes - dying, refused or
\* done - run one after the other.
THEOREM TransactionsSerialize == ASSUME Controllers = {} PROVE Spec => TransactionsAreSerial
<1>1. Init => Serial!Init
  BY DEF Init, InitialState, Serial!Init
<1>2. Init => LockInv
  BY DEF Init, LockInv, OneHolder, LockedPoints, Informed
<1>3. LockInv /\ StateTypeOK /\ [Next]_vars => LockInv'
  BY LockStep
<1>4. StateTypeOK /\ LockInv /\ [Next]_vars => [Serial!Next]_stateFile
  BY StateChange DEF Serial!Next, Serial!Transact, Updated
<1> QED
  BY <1>1, <1>2, <1>3, <1>4, StateTyped, PTL DEF Spec, TransactionsAreSerial, Serial!Spec
-----------------------------------------------------------------------------
\* A non-empty set of indices has a largest one, and Max is it.
LEMMA MaxIsLargest ==
    ASSUME NEW n \in Nat, NEW S \in SUBSET (1 .. n), S # {}
    PROVE  Max(S) \in S /\ \A i \in S : i <= Max(S)
<1> DEFINE FromEnd == {n - i : i \in S}
<1>1. FromEnd \subseteq Nat /\ FromEnd # {}
  <2>1. \A i \in S : n - i \in Nat
    OBVIOUS
  <2>2. PICK i \in S : TRUE
    OBVIOUS
  <2>3. n - i \in FromEnd
    BY <2>2
  <2> QED
    BY <2>1, <2>3
<1>2. \E m \in FromEnd : \A k \in FromEnd : ~(<<k, m>> \in OpToRel(<, Nat))
  <2> HIDE DEF FromEnd
  <2> QED
    BY <1>1, NatLessThanWellFounded, WFMin
<1>3. PICK m \in FromEnd : \A k \in FromEnd : ~(k < m)
  BY <1>1, <1>2 DEF OpToRel
<1>4. PICK x \in S : m = n - x
  BY <1>3
<1>5. \A i \in S : x >= i
  BY <1>3, <1>4
<1> QED
  BY <1>4, <1>5 DEF Max

\* One more write at the end of the log leaves all lines but the last as they are.
LEMMA AppendedLog ==
    ASSUME events \in Seq(Lines), events # << >>, NEW line \in Lines
    PROVE  LET after == Appended(line)
               n == Len(after)
           IN  /\ after \in Seq(Lines) /\ after # << >>
               /\ n = IF LastLine.ended THEN Len(events) + 1 ELSE Len(events)
               /\ \A i \in 1 .. (n - 1) : i \in DOMAIN events /\ after[i] = events[i]
               /\ after[n].seq = line.seq
               /\ after[n].readable = (line.readable /\ LastLine.ended)
               /\ after[n].ended = line.ended
<1>1. Len(events) \in Nat \ {0} /\ LastLine \in Lines
  BY DEF LastLine
<1>2. CASE LastLine.ended
  BY <1>1, <1>2 DEF Appended, LastLine, Lines
<1>3. CASE ~LastLine.ended
  <2> DEFINE merged == [line EXCEPT !.readable = FALSE,
                                    !.shape = IF LastLine.shape = "long" THEN "long" ELSE line.shape]
  <2>1. merged \in Lines /\ merged.seq = line.seq /\ merged.readable = FALSE
        /\ merged.ended = line.ended
    BY <1>1 DEF Lines, Shapes
  <2>2. Appended(line) = [events EXCEPT ![Len(events)] = merged]
    BY <1>3 DEF Appended, LastLine
  <2>3. /\ Appended(line) \in Seq(Lines)
        /\ Len(Appended(line)) = Len(events)
        /\ \A i \in 1 .. Len(events) :
              Appended(line)[i] = IF i = Len(events) THEN merged ELSE events[i]
    <3> HIDE DEF merged
    <3> QED
      BY <1>1, <2>1, <2>2
  <2>4. Appended(line)[Len(events)] = merged
    BY <1>1, <2>3
  <2>5. \A i \in 1 .. (Len(events) - 1) : Appended(line)[i] = events[i]
    BY <1>1, <2>3
  <2>6. Appended(line) # << >>
    BY <1>1, <2>3
  <2>7. Appended(line)[Len(events)].readable = (line.readable /\ LastLine.ended)
    BY <1>3, <2>1, <2>4
  <2>8. /\ Appended(line)[Len(events)].seq = line.seq
        /\ Appended(line)[Len(events)].ended = line.ended
    BY <2>1, <2>4
  <2>9. \A i \in 1 .. (Len(events) - 1) : i \in DOMAIN events
    BY <1>1
  <2> HIDE DEF merged
  <2> QED
    BY <1>1, <1>3, <2>3, <2>5, <2>6, <2>7, <2>8, <2>9
<1> QED
  BY <1>1, <1>2, <1>3 DEF Lines

\* What _last_seq finds is the number of a line of the log, or zero.
LEMMA LastSeqType ==
    ASSUME LogTypeOK
    PROVE  LastSeq \in Nat
<1>1. NumberedInTail \in SUBSET (1 .. Len(events)) /\ Len(events) \in Nat
  BY DEF NumberedInTail, InTail, LogTypeOK
<1>2. CASE NumberedInTail = {}
  BY <1>2 DEF LastSeq
<1>3. CASE NumberedInTail # {}
  <2>1. Max(NumberedInTail) \in 1 .. Len(events)
    BY <1>1, <1>3, MaxIsLargest
  <2>2. events[Max(NumberedInTail)] \in Lines
    BY <2>1 DEF LogTypeOK
  <2> QED
    BY <1>3, <2>2 DEF LastSeq, Lines
<1> QED
  BY <1>2, <1>3

\* The log changes in two ways: a process that is about to append writes its line, or dies
\* in the middle of it.
LEMMA AppendStep ==
    ASSUME StateTypeOK, LogTypeOK, NEW p \in Writers, WriteLine(p) \/ TearLine(p)
    PROVE  \E line \in Lines :
               /\ events' = Appended(line)
               /\ At(p, "append") /\ line.seq = nextSeq[p]
               /\ line.readable = line.ended
               /\ returned' = IF line.ended THEN returned + 1 ELSE returned
               /\ torn' = IF line.ended THEN torn ELSE torn + 1
               /\ nextSeq' = nextSeq /\ Goto(p, "idle")
<1> USE StoreAssumption DEF Lines
<1>1. nextSeq[p] \in Nat
  BY DEF LogTypeOK, Procs
<1>2. CASE WriteLine(p)
  <2>1. PICK shape \in Shapes :
            events' = Appended([seq |-> nextSeq[p], shape |-> shape, readable |-> TRUE, ended |-> TRUE])
    BY <1>2 DEF WriteLine
  <2>2. [seq |-> nextSeq[p], shape |-> shape, readable |-> TRUE, ended |-> TRUE] \in Lines
    BY <1>1
  <2> QED
    BY <1>2, <2>1, <2>2 DEF WriteLine
<1>3. CASE TearLine(p)
  <2>1. PICK shape \in {"short", "long"} :
            events' = Appended([seq |-> nextSeq[p], shape |-> shape, readable |-> FALSE, ended |-> FALSE])
    BY <1>3 DEF TearLine
  <2>2. [seq |-> nextSeq[p], shape |-> shape, readable |-> FALSE, ended |-> FALSE] \in Lines
    BY <1>1 DEF Shapes
  <2> QED
    BY <1>3, <2>1, <2>2 DEF TearLine
<1> QED
  BY <1>2, <1>3

\* Every other step leaves the log and its counters alone.
LEMMA LogChange ==
    ASSUME [Next]_vars
    PROVE  \/ UNCHANGED <<events, returned, torn>>
           \/ \E p \in Writers : WriteLine(p) \/ TearLine(p)
<1> USE DEF files, history
<1>1. ASSUME NEW p \in Writers, Transaction(p) \/ TamperHandler(p)
      PROVE  UNCHANGED <<events, returned, torn>>
  BY <1>1
     DEF Transaction, BeginTransaction, ReadState, Verified, Refused, LeaveAsItIs, WriteState,
         WriteSignature, TamperHandler, Reread, FailRun, SignFailure
<1>2. ASSUME NEW p \in Writers, EventLog(p) \/ Death(p), ~WriteLine(p), ~TearLine(p)
      PROVE  UNCHANGED <<events, returned, torn>>
  BY <1>2 DEF EventLog, Death, BeginAppend, ReadTail, Crash
<1>3. ASSUME NEW p \in Procs, Look(p) PROVE UNCHANGED <<events, returned, torn>>
  BY <1>3 DEF Look, Peek, Trusted, Mistrusted, GiveUp
<1>4. CASE UNCHANGED vars
  BY <1>4 DEF vars
<1> QED
  BY <1>1, <1>2, <1>3, <1>4 DEF Next

\* Every step keeps the log and the numbers that are about to be written in their types.
LEMMA LogTypeStep == StateTypeOK /\ LogTypeOK /\ [Next]_vars => LogTypeOK'
<1> SUFFICES ASSUME StateTypeOK, LogTypeOK, [Next]_vars
             PROVE  LogTypeOK'
  OBVIOUS
<1>1. ASSUME NEW p \in Writers, WriteLine(p) \/ TearLine(p) PROVE LogTypeOK'
  <2>1. PICK line \in Lines :
            /\ events' = Appended(line) /\ nextSeq' = nextSeq
            /\ returned' = IF line.ended THEN returned + 1 ELSE returned
            /\ torn' = IF line.ended THEN torn ELSE torn + 1
    BY <1>1, AppendStep
  <2>2. events' \in Seq(Lines) /\ events' # << >>
    BY <2>1, AppendedLog DEF LogTypeOK
  <2>3. halfSigned' \in Nat /\ crashes' \in Nat
    BY <1>1 DEF WriteLine, TearLine, LogTypeOK
  <2> QED
    BY <2>1, <2>2, <2>3 DEF LogTypeOK
<1>2. ASSUME NEW p \in Writers, ReadTail(p) PROVE LogTypeOK'
  BY <1>2, LastSeqType DEF ReadTail, LogTypeOK, files, history, Procs
<1>3. ASSUME NEW p \in Writers, Crash(p) PROVE LogTypeOK'
  BY <1>3 DEF Crash, LogTypeOK, files
<1>4. ASSUME NEW p \in Writers, Transaction(p) \/ TamperHandler(p) \/ BeginAppend(p)
      PROVE  LogTypeOK'
  BY <1>4
     DEF Transaction, BeginTransaction, ReadState, Verified, Refused, LeaveAsItIs, WriteState,
         WriteSignature, TamperHandler, Reread, FailRun, SignFailure, BeginAppend,
         LogTypeOK, files, history
<1>5. ASSUME NEW p \in Procs, Look(p) PROVE LogTypeOK'
  BY <1>5 DEF Look, Peek, Trusted, Mistrusted, GiveUp, LogTypeOK, files, history
<1>6. CASE UNCHANGED vars
  BY <1>6 DEF vars, LogTypeOK
<1> QED
  BY <1>1, <1>2, <1>3, <1>4, <1>5, <1>6 DEF Next, EventLog, Death

\* The files, the lock, the log and what every process knows of them keep their types,
\* whoever dies, is refused or fails the run.
THEOREM StoreTyped == Spec => []TypeOK
<1>1. Init => LogTypeOK
  BY DEF Init, FirstLine, Lines, Shapes, LogTypeOK
<1>2. Init => StateTypeOK
  BY DEF Init, InitialState, States, StateTypeOK, LockedPoints, OpenPoints
<1> QED
  BY <1>1, <1>2, LogTypeStep, StateTypeStep, PTL DEF Spec, TypeOK
-----------------------------------------------------------------------------
\* Whoever works under the lock works alone, tamper handlers included.
LEMMA OneHolderStep == StateTypeOK /\ OneHolder /\ [Next]_vars => OneHolder'
<1> SUFFICES ASSUME StateTypeOK, OneHolder, [Next]_vars
             PROVE  OneHolder'
  OBVIOUS
<1> USE StoreAssumption DEF files, history, Goto, At, LockedPoints, StateTypeOK, Procs, OneHolder
<1>1. ASSUME NEW p \in Writers, Transaction(p) PROVE OneHolder'
  BY <1>1
     DEF Transaction, BeginTransaction, ReadState, Verified, Refused, LeaveAsItIs, WriteState,
         WriteSignature
<1>2. ASSUME NEW p \in Writers, TamperHandler(p) PROVE OneHolder'
  BY <1>2 DEF TamperHandler, Reread, FailRun, SignFailure
<1>3. ASSUME NEW p \in Writers, EventLog(p) \/ Death(p) PROVE OneHolder'
  BY <1>3 DEF EventLog, Death, BeginAppend, ReadTail, WriteLine, Crash, Released, TearLine
<1>4. ASSUME NEW p \in Procs, Look(p) PROVE OneHolder'
  BY <1>4 DEF Look, Peek, Trusted, Mistrusted, GiveUp
<1>5. CASE UNCHANGED vars
  BY <1>5 DEF vars
<1> QED
  BY <1>1, <1>2, <1>3, <1>4, <1>5 DEF Next

\* The lines of the log are finitely many.
LEMMA LinesAreFinite ==
    ASSUME LogTypeOK
    PROVE  /\ Len(events) \in Nat \ {0} /\ DOMAIN events = 1 .. Len(events)
           /\ ReadableLines \in SUBSET (1 .. Len(events))
           /\ IsFiniteSet(ReadableLines) /\ Cardinality(ReadableLines) \in Nat
<1>1. Len(events) \in Nat \ {0} /\ DOMAIN events = 1 .. Len(events)
  BY DEF LogTypeOK
<1>2. ReadableLines \in SUBSET (1 .. Len(events))
  BY <1>1 DEF ReadableLines
<1>3. IsFiniteSet(1 .. Len(events))
  BY <1>1, FS_Interval
<1> QED
  BY <1>1, <1>2, <1>3, FS_Subset, FS_CardinalityType

\* What an append makes of the lines that a reader can parse.
LEMMA ReadableAfter ==
    ASSUME LogTypeOK, LossInv, NEW line \in Lines, events' = Appended(line)
    PROVE  LET read == line.readable /\ LastLine.ended
           IN  /\ ReadableLines' = IF read THEN ReadableLines \cup {Len(events')}
                                           ELSE ReadableLines
               /\ Len(events') \notin ReadableLines
<1> DEFINE n == Len(events')
<1>1. /\ events' \in Seq(Lines) /\ events' # << >>
      /\ n = IF LastLine.ended THEN Len(events) + 1 ELSE Len(events)
      /\ \A i \in 1 .. (n - 1) : i \in DOMAIN events /\ events'[i] = events[i]
      /\ events'[n].readable = (line.readable /\ LastLine.ended)
  BY AppendedLog DEF LogTypeOK
<1>2. Len(events) \in Nat \ {0} /\ DOMAIN events = 1 .. Len(events) /\ n \in Nat \ {0}
      /\ DOMAIN events' = 1 .. n
  BY <1>1 DEF LogTypeOK
<1>3. ~LastLine.ended => ~events[n].readable
  BY <1>1, <1>2 DEF LossInv, LastLine
<1>4. \A i \in 1 .. (n - 1) : events'[i].readable = events[i].readable
  BY <1>1
<1>5. DOMAIN events' = (1 .. (n - 1)) \cup {n}
  BY <1>2
<1>6. DOMAIN events = IF LastLine.ended THEN 1 .. (n - 1) ELSE (1 .. (n - 1)) \cup {n}
  <2>1. CASE LastLine.ended
    BY <1>1, <1>2, <2>1
  <2>2. CASE ~LastLine.ended
    BY <1>1, <1>2, <2>2
  <2> QED
    BY <2>1, <2>2
<1>7. n \notin 1 .. (n - 1)
  BY <1>2
<1>8. events'[n].readable <=> line.readable /\ LastLine.ended
  BY <1>1
<1> HIDE DEF n
<1> QED
  BY <1>3, <1>4, <1>5, <1>6, <1>7, <1>8 DEF ReadableLines, n

\* Every step pays for the line that is lost with one that was torn.
LEMMA LossStep == StateTypeOK /\ LogTypeOK /\ LossInv /\ [Next]_vars => LossInv'
<1> SUFFICES ASSUME StateTypeOK, LogTypeOK, LossInv, [Next]_vars
             PROVE  LossInv'
  OBVIOUS
<1>1. CASE UNCHANGED <<events, returned, torn>>
  BY <1>1 DEF LossInv, LastLine, ReadableLines
<1>2. ASSUME NEW p \in Writers, WriteLine(p) \/ TearLine(p) PROVE LossInv'
  <2>1. PICK line \in Lines :
            /\ events' = Appended(line)
            /\ line.readable = line.ended
            /\ returned' = IF line.ended THEN returned + 1 ELSE returned
            /\ torn' = IF line.ended THEN torn ELSE torn + 1
    BY <1>2, AppendStep
  <2> DEFINE n == Len(events')
             read == line.readable /\ LastLine.ended
  <2>2. /\ events' \in Seq(Lines) /\ events' # << >>
        /\ \A i \in 1 .. (n - 1) : i \in DOMAIN events /\ events'[i] = events[i]
        /\ events'[n].readable = read /\ events'[n].ended = line.ended
    BY <2>1, AppendedLog DEF LogTypeOK
  <2>3. /\ ReadableLines' = IF read THEN ReadableLines \cup {n} ELSE ReadableLines
        /\ n \notin ReadableLines
    BY <2>1, ReadableAfter
  <2>4. Cardinality(ReadableLines') =
            IF read THEN Cardinality(ReadableLines) + 1 ELSE Cardinality(ReadableLines)
    BY <2>3, LinesAreFinite, FS_AddElement
  <2>5. n \in Nat \ {0} /\ DOMAIN events' = 1 .. n
    BY <2>2
  <2>6. \A i \in DOMAIN events' : ~events'[i].ended => ~events'[i].readable
    <3>1. ~events'[n].ended => ~events'[n].readable
      BY <2>1, <2>2
    <3>2. \A i \in 1 .. (n - 1) : ~events'[i].ended => ~events'[i].readable
      BY <2>2 DEF LossInv
    <3> QED
      BY <2>5, <3>1, <3>2
  <2>7. LastLine' = events'[n]
    BY DEF LastLine
  <2>8. returned' + (IF line.ended THEN 0 ELSE 1) <= Cardinality(ReadableLines') + torn'
    <3>1. /\ returned \in Nat /\ torn \in Nat /\ Cardinality(ReadableLines) \in Nat
          /\ returned + (IF LastLine.ended THEN 0 ELSE 1) <= Cardinality(ReadableLines) + torn
      BY LinesAreFinite DEF LossInv, LogTypeOK
    <3>2. CASE line.ended
      BY <2>1, <2>4, <3>1, <3>2
    <3>3. CASE ~line.ended
      BY <2>1, <2>4, <3>1, <3>3
    <3> QED
      BY <3>2, <3>3
  <2> QED
    BY <2>2, <2>6, <2>7, <2>8 DEF LossInv
<1> QED
  BY <1>1, <1>2, LogChange

\* Nothing is lost at first.
LEMMA LossInit == Init => LossInv
<1> SUFFICES ASSUME Init PROVE LossInv
  OBVIOUS
<1>1. events = <<FirstLine>> /\ Len(events) = 1 /\ DOMAIN events = {1}
      /\ events[1] = FirstLine /\ returned = 1 /\ torn = 0
  BY DEF Init
<1>2. FirstLine.readable = TRUE /\ FirstLine.ended = TRUE
  BY DEF FirstLine
<1>3. ReadableLines = {1}
  BY <1>1, <1>2 DEF ReadableLines
<1>4. Cardinality(ReadableLines) = 1
  BY <1>3, FS_Singleton
<1> QED
  BY <1>1, <1>2, <1>4 DEF LossInv, LastLine

\* Of the appends that returned at most as many are missing from the log as lines were torn,
\* for any number of processes that append and die.
THEOREM LossesAreTorn == Spec => []LossIsTorn
<1>1. Init => LossInv
  BY LossInit
<1>2. StateTypeOK /\ LogTypeOK /\ LossInv /\ [Next]_vars => LossInv'
  BY LossStep
<1>3. LogTypeOK /\ LossInv => LossIsTorn
  BY LinesAreFinite DEF LossInv, LossIsTorn, LogTypeOK
<1> QED
  BY <1>1, <1>2, <1>3, StoreTyped, PTL DEF Spec, TypeOK
-----------------------------------------------------------------------------
\* What was in sight at a line was in sight at the lines before it.
LEMMA SightedBefore ==
    ASSUME NEW i \in Nat, NEW j \in Nat, NEW k \in Nat, k <= j, Sighted(i, j)
    PROVE  Sighted(i, k)
BY DEF Sighted

\* Of the lines in its sight, _last_seq finds no smaller number than any of them has.
LEMMA LastSeqInSight ==
    ASSUME LogTypeOK, NumbersGrowInSight, NEW i \in ReadableLines, Sighted(i, Len(events) + 1)
    PROVE  events[i].seq <= LastSeq
<1> DEFINE n == Len(events)
<1>1. n \in Nat \ {0} /\ DOMAIN events = 1 .. n /\ i \in 1 .. n
  BY LinesAreFinite
<1>2. PICK seenLine \in i .. n : n - seenLine < TailLines /\ seenLine \in Numbered
  BY <1>1 DEF Sighted
<1>3. \A k \in i .. n : events[k].shape # "long"
  BY <1>1 DEF Sighted
<1>4. NumberedInTail \in SUBSET (1 .. n)
  BY <1>1 DEF NumberedInTail, InTail
<1>5. seenLine \in NumberedInTail
  BY <1>1, <1>2, <1>3 DEF NumberedInTail, InTail
<1> DEFINE m == Max(NumberedInTail)
<1>6. m \in NumberedInTail /\ seenLine <= m
  BY <1>1, <1>4, <1>5, MaxIsLargest
<1>7. LastSeq = events[m].seq
  BY <1>5 DEF LastSeq
<1> HIDE DEF m
<1>8. m \in 1 .. n /\ i <= m /\ m \in ReadableLines
  BY <1>1, <1>2, <1>4, <1>6 DEF NumberedInTail, Numbered, ReadableLines
<1>9. events[i].seq \in Nat /\ events[m].seq \in Nat
  <2>1. events[i] \in Lines /\ events[m] \in Lines
    BY <1>1, <1>8 DEF LogTypeOK
  <2> QED
    BY <2>1 DEF Lines
<1>10. CASE i = m
  BY <1>7, <1>9, <1>10
<1>11. CASE i < m
  <2>1. Sighted(i, m)
    BY <1>1, <1>8, SightedBefore
  <2> QED
    BY <1>7, <1>8, <1>9, <1>11, <2>1 DEF NumbersGrowInSight
<1> QED
  BY <1>1, <1>8, <1>10, <1>11

\* A process comes to the end of the log by looking up the last number, and keeps what it
\* has found.
LEMMA AppendIsPrepared ==
    ASSUME StateTypeOK, [Next]_vars, ~\E q \in Writers : ReadTail(q),
           NEW p \in Procs, At(p, "append")'
    PROVE  At(p, "append") /\ nextSeq' = nextSeq
<1> USE DEF At, Goto, StateTypeOK, files, history
<1>1. ASSUME NEW q \in Writers, Transaction(q) \/ TamperHandler(q)
      PROVE  At(p, "append") /\ nextSeq' = nextSeq
  BY <1>1
     DEF Transaction, BeginTransaction, ReadState, Verified, Refused, LeaveAsItIs, WriteState,
         WriteSignature, TamperHandler, Reread, FailRun, SignFailure
<1>2. ASSUME NEW q \in Writers, EventLog(q) \/ Death(q)
      PROVE  At(p, "append") /\ nextSeq' = nextSeq
  BY <1>2 DEF EventLog, Death, BeginAppend, WriteLine, Crash, TearLine
<1>3. ASSUME NEW q \in Procs, Look(q) PROVE At(p, "append") /\ nextSeq' = nextSeq
  BY <1>3 DEF Look, Peek, Trusted, Mistrusted, GiveUp
<1>4. CASE UNCHANGED vars
  BY <1>4 DEF vars
<1> QED
  BY <1>1, <1>2, <1>3, <1>4 DEF Next

\* What is in sight depends on the lines that were there.
LEMMA SameSight ==
    ASSUME NEW n \in Nat, \A k \in 1 .. (n - 1) : k \in DOMAIN events /\ events'[k] = events[k],
           n \in Nat, DOMAIN events' = 1 .. n,
           NEW i \in Nat \ {0}, NEW j \in Nat, j <= n, Sighted(i, j)'
    PROVE  Sighted(i, j)
<1> SUFFICES ASSUME NEW k \in i .. j - 1
             PROVE  /\ events[k].shape # "long"
                    /\ \E m \in i .. k : k - m < TailLines /\ m \in Numbered
  BY DEF Sighted
<1>1. /\ events'[k].shape # "long"
      /\ \E m \in i .. k : k - m < TailLines /\ m \in Numbered'
  BY DEF Sighted
<1>2. PICK m \in i .. k : k - m < TailLines /\ m \in Numbered'
  BY <1>1
<1>3. k \in 1 .. (n - 1) /\ m \in 1 .. (n - 1)
  BY <1>2
<1> QED
  BY <1>1, <1>2, <1>3 DEF Numbered

\* Every step keeps the numbers growing as far as _last_seq sees: the writer holds the lock from
\* the moment it has looked up the last number.
LEMMA NumberingStep ==
    ASSUME StateTypeOK, LogTypeOK, OneHolder, LossInv, NumberingInv, [Next]_vars
    PROVE  NumberingInv'
<1> USE DEF At, Goto
<1>1. CASE UNCHANGED <<events, returned, torn>>
  <2>1. \A i, j : Sighted(i, j)' <=> Sighted(i, j)
    BY <1>1 DEF Sighted, Numbered
  <2>2. ReadableLines' = ReadableLines
    BY <1>1 DEF ReadableLines
  <2>3. NumbersGrowInSight'
    BY <1>1, <2>1, <2>2 DEF NumberingInv, NumbersGrowInSight
  <2>4. ASSUME NEW p \in Procs, At(p, "append")', NEW i \in ReadableLines,
               Sighted(i, Len(events) + 1)
        PROVE  events[i].seq < nextSeq'[p]
    <3>1. CASE \E q \in Writers : ReadTail(q)
      <4>1. PICK q \in Writers : ReadTail(q)
        BY <3>1
      <4>2. CASE p = q
        <5>1. nextSeq'[p] = LastSeq + 1
          BY <4>1, <4>2 DEF ReadTail, LogTypeOK, Procs
        <5>2. events[i].seq \in Nat /\ LastSeq \in Nat /\ events[i].seq <= LastSeq
          <6>1. events[i] \in Lines
            BY <2>4 DEF ReadableLines, LogTypeOK
          <6> QED
            BY <2>4, <6>1, LastSeqType, LastSeqInSight DEF Lines, NumberingInv
        <5> QED
          BY <5>1, <5>2
      <4>3. CASE p # q
        BY <2>4, <4>1, <4>3 DEF ReadTail, NumberingInv, LogTypeOK, StateTypeOK
      <4> QED
        BY <4>2, <4>3
    <3>2. CASE ~\E q \in Writers : ReadTail(q)
      <4>1. At(p, "append") /\ nextSeq' = nextSeq
        BY <1>1, <2>4, <3>2, AppendIsPrepared
      <4> QED
        BY <2>4, <4>1 DEF NumberingInv
    <3> QED
      BY <3>1, <3>2
  <2> QED
    BY <1>1, <2>1, <2>2, <2>3, <2>4 DEF NumberingInv
<1>2. ASSUME NEW p \in Writers, WriteLine(p) \/ TearLine(p) PROVE NumberingInv'
  <2>1. PICK line \in Lines :
            /\ events' = Appended(line)
            /\ At(p, "append") /\ line.seq = nextSeq[p]
            /\ line.readable = line.ended
            /\ nextSeq' = nextSeq /\ Goto(p, "idle")
    BY <1>2, AppendStep
  <2> DEFINE n == Len(events')
             read == line.readable /\ LastLine.ended
  <2>2. /\ events' \in Seq(Lines) /\ events' # << >>
        /\ \A i \in 1 .. (n - 1) : i \in DOMAIN events /\ events'[i] = events[i]
        /\ events'[n].seq = line.seq
        /\ n = IF LastLine.ended THEN Len(events) + 1 ELSE Len(events)
    BY <2>1, AppendedLog DEF LogTypeOK
  <2>3. /\ ReadableLines' = IF read THEN ReadableLines \cup {n} ELSE ReadableLines
        /\ n \notin ReadableLines
    BY <2>1, ReadableAfter
  <2>4. n \in Nat \ {0} /\ DOMAIN events' = 1 .. n
    BY <2>2
  <2>5. ReadableLines \in SUBSET (1 .. (n - 1))
    <3>1. ReadableLines \subseteq 1 .. n
      BY <2>2, <2>4, LinesAreFinite
    <3> QED
      BY <2>3, <2>4, <3>1
  <2>6. ASSUME NEW i \in ReadableLines', NEW j \in ReadableLines', i < j, Sighted(i, j)'
        PROVE  events'[i].seq < events'[j].seq
    <3>1. i \in Nat \ {0} /\ j \in Nat /\ j <= n /\ i \in 1 .. (n - 1)
      <4>1. i \in 1 .. n /\ j \in 1 .. n
        BY <2>4, <2>6 DEF ReadableLines
      <4> HIDE DEF n
      <4> QED
        BY <2>4, <2>6, <4>1
    <3>2. Sighted(i, j)
      BY <2>2, <2>4, <2>6, <3>1, SameSight
    <3>3. i \in ReadableLines
      <4>1. i # n
        <5> HIDE DEF n
        <5> QED
          BY <2>4, <3>1
      <4> QED
        BY <2>3, <2>6, <4>1
    <3>4. CASE j \in ReadableLines
      BY <2>2, <2>5, <2>6, <3>2, <3>3, <3>4 DEF NumberingInv, NumbersGrowInSight
    <3>5. CASE j \notin ReadableLines
      <4>1. j = n /\ LastLine.ended /\ n = Len(events) + 1
        BY <2>2, <2>3, <2>6, <3>5
      <4>2. events[i].seq < nextSeq[p]
        BY <2>1, <3>2, <3>3, <4>1 DEF NumberingInv, Procs
      <4> QED
        BY <2>1, <2>2, <3>1, <4>1, <4>2
    <3> QED
      BY <3>4, <3>5
  <2>7. ASSUME NEW q \in Procs, At(q, "append")' PROVE FALSE
    BY <2>1, <2>7 DEF OneHolder, LockedPoints, StateTypeOK, Procs
  <2> HIDE DEF n, read
  <2> QED
    BY <2>6, <2>7 DEF NumberingInv, NumbersGrowInSight
<1> QED
  BY <1>1, <1>2, LogChange

\* As far as _last_seq sees, every readable line of the log has a larger number than those
\* before it: for any number of processes that append, die and tear lines, lines of any shape,
\* and with tamper handlers that write the state behind the lock.
THEOREM NumbersGrow == Spec => []NumbersGrowInSight
<1>1. Init => OneHolder /\ LossInv /\ NumberingInv
  <2> SUFFICES ASSUME Init PROVE OneHolder /\ LossInv /\ NumberingInv
    OBVIOUS
  <2>1. events = <<FirstLine>> /\ DOMAIN events = {1}
    BY DEF Init
  <2>2. ReadableLines \subseteq {1}
    BY <2>1 DEF ReadableLines
  <2>3. OneHolder /\ \A p \in Procs : ~At(p, "append")
    BY DEF Init, OneHolder, LockedPoints, At
  <2> QED
    BY <2>2, <2>3, LossInit DEF NumberingInv, NumbersGrowInSight
<1>2. StateTypeOK /\ OneHolder /\ [Next]_vars => OneHolder'
  BY OneHolderStep
<1>3. StateTypeOK /\ LogTypeOK /\ LossInv /\ [Next]_vars => LossInv'
  BY LossStep
<1>4. StateTypeOK /\ LogTypeOK /\ OneHolder /\ LossInv /\ NumberingInv /\ [Next]_vars
          => NumberingInv'
  BY NumberingStep
<1>5. NumberingInv => NumbersGrowInSight
  BY DEF NumberingInv
<1> QED
  BY <1>1, <1>2, <1>3, <1>4, <1>5, StoreTyped, PTL DEF Spec, TypeOK
-----------------------------------------------------------------------------
\* The signature of a state that nobody died over is there, or the holder of the lock is
\* about to write it.
LEMMA SignatureStep ==
    ASSUME Controllers = {}, TypeOK, LockInv, SignatureInv, [Next]_vars
    PROVE  SignatureInv'
<1> USE StoreAssumption
    DEF files, history, Goto, At, LockedPoints, Informed, OneHolder, TypeOK, StateTypeOK,
        LogTypeOK, Procs, SignatureInv
<1>1. ASSUME NEW p \in Writers, Transaction(p) PROVE SignatureInv'
  <2>1. CASE BeginTransaction(p)
    BY <2>1 DEF BeginTransaction
  <2>2. CASE ReadState(p)
    BY <2>2 DEF ReadState, LockInv
  <2>3. CASE Verified(p)
    BY <2>3 DEF Verified, LockInv
  <2>4. CASE Refused(p)
    BY <2>4 DEF Refused, LockInv
  <2>5. CASE LeaveAsItIs(p)
    BY <2>5 DEF LeaveAsItIs, LockInv
  <2>6. CASE WriteState(p)
    BY <2>6 DEF WriteState, LockInv
  <2>7. CASE WriteSignature(p)
    BY <2>7 DEF WriteSignature, LockInv
  <2> QED
    BY <1>1, <2>1, <2>2, <2>3, <2>4, <2>5, <2>6, <2>7 DEF Transaction
<1>2. ASSUME NEW p \in Writers, TamperHandler(p) PROVE FALSE
  BY <1>2 DEF TamperHandler, Reread, FailRun, SignFailure, LockInv
<1>3. ASSUME NEW p \in Writers, EventLog(p) \/ Death(p) PROVE SignatureInv'
  <2>1. CASE BeginAppend(p)
    BY <2>1 DEF BeginAppend
  <2>2. CASE ReadTail(p)
    BY <2>2 DEF ReadTail, LockInv
  <2>3. CASE WriteLine(p)
    BY <2>3 DEF WriteLine, LockInv
  <2>4. CASE Crash(p)
    BY <2>4 DEF Crash, Released, LockInv
  <2>5. CASE TearLine(p)
    BY <2>5 DEF TearLine, LockInv
  <2> QED
    BY <1>3, <2>1, <2>2, <2>3, <2>4, <2>5 DEF EventLog, Death
<1>4. ASSUME NEW p \in Procs, Look(p) PROVE SignatureInv'
  BY <1>4 DEF Look, Peek, Trusted, Mistrusted, GiveUp
<1>5. CASE UNCHANGED vars
  BY <1>5 DEF vars
<1> QED
  BY <1>1, <1>2, <1>3, <1>4, <1>5 DEF Next

\* Where no controller writes behind the lock, a transaction is refused only after a process
\* died between state.json and state.sig, however many processes look and write.
THEOREM OnlyCrashesAreRefused == ASSUME Controllers = {} PROVE Spec => []RefusalMeansCrash
<1>1. Init => LockInv /\ SignatureInv
  BY DEF Init, InitialState, LockInv, OneHolder, LockedPoints, Informed, SignatureInv, At
<1>2. LockInv /\ StateTypeOK /\ [Next]_vars => LockInv'
  BY LockStep
<1>3. TypeOK /\ LockInv /\ SignatureInv /\ [Next]_vars => SignatureInv'
  BY SignatureStep
<1>4. TypeOK /\ SignatureInv => RefusalMeansCrash
  BY DEF TypeOK, LogTypeOK, SignatureInv, RefusalMeansCrash, Procs
<1> QED
  BY <1>1, <1>2, <1>3, <1>4, StoreTyped, PTL DEF Spec, TypeOK
=============================================================================
