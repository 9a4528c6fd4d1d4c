--------------------------- MODULE Session_proofs ---------------------------
(***************************************************************************)
(* Proofs about Session, for every set of kinds, every retry limit, every  *)
(* turn limit and every bound.  Each property has its own strengthening;   *)
(* all of them rest on the type invariant.                                 *)
(***************************************************************************)
EXTENDS Session, TLAPS

\* What the locals of a call hold before anything happens has its type.
LEMMA InitialRecords ==
    /\ NoKind \in KindRecords
    /\ NoFlags \in [guard : BOOLEAN, dispatch : BOOLEAN, cap : BOOLEAN]
    /\ NoEnd \in Ends
    /\ "none" \in Terminals
    /\ "none" \in Results
BY DEF NoKind, KindRecords, NoFlags, NoEnd, Ends, Terminals, Results

\* Whatever the reason for a retry, its limit is one of the four.
LEMMA RetryLimitIsKnown == RetryLimit \in RetryLimits
BY DEF RetryLimit, RetryLimits

LEMMA RetryLimitsAreNatural == RetryLimits \subseteq Nat
BY SessionAssumption DEF RetryLimits

-----------------------------------------------------------------------------
(* Types *)

LEMMA TypeInit == Init => TypeInv
<1> SUFFICES ASSUME Init PROVE TypeInv
  OBVIOUS
<1>1. result \in Results /\ terminal \in Terminals /\ out \in Ends /\ kind \in KindRecords
  BY InitialRecords DEF Init
<1>2. /\ attempts = 0 /\ open = {} /\ known = {} /\ alive = {} /\ unrecorded = {}
      /\ pc = "idle" /\ flags = NoFlags
  BY DEF Init
<1>3. /\ stopFile \in BOOLEAN /\ interrupted \in BOOLEAN /\ failedOver \in BOOLEAN
      /\ tries \in Nat /\ stalls \in Nat /\ turns \in Nat
      /\ sessions \in Nat /\ crashes \in Nat /\ here \in Nat /\ turnsHere \in Nat
      /\ afterStop \in Nat
  BY DEF Init
<1> QED BY <1>1, <1>2, <1>3, InitialRecords DEF TypeInv, TypeOK, PCs

LEMMA OutcomeIsKnown == ASSUME TypeOK PROVE Outcome \in Results
<1>1. out.interrupted \in BOOLEAN
  BY DEF TypeOK, Ends
<1> QED BY <1>1 DEF TypeOK, Outcome, Results, Terminals

LEMMA FlagsLeftTyped ==
    ASSUME TypeOK
    PROVE  FlagsLeft \in [guard : BOOLEAN, dispatch : BOOLEAN, cap : BOOLEAN]
BY DEF TypeOK, FlagsLeft

LEMMA BeginTyped == ASSUME TypeInv, Begin PROVE TypeInv'
<1>1. CASE RefuseLaunch
  BY <1>1 DEF RefuseLaunch, Ready, TypeInv, TypeOK, Results, Terminals, registry, locals, history
<1>2. CASE Launch
  <2>1. kind' \in KindRecords
    BY <1>2, SessionAssumption DEF Launch
  <2>2. /\ attempts' \in Nat
        /\ open' \subseteq 1..attempts' /\ known' \subseteq 1..attempts'
        /\ alive' \subseteq 1..attempts' /\ unrecorded' \subseteq 1..attempts'
        /\ attempts' > 0
    BY <1>2 DEF Launch, Register, TypeInv, TypeOK
  <2>3. result' \in Results /\ terminal' \in Terminals /\ out' \in Ends
    BY <1>2, InitialRecords DEF Launch
  <2>4. flags' \in [guard : BOOLEAN, dispatch : BOOLEAN, cap : BOOLEAN]
    BY <1>2, InitialRecords DEF Launch
  <2>5. stopFile' \in BOOLEAN /\ interrupted' \in BOOLEAN /\ failedOver' \in BOOLEAN
    BY <1>2, Zenon DEF Launch, TypeInv, TypeOK
  <2>7. /\ tries' \in Nat /\ stalls' \in Nat /\ turns' \in Nat
        /\ sessions' \in Nat /\ crashes' \in Nat /\ here' \in Nat /\ turnsHere' \in Nat
        /\ afterStop' \in Nat
    BY <1>2 DEF Launch, TypeInv, TypeOK
  <2>6. pc' \in PCs
    BY <1>2 DEF Launch, Register, Goto, PCs
  <2> QED BY <2>1, <2>2, <2>3, <2>4, <2>5, <2>6, <2>7 DEF TypeInv, TypeOK
<1> QED BY <1>1, <1>2 DEF Begin

LEMMA AttemptTyped == ASSUME TypeInv, Attempt PROVE TypeInv'
<1>1. CASE InterruptedBeforeStart
  BY <1>1, InitialRecords DEF InterruptedBeforeStart, TypeInv, TypeOK, Forget, Goto, PCs,
     Results, Terminals, registry, history
<1>2. CASE ServerFails
  BY <1>2, InitialRecords DEF ServerFails, TypeInv, TypeOK, Forget, Goto, PCs, Results,
     Terminals, registry, history
<1>3. CASE StartProcess
  BY <1>3 DEF StartProcess, TypeInv, TypeOK, Goto, PCs, registry, locals
<1>4. CASE RecordStart
  BY <1>4 DEF RecordStart, TypeInv, TypeOK, Goto, PCs, locals, history
<1>5. CASE AttemptEnds
  BY <1>5 DEF AttemptEnds, TypeInv, TypeOK, Goto, PCs, registry, history
<1> QED BY <1>1, <1>2, <1>3, <1>4, <1>5 DEF Attempt

LEMMA JudgeTyped == ASSUME TypeInv, Judge PROVE TypeInv'
<1>1. CASE ProviderRefuses
  BY <1>1 DEF ProviderRefuses, TypeInv, TypeOK, Goto, PCs, Terminals, registry, history
<1>2. CASE StallsAgain
  BY <1>2 DEF StallsAgain, TypeInv, TypeOK, Goto, PCs, Terminals, registry, history
<1>3. CASE RoundOver
  BY <1>3 DEF RoundOver, TypeInv, TypeOK, Goto, PCs, Terminals, registry, history
<1>4. CASE RetryVetoed
  <2>1. flags' \in [guard : BOOLEAN, dispatch : BOOLEAN, cap : BOOLEAN]
    BY <1>4, FlagsLeftTyped DEF RetryVetoed, TypeInv
  <2> QED BY <1>4, <2>1 DEF RetryVetoed, TypeInv, TypeOK, Goto, PCs, registry, history
<1>5. CASE Retry
  <2>1. flags' \in [guard : BOOLEAN, dispatch : BOOLEAN, cap : BOOLEAN]
    BY <1>5, FlagsLeftTyped DEF Retry, TypeInv
  <2>2. failedOver' \in BOOLEAN /\ stalls' \in Nat /\ tries' \in Nat
    BY <1>5 DEF Retry, TypeInv, TypeOK
  <2> QED BY <1>5, <2>1, <2>2 DEF Retry, TypeInv, TypeOK, Goto, PCs, registry
<1> QED BY <1>1, <1>2, <1>3, <1>4, <1>5 DEF Judge

LEMMA AgainTyped == ASSUME TypeInv, Again PROVE TypeInv'
<1>1. CASE BackoffEnds
  BY <1>1, InitialRecords DEF BackoffEnds, Closed, TypeInv, TypeOK, Goto, PCs, history
<1>2. CASE OutOfTime
  BY <1>2 DEF OutOfTime, TypeInv, TypeOK, Goto, PCs, registry, locals, history
<1>3. CASE RebuildRefused
  BY <1>3, InitialRecords DEF RebuildRefused, TypeInv, TypeOK, Forget, Goto, PCs, Results,
     Terminals, registry, history
<1>4. CASE Reopen
  <2>1. /\ attempts' \in Nat
        /\ open' \subseteq 1..attempts' /\ known' \subseteq 1..attempts'
        /\ alive' \subseteq 1..attempts' /\ unrecorded' \subseteq 1..attempts'
        /\ attempts' > 0
    BY <1>4 DEF Reopen, Register, TypeInv, TypeOK
  <2> QED BY <1>4, <2>1 DEF Reopen, Register, TypeInv, TypeOK, Goto, PCs, locals
<1> QED BY <1>1, <1>2, <1>3, <1>4 DEF Again

LEMMA EndTyped == ASSUME TypeInv, End PROVE TypeInv'
<1>1. CASE Close
  BY <1>1 DEF Close, Closed, TypeInv, TypeOK, Goto, PCs, locals, history
<1>2. CASE Report
  BY <1>2, InitialRecords, OutcomeIsKnown DEF Report, TypeInv, TypeOK, Forget, Goto, PCs,
     Terminals, registry, history
<1> QED BY <1>1, <1>2 DEF End

LEMMA ChildTyped == ASSUME TypeInv, Child PROVE TypeInv'
<1>1. CASE Turn
  <2>1. flags' = [flags EXCEPT !.cap = turns' > TurnLimit]
    BY <1>1 DEF Turn
  <2>2. (turns' > TurnLimit) \in BOOLEAN
    OBVIOUS
  <2>3. flags' \in [guard : BOOLEAN, dispatch : BOOLEAN, cap : BOOLEAN]
    BY <2>1, <2>2 DEF TypeInv, TypeOK
  <2> QED BY <1>1, <2>3 DEF Turn, TypeInv, TypeOK, registry
<1>2. CASE ProgressStalls
  BY <1>2 DEF ProgressStalls, TypeInv, TypeOK, registry, history
<1>3. CASE LoopDetected
  BY <1>3 DEF LoopDetected, TypeInv, TypeOK, registry, history
<1>4. CASE DispatchStalls
  BY <1>4 DEF DispatchStalls, TypeInv, TypeOK, registry, history
<1> QED BY <1>1, <1>2, <1>3, <1>4 DEF Child

LEMMA AroundTyped ==
    ASSUME TypeInv, Signal \/ Stop \/ Crash \/ OrphanEnds \/ Resume
    PROVE  TypeInv'
<1>1. CASE Signal
  BY <1>1 DEF Signal, TypeInv, TypeOK, registry, locals, history
<1>2. CASE Stop
  BY <1>2 DEF Stop, TypeInv, TypeOK, registry, locals, history
<1>3. CASE Crash
  <2>1. unrecorded' \subseteq 1..attempts
    BY <1>3 DEF Crash, TypeInv, TypeOK
  <2>2. result' \in Results /\ terminal' \in Terminals /\ out' \in Ends
    BY <1>3, InitialRecords DEF Crash, Forget
  <2>3. flags' \in [guard : BOOLEAN, dispatch : BOOLEAN, cap : BOOLEAN] /\ kind' \in KindRecords
    BY <1>3, InitialRecords DEF Crash, Forget
  <2>4. stopFile' \in BOOLEAN /\ interrupted' \in BOOLEAN /\ failedOver' \in BOOLEAN
    BY <1>3, Zenon DEF Crash, Forget, TypeInv, TypeOK
  <2>6. /\ tries' \in Nat /\ stalls' \in Nat /\ turns' \in Nat
        /\ sessions' \in Nat /\ crashes' \in Nat /\ here' \in Nat /\ turnsHere' \in Nat
        /\ afterStop' \in Nat
    BY <1>3 DEF Crash, Forget, TypeInv, TypeOK
  <2>5. UNCHANGED <<attempts, open, known, alive>> /\ pc' = "down"
    BY <1>3 DEF Crash, Goto, registry
  <2> QED BY <2>1, <2>2, <2>3, <2>4, <2>5, <2>6 DEF TypeInv, TypeOK, PCs
<1>4. CASE OrphanEnds
  BY <1>4 DEF OrphanEnds, TypeInv, TypeOK, registry, locals, history
<1>5. CASE Resume
  BY <1>5 DEF Resume, TypeInv, TypeOK, Goto, PCs, locals, history
<1> QED BY <1>1, <1>2, <1>3, <1>4, <1>5

LEMMA TypeStep == ASSUME TypeInv, [Next]_vars PROVE TypeInv'
<1>1. CASE UNCHANGED vars
  BY <1>1 DEF TypeInv, TypeOK, vars
<1>2. CASE Over
  BY <1>2 DEF Over, TypeInv, TypeOK, vars
<1> QED BY <1>1, <1>2, BeginTyped, AttemptTyped, JudgeTyped, AgainTyped, EndTyped, ChildTyped,
        AroundTyped DEF Next, Controller

LEMMA Typed == Spec => []TypeInv
BY TypeInit, TypeStep, PTL DEF Spec

\* Every variable keeps its type, whatever the controller, the child and the owner do.
THEOREM TypeCorrect == Spec => []TypeOK
BY Typed, PTL DEF TypeInv
-----------------------------------------------------------------------------
(* The children that a controller leaves behind *)

LEMMA ChildStep == ASSUME TypeInv, ChildInv, [Next]_vars PROVE ChildInv'
<1> USE DEF ChildInv, OnlyUnrecordedSurvive, Busy
<1>1. CASE Begin
  <2>1. CASE RefuseLaunch
    BY <1>1, <2>1 DEF RefuseLaunch, Ready, registry, locals, history
  <2>2. CASE Launch
    BY <2>2 DEF Launch, Ready, Register, Goto
  <2> QED BY <1>1, <2>1, <2>2 DEF Begin
<1>2. CASE Attempt
  <2>1. CASE InterruptedBeforeStart
    BY <2>1 DEF InterruptedBeforeStart, Goto, registry, history
  <2>2. CASE ServerFails
    BY <2>2 DEF ServerFails, Goto, registry, history
  <2>3. CASE StartProcess
    BY <2>3 DEF StartProcess, Goto, registry
  <2>4. CASE RecordStart
    BY <2>4 DEF RecordStart, Goto, history
  <2>5. CASE AttemptEnds
    BY <2>5 DEF AttemptEnds, Goto, registry, history
  <2> QED BY <1>2, <2>1, <2>2, <2>3, <2>4, <2>5 DEF Attempt
<1>3. CASE Judge
  <2>1. /\ pc = "judging" /\ pc' \in {"closing", "backoff"}
        /\ UNCHANGED <<attempts, open, known, alive, unrecorded>>
    BY <1>3 DEF Judge, ProviderRefuses, StallsAgain, RoundOver, RetryVetoed, Retry, Goto,
       registry, history
  <2> QED BY <2>1
<1>4. CASE Again
  <2>1. CASE BackoffEnds
    BY <2>1 DEF BackoffEnds, Closed, Goto, history
  <2>2. CASE OutOfTime
    BY <2>2 DEF OutOfTime, Goto, registry, history
  <2>3. CASE RebuildRefused
    BY <2>3 DEF RebuildRefused, Goto, registry, history
  <2>4. CASE Reopen
    BY <2>4 DEF Reopen, Register, Goto
  <2> QED BY <1>4, <2>1, <2>2, <2>3, <2>4 DEF Again
<1>5. CASE End
  BY <1>5 DEF End, Close, Closed, Report, Goto, registry, history
<1>6. CASE Child
  BY <1>6 DEF Child, Turn, ProgressStalls, LoopDetected, DispatchStalls, registry, history
<1>7. CASE Signal \/ Stop
  BY <1>7 DEF Signal, Stop, registry, history
<1>8. CASE Crash
  BY <1>8 DEF Crash, Goto, registry, TypeInv, TypeOK, PCs
<1>9. CASE OrphanEnds
  BY <1>9 DEF OrphanEnds, registry, history
<1>10. CASE Resume
  BY <1>10 DEF Resume, Goto, history
<1>11. CASE UNCHANGED vars \/ Over
  BY <1>11 DEF Over, vars
<1> QED BY <1>1, <1>2, <1>3, <1>4, <1>5, <1>6, <1>7, <1>8, <1>9, <1>10, <1>11
        DEF Next, Controller

\* A child outlives its controller only in the window between the start of its process and
\* the record of its pid; every other one is found and killed by the controller that comes
\* next, before it launches anything.
THEOREM OrphansAreFound == Spec => []OnlyUnrecordedSurvive
<1>1. Init => ChildInv
  BY DEF Init, ChildInv, OnlyUnrecordedSurvive
<1> QED BY <1>1, ChildStep, Typed, PTL DEF Spec, ChildInv

-----------------------------------------------------------------------------
(* The owner's STOP, the turns and the retries of a session *)

LEMMA StopStep == ASSUME TypeInv, StopInv, [Next]_vars PROVE StopInv'
<1> USE DEF StopInv, StopStartsOneMore, TypeInv, TypeOK
<1>1. CASE Begin
  BY <1>1 DEF Begin, RefuseLaunch, Launch, Ready, Register, Goto, history
<1>2. CASE Attempt
  <2>1. CASE StartProcess
    BY <2>1 DEF StartProcess, Goto
  <2>2. CASE RecordStart \/ AttemptEnds
    BY <2>2 DEF RecordStart, AttemptEnds, Goto, history
  <2>3. CASE InterruptedBeforeStart \/ ServerFails
    BY <2>3 DEF InterruptedBeforeStart, ServerFails, Goto, history
  <2> QED BY <1>2, <2>1, <2>2, <2>3 DEF Attempt
<1>3. CASE Judge
  <2>1. CASE Retry
    BY <2>1 DEF Retry, StopRequested, Goto
  <2>2. CASE ProviderRefuses \/ StallsAgain \/ RoundOver \/ RetryVetoed
    BY <2>2 DEF ProviderRefuses, StallsAgain, RoundOver, RetryVetoed, Goto, history
  <2> QED BY <1>3, <2>1, <2>2 DEF Judge
<1>4. CASE Again
  BY <1>4 DEF Again, BackoffEnds, OutOfTime, RebuildRefused, Reopen, Register, Goto, history
<1>5. CASE End
  BY <1>5 DEF End, Close, Report, Goto, history
<1>6. CASE Child
  BY <1>6 DEF Child, Turn, ProgressStalls, LoopDetected, DispatchStalls, history
<1>7. CASE Signal \/ Stop
  BY <1>7 DEF Signal, Stop, history
<1>8. CASE Crash
  BY <1>8 DEF Crash, Goto
<1>9. CASE OrphanEnds
  BY <1>9 DEF OrphanEnds, history
<1>10. CASE Resume
  BY <1>10 DEF Resume, Goto, history
<1>11. CASE UNCHANGED vars \/ Over
  BY <1>11 DEF Over, vars
<1> QED BY <1>1, <1>2, <1>3, <1>4, <1>5, <1>6, <1>7, <1>8, <1>9, <1>10, <1>11
        DEF Next, Controller

\* Whenever the owner's STOP arrives, at most one child of the session is started after it.
THEOREM StopIsHeeded == Spec => []StopStartsOneMore
<1>1. Init => StopInv
  BY DEF Init, StopInv, StopStartsOneMore
<1> QED BY <1>1, StopStep, Typed, PTL DEF Spec, StopInv

LEMMA TurnsStep == ASSUME TypeInv, TurnsInv, [Next]_vars PROVE TurnsInv'
<1> USE SessionAssumption DEF TurnsInv, TypeInv, TypeOK
<1>1. CASE Begin
  <2>1. CASE RefuseLaunch
    BY <2>1 DEF RefuseLaunch, locals, history
  <2>2. CASE Launch
    <3>1. /\ pc' = "registered" /\ turns' = 0 /\ turnsHere' = 0
          /\ flags'.cap = FALSE
      BY <2>2 DEF Launch, Register, Goto, NoFlags
    <3>2. (turns' > TurnLimit) = FALSE /\ turnsHere' <= TurnLimit
      BY <3>1
    <3>3. flags'.cap = (turns' > TurnLimit)
      BY <3>1, <3>2, Zenon
    <3> QED BY <3>1, <3>2, <3>3
  <2> QED BY <1>1, <2>1, <2>2 DEF Begin
<1>2. CASE Attempt
  <2>1. CASE StartProcess \/ RecordStart \/ AttemptEnds
    BY <2>1 DEF StartProcess, RecordStart, AttemptEnds, Goto, locals, history
  <2>2. CASE InterruptedBeforeStart \/ ServerFails
    BY <2>2 DEF InterruptedBeforeStart, ServerFails, Goto, history
  <2> QED BY <1>2, <2>1, <2>2 DEF Attempt
<1>3. CASE Judge
  <2>1. CASE Retry
    BY <2>1 DEF Retry, StopRequested, Goto
  <2>2. CASE ProviderRefuses \/ StallsAgain \/ RoundOver \/ RetryVetoed
    BY <2>2 DEF ProviderRefuses, StallsAgain, RoundOver, RetryVetoed, Goto, history
  <2> QED BY <1>3, <2>1, <2>2 DEF Judge
<1>4. CASE Again
  <2>1. CASE BackoffEnds
    <3>1. /\ pc = "backoff" /\ pc' = "reopening" /\ flags'.cap = FALSE
          /\ turns' = turns /\ turnsHere' = turnsHere
      BY <2>1 DEF BackoffEnds, NoFlags, Goto, history
    <3>2. (turns' > TurnLimit) = FALSE /\ turnsHere' <= TurnLimit
      BY <3>1
    <3>3. flags'.cap = (turns' > TurnLimit)
      BY <3>1, <3>2, Zenon
    <3> QED BY <3>1, <3>2, <3>3
  <2>2. CASE OutOfTime \/ RebuildRefused \/ Reopen
    BY <2>2 DEF OutOfTime, RebuildRefused, Reopen, Register, Goto, locals, history
  <2> QED BY <1>4, <2>1, <2>2 DEF Again
<1>5. CASE End
  BY <1>5 DEF End, Close, Report, Goto, locals, history
<1>6. CASE Child
  <2>1. CASE Turn
    BY <2>1 DEF Turn
  <2>2. CASE ProgressStalls \/ LoopDetected \/ DispatchStalls
    BY <2>2 DEF ProgressStalls, LoopDetected, DispatchStalls, history
  <2> QED BY <1>6, <2>1, <2>2 DEF Child
<1>7. CASE Signal \/ Stop
  BY <1>7 DEF Signal, Stop, locals, history
<1>8. CASE Crash
  BY <1>8 DEF Crash, Goto
<1>9. CASE OrphanEnds
  BY <1>9 DEF OrphanEnds, locals, history
<1>10. CASE Resume
  BY <1>10 DEF Resume, Goto, locals, history
<1>11. CASE UNCHANGED vars \/ Over
  BY <1>11 DEF Over, vars
<1> QED BY <1>1, <1>2, <1>3, <1>4, <1>5, <1>6, <1>7, <1>8, <1>9, <1>10, <1>11
        DEF Next, Controller

\* A retry never gives a session turns that its first attempt did not have.
THEOREM TurnsAreOneBudget == Spec => []TurnsAreShared
<1>1. Init => TurnsInv
  BY DEF Init, TurnsInv
<1>2. TypeInv /\ TurnsInv => TurnsAreShared
  BY SessionAssumption DEF TypeInv, TypeOK, TurnsInv, TurnsAreShared, Busy
<1> QED BY <1>1, <1>2, TurnsStep, Typed, PTL DEF Spec

LEMMA RetriesStep == ASSUME TypeInv, RetriesInv, [Next]_vars PROVE RetriesInv'
<1> USE RetryLimitsAreNatural DEF RetriesInv, RetriesBounded, TypeInv, TypeOK
<1> RetryLimits' = RetryLimits
  BY DEF RetryLimits
<1>1. CASE Begin
  <2>1. CASE RefuseLaunch
    BY <2>1 DEF RefuseLaunch, locals, history
  <2>2. CASE Launch
    BY <2>2, SessionAssumption DEF Launch, Register, Goto, RetryLimits
  <2> QED BY <1>1, <2>1, <2>2 DEF Begin
<1>2. CASE Attempt
  <2>1. CASE StartProcess \/ RecordStart \/ AttemptEnds
    BY <2>1 DEF StartProcess, RecordStart, AttemptEnds, Goto, locals, history
  <2>2. CASE InterruptedBeforeStart \/ ServerFails
    BY <2>2 DEF InterruptedBeforeStart, ServerFails, Forget, Goto, history
  <2> QED BY <1>2, <2>1, <2>2 DEF Attempt
<1>3. CASE Judge
  <2>1. CASE Retry
    <3>1. /\ tries' = tries + 1 /\ here' = here /\ here = tries + 1
          /\ pc' = "backoff" /\ tries < RetryLimit
      BY <2>1 DEF Retry, Repeatable, Goto
    <3> QED BY <3>1, RetryLimitIsKnown
  <2>2. CASE ProviderRefuses \/ StallsAgain \/ RoundOver \/ RetryVetoed
    BY <2>2 DEF ProviderRefuses, StallsAgain, RoundOver, RetryVetoed, Goto, history
  <2> QED BY <1>3, <2>1, <2>2 DEF Judge
<1>4. CASE Again
  <2>1. CASE BackoffEnds \/ OutOfTime
    BY <2>1 DEF BackoffEnds, OutOfTime, Goto, locals, history
  <2>2. CASE RebuildRefused
    BY <2>2 DEF RebuildRefused, Forget, Goto, history
  <2>3. CASE Reopen
    <3>1. /\ here' = tries + 1 /\ tries' = tries /\ pc' = "registered"
      BY <2>3 DEF Reopen, Register, Goto, locals
    <3>2. PICK n \in RetryLimits : tries <= n
      OBVIOUS
    <3>3. n \in Nat /\ here' <= n + 1
      BY <3>1, <3>2
    <3> QED BY <3>1, <3>2, <3>3
  <2> QED BY <1>4, <2>1, <2>2, <2>3 DEF Again
<1>5. CASE End
  <2>1. CASE Close
    BY <2>1 DEF Close, Goto, locals, history
  <2>2. CASE Report
    BY <2>2 DEF Report, Forget, Goto, history
  <2> QED BY <1>5, <2>1, <2>2 DEF End
<1>6. CASE Child
  BY <1>6 DEF Child, Turn, ProgressStalls, LoopDetected, DispatchStalls, history
<1>7. CASE Signal \/ Stop
  BY <1>7 DEF Signal, Stop, locals, history
<1>8. CASE Crash
  BY <1>8 DEF Crash, Forget, Goto
<1>9. CASE OrphanEnds
  BY <1>9 DEF OrphanEnds, locals, history
<1>10. CASE Resume
  BY <1>10 DEF Resume, Goto, locals, history
<1>11. CASE UNCHANGED vars \/ Over
  BY <1>11 DEF Over, vars
<1> QED BY <1>1, <1>2, <1>3, <1>4, <1>5, <1>6, <1>7, <1>8, <1>9, <1>10, <1>11
        DEF Next, Controller

\* Whatever the reasons of the attempts' ends, and however they follow each other, a session
\* makes at most one attempt more than the largest of the limits.
THEOREM RetriesAreBounded == Spec => []RetriesBounded
<1>1. Init => RetriesInv
  BY SessionAssumption DEF Init, RetriesInv, RetriesBounded, RetryLimits
<1> QED BY <1>1, RetriesStep, Typed, PTL DEF Spec, RetriesInv

-----------------------------------------------------------------------------
(* The records *)

LEMMA OpenStep == ASSUME TypeInv, OpenInv, [Next]_vars PROVE OpenInv'
<1> USE DEF OpenInv, TypeInv, TypeOK
<1>1. CASE Begin
  <2>1. CASE RefuseLaunch
    BY <2>1 DEF RefuseLaunch, Ready, registry, history
  <2>2. CASE Launch
    BY <2>2 DEF Launch, Ready, Register, Goto
  <2> QED BY <1>1, <2>1, <2>2 DEF Begin
<1>2. CASE Attempt
  <2>1. CASE StartProcess \/ RecordStart \/ AttemptEnds
    BY <2>1 DEF StartProcess, RecordStart, AttemptEnds, Goto, registry, history
  <2>2. CASE InterruptedBeforeStart \/ ServerFails
    BY <2>2 DEF InterruptedBeforeStart, ServerFails, Goto, registry, history
  <2> QED BY <1>2, <2>1, <2>2 DEF Attempt
<1>3. CASE Judge
  <2>1. /\ pc = "judging" /\ pc' \in {"closing", "backoff"}
        /\ UNCHANGED <<attempts, open, crashes>>
    BY <1>3 DEF Judge, ProviderRefuses, StallsAgain, RoundOver, RetryVetoed, Retry, Goto,
       registry, history
  <2> QED BY <2>1
<1>4. CASE Again
  <2>1. CASE BackoffEnds
    BY <2>1 DEF BackoffEnds, Closed, Goto, history
  <2>2. CASE OutOfTime \/ RebuildRefused
    BY <2>2 DEF OutOfTime, RebuildRefused, Goto, registry, history
  <2>3. CASE Reopen
    BY <2>3 DEF Reopen, Register, Goto
  <2> QED BY <1>4, <2>1, <2>2, <2>3 DEF Again
<1>5. CASE End
  BY <1>5 DEF End, Close, Closed, Report, Goto, registry, history
<1>6. CASE Child
  BY <1>6 DEF Child, Turn, ProgressStalls, LoopDetected, DispatchStalls, registry, history
<1>7. CASE Signal \/ Stop
  BY <1>7 DEF Signal, Stop, registry, history
<1>8. CASE Crash
  BY <1>8 DEF Crash, Goto
<1>9. CASE OrphanEnds
  BY <1>9 DEF OrphanEnds, registry, history
<1>10. CASE Resume
  BY <1>10 DEF Resume, Goto, history
<1>11. CASE UNCHANGED vars \/ Over
  BY <1>11 DEF Over, vars
<1> QED BY <1>1, <1>2, <1>3, <1>4, <1>5, <1>6, <1>7, <1>8, <1>9, <1>10, <1>11
        DEF Next, Controller

\* Between sessions no record says that a child is running, unless a controller died or a
\* session was cut off before its child started.
THEOREM RecordsAreClosed == Spec => []OpenIsRunning
<1>1. Init => OpenInv
  BY DEF Init, OpenInv
<1>2. OpenInv => OpenIsRunning
  BY DEF OpenInv, OpenIsRunning
<1> QED BY <1>1, <1>2, OpenStep, Typed, PTL DEF Spec

-----------------------------------------------------------------------------
(* The steps of a session *)

LEMMA LargestLimit ==
    /\ MaxRetries \in Nat
    /\ \A n \in RetryLimits : n <= MaxRetries
<1>1. \E n \in RetryLimits : \A m \in RetryLimits : m <= n
  <2> DEFINE IsLargest(n) == \A m \in RetryLimits : m <= n
  <2>1. \/ IsLargest(ManagerRetries) \/ IsLargest(TransportTries)
        \/ IsLargest(OpencodeTries) \/ IsLargest(OtherTries)
    BY SessionAssumption DEF RetryLimits
  <2> QED BY <2>1 DEF RetryLimits
<1>2. MaxRetries \in RetryLimits /\ \A m \in RetryLimits : m <= MaxRetries
  BY <1>1 DEF MaxRetries
<1> QED BY <1>2, RetryLimitsAreNatural

\* A step that does not touch the session's place and its retries leaves as much to do as before.
LEMMA StepsStay ==
    ASSUME StepInv, UNCHANGED <<pc, tries>>
    PROVE  StepInv' /\ StepsLeft' = StepsLeft
BY DEF StepInv, StepsLeft

\* What is left to do, point by point.
LEMMA StepsAt ==
    ASSUME TypeInv, StepInv, pc \notin {"idle", "down"}
    PROVE  /\ StepsLeft = 6 * (MaxRetries - tries) + StepsToEnd[pc]
           /\ StepsToEnd[pc] \in 1..8
           /\ 6 * (MaxRetries - tries) \in Nat
           /\ MaxRetries - tries \in Nat
BY LargestLimit DEF StepsLeft, StepsToEnd, TypeInv, TypeOK, PCs, StepInv

LEMMA StepsDescend ==
    ASSUME TypeInv, StepInv, Controller
    PROVE  StepInv' /\ StepsLeft' < StepsLeft
<1> DEFINE Away(from, to) == pc = from /\ pc' = to /\ tries' = tries
<1>1. ASSUME pc \notin {"idle", "down"}, pc' = "idle", tries' = 0
      PROVE  StepInv' /\ StepsLeft' < StepsLeft
  BY <1>1, StepsAt, LargestLimit DEF StepInv, StepsLeft
<1>2. ASSUME NEW from \in PCs \ {"idle", "down"}, NEW to \in PCs \ {"idle", "down"}, Away(from, to),
             StepsToEnd[to] < StepsToEnd[from], to = "reopening" => from = "backoff", to # "backoff"
      PROVE  StepInv' /\ StepsLeft' < StepsLeft
  <2>1. StepInv'
    BY <1>2 DEF StepInv
  <2>2. /\ StepsLeft = 6 * (MaxRetries - tries) + StepsToEnd[from]
        /\ StepsLeft' = 6 * (MaxRetries - tries) + StepsToEnd[to]
    BY <1>2 DEF StepsLeft
  <2>3. StepsToEnd[from] \in Nat /\ StepsToEnd[to] \in Nat
    BY <1>2 DEF StepsToEnd, PCs
  <2>4. 6 * (MaxRetries - tries) \in Nat
    BY <1>2, StepsAt
  <2> QED BY <1>2, <2>1, <2>2, <2>3, <2>4
<1> USE DEF Goto, PCs, StepsToEnd
<1>3. CASE Attempt
  <2>1. CASE InterruptedBeforeStart \/ ServerFails
    BY <1>1, <2>1 DEF InterruptedBeforeStart, ServerFails, Forget
  <2>2. CASE StartProcess
    BY <1>2, <2>2 DEF StartProcess, locals
  <2>3. CASE RecordStart
    BY <1>2, <2>3 DEF RecordStart, locals
  <2>4. CASE AttemptEnds
    BY <1>2, <2>4 DEF AttemptEnds
  <2> QED BY <1>3, <2>1, <2>2, <2>3, <2>4 DEF Attempt
<1>4. CASE Judge
  <2>1. CASE ProviderRefuses \/ StallsAgain \/ RoundOver \/ RetryVetoed
    BY <1>2, <2>1 DEF ProviderRefuses, StallsAgain, RoundOver, RetryVetoed
  <2>2. CASE Retry
    <3>1. /\ pc = "judging" /\ pc' = "backoff" /\ tries' = tries + 1 /\ tries < RetryLimit
      BY <2>2 DEF Retry, Repeatable
    <3>2. RetryLimit \in Nat /\ RetryLimit <= MaxRetries /\ tries \in Nat /\ MaxRetries \in Nat
      BY RetryLimitIsKnown, RetryLimitsAreNatural, LargestLimit DEF TypeInv, TypeOK
    <3>3. StepInv'
      BY <3>1, <3>2 DEF StepInv
    <3>4. /\ StepsLeft = 6 * (MaxRetries - tries) + 3
          /\ StepsLeft' = 6 * (MaxRetries - (tries + 1)) + 8
      BY <3>1 DEF StepsLeft
    <3> QED BY <3>2, <3>3, <3>4
  <2> QED BY <1>4, <2>1, <2>2 DEF Judge
<1>5. CASE Again
  <2>1. CASE BackoffEnds
    BY <1>2, <2>1 DEF BackoffEnds
  <2>2. CASE OutOfTime
    BY <1>2, <2>2 DEF OutOfTime, locals
  <2>3. CASE RebuildRefused
    BY <1>1, <2>3 DEF RebuildRefused, Forget
  <2>4. CASE Reopen
    BY <1>2, <2>4 DEF Reopen, Register, locals
  <2> QED BY <1>5, <2>1, <2>2, <2>3, <2>4 DEF Again
<1>6. CASE End
  <2>1. CASE Close
    BY <1>2, <2>1 DEF Close, locals
  <2>2. CASE Report
    BY <1>1, <2>2 DEF Report, Forget
  <2> QED BY <1>6, <2>1, <2>2 DEF End
<1> QED BY <1>3, <1>4, <1>5, <1>6 DEF Controller

LEMMA StepStep ==
    ASSUME TypeInv, StepInv, [Next]_vars
    PROVE  /\ StepInv'
           /\ pc \notin {"idle", "down"} =>
                 StepsLeft' <= StepsLeft /\ (Controller => StepsLeft' < StepsLeft)
<1> DEFINE Good ==
      /\ StepInv'
      /\ pc \notin {"idle", "down"} =>
            StepsLeft' <= StepsLeft /\ (Controller => StepsLeft' < StepsLeft)
<1>1. StepsLeft \in Nat
  BY StepsAt DEF StepsLeft
<1>2. CASE Controller
  <2>1. StepInv' /\ StepsLeft' < StepsLeft
    BY <1>2, StepsDescend
  <2>2. StepsLeft' \in Nat
    BY <2>1, LargestLimit, TypeStep DEF StepsLeft, StepsToEnd, TypeInv, TypeOK, PCs, StepInv
  <2> QED BY <1>1, <2>1, <2>2
<1> SUFFICES ASSUME ~Controller PROVE Good
  BY <1>2
<1>3. CASE Begin
  BY <1>3, LargestLimit
     DEF Begin, RefuseLaunch, Launch, Register, Ready, Goto, StepInv, locals
<1>4. CASE Child \/ Signal \/ Stop \/ OrphanEnds \/ Over \/ UNCHANGED vars
  <2>1. UNCHANGED <<pc, tries>>
    BY <1>4
       DEF Child, Turn, ProgressStalls, LoopDetected, DispatchStalls, Signal, Stop, OrphanEnds, Over,
           locals, vars
  <2> QED BY <1>1, <2>1, StepsStay
<1>5. CASE Crash
  <2>1. StepInv' /\ StepsLeft' = 0
    BY <1>5, LargestLimit DEF Crash, Forget, Goto, StepInv, StepsLeft
  <2> QED BY <1>1, <2>1
<1>6. CASE Resume
  BY <1>6 DEF Resume, Goto, StepInv, locals
<1> QED BY <1>3, <1>4, <1>5, <1>6 DEF Next

LEMMA StepInit == Init => StepInv
BY LargestLimit DEF Init, StepInv

\* What a session has still to do is a natural number, bounded by the largest retry limit alone
\* (StepsAreFinite): launch_session makes at most six steps per attempt.
THEOREM SessionsAreFinite == Spec => []StepsAreFinite
<1>1. TypeInv /\ StepInv => StepsAreFinite
  <2> SUFFICES ASSUME TypeInv, StepInv PROVE StepsAreFinite
    OBVIOUS
  <2>1. CASE pc \in {"idle", "down"}
    BY <2>1, LargestLimit DEF StepsAreFinite, StepsLeft
  <2>2. CASE pc \in {"backoff", "reopening"}
    BY <2>2, LargestLimit DEF StepsAreFinite, StepsLeft, StepsToEnd, StepInv, TypeInv, TypeOK
  <2>3. CASE pc \in PCs \ {"idle", "down", "backoff", "reopening"}
    BY <2>3, LargestLimit DEF StepsAreFinite, StepsLeft, StepsToEnd, StepInv, TypeInv, TypeOK, PCs
  <2> QED BY <2>1, <2>2, <2>3 DEF TypeInv, TypeOK
<1>2. TypeInv /\ StepInv /\ [Next]_vars => StepInv'
  BY StepStep
<1> QED BY <1>1, <1>2, StepInit, Typed, PTL DEF Spec

\* Every step of launch_session leaves less of the session to do, and no child, signal, stop or
\* crash adds to it (EveryStepCounts): with SessionsAreFinite, what SessionEnds takes from the
\* code besides fairness, for any limits.
THEOREM SessionsAdvance == Spec => EveryStepCounts
<1>1. TypeInv /\ StepInv /\ [Next]_vars => StepInv'
  BY StepStep
<1>2. TypeInv /\ StepInv /\ [Next]_vars
        => [pc \notin {"idle", "down"} =>
              /\ StepsLeft' <= StepsLeft
              /\ Controller => StepsLeft' < StepsLeft]_vars
  BY StepStep
<1> QED BY <1>1, <1>2, StepInit, Typed, PTL DEF Spec, EveryStepCounts
=============================================================================
