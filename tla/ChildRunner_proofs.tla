------------------------- MODULE ChildRunner_proofs -------------------------
(***************************************************************************)
(* Theorems about ChildRunner, for every set of descendants.               *)
(***************************************************************************)
EXTENDS ChildRunner, TLAPS

USE DEF vars, families

-----------------------------------------------------------------------------
(* What holds from the cleanup on: nothing that was seen lives; then everything with a marker
   has been found; then nothing with a marker lives but what was forked in between. *)
Cleaned == {"leaving", "unregistering", "closing", "scanning", "sweeping", "done"}

SurvivorInv ==
    /\ TypeOK
    /\ pc = "idle" => alive = {} /\ leader = "none"
    /\ pc \in Cleaned => alive \cap seen = {}
    /\ pc = "sweeping" => marked \subseteq found \cup late
    /\ pc = "done" => ~LeaderLives /\ marked \subseteq late

LEMMA SurvivorInit == Init => SurvivorInv
BY DEF Init, SurvivorInv, TypeOK, PCs, Cleaned, LeaderLives

LEMMA SurvivorNext == SurvivorInv /\ [Next]_vars => SurvivorInv'
<1> SUFFICES ASSUME SurvivorInv, [Next]_vars
             PROVE  SurvivorInv'
  OBVIOUS
<1> USE DEF SurvivorInv, TypeOK, PCs, Cleaned, LeaderLives, Main, Goto, Die
<1>1. CASE KillTerm
  BY <1>1 DEF KillTerm
<1>2. CASE KillGrace
  BY <1>2 DEF KillGrace
<1>3. CASE KillNobody
  BY <1>3 DEF KillNobody
<1>4. CASE RefuseToStart
  BY <1>4 DEF RefuseToStart
<1>5. CASE StartChild
  BY <1>5 DEF StartChild
<1>6. CASE LockForChild
  BY <1>6 DEF LockForChild
<1>7. CASE RecordCurrent
  BY <1>7 DEF RecordCurrent
<1>8. CASE OpenGate
  BY <1>8 DEF OpenGate
<1>9. CASE ChildRecorded
  BY <1>9 DEF ChildRecorded
<1>10. CASE RecordingRaises
  BY <1>10 DEF RecordingRaises
<1>11. CASE ChildGone
  BY <1>11 DEF ChildGone
<1>12. CASE EndChild
  BY <1>12 DEF EndChild
<1>13. CASE Drained
  BY <1>13 DEF Drained
<1>14. CASE Reaped
  BY <1>14 DEF Reaped
<1>15. CASE CleanUp
  BY <1>15 DEF CleanUp
<1>16. CASE LockToLeave
  BY <1>16 DEF LockToLeave
<1>17. CASE ForgetCurrent
  BY <1>17 DEF ForgetCurrent
<1>18. CASE CloseStdout
  BY <1>18 DEF CloseStdout
<1>19. CASE ScanMarkers
  BY <1>19 DEF ScanMarkers
<1>20. CASE Sweep
  BY <1>20 DEF Sweep
<1>21. CASE LeaderEnds
  BY <1>21 DEF LeaderEnds
<1>22. ASSUME NEW k \in Kids, ForkOfLeader(k)
      PROVE  SurvivorInv'
  BY <1>22 DEF ForkOfLeader
<1>23. ASSUME NEW k \in Kids, NEW p \in Kids, ForkOfKid(p, k)
      PROVE  SurvivorInv'
  BY <1>23 DEF ForkOfKid, Inherit
<1>24. ASSUME NEW k \in Kids, Daemonize(k)
      PROVE  SurvivorInv'
  BY <1>24 DEF Daemonize
<1>25. ASSUME NEW k \in Kids, KidEnds(k)
      PROVE  SurvivorInv'
  BY <1>25 DEF KidEnds
<1>26. CASE Sample
  BY <1>26 DEF Sample
<1>27. CASE ReaderEnds
  BY <1>27 DEF ReaderEnds
<1>28. CASE Signal
  BY <1>28 DEF Signal
<1>29. CASE UNCHANGED vars
  BY <1>29
<1> QED
  BY <1>1, <1>2, <1>3, <1>4, <1>5, <1>6, <1>7, <1>8, <1>9, <1>10, <1>11, <1>12, <1>13,
     <1>14, <1>15, <1>16, <1>17, <1>18, <1>19, <1>20, <1>21, <1>22, <1>23, <1>24, <1>25,
     <1>26, <1>27, <1>28, <1>29
     DEF Next, MainStep, FamilyStep

(* The type invariant. *)
THEOREM ChildTyped == Spec => []TypeOK
<1>1. SurvivorInv => TypeOK
  BY DEF SurvivorInv
<1> QED
  BY <1>1, SurvivorInit, SurvivorNext, PTL DEF Spec

(* What survives a session was never sampled, and had cleared its marker or was forked while
   the marked processes were being killed; the child does not survive. *)
THEOREM SurvivorsEscapedEveryNet == Spec => []SurvivorsAreUnseen
<1>1. SurvivorInv => SurvivorsAreUnseen
  BY DEF SurvivorInv, SurvivorsAreUnseen, Cleaned
<1> QED
  BY <1>1, SurvivorInit, SurvivorNext, PTL DEF Spec

-----------------------------------------------------------------------------
(* The waits. The child has ended once its kill is over; what reads its output was started
   only for a child that was recorded, which is then waited for; a signal that found the lock
   taken has been noted. *)
Unrecorded == {"idle", "started", "registering", "opening", "recording"}
AfterReap == {"cleaning", "leaving", "unregistering", "closing"}

WaitInv ==
    /\ pc \in Unrecorded => reader = "none"
    /\ Main("draining") \/ pc = "reaping" => ~LeaderLives
    /\ pc \in AfterReap /\ reader # "none" => ~LeaderLives
    /\ pc = "deadlocked" => interrupted

LEMMA WaitInit == Init => WaitInv
BY DEF Init, WaitInv, Unrecorded, AfterReap, Main

LEMMA WaitStep == ASSUME TypeOK, WaitInv, [Next]_vars PROVE WaitInv'
<1> USE DEF WaitInv, TypeOK, PCs, Unrecorded, AfterReap, LeaderLives, Main, Goto
<1>1. CASE KillTerm
  BY <1>1 DEF KillTerm
<1>2. CASE KillGrace
  BY <1>2 DEF KillGrace
<1>3. CASE KillNobody
  BY <1>3 DEF KillNobody
<1>4. CASE RefuseToStart
  BY <1>4 DEF RefuseToStart
<1>5. CASE StartChild
  BY <1>5 DEF StartChild
<1>6. CASE LockForChild
  BY <1>6 DEF LockForChild
<1>7. CASE RecordCurrent
  BY <1>7 DEF RecordCurrent
<1>8. CASE OpenGate
  BY <1>8 DEF OpenGate
<1>9. CASE ChildRecorded
  BY <1>9 DEF ChildRecorded
<1>10. CASE RecordingRaises
  BY <1>10 DEF RecordingRaises
<1>11. CASE ChildGone
  BY <1>11 DEF ChildGone
<1>12. CASE EndChild
  BY <1>12 DEF EndChild
<1>13. CASE Drained
  BY <1>13 DEF Drained
<1>14. CASE Reaped
  BY <1>14 DEF Reaped
<1>15. CASE CleanUp
  BY <1>15 DEF CleanUp
<1>16. CASE LockToLeave
  BY <1>16 DEF LockToLeave
<1>17. CASE ForgetCurrent
  BY <1>17 DEF ForgetCurrent
<1>18. CASE CloseStdout
  BY <1>18 DEF CloseStdout
<1>19. CASE ScanMarkers
  BY <1>19 DEF ScanMarkers
<1>20. CASE Sweep
  BY <1>20 DEF Sweep
<1>21. CASE LeaderEnds
  BY <1>21 DEF LeaderEnds
<1>22. ASSUME NEW k \in Kids, ForkOfLeader(k) PROVE WaitInv'
  BY <1>22 DEF ForkOfLeader
<1>23. ASSUME NEW k \in Kids, NEW p \in Kids, ForkOfKid(p, k) PROVE WaitInv'
  BY <1>23 DEF ForkOfKid
<1>24. ASSUME NEW k \in Kids, Daemonize(k) \/ KidEnds(k) PROVE WaitInv'
  BY <1>24 DEF Daemonize, KidEnds
<1>25. CASE Sample \/ ReaderEnds
  BY <1>25 DEF Sample, ReaderEnds
<1>26. CASE Signal
  BY <1>26 DEF Signal
<1>27. CASE UNCHANGED vars
  BY <1>27
<1> QED
  BY <1>1, <1>2, <1>3, <1>4, <1>5, <1>6, <1>7, <1>8, <1>9, <1>10, <1>11, <1>12, <1>13,
     <1>14, <1>15, <1>16, <1>17, <1>18, <1>19, <1>20, <1>21, <1>22, <1>23, <1>24, <1>25,
     <1>26, <1>27
     DEF Next, MainStep, FamilyStep

(* The main thread waits for nobody but in the known places (WaitsAreKnown), for any set of
   descendants. *)
THEOREM OnlyKnownWaits == Spec => []WaitsAreKnown
<1>1. SurvivorInv /\ WaitInv => WaitsAreKnown
  BY DEF SurvivorInv, TypeOK, Cleaned, WaitInv, AfterReap, WaitsAreKnown, Waits, HeldOpen, Main
<1>2. SurvivorInv /\ WaitInv /\ [Next]_vars => WaitInv'
  BY WaitStep DEF SurvivorInv
<1> QED
  BY <1>1, <1>2, WaitInit, SurvivorInit, SurvivorNext, PTL DEF Spec

-----------------------------------------------------------------------------
(* The steps of the main thread. *)

LEMMA StepsNatural ==
    ASSUME TypeOK
    PROVE  StepsLeft \in Nat
BY DEF TypeOK, PCs, StepsLeft, StepsToEnd, StepsOfKill

LEMMA MainDescends == ASSUME TypeOK, MainStep PROVE StepsLeft' < StepsLeft
<1> USE DEF TypeOK, PCs, Main, Goto, StepsLeft, StepsToEnd, StepsOfKill
<1>1. CASE KillTerm
  BY <1>1 DEF KillTerm
<1>2. CASE KillGrace
  BY <1>2 DEF KillGrace
<1>3. CASE KillNobody
  BY <1>3 DEF KillNobody
<1>4. CASE RefuseToStart
  BY <1>4 DEF RefuseToStart
<1>5. CASE StartChild
  BY <1>5 DEF StartChild
<1>6. CASE LockForChild
  BY <1>6 DEF LockForChild
<1>7. CASE RecordCurrent
  BY <1>7 DEF RecordCurrent
<1>8. CASE OpenGate
  BY <1>8 DEF OpenGate
<1>9. CASE ChildRecorded
  BY <1>9 DEF ChildRecorded
<1>10. CASE RecordingRaises
  BY <1>10 DEF RecordingRaises
<1>11. CASE ChildGone
  BY <1>11 DEF ChildGone
<1>12. CASE EndChild
  BY <1>12 DEF EndChild
<1>13. CASE Drained
  BY <1>13 DEF Drained
<1>14. CASE Reaped
  BY <1>14 DEF Reaped
<1>15. CASE CleanUp
  BY <1>15 DEF CleanUp
<1>16. CASE LockToLeave
  BY <1>16 DEF LockToLeave
<1>17. CASE ForgetCurrent
  BY <1>17 DEF ForgetCurrent
<1>18. CASE CloseStdout
  BY <1>18 DEF CloseStdout
<1>19. CASE ScanMarkers
  BY <1>19 DEF ScanMarkers
<1>20. CASE Sweep
  BY <1>20 DEF Sweep
<1> QED
  BY <1>1, <1>2, <1>3, <1>4, <1>5, <1>6, <1>7, <1>8, <1>9, <1>10, <1>11, <1>12, <1>13,
     <1>14, <1>15, <1>16, <1>17, <1>18, <1>19, <1>20
     DEF MainStep

\* Whoever leaves the main thread where it is, and its kill, leaves it as much to do.
LEMMA StepsStay ==
    ASSUME UNCHANGED <<pc, killing, interrupted>>
    PROVE  StepsLeft' = StepsLeft
BY DEF StepsLeft

LEMMA OthersAddNothing ==
    ASSUME TypeOK, FamilyStep \/ Sample \/ ReaderEnds \/ Signal \/ UNCHANGED vars
    PROVE  StepsLeft' <= StepsLeft
<1>1. CASE FamilyStep \/ Sample \/ ReaderEnds \/ UNCHANGED vars
  <2>1. UNCHANGED <<pc, killing, interrupted>>
    BY <1>1
       DEF FamilyStep, LeaderEnds, ForkOfLeader, ForkOfKid, Daemonize, KidEnds, Sample, ReaderEnds
  <2> QED
    BY <2>1, StepsStay, StepsNatural
<1>2. CASE Signal
  BY <1>2 DEF Signal, TypeOK, PCs, StepsLeft, StepsToEnd, StepsOfKill
<1> QED
  BY <1>1, <1>2

LEMMA StepsStep ==
    ASSUME TypeOK, TypeOK', [Next]_vars
    PROVE  StepsLeft' <= StepsLeft /\ (MainStep => StepsLeft' < StepsLeft)
<1>1. StepsLeft \in Nat /\ StepsLeft' \in Nat
  BY DEF TypeOK, PCs, StepsLeft, StepsToEnd, StepsOfKill
<1> QED
  BY <1>1, MainDescends, OthersAddNothing DEF Next

(* The main thread makes at most eighteen steps (StepsAreFinite), whatever the child and its
   descendants do. *)
THEOREM ChildIsFinite == Spec => []StepsAreFinite
<1>1. Init => StepsAreFinite
  BY DEF Init, StepsAreFinite, StepsLeft, StepsToEnd, StepsOfKill
<1>2. TypeOK /\ TypeOK' /\ StepsAreFinite /\ [Next]_vars => StepsAreFinite'
  <2>1. ASSUME TypeOK, TypeOK', StepsAreFinite, [Next]_vars PROVE StepsAreFinite'
    <3>1. StepsLeft' \in Nat
      BY <2>1 DEF TypeOK, PCs, StepsLeft, StepsToEnd, StepsOfKill
    <3> QED
      BY <2>1, <3>1, StepsStep DEF StepsAreFinite
  <2> QED
    BY <2>1
<1> QED
  BY <1>1, <1>2, ChildTyped, PTL DEF Spec

(* Each step of the main thread leaves less to do, and nobody else adds to it
   (EveryStepCounts). *)
THEOREM ChildAdvances == Spec => EveryStepCounts
<1>1. TypeOK /\ TypeOK' /\ [Next]_vars
        => [StepsLeft' <= StepsLeft /\ (MainStep => StepsLeft' < StepsLeft)]_vars
  BY StepsStep
<1> QED
  BY <1>1, ChildTyped, PTL DEF Spec, EveryStepCounts
=============================================================================
