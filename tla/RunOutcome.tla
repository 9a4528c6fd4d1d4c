----------------------------- MODULE RunOutcome -----------------------------
(***************************************************************************)
(* What the owner of a run is promised about it, without its mechanism:    *)
(* the run is frozen, then worked on in a bounded number of rounds in      *)
(* which its criteria are judged, then ends with a status that they        *)
(* justify.                                                                *)
(*                                                                         *)
(* A stop looks at the run and writes STOPPED later.  If it looked at an   *)
(* unfinished run, what it writes over may have ended meanwhile - the only *)
(* way in which an ended run changes - or be worked on: then it is         *)
(* "overruled", says STOPPED, and goes on.                                 *)
(***************************************************************************)
EXTENDS Verdicts, Naturals

CONSTANT MaxRounds

VARIABLES
    phase,     \* "PLANNED", "FROZEN", "working", "overruled", or the terminal status
    rounds,    \* rounds of work begun
    criteria,  \* the verdict that stands on each criterion
    stopping   \* a stop has looked at the run and not yet written

view == <<phase, rounds, criteria, stopping>>

Init ==
    /\ phase = "PLANNED"
    /\ rounds = 0
    /\ criteria = InitialCriteria
    /\ stopping = FALSE

Freeze ==
    /\ phase = "PLANNED" \/ (phase = "overruled" /\ rounds = 0)
    /\ phase' = "FROZEN"
    /\ UNCHANGED <<rounds, criteria, stopping>>

\* Work begins, or goes on although it was overruled.
Begin ==
    /\ phase \in {"FROZEN", "overruled"}
    /\ phase' = "working"
    /\ UNCHANGED <<rounds, criteria, stopping>>

Round ==
    /\ phase \in {"working", "overruled"}
    /\ rounds < MaxRounds
    /\ rounds' = rounds + 1
    /\ phase' = "working"
    /\ UNCHANGED <<criteria, stopping>>

\* An accepted verdict decides every criterion at once, and only after some work.
Judge ==
    /\ phase \in {"working", "overruled"}
    /\ rounds > 0
    /\ criteria' # criteria
    /\ criteria' \in {v.crit : v \in AcceptedVerdicts}
    /\ phase' = "working"
    /\ UNCHANGED <<rounds, stopping>>

\* PASSED needs every criterion; PARTIAL_PASS some but not all.
Justified(s) ==
    /\ s = "PASSED" => AllPass(criteria)
    /\ s = "PARTIAL_PASS" => SomePass(criteria) /\ ~AllPass(criteria)
    /\ s = "RESET_RECOMMENDED" => ~SomePass(criteria) \/ AllPass(criteria)

\* Only the owner ends a run that nobody has worked on.
End ==
    /\ phase \notin TerminalStates
    /\ phase' \in TerminalStates
    /\ phase \in {"working", "overruled"} \/ phase' = "STOPPED"
    /\ Justified(phase')
    /\ UNCHANGED <<rounds, criteria, stopping>>

StopLooks ==
    /\ phase \notin {"overruled"} \cup TerminalStates
    /\ ~stopping
    /\ stopping' = TRUE
    /\ UNCHANGED <<phase, rounds, criteria>>

StopWrites ==
    /\ stopping
    /\ stopping' = FALSE
    /\ \/ phase' = "STOPPED"
       \/ phase \notin TerminalStates /\ phase' = "overruled"
    /\ UNCHANGED <<rounds, criteria>>

Next == Freeze \/ Begin \/ Round \/ Judge \/ End \/ StopLooks \/ StopWrites

Spec == Init /\ [][Next]_view
=============================================================================
