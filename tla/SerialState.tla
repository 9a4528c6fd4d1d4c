----------------------------- MODULE SerialState -----------------------------
(***************************************************************************)
(* What the store promises about state.json: its successive contents are   *)
(* those of transactions executed one after the other, each on the result  *)
(* of the one before, each counted in the version.                         *)
(***************************************************************************)
EXTENDS Naturals

CONSTANT Writers

VARIABLE state

Init == state = [version |-> 0, updates |-> [w \in Writers |-> 0], failed |-> FALSE]

Transact(w) ==
    state' = [version |-> state.version + 1,
              updates |-> [state.updates EXCEPT ![w] = @ + 1],
              failed  |-> state.failed]

Next == \E w \in Writers : Transact(w)

Spec == Init /\ [][Next]_state
=============================================================================
