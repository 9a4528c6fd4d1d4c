----------------------------- MODULE MCSession -----------------------------
(* Session on instances small enough for TLC. *)
EXTENDS Session

Plain == [opencode |-> FALSE, swarm |-> FALSE, sol |-> FALSE, fallback |-> FALSE]
Sol == [Plain EXCEPT !.sol = TRUE]
Strategic == [Plain EXCEPT !.fallback = TRUE]
OpenCode == [Plain EXCEPT !.opencode = TRUE]
Swarm == [OpenCode EXCEPT !.swarm = TRUE]

EveryKind == {Plain, Sol, Strategic, OpenCode, Swarm}
=============================================================================
