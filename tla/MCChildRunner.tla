--------------------------- MODULE MCChildRunner ---------------------------
(***************************************************************************)
(* Instances of ChildRunner for TLC.                                       *)
(***************************************************************************)
EXTENDS ChildRunner
=============================================================================
