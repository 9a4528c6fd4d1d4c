----------------------------- MODULE MCProject -----------------------------
(***************************************************************************)
(* Instances of Project for TLC.                                           *)
(***************************************************************************)
EXTENDS Project
=============================================================================
