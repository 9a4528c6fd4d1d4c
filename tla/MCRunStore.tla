----------------------------- MODULE MCRunStore -----------------------------
(* RunStore on instances small enough for TLC. *)
EXTENDS RunStore, TLC

CONSTANTS w1, w2, r1

TwoWriters == {w1, w2}
OneReader == {r1}
FirstController == {w1}

WriterSymmetry == Permutations(TwoWriters)
=============================================================================
