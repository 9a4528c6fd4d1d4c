----------------------------- MODULE LoopGuard -----------------------------
(***************************************************************************)
(* The part of the strategic loop detector that the control flow of a run  *)
(* reads: how many consecutive checkpoints have seen no criterion delta.   *)
(***************************************************************************)
EXTENDS Naturals

\* The loop record before the first checkpoint has no criteria fingerprint.
NoFingerprint == << >>

InitialLoop == [noDelta |-> 0, fp |-> NoFingerprint]

AtLeastOne(n) == IF n > 1 THEN n ELSE 1

\* no_delta_checkpoints after a checkpoint whose criteria fingerprint is now.
NoDeltaAfter(loop, now, moved, blocker) ==
    CASE moved -> 0
      [] ~moved /\ loop.fp = now /\ ~blocker -> loop.noDelta + 1
      [] ~moved /\ (loop.fp # now \/ blocker) /\ loop.fp # NoFingerprint ->
            AtLeastOne(loop.noDelta)
      [] ~moved /\ (loop.fp # now \/ blocker) /\ loop.fp = NoFingerprint -> 0

\* The loop record after one checkpoint of a run.
Checkpoint(loop, now, moved, blocker) ==
    [noDelta |-> NoDeltaAfter(loop, now, moved, blocker), fp |-> now]
=============================================================================
