--------------------------- MODULE MCCheckpoints ----------------------------
(* An instance of Checkpoints for TLC. *)
EXTENDS Checkpoints, TLC

CONSTANTS r1, r2, t1, t2, main, sub

\* Both runs are of the thread that is copied.
OneThread == [r \in Runs |-> t1]

Alike == Permutations(Runs)
=============================================================================
