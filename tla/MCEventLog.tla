----------------------------- MODULE MCEventLog -----------------------------
(* Instances of EventLog for TLC. *)
EXTENDS EventLog, TLC

CONSTANTS r1, r2, t1

\* Two runs of one thread.
OneThread == [r \in Runs |-> t1]

SameRuns == Permutations(Runs)

=============================================================================
