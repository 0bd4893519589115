----------------------------- MODULE MCRunStore -----------------------------
(* Small instances of RunStore for TLC. *)
EXTENDS RunStoreLiveness, TLC

CONSTANTS r1, r2, t1, t2, w1, w2

\* All runs queue on one thread.
QueueThreadOf == [r \in Runs |-> t1]

\* Each run has its own thread.
SplitThreadOf == [r \in Runs |-> IF r = r2 THEN t2 ELSE t1]

\* r2 answers an interrupt.
OneResume == [r \in Runs |-> r = r2]
NoResume == [r \in Runs |-> FALSE]

\* The slots of a worker are interchangeable.
Slots == Permutations(Workers)
=============================================================================
