----------------------------- MODULE MCJobQueue -----------------------------
(* Instances of JobQueue for TLC. *)
EXTENDS JobQueue, TLC

CONSTANTS r1, r2, t1, w1, w2, s1, c1

\* All runs queue on one thread.
QueueThreadOf == [r \in Runs |-> t1]

\* Runs, runners and requests are interchangeable.
Alike == Permutations(Runs) \cup Permutations(Runners) \cup Permutations(Requests)

\* On the one thread there is nothing to judge once a worker was exposed: all three
\* properties except it then, and `strayed` only grows.
Unstrayed == strayed = {}
=============================================================================
