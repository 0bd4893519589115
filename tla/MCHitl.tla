------------------------------- MODULE MCHitl --------------------------------
(* Instances of Hitl, with the Submission it extends, for TLC. *)
EXTENDS Hitl, TLC

CONSTANTS q1, q2, t1, t2, i1, p1, start

\* The key of a run.start, and those of the answers.
AllKeys == {start} \cup (Principals \X Interrupts)

\* Starts with one key: under "reject" on the thread of the interrupts, and on
\* demand on another.
KeyedStarts ==
    {[thread |-> t, key |-> start, reject |-> t = Asked, create |-> t # Asked] : t \in Threads}

Alike == Permutations(Requests)
=============================================================================
