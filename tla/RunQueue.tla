------------------------------ MODULE RunQueue -------------------------------
(***************************************************************************)
(* What a client is promised of its runs, without slots, leases and        *)
(* attempts: a run that was submitted waits, runs alone on its thread, may *)
(* be put back by the system, and ends.  RunStore implements it.           *)
(***************************************************************************)
CONSTANTS Runs, ThreadOf, NoThread

VARIABLE state   \* "absent", "queued", "running", "ended" or "removed", for each run

In(s) == {r \in Runs : state[r] = s}

\* The runs that may not run beside r.
Rivals(r) == {q \in Runs \ {r} : ThreadOf[q] = ThreadOf[r] /\ ThreadOf[r] # NoThread}

Becomes(r, s) == [state EXCEPT ![r] = s]

Init == state = [r \in Runs |-> "absent"]

Submit(r) ==
    /\ r \in In("absent")
    /\ state' = Becomes(r, "queued")

Start(r) ==
    /\ r \in In("queued")
    /\ Rivals(r) \cap In("running") = {}
    /\ state' = Becomes(r, "running")

\* Runs end by themselves or by a cancellation.  The reaper takes several at once:
\* some wait again, others have no attempt left.
Leave(again, over) ==
    /\ again \subseteq In("running")
    /\ over \subseteq In("queued") \cup In("running")
    /\ state' = [r \in Runs |-> IF r \in over THEN "ended"
                               ELSE IF r \in again THEN "queued" ELSE state[r]]

\* An end is taken back: a slot reports a failure for a row that it loaded before
\* the run was cancelled, and the run waits for another attempt.
Revive(r) ==
    /\ r \in In("ended")
    /\ state' = Becomes(r, "queued")

\* A client deletes the run, or a rollback does.
Remove(r) ==
    /\ r \notin In("absent")
    /\ state' = Becomes(r, "removed")

Next ==
    \/ \E r \in Runs : Submit(r) \/ Start(r) \/ Revive(r) \/ Remove(r)
    \/ \E again, over \in SUBSET Runs : Leave(again, over)

Spec == Init /\ [][Next]_state

=============================================================================
