----------------------------- MODULE Submission ------------------------------
(***************************************************************************)
(* How a request becomes a run: runs_create (core_api.py) down to          *)
(* RunRepository.create (run_store.py), as the steps of a transaction that *)
(* others interleave with.  A submission locks the row of its thread, looks*)
(* for a run with its idempotency key, respects the multitask strategy, and*)
(* inserts the run; the unique index on the key has the last word.         *)
(*                                                                         *)
(* READ COMMITTED: a transaction sees what others have committed.  An      *)
(* INSERT that meets an uncommitted equal key waits for its transaction.   *)
(***************************************************************************)
EXTENDS Integers, Sequences, FiniteSets

CONSTANTS
    Requests,    \* requests in flight
    Threads,     \* thread ids
    Keys,        \* idempotency keys, each scoped to its principal
    NoKey,       \* a submission without a key
    Interrupts,  \* interrupt ids
    NoInterrupt, \* a run that is not a resume
    MaxRuns      \* bound on runs

ASSUME SubmissionConstants ==
    /\ NoKey \notin Keys
    /\ NoInterrupt \notin Interrupts
    /\ MaxRuns \in Nat

VARIABLES
    exists,   \* threads that have a row
    runs,     \* the runs ever made, in the order of creation
    req,      \* requests
    dirty     \* history: submissions under the strategy "reject" beside an active run

\* What a submission asks for.
Order == [thread : Threads, key : Keys \cup {NoKey}, reject : BOOLEAN,
          resume : Interrupts \cup {NoInterrupt}]

NoOrder == [thread |-> CHOOSE t \in Threads : TRUE, key |-> NoKey, reject |-> FALSE,
            resume |-> NoInterrupt]
NoRequest == [pc |-> "idle", order |-> NoOrder, run |-> 0, new |-> FALSE]

\* stopping: cancelled, or undoing: to be rolled back, while a worker has the lease.
\* ended: by its graph; failed: without, which a retry has not mended; cancelled:
\* and nobody has the lease; deleted: the row is gone.
Status == {"pending", "running", "stopping", "undoing",
           "ended", "failed", "cancelled", "deleted"}

Run == [thread : Threads, key : Keys \cup {NoKey}, resume : Interrupts \cup {NoInterrupt},
        status : Status]

\* The phases in which a request holds the lock of the thread row; "lookup" is
\* the first after the SELECT ... FOR UPDATE.
Locking == {"lookup", "insert", "inserted"}
Phases == {"idle", "thread", "lock", "done", "refused"} \cup Locking

SubmissionTypeOK ==
    /\ exists \subseteq Threads
    /\ runs \in Seq(Run) /\ Len(runs) <= MaxRuns
    /\ req \in [Requests -> [pc : Phases, order : Order, run : 0..MaxRuns, new : BOOLEAN]]
    /\ dirty \in BOOLEAN

Active(t) == \E n \in 1..Len(runs) : runs[n].thread = t /\ runs[n].status \in {"pending", "running"}

\* Runs with the key k: the unique index allows one, and a deleted row frees it.
WithKey(k) == {n \in 1..Len(runs) : k # NoKey /\ runs[n].key = k /\ runs[n].status # "deleted"}

-----------------------------------------------------------------------------
(* Steps of a submission *)

Goto(q, pc) == req' = [req EXCEPT ![q].pc = pc]

\* The answer is an error.
Refuse(q) == req' = [req EXCEPT ![q] = [NoRequest EXCEPT !.pc = "refused"]]

\* _thread_for_run: a missing thread is refused or, on demand, inserted.
Submit(q, order, create) ==
    /\ req[q].pc = "idle"
    /\ IF order.thread \in exists \/ create
       THEN req' = [req EXCEPT ![q].pc = IF order.thread \in exists THEN "lock" ELSE "thread",
                               ![q].order = order]
       ELSE Refuse(q)
    /\ UNCHANGED <<exists, runs, dirty>>

\* Another transaction has inserted the same thread and not committed.
ThreadTaken(q) ==
    \E p \in Requests \ {q} : /\ req[p].new
                              /\ req[p].order.thread = req[q].order.thread

\* The INSERT waits for it, and fails if it commits.
InsertThread(q) ==
    /\ req[q].pc = "thread"
    /\ ~ThreadTaken(q)
    /\ IF req[q].order.thread \in exists
       THEN Refuse(q)
       ELSE req' = [req EXCEPT ![q].pc = "lock", ![q].new = TRUE]
    /\ UNCHANGED <<exists, runs, dirty>>

\* Faulty variant of LockFree: enqueueing submissions do not wait.
LockFreeEnqueue(q) ==
    req[q].order.reject =>
        ~\E p \in Requests : req[p].pc \in Locking /\ req[p].order.thread = req[q].order.thread

\* SELECT ... FOR UPDATE on the thread row.
LockFree(q) ==
    ~\E p \in Requests : req[p].pc \in Locking /\ req[p].order.thread = req[q].order.thread

Lock(q) ==
    /\ req[q].pc = "lock"
    /\ LockFree(q)
    /\ Goto(q, "lookup")
    /\ UNCHANGED <<exists, runs, dirty>>

\* A conflict is an answer too: the transaction commits, and a thread that was
\* made for the run stays.
Conflict(q) ==
    /\ Refuse(q)
    /\ exists' = exists \cup {req[q].order.thread}
    /\ UNCHANGED <<runs, dirty>>

\* An equal key of the same target is answered with its run, one of another
\* target is a conflict.
Answer(q, n) ==
    IF runs[n].thread # req[q].order.thread THEN Conflict(q)
    ELSE /\ req' = [req EXCEPT ![q].pc = "done", ![q].run = n, ![q].new = FALSE]
         /\ exists' = exists \cup {req[q].order.thread}
         /\ UNCHANGED <<runs, dirty>>

\* The key is looked up, and "reject" refuses a thread with an active run, unless
\* the submission resumes it.
Lookup(q) ==
    LET o == req[q].order
    IN  /\ req[q].pc = "lookup"
        /\ IF WithKey(o.key) # {} THEN \E n \in WithKey(o.key) : Answer(q, n)
           ELSE IF o.reject /\ o.resume = NoInterrupt /\ Active(o.thread)
           THEN Conflict(q)
           ELSE Goto(q, "insert") /\ UNCHANGED <<exists, runs, dirty>>

\* Another transaction has inserted the same key and not committed.
KeyTaken(q) ==
    \E p \in Requests \ {q} : /\ req[p].pc = "inserted"
                              /\ req[q].order.key # NoKey
                              /\ req[p].order.key = req[q].order.key

\* Faulty variant of InsertRun: the unique index is not there.
InsertRunTwice(q) ==
    /\ req[q].pc = "insert"
    /\ Goto(q, "inserted")
    /\ UNCHANGED <<exists, runs, dirty>>

\* The INSERT; after an IntegrityError the key is looked up again.
InsertRun(q) ==
    /\ req[q].pc = "insert"
    /\ ~KeyTaken(q)
    /\ IF WithKey(req[q].order.key) # {}
       THEN \E n \in WithKey(req[q].order.key) : Answer(q, n)
       ELSE Goto(q, "inserted") /\ UNCHANGED <<exists, runs, dirty>>

\* The run is there for all, with the thread made for it.
CommitRun(q) ==
    LET o == req[q].order
    IN  /\ req[q].pc = "inserted"
        /\ Len(runs) < MaxRuns
        /\ runs' = Append(runs, [thread |-> o.thread, key |-> o.key, resume |-> o.resume,
                                 status |-> "pending"])
        /\ exists' = exists \cup {o.thread}
        /\ dirty' = (dirty \/ (o.reject /\ o.resume = NoInterrupt /\ Active(o.thread)))
        /\ req' = [req EXCEPT ![q].pc = "done", ![q].run = Len(runs'), ![q].new = FALSE]

\* The connection breaks: the transaction is rolled back.
Rollback(q) ==
    /\ req[q].pc \in Locking \cup {"thread", "lock"}
    /\ Refuse(q)
    /\ UNCHANGED <<exists, runs, dirty>>

SubmissionStep(q) ==
    InsertThread(q) \/ Lock(q) \/ Lookup(q) \/ InsertRun(q) \/ CommitRun(q) \/ Rollback(q)

-----------------------------------------------------------------------------
(* Properties *)

\* Requests that are repeated with one key, in sequence or at the same time, in
\* one process or in several, and on whichever threads, make one run, unless that
\* was deleted in between, and those that succeed are answered with that run.
Idempotent ==
    /\ \A k \in Keys : Cardinality(WithKey(k)) <= 1
    /\ \A q \in Requests :
          req[q].pc = "done" => /\ runs[req[q].run].key = req[q].order.key
                                /\ runs[req[q].run].thread = req[q].order.thread

\* "reject" cannot race past another submission: a run is not created under it
\* while the thread has a pending or running one.
RejectAlone == ~dirty

=============================================================================
