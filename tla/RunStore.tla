------------------------------ MODULE RunStore ------------------------------
(***************************************************************************)
(* The durable run queue of GraphHarbor: the runs, run_leases and threads  *)
(* tables as RunRepository (run_store.py) changes them, the execution      *)
(* slots that claim, execute and finalise runs (production_worker.py), the *)
(* lease reaper, and the API requests that cancel, roll back, delete and   *)
(* reorder runs (core_api.py, checkpoint_mutations.py).                    *)
(*                                                                         *)
(* One action is one committed PostgreSQL transaction (or one step of a    *)
(* slot between two transactions).  The exception is the finalisation of a *)
(* run: production_worker.py loads the row without a lock and only then    *)
(* calls RunRepository.finish/fail, whose SELECT ... FOR UPDATE does not   *)
(* refresh the loaded attributes.  That is two steps here, Load and        *)
(* Finalize, and Finalize decides on what Load saw.                        *)
(*                                                                         *)
(* Wall-clock time is two flags of a row: `live` (lease_expires_at > now)  *)
(* and `backoff` (next_attempt_at > now).                                  *)
(***************************************************************************)
EXTENDS Integers

CONSTANTS
    Runs,         \* run ids; a uuid is used once
    Threads,      \* thread ids
    Workers,      \* lease owners: "host:pid:slot-N"
    NoThread,     \* thread_id of a threadless run
    NoWorker,     \* lease_owner IS NULL
    NoRun,        \* a slot with no job
    ThreadOf,     \* the thread a run is submitted to
    IsResume,     \* whether the run carries command.resume
    MaxAttempts,  \* max_attempts
    Endings,      \* the ways the execution of a graph may end
    QueueBound    \* bound on creation, queue and capture positions

ASSUME ConstantsAssumption ==
    /\ NoThread \notin Threads
    /\ NoWorker \notin Workers
    /\ NoRun \notin Runs
    /\ ThreadOf \in [Runs -> Threads \cup {NoThread}]
    /\ IsResume \in [Runs -> BOOLEAN]
    /\ MaxAttempts \in Nat \ {0}
    /\ QueueBound \in Nat
    /\ Endings \subseteq {"success", "hitl", "timeout", "infra", "business"}

VARIABLES
    run,      \* the runs table, with the run's lease and baseline rows
    thread,   \* the threads table
    slot      \* the execution slots: what each worker process remembers

vars == <<run, thread, slot>>

-----------------------------------------------------------------------------
(* Rows *)

Terminal == {"success", "error", "timeout", "interrupted"}

\* "new": the id is not used yet; "deleted": the row is gone.
RunStatus == {"new", "pending", "running", "deleted"} \cup Terminal

RunReason == {"none", "completed", "retry", "shutdown_requeue",
              "infrastructure_error", "business_error", "timeout",
              "cancel_requested", "hitl_interrupt", "rollback"}

ThreadStatus == {"idle", "busy", "interrupted"}

Outcomes == {"success", "hitl", "timeout", "infra", "business", "cancel"}

Lease == [owner : Workers \cup {NoWorker}, gen : 0..MaxAttempts]
NoLease == [owner |-> NoWorker, gen |-> 0]

\* `at` orders the captures (_captured_at); 0 when there is no baseline row.
Baseline == [at : 0..QueueBound, status : ThreadStatus, interrupts : BOOLEAN]
NoBaseline == [at |-> 0, status |-> "idle", interrupts |-> FALSE]

RunRow ==
    [status  : RunStatus,
     reason  : RunReason,
     retry   : 0..MaxAttempts,             \* retry_count, also the generation
     owner   : Workers \cup {NoWorker},    \* lease_owner
     live    : BOOLEAN,                    \* lease_expires_at > now
     lease   : Lease,                      \* the RunLeaseRow
     backoff : BOOLEAN,                    \* pending with next_attempt_at > now
     born    : 0..QueueBound,              \* created_at, as a position
     pos     : 0..QueueBound,              \* queue_position
     base    : Baseline,                   \* the RunCheckpointBaselineRow
     term    : {"none"} \cup Terminal]     \* status in the terminal event

NoRow == [status |-> "new", reason |-> "none", retry |-> 0,
          owner |-> NoWorker, live |-> FALSE, lease |-> NoLease,
          backoff |-> FALSE, born |-> 0, pos |-> 0, base |-> NoBaseline,
          term |-> "none"]

DeletedRow == [NoRow EXCEPT !.status = "deleted"]

ThreadRow == [exists : BOOLEAN, status : ThreadStatus, interrupts : BOOLEAN]

\* What run_once keeps in local variables.  `saw` is the part of the rows that
\* the finalisation loaded and later decides on.
Phases == {"idle", "claimed", "executing", "cancelling", "failing", "loaded",
           "stopping", "acking"}

Saw == [retry : 0..MaxAttempts, status : ThreadStatus, interrupts : BOOLEAN]
NoSaw == [retry |-> 0, status |-> "idle", interrupts |-> FALSE]

Slot ==
    [pc      : Phases,
     job     : Runs \cup {NoRun},
     gen     : 0..MaxAttempts,     \* the generation its checkpoint writer uses
     cancel  : BOOLEAN,            \* cancel_event
     outcome : Outcomes,           \* how execution ended, once loaded
     saw     : Saw]

IdleSlot == [pc |-> "idle", job |-> NoRun, gen |-> 0, cancel |-> FALSE,
             outcome |-> "success", saw |-> NoSaw]

TypeOK ==
    /\ run \in [Runs -> RunRow]
    /\ thread \in [Threads -> ThreadRow]
    /\ slot \in [Workers -> Slot]

-----------------------------------------------------------------------------
(* Helpers *)

Exists(r) == run[r].status \notin {"new", "deleted"}
Threaded(r) == ThreadOf[r] # NoThread

\* The other runs of r's thread.
Siblings(r) ==
    {q \in Runs \ {r} : Threaded(r) /\ ThreadOf[q] = ThreadOf[r] /\ Exists(q)}

\* A run whose thread row is there, or that needs none: record_event raises
\* for a missing thread, and the whole transaction is rolled back.
CanRecord(r) == Threaded(r) => thread[ThreadOf[r]].exists

\* Faulty variant of Occupies: the rollback barrier is forgotten.
OccupiesWhileRunning(q) == run[q].status = "running"

\* Running, or waiting for its rollback.
Occupies(q) == run[q].status = "running" \/ run[q].reason = "rollback"

\* Faulty variant of IsTerminal: a cancelled run is not counted as ended.
IsTerminalCompleted(s) == s \in Terminal \ {"interrupted"}

IsTerminal(s) == s \in Terminal

\* Faulty variant of AttemptsLeft: off by one.
AttemptsLeftOrLast(r) == run[r].retry <= MaxAttempts

\* retry_count < max_attempts.
AttemptsLeft(r) == run[r].retry < MaxAttempts

SetThread(r, f) ==
    thread' = IF Threaded(r) /\ thread[ThreadOf[r]].exists
              THEN [thread EXCEPT ![ThreadOf[r]] = f] ELSE thread

\* The thread row with a new status.
WithStatus(t, s) == [thread[t] EXCEPT !.status = s]

\* Faulty variant of Closed: the lease row is left behind.
ClosedKeepingLease(row, st, why) ==
    [row EXCEPT !.status = st, !.reason = why,
                !.owner = NoWorker, !.live = FALSE, !.backoff = FALSE,
                !.term = IF IsTerminal(st) /\ @ = "none" THEN st ELSE @]

\* A transition out of the claim: the lease columns are cleared, the lease row
\* is deleted, and the first terminal event of a run is the one that stays.
Closed(row, st, why) ==
    [row EXCEPT !.status = st, !.reason = why,
                !.owner = NoWorker, !.live = FALSE, !.lease = NoLease,
                !.backoff = FALSE,
                !.term = IF IsTerminal(st) /\ @ = "none" THEN st ELSE @]

\* Faulty variant of Requeued: the attempt is given back to the run.
RequeuedForFree(row, why) ==
    [Closed(row, "pending", why) EXCEPT !.backoff = TRUE, !.retry = @ - 1]

\* Back to the queue, to be claimed again after the backoff delay.
Requeued(row, why) == [Closed(row, "pending", why) EXCEPT !.backoff = TRUE]

-----------------------------------------------------------------------------
(* Submission *)

\* RunRepository.create: under the thread lock, at the end of the thread's queue.
Create(r, strategy) ==
    /\ run[r].status = "new"
    /\ CanRecord(r)
    /\ strategy = "reject" /\ ~IsResume[r]
          => \A q \in Siblings(r) : run[q].status \notin {"pending", "running"}
    /\ \E p, b \in 1..QueueBound :
          /\ \A q \in Runs : Exists(q) => run[q].born < b
          /\ b = 1 \/ \E q \in Runs : Exists(q) /\ run[q].born = b - 1
          /\ \A q \in Siblings(r) : run[q].pos < p
          /\ p = 1 \/ \E q \in Siblings(r) : run[q].pos = p - 1
          /\ run' = [run EXCEPT ![r] = [NoRow EXCEPT !.status = "pending",
                                                     !.born = b, !.pos = p]]
    /\ UNCHANGED <<thread, slot>>

-----------------------------------------------------------------------------
(* Claiming *)

\* Queue order inside a thread: resume runs first, then queue_position.
Before(r, q) ==
    \/ IsResume[r] /\ ~IsResume[q]
    \/ IsResume[r] = IsResume[q] /\ run[r].pos < run[q].pos

\* Faulty variant of ThreadFree: the siblings are not looked at.
ThreadFreeAlways(r) == TRUE

\* Faulty variant of ThreadFree: only running rows block the thread.
ThreadFreeOfRunning(r) == \A q \in Siblings(r) \cup {r} : ~Occupies(q)

\* Faulty variant of ThreadFree: a lease blocks the thread even once expired.
ThreadFreeOfOwners(r) ==
    \A q \in Siblings(r) \cup {r} : ~Occupies(q) /\ run[q].owner = NoWorker

\* Nothing runs on r's thread, waits for its rollback or, although stopped,
\* still has a live lease.
ThreadFree(r) ==
    \A q \in Siblings(r) \cup {r} :
        ~Occupies(q) /\ ~(run[q].owner # NoWorker /\ run[q].live)

\* The `eligible` predicate of claim_next.
Eligible(r) ==
    /\ run[r].status = "pending"
    /\ ~run[r].backoff
    /\ Threaded(r) =>
          /\ ThreadFree(r)
          /\ thread[ThreadOf[r]].exists /\ thread[ThreadOf[r]].interrupts => IsResume[r]
          /\ \A q \in Siblings(r) : run[q].status = "pending" => Before(r, q)

\* The run claim_next looks at: the oldest eligible one.  Rows another
\* transaction holds (`locked`) are passed over by SKIP LOCKED.
Candidate(r, locked) ==
    /\ r \notin locked
    /\ Eligible(r)
    /\ \A q \in Runs \ locked : Eligible(q) => run[r].born <= run[q].born

\* The row after a claim by w.  The baseline is captured by the first claim only.
Claimed(r, w, at) ==
    [run[r] EXCEPT
        !.status = "running", !.reason = "none", !.backoff = FALSE,
        !.retry = @ + 1, !.owner = w, !.live = TRUE,
        !.lease = [owner |-> w, gen |-> run[r].retry + 1],
        !.base = IF Threaded(r) /\ @.at = 0
                 THEN [at |-> at, status |-> thread[ThreadOf[r]].status,
                       interrupts |-> thread[ThreadOf[r]].interrupts]
                 ELSE @]

\* The next capture position of r's thread, if r needs one.
CaptureAt(r, at) ==
    IF Threaded(r) /\ run[r].base.at = 0
    THEN /\ \A q \in Siblings(r) : run[q].base.at < at
         /\ at = 1 \/ \E q \in Siblings(r) : at = run[q].base.at + 1
    ELSE at = 0

Claimable(w, r, locked) ==
    /\ slot[w].pc = "idle"
    /\ Candidate(r, locked)
    /\ CanRecord(r)                 \* thread is None: return None

\* claim_next: the slot owns a new generation of the run.
Claim(w, r, locked) ==
    /\ Claimable(w, r, locked)
    /\ AttemptsLeft(r)
    /\ \E at \in 0..QueueBound :
          /\ CaptureAt(r, at)
          /\ run' = [run EXCEPT ![r] = Claimed(r, w, at)]
    /\ SetThread(r, WithStatus(ThreadOf[r], "busy"))
    /\ slot' = [slot EXCEPT ![w] = [IdleSlot EXCEPT !.pc = "claimed", !.job = r,
                                                    !.gen = run[r].retry + 1]]

\* run_once, the assistant is gone: the claim is failed in the same transaction.
ClaimWithoutAssistant(w, r, locked) ==
    /\ Claimable(w, r, locked)
    /\ AttemptsLeft(r)
    /\ \E at \in 0..QueueBound :
          /\ CaptureAt(r, at)
          /\ run' = [run EXCEPT ![r] =
                        Closed(Claimed(r, w, at), "error", "business_error")]
    /\ SetThread(r, WithStatus(ThreadOf[r], "busy"))
    /\ UNCHANGED slot

\* claim_next, attempts used up: the run ends instead of being claimed.
ClaimExhausted(w, r, locked) ==
    /\ Claimable(w, r, locked)
    /\ ~AttemptsLeft(r)
    /\ run' = [run EXCEPT ![r] = Closed(@, "error", "infrastructure_error")]
    /\ SetThread(r, WithStatus(ThreadOf[r], "idle"))
    /\ UNCHANGED slot

ClaimNext(w, r, locked) ==
    \/ Claim(w, r, locked)
    \/ ClaimWithoutAssistant(w, r, locked)
    \/ ClaimExhausted(w, r, locked)

-----------------------------------------------------------------------------
(* Execution *)

\* The run a slot works on.
JobRow(w) == run[slot[w].job]

\* The slot still holds the claim of its job.
Owns(w) ==
    Exists(slot[w].job) /\ JobRow(w).owner = w /\ ~IsTerminal(JobRow(w).status)

\* To the next phase; what only the last one used is forgotten.
Goto(w, phase) ==
    slot' = [slot EXCEPT ![w] = [IdleSlot EXCEPT !.pc = phase, !.job = slot[w].job,
                                                 !.gen = slot[w].gen]]

\* _cancel_requested: the row is gone or terminal.  The Redis control key is
\* set after the row became terminal, and its loss is tolerated: it adds nothing
\* that this poll and HeartbeatError do not allow.
CancelRequested(w) ==
    ~Exists(slot[w].job) \/ IsTerminal(JobRow(w).status)

\* RunRepository.renew succeeds.
Renewable(w) ==
    /\ Exists(slot[w].job)
    /\ JobRow(w).status = "running"
    /\ JobRow(w).owner = w
    /\ JobRow(w).lease.owner = w
    /\ JobRow(w).live

\* run_once with an unverifiable runtime context: fail() and return, before the
\* heartbeat and outside the try ... finally that stops a run.
FailContext(w) ==
    /\ slot[w].pc = "claimed"
    /\ run' = IF Owns(w) /\ CanRecord(slot[w].job)
              THEN [run EXCEPT ![slot[w].job] = Closed(@, "error", "business_error")]
              ELSE run
    /\ slot' = [slot EXCEPT ![w] = IdleSlot]
    /\ UNCHANGED <<thread>>

\* run_once starts the heartbeat, publishes lifecycle "running", polls for a
\* cancellation and starts the graph.  A missing run or thread raises
\* RunOwnershipError.
Begin(w) ==
    /\ slot[w].pc = "claimed"
    /\ Goto(w, IF ~(Exists(slot[w].job) /\ CanRecord(slot[w].job)) THEN "stopping"
               ELSE IF CancelRequested(w) THEN "cancelling" ELSE "executing")
    /\ UNCHANGED <<run, thread>>

\* _heartbeat: renewal refused or a cancellation seen.
HeartbeatLost(w) ==
    /\ slot[w].pc = "executing"
    /\ ~slot[w].cancel
    /\ ~Renewable(w) \/ CancelRequested(w)
    /\ slot' = [slot EXCEPT ![w].cancel = TRUE]
    /\ UNCHANGED <<run, thread>>

\* _heartbeat: any exception while renewing.
HeartbeatError(w) ==
    /\ slot[w].pc = "executing"
    /\ ~slot[w].cancel
    /\ slot' = [slot EXCEPT ![w].cancel = TRUE]
    /\ UNCHANGED <<run, thread>>

\* Execution ended with outcome o and the finalisation transaction loads the
\* rows, unlocked.  A terminal, deleted or foreign row ends it here.
Load(w, o) ==
    /\ \/ slot[w].pc = "executing" /\ (o = "cancel" => slot[w].cancel)
       \/ slot[w].pc = "cancelling" /\ o = "cancel"
       \/ slot[w].pc = "failing" /\ o \in {"infra", "business"}
    /\ IF Owns(w)
       THEN slot' = [slot EXCEPT
               ![w].pc = "loaded",
               ![w].outcome = o,
               ![w].saw =
                  [retry |-> JobRow(w).retry,
                   status |-> IF Threaded(slot[w].job)
                              THEN thread[ThreadOf[slot[w].job]].status ELSE "idle",
                   interrupts |-> Threaded(slot[w].job)
                                  /\ thread[ThreadOf[slot[w].job]].interrupts]]
       ELSE Goto(w, "stopping")
    /\ UNCHANGED <<run, thread>>

\* An attribute set to the value it was loaded with is not part of the UPDATE.
Flushed(loaded, value, current) == IF value = loaded THEN current ELSE value

\* RunRepository.finish and .fail, deciding on the row as Load saw it.
FinalRow(w) ==
    CASE slot[w].outcome = "success" ->
            Closed(JobRow(w), "success", "completed")
      [] slot[w].outcome = "hitl" ->
            Closed(JobRow(w), "interrupted", "hitl_interrupt")
      [] slot[w].outcome = "cancel" ->
            Closed(JobRow(w), "interrupted", "cancel_requested")
      [] slot[w].outcome = "timeout" ->
            Closed(JobRow(w), "timeout", "timeout")
      [] slot[w].outcome = "business" ->
            Closed(JobRow(w), "error", "business_error")
      [] slot[w].outcome = "infra" ->
            IF slot[w].saw.retry < MaxAttempts
            THEN Requeued(JobRow(w), "retry")
            ELSE Closed(JobRow(w), "error", "infrastructure_error")

\* The projection the finalisation writes to the thread row t.
FinalThread(w, t) ==
    CASE slot[w].outcome = "success" ->
            [t EXCEPT !.status = Flushed(slot[w].saw.status, "idle", @),
                      !.interrupts = Flushed(slot[w].saw.interrupts, FALSE, @)]
      [] slot[w].outcome = "hitl" ->
            [t EXCEPT !.status = Flushed(slot[w].saw.status, "interrupted", @),
                      !.interrupts = TRUE]
      [] slot[w].outcome = "cancel" -> [t EXCEPT !.status = "idle"]
      [] slot[w].outcome \in {"timeout", "infra", "business"} ->
            [t EXCEPT !.status = Flushed(slot[w].saw.status, "idle", @)]

\* The finalisation transaction commits.
Finalize(w) ==
    /\ slot[w].pc = "loaded"
    /\ IF Exists(slot[w].job) /\ CanRecord(slot[w].job)
       THEN /\ run' = [run EXCEPT ![slot[w].job] = FinalRow(w)]
            /\ SetThread(slot[w].job, FinalThread(w, thread[ThreadOf[slot[w].job]]))
       ELSE UNCHANGED <<run, thread>>
    /\ Goto(w, "stopping")

\* The finalisation transaction fails: a success becomes a failure of the run,
\* any other outcome is given up and left to the reaper.
FinalizeLost(w) ==
    /\ slot[w].pc = "loaded"
    /\ Goto(w, IF slot[w].outcome \in {"success", "hitl"} THEN "failing" ELSE "stopping")
    /\ UNCHANGED <<run, thread>>

\* requeue_for_shutdown: the worker drains, or gives up waiting for the drain.
RequeueForShutdown(w) ==
    /\ slot[w].pc = "executing"
    /\ IF Owns(w) /\ CanRecord(slot[w].job)
       THEN /\ run' = [run EXCEPT ![slot[w].job] = Requeued(@, "shutdown_requeue")]
            /\ SetThread(slot[w].job, WithStatus(ThreadOf[slot[w].job], "idle"))
       ELSE UNCHANGED <<run, thread>>
    /\ Goto(w, "stopping")

\* The finally block: a cancelled run gives up the lease it retained while it
\* was still executing.
Release(w) ==
    /\ slot[w].pc = "stopping"
    /\ IF /\ Exists(slot[w].job)
          /\ JobRow(w).owner = w
          /\ JobRow(w).reason = "cancel_requested"
       THEN /\ run' = [run EXCEPT ![slot[w].job].owner = NoWorker,
                                  ![slot[w].job].live = FALSE,
                                  ![slot[w].job].lease = NoLease]
            /\ SetThread(slot[w].job,
                  LET t == ThreadOf[slot[w].job]
                  IN  WithStatus(t, IF thread[t].interrupts THEN "interrupted" ELSE "idle"))
       ELSE UNCHANGED <<run, thread>>
    /\ Goto(w, "acking")

\* The process dies, or a transaction of the finally block fails.  The slot
\* comes back empty; whatever it held in the database stays there.
Crash(w) ==
    /\ slot[w].pc # "idle"
    /\ slot' = [slot EXCEPT ![w] = IdleSlot]
    /\ UNCHANGED <<run, thread>>

-----------------------------------------------------------------------------
(* Rollback *)

\* rollback_run accepts r: it is the latest run of its thread.  The comparison
\* of checkpoint contents is left out; it can only refuse more requests.
RollbackAllowed(r) ==
    Threaded(r) =>
        /\ thread[ThreadOf[r]].exists
        /\ \A q \in Siblings(r) : ~Occupies(q)
        /\ IF run[r].base.at = 0
           THEN run[r].retry = 0 /\ run[r].status \in {"pending", "interrupted"}
           ELSE \A q \in Siblings(r) : run[q].base.at < run[r].base.at

\* rollback_run: the thread projection of the baseline is restored and the run
\* is deleted, with its lease, baseline and events.
RollbackRun(r) ==
    /\ run' = [run EXCEPT ![r] = DeletedRow]
    /\ thread' = IF Threaded(r) /\ run[r].base.at > 0
                 THEN [thread EXCEPT ![ThreadOf[r]] =
                          [exists |-> TRUE, status |-> run[r].base.status,
                           interrupts |-> run[r].base.interrupts]]
                 ELSE thread

\* Faulty variant of RollbackReady: only a lease that was given up counts.
RollbackReadyWhenReleased(r, by) ==
    /\ run[r].reason = "rollback"
    /\ run[r].owner \in {NoWorker, by}
    /\ RollbackAllowed(r)

\* complete_rollbacks may take r on behalf of `by`, a slot or NoWorker.
RollbackReady(r, by) ==
    /\ run[r].reason = "rollback"
    /\ run[r].owner \in {NoWorker, by} \/ ~run[r].live
    /\ RollbackAllowed(r)

\* complete_rollbacks by the reaper, or by an API request that waits.
CompleteRollbacks(r) ==
    /\ Exists(r)
    /\ RollbackReady(r, NoWorker)
    /\ RollbackRun(r)
    /\ UNCHANGED slot

\* The last step of the finally block: complete_rollbacks(owner, run_id).
AckRollback(w) ==
    /\ slot[w].pc = "acking"
    /\ IF Exists(slot[w].job) /\ RollbackReady(slot[w].job, w)
       THEN RollbackRun(slot[w].job)
       ELSE UNCHANGED <<run, thread>>
    /\ slot' = [slot EXCEPT ![w] = IdleSlot]

-----------------------------------------------------------------------------
(* Reaper and clock *)

\* Faulty variant of Expired: a run on its last attempt is not reaped.
ExpiredWithAttempts ==
    {r \in Runs : run[r].status = "running" /\ ~run[r].live /\ AttemptsLeft(r)}

\* Running rows whose lease has run out.
Expired == {r \in Runs : run[r].status = "running" /\ ~run[r].live}

\* requeue_expired: one transaction for all expired runs that are not locked.
\* It is all or nothing: an event that cannot be recorded aborts the batch.
RequeueExpired(batch) ==
    /\ batch # {}
    /\ \A r \in batch : CanRecord(r)
    /\ run' = [r \in Runs |->
                 IF r \notin batch THEN run[r]
                 ELSE IF ~AttemptsLeft(r)
                      THEN Closed(run[r], "error", "infrastructure_error")
                      ELSE Requeued(run[r], "shutdown_requeue")]
    /\ thread' = [t \in Threads |->
                    IF \E r \in batch : ThreadOf[r] = t
                    THEN WithStatus(t, "idle") ELSE thread[t]]
    /\ UNCHANGED slot

\* No renewal arrives in time.
LeaseExpires(r) ==
    /\ run[r].live
    /\ run' = [run EXCEPT ![r].live = FALSE]
    /\ UNCHANGED <<thread, slot>>

BackoffElapses(r) ==
    /\ run[r].backoff
    /\ run' = [run EXCEPT ![r].backoff = FALSE]
    /\ UNCHANGED <<thread, slot>>

-----------------------------------------------------------------------------
(* API requests *)

\* Faulty variant of Cancellable: the early return for ended runs is dropped.
CancellableAlways(r) == Exists(r)

\* _cancel_row returns early for a run that has ended.
Cancellable(r) == run[r].status \in {"pending", "running"}

\* _cancel_row, interrupt: the run ends at once; a running one keeps its lease
\* until its slot has stopped.
CancelledRow(r) ==
    LET ended == Closed(run[r], "interrupted", "cancel_requested")
    IN  IF run[r].status = "running"
        THEN [ended EXCEPT !.owner = run[r].owner, !.live = run[r].live,
                           !.lease = run[r].lease]
        ELSE ended

\* _cancel_row, and each run of a runs_queue cancel.
CancelInterrupt(r) ==
    /\ Cancellable(r)
    /\ CanRecord(r)
    /\ run' = [run EXCEPT ![r] = CancelledRow(r)]
    /\ UNCHANGED <<thread, slot>>

\* _cancel_row, rollback: at once, or marked until the lease is given up.
CancelRollback(r) ==
    /\ Exists(r)
    /\ RollbackAllowed(r)
    /\ IF run[r].owner = NoWorker
       THEN RollbackRun(r)
       ELSE /\ run' = [run EXCEPT ![r].status = "interrupted",
                                  ![r].reason = "rollback"]
            /\ UNCHANGED thread
    /\ UNCHANGED slot

\* runs_delete: any run of a thread, whatever it is doing.
RunsDelete(r) ==
    /\ Exists(r)
    /\ Threaded(r)
    /\ run' = [run EXCEPT ![r] = DeletedRow]
    /\ UNCHANGED <<thread, slot>>

\* The queued messages of t that runs_queue may move.
Queued(t) ==
    {r \in Runs : ThreadOf[r] = t /\ run[r].status = "pending" /\ ~IsResume[r]}

\* Faulty variant of Reorder: the queue is numbered from one again.
ReorderFromOne(t) ==
    /\ thread[t].exists
    /\ \E f \in [Queued(t) -> 1..QueueBound] :
          /\ \A q, r \in Queued(t) : f[q] = f[r] => q = r
          /\ run' = [r \in Runs |-> IF r \in Queued(t)
                                    THEN [run[r] EXCEPT !.pos = f[r]] ELSE run[r]]
    /\ UNCHANGED <<thread, slot>>

\* runs_queue, reorder: the queue's positions, dealt out again.
Reorder(t) ==
    /\ thread[t].exists
    /\ \E f \in [Queued(t) -> Queued(t)] :
          /\ \A q, r \in Queued(t) : f[q] = f[r] => q = r
          /\ run' = [r \in Runs |->
                       IF r \in Queued(t)
                       THEN [run[r] EXCEPT !.pos = run[f[r]].pos] ELSE run[r]]
    /\ UNCHANGED <<thread, slot>>

\* The rows that go with the thread's baselines.
WithoutBaselines(t) ==
    [r \in Runs |-> IF ThreadOf[r] = t THEN [run[r] EXCEPT !.base = NoBaseline]
                    ELSE run[r]]

\* threads_update_state: a write that is no run's supersedes the baselines.
UpdateState(t) ==
    /\ thread[t].exists
    /\ \A r \in Runs : ThreadOf[r] = t /\ Exists(r) => ~Occupies(r)
    /\ run' = WithoutBaselines(t)
    /\ UNCHANGED <<thread, slot>>

\* threads_delete: the thread with its baselines and events; its runs stay.
ThreadsDelete(t) ==
    /\ thread[t].exists
    /\ thread' = [thread EXCEPT ![t] = [exists |-> FALSE, status |-> "idle",
                                        interrupts |-> FALSE]]
    /\ run' = [r \in Runs |-> IF ThreadOf[r] = t
                              THEN [WithoutBaselines(t)[r] EXCEPT !.term = "none"]
                              ELSE run[r]]
    /\ UNCHANGED slot

-----------------------------------------------------------------------------
(* The specification *)

Init ==
    /\ run = [r \in Runs |-> NoRow]
    /\ thread = [t \in Threads |-> [exists |-> TRUE, status |-> "idle",
                                    interrupts |-> FALSE]]
    /\ slot = [w \in Workers |-> IdleSlot]

\* A slot of a worker process: run_forever / run_once.
SlotStep(w) ==
    \/ \E r \in Runs, locked \in SUBSET Runs : ClaimNext(w, r, locked)
    \/ FailContext(w)
    \/ Begin(w)
    \/ HeartbeatLost(w)
    \/ HeartbeatError(w)
    \/ \E o \in Endings \cup {"infra", "cancel"} : Load(w, o)
    \/ Finalize(w)
    \/ FinalizeLost(w)
    \/ RequeueForShutdown(w)
    \/ Release(w)
    \/ AckRollback(w)
    \/ Crash(w)

\* reap_once, and what the passing of time does to a row.
ReaperStep ==
    \/ \E r \in Runs : CompleteRollbacks(r)
    \/ \E batch \in SUBSET Expired : RequeueExpired(batch)
    \/ \E r \in Runs : LeaseExpires(r) \/ BackoffElapses(r)

\* Requests that submit, stop and order work.
ClientStep ==
    \/ \E r \in Runs, strategy \in {"enqueue", "reject"} : Create(r, strategy)
    \/ \E r \in Runs : CancelInterrupt(r) \/ CancelRollback(r)
    \/ \E t \in Threads : Reorder(t) \/ UpdateState(t)

\* Requests that delete rows under the workers.
DeleteStep ==
    \/ \E r \in Runs : RunsDelete(r)
    \/ \E t \in Threads : ThreadsDelete(t)

Next ==
    \/ \E w \in Workers : SlotStep(w)
    \/ ReaperStep
    \/ ClientStep
    \/ DeleteStep

Spec == Init /\ [][Next]_vars

\* The system without the requests that delete rows.
NextKept ==
    \/ \E w \in Workers : SlotStep(w)
    \/ ReaperStep
    \/ ClientStep

SpecKept == Init /\ [][NextKept]_vars

-----------------------------------------------------------------------------
(* Safety *)

\* r is running, or was stopped while it ran and its slot may still execute.
Holds(r) == run[r].status = "running" \/ (run[r].owner # NoWorker /\ run[r].live)

\* At most one run of a thread holds it, against every interleaving of claims,
\* the reaper, cancellations, deletions and finalisers with stale rows.
OneHolderPerThread ==
    \A r, q \in Runs :
        Threaded(r) /\ r # q /\ ThreadOf[r] = ThreadOf[q] /\ Holds(r) => ~Holds(q)

\* The two copies of ownership, runs.lease_owner/retry_count and run_leases,
\* agree in every state, and only a running run or one that was stopped while
\* running has an owner.
LeaseMatchesRun ==
    \A r \in Runs :
        /\ run[r].status = "running" =>
              run[r].owner # NoWorker
              /\ run[r].lease = [owner |-> run[r].owner, gen |-> run[r].retry]
        /\ run[r].owner # NoWorker =>
              \/ run[r].status = "running"
              \/ /\ run[r].status = "interrupted"
                 /\ run[r].reason \in {"cancel_requested", "rollback"}
        /\ run[r].owner = NoWorker => run[r].lease = NoLease /\ ~run[r].live

\* A run waiting for its rollback is alone on its thread: nothing else runs
\* there or waits for a rollback, and no other run captured a later baseline, so
\* what the rollback restores is still the state before the thread's last run.
RollbackBarrier ==
    \A r \in Runs :
        run[r].reason = "rollback" =>
            /\ run[r].status = "interrupted"
            /\ \A q \in Siblings(r) :
                  ~Occupies(q) /\ (run[r].base.at > 0 => run[q].base.at < run[r].base.at)

\* No two slots ever hold the same generation of the same run, a slot whose
\* lease was reaped and that still executes included.
GenerationHeldOnce ==
    \A v, w \in Workers :
        /\ v # w
        /\ slot[v].job = slot[w].job
        /\ slot[v].job # NoRun
        => slot[v].gen # slot[w].gen

\* Faulty variant of MayWrite: the fence asks who owns the run, not whether he
\* still does.
MayWriteOwned(w) ==
    /\ slot[w].pc \notin {"idle", "claimed"}
    /\ Exists(slot[w].job)
    /\ JobRow(w).owner = w
    /\ JobRow(w).retry = slot[w].gen

\* FencedPostgresSaver._writer lets slot w write checkpoints of its job.
MayWrite(w) ==
    /\ slot[w].pc \notin {"idle", "claimed"}
    /\ Exists(slot[w].job)
    /\ JobRow(w).status = "running"
    /\ JobRow(w).live
    /\ JobRow(w).owner = w
    /\ JobRow(w).retry = slot[w].gen

\* The fence and the queue go together: while a slot may write checkpoints of a
\* thread, no other run of the thread is running or was stopped and is not given
\* up yet, so no slot of another run passes the fence, and none waits for a
\* rollback, which would restore the tables under the writer.
OneWriterPerThread ==
    \A w \in Workers : MayWrite(w) =>
        \A q \in Siblings(slot[w].job) : ~Holds(q) /\ run[q].reason # "rollback"

\* A run that has ended has its terminal event, unless the event went with the
\* thread or the run is about to be rolled back.
EndedRunHasEvent ==
    \A r \in Runs :
        /\ run[r].status \in Terminal
        /\ run[r].reason # "rollback"
        /\ CanRecord(r)
        => run[r].term # "none"

\* No two rows of a thread share a queue position, so the head of the queue is
\* unique whatever was reordered, deleted or resubmitted.
PositionsDistinct ==
    \A r \in Runs : \A q \in Siblings(r) : Exists(r) => run[r].pos # run[q].pos

\* Once a run has ended, its status and reason are left alone by everything but
\* a rollback request, a deletion and the one step that decides on a stale row:
\* the finalisation of a slot that loaded the row while it was still running.
EndedUnlessStale ==
    [][\A r \in Runs :
          /\ run[r].status \in Terminal
          /\ <<run'[r].status, run'[r].reason>> # <<run[r].status, run[r].reason>>
          => \/ run'[r].status = "deleted" \/ run'[r].reason = "rollback"
             \/ \E w \in Workers : slot[w].pc = "loaded" /\ slot[w].job = r]_vars

=============================================================================
