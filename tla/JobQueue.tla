------------------------------ MODULE JobQueue ------------------------------
(***************************************************************************)
(* The queue of the LangGraph runtime contract (ops.py, queue.py): runs    *)
(* are claimed from the runs table, executed by the runners of any replica *)
(* under a heartbeat key in Redis, cancelled through a control message,    *)
(* and swept by any replica once the heartbeat is gone.  Unlike the        *)
(* production worker (RunStore) there is no lease row and no generation:   *)
(* the heartbeat key of a run is shared by whoever executes it.            *)
(*                                                                         *)
(* One action is one transaction, with the Redis commands inside it.  A    *)
(* sweep is several: it looks at a heartbeat and then updates the row      *)
(* (SweepLook, SweepSingleRun), it looks at a thread's work and then idles *)
(* it (IdleLook, IdleOrphan).  A cancellation loads runs and then locks    *)
(* their rows, but goes on with the statuses it has loaded (CancelLoad,    *)
(* Cancel).  The worker itself is langgraph_api's: it may record its       *)
(* outcome before or after it leaves Runs.enter.                           *)
(***************************************************************************)
EXTENDS Integers, FiniteSets

CONSTANTS
    Runs,         \* run ids
    Threads,      \* thread ids; Runs.put makes a thread for a run without one
    Runners,      \* the runners of all replicas
    Sweepers,     \* the replicas' sweeps
    Requests,     \* requests that cancel runs
    ThreadOf,     \* the thread a run is submitted to
    NoRun,        \* a runner or a sweep with no run
    NoThread,     \* a sweep with no thread
    MaxRetries,   \* BG_JOB_MAX_RETRIES
    TryBound,     \* bound on the claims of a run
    MaxNamed      \* bound on the runs of one cancellation

ASSUME JobConstants ==
    /\ ThreadOf \in [Runs -> Threads]
    /\ NoRun \notin Runs
    /\ NoThread \notin Threads
    /\ MaxRetries \in Nat
    /\ TryBound \in Nat
    /\ MaxNamed \in Nat

VARIABLES
    run,      \* the runs table with retry_counters
    thread,   \* status of the thread row
    heart,    \* runs with a heartbeat key in Redis
    control,  \* the control key of a run in Redis
    runner,   \* what each runner does
    sweep,    \* what each sweep has seen
    request,  \* the runs each request has loaded, with their status
    strayed,  \* history: threads on which a worker was exposed (see Exposed)
    misled    \* history: runners whose run was cancelled as if it were pending

rows == <<run, thread>>
redis == <<heart, control>>
history == <<strayed, misled>>
vars == <<run, thread, heart, control, runner, sweep, request, history>>

Inflight == {"pending", "running"}
Status == Inflight \cup {"new", "deleted", "interrupted", "success", "error"}

\* "quiet" stands for idle, interrupted and error, which no guard tells apart.
ThreadStatus == {"none", "quiet", "busy"}
Stops == {"none", "interrupt", "rollback", "done"}

\* claimed: dispatched; executing: inside Runs.enter; recorded: inside it with
\* the outcome written; left: outside it with the outcome not written yet.
Phases == {"idle", "claimed", "executing", "recorded", "left"}

IdleRunner == [pc |-> "idle", job |-> NoRun, stop |-> "none"]
IdleSweep == [job |-> NoRun, tries |-> 0, idle |-> NoThread]

\* "other" stands for running, success and error, which Cancel does not tell apart.
Loaded == {"none", "pending", "interrupted", "other"}
IdleRequest == [r \in Runs |-> "none"]

TypeOK ==
    /\ run \in [Runs -> [status : Status, tries : 0..TryBound]]
    /\ thread \in [Threads -> ThreadStatus]
    /\ heart \subseteq Runs
    /\ control \in [Runs -> Stops]
    /\ runner \in [Runners -> [pc : Phases, job : Runs \cup {NoRun}, stop : Stops]]
    /\ sweep \in [Sweepers -> [job : Runs \cup {NoRun}, tries : 0..TryBound,
                               idle : Threads \cup {NoThread}]]
    /\ request \in [Requests -> [Runs -> Loaded]]
    /\ strayed \subseteq Threads
    /\ misled \subseteq Runners

-----------------------------------------------------------------------------
(* Helpers *)

RunsOf(t, statuses) == {r \in Runs : ThreadOf[r] = t /\ run[r].status \in statuses}
Siblings(r, statuses) == RunsOf(ThreadOf[r], statuses) \ {r}

\* _thread_has_live_worker: somebody heartbeats for a run that has not ended, or
\* that was cancelled.  A heartbeat that cannot be read counts as alive: callers
\* then do nothing, which is a step not taken here.
HasLiveWorker(t) == RunsOf(t, Inflight \cup {"interrupted"}) \cap heart # {}

\* _thread_has_inflight_work
HasInflightWork(t) == RunsOf(t, Inflight) # {} \/ HasLiveWorker(t)

\* A deleted row takes its retry counter along.
Deleted == [status |-> "deleted", tries |-> 0]

\* The status that a transaction gives to thread t once it has counted the runs to
\* be done.  It does not lock the thread, so the count may be older than what is
\* committed now, and either outcome is possible.  A missing row stays missing.
BusyOr(t) == IF thread[t] = "none" THEN {"none"} ELSE {"busy", "quiet"}

\* The threads S get one of the statuses that they may get.
WriteThreads(S) ==
    thread' \in {f \in [Threads -> ThreadStatus] :
                    \A t \in Threads : IF t \in S THEN f[t] \in BusyOr(t) ELSE f[t] = thread[t]}

-----------------------------------------------------------------------------
(* Runs.put *)

\* _promote_thread_busy, under the lock of the thread.
PromoteThreadBusy(t) == [thread EXCEPT ![t] = "busy"]

\* _insert_run_row
InsertRunRow(r) == [run EXCEPT ![r].status = "pending"]

\* To a thread that exists.  It is promoted to busy even when
\* prevent_insert_if_inflight then keeps the run out.
Put(r, prevent) ==
    /\ run[r].status = "new"
    /\ thread[ThreadOf[r]] # "none"
    /\ thread' = PromoteThreadBusy(ThreadOf[r])
    /\ run' = IF prevent /\ RunsOf(ThreadOf[r], Inflight) # {} THEN run ELSE InsertRunRow(r)
    /\ UNCHANGED <<redis, runner, sweep, request>>

\* To no thread, or with if_not_exists = "create": _ensure_run_thread makes one.
PutEnsuringThread(r) ==
    /\ run[r].status = "new"
    /\ thread[ThreadOf[r]] = "none"
    /\ thread' = [thread EXCEPT ![ThreadOf[r]] = "busy"]
    /\ run' = InsertRunRow(r)
    /\ UNCHANGED <<redis, runner, sweep, request>>

-----------------------------------------------------------------------------
(* Runs.next *)

\* Faulty variant of BlockedByHeartbeat: a cancelled sibling is not waited for.
BlockedByRunning(r) == Siblings(r, {"running"}) \cap heart # {}

\* _has_heartbeating_sibling: also a run that was cancelled may still execute.
BlockedByHeartbeat(r) == Siblings(r, {"running", "interrupted"}) \cap heart # {}

\* The run that the query of _claim_next_run may return, once the lock of the
\* thread is held.  ORDER BY created_at is left out: rows that others lock are
\* skipped and after_seconds moves created_at, so any of them can be the first.
Claimable(r) ==
    /\ run[r].status = "pending"
    /\ Siblings(r, {"running"}) = {}
    /\ ~BlockedByHeartbeat(r)

\* _claim_and_dispatch gives the claimed run to a free runner.
Dispatched(r) == [pc |-> "claimed", job |-> r, stop |-> "none"]

\* _claim_next_run: the heartbeat is set before the commit.
ClaimNextRun(w, r) ==
    /\ runner[w].pc = "idle"
    /\ Claimable(r)
    /\ run[r].tries < TryBound
    /\ run' = [run EXCEPT ![r] = [status |-> "running", tries |-> @.tries + 1]]
    /\ thread' = [thread EXCEPT ![ThreadOf[r]] = IF @ = "none" THEN @ ELSE "busy"]
    /\ heart' = heart \cup {r}
    /\ runner' = [runner EXCEPT ![w] = Dispatched(r)]
    /\ UNCHANGED <<control, sweep, request>>

\* The commit of the claim fails: the heartbeat is taken back.
ClaimFails(r) ==
    /\ Claimable(r)
    /\ heart' = heart \ {r}
    /\ UNCHANGED <<rows, control, runner, sweep, request>>

\* Runs.next: threads that turn out to be blocked are passed over.
NextRun(w) == \E r \in Runs : ClaimNextRun(w, r)

-----------------------------------------------------------------------------
(* Runs.enter and langgraph_api's worker *)

\* A stop that came first is the one that counts.
Heard(old, new) == IF old = "none" THEN new ELSE old

\* Faulty variant of Hydrate: only messages that arrive later are heard.
HydrateNothing(r) == "none"

\* listen_for_cancellation starts with the control key, for a cancellation that
\* was sent before this worker listened.
Hydrate(r) == IF control[r] \in {"interrupt", "rollback"} THEN control[r] ELSE "none"

Enter(w) ==
    /\ runner[w].pc = "claimed"
    /\ heart' = heart \cup {runner[w].job}
    /\ runner' = [runner EXCEPT ![w].pc = "executing", ![w].stop = Hydrate(runner[w].job)]
    /\ UNCHANGED <<rows, control, sweep, request>>

\* _heartbeat_loop
Beat(w) ==
    /\ runner[w].pc \in {"executing", "recorded"}
    /\ heart' = heart \cup {runner[w].job}
    /\ UNCHANGED <<rows, control, runner, sweep, request>>

\* Threads.set_joint_status: the row is overwritten whatever its status, or
\* deleted by a rollback; a missing row is a 404 and changes nothing.
SetJointStatus(r, s) ==
    IF run[r].status = "deleted" \/ thread[ThreadOf[r]] = "none" THEN UNCHANGED rows
    ELSE /\ run' = [run EXCEPT ![r] = IF s = "rollback" THEN Deleted
                                      ELSE [@ EXCEPT !.status = s]]
         /\ WriteThreads({ThreadOf[r]})

\* Runs.set_status("pending"): the run is to be tried again.
SetStatusPending(r) ==
    /\ run' = IF run[r].status = "deleted" THEN run ELSE [run EXCEPT ![r].status = "pending"]
    /\ UNCHANGED thread

\* What the worker records.  A stop may come too late for the graph.
RecordOutcome(w) ==
    LET r == runner[w].job
    IN  \/ SetJointStatus(r, "success")
        \/ SetJointStatus(r, "error")
        \/ runner[w].stop = "interrupt" /\ SetJointStatus(r, "interrupted")
        \/ runner[w].stop = "rollback" /\ SetJointStatus(r, "rollback")
        \/ /\ runner[w].stop = "none"
           /\ run[r].tries < MaxRetries
           /\ SetStatusPending(r)

\* The end of Runs.enter: "done" goes to every listener of the run, unless the
\* worker raised; then the heartbeat and the control key are dropped.
LeaveEnter(w, raised) ==
    /\ heart' = heart \ {runner[w].job}
    /\ control' = [control EXCEPT ![runner[w].job] = "none"]
    /\ runner' = [v \in Runners |->
          IF v = w THEN IF runner[w].pc = "recorded" THEN IdleRunner
                        ELSE [runner[w] EXCEPT !.pc = "left"]
          ELSE IF ~raised /\ runner[v].pc = "executing" /\ runner[v].job = runner[w].job
               THEN [runner[v] EXCEPT !.stop = Heard(@, "done")]
               ELSE runner[v]]

Record(w) ==
    /\ runner[w].pc \in {"executing", "left"}
    /\ RecordOutcome(w)
    /\ runner' = [runner EXCEPT ![w] = IF @.pc = "left" THEN IdleRunner
                                       ELSE [@ EXCEPT !.pc = "recorded"]]
    /\ UNCHANGED <<redis, sweep, request>>

Leave(w) ==
    /\ runner[w].pc \in {"executing", "recorded"}
    /\ \E raised \in BOOLEAN : LeaveEnter(w, raised)
    /\ UNCHANGED <<rows, sweep, request>>

\* The replica dies, or is shut down before its workers have finished.
Crash(w) ==
    /\ runner[w].pc # "idle"
    /\ runner' = [runner EXCEPT ![w] = IdleRunner]
    /\ UNCHANGED <<rows, redis, sweep, request>>

\* The heartbeat key runs out: the worker is gone, or was stalled for too long.
HeartbeatExpires(r) ==
    /\ r \in heart
    /\ heart' = heart \ {r}
    /\ UNCHANGED <<rows, control, runner, sweep, request>>

-----------------------------------------------------------------------------
(* Runs.sweep *)

\* A running run has no heartbeat; its retry counter is read.
SweepLook(s, r) ==
    /\ sweep[s] = IdleSweep
    /\ run[r].status = "running"
    /\ r \notin heart
    /\ sweep' = [sweep EXCEPT ![s].job = r, ![s].tries = run[r].tries]
    /\ UNCHANGED <<rows, redis, runner, request>>

\* max_retries used up: the run ends instead of going back to the queue.
SweptStatus(tries) == IF tries >= MaxRetries THEN "error" ELSE "pending"

\* _mark_thread_error_if_idle, for the thread of a run that was swept as an error.
MarkThreadError(r) == WriteThreads({ThreadOf[r]})

\* _sweep_single_run: UPDATE ... WHERE status = 'running', on what was seen.
SweepSingleRun(s) ==
    LET r == sweep[s].job
        new == [run EXCEPT ![r].status = SweptStatus(sweep[s].tries)]
    IN  /\ r # NoRun
        /\ IF run[r].status = "running"
           THEN /\ run' = new
                /\ IF new[r].status = "error" THEN MarkThreadError(r) ELSE UNCHANGED thread
                /\ heart' = heart \ {r}
           ELSE UNCHANGED <<rows, heart>>
        /\ sweep' = [sweep EXCEPT ![s] = IdleSweep]
        /\ UNCHANGED <<control, runner, request>>

\* _idle_orphaned_busy_threads finds a busy thread without work ...
IdleLook(s, t) ==
    /\ sweep[s] = IdleSweep
    /\ thread[t] = "busy"
    /\ ~HasInflightWork(t)
    /\ sweep' = [sweep EXCEPT ![s].idle = t]
    /\ UNCHANGED <<rows, redis, runner, request>>

\* ... and writes its status, whatever happened to the thread since.
IdleOrphan(s) ==
    /\ sweep[s].idle # NoThread
    /\ thread' = [thread EXCEPT ![sweep[s].idle] = IF @ = "none" THEN @ ELSE "quiet"]
    /\ sweep' = [sweep EXCEPT ![s] = IdleSweep]
    /\ UNCHANGED <<run, redis, runner, request>>

-----------------------------------------------------------------------------
(* Requests *)

\* _idle_affected_threads
IdleAffected(affected) == WriteThreads({t \in affected : thread[t] = "busy"})

\* Faulty variant of Cancellable: a run that has ended is cancelled as well.
CancellableEnded(r) == run[r].status \notin {"new", "deleted"}

\* _cancel_single_run locks the row only while it is still to be done.
Cancellable(r) == run[r].status \in Inflight

\* Runs.cancel reads the runs S without a lock ...
CancelLoad(c, S) ==
    /\ request[c] = IdleRequest
    /\ S # {} /\ Cardinality(S) <= MaxNamed
    /\ \A r \in S : run[r].status \notin {"new", "deleted"}
    /\ request' = [request EXCEPT ![c] = [r \in Runs |->
          IF r \notin S THEN "none"
          ELSE IF run[r].status \in {"pending", "interrupted"} THEN run[r].status ELSE "other"]]
    /\ UNCHANGED <<rows, redis, runner, sweep>>

\* ... and locks those that are to be done now.  The locked rows do not replace the
\* objects that were loaded, so what follows is decided by the status at the load.
Locked(c) == {r \in Runs : request[c][r] # "none" /\ Cancellable(r)}

\* Nobody of this process streams r, and it had not started.
Unwatched(c, r, watched) == request[c][r] = "pending" /\ r \notin watched

\* _cancel_single_run: a status that is set to what was loaded is not written.
CancelledRow(c, r, action, watched) ==
    IF action = "rollback" /\ Unwatched(c, r, watched) THEN Deleted
    ELSE IF request[c][r] = "interrupted" THEN run[r]
    ELSE [run[r] EXCEPT !.status = "interrupted"]

\* _cancel_candidates_loop: threads that may be idle now.  One whose cancelled
\* worker still heartbeats is not among them.
Affected(c) ==
    {ThreadOf[r] : r \in {q \in Locked(c) : request[c][q] = "pending" \/ q \notin heart}}

\* The listeners of the runs S are told ...
Told(S, action) ==
    [w \in Runners |-> IF runner[w].job \in S /\ runner[w].pc = "executing"
                       THEN [runner[w] EXCEPT !.stop = Heard(@, action)] ELSE runner[w]]

\* ... and the control key is there for those that will listen, or is withdrawn.
Published(c, S, action, watched) ==
    [r \in Runs |-> IF r \notin S THEN control[r]
                    ELSE IF Unwatched(c, r, watched) THEN "none" ELSE action]

\* The transaction; `watched` have a stream queue in this process.
Cancel(c, action, watched) ==
    /\ request[c] # IdleRequest
    /\ run' = [r \in Runs |-> IF r \in Locked(c) THEN CancelledRow(c, r, action, watched)
                              ELSE run[r]]
    /\ control' = Published(c, Locked(c), action, watched)
    /\ runner' = Told(Locked(c), action)
    /\ IdleAffected(Affected(c))
    /\ request' = [request EXCEPT ![c] = IdleRequest]
    /\ UNCHANGED <<heart, sweep>>

\* The transaction fails; what was sent for the runs S is not called back.
CancelFails(c, S, action, watched) ==
    /\ request[c] # IdleRequest
    /\ control' = Published(c, S, action, watched)
    /\ runner' = Told(S, action)
    /\ request' = [request EXCEPT ![c] = IdleRequest]
    /\ UNCHANGED <<rows, heart, sweep>>

\* Runs.delete, whatever the run is doing.
Delete(r) ==
    /\ run[r].status \notin {"new", "deleted"}
    /\ run' = [run EXCEPT ![r] = Deleted]
    /\ UNCHANGED <<thread, redis, runner, sweep, request>>

\* Threads.delete: the thread with all its runs.
ThreadsDelete(t) ==
    /\ thread[t] # "none"
    /\ thread' = [thread EXCEPT ![t] = "none"]
    /\ run' = [r \in Runs |-> IF ThreadOf[r] = t /\ run[r].status # "new"
                              THEN Deleted ELSE run[r]]
    /\ UNCHANGED <<redis, runner, sweep, request>>

\* Threads.set_status
SetThreadStatus(t) == WriteThreads({t})

\* Threads.State.post and bulk: refused while the thread has work, else the new
\* state decides the status.  A run that is submitted while the graph computes
\* the state is not held off; the check and the write are one step here.
StatePost(t) ==
    /\ thread[t] # "none"
    /\ ~HasInflightWork(t)
    /\ SetThreadStatus(t)
    /\ UNCHANGED <<run, redis, runner, sweep, request>>

-----------------------------------------------------------------------------
(* The specification *)

Init ==
    /\ run = [r \in Runs |-> [status |-> "new", tries |-> 0]]
    /\ thread = [t \in Threads |-> "none"]
    /\ heart = {}
    /\ control = [r \in Runs |-> "none"]
    /\ runner = [w \in Runners |-> IdleRunner]
    /\ sweep = [s \in Sweepers |-> IdleSweep]
    /\ request = [c \in Requests |-> IdleRequest]
    /\ strayed = {} /\ misled = {}

Works(w) == runner[w].pc \in {"claimed", "executing"}

\* Threads on which somebody executes a run without a heartbeat, a run whose row
\* does not say so, or a run that an earlier worker has not finished recording.
Exposed ==
    {ThreadOf[runner[u].job] : u \in {v \in Runners :
        /\ Works(v)
        /\ \/ runner[v].job \notin heart
           \/ run[runner[v].job].status \notin {"running", "interrupted"}
           \/ \E w \in Runners : runner[w].pc \in {"recorded", "left"}
                                 /\ runner[w].job = runner[v].job}}

WorkerStep(w) ==
    \/ NextRun(w)
    \/ Enter(w) \/ Beat(w) \/ Record(w) \/ Leave(w) \/ Crash(w)

SweepStep(s) ==
    \/ \E r \in Runs : SweepLook(s, r)
    \/ SweepSingleRun(s)
    \/ \E t \in Threads : IdleLook(s, t)
    \/ IdleOrphan(s)

RequestStep ==
    \/ \E r \in Runs, prevent \in BOOLEAN : Put(r, prevent)
    \/ \E r \in Runs : PutEnsuringThread(r)
    \/ \E c \in Requests, S \in SUBSET Runs : CancelLoad(c, S)
    \/ \E c \in Requests, action \in {"interrupt", "rollback"} :
          \E watched \in SUBSET {r \in Runs : request[c][r] = "pending"} :
             \/ Cancel(c, action, watched)
             \/ \E S \in SUBSET Locked(c) : CancelFails(c, S, action, watched)
    \/ \E r \in Runs : Delete(r)
    \/ \E t \in Threads : ThreadsDelete(t) \/ StatePost(t)

Step ==
    \/ \E w \in Runners : WorkerStep(w)
    \/ \E s \in Sweepers : SweepStep(s)
    \/ \E r \in Runs : ClaimFails(r) \/ HeartbeatExpires(r)
    \/ RequestStep

\* Runners that do not listen yet, whose run an unlocked look at "pending" has just
\* cancelled without leaving a control key.
JustMisled ==
    {w \in Runners : \E c \in Requests :
        /\ runner[w].pc = "claimed" /\ request[c][runner[w].job] = "pending"
        /\ run[runner[w].job].status = "running" /\ run'[runner[w].job].status = "interrupted"
        /\ control'[runner[w].job] = "none"}

Next ==
    /\ Step
    /\ strayed' = strayed \cup Exposed'
    /\ misled' = {w \in misled \cup JustMisled : Works(w)'}

Spec == Init /\ [][Next]_vars

-----------------------------------------------------------------------------
(* Properties *)

\* At most one runner works on a thread, in whatever order runs are submitted,
\* cancelled, retried and swept by any replica; a thread may be worked on twice
\* only after one of its workers was exposed: it executed without a heartbeat
\* (stalled, or another holder of the shared key dropped it), its row was deleted,
\* swept or overwritten, or an earlier worker of the same run was still leaving.
OneWorkerPerThread ==
    \A v, w \in Runners :
        /\ v # w /\ Works(v) /\ Works(w)
        /\ ThreadOf[runner[v].job] = ThreadOf[runner[w].job]
        => ThreadOf[runner[v].job] \in strayed

\* A worker inside Runs.enter whose run was cancelled has been told, although the
\* cancellation may come between its claim and its first listening; unless the
\* request had seen the run before that claim, when it was pending, or a worker of
\* the thread was exposed.
CancelHeard ==
    \A w \in Runners :
        /\ runner[w].pc = "executing"
        /\ run[runner[w].job].status = "interrupted"
        /\ ThreadOf[runner[w].job] \notin strayed /\ w \notin misled
        => runner[w].stop # "none"

\* A run that was recorded as a success or an error is not run again or changed
\* by a later cancellation, sweep or retry, as long as nobody was exposed; a
\* worker that left Runs.enter, and was swept as dead, may still overwrite it.
EndedStays ==
    [][\A r \in Runs :
          /\ run[r].status \in {"success", "error"}
          /\ run'[r].status # run[r].status
          => \/ run'[r].status = "deleted" \/ ThreadOf[r] \in strayed
             \/ \E w \in Runners : runner[w].pc = "left" /\ runner[w].job = r]_vars

=============================================================================
