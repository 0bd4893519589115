--------------------------- MODULE JobQueueProofs ---------------------------
(***************************************************************************)
(* Proofs about JobQueue, for any number of runs, threads, runners and     *)
(* sweeps: one worker per thread, a cancellation is heard whenever it      *)
(* comes, and an outcome stays.  All three hold of a thread until one of   *)
(* its workers was exposed, which the history variable strayed records.    *)
(***************************************************************************)
EXTENDS JobQueue, TLAPS

-----------------------------------------------------------------------------
(* The inductive invariant *)

\* A runner that is not idle has a run.
JobInv == \A w \in Runners : runner[w].pc # "idle" => runner[w].job \in Runs

\* Whoever is exposed is on record.
StrayInv == Exposed \subseteq strayed

\* A cancellation that comes between the claim of a worker and its first listening
\* is kept for it in Redis, unless it was decided by a look at the run before that
\* claim; nobody else of the thread drops the key.
ToldInv ==
    \A w \in Runners :
        /\ runner[w].pc = "claimed"
        /\ run[runner[w].job].status = "interrupted"
        /\ ThreadOf[runner[w].job] \notin strayed /\ w \notin misled
        => control[runner[w].job] \in {"interrupt", "rollback"}

IInv == TypeOK /\ JobInv /\ StrayInv /\ OneWorkerPerThread /\ ToldInv /\ CancelHeard

-----------------------------------------------------------------------------
(* What the invariant says of a worker on a thread that has not strayed *)

Owned(w) ==
    /\ runner[w].job \in heart
    /\ run[runner[w].job].status \in {"running", "interrupted"}
    /\ \A v \in Runners : runner[v].pc \in {"recorded", "left"} => runner[v].job # runner[w].job

LEMMA Owner ==
    ASSUME StrayInv, NEW w \in Runners, Works(w), ThreadOf[runner[w].job] \notin strayed
    PROVE  Owned(w)
  <1>1. ThreadOf[runner[w].job] \notin Exposed
    BY DEF StrayInv
  <1> QED
    BY <1>1 DEF Exposed, Owned

\* Two runners that are inside Runs.enter, or about to leave it, with one run: one
\* of them is not at work, or the thread has strayed.
LEMMA Alone ==
    ASSUME IInv, NEW v \in Runners, NEW w \in Runners, v # w, Works(v),
           runner[w].pc \in {"claimed", "executing", "recorded", "left"},
           runner[w].job = runner[v].job
    PROVE  ThreadOf[runner[v].job] \in strayed
  <1>1. CASE Works(w)
    BY <1>1 DEF IInv, OneWorkerPerThread
  <1>2. CASE ~Works(w)
    <2>1. runner[w].pc \in {"recorded", "left"}
      BY <1>2 DEF Works
    <2> QED
      BY <2>1, Owner DEF IInv, Owned
  <1> QED
    BY <1>1, <1>2

-----------------------------------------------------------------------------
(* Types *)

LEMMA Defaults ==
    /\ Deleted \in [status : Status, tries : 0..TryBound]
    /\ IdleRunner \in [pc : Phases, job : Runs \cup {NoRun}, stop : Stops]
    /\ IdleSweep \in [job : Runs \cup {NoRun}, tries : 0..TryBound,
                      idle : Threads \cup {NoThread}]
    /\ IdleRunner.pc = "idle" /\ IdleSweep.job = NoRun
    /\ IdleRequest \in [Runs -> Loaded]
  BY JobConstants DEF Deleted, IdleRunner, IdleSweep, IdleRequest, Loaded, Status, Phases, Stops

LEMMA ThreadsWritten ==
    ASSUME NEW S, WriteThreads(S)
    PROVE  thread' \in [Threads -> ThreadStatus]
  BY DEF WriteThreads

RunRecords == [status : Status, tries : 0..TryBound]
RunnerRecords == [pc : Phases, job : Runs \cup {NoRun}, stop : Stops]
SweepRecords ==
    [job : Runs \cup {NoRun}, tries : 0..TryBound, idle : Threads \cup {NoThread}]

\* The variables without the history.
StateTypes ==
    /\ run \in [Runs -> RunRecords]
    /\ thread \in [Threads -> ThreadStatus]
    /\ heart \subseteq Runs
    /\ control \in [Runs -> Stops]
    /\ runner \in [Runners -> RunnerRecords]
    /\ sweep \in [Sweepers -> SweepRecords]
    /\ request \in [Requests -> [Runs -> Loaded]]
    /\ JobInv

\* Everything but the end of a cancellation or a sweep is about one run.
LEMMA RowTypes ==
    ASSUME StateTypes, NEW r \in Runs, NEW s \in Status
    PROVE  /\ run[r] \in RunRecords /\ run[r].status \in Status /\ run[r].tries \in 0..TryBound
           /\ [run EXCEPT ![r].status = s] \in [Runs -> RunRecords]
           /\ [run EXCEPT ![r] = [@ EXCEPT !.status = s]] \in [Runs -> RunRecords]
           /\ [run EXCEPT ![r] = Deleted] \in [Runs -> RunRecords]
           /\ ThreadOf[r] \in Threads
  BY Defaults, JobConstants DEF StateTypes, RunRecords

LEMMA SubmitTypes ==
    ASSUME StateTypes, NEW r \in Runs,
           (\E prevent \in BOOLEAN : Put(r, prevent)) \/ PutEnsuringThread(r)
    PROVE  StateTypes'
  <1>1. run' = run \/ run' = [run EXCEPT ![r].status = "pending"]
    BY DEF Put, PutEnsuringThread, InsertRunRow
  <1>2. run' \in [Runs -> RunRecords]
    <2>1. "pending" \in Status
      BY DEF Status, Inflight
    <2>2. [run EXCEPT ![r].status = "pending"] \in [Runs -> RunRecords]
      BY <2>1, RowTypes
    <2> QED
      BY <1>1, <2>2 DEF StateTypes
  <1>3. thread' \in [Threads -> ThreadStatus]
    <2>1. thread' = [thread EXCEPT ![ThreadOf[r]] = "busy"]
      BY DEF Put, PutEnsuringThread, PromoteThreadBusy
    <2> QED
      BY <2>1 DEF StateTypes, ThreadStatus
  <1>4. UNCHANGED <<heart, control, runner, sweep, request>>
    BY DEF Put, PutEnsuringThread, redis
  <1> QED
    BY <1>2, <1>3, <1>4 DEF StateTypes, JobInv

LEMMA ClaimTypes ==
    ASSUME StateTypes, NEW w \in Runners, NEW r \in Runs, ClaimNextRun(w, r)
    PROVE  /\ StateTypes'
           /\ run'[r].status = "running"
           /\ \A q \in Runs \ {r} : run'[q] = run[q]
           /\ runner'[w] = [pc |-> "claimed", job |-> r, stop |-> "none"]
           /\ \A v \in Runners \ {w} : runner'[v] = runner[v]
  <1>1. /\ run[r].tries < TryBound
        /\ run' = [run EXCEPT ![r] = [status |-> "running", tries |-> @.tries + 1]]
        /\ thread' = [thread EXCEPT ![ThreadOf[r]] = IF @ = "none" THEN @ ELSE "busy"]
        /\ heart' = heart \cup {r}
        /\ runner' = [runner EXCEPT ![w] = [pc |-> "claimed", job |-> r, stop |-> "none"]]
        /\ UNCHANGED <<control, sweep, request>>
    BY DEF ClaimNextRun, Dispatched
  <1>2. run[r].tries + 1 \in 0..TryBound
    <2>1. run[r].tries \in 0..TryBound
      BY DEF StateTypes, RunRecords
    <2> QED
      BY <1>1, <2>1, JobConstants
  <1>3. [status |-> "running", tries |-> run[r].tries + 1] \in RunRecords
    BY <1>2 DEF RunRecords, Status, Inflight
  <1>4. run' = [run EXCEPT ![r] = [status |-> "running", tries |-> run[r].tries + 1]]
    BY <1>1 DEF StateTypes
  <1>5. run' \in [Runs -> RunRecords]
    BY <1>3, <1>4 DEF StateTypes
  <1>6. thread' \in [Threads -> ThreadStatus]
    BY <1>1 DEF StateTypes, ThreadStatus
  <1>7. [pc |-> "claimed", job |-> r, stop |-> "none"] \in RunnerRecords
    BY DEF RunnerRecords, Phases, Stops
  <1>8. runner' \in [Runners -> RunnerRecords]
    BY <1>1, <1>7 DEF StateTypes
  <1>9. /\ runner'[w] = [pc |-> "claimed", job |-> r, stop |-> "none"]
        /\ \A v \in Runners \ {w} : runner'[v] = runner[v]
    BY <1>1 DEF StateTypes
  <1>10. JobInv'
    BY <1>9 DEF StateTypes, JobInv
  <1>11. run'[r].status = "running" /\ \A q \in Runs \ {r} : run'[q] = run[q]
    BY <1>4 DEF StateTypes
  <1> QED
    BY <1>1, <1>5, <1>6, <1>8, <1>9, <1>10, <1>11 DEF StateTypes

\* A runner whose phase changes keeps its run until it is idle.
LEMMA RunnerTypes ==
    ASSUME StateTypes, NEW w \in Runners, NEW c \in Phases, NEW s \in Stops,
           runner[w].pc # "idle"
    PROVE  /\ runner[w] \in RunnerRecords /\ runner[w].job \in Runs
           /\ runner[w].stop \in Stops
           /\ [runner[w] EXCEPT !.pc = c] \in RunnerRecords
           /\ [runner[w] EXCEPT !.stop = s] \in RunnerRecords
  BY DEF StateTypes, JobInv, RunnerRecords

LEMMA EnterTypes ==
    ASSUME StateTypes, NEW w \in Runners, Enter(w)
    PROVE  /\ StateTypes'
           /\ runner[w].pc = "claimed" /\ runner'[w].pc = "executing"
           /\ runner'[w].job = runner[w].job /\ runner'[w].stop = Hydrate(runner[w].job)
           /\ \A v \in Runners \ {w} : runner'[v] = runner[v]
           /\ UNCHANGED <<run, thread, control, sweep, request>>
  <1>1. /\ runner[w].pc = "claimed" /\ heart' = heart \cup {runner[w].job}
        /\ runner' = [runner EXCEPT ![w].pc = "executing", ![w].stop = Hydrate(runner[w].job)]
        /\ UNCHANGED <<run, thread, control, sweep, request>>
    BY DEF Enter, rows
  <1>2. runner[w].job \in Runs /\ runner[w] \in RunnerRecords
    BY <1>1 DEF StateTypes, JobInv
  <1>3. Hydrate(runner[w].job) \in Stops
    BY DEF Hydrate, Stops
  <1>4. /\ runner'[w].pc = "executing" /\ runner'[w].job = runner[w].job
        /\ runner'[w].stop = Hydrate(runner[w].job)
        /\ \A v \in Runners \ {w} : runner'[v] = runner[v]
        /\ runner' \in [Runners -> RunnerRecords]
    BY <1>1, <1>2, <1>3 DEF StateTypes, RunnerRecords, Phases
  <1>5. JobInv'
    BY <1>2, <1>4 DEF StateTypes, JobInv
  <1> QED
    BY <1>1, <1>2, <1>4, <1>5 DEF StateTypes

\* The row of the run after its outcome was recorded.
LEMMA OutcomeTypes ==
    ASSUME StateTypes, NEW w \in Runners, runner[w].pc # "idle", RecordOutcome(w)
    PROVE  /\ run' \in [Runs -> RunRecords] /\ thread' \in [Threads -> ThreadStatus]
           /\ \A q \in Runs \ {runner[w].job} : run'[q] = run[q]
  <1>r. PICK r \in Runs : r = runner[w].job
    BY DEF StateTypes, JobInv
  <1>1. ASSUME NEW s \in {"success", "error", "interrupted", "rollback"}, SetJointStatus(r, s)
        PROVE  /\ run' \in [Runs -> RunRecords] /\ thread' \in [Threads -> ThreadStatus]
               /\ \A q \in Runs \ {r} : run'[q] = run[q]
    <2>1. CASE UNCHANGED rows
      BY <2>1 DEF StateTypes, rows
    <2>2. CASE ~UNCHANGED rows
      <3>1. /\ run' = [run EXCEPT ![r] = IF s = "rollback" THEN Deleted
                                         ELSE [@ EXCEPT !.status = s]]
            /\ WriteThreads({ThreadOf[r]})
        BY <1>1, <2>2 DEF SetJointStatus
      <3>2. thread' \in [Threads -> ThreadStatus]
        BY <3>1, ThreadsWritten
      <3>3. CASE s = "rollback"
        <4>1. run' = [run EXCEPT ![r] = Deleted]
          BY <3>1, <3>3
        <4> QED
          BY <3>2, <4>1, RowTypes DEF StateTypes, Status
      <3>4. CASE s # "rollback"
        <4>1. run' = [run EXCEPT ![r] = [@ EXCEPT !.status = s]]
          BY <3>1, <3>4
        <4>2. s \in Status
          BY <3>4 DEF Status
        <4> QED
          BY <3>2, <4>1, <4>2, RowTypes DEF StateTypes
      <3> QED
        BY <3>3, <3>4
    <2> QED
      BY <2>1, <2>2
  <1>2. ASSUME SetStatusPending(r)
        PROVE  /\ run' \in [Runs -> RunRecords] /\ thread' \in [Threads -> ThreadStatus]
               /\ \A q \in Runs \ {r} : run'[q] = run[q]
    <2>1. run' = run \/ run' = [run EXCEPT ![r].status = "pending"]
      BY <1>2 DEF SetStatusPending
    <2>2. "pending" \in Status
      BY DEF Status, Inflight
    <2> QED
      BY <1>2, <2>1, <2>2, RowTypes DEF SetStatusPending, StateTypes
  <1>3. \/ \E s \in {"success", "error", "interrupted", "rollback"} : SetJointStatus(r, s)
        \/ SetStatusPending(r)
    BY <1>r DEF RecordOutcome
  <1> QED
    BY <1>r, <1>1, <1>2, <1>3

LEMMA RecordTypes ==
    ASSUME StateTypes, NEW w \in Runners, Record(w)
    PROVE  /\ StateTypes'
           /\ runner[w].pc \in {"executing", "left"} /\ runner'[w].pc \in {"recorded", "idle"}
           /\ \A v \in Runners \ {w} : runner'[v] = runner[v]
           /\ \A q \in Runs \ {runner[w].job} : run'[q] = run[q]
           /\ UNCHANGED <<heart, control, sweep, request>>
  <1>1. /\ runner[w].pc \in {"executing", "left"} /\ RecordOutcome(w)
        /\ runner' = [runner EXCEPT ![w] = IF @.pc = "left" THEN IdleRunner
                                           ELSE [@ EXCEPT !.pc = "recorded"]]
        /\ UNCHANGED <<heart, control, sweep, request>>
    BY DEF Record, redis
  <1>2. /\ run' \in [Runs -> RunRecords] /\ thread' \in [Threads -> ThreadStatus]
        /\ \A q \in Runs \ {runner[w].job} : run'[q] = run[q]
    BY <1>1, OutcomeTypes
  <1>3. \A v \in Runners \ {w} : runner'[v] = runner[v]
    BY <1>1 DEF StateTypes
  <1>4. CASE runner[w].pc = "left"
    <2>1. runner' = [runner EXCEPT ![w] = IdleRunner]
      BY <1>1, <1>4 DEF StateTypes
    <2>2. runner' \in [Runners -> RunnerRecords] /\ runner'[w].pc = "idle"
      BY <2>1, Defaults DEF StateTypes, RunnerRecords
    <2>3. JobInv'
      BY <1>3, <2>2 DEF StateTypes, JobInv
    <2> QED
      BY <1>1, <1>2, <1>3, <2>2, <2>3 DEF StateTypes
  <1>5. CASE runner[w].pc = "executing"
    <2>1. runner' = [runner EXCEPT ![w] = [runner[w] EXCEPT !.pc = "recorded"]]
      BY <1>1, <1>5 DEF StateTypes
    <2>2. runner[w] \in RunnerRecords /\ runner[w].job \in Runs
      BY <1>5 DEF StateTypes, JobInv
    <2>3. [runner[w] EXCEPT !.pc = "recorded"] \in RunnerRecords
      BY <2>2 DEF RunnerRecords, Phases
    <2>4. /\ runner' \in [Runners -> RunnerRecords]
          /\ runner'[w].pc = "recorded" /\ runner'[w].job = runner[w].job
      BY <2>1, <2>2, <2>3 DEF StateTypes, RunnerRecords
    <2>5. JobInv'
      BY <1>3, <2>2, <2>4 DEF StateTypes, JobInv
    <2> QED
      BY <1>1, <1>2, <1>3, <2>4, <2>5 DEF StateTypes
  <1> QED
    BY <1>1, <1>4, <1>5

\* The others who execute the run may be told "done".
LEMMA LeaveTypes ==
    ASSUME StateTypes, NEW w \in Runners, Leave(w)
    PROVE  /\ StateTypes'
           /\ runner[w].pc \in {"executing", "recorded"} /\ runner'[w].pc \in {"idle", "left"}
           /\ \A v \in Runners \ {w} :
                 \/ runner'[v] = runner[v]
                 \/ /\ runner'[v].pc = runner[v].pc /\ runner'[v].job = runner[v].job
                    /\ runner[v].job = runner[w].job /\ runner'[v].stop # "none"
           /\ control' = [control EXCEPT ![runner[w].job] = "none"]
           /\ UNCHANGED <<run, thread, sweep, request>>
  <1>1. PICK raised \in BOOLEAN :
           /\ runner[w].pc \in {"executing", "recorded"} /\ LeaveEnter(w, raised)
           /\ UNCHANGED <<run, thread, sweep, request>>
    BY DEF Leave, rows
  <1>2. /\ runner[w].job \in Runs /\ runner[w] \in RunnerRecords
        /\ \A v \in Runners : runner[v] \in RunnerRecords
    BY <1>1 DEF StateTypes, JobInv
  <1>3. /\ heart' = heart \ {runner[w].job}
        /\ control' = [control EXCEPT ![runner[w].job] = "none"]
    BY <1>1 DEF LeaveEnter
  <1>4. DOMAIN runner' = Runners /\ runner' = [v \in Runners |-> runner'[v]]
    BY <1>1 DEF LeaveEnter
  <1>5. /\ runner'[w] \in RunnerRecords /\ runner'[w].pc \in {"idle", "left"}
        /\ runner'[w].pc = "left" => runner'[w].job = runner[w].job
    <2>1. CASE runner[w].pc = "recorded"
      <3>1. runner'[w] = IdleRunner
        BY <1>1, <2>1 DEF LeaveEnter
      <3> QED
        BY <3>1, Defaults DEF RunnerRecords
    <2>2. CASE runner[w].pc = "executing"
      <3>1. runner'[w] = [runner[w] EXCEPT !.pc = "left"]
        BY <1>1, <2>2 DEF LeaveEnter
      <3> QED
        BY <1>2, <3>1 DEF RunnerRecords, Phases
    <2> QED
      BY <1>1, <2>1, <2>2
  <1>6. ASSUME NEW v \in Runners \ {w}
        PROVE  /\ runner'[v] \in RunnerRecords
               /\ \/ runner'[v] = runner[v]
                  \/ /\ runner'[v].pc = runner[v].pc /\ runner'[v].job = runner[v].job
                     /\ runner[v].job = runner[w].job /\ runner'[v].stop # "none"
    <2>1. CASE ~raised /\ runner[v].pc = "executing" /\ runner[v].job = runner[w].job
      <3>1. runner'[v] = [runner[v] EXCEPT !.stop = Heard(runner[v].stop, "done")]
        BY <1>1, <1>6, <2>1 DEF LeaveEnter
      <3>2. /\ Heard(runner[v].stop, "done") \in Stops
            /\ Heard(runner[v].stop, "done") # "none"
        BY <1>2 DEF Heard, Stops, RunnerRecords
      <3> QED
        BY <1>2, <2>1, <3>1, <3>2 DEF RunnerRecords
    <2>2. CASE ~(~raised /\ runner[v].pc = "executing" /\ runner[v].job = runner[w].job)
      <3>1. runner'[v] = runner[v]
        BY <1>1, <1>6, <2>2 DEF LeaveEnter
      <3> QED
        BY <1>2, <3>1
    <2> QED
      BY <2>1, <2>2
  <1>7. runner' \in [Runners -> RunnerRecords]
    BY <1>4, <1>5, <1>6
  <1>8. JobInv'
    BY <1>2, <1>5, <1>6 DEF StateTypes, JobInv
  <1>9. control' \in [Runs -> Stops]
    BY <1>3 DEF StateTypes, Stops
  <1> QED
    BY <1>1, <1>3, <1>5, <1>6, <1>7, <1>8, <1>9 DEF StateTypes

LEMMA BeatCrashTypes ==
    ASSUME StateTypes, NEW w \in Runners, Beat(w) \/ Crash(w)
    PROVE  /\ StateTypes' /\ UNCHANGED <<run, control>>
           /\ \A v \in Runners : runner'[v] = runner[v] \/ runner'[v].pc = "idle"
  <1>1. CASE Beat(w)
    <2>1. /\ heart' = heart \cup {runner[w].job} /\ runner[w].pc # "idle"
          /\ UNCHANGED <<run, thread, control, runner, sweep, request>>
      BY <1>1 DEF Beat, rows
    <2> QED
      BY <2>1 DEF StateTypes, JobInv
  <1>2. CASE Crash(w)
    <2>1. /\ runner' = [runner EXCEPT ![w] = IdleRunner]
          /\ UNCHANGED <<run, thread, heart, control, sweep, request>>
      BY <1>2 DEF Crash, rows, redis
    <2>2. /\ runner' \in [Runners -> RunnerRecords] /\ runner'[w].pc = "idle"
          /\ \A v \in Runners \ {w} : runner'[v] = runner[v]
      BY <2>1, Defaults DEF StateTypes, RunnerRecords
    <2> QED
      BY <2>1, <2>2 DEF StateTypes, JobInv
  <1> QED
    BY <1>1, <1>2

LEMMA SweepTypes ==
    ASSUME StateTypes, NEW s \in Sweepers, SweepStep(s)
    PROVE  /\ StateTypes' /\ UNCHANGED <<control, runner>>
           /\ \A q \in Runs :
                 \/ run'[q] = run[q]
                 \/ run[q].status = "running" /\ run'[q].status \in {"error", "pending"}
  <1>1. sweep[s] \in SweepRecords
    BY DEF StateTypes
  <1>2. CASE \E r \in Runs : SweepLook(s, r)
    <2>1. PICK r \in Runs :
             /\ sweep' = [sweep EXCEPT ![s].job = r, ![s].tries = run[r].tries]
             /\ UNCHANGED <<run, thread, heart, control, runner, request>>
      BY <1>2 DEF SweepLook, rows, redis
    <2>2. run[r].tries \in 0..TryBound
      BY DEF StateTypes, RunRecords
    <2>3. sweep' \in [Sweepers -> SweepRecords]
      BY <1>1, <2>1, <2>2 DEF StateTypes, SweepRecords
    <2> QED
      BY <2>1, <2>3 DEF StateTypes, JobInv
  <1>3. CASE SweepSingleRun(s)
    <2>1. PICK r \in Runs : r = sweep[s].job
      BY <1>1, <1>3 DEF SweepSingleRun, SweepRecords
    <2>2. /\ sweep' = [sweep EXCEPT ![s] = IdleSweep]
          /\ UNCHANGED <<control, runner, request>>
          /\ run[r].status # "running" => UNCHANGED <<run, thread, heart>>
      BY <1>3, <2>1 DEF SweepSingleRun, rows
    <2>7. ASSUME run[r].status = "running"
          PROVE  /\ run' = [run EXCEPT ![r].status = SweptStatus(sweep[s].tries)]
                 /\ thread' = thread \/ MarkThreadError(r)
                 /\ heart' = heart \ {r}
      <3> DEFINE job == sweep[s].job
                 new == [run EXCEPT ![job].status = SweptStatus(sweep[s].tries)]
      <3>1. IF run[job].status = "running"
            THEN /\ run' = new
                 /\ IF new[job].status = "error" THEN MarkThreadError(job)
                    ELSE UNCHANGED thread
                 /\ heart' = heart \ {job}
            ELSE UNCHANGED <<rows, heart>>
        BY <1>3, Zenon DEF SweepSingleRun
      <3>2. job = r
        BY <2>1
      <3>3. run' = new /\ (MarkThreadError(job) \/ UNCHANGED thread) /\ heart' = heart \ {job}
        <4> HIDE DEF job, new
        <4> QED
          BY <2>7, <3>1, <3>2
      <3> QED
        BY <3>2, <3>3
    <2>3. sweep' \in [Sweepers -> SweepRecords]
      BY <2>2, Defaults DEF StateTypes, SweepRecords
    <2>4. SweptStatus(sweep[s].tries) \in {"error", "pending"}
      BY DEF SweptStatus
    <2>5. CASE run[r].status = "running"
      <3>1. PICK new \in Status : new = SweptStatus(sweep[s].tries)
        BY <2>4 DEF Status, Inflight
      <3>2. run' \in [Runs -> RunRecords]
        <4>1. run' = [run EXCEPT ![r].status = new]
          BY <2>5, <2>7, <3>1
        <4> QED
          BY <4>1, RowTypes
      <3>3. thread' \in [Threads -> ThreadStatus]
        BY <2>5, <2>7, ThreadsWritten DEF StateTypes, MarkThreadError
      <3>4. /\ \A q \in Runs \ {r} : run'[q] = run[q]
            /\ run'[r].status \in {"error", "pending"}
        BY <2>4, <2>5, <2>7 DEF StateTypes, RunRecords
      <3> QED
        BY <2>2, <2>3, <2>5, <2>7, <3>2, <3>3, <3>4 DEF StateTypes, JobInv
    <2>6. CASE run[r].status # "running"
      BY <2>2, <2>3, <2>6 DEF StateTypes, JobInv
    <2> QED
      BY <2>5, <2>6
  <1>4. CASE \E t \in Threads : IdleLook(s, t)
    <2>1. PICK t \in Threads :
             /\ sweep' = [sweep EXCEPT ![s].idle = t]
             /\ UNCHANGED <<run, thread, heart, control, runner, request>>
      BY <1>4 DEF IdleLook, rows, redis
    <2>2. sweep' \in [Sweepers -> SweepRecords]
      BY <1>1, <2>1 DEF StateTypes, SweepRecords
    <2> QED
      BY <2>1, <2>2 DEF StateTypes, JobInv
  <1>5. CASE IdleOrphan(s)
    <2>1. PICK t \in Threads : t = sweep[s].idle
      BY <1>1, <1>5 DEF IdleOrphan, SweepRecords
    <2>2. /\ thread' = [thread EXCEPT ![t] = IF @ = "none" THEN @ ELSE "quiet"]
          /\ sweep' = [sweep EXCEPT ![s] = IdleSweep]
          /\ UNCHANGED <<run, heart, control, runner, request>>
      BY <1>5, <2>1 DEF IdleOrphan, redis
    <2>3. sweep' \in [Sweepers -> SweepRecords]
      BY <2>2, Defaults DEF StateTypes, SweepRecords
    <2>4. thread' \in [Threads -> ThreadStatus]
      BY <2>2 DEF StateTypes, ThreadStatus
    <2> QED
      BY <2>2, <2>3, <2>4 DEF StateTypes, JobInv
  <1> QED
    BY <1>2, <1>3, <1>4, <1>5 DEF SweepStep

\* Runners that execute one of the runs S get a stop unless they have one.
LEMMA ToldTypes ==
    ASSUME StateTypes, NEW S \in SUBSET Runs, NEW action \in {"interrupt", "rollback"},
           runner' = Told(S, action)
    PROVE  /\ runner' \in [Runners -> RunnerRecords] /\ JobInv'
           /\ \A v \in Runners :
                 /\ runner'[v].pc = runner[v].pc /\ runner'[v].job = runner[v].job
                 /\ runner[v].stop # "none" => runner'[v].stop # "none"
                 /\ runner[v].pc = "executing" /\ runner[v].job \in S => runner'[v].stop # "none"
  <1>1. ASSUME NEW v \in Runners
        PROVE  /\ runner'[v] \in RunnerRecords
               /\ runner'[v].pc = runner[v].pc /\ runner'[v].job = runner[v].job
               /\ runner[v].stop # "none" => runner'[v].stop # "none"
               /\ runner[v].pc = "executing" /\ runner[v].job \in S => runner'[v].stop # "none"
    <2>1. runner[v] \in RunnerRecords
      BY DEF StateTypes
    <2>2. CASE runner[v].job \in S /\ runner[v].pc = "executing"
      <3>1. runner'[v] = [runner[v] EXCEPT !.stop = Heard(runner[v].stop, action)]
        BY <2>2 DEF Told
      <3>2. /\ Heard(runner[v].stop, action) \in Stops
            /\ Heard(runner[v].stop, action) # "none"
        BY <2>1 DEF Heard, Stops, RunnerRecords
      <3> QED
        BY <2>1, <3>1, <3>2 DEF RunnerRecords
    <2>3. CASE ~(runner[v].job \in S /\ runner[v].pc = "executing")
      <3>1. runner'[v] = runner[v]
        BY <2>3 DEF Told
      <3> QED
        BY <2>1, <2>3, <3>1
    <2> QED
      BY <2>2, <2>3
  <1>2. runner' \in [Runners -> RunnerRecords]
    BY <1>1 DEF Told
  <1>3. JobInv'
    BY <1>1 DEF StateTypes, JobInv
  <1> QED
    BY <1>1, <1>2, <1>3

LEMMA PublishedTypes ==
    ASSUME StateTypes, NEW c \in Requests, NEW S \in SUBSET Runs, NEW watched \in SUBSET Runs,
           NEW action \in {"interrupt", "rollback"}, control' = Published(c, S, action, watched)
    PROVE  /\ control' \in [Runs -> Stops]
           /\ \A q \in S : control'[q] = action
                           \/ (request[c][q] = "pending" /\ control'[q] = "none")
           /\ \A q \in Runs \ S : control'[q] = control[q]
  BY DEF Published, Unwatched, StateTypes, Stops

\* The request has nothing loaded any more.
LEMMA Answered ==
    ASSUME StateTypes, NEW c \in Requests, request' = [request EXCEPT ![c] = IdleRequest]
    PROVE  request' \in [Requests -> [Runs -> Loaded]]
  BY Defaults DEF StateTypes

LEMMA CancelTypes ==
    ASSUME StateTypes, NEW c \in Requests, NEW watched \in SUBSET Runs,
           NEW action \in {"interrupt", "rollback"}, Cancel(c, action, watched)
    PROVE  /\ StateTypes' /\ runner' = Told(Locked(c), action)
           /\ Locked(c) \in SUBSET Runs
           /\ \A q \in Locked(c) :
                 /\ run[q].status \in Inflight
                 /\ \/ control'[q] = action
                    \/ (request[c][q] = "pending" /\ control'[q] = "none")
           /\ \A q \in Runs \ Locked(c) : run'[q] = run[q] /\ control'[q] = control[q]
  <1>1. /\ run' = [r \in Runs |-> IF r \in Locked(c) THEN CancelledRow(c, r, action, watched)
                                  ELSE run[r]]
        /\ control' = Published(c, Locked(c), action, watched)
        /\ runner' = Told(Locked(c), action)
        /\ WriteThreads({t \in Affected(c) : thread[t] = "busy"})
        /\ request' = [request EXCEPT ![c] = IdleRequest]
        /\ UNCHANGED <<heart, sweep>>
    BY DEF Cancel, IdleAffected
  <1>2. ASSUME NEW r \in Runs
        PROVE  CancelledRow(c, r, action, watched) \in RunRecords
    <2>1. run[r] \in RunRecords
      BY DEF StateTypes
    <2> QED
      BY <2>1, Defaults DEF CancelledRow, RunRecords, Status
  <1>3. Locked(c) \in SUBSET Runs /\ \A q \in Locked(c) : run[q].status \in Inflight
    BY DEF Locked, Cancellable
  <1>4. run' \in [Runs -> RunRecords] /\ \A q \in Runs \ Locked(c) : run'[q] = run[q]
    BY <1>1, <1>2 DEF StateTypes
  <1>5. /\ control' \in [Runs -> Stops]
        /\ \A q \in Locked(c) : control'[q] = action
                                \/ (request[c][q] = "pending" /\ control'[q] = "none")
        /\ \A q \in Runs \ Locked(c) : control'[q] = control[q]
    BY <1>1, <1>3, PublishedTypes
  <1>6. thread' \in [Threads -> ThreadStatus]
    BY <1>1, ThreadsWritten
  <1>7. runner' \in [Runners -> RunnerRecords] /\ JobInv'
    BY <1>1, <1>3, ToldTypes
  <1>8. request' \in [Requests -> [Runs -> Loaded]]
    BY <1>1, Answered
  <1> QED
    BY <1>1, <1>3, <1>4, <1>5, <1>6, <1>7, <1>8 DEF StateTypes

\* The other requests, and the keys that run out.
LEMMA RequestTypes ==
    ASSUME StateTypes,
           \/ \E r \in Runs, prevent \in BOOLEAN : Put(r, prevent)
           \/ \E r \in Runs : PutEnsuringThread(r) \/ Delete(r)
           \/ \E c \in Requests, S \in SUBSET Runs : CancelLoad(c, S)
           \/ \E t \in Threads : ThreadsDelete(t) \/ StatePost(t)
           \/ \E r \in Runs : ClaimFails(r) \/ HeartbeatExpires(r)
    PROVE  /\ StateTypes' /\ UNCHANGED <<control, runner>>
           /\ \A q \in Runs : \/ run'[q] = run[q]
                              \/ run[q].status = "new" /\ run'[q].status = "pending"
                              \/ run'[q].status = "deleted"
  <1>1. ASSUME NEW r \in Runs, (\E prevent \in BOOLEAN : Put(r, prevent)) \/ PutEnsuringThread(r)
        PROVE  /\ StateTypes' /\ UNCHANGED <<control, runner>>
               /\ \A q \in Runs : \/ run'[q] = run[q]
                                  \/ run[q].status = "new" /\ run'[q].status = "pending"
    <2>1. StateTypes'
      BY <1>1, SubmitTypes
    <2>2. /\ UNCHANGED <<control, runner>> /\ run[r].status = "new"
          /\ run' = run \/ run' = [run EXCEPT ![r].status = "pending"]
      BY <1>1 DEF Put, PutEnsuringThread, InsertRunRow, redis
    <2> QED
      BY <2>1, <2>2 DEF StateTypes, RunRecords
  <1>2. ASSUME NEW r \in Runs, Delete(r)
        PROVE  /\ StateTypes' /\ UNCHANGED <<control, runner>>
               /\ \A q \in Runs : run'[q] = run[q] \/ run'[q].status = "deleted"
    <2>1. /\ run' = [run EXCEPT ![r] = Deleted]
          /\ UNCHANGED <<thread, heart, control, runner, sweep, request>>
      BY <1>2 DEF Delete, redis
    <2>2. run' \in [Runs -> RunRecords]
      BY <2>1, Defaults DEF StateTypes, RunRecords
    <2>3. \A q \in Runs : run'[q] = run[q] \/ run'[q].status = "deleted"
      BY <2>1 DEF StateTypes, Deleted
    <2> QED
      BY <2>1, <2>2, <2>3 DEF StateTypes, JobInv
  <1>3. ASSUME NEW t \in Threads, ThreadsDelete(t)
        PROVE  /\ StateTypes' /\ UNCHANGED <<control, runner>>
               /\ \A q \in Runs : run'[q] = run[q] \/ run'[q].status = "deleted"
    <2>1. /\ thread' = [thread EXCEPT ![t] = "none"]
          /\ run' = [r \in Runs |-> IF ThreadOf[r] = t /\ run[r].status # "new"
                                    THEN Deleted ELSE run[r]]
          /\ UNCHANGED <<heart, control, runner, sweep, request>>
      BY <1>3 DEF ThreadsDelete, redis
    <2>2. run' \in [Runs -> RunRecords]
      BY <2>1, Defaults DEF StateTypes, RunRecords
    <2>3. thread' \in [Threads -> ThreadStatus]
      BY <2>1 DEF StateTypes, ThreadStatus
    <2>4. \A q \in Runs : run'[q] = run[q] \/ run'[q].status = "deleted"
      BY <2>1 DEF Deleted
    <2> QED
      BY <2>1, <2>2, <2>3, <2>4 DEF StateTypes, JobInv
  <1>4. ASSUME NEW t \in Threads, StatePost(t)
        PROVE  StateTypes' /\ UNCHANGED <<run, control, runner>>
    <2>1. WriteThreads({t}) /\ UNCHANGED <<run, heart, control, runner, sweep, request>>
      BY <1>4 DEF StatePost, SetThreadStatus, redis
    <2>2. thread' \in [Threads -> ThreadStatus]
      BY <2>1, ThreadsWritten
    <2> QED
      BY <2>1, <2>2 DEF StateTypes, JobInv
  <1>5. ASSUME NEW r \in Runs, ClaimFails(r) \/ HeartbeatExpires(r)
        PROVE  StateTypes' /\ UNCHANGED <<run, control, runner>>
    <2>1. heart' = heart \ {r} /\ UNCHANGED <<run, thread, control, runner, sweep, request>>
      BY <1>5 DEF ClaimFails, HeartbeatExpires, rows
    <2> QED
      BY <2>1 DEF StateTypes, JobInv
  <1>6. ASSUME NEW c \in Requests, NEW S \in SUBSET Runs, CancelLoad(c, S)
        PROVE  StateTypes' /\ UNCHANGED <<run, control, runner>>
    <2>1. /\ request' = [request EXCEPT ![c] = [r \in Runs |->
                IF r \notin S THEN "none"
                ELSE IF run[r].status \in {"pending", "interrupted"} THEN run[r].status
                     ELSE "other"]]
          /\ UNCHANGED <<run, thread, heart, control, runner, sweep>>
      BY <1>6 DEF CancelLoad, rows, redis
    <2>2. request' \in [Requests -> [Runs -> Loaded]]
      BY <2>1 DEF StateTypes, Loaded
    <2> QED
      BY <2>1, <2>2 DEF StateTypes, JobInv
  <1> QED
    BY <1>1, <1>2, <1>3, <1>4, <1>5, <1>6

\* A cancellation whose transaction fails has told the listeners nevertheless.
LEMMA CancelFailsTypes ==
    ASSUME StateTypes, NEW c \in Requests, NEW S \in SUBSET Locked(c),
           NEW watched \in SUBSET Runs, NEW action \in {"interrupt", "rollback"},
           CancelFails(c, S, action, watched)
    PROVE  /\ StateTypes' /\ runner' = Told(S, action) /\ UNCHANGED run
           /\ S \in SUBSET Runs
           /\ \A q \in S : run[q].status \in Inflight
           /\ \A q \in Runs \ S : control'[q] = control[q]
  <1>1. /\ control' = Published(c, S, action, watched)
        /\ runner' = Told(S, action)
        /\ request' = [request EXCEPT ![c] = IdleRequest]
        /\ UNCHANGED <<run, thread, heart, sweep>>
    BY DEF CancelFails, rows
  <1>2. S \in SUBSET Runs /\ \A q \in S : run[q].status \in Inflight
    BY DEF Locked, Cancellable
  <1>3. runner' \in [Runners -> RunnerRecords] /\ JobInv'
    BY <1>1, <1>2, ToldTypes
  <1>4. control' \in [Runs -> Stops] /\ \A q \in Runs \ S : control'[q] = control[q]
    BY <1>1, <1>2, PublishedTypes
  <1>5. request' \in [Requests -> [Runs -> Loaded]]
    BY <1>1, Answered
  <1> QED
    BY <1>1, <1>2, <1>3, <1>4, <1>5 DEF StateTypes

-----------------------------------------------------------------------------
(* Steps that set nobody to work *)

\* Whoever works afterwards worked on the same run before, and knows of a stop
\* what it knew or what the control key says.
Calm ==
    \A w \in Runners :
        /\ Works(w)' => Works(w) /\ runner'[w].job = runner[w].job
        /\ runner'[w].pc = "claimed" => runner[w].pc = "claimed"
        /\ runner'[w].pc = "executing" =>
              \/ /\ runner[w].pc = "executing"
                 /\ runner[w].stop # "none" => runner'[w].stop # "none"
              \/ /\ runner[w].pc = "claimed"
                 /\ runner'[w].stop = Hydrate(runner[w].job)

\* No run is cancelled, and no cancellation that a worker has to hear is dropped.
KeepsTold ==
    \A r \in Runs :
        run'[r].status = "interrupted" =>
            /\ run[r].status = "interrupted"
            /\ control[r] \in {"interrupt", "rollback"} =>
                  control'[r] \in {"interrupt", "rollback"}

\* What a step does to the history, as the proofs use it.
HistoryKept ==
    /\ strayed \subseteq strayed'
    /\ \A w \in Runners : Works(w)' /\ w \notin misled' => w \notin misled \cup JustMisled

LEMMA CalmAlone ==
    ASSUME OneWorkerPerThread, Calm, strayed \subseteq strayed'
    PROVE  OneWorkerPerThread'
  <1> SUFFICES ASSUME NEW v \in Runners, NEW w \in Runners, v # w, Works(v)', Works(w)',
                      ThreadOf[runner'[v].job] = ThreadOf[runner'[w].job]
               PROVE  ThreadOf[runner'[v].job] \in strayed'
    BY DEF OneWorkerPerThread
  <1>1. /\ Works(v) /\ runner'[v].job = runner[v].job
        /\ Works(w) /\ runner'[w].job = runner[w].job
    BY DEF Calm
  <1> QED
    BY <1>1 DEF OneWorkerPerThread

LEMMA CalmTold ==
    ASSUME IInv, Calm, KeepsTold, HistoryKept
    PROVE  ToldInv' /\ CancelHeard'
  <1>1. ASSUME NEW w \in Runners, Works(w)', run'[runner'[w].job].status = "interrupted",
               ThreadOf[runner'[w].job] \notin strayed', w \notin misled'
        PROVE  /\ Works(w) /\ runner'[w].job = runner[w].job /\ runner[w].job \in Runs
               /\ run[runner[w].job].status = "interrupted"
               /\ ThreadOf[runner[w].job] \notin strayed /\ w \notin misled
    <2>1. Works(w) /\ runner'[w].job = runner[w].job
      BY <1>1 DEF Calm
    <2>2. runner[w].job \in Runs
      BY <2>1 DEF IInv, JobInv, Works
    <2> QED
      BY <1>1, <2>1, <2>2 DEF KeepsTold, HistoryKept
  <1>2. ASSUME NEW w \in Runners, runner'[w].pc = "claimed",
               run'[runner'[w].job].status = "interrupted",
               ThreadOf[runner'[w].job] \notin strayed', w \notin misled'
        PROVE  control'[runner'[w].job] \in {"interrupt", "rollback"}
    <2>1. Works(w)' /\ runner[w].pc = "claimed"
      BY <1>2 DEF Calm, Works
    <2> QED
      BY <1>1, <1>2, <2>1 DEF IInv, ToldInv, KeepsTold
  <1>3. ASSUME NEW w \in Runners, runner'[w].pc = "executing",
               run'[runner'[w].job].status = "interrupted",
               ThreadOf[runner'[w].job] \notin strayed', w \notin misled'
        PROVE  runner'[w].stop # "none"
    <2>1. Works(w)'
      BY <1>3 DEF Works
    <2>2. CASE runner[w].pc = "executing" /\ (runner[w].stop # "none" => runner'[w].stop # "none")
      BY <1>1, <1>3, <2>1, <2>2 DEF IInv, CancelHeard
    <2>3. CASE runner[w].pc = "claimed" /\ runner'[w].stop = Hydrate(runner[w].job)
      <3>1. control[runner[w].job] \in {"interrupt", "rollback"}
        BY <1>1, <1>3, <2>1, <2>3 DEF IInv, ToldInv
      <3> QED
        BY <2>3, <3>1 DEF Hydrate
    <2> QED
      BY <1>3, <2>2, <2>3 DEF Calm
  <1> QED
    BY <1>2, <1>3 DEF ToldInv, CancelHeard

\* The part of the invariant that a step has to keep; the history takes care of
\* StrayInv.
WorkInv == OneWorkerPerThread /\ ToldInv /\ CancelHeard

LEMMA EnterCalm ==
    ASSUME IInv, StateTypes, NEW w \in Runners, Enter(w), HistoryKept
    PROVE  WorkInv'
  <1>1. /\ runner[w].pc = "claimed" /\ runner'[w].pc = "executing"
        /\ runner'[w].job = runner[w].job /\ runner'[w].stop = Hydrate(runner[w].job)
        /\ \A v \in Runners \ {w} : runner'[v] = runner[v]
        /\ UNCHANGED <<run, thread, control, sweep, request>>
    BY EnterTypes
  <1>2. Calm
    BY <1>1 DEF Calm, Works
  <1>3. KeepsTold
    BY <1>1 DEF KeepsTold
  <1> QED
    BY <1>2, <1>3, CalmAlone, CalmTold DEF IInv, WorkInv, HistoryKept

LEMMA QuietRequest ==
    ASSUME IInv, HistoryKept, UNCHANGED control,
           \A w \in Runners : runner'[w] = runner[w] \/ runner'[w].pc = "idle",
           \A q \in Runs : run'[q].status = "interrupted" => run[q].status = "interrupted"
    PROVE  WorkInv'
  <1>1. Calm
    BY DEF Calm, Works
  <1>2. KeepsTold
    BY DEF KeepsTold
  <1> QED
    BY <1>1, <1>2, CalmAlone, CalmTold DEF IInv, WorkInv, HistoryKept

LEMMA ToldCalm ==
    ASSUME StateTypes, NEW S \in SUBSET Runs, NEW action \in {"interrupt", "rollback"},
           runner' = Told(S, action)
    PROVE  Calm
  <1>1. \A v \in Runners :
           /\ runner'[v].pc = runner[v].pc /\ runner'[v].job = runner[v].job
           /\ runner[v].stop # "none" => runner'[v].stop # "none"
    BY ToldTypes
  <1> QED
    BY <1>1 DEF Calm, Works

LEMMA CancelFailsCalm ==
    ASSUME IInv, StateTypes, NEW c \in Requests, NEW S \in SUBSET Locked(c),
           NEW watched \in SUBSET Runs, NEW action \in {"interrupt", "rollback"},
           CancelFails(c, S, action, watched), HistoryKept
    PROVE  WorkInv'
  <1>1. /\ runner' = Told(S, action) /\ UNCHANGED run /\ S \in SUBSET Runs
        /\ \A q \in S : run[q].status \in Inflight
        /\ \A q \in Runs \ S : control'[q] = control[q]
    BY CancelFailsTypes
  <1>2. Calm
    BY <1>1, ToldCalm
  <1>3. KeepsTold
    BY <1>1 DEF KeepsTold, Inflight
  <1> QED
    BY <1>2, <1>3, CalmAlone, CalmTold DEF IInv, WorkInv, HistoryKept

-----------------------------------------------------------------------------
(* Cancellation, claim, outcome and the end of Runs.enter *)

\* On a thread that has not strayed, a worker's run is running, so that a request
\* that withdraws the control key has loaded it earlier, and misleads the worker.
LEMMA CancelTold ==
    ASSUME IInv, StateTypes, NEW c \in Requests, NEW watched \in SUBSET Runs,
           NEW action \in {"interrupt", "rollback"}, Cancel(c, action, watched),
           HistoryKept
    PROVE  WorkInv'
  <1>1. /\ runner' = Told(Locked(c), action) /\ Locked(c) \in SUBSET Runs
        /\ \A q \in Locked(c) :
              /\ run[q].status \in Inflight
              /\ control'[q] = action \/ (request[c][q] = "pending" /\ control'[q] = "none")
        /\ \A q \in Runs \ Locked(c) : run'[q] = run[q] /\ control'[q] = control[q]
    BY CancelTypes
  <1>2. \A v \in Runners :
           /\ runner'[v].pc = runner[v].pc /\ runner'[v].job = runner[v].job
           /\ runner[v].stop # "none" => runner'[v].stop # "none"
           /\ runner[v].pc = "executing" /\ runner[v].job \in Locked(c) =>
                 runner'[v].stop # "none"
    BY <1>1, ToldTypes
  <1>3. OneWorkerPerThread'
    BY <1>1, ToldCalm, CalmAlone DEF IInv, HistoryKept
  <1>4. ASSUME NEW w \in Runners, Works(w)', ThreadOf[runner'[w].job] \notin strayed',
               w \notin misled'
        PROVE  /\ Works(w) /\ runner'[w].pc = runner[w].pc /\ runner'[w].job = runner[w].job
               /\ runner[w].job \in Runs
               /\ ThreadOf[runner[w].job] \notin strayed
               /\ w \notin misled /\ w \notin JustMisled
    BY <1>2, <1>4 DEF Works, HistoryKept, IInv, JobInv
  <1>5. ASSUME NEW w \in Runners, runner'[w].pc = "claimed",
               run'[runner'[w].job].status = "interrupted",
               ThreadOf[runner'[w].job] \notin strayed', w \notin misled'
        PROVE  control'[runner'[w].job] \in {"interrupt", "rollback"}
    <2>1. Works(w)'
      BY <1>5 DEF Works
    <2>2. CASE runner[w].job \in Locked(c)
      <3>1. Owned(w)
        BY <1>4, <1>5, <2>1, Owner DEF IInv
      <3>2. run[runner[w].job].status = "running"
        BY <1>1, <2>2, <3>1 DEF Owned, Inflight
      <3> QED
        BY <1>1, <1>4, <1>5, <2>1, <2>2, <3>2 DEF JustMisled
    <2>3. CASE runner[w].job \notin Locked(c)
      BY <1>1, <1>4, <1>5, <2>1, <2>3 DEF IInv, ToldInv
    <2> QED
      BY <2>2, <2>3
  <1>6. ASSUME NEW w \in Runners, runner'[w].pc = "executing",
               run'[runner'[w].job].status = "interrupted",
               ThreadOf[runner'[w].job] \notin strayed', w \notin misled'
        PROVE  runner'[w].stop # "none"
    <2>1. Works(w)'
      BY <1>6 DEF Works
    <2>2. CASE runner[w].job \in Locked(c)
      BY <1>2, <1>6, <2>2
    <2>3. CASE runner[w].job \notin Locked(c)
      BY <1>1, <1>2, <1>4, <1>6, <2>1, <2>3 DEF IInv, CancelHeard
    <2> QED
      BY <2>2, <2>3
  <1> QED
    BY <1>3, <1>5, <1>6 DEF WorkInv, ToldInv, CancelHeard

\* Whoever works on the thread of a run that can be claimed was exposed.
LEMMA ClaimableFree ==
    ASSUME IInv, NEW r \in Runs, Claimable(r), NEW v \in Runners, Works(v),
           ThreadOf[runner[v].job] = ThreadOf[r]
    PROVE  ThreadOf[r] \in strayed
  <1> SUFFICES ASSUME ThreadOf[r] \notin strayed
               PROVE  FALSE
    OBVIOUS
  <1>1. Owned(v)
    BY Owner DEF IInv
  <1>2. runner[v].job \in Runs
    BY DEF IInv, JobInv, Works
  <1>3. runner[v].job # r
    BY <1>1 DEF Owned, Claimable
  <1>4. runner[v].job \in Siblings(r, {"running", "interrupted"}) \cap heart
    BY <1>1, <1>2, <1>3 DEF Owned, Siblings, RunsOf
  <1> QED
    BY <1>4 DEF Claimable, BlockedByHeartbeat

LEMMA ClaimWorks ==
    ASSUME IInv, StateTypes, NEW w \in Runners, NEW r \in Runs, ClaimNextRun(w, r),
           HistoryKept
    PROVE  WorkInv'
  <1>1. /\ run'[r].status = "running"
        /\ \A q \in Runs \ {r} : run'[q] = run[q]
        /\ runner'[w] = [pc |-> "claimed", job |-> r, stop |-> "none"]
        /\ \A v \in Runners \ {w} : runner'[v] = runner[v]
    BY ClaimTypes
  <1>2. runner[w].pc = "idle" /\ Claimable(r) /\ UNCHANGED control
    BY DEF ClaimNextRun
  <1>3. ASSUME NEW v \in Runners \ {w}, Works(v)', ThreadOf[runner'[v].job] = ThreadOf[r]
        PROVE  ThreadOf[r] \in strayed'
    <2>1. Works(v) /\ runner'[v].job = runner[v].job
      BY <1>1, <1>3 DEF Works
    <2> QED
      BY <1>2, <1>3, <2>1, ClaimableFree DEF HistoryKept
  <1>4. OneWorkerPerThread'
    <2> SUFFICES ASSUME NEW u \in Runners, NEW v \in Runners, u # v, Works(u)', Works(v)',
                        ThreadOf[runner'[u].job] = ThreadOf[runner'[v].job]
                 PROVE  ThreadOf[runner'[u].job] \in strayed'
      BY DEF OneWorkerPerThread
    <2>1. CASE u = w \/ v = w
      BY <1>1, <1>3, <2>1
    <2>2. CASE u # w /\ v # w
      <3>1. /\ runner'[u] = runner[u] /\ runner'[v] = runner[v]
            /\ Works(u) /\ Works(v)
        BY <1>1, <2>2 DEF Works
      <3> QED
        BY <3>1 DEF IInv, OneWorkerPerThread, HistoryKept
    <2> QED
      BY <2>1, <2>2
  <1>5. ASSUME NEW v \in Runners, Works(v)', run'[runner'[v].job].status = "interrupted"
        PROVE  /\ v # w /\ runner'[v] = runner[v] /\ runner[v].job \in Runs
               /\ run[runner[v].job].status = "interrupted"
    <2>1. runner'[v].job # r
      BY <1>1, <1>5
    <2>2. v # w /\ runner'[v] = runner[v] /\ Works(v)
      BY <1>1, <1>5, <2>1 DEF Works
    <2>3. runner[v].job \in Runs
      BY <2>2 DEF IInv, JobInv, Works
    <2> QED
      BY <1>1, <1>5, <2>1, <2>2, <2>3
  <1>6. ToldInv'
    BY <1>2, <1>5 DEF IInv, ToldInv, Works, HistoryKept
  <1>7. CancelHeard'
    BY <1>5 DEF IInv, CancelHeard, Works, HistoryKept
  <1> QED
    BY <1>4, <1>6, <1>7 DEF WorkInv

\* What the last steps of a worker change for the others of its run does not
\* matter: if there are any, the thread has strayed.
LEMMA LastSteps ==
    ASSUME IInv, NEW w \in Runners, runner[w].pc \in {"executing", "recorded", "left"},
           ~Works(w)', HistoryKept,
           \A v \in Runners \ {w} :
              \/ runner'[v] = runner[v]
              \/ /\ runner'[v].pc = runner[v].pc /\ runner'[v].job = runner[v].job
                 /\ runner[v].job = runner[w].job,
           \A q \in Runs \ {runner[w].job} : run'[q] = run[q] /\ control'[q] = control[q]
    PROVE  WorkInv'
  <1>1. ASSUME NEW v \in Runners, Works(v)'
        PROVE  /\ v # w /\ Works(v) /\ runner[v].job \in Runs
               /\ runner'[v].pc = runner[v].pc /\ runner'[v].job = runner[v].job
               /\ \/ ThreadOf[runner[v].job] \in strayed
                  \/ /\ runner'[v] = runner[v]
                     /\ run'[runner[v].job] = run[runner[v].job]
                     /\ control'[runner[v].job] = control[runner[v].job]
    <2>1. v # w
      BY <1>1
    <2>2. runner'[v].pc = runner[v].pc /\ runner'[v].job = runner[v].job
      BY <2>1
    <2>3. Works(v) /\ runner[v].job \in Runs
      BY <1>1, <2>2 DEF Works, IInv, JobInv
    <2>4. CASE runner[v].job = runner[w].job
      BY <2>1, <2>2, <2>3, <2>4, Alone
    <2>5. CASE runner[v].job # runner[w].job
      BY <2>1, <2>2, <2>3, <2>5
    <2> QED
      BY <2>1, <2>2, <2>3, <2>4, <2>5
  <1>2. OneWorkerPerThread'
    BY <1>1 DEF IInv, OneWorkerPerThread, HistoryKept
  <1>3. ToldInv'
    BY <1>1 DEF IInv, ToldInv, Works, HistoryKept
  <1>4. CancelHeard'
    BY <1>1 DEF IInv, CancelHeard, Works, HistoryKept
  <1> QED
    BY <1>2, <1>3, <1>4 DEF WorkInv

LEMMA RecordWorks ==
    ASSUME IInv, StateTypes, NEW w \in Runners, Record(w), HistoryKept
    PROVE  WorkInv'
  <1>1. /\ runner[w].pc \in {"executing", "left"} /\ runner'[w].pc \in {"recorded", "idle"}
        /\ \A v \in Runners \ {w} : runner'[v] = runner[v]
        /\ \A q \in Runs \ {runner[w].job} : run'[q] = run[q]
        /\ UNCHANGED control
    BY RecordTypes
  <1>2. ~Works(w)'
    BY <1>1 DEF Works
  <1> QED
    BY <1>1, <1>2, LastSteps

LEMMA LeaveWorks ==
    ASSUME IInv, StateTypes, NEW w \in Runners, Leave(w), HistoryKept
    PROVE  WorkInv'
  <1>1. /\ runner[w].pc \in {"executing", "recorded"} /\ runner'[w].pc \in {"idle", "left"}
        /\ \A v \in Runners \ {w} :
              \/ runner'[v] = runner[v]
              \/ /\ runner'[v].pc = runner[v].pc /\ runner'[v].job = runner[v].job
                 /\ runner[v].job = runner[w].job
        /\ control' = [control EXCEPT ![runner[w].job] = "none"]
        /\ UNCHANGED run
    BY LeaveTypes
  <1>2. ~Works(w)'
    BY <1>1 DEF Works
  <1>3. \A q \in Runs \ {runner[w].job} : run'[q] = run[q] /\ control'[q] = control[q]
    BY <1>1 DEF StateTypes
  <1> QED
    BY <1>1, <1>2, <1>3, LastSteps

-----------------------------------------------------------------------------
(* Every step *)

LEMMA StepWorks ==
    ASSUME IInv, StateTypes, Step, HistoryKept
    PROVE  StateTypes' /\ WorkInv'
  <1>1. ASSUME NEW w \in Runners, WorkerStep(w)
        PROVE  StateTypes' /\ WorkInv'
    <2>1. CASE NextRun(w)
      <3>1. PICK r \in Runs : ClaimNextRun(w, r)
        BY <2>1 DEF NextRun
      <3> QED
        BY <3>1, ClaimTypes, ClaimWorks
    <2>2. CASE Enter(w)
      BY <2>2, EnterTypes, EnterCalm
    <2>3. CASE Beat(w) \/ Crash(w)
      BY <2>3, BeatCrashTypes, QuietRequest
    <2>4. CASE Record(w)
      BY <2>4, RecordTypes, RecordWorks
    <2>5. CASE Leave(w)
      BY <2>5, LeaveTypes, LeaveWorks
    <2> QED
      BY <1>1, <2>1, <2>2, <2>3, <2>4, <2>5 DEF WorkerStep
  <1>2. ASSUME NEW s \in Sweepers, SweepStep(s)
        PROVE  StateTypes' /\ WorkInv'
    <2>1. /\ StateTypes' /\ UNCHANGED <<control, runner>>
          /\ \A q \in Runs : run'[q] = run[q]
                             \/ run'[q].status \in {"error", "pending"}
      BY <1>2, SweepTypes
    <2> QED
      BY <2>1, QuietRequest
  <1>3. ASSUME NEW c \in Requests, NEW watched \in SUBSET Runs,
               NEW action \in {"interrupt", "rollback"}, Cancel(c, action, watched)
        PROVE  StateTypes' /\ WorkInv'
    BY <1>3, CancelTypes, CancelTold
  <1>4. ASSUME NEW c \in Requests, NEW watched \in SUBSET Runs, NEW S \in SUBSET Locked(c),
               NEW action \in {"interrupt", "rollback"}, CancelFails(c, S, action, watched)
        PROVE  StateTypes' /\ WorkInv'
    BY <1>4, CancelFailsTypes, CancelFailsCalm
  <1>5. ASSUME \/ \E r \in Runs, prevent \in BOOLEAN : Put(r, prevent)
               \/ \E r \in Runs : PutEnsuringThread(r) \/ Delete(r)
               \/ \E c \in Requests, S \in SUBSET Runs : CancelLoad(c, S)
               \/ \E t \in Threads : ThreadsDelete(t) \/ StatePost(t)
               \/ \E r \in Runs : ClaimFails(r) \/ HeartbeatExpires(r)
        PROVE  StateTypes' /\ WorkInv'
    <2>1. /\ StateTypes' /\ UNCHANGED <<control, runner>>
          /\ \A q \in Runs : \/ run'[q] = run[q]
                             \/ run'[q].status \in {"pending", "deleted"}
      BY <1>5, RequestTypes
    <2> QED
      BY <2>1, QuietRequest
  <1> QED
    BY <1>1, <1>2, <1>3, <1>4, <1>5 DEF Step, RequestStep

LEMMA Typed ==
    /\ IInv => StateTypes
    /\ StateTypes /\ strayed \subseteq Threads /\ misled \subseteq Runners => TypeOK /\ JobInv
  BY DEF IInv, TypeOK, StateTypes, RunRecords, RunnerRecords, SweepRecords

LEMMA InitInv == Init => IInv
  <1> SUFFICES ASSUME Init
               PROVE  IInv
    OBVIOUS
  <1>1. \A w \in Runners : runner[w].pc = "idle"
    BY Defaults DEF Init
  <1>2. StateTypes
    <2>1. run \in [Runs -> RunRecords]
      BY JobConstants DEF Init, RunRecords, Status
    <2>2. /\ thread \in [Threads -> ThreadStatus] /\ heart \subseteq Runs
          /\ control \in [Runs -> Stops]
      BY DEF Init, ThreadStatus, Stops
    <2>3. /\ runner \in [Runners -> RunnerRecords]
          /\ sweep \in [Sweepers -> SweepRecords]
      BY Defaults DEF Init, RunnerRecords, SweepRecords
    <2>4. request \in [Requests -> [Runs -> Loaded]]
      BY Defaults DEF Init
    <2> QED
      BY <1>1, <2>1, <2>2, <2>3, <2>4 DEF StateTypes, JobInv
  <1>3. strayed \subseteq Threads /\ misled \subseteq Runners
    BY DEF Init
  <1>4. \A w \in Runners : ~Works(w) /\ runner[w].pc \notin {"claimed", "executing"}
    BY <1>1 DEF Works
  <1>5. StrayInv /\ OneWorkerPerThread /\ ToldInv /\ CancelHeard
    BY <1>4 DEF StrayInv, Exposed, OneWorkerPerThread, ToldInv, CancelHeard
  <1> QED
    BY <1>2, <1>3, <1>5, Typed DEF IInv

LEMMA NextInv == IInv /\ [Next]_vars => IInv'
  <1> SUFFICES ASSUME IInv, [Next]_vars
               PROVE  IInv'
    OBVIOUS
  <1>t. StateTypes
    BY Typed
  <1>1. CASE Next
    <2>1. /\ Step /\ strayed' = strayed \cup Exposed'
          /\ misled' = {w \in misled \cup JustMisled : Works(w)'}
      BY <1>1 DEF Next
    <2>h. HistoryKept
      BY <2>1 DEF HistoryKept
    <2>2. StateTypes' /\ WorkInv'
      BY <1>t, <2>1, <2>h, StepWorks
    <2>3. Exposed' \subseteq Threads
      BY <2>2, JobConstants DEF Exposed, StateTypes, JobInv, Works
    <2>4. strayed' \subseteq Threads /\ misled' \subseteq Runners
      BY <2>1, <2>3 DEF IInv, TypeOK, JustMisled
    <2>5. StrayInv'
      BY <2>1 DEF StrayInv
    <2>6. TypeOK' /\ JobInv'
      BY <2>2, <2>4 DEF TypeOK, StateTypes, RunRecords, RunnerRecords, SweepRecords
    <2> QED
      BY <2>2, <2>5, <2>6 DEF IInv, WorkInv
  <1>2. CASE UNCHANGED vars
    <2>1. UNCHANGED <<run, thread, heart, control, runner, sweep, request, strayed, misled>>
      BY <1>2 DEF vars, history
    <2>2. TypeOK' /\ JobInv'
      BY <2>1 DEF IInv, TypeOK, JobInv
    <2>3. StrayInv'
      BY <2>1 DEF IInv, StrayInv, Exposed, Works
    <2>4. OneWorkerPerThread'
      BY <2>1 DEF IInv, OneWorkerPerThread, Works
    <2>5. ToldInv' /\ CancelHeard'
      BY <2>1 DEF IInv, ToldInv, CancelHeard
    <2> QED
      BY <2>2, <2>3, <2>4, <2>5 DEF IInv
  <1> QED
    BY <1>1, <1>2

\* The invariant holds in every behaviour of the queue.
THEOREM Inductive == Spec => []IInv
  BY InitInv, NextInv, PTL DEF Spec

\* Variables have their types; a runner that is not idle has a run.
THEOREM TypeCorrect == Spec => []TypeOK
  <1>1. IInv => TypeOK
    BY DEF IInv
  <1> QED
    BY <1>1, Inductive, PTL

\* Two runners work on one thread only after a worker of that thread was exposed,
\* in whatever order runs are submitted, claimed, cancelled, retried and swept.
THEOREM OneWorker == Spec => []OneWorkerPerThread
  <1>1. IInv => OneWorkerPerThread
    BY DEF IInv
  <1> QED
    BY <1>1, Inductive, PTL

\* A worker whose run was cancelled has been told, also when the cancellation came
\* between its claim and its first listening; unless the cancellation was decided by
\* a look at the run from before that claim.
THEOREM CancelsHeard == Spec => []CancelHeard
  <1>1. IInv => CancelHeard
    BY DEF IInv
  <1> QED
    BY <1>1, Inductive, PTL

-----------------------------------------------------------------------------
(* An outcome stays *)

\* One step of EndedStays.
EndKept ==
    \A r \in Runs :
        /\ run[r].status \in {"success", "error"}
        /\ run'[r].status # run[r].status
        => \/ run'[r].status = "deleted" \/ ThreadOf[r] \in strayed
           \/ \E w \in Runners : runner[w].pc = "left" /\ runner[w].job = r

LEMMA StepKept ==
    ASSUME IInv, StateTypes, Step
    PROVE  EndKept
  <1> SUFFICES ASSUME NEW r \in Runs, run[r].status \in {"success", "error"},
                      run'[r].status # run[r].status, run'[r].status # "deleted",
                      ThreadOf[r] \notin strayed
               PROVE  \E w \in Runners : runner[w].pc = "left" /\ runner[w].job = r
    BY DEF EndKept
  <1>1. ASSUME NEW w \in Runners, WorkerStep(w)
        PROVE  runner[w].pc = "left" /\ runner[w].job = r
    <2>1. CASE NextRun(w)
      <3>1. PICK q \in Runs : ClaimNextRun(w, q)
        BY <2>1 DEF NextRun
      <3>2. q = r
        BY <3>1, ClaimTypes
      <3> QED
        BY <3>1, <3>2 DEF ClaimNextRun, Claimable
    <2>2. CASE Enter(w) \/ Beat(w) \/ Crash(w) \/ Leave(w)
      BY <2>2 DEF Enter, Beat, Crash, Leave, rows
    <2>3. CASE Record(w)
      <3>1. /\ runner[w].pc \in {"executing", "left"}
            /\ \A q \in Runs \ {runner[w].job} : run'[q] = run[q]
        BY <2>3, RecordTypes
      <3>2. runner[w].job = r
        BY <3>1
      <3>3. runner[w].pc # "executing"
        <4> SUFFICES ASSUME runner[w].pc = "executing"
                     PROVE  FALSE
          OBVIOUS
        <4>1. Owned(w)
          BY <3>2, Owner DEF IInv, Works
        <4> QED
          BY <3>2, <4>1 DEF Owned
      <3> QED
        BY <3>1, <3>2, <3>3
    <2> QED
      BY <1>1, <2>1, <2>2, <2>3 DEF WorkerStep
  <1>2. ASSUME NEW s \in Sweepers, SweepStep(s)
        PROVE  FALSE
    BY <1>2, SweepTypes
  <1>3. ASSUME NEW c \in Requests, NEW watched \in SUBSET Runs,
               NEW action \in {"interrupt", "rollback"}, Cancel(c, action, watched)
        PROVE  FALSE
    <2>1. /\ \A q \in Locked(c) : run[q].status \in Inflight
          /\ \A q \in Runs \ Locked(c) : run'[q] = run[q]
      BY <1>3, CancelTypes
    <2> QED
      BY <2>1 DEF Inflight
  <1>4. ASSUME NEW c \in Requests, NEW watched \in SUBSET Runs, NEW S \in SUBSET Locked(c),
               NEW action \in {"interrupt", "rollback"}, CancelFails(c, S, action, watched)
        PROVE  FALSE
    BY <1>4, CancelFailsTypes
  <1>5. ASSUME \/ \E q \in Runs, prevent \in BOOLEAN : Put(q, prevent)
               \/ \E q \in Runs : PutEnsuringThread(q) \/ Delete(q)
               \/ \E c \in Requests, S \in SUBSET Runs : CancelLoad(c, S)
               \/ \E t \in Threads : ThreadsDelete(t) \/ StatePost(t)
               \/ \E q \in Runs : ClaimFails(q) \/ HeartbeatExpires(q)
        PROVE  FALSE
    BY <1>5, RequestTypes
  <1> QED
    BY <1>1, <1>2, <1>3, <1>4, <1>5 DEF Step, RequestStep

\* A recorded success or error is overwritten only on a thread that has strayed, or
\* by a worker that had left Runs.enter before it recorded.
THEOREM OutcomeStays == Spec => EndedStays
  <1>1. IInv /\ [Next]_vars => [EndKept]_vars
    <2> SUFFICES ASSUME IInv, Next
                 PROVE  EndKept
      OBVIOUS
    <2> QED
      BY StepKept, Typed DEF Next
  <1>2. Spec => [][EndKept]_vars
    BY <1>1, Inductive, PTL DEF Spec
  <1> QED
    BY <1>2 DEF EndedStays, EndKept
=============================================================================
