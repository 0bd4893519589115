--------------------------- MODULE RunStoreProofs ---------------------------
(***************************************************************************)
(* Proofs about RunStore for every set of runs, threads and workers and    *)
(* every MaxAttempts.                                                      *)
(***************************************************************************)
EXTENDS RunStoreLiveness, TLAPS

-----------------------------------------------------------------------------
(* Rows *)

\* Leaving a claim (finish, fail, requeue, cancel) yields a well-formed row.
LEMMA ClosedType ==
    ASSUME NEW row \in RunRow, NEW st \in RunStatus, NEW why \in RunReason
    PROVE  Closed(row, st, why) \in RunRow
<1>1. NoLease \in Lease
  BY ConstantsAssumption DEF NoLease, Lease
<1>2. (IF IsTerminal(st) /\ row.term = "none" THEN st ELSE row.term)
          \in {"none"} \cup Terminal
  BY DEF IsTerminal, RunRow
<1> QED
  BY <1>1, <1>2 DEF Closed, RunRow

\* So does going back to the queue.
LEMMA RequeuedType ==
    ASSUME NEW row \in RunRow, NEW why \in RunReason
    PROVE  Requeued(row, why) \in RunRow
<1>1. Closed(row, "pending", why) \in RunRow
  BY ClosedType DEF RunStatus
<1>2. ASSUME NEW c \in RunRow
      PROVE  [c EXCEPT !.backoff = TRUE] \in RunRow
  BY DEF RunRow
<1> QED BY <1>1, <1>2 DEF Requeued

\* So does giving up a retained lease.
LEMMA ReleasedType ==
    ASSUME NEW row \in RunRow
    PROVE  [row EXCEPT !.owner = NoWorker, !.live = FALSE, !.lease = NoLease] \in RunRow
<1>1. NoLease \in Lease
  BY ConstantsAssumption DEF NoLease, Lease
<1> QED BY <1>1 DEF RunRow

\* The rows of ids that are not in the table.
LEMMA EmptyRowType == NoRow \in RunRow /\ DeletedRow \in RunRow
<1>1. NoLease \in Lease /\ NoBaseline \in Baseline
  BY ConstantsAssumption DEF NoLease, Lease, NoBaseline, Baseline, ThreadStatus
<1>2. NoRow \in RunRow
  BY <1>1, ConstantsAssumption DEF NoRow, RunRow, RunStatus, RunReason
<1>3. DeletedRow \in RunRow
  BY <1>2 DEF DeletedRow, RunRow, RunStatus
<1> QED BY <1>2, <1>3

\* claim_next writes a well-formed row as long as an attempt is left.
LEMMA ClaimedType ==
    ASSUME TypeOK, NEW r \in Runs, NEW w \in Workers, NEW at \in 0..QueueBound,
           AttemptsLeft(r)
    PROVE  Claimed(r, w, at) \in RunRow
<1>1. run[r] \in RunRow
  BY DEF TypeOK
<1>2. run[r].retry + 1 \in 0..MaxAttempts
  BY <1>1, ConstantsAssumption DEF RunRow, AttemptsLeft
<1>3. Threaded(r) => [at |-> at, status |-> thread[ThreadOf[r]].status,
                      interrupts |-> thread[ThreadOf[r]].interrupts] \in Baseline
  BY ConstantsAssumption DEF TypeOK, Threaded, ThreadRow, Baseline
<1> QED
  BY <1>1, <1>2, <1>3 DEF Claimed, RunRow, RunStatus, RunReason, Lease

-----------------------------------------------------------------------------
(* Type correctness *)

\* A slot has a job exactly while it is not idle.
SlotHasJob == \A w \in Workers : slot[w].pc = "idle" <=> slot[w].job = NoRun

TypeInv == TypeOK /\ SlotHasJob

\* The start of a life of a slot, and the moves between its phases.
LEMMA SlotTypes ==
    ASSUME TypeInv, NEW w \in Workers
    PROVE  /\ IdleSlot \in Slot /\ IdleSlot.pc = "idle" /\ IdleSlot.job = NoRun
           /\ slot[w] \in Slot
           /\ slot[w].pc # "idle" => slot[w].job \in Runs /\ JobRow(w) \in RunRow
<1>1. IdleSlot \in Slot
  BY ConstantsAssumption
     DEF IdleSlot, Slot, Phases, Outcomes, NoSaw, Saw, ThreadStatus
<1>2. slot[w] \in Slot
  BY DEF TypeInv, TypeOK
<1>3. slot[w].pc # "idle" => slot[w].job \in Runs
  BY <1>2 DEF TypeInv, SlotHasJob, Slot
<1>4. slot[w].pc # "idle" => JobRow(w) \in RunRow
  BY <1>3 DEF TypeInv, TypeOK, JobRow
<1> QED BY <1>1, <1>2, <1>3, <1>4 DEF IdleSlot

\* An update of one slot by a well-formed record keeps the slots well-formed.
LEMMA SlotUpdate ==
    ASSUME TypeInv, NEW w \in Workers, NEW s \in Slot,
           s.pc = "idle" <=> s.job = NoRun,
           slot' = [slot EXCEPT ![w] = s]
    PROVE  slot' \in [Workers -> Slot] /\ SlotHasJob'
BY DEF TypeInv, TypeOK, SlotHasJob

LEMMA GotoType ==
    ASSUME TypeInv, NEW w \in Workers, slot[w].pc # "idle",
           NEW phase \in Phases \ {"idle"}, Goto(w, phase)
    PROVE  slot' \in [Workers -> Slot] /\ SlotHasJob'
<1> DEFINE s == [IdleSlot EXCEPT !.pc = phase, !.job = slot[w].job,
                                 !.gen = slot[w].gen]
<1>1. s \in Slot /\ s.pc = phase /\ s.job = slot[w].job
  BY SlotTypes DEF Slot, IdleSlot
<1>2. s.pc = "idle" <=> s.job = NoRun
  BY <1>1 DEF TypeInv, SlotHasJob
<1>3. slot' = [slot EXCEPT ![w] = s]
  BY DEF Goto
<1> HIDE DEF s
<1> QED BY <1>1, <1>2, <1>3, SlotUpdate

\* Rows are replaced by rows.
LEMMA RunUpdate ==
    ASSUME TypeOK, NEW r, NEW row \in RunRow, run' = [run EXCEPT ![r] = row]
    PROVE  run' \in [Runs -> RunRow]
BY DEF TypeOK

LEMMA ThreadUpdate ==
    ASSUME TypeOK, NEW r \in Runs, NEW f,
           Threaded(r) /\ thread[ThreadOf[r]].exists => f \in ThreadRow,
           SetThread(r, f)
    PROVE  thread' \in [Threads -> ThreadRow]
BY ConstantsAssumption DEF TypeOK, SetThread, Threaded

LEMMA WithStatusType ==
    ASSUME TypeOK, NEW r \in Runs, NEW s \in ThreadStatus
    PROVE  Threaded(r) /\ thread[ThreadOf[r]].exists
           => WithStatus(ThreadOf[r], s) \in ThreadRow
BY ConstantsAssumption DEF TypeOK, WithStatus, ThreadRow, Threaded

\* The claim actions keep the rows well-formed.
LEMMA ClaimType ==
    ASSUME TypeInv, NEW w \in Workers, NEW r \in Runs, NEW locked \in SUBSET Runs,
           ClaimNext(w, r, locked)
    PROVE  TypeInv'
<1> USE DEF TypeInv
<1>1. CASE Claim(w, r, locked)
  <2>1. PICK at \in 0..QueueBound : run' = [run EXCEPT ![r] = Claimed(r, w, at)]
    BY <1>1 DEF Claim
  <2>2. run' \in [Runs -> RunRow]
    BY <1>1, <2>1, ClaimedType, RunUpdate DEF Claim
  <2>3. thread' \in [Threads -> ThreadRow]
    BY <1>1, ThreadUpdate, WithStatusType DEF Claim, ThreadStatus
  <2> DEFINE s == [IdleSlot EXCEPT !.pc = "claimed", !.job = r,
                                   !.gen = run[r].retry + 1]
  <2>4. run[r].retry + 1 \in 0..MaxAttempts
    BY <1>1, ConstantsAssumption DEF Claim, AttemptsLeft, TypeOK, RunRow
  <2>5. s \in Slot /\ s.pc = "claimed" /\ s.job = r
    BY <2>4, SlotTypes DEF Slot, IdleSlot, Phases
  <2>6. s.pc = "idle" <=> s.job = NoRun
    BY <2>5, ConstantsAssumption
  <2>7. slot' = [slot EXCEPT ![w] = s]
    BY <1>1 DEF Claim
  <2> HIDE DEF s
  <2>8. slot' \in [Workers -> Slot] /\ SlotHasJob'
    BY <2>5, <2>6, <2>7, SlotUpdate
  <2> QED BY <2>2, <2>3, <2>8 DEF TypeOK
<1>2. CASE ClaimWithoutAssistant(w, r, locked)
  <2>1. PICK at \in 0..QueueBound :
          run' = [run EXCEPT ![r] =
                    Closed(Claimed(r, w, at), "error", "business_error")]
    BY <1>2 DEF ClaimWithoutAssistant
  <2>2. Claimed(r, w, at) \in RunRow
    BY <1>2, ClaimedType DEF ClaimWithoutAssistant
  <2>3. run' \in [Runs -> RunRow]
    BY <2>1, <2>2, ClosedType, RunUpdate DEF RunStatus, RunReason, Terminal
  <2>4. thread' \in [Threads -> ThreadRow]
    BY <1>2, ThreadUpdate, WithStatusType DEF ClaimWithoutAssistant, ThreadStatus
  <2> QED BY <1>2, <2>3, <2>4 DEF TypeOK, SlotHasJob, ClaimWithoutAssistant
<1>3. CASE ClaimExhausted(w, r, locked)
  <2>1. run' \in [Runs -> RunRow]
    BY <1>3, ClosedType DEF ClaimExhausted, TypeOK, RunStatus, RunReason, Terminal
  <2>2. thread' \in [Threads -> ThreadRow]
    BY <1>3, ThreadUpdate, WithStatusType DEF ClaimExhausted, ThreadStatus
  <2> QED BY <1>3, <2>1, <2>2 DEF TypeOK, SlotHasJob, ClaimExhausted
<1> QED BY <1>1, <1>2, <1>3 DEF ClaimNext

\* rollback_run restores a well-formed thread row.
LEMMA RollbackRunType ==
    ASSUME TypeOK, NEW r \in Runs, RollbackRun(r)
    PROVE  run' \in [Runs -> RunRow] /\ thread' \in [Threads -> ThreadRow]
<1>1. run' \in [Runs -> RunRow]
  BY EmptyRowType DEF RollbackRun, TypeOK
<1>2. [exists |-> TRUE, status |-> run[r].base.status,
       interrupts |-> run[r].base.interrupts] \in ThreadRow
  BY DEF TypeOK, RunRow, Baseline, ThreadRow
<1>3. thread' \in [Threads -> ThreadRow]
  BY <1>2 DEF RollbackRun, TypeOK
<1> QED BY <1>1, <1>3

\* What a finalisation writes is well-formed.
LEMMA FinalType ==
    ASSUME TypeInv, NEW w \in Workers, slot[w].pc # "idle"
    PROVE  /\ FinalRow(w) \in RunRow
           /\ \A t \in ThreadRow : FinalThread(w, t) \in ThreadRow
<1>1. slot[w] \in Slot /\ slot[w].outcome \in Outcomes /\ slot[w].saw \in Saw
  BY SlotTypes DEF Slot
<1>2. FinalRow(w) \in RunRow
  <2>1. JobRow(w) \in RunRow
    BY SlotTypes
  <2>2. \A st \in RunStatus, why \in RunReason : Closed(JobRow(w), st, why) \in RunRow
    BY <2>1, ClosedType
  <2>3. \A why \in RunReason : Requeued(JobRow(w), why) \in RunRow
    BY <2>1, RequeuedType
  <2> QED BY <1>1, <2>2, <2>3 DEF FinalRow, Outcomes, RunStatus, RunReason, Terminal
<1>3. ASSUME NEW t \in ThreadRow
      PROVE  FinalThread(w, t) \in ThreadRow
  BY <1>1 DEF FinalThread, Flushed, Outcomes, ThreadRow, ThreadStatus, Saw
<1> QED BY <1>2, <1>3

\* The other steps of a slot keep the rows and the slots well-formed.
LEMMA SlotStepType ==
    ASSUME TypeInv, NEW w \in Workers, SlotStep(w)
    PROVE  TypeInv'
<1> USE DEF TypeInv
<1>0. slot[w] \in Slot /\ IdleSlot \in Slot
  BY SlotTypes
<1>i. IdleSlot.pc = "idle" <=> IdleSlot.job = NoRun
  BY SlotTypes
<1>j. slot[w].pc # "idle" => slot[w].job \in Runs /\ JobRow(w) \in RunRow
  BY SlotTypes
<1>1. CASE \E r \in Runs, locked \in SUBSET Runs : ClaimNext(w, r, locked)
  BY <1>1, ClaimType
<1>2. CASE FailContext(w)
  <2>1. run' \in [Runs -> RunRow]
    BY <1>2, <1>j, ClosedType
       DEF FailContext, TypeOK, JobRow, RunStatus, RunReason, Terminal
  <2>2. slot' \in [Workers -> Slot] /\ SlotHasJob'
    BY <1>0, <1>2, <1>i, SlotUpdate DEF FailContext
  <2> QED BY <1>2, <2>1, <2>2 DEF FailContext, TypeOK
<1>3. CASE Begin(w)
  <2>1. slot' \in [Workers -> Slot] /\ SlotHasJob'
    BY <1>3, GotoType DEF Begin, Phases
  <2> QED BY <1>3, <2>1 DEF Begin, TypeOK
<1>4. CASE HeartbeatLost(w) \/ HeartbeatError(w)
  <2>1. [slot[w] EXCEPT !.cancel = TRUE] \in Slot
    BY <1>0 DEF Slot
  <2>2. slot' \in [Workers -> Slot] /\ SlotHasJob'
    BY <1>4, <2>1 DEF HeartbeatLost, HeartbeatError, SlotHasJob, TypeOK, Slot
  <2> QED BY <1>4, <2>2 DEF HeartbeatLost, HeartbeatError, TypeOK
<1>5. ASSUME NEW o \in Endings \cup {"infra", "cancel"}, Load(w, o)
      PROVE  TypeInv'
  <2>1. slot[w].pc # "idle" /\ o \in Outcomes
    BY <1>5, ConstantsAssumption DEF Load, Outcomes
  <2> DEFINE seen == [retry |-> JobRow(w).retry,
                      status |-> IF Threaded(slot[w].job)
                                 THEN thread[ThreadOf[slot[w].job]].status ELSE "idle",
                      interrupts |-> Threaded(slot[w].job)
                                     /\ thread[ThreadOf[slot[w].job]].interrupts]
             s == [slot[w] EXCEPT !.pc = "loaded", !.outcome = o, !.saw = seen]
  <2>2. CASE Owns(w)
    <3>1. seen \in Saw
      BY <1>j, <2>1, ConstantsAssumption
         DEF TypeOK, Saw, RunRow, ThreadRow, Threaded, ThreadStatus
    <3> HIDE DEF seen
    <3>2. s \in Slot /\ s.pc = "loaded" /\ s.job = slot[w].job
      BY <1>0, <2>1, <3>1 DEF Slot, Phases
    <3>3. s.pc = "idle" <=> s.job = NoRun
      BY <2>1, <3>2 DEF SlotHasJob
    <3>4. slot' = [slot EXCEPT ![w] = s]
      BY <1>5, <2>2 DEF Load, seen, TypeOK
    <3> HIDE DEF s
    <3>5. slot' \in [Workers -> Slot] /\ SlotHasJob'
      BY <3>2, <3>3, <3>4, SlotUpdate
    <3> QED BY <1>5, <3>5 DEF Load, TypeOK
  <2>3. CASE ~Owns(w)
    <3>1. slot' \in [Workers -> Slot] /\ SlotHasJob'
      BY <1>5, <2>1, <2>3, GotoType DEF Load, Phases
    <3> QED BY <1>5, <3>1 DEF Load, TypeOK
  <2> QED BY <2>2, <2>3
<1>6. CASE Finalize(w)
  <2>1. slot[w].pc # "idle" /\ slot[w].job \in Runs
    BY <1>6, <1>j DEF Finalize
  <2>2. slot' \in [Workers -> Slot] /\ SlotHasJob'
    BY <1>6, <2>1, GotoType DEF Finalize, Phases
  <2>3. run' \in [Runs -> RunRow]
    BY <1>6, <2>1, FinalType DEF Finalize, TypeOK
  <2>4. Threaded(slot[w].job) => thread[ThreadOf[slot[w].job]] \in ThreadRow
    BY <2>1, ConstantsAssumption DEF TypeOK, Threaded
  <2>5. thread' \in [Threads -> ThreadRow]
    BY <1>6, <2>1, <2>4, FinalType, ThreadUpdate DEF Finalize, TypeOK
  <2> QED BY <2>2, <2>3, <2>5 DEF TypeOK
<1>7. CASE FinalizeLost(w)
  <2>1. slot' \in [Workers -> Slot] /\ SlotHasJob'
    BY <1>7, GotoType DEF FinalizeLost, Phases
  <2> QED BY <1>7, <2>1 DEF FinalizeLost, TypeOK
<1>8. CASE RequeueForShutdown(w)
  <2>1. slot[w].pc # "idle" /\ slot[w].job \in Runs
    BY <1>8, <1>j DEF RequeueForShutdown
  <2>2. slot' \in [Workers -> Slot] /\ SlotHasJob'
    BY <1>8, <2>1, GotoType DEF RequeueForShutdown, Phases
  <2>3. run' \in [Runs -> RunRow]
    BY <1>8, <2>1, RequeuedType DEF RequeueForShutdown, TypeOK, RunReason
  <2>4. thread' \in [Threads -> ThreadRow]
    BY <1>8, <2>1, WithStatusType, ThreadUpdate
       DEF RequeueForShutdown, TypeOK, ThreadStatus
  <2> QED BY <2>2, <2>3, <2>4 DEF TypeOK
<1>9. CASE Release(w)
  <2>1. slot[w].pc # "idle" /\ slot[w].job \in Runs /\ JobRow(w) \in RunRow
    BY <1>9, <1>j DEF Release
  <2>2. slot' \in [Workers -> Slot] /\ SlotHasJob'
    BY <1>9, <2>1, GotoType DEF Release, Phases
  <2>3. [JobRow(w) EXCEPT !.owner = NoWorker, !.live = FALSE, !.lease = NoLease]
           \in RunRow
    BY <2>1, ReleasedType
  <2>4. run' \in [Runs -> RunRow]
    <3>1. CASE UNCHANGED run
      BY <3>1 DEF TypeOK
    <3>2. CASE run' = [run EXCEPT ![slot[w].job] =
                         [JobRow(w) EXCEPT !.owner = NoWorker, !.live = FALSE,
                                           !.lease = NoLease]]
      BY <2>1, <2>3, <3>2 DEF TypeOK
    <3>3. JobRow(w) = run[slot[w].job] /\ slot[w].job \in DOMAIN run
      BY <2>1 DEF JobRow, TypeOK
    <3> QED BY <1>9, <3>1, <3>2, <3>3 DEF Release, TypeOK
  <2>5. thread' \in [Threads -> ThreadRow]
    BY <1>9, <2>1, WithStatusType, ThreadUpdate DEF Release, TypeOK, ThreadStatus
  <2> QED BY <2>2, <2>4, <2>5 DEF TypeOK
<1>10. CASE AckRollback(w)
  <2>1. slot[w].pc # "idle" /\ slot[w].job \in Runs
    BY <1>10, <1>j DEF AckRollback
  <2>2. slot' \in [Workers -> Slot] /\ SlotHasJob'
    BY <1>0, <1>10, <1>i, SlotUpdate DEF AckRollback
  <2>3. run' \in [Runs -> RunRow] /\ thread' \in [Threads -> ThreadRow]
    BY <1>10, <2>1, RollbackRunType DEF AckRollback, TypeOK
  <2> QED BY <2>2, <2>3 DEF TypeOK
<1>11. CASE Crash(w)
  <2>1. slot' \in [Workers -> Slot] /\ SlotHasJob'
    BY <1>0, <1>11, <1>i, SlotUpdate DEF Crash
  <2> QED BY <1>11, <2>1 DEF Crash, TypeOK
<1> QED
  BY <1>1, <1>2, <1>3, <1>4, <1>5, <1>6, <1>7, <1>8, <1>9, <1>10, <1>11, SlotStep(w)
     DEF SlotStep

\* Setting a flag or a position of a row keeps it well-formed.
LEMMA FieldTypes ==
    ASSUME NEW row \in RunRow
    PROVE  /\ [row EXCEPT !.live = FALSE] \in RunRow
           /\ [row EXCEPT !.backoff = FALSE] \in RunRow
           /\ [row EXCEPT !.base = NoBaseline] \in RunRow
           /\ [row EXCEPT !.term = "none"] \in RunRow
           /\ [row EXCEPT !.status = "interrupted", !.reason = "rollback"] \in RunRow
           /\ \A p \in 0..QueueBound : [row EXCEPT !.pos = p] \in RunRow
<1>1. NoBaseline \in Baseline
  BY ConstantsAssumption DEF NoBaseline, Baseline, ThreadStatus
<1>2. [row EXCEPT !.status = "interrupted", !.reason = "rollback"] \in RunRow
  BY DEF RunRow, RunStatus, RunReason, Terminal
<1> QED BY <1>1, <1>2 DEF RunRow

\* The reaper and the clock keep the rows well-formed.
LEMMA ReaperStepType ==
    ASSUME TypeInv, ReaperStep
    PROVE  TypeInv'
<1> USE DEF TypeInv
<1>1. ASSUME NEW r \in Runs, CompleteRollbacks(r) PROVE TypeInv'
  BY <1>1, RollbackRunType DEF CompleteRollbacks, TypeOK, SlotHasJob
<1>2. ASSUME NEW batch \in SUBSET Expired, RequeueExpired(batch) PROVE TypeInv'
  <2>1. \A r \in Runs : run[r] \in RunRow
    BY DEF TypeOK
  <2>2. \A r \in Runs : /\ Closed(run[r], "error", "infrastructure_error") \in RunRow
                        /\ Requeued(run[r], "shutdown_requeue") \in RunRow
    BY <2>1, ClosedType, RequeuedType DEF RunStatus, RunReason, Terminal
  <2>3. run' \in [Runs -> RunRow]
    BY <1>2, <2>1, <2>2 DEF RequeueExpired
  <2>4. thread' \in [Threads -> ThreadRow]
    BY <1>2 DEF RequeueExpired, TypeOK, WithStatus, ThreadRow, ThreadStatus
  <2> QED BY <1>2, <2>3, <2>4 DEF RequeueExpired, TypeOK, SlotHasJob
<1>3. ASSUME NEW r \in Runs, LeaseExpires(r) \/ BackoffElapses(r) PROVE TypeInv'
  <2>1. run[r] \in RunRow
    BY DEF TypeOK
  <2>2. run' \in [Runs -> RunRow]
    BY <1>3, <2>1, FieldTypes DEF LeaseExpires, BackoffElapses, TypeOK
  <2> QED BY <1>3, <2>2 DEF LeaseExpires, BackoffElapses, TypeOK, SlotHasJob
<1> QED BY <1>1, <1>2, <1>3 DEF ReaperStep

\* A cancelled run's row is well-formed, with or without the retained lease.
LEMMA CancelledType ==
    ASSUME TypeOK, NEW r \in Runs
    PROVE  CancelledRow(r) \in RunRow
<1>1. run[r] \in RunRow
  BY DEF TypeOK
<1>2. Closed(run[r], "interrupted", "cancel_requested") \in RunRow
  BY <1>1, ClosedType DEF RunStatus, RunReason, Terminal
<1>3. ASSUME NEW e \in RunRow
      PROVE  [e EXCEPT !.owner = run[r].owner, !.live = run[r].live,
                       !.lease = run[r].lease] \in RunRow
  BY <1>1 DEF RunRow
<1> QED BY <1>2, <1>3 DEF CancelledRow

\* So do the requests of clients.
LEMMA ClientStepType ==
    ASSUME TypeInv, ClientStep \/ DeleteStep
    PROVE  TypeInv'
<1> USE DEF TypeInv
<1>0. \A r \in Runs : run[r] \in RunRow
  BY DEF TypeOK
<1>1. ASSUME NEW r \in Runs, NEW strategy, Create(r, strategy) PROVE TypeInv'
  <2>1. PICK p \in 1..QueueBound, b \in 1..QueueBound :
           run' = [run EXCEPT ![r] = [NoRow EXCEPT !.status = "pending",
                                                   !.born = b, !.pos = p]]
    BY <1>1 DEF Create
  <2>2. [NoRow EXCEPT !.status = "pending", !.born = b, !.pos = p] \in RunRow
    <3>1. p \in 0..QueueBound /\ b \in 0..QueueBound /\ "pending" \in RunStatus
      BY ConstantsAssumption DEF RunStatus
    <3>2. ASSUME NEW c \in RunRow
          PROVE  [c EXCEPT !.status = "pending", !.born = b, !.pos = p] \in RunRow
      BY <3>1 DEF RunRow
    <3> QED BY <3>2, EmptyRowType
  <2>3. run' \in [Runs -> RunRow]
    BY <2>1, <2>2, RunUpdate
  <2> QED BY <1>1, <2>3 DEF Create, TypeOK, SlotHasJob
<1>2. ASSUME NEW r \in Runs, CancelInterrupt(r) PROVE TypeInv'
  <2>1. run' \in [Runs -> RunRow]
    BY <1>2, CancelledType, RunUpdate DEF CancelInterrupt
  <2> QED BY <1>2, <2>1 DEF CancelInterrupt, TypeOK, SlotHasJob
<1>3. ASSUME NEW r \in Runs, CancelRollback(r) PROVE TypeInv'
  <2>1. CASE RollbackRun(r)
    BY <1>3, <2>1, RollbackRunType DEF CancelRollback, TypeOK, SlotHasJob
  <2>2. CASE ~RollbackRun(r)
    <3>1. run' = [run EXCEPT ![r] = [run[r] EXCEPT !.status = "interrupted",
                                                   !.reason = "rollback"]]
      BY <1>3, <2>2 DEF CancelRollback, TypeOK
    <3>2. run' \in [Runs -> RunRow]
      BY <1>0, <3>1, FieldTypes, RunUpdate
    <3> QED BY <1>3, <2>2, <3>2 DEF CancelRollback, TypeOK, SlotHasJob
  <2> QED BY <2>1, <2>2
<1>4. ASSUME NEW t \in Threads, Reorder(t) PROVE TypeInv'
  <2>1. PICK f \in [Queued(t) -> Queued(t)] :
           run' = [r \in Runs |-> IF r \in Queued(t)
                                  THEN [run[r] EXCEPT !.pos = run[f[r]].pos] ELSE run[r]]
    BY <1>4 DEF Reorder
  <2>2. \A r \in Queued(t) : run[f[r]].pos \in 0..QueueBound
    BY <1>0 DEF Queued, RunRow
  <2>3. run' \in [Runs -> RunRow]
    BY <1>0, <2>1, <2>2, FieldTypes
  <2> QED BY <1>4, <2>3 DEF Reorder, TypeOK, SlotHasJob
<1>5. \A t \in Threads : WithoutBaselines(t) \in [Runs -> RunRow]
  BY <1>0, FieldTypes DEF WithoutBaselines
<1>6. ASSUME NEW t \in Threads, UpdateState(t) PROVE TypeInv'
  BY <1>5, <1>6 DEF UpdateState, TypeOK, SlotHasJob
<1>7. ASSUME NEW r \in Runs, RunsDelete(r) PROVE TypeInv'
  BY <1>7, EmptyRowType DEF RunsDelete, TypeOK, SlotHasJob
<1>8. ASSUME NEW t \in Threads, ThreadsDelete(t) PROVE TypeInv'
  <2>1. \A r \in Runs : [WithoutBaselines(t)[r] EXCEPT !.term = "none"] \in RunRow
    BY <1>5, FieldTypes
  <2>2. run' \in [Runs -> RunRow]
    BY <1>0, <1>8, <2>1 DEF ThreadsDelete
  <2>3. thread' \in [Threads -> ThreadRow]
    BY <1>8 DEF ThreadsDelete, TypeOK, ThreadRow, ThreadStatus
  <2> QED BY <1>8, <2>2, <2>3 DEF ThreadsDelete, TypeOK, SlotHasJob
<1> QED BY <1>1, <1>2, <1>3, <1>4, <1>6, <1>7, <1>8 DEF ClientStep, DeleteStep

-----------------------------------------------------------------------------
(* What a step may do to the row of one run.  Every action is shown once to   *)
(* be such a step; the invariants are then proved from these cases alone.     *)

SameButLease(r) ==
    /\ run'[r].retry = run[r].retry
    /\ run'[r].base = run[r].base
    /\ run'[r].pos = run[r].pos

\* The claim is not touched: a lease or backoff runs out, rows move in the queue,
\* baselines are dropped, or events go with their thread.
Untouched(r) ==
    /\ run'[r].status = run[r].status
    /\ run'[r].reason = run[r].reason
    /\ run'[r].retry = run[r].retry
    /\ run'[r].owner = run[r].owner
    /\ run'[r].lease = run[r].lease
    /\ run'[r].live => run[r].live
    /\ run'[r].base \in {run[r].base, NoBaseline}
    /\ run'[r].term = run[r].term \/ ~CanRecord(r)'
    /\ run'[r].pos = run[r].pos \/ \E t \in Threads : Reorder(t)

NoClaim(row) == row.owner = NoWorker /\ row.lease = NoLease /\ ~row.live

\* Nothing but r's row changes.
Alone(r) == \A q \in Runs \ {r} : run'[q] = run[q]

\* The run leaves its claim: it ends or goes back to the queue.  Only a finaliser
\* that loaded the row earlier does that to a run that has ended.
Left(r) ==
    /\ Exists(r)
    /\ \/ run[r].status \notin Terminal
       \/ /\ \E w \in Workers : slot[w].pc = "loaded" /\ slot[w].job = r
          /\ Alone(r)
    /\ NoClaim(run'[r])
    /\ run'[r].status \in Terminal \cup {"pending"}
    /\ run'[r].reason # "rollback"
    /\ run'[r].status \in Terminal => run'[r].term # "none"
    /\ SameButLease(r)

\* A submitted run goes to the end of its thread's queue.
Created(r) ==
    /\ run[r].status = "new"
    /\ run'[r].status = "pending"
    /\ run'[r].reason = "none"
    /\ run'[r].retry = 0
    /\ NoClaim(run'[r])
    /\ run'[r].base = NoBaseline
    /\ \A q \in Siblings(r) : run[q].pos < run'[r].pos
    /\ Alone(r)

\* claim_next, with or without the assistant.
Taken(r) ==
    /\ run[r].status = "pending"
    /\ Threaded(r) => ThreadFree(r)
    /\ run'[r].retry = run[r].retry + 1
    /\ run'[r].pos = run[r].pos
    /\ \/ /\ run'[r].status = "running"
          /\ run'[r].reason = "none"
          /\ run'[r].owner \in Workers
          /\ run'[r].lease = [owner |-> run'[r].owner, gen |-> run'[r].retry]
       \/ /\ run'[r].status = "error"
          /\ run'[r].reason = "business_error"
          /\ run'[r].term # "none"
          /\ NoClaim(run'[r])
    /\ Alone(r)

\* A cancellation stops a running run, which keeps its lease.
Stopped(r) ==
    /\ run[r].status = "running"
    /\ run'[r].status = "interrupted"
    /\ run'[r].reason = "cancel_requested"
    /\ run'[r].owner = run[r].owner
    /\ run'[r].lease = run[r].lease
    /\ run'[r].live = run[r].live
    /\ run'[r].term # "none"
    /\ SameButLease(r)

\* A rollback is requested while the run has an owner.
Marked(r) ==
    /\ Exists(r)
    /\ RollbackAllowed(r)
    /\ run[r].owner # NoWorker
    /\ run'[r] = [run[r] EXCEPT !.status = "interrupted", !.reason = "rollback"]
    /\ Alone(r)

\* The slot of a stopped run gives up the lease.
Released(r) ==
    /\ run[r].reason = "cancel_requested"
    /\ Exists(r)
    /\ run'[r].status = run[r].status
    /\ run'[r].reason = run[r].reason
    /\ run'[r].term = run[r].term
    /\ NoClaim(run'[r])
    /\ SameButLease(r)

\* The run is deleted, by a client or by its rollback.
Removed(r) ==
    /\ Exists(r)
    /\ run'[r] = DeletedRow
    /\ Alone(r)

RowStep(r) ==
    \/ Untouched(r)
    \/ Left(r)
    \/ Created(r)
    \/ Taken(r)
    \/ Stopped(r)
    \/ Marked(r)
    \/ Released(r)
    \/ Removed(r)

\* The fields of the rows the helpers build.
LEMMA ClosedFields ==
    ASSUME NEW row \in RunRow, NEW st \in RunStatus, NEW why \in RunReason
    PROVE  LET c == Closed(row, st, why)
           IN  /\ NoClaim(c) /\ c.status = st /\ c.reason = why
               /\ c.retry = row.retry /\ c.base = row.base
               /\ c.pos = row.pos
               /\ st \in Terminal => c.term # "none"
BY DEF Closed, RunRow, NoClaim, IsTerminal, Terminal

LEMMA RequeuedFields ==
    ASSUME NEW row \in RunRow, NEW why \in RunReason
    PROVE  LET c == Requeued(row, why)
           IN  /\ NoClaim(c) /\ c.status = "pending" /\ c.reason = why
               /\ c.retry = row.retry /\ c.base = row.base /\ c.pos = row.pos
<1>1. ASSUME NEW c \in RunRow
      PROVE  LET d == [c EXCEPT !.backoff = TRUE]
             IN  /\ NoClaim(c) => NoClaim(d)
                 /\ d.status = c.status /\ d.reason = c.reason
                 /\ d.retry = c.retry /\ d.base = c.base /\ d.pos = c.pos
  BY DEF RunRow, NoClaim
<1>2. Closed(row, "pending", why) \in RunRow /\ "pending" \in RunStatus
  BY ClosedType DEF RunStatus
<1> QED BY <1>1, <1>2, ClosedFields DEF Requeued

LEMMA ClaimedFields ==
    ASSUME TypeOK, NEW r \in Runs, NEW w \in Workers, NEW at \in 0..QueueBound
    PROVE  /\ Claimed(r, w, at).status = "running"
           /\ Claimed(r, w, at).reason = "none"
           /\ Claimed(r, w, at).owner = w
           /\ Claimed(r, w, at).retry = run[r].retry + 1
           /\ Claimed(r, w, at).pos = run[r].pos
           /\ Claimed(r, w, at).lease = [owner |-> w, gen |-> run[r].retry + 1]
BY DEF TypeOK, Claimed, RunRow

\* A row that no action wrote is untouched.
LEMMA SameRow ==
    ASSUME NEW r \in Runs, run'[r] = run[r]
    PROVE  RowStep(r)
BY DEF RowStep, Untouched

\* An update of r's row alone.
LEMMA OneRow ==
    ASSUME TypeOK, NEW r \in Runs, NEW row, run' = [run EXCEPT ![r] = row],
           run'[r] = row /\ Alone(r) => RowStep(r)
    PROVE  \A q \in Runs : RowStep(q)
<1>1. run'[r] = row /\ Alone(r)
  BY DEF TypeOK, Alone
<1> QED BY <1>1, SameRow DEF Alone

LEMMA ClosedStep ==
    ASSUME TypeOK, NEW r \in Runs, NEW st \in Terminal \cup {"pending"},
           NEW why \in RunReason \ {"rollback"}, Exists(r),
           \/ run[r].status \notin Terminal
           \/ Alone(r) /\ \E w \in Workers : slot[w].pc = "loaded" /\ slot[w].job = r,
           \/ run'[r] = Closed(run[r], st, why)
           \/ st = "pending" /\ run'[r] = Requeued(run[r], why)
    PROVE  RowStep(r)
<1>1. run[r] \in RunRow /\ st \in RunStatus
  BY DEF TypeOK, RunStatus
<1>2. Left(r)
  BY <1>1, ClosedFields, RequeuedFields DEF Left, SameButLease, Terminal
<1> QED BY <1>2 DEF RowStep

LEMMA ClaimRow ==
    ASSUME TypeInv, NEW w \in Workers, NEW r \in Runs, NEW locked \in SUBSET Runs,
           ClaimNext(w, r, locked)
    PROVE  \A q \in Runs : RowStep(q)
<1> USE DEF TypeInv
<1>0. run[r].status = "pending" /\ (Threaded(r) => ThreadFree(r)) /\ Exists(r)
  BY DEF ClaimNext, Claim, ClaimWithoutAssistant, ClaimExhausted, Claimable,
         Candidate, Eligible, Exists
<1>1. CASE Claim(w, r, locked)
  <2>1. PICK at \in 0..QueueBound : run' = [run EXCEPT ![r] = Claimed(r, w, at)]
    BY <1>1 DEF Claim
  <2>2. ASSUME run'[r] = Claimed(r, w, at), Alone(r)
        PROVE  RowStep(r)
    <3> DEFINE c == Claimed(r, w, at)
    <3>1. /\ c.status = "running" /\ c.reason = "none" /\ c.owner = w
          /\ c.retry = run[r].retry + 1 /\ c.pos = run[r].pos
          /\ c.lease = [owner |-> w, gen |-> run[r].retry + 1]
      BY ClaimedFields
    <3> HIDE DEF c
    <3>2. run'[r] = c
      BY <2>2 DEF c
    <3>3. Taken(r)
      BY <1>0, <2>2, <3>1, <3>2 DEF Taken
    <3> QED BY <3>3 DEF RowStep
  <2> QED BY <2>1, <2>2, OneRow
<1>2. CASE ClaimWithoutAssistant(w, r, locked)
  <2>1. PICK at \in 0..QueueBound :
          run' = [run EXCEPT ![r] =
                    Closed(Claimed(r, w, at), "error", "business_error")]
    BY <1>2 DEF ClaimWithoutAssistant
  <2>2. Claimed(r, w, at) \in RunRow
    BY <1>2, ClaimedType DEF ClaimWithoutAssistant
  <2>3. ASSUME run'[r] = Closed(Claimed(r, w, at), "error", "business_error"), Alone(r)
        PROVE  RowStep(r)
    <3>0. "error" \in RunStatus /\ "business_error" \in RunReason /\ "error" \in Terminal
      BY DEF RunStatus, RunReason, Terminal
    <3>1. /\ run'[r].retry = Claimed(r, w, at).retry
          /\ run'[r].pos = Claimed(r, w, at).pos
      BY <2>2, <2>3, <3>0, ClosedFields
    <3>b. Claimed(r, w, at).retry = run[r].retry + 1 /\ Claimed(r, w, at).pos = run[r].pos
      BY DEF Claimed, TypeOK, RunRow
    <3>a. run'[r].retry = run[r].retry + 1 /\ run'[r].pos = run[r].pos
      BY <3>1, <3>b
    <3>2. /\ run'[r].status = "error" /\ run'[r].reason = "business_error"
          /\ run'[r].term # "none" /\ NoClaim(run'[r])
      BY <2>2, <2>3, <3>0, ClosedFields
    <3> QED BY <1>0, <2>3, <3>a, <3>2 DEF RowStep, Taken
  <2> QED BY <2>1, <2>3, OneRow
<1>3. CASE ClaimExhausted(w, r, locked)
  <2>1. ASSUME run'[r] = Closed(run[r], "error", "infrastructure_error")
        PROVE  RowStep(r)
    BY <1>0, <2>1, ClosedStep DEF Terminal, RunReason
  <2>2. run' = [run EXCEPT ![r] = Closed(run[r], "error", "infrastructure_error")]
    BY <1>3 DEF ClaimExhausted
  <2> QED BY <2>1, <2>2, OneRow
<1> QED BY <1>1, <1>2, <1>3 DEF ClaimNext

LEMMA RollbackRow ==
    ASSUME TypeOK, NEW r \in Runs, Exists(r), RollbackRun(r)
    PROVE  \A q \in Runs : RowStep(q)
BY OneRow DEF RollbackRun, RowStep, Removed

\* A finalisation closes the row it loaded, or queues it again.
LEMMA FinalizeRow ==
    ASSUME TypeInv, NEW w \in Workers, Finalize(w)
    PROVE  \A q \in Runs : RowStep(q)
<1> USE DEF TypeInv
<1> DEFINE r == slot[w].job
<1>1. r \in Runs /\ slot[w].pc = "loaded" /\ slot[w].outcome \in Outcomes
  BY SlotTypes DEF Finalize, Slot
<1>2. JobRow(w) = run[r]
  BY DEF JobRow
<1> HIDE DEF r
<1>3. CASE UNCHANGED run
  BY <1>3, SameRow
<1>4. CASE Exists(r) /\ run' = [run EXCEPT ![r] = FinalRow(w)]
  <2>0. \E v \in Workers : slot[v].pc = "loaded" /\ slot[v].job = r
    BY <1>1 DEF r
  <2>1. \/ \E st \in Terminal, why \in RunReason \ {"rollback"} :
              FinalRow(w) = Closed(run[r], st, why)
        \/ FinalRow(w) = Requeued(run[r], "retry")
    <3>1. CASE slot[w].outcome = "success"
      <4>1. FinalRow(w) = Closed(run[r], "success", "completed")
        BY <1>2, <3>1 DEF FinalRow
      <4> QED BY <4>1 DEF Terminal, RunReason
    <3>2. CASE slot[w].outcome = "hitl"
      <4>1. FinalRow(w) = Closed(run[r], "interrupted", "hitl_interrupt")
        BY <1>2, <3>2 DEF FinalRow
      <4> QED BY <4>1 DEF Terminal, RunReason
    <3>3. CASE slot[w].outcome = "cancel"
      <4>1. FinalRow(w) = Closed(run[r], "interrupted", "cancel_requested")
        BY <1>2, <3>3 DEF FinalRow
      <4> QED BY <4>1 DEF Terminal, RunReason
    <3>4. CASE slot[w].outcome = "timeout"
      <4>1. FinalRow(w) = Closed(run[r], "timeout", "timeout")
        BY <1>2, <3>4 DEF FinalRow
      <4> QED BY <4>1 DEF Terminal, RunReason
    <3>5. CASE slot[w].outcome = "business"
      <4>1. FinalRow(w) = Closed(run[r], "error", "business_error")
        BY <1>2, <3>5 DEF FinalRow
      <4> QED BY <4>1 DEF Terminal, RunReason
    <3>6. CASE slot[w].outcome = "infra"
      <4>1. \/ FinalRow(w) = Requeued(run[r], "retry")
            \/ FinalRow(w) = Closed(run[r], "error", "infrastructure_error")
        BY <1>2, <3>6 DEF FinalRow
      <4> QED BY <4>1 DEF Terminal, RunReason
    <3> QED BY <1>1, <3>1, <3>2, <3>3, <3>4, <3>5, <3>6 DEF Outcomes
  <2>2. "retry" \in RunReason \ {"rollback"}
    BY DEF RunReason
  <2>3. ASSUME run'[r] = FinalRow(w), Alone(r) PROVE RowStep(r)
    <3>1. CASE FinalRow(w) = Requeued(run[r], "retry")
      BY <1>1, <1>4, <2>0, <2>2, <2>3, <3>1, ClosedStep
    <3>2. ASSUME NEW st \in Terminal, NEW why \in RunReason \ {"rollback"},
                 FinalRow(w) = Closed(run[r], st, why)
          PROVE  RowStep(r)
      BY <1>1, <1>4, <2>0, <2>3, <3>2, ClosedStep
    <3> QED BY <2>1, <3>1, <3>2
  <2> QED BY <1>1, <1>4, <2>3, OneRow
<1> QED BY <1>3, <1>4 DEF Finalize, r

\* Every step of a slot is a row step of every run.
LEMMA SlotStepRow ==
    ASSUME TypeInv, NEW w \in Workers, SlotStep(w)
    PROVE  \A q \in Runs : RowStep(q)
<1> USE DEF TypeInv
<1>j. slot[w].pc # "idle" => slot[w].job \in Runs
  BY SlotTypes
<1>o. Owns(w) => Exists(slot[w].job) /\ run[slot[w].job].status \notin Terminal
  BY DEF Owns, JobRow, IsTerminal
<1>1. CASE \E r \in Runs, locked \in SUBSET Runs : ClaimNext(w, r, locked)
  BY <1>1, ClaimRow
<1>2. CASE FailContext(w)
  <2>1. CASE UNCHANGED run
    BY <2>1, SameRow
  <2>2. CASE ~UNCHANGED run
    <3>1. /\ slot[w].job \in Runs /\ Owns(w)
          /\ run' = [run EXCEPT ![slot[w].job] =
                       Closed(run[slot[w].job], "error", "business_error")]
      BY <1>2, <1>j, <2>2 DEF FailContext
    <3>2. "error" \in Terminal \cup {"pending"}
          /\ "business_error" \in RunReason \ {"rollback"}
      BY DEF Terminal, RunReason
    <3> QED BY <1>o, <3>1, <3>2, ClosedStep, OneRow
  <2> QED BY <2>1, <2>2
<1>3. CASE Finalize(w)
  BY <1>3, FinalizeRow
<1>4. CASE RequeueForShutdown(w)
  <2>1. CASE UNCHANGED run
    BY <2>1, SameRow
  <2>2. CASE ~UNCHANGED run
    <3>1. /\ slot[w].job \in Runs /\ Owns(w)
          /\ run' = [run EXCEPT ![slot[w].job] =
                       Requeued(run[slot[w].job], "shutdown_requeue")]
      BY <1>4, <1>j, <2>2 DEF RequeueForShutdown
    <3>2. "pending" \in Terminal \cup {"pending"}
          /\ "shutdown_requeue" \in RunReason \ {"rollback"}
      BY DEF RunReason
    <3> QED BY <1>o, <3>1, <3>2, ClosedStep, OneRow
  <2> QED BY <2>1, <2>2
<1>5. CASE Release(w)
  <2>1. CASE UNCHANGED run
    BY <2>1, SameRow
  <2>2. CASE ~UNCHANGED run
    <3> DEFINE r == slot[w].job
               row == [run[r] EXCEPT !.owner = NoWorker, !.live = FALSE,
                                     !.lease = NoLease]
    <3>1. r \in Runs /\ Exists(r) /\ run[r].reason = "cancel_requested"
      BY <1>5, <1>j, <2>2 DEF Release, JobRow
    <3>2. run' = [run EXCEPT ![r] = row]
      BY <1>5, <2>2, <3>1 DEF Release, TypeOK
    <3>3. run[r] \in RunRow
      BY <3>1 DEF TypeOK
    <3>4. ASSUME run'[r] = row PROVE RowStep(r)
      BY <3>1, <3>3, <3>4 DEF RowStep, Released, RunRow, NoClaim, SameButLease
    <3> HIDE DEF row, r
    <3> QED BY <3>1, <3>2, <3>4, OneRow
  <2> QED BY <2>1, <2>2
<1>6. CASE AckRollback(w)
  <2>1. CASE UNCHANGED run
    BY <2>1, SameRow
  <2>2. CASE ~UNCHANGED run
    BY <1>6, <1>j, <2>2, RollbackRow DEF AckRollback
  <2> QED BY <2>1, <2>2
<1>7. CASE UNCHANGED run
  BY <1>7, SameRow
<1> QED
  BY <1>1, <1>2, <1>3, <1>4, <1>5, <1>6, <1>7, SlotStep(w)
     DEF SlotStep, Begin, HeartbeatLost, HeartbeatError, Load, FinalizeLost, Crash

\* So is every step of the reaper and the clock.
LEMMA ReaperStepRow ==
    ASSUME TypeInv, ReaperStep
    PROVE  \A q \in Runs : RowStep(q)
<1> USE DEF TypeInv
<1>1. ASSUME NEW r \in Runs, CompleteRollbacks(r) PROVE \A q \in Runs : RowStep(q)
  BY <1>1, RollbackRow DEF CompleteRollbacks
<1>2. ASSUME NEW batch \in SUBSET Expired, RequeueExpired(batch), NEW q \in Runs
      PROVE  RowStep(q)
  <2>1. CASE q \notin batch
    BY <1>2, <2>1, SameRow DEF RequeueExpired
  <2>2. CASE q \in batch
    <3>1. Exists(q) /\ run[q].status \notin Terminal
      BY <2>2 DEF Expired, Exists, Terminal
    <3>2. /\ "error" \in Terminal \cup {"pending"}
          /\ "infrastructure_error" \in RunReason \ {"rollback"}
          /\ "shutdown_requeue" \in RunReason \ {"rollback"}
      BY DEF Terminal, RunReason
    <3>3. \/ run'[q] = Closed(run[q], "error", "infrastructure_error")
          \/ run'[q] = Requeued(run[q], "shutdown_requeue")
      BY <1>2, <2>2 DEF RequeueExpired
    <3> QED BY <3>1, <3>2, <3>3, ClosedStep
  <2> QED BY <2>1, <2>2
<1>3. ASSUME NEW r \in Runs, LeaseExpires(r) \/ BackoffElapses(r), NEW q \in Runs
      PROVE  RowStep(q)
  <2>1. Untouched(q)
    BY <1>3 DEF LeaseExpires, BackoffElapses, Untouched, TypeOK, RunRow
  <2> QED BY <2>1 DEF RowStep
<1> QED BY <1>1, <1>2, <1>3 DEF ReaperStep

\* So is every request.
LEMMA ClientStepRow ==
    ASSUME TypeInv, ClientStep \/ DeleteStep
    PROVE  \A q \in Runs : RowStep(q)
<1> USE DEF TypeInv
<1>0. \A r \in Runs : run[r] \in RunRow
  BY DEF TypeOK
<1>1. ASSUME NEW r \in Runs, NEW strategy, Create(r, strategy)
      PROVE  \A q \in Runs : RowStep(q)
  <2>1. PICK p \in 1..QueueBound, b \in 1..QueueBound :
           /\ run' = [run EXCEPT ![r] = [NoRow EXCEPT !.status = "pending",
                                                      !.born = b, !.pos = p]]
           /\ \A q \in Siblings(r) : run[q].pos < p
    BY <1>1 DEF Create
  <2>2. ASSUME run'[r] = [NoRow EXCEPT !.status = "pending", !.born = b, !.pos = p],
               Alone(r)
        PROVE  RowStep(r)
    <3>1. /\ run'[r].status = "pending" /\ run'[r].reason = "none"
          /\ run'[r].retry = 0 /\ run'[r].base = NoBaseline /\ run'[r].pos = p
          /\ NoClaim(run'[r])
      BY <2>2 DEF NoRow, NoClaim
    <3>2. Created(r)
      BY <1>1, <2>1, <2>2, <3>1 DEF Create, Created
    <3> QED BY <3>2 DEF RowStep
  <2> QED BY <2>1, <2>2, OneRow
<1>2. ASSUME NEW r \in Runs, CancelInterrupt(r) PROVE \A q \in Runs : RowStep(q)
  <2>1. CASE run[r].status = "pending"
    <3>1. /\ Exists(r) /\ run[r].status \notin Terminal
          /\ "interrupted" \in Terminal \cup {"pending"}
          /\ "cancel_requested" \in RunReason \ {"rollback"}
      BY <2>1 DEF Exists, Terminal, RunReason
    <3>2. run' = [run EXCEPT ![r] = Closed(run[r], "interrupted", "cancel_requested")]
      BY <1>2, <2>1 DEF CancelInterrupt, CancelledRow
    <3> QED BY <3>1, <3>2, ClosedStep, OneRow
  <2>2. CASE run[r].status = "running"
    <3> DEFINE c == Closed(run[r], "interrupted", "cancel_requested")
    <3>1. /\ c \in RunRow /\ c.status = "interrupted" /\ c.reason = "cancel_requested"
          /\ c.retry = run[r].retry /\ c.base = run[r].base /\ c.term # "none"
          /\ c.pos = run[r].pos
      <4>1. "interrupted" \in RunStatus /\ "cancel_requested" \in RunReason
            /\ "interrupted" \in Terminal
        BY DEF RunStatus, Terminal, RunReason
      <4> QED BY <1>0, <4>1, ClosedFields, ClosedType
    <3>2. CancelledRow(r) = [c EXCEPT !.owner = run[r].owner, !.live = run[r].live,
                                      !.lease = run[r].lease]
      BY <2>2 DEF CancelledRow
    <3> HIDE DEF c
    <3>3. ASSUME run'[r] = CancelledRow(r) PROVE RowStep(r)
      BY <2>2, <3>1, <3>2, <3>3 DEF RowStep, Stopped, SameButLease, RunRow
    <3> QED BY <1>2, <3>3, OneRow DEF CancelInterrupt
  <2> QED BY <1>2, <2>1, <2>2 DEF CancelInterrupt, Cancellable
<1>3. ASSUME NEW r \in Runs, CancelRollback(r) PROVE \A q \in Runs : RowStep(q)
  <2>1. CASE RollbackRun(r)
    BY <1>3, <2>1, RollbackRow DEF CancelRollback
  <2>2. CASE ~RollbackRun(r)
    <3> DEFINE row == [run[r] EXCEPT !.status = "interrupted", !.reason = "rollback"]
    <3>1. run' = [run EXCEPT ![r] = row] /\ run[r].owner # NoWorker
      BY <1>3, <2>2 DEF CancelRollback, TypeOK
    <3>2. ASSUME run'[r] = row, Alone(r) PROVE RowStep(r)
      BY <1>3, <3>1, <3>2 DEF RowStep, Marked, CancelRollback
    <3> HIDE DEF row
    <3> QED BY <3>1, <3>2, OneRow
  <2> QED BY <2>1, <2>2
<1>4. ASSUME NEW t \in Threads, Reorder(t), NEW q \in Runs PROVE RowStep(q)
  <2>1. PICK f \in [Queued(t) -> Queued(t)] :
           run' = [r \in Runs |-> IF r \in Queued(t)
                                  THEN [run[r] EXCEPT !.pos = run[f[r]].pos] ELSE run[r]]
    BY <1>4 DEF Reorder
  <2>2. Untouched(q)
    BY <1>0, <1>4, <2>1 DEF Untouched, RunRow
  <2> QED BY <2>2 DEF RowStep
<1>5. ASSUME NEW t \in Threads, UpdateState(t), NEW q \in Runs PROVE RowStep(q)
  <2>1. Untouched(q)
    BY <1>0, <1>5 DEF UpdateState, WithoutBaselines, Untouched, RunRow
  <2> QED BY <2>1 DEF RowStep
<1>6. ASSUME NEW r \in Runs, RunsDelete(r) PROVE \A q \in Runs : RowStep(q)
  BY <1>6, OneRow DEF RunsDelete, RowStep, Removed
<1>7. ASSUME NEW t \in Threads, ThreadsDelete(t), NEW q \in Runs PROVE RowStep(q)
  <2>1. CASE ThreadOf[q] # t
    BY <1>7, <2>1, SameRow DEF ThreadsDelete
  <2>2. CASE ThreadOf[q] = t
    <3>1. ~CanRecord(q)'
      BY <1>7, <2>2, ConstantsAssumption
         DEF ThreadsDelete, TypeOK, CanRecord, Threaded
    <3>2. run'[q] = [[run[q] EXCEPT !.base = NoBaseline] EXCEPT !.term = "none"]
      BY <1>7, <2>2 DEF ThreadsDelete, WithoutBaselines
    <3>3. Untouched(q)
      BY <1>0, <3>1, <3>2 DEF Untouched, RunRow
    <3> QED BY <3>3 DEF RowStep
  <2> QED BY <2>1, <2>2
<1> QED BY <1>1, <1>2, <1>3, <1>4, <1>5, <1>6, <1>7 DEF ClientStep, DeleteStep

\* Every step does one of the row steps to every run.
LEMMA NextRow ==
    ASSUME TypeInv, [Next]_vars
    PROVE  \A q \in Runs : RowStep(q)
<1>1. CASE UNCHANGED vars
  BY <1>1, SameRow DEF vars
<1>2. CASE Next
  BY <1>2, SlotStepRow, ReaperStepRow, ClientStepRow DEF Next
<1> QED BY <1>1, <1>2

-----------------------------------------------------------------------------
(* Ownership *)

\* LeaseMatchesRun for the row of one run.  A running run has no reason yet:
\* that is why the finally block of run_once, which looks at the reason only,
\* never takes the lease of a run that somebody claimed again.
LeaseRow(row) ==
    /\ row.status = "running" => row.reason = "none"
    /\ row.status = "running" =>
          row.owner # NoWorker /\ row.lease = [owner |-> row.owner, gen |-> row.retry]
    /\ row.owner # NoWorker =>
          \/ row.status = "running"
          \/ /\ row.status = "interrupted"
             /\ row.reason \in {"cancel_requested", "rollback"}
    /\ row.owner = NoWorker => row.lease = NoLease /\ ~row.live

LeaseInv == \A r \in Runs : LeaseRow(run[r])

\* It is the stronger invariant.
LEMMA LeaseInvImplies == LeaseInv => LeaseMatchesRun
BY DEF LeaseInv, LeaseRow, LeaseMatchesRun

LEMMA LeaseStep ==
    ASSUME TypeInv, TypeInv', LeaseInv, [Next]_vars
    PROVE  LeaseInv'
<1>1. \A r \in Runs : LeaseRow(run[r])
  BY DEF LeaseInv
<1>2. ASSUME NEW r \in Runs PROVE LeaseRow(run'[r])
  <2>0. LeaseRow(run[r]) /\ RowStep(r) /\ run[r] \in RunRow
    BY <1>1, NextRow DEF TypeInv, TypeOK
  <2>1. CASE Untouched(r)
    <3>1. run'[r] \in RunRow
      BY DEF TypeInv, TypeOK
    <3> QED BY <2>0, <2>1, <3>1 DEF Untouched, LeaseRow, RunRow
  <2>2. CASE Left(r)
    BY <2>2 DEF Left, NoClaim, LeaseRow, Terminal
  <2>3. CASE Created(r)
    BY <2>3 DEF Created, NoClaim, LeaseRow
  <2>4. CASE Taken(r)
    BY <2>4, ConstantsAssumption DEF Taken, NoClaim, LeaseRow
  <2>5. CASE Stopped(r)
    BY <2>0, <2>5 DEF Stopped, LeaseRow
  <2>6. CASE Marked(r)
    BY <2>0, <2>6 DEF Marked, LeaseRow, RunRow
  <2>7. CASE Released(r)
    BY <2>0, <2>7 DEF Released, NoClaim, LeaseRow
  <2>8. CASE Removed(r)
    BY <2>8 DEF Removed, DeletedRow, NoRow, LeaseRow
  <2> QED BY <2>0, <2>1, <2>2, <2>3, <2>4, <2>5, <2>6, <2>7, <2>8 DEF RowStep
<1> QED BY <1>2 DEF LeaseInv

\* Nothing but a claim makes a run hold its thread, and a claimed thread is free.
LEMMA HolderStep ==
    ASSUME TypeInv, TypeInv', LeaseMatchesRun, OneHolderPerThread, [Next]_vars
    PROVE  OneHolderPerThread'
<1>0. \A r \in Runs : RowStep(r) /\ run[r] \in RunRow
  BY NextRow DEF TypeInv, TypeOK
<1>1. ASSUME NEW r \in Runs, Holds(r)' PROVE Holds(r) \/ Taken(r)
  <2>1. Untouched(r) => Holds(r)
    BY <1>1 DEF Untouched, Holds
  <2>2. ~Left(r)
    BY <1>1 DEF Left, NoClaim, Holds, Terminal
  <2>3. ~Created(r)
    BY <1>1 DEF Created, NoClaim, Holds
  <2>4. Stopped(r) => Holds(r)
    BY DEF Stopped, Holds
  <2>5. Marked(r) => Holds(r)
    BY <1>0, <1>1 DEF Marked, Holds, RunRow
  <2>6. Released(r) => Holds(r)
    BY <1>1 DEF Released, NoClaim, Holds
  <2>7. ~Removed(r)
    BY <1>1 DEF Removed, DeletedRow, NoRow, Holds
  <2> QED BY <1>0, <2>1, <2>2, <2>3, <2>4, <2>5, <2>6, <2>7 DEF RowStep
<1>2. ASSUME NEW r \in Runs, NEW q \in Runs, Taken(r), Threaded(r), r # q,
             ThreadOf[r] = ThreadOf[q]
      PROVE  ~Holds(q)'
  <2>1. run'[q] = run[q]
    BY <1>2 DEF Taken, Alone
  <2>2. ~Holds(q)
    <3>1. CASE Exists(q)
      BY <1>2, <3>1 DEF Taken, ThreadFree, Siblings, Occupies, Holds
    <3>2. CASE ~Exists(q)
      BY <3>2 DEF LeaseMatchesRun, Exists, Holds
    <3> QED BY <3>1, <3>2
  <2> QED BY <2>1, <2>2 DEF Holds
<1>3. ASSUME NEW r \in Runs, NEW q \in Runs, Threaded(r), r # q,
             ThreadOf[r] = ThreadOf[q], Holds(r)', Holds(q)'
      PROVE  FALSE
  <2>1. Threaded(q)
    BY <1>3 DEF Threaded
  <2>2. ~Taken(r) /\ ~Taken(q)
    BY <1>2, <1>3, <2>1
  <2>3. Holds(r) /\ Holds(q)
    BY <1>1, <1>3, <2>2
  <2> QED BY <1>3, <2>3 DEF OneHolderPerThread
<1>4. \A r \in Runs : Threaded(r)' <=> Threaded(r)
  BY DEF Threaded
<1> QED BY <1>3, <1>4 DEF OneHolderPerThread

\* A rollback mark keeps every other run off the thread until it is resolved.
LEMMA BarrierStep ==
    ASSUME TypeInv, TypeInv', LeaseMatchesRun, RollbackBarrier, [Next]_vars
    PROVE  RollbackBarrier'
<1>0. \A r \in Runs : RowStep(r) /\ run[r] \in RunRow /\ run'[r] \in RunRow
  BY NextRow DEF TypeInv, TypeOK
<1>s. \A r, q \in Runs : q \in Siblings(r)' <=>
          /\ q # r /\ Threaded(r) /\ ThreadOf[q] = ThreadOf[r]
          /\ run'[q].status \notin {"new", "deleted"}
  BY DEF Siblings, Threaded, Exists
<1>t. \A r, q \in Runs : q \in Siblings(r) <=>
          /\ q # r /\ Threaded(r) /\ ThreadOf[q] = ThreadOf[r] /\ Exists(q)
  BY DEF Siblings
<1>1. ASSUME NEW r \in Runs, run'[r].reason = "rollback"
      PROVE  \/ Untouched(r) /\ run[r].reason = "rollback"
             \/ Marked(r)
  BY <1>0, <1>1 DEF RowStep, Untouched, Left, Created, Taken, Stopped, Released,
                    Removed, DeletedRow, NoRow
<1>2. ASSUME NEW r \in Runs, Marked(r)
      PROVE  /\ run'[r].status = "interrupted"
             /\ \A q \in Siblings(r)' :
                  ~Occupies(q)' /\ (run'[r].base.at > 0 => run'[q].base.at < run'[r].base.at)
  <2>1. run'[r].status = "interrupted" /\ run'[r].base = run[r].base
    BY <1>0, <1>2 DEF Marked, RunRow
  <2>2. ASSUME NEW q \in Siblings(r)'
        PROVE  ~Occupies(q)' /\ (run'[r].base.at > 0 => run'[q].base.at < run'[r].base.at)
    <3>1. q \in Runs /\ run'[q] = run[q] /\ q \in Siblings(r) /\ Threaded(r)
      BY <1>2, <1>s, <1>t, <2>2 DEF Marked, Alone, Siblings, Exists
    <3>2. ~Occupies(q) /\ (run[r].base.at > 0 => run[q].base.at < run[r].base.at)
      BY <1>2, <3>1 DEF Marked, RollbackAllowed
    <3> QED BY <2>1, <3>1, <3>2 DEF Occupies
  <2> QED BY <2>1, <2>2
<1>3. ASSUME NEW r \in Runs, Untouched(r), run[r].reason = "rollback"
      PROVE  /\ run'[r].status = "interrupted"
             /\ \A q \in Siblings(r)' :
                  ~Occupies(q)' /\ (run'[r].base.at > 0 => run'[q].base.at < run'[r].base.at)
  <2>1. run[r].status = "interrupted" /\ run'[r].status = "interrupted" /\ Exists(r)
    BY <1>3 DEF RollbackBarrier, Untouched, Exists
  <2>2. ASSUME NEW q \in Siblings(r)'
        PROVE  ~Occupies(q)' /\ (run'[r].base.at > 0 => run'[q].base.at < run'[r].base.at)
    <3>1. /\ q \in Runs /\ q # r /\ Threaded(r) /\ Threaded(q)
          /\ ThreadOf[q] = ThreadOf[r] /\ r \in Siblings(q)
          /\ run'[q].status \notin {"new", "deleted"}
      BY <1>s, <1>t, <2>1, <2>2 DEF Siblings, Threaded
    <3>2. Exists(q) => /\ ~Occupies(q)
                       /\ run[r].base.at > 0 => run[q].base.at < run[r].base.at
      BY <1>3, <1>t, <3>1 DEF RollbackBarrier
    <3>3. run'[r].base.at > 0 => run'[r].base = run[r].base
      BY <1>3 DEF Untouched, NoBaseline
    <3>b. NoBaseline.at = 0
      BY DEF NoBaseline
    <3>4. CASE Untouched(q)
      BY <3>1, <3>2, <3>3, <3>4, <3>b DEF Untouched, Occupies, Exists
    <3>5. CASE Left(q)
      BY <3>2, <3>3, <3>5 DEF Left, SameButLease, Occupies, Terminal
    <3>6. CASE Created(q)
      BY <3>6, <3>b DEF Created, Occupies
    <3>7. CASE Taken(q)
      BY <1>3, <3>1, <3>7 DEF Taken, ThreadFree, Occupies
    <3>8. CASE Stopped(q)
      BY <3>2, <3>8 DEF Stopped, Occupies, Exists
    <3>9. CASE Marked(q)
      BY <1>3, <3>1, <3>9 DEF Marked, RollbackAllowed, Occupies
    <3>10. CASE Released(q)
      BY <3>2, <3>3, <3>10 DEF Released, SameButLease, Occupies
    <3>11. ~Removed(q)
      BY <3>1 DEF Removed, DeletedRow, NoRow
    <3> QED BY <1>0, <3>1, <3>4, <3>5, <3>6, <3>7, <3>8, <3>9, <3>10, <3>11 DEF RowStep
  <2> QED BY <2>1, <2>2
<1> QED BY <1>1, <1>2, <1>3 DEF RollbackBarrier

-----------------------------------------------------------------------------
(* Generations *)

\* A slot keeps its job and generation, drops them, or claims the next
\* generation of a pending run while the other slots keep theirs.
KeepsJob(w) == slot'[w].job = slot[w].job /\ slot'[w].gen = slot[w].gen

TakesJob(w) ==
    /\ slot'[w].job \in Runs
    /\ run[slot'[w].job].status = "pending"
    /\ slot'[w].gen = run[slot'[w].job].retry + 1
    /\ run'[slot'[w].job].retry = run[slot'[w].job].retry + 1
    /\ run'[slot'[w].job].status = "running"
    /\ \A v \in Workers \ {w} : slot'[v] = slot[v]

SlotMove(w) == KeepsJob(w) \/ slot'[w].job = NoRun \/ TakesJob(w)

LEMMA NextSlot ==
    ASSUME TypeInv, [Next]_vars
    PROVE  \A w \in Workers : SlotMove(w)
<1> USE DEF TypeInv
<1>1. CASE UNCHANGED slot
  BY <1>1 DEF SlotMove, KeepsJob
<1>2. ASSUME NEW w \in Workers, NEW phase, Goto(w, phase), NEW v \in Workers
      PROVE  SlotMove(v)
  <2>1. slot'[v].job = slot[v].job /\ slot'[v].gen = slot[v].gen
    BY <1>2 DEF Goto, IdleSlot, TypeOK, Slot
  <2> QED BY <2>1 DEF SlotMove, KeepsJob
<1>3. ASSUME NEW w \in Workers, slot' = [slot EXCEPT ![w] = IdleSlot],
             NEW v \in Workers
      PROVE  SlotMove(v)
  BY <1>3 DEF SlotMove, KeepsJob, IdleSlot, TypeOK
<1>4. ASSUME NEW w \in Workers, NEW r \in Runs, NEW locked \in SUBSET Runs,
             Claim(w, r, locked), NEW v \in Workers
      PROVE  SlotMove(v)
  <2>1. CASE v # w
    BY <1>4, <2>1 DEF Claim, SlotMove, KeepsJob, TypeOK
  <2>2. CASE v = w
    <3>1. slot'[w].job = r /\ slot'[w].gen = run[r].retry + 1
      BY <1>4 DEF Claim, IdleSlot, TypeOK
    <3>2. \A u \in Workers \ {w} : slot'[u] = slot[u]
      BY <1>4 DEF Claim, TypeOK
    <3>3. PICK at \in 0..QueueBound : run' = [run EXCEPT ![r] = Claimed(r, w, at)]
      BY <1>4 DEF Claim
    <3>4. run'[r] = Claimed(r, w, at)
      BY <3>3 DEF TypeOK
    <3>5. Claimed(r, w, at).retry = run[r].retry + 1
      BY DEF Claimed, TypeOK, RunRow
    <3>6. Claimed(r, w, at).status = "running"
      BY ClaimedFields
    <3>7. run[r].status = "pending"
      BY <1>4 DEF Claim, Claimable, Candidate, Eligible
    <3>8. TakesJob(w)
      BY <3>1, <3>2, <3>4, <3>5, <3>6, <3>7 DEF TakesJob
    <3> QED BY <2>2, <3>8 DEF SlotMove
  <2> QED BY <2>1, <2>2
<1>5. ASSUME NEW w \in Workers, HeartbeatLost(w) \/ HeartbeatError(w), NEW v \in Workers
      PROVE  SlotMove(v)
  BY <1>5 DEF HeartbeatLost, HeartbeatError, SlotMove, KeepsJob, TypeOK, Slot
<1>6. ASSUME NEW w \in Workers, NEW o, Load(w, o), NEW v \in Workers
      PROVE  SlotMove(v)
  <2>1. CASE Owns(w)
    BY <1>6, <2>1 DEF Load, SlotMove, KeepsJob, TypeOK, Slot
  <2>2. CASE ~Owns(w)
    BY <1>2, <1>6, <2>2 DEF Load
  <2> QED BY <2>1, <2>2
<1>7. ASSUME NEW w \in Workers, SlotStep(w), NEW v \in Workers
      PROVE  SlotMove(v)
  <2>1. CASE \E r \in Runs, locked \in SUBSET Runs : ClaimNext(w, r, locked)
    BY <1>1, <1>4, <2>1 DEF ClaimNext, ClaimWithoutAssistant, ClaimExhausted
  <2>2. CASE FailContext(w) \/ AckRollback(w) \/ Crash(w)
    BY <1>3, <2>2 DEF FailContext, AckRollback, Crash
  <2>3. CASE Begin(w) \/ Finalize(w) \/ FinalizeLost(w) \/ RequeueForShutdown(w)
             \/ Release(w)
    BY <1>2, <2>3 DEF Begin, Finalize, FinalizeLost, RequeueForShutdown, Release
  <2> QED BY <1>5, <1>6, <1>7, <2>1, <2>2, <2>3 DEF SlotStep
<1>8. CASE ReaperStep \/ ClientStep \/ DeleteStep
  BY <1>1, <1>8 DEF ReaperStep, ClientStep, DeleteStep, CompleteRollbacks,
        RequeueExpired, LeaseExpires, BackoffElapses, Create, CancelInterrupt,
        CancelRollback, Reorder, UpdateState, RunsDelete, ThreadsDelete
<1> QED BY <1>1, <1>7, <1>8 DEF Next, vars

\* No slot is ahead of its run: its generation was reached by the row before,
\* and its run was submitted.
GenerationReached ==
    \A w \in Workers : slot[w].job \in Runs =>
        /\ run[slot[w].job].status # "new"
        /\ Exists(slot[w].job) => slot[w].gen <= run[slot[w].job].retry

\* Attempts are counted up, and only submission makes a new id exist.
LEMMA RetryStep ==
    ASSUME TypeInv, [Next]_vars, NEW r \in Runs, run[r].status # "new"
    PROVE  /\ run'[r].status # "new"
           /\ run'[r].status # "deleted" => Exists(r) /\ run[r].retry <= run'[r].retry
<1>0. RowStep(r) /\ run[r] \in RunRow /\ run[r].retry \in Nat
  BY NextRow, ConstantsAssumption DEF TypeInv, TypeOK, RunRow
<1>1. CASE Removed(r)
  BY <1>1 DEF Removed, DeletedRow, NoRow, Exists
<1>2. CASE Untouched(r)
  BY <1>0, <1>2 DEF Untouched, Exists
<1>3. CASE Left(r)
  BY <1>0, <1>3 DEF Left, SameButLease, Terminal
<1>4. CASE Taken(r)
  BY <1>0, <1>4 DEF Taken, Exists
<1>5. CASE Stopped(r)
  BY <1>0, <1>5 DEF Stopped, SameButLease, Exists
<1>6. CASE Marked(r)
  BY <1>0, <1>6 DEF Marked, RunRow
<1>7. CASE Released(r)
  BY <1>0, <1>7 DEF Released, SameButLease, Exists
<1> QED BY <1>0, <1>1, <1>2, <1>3, <1>4, <1>5, <1>6, <1>7 DEF RowStep, Created

LEMMA GenerationStep ==
    ASSUME TypeInv, TypeInv', GenerationReached, GenerationHeldOnce, [Next]_vars
    PROVE  GenerationReached' /\ GenerationHeldOnce'
<1>0. \A w \in Workers : SlotMove(w)
  BY NextSlot
<1>n. /\ \A w \in Workers : slot[w].gen \in Nat /\ slot'[w].gen \in Nat
      /\ \A r \in Runs : run[r].retry \in Nat /\ run'[r].retry \in Nat
  BY ConstantsAssumption DEF TypeInv, TypeOK, Slot, RunRow
<1>1. ASSUME NEW w \in Workers, slot'[w].job \in Runs
      PROVE  /\ run'[slot'[w].job].status # "new"
             /\ run'[slot'[w].job].status # "deleted"
                   => slot'[w].gen <= run'[slot'[w].job].retry
  <2>1. CASE KeepsJob(w)
    <3>1. PICK r \in Runs : r = slot[w].job
      BY <1>1, <2>1 DEF KeepsJob
    <3>2. /\ slot'[w].job = r /\ slot'[w].gen = slot[w].gen /\ run[r].status # "new"
          /\ Exists(r) => slot[w].gen <= run[r].retry
      BY <2>1, <3>1 DEF KeepsJob, GenerationReached
    <3>3. /\ run'[r].status # "new"
          /\ run'[r].status # "deleted" => Exists(r) /\ run[r].retry <= run'[r].retry
      BY <3>2, RetryStep
    <3> QED BY <1>n, <3>2, <3>3
  <2>2. CASE TakesJob(w)
    BY <1>n, <2>2 DEF TakesJob
  <2> QED BY <1>0, <1>1, <2>1, <2>2, ConstantsAssumption DEF SlotMove
<1>2. ASSUME NEW v \in Workers, NEW w \in Workers, v # w, TakesJob(w),
             slot'[v].job = slot'[w].job
      PROVE  slot'[v].gen # slot'[w].gen
  <2> DEFINE r == slot'[w].job
  <2>1. slot[v].job = r /\ slot'[v].gen = slot[v].gen /\ r \in Runs
        /\ run[r].status = "pending" /\ slot'[w].gen = run[r].retry + 1
    BY <1>2 DEF TakesJob
  <2> HIDE DEF r
  <2>2. slot[v].gen <= run[r].retry
    BY <2>1 DEF GenerationReached, Exists
  <2> QED BY <1>n, <2>1, <2>2
<1>3. ASSUME NEW v \in Workers, NEW w \in Workers, v # w,
             slot'[v].job = slot'[w].job, slot'[v].job # NoRun
      PROVE  slot'[v].gen # slot'[w].gen
  <2>1. CASE TakesJob(v) \/ TakesJob(w)
    BY <1>2, <1>3, <2>1
  <2>2. CASE KeepsJob(v) /\ KeepsJob(w)
    BY <1>3, <2>2 DEF KeepsJob, GenerationHeldOnce
  <2> QED BY <1>0, <1>3, <2>1, <2>2 DEF SlotMove
<1>4. GenerationReached'
  BY <1>1 DEF GenerationReached, Exists
<1>5. GenerationHeldOnce'
  BY <1>3 DEF GenerationHeldOnce
<1> QED BY <1>4, <1>5

-----------------------------------------------------------------------------
(* Terminal events *)

\* A deleted thread never comes back.
LEMMA ThreadsStay ==
    ASSUME TypeInv, [Next]_vars, NEW t \in Threads, thread'[t].exists
    PROVE  thread[t].exists
<1> USE DEF TypeInv
<1>1. ASSUME NEW r, NEW f, SetThread(r, f) PROVE thread[t].exists
  BY <1>1 DEF SetThread, TypeOK
<1>2. ASSUME NEW r \in Runs, RollbackRun(r), RollbackAllowed(r) PROVE thread[t].exists
  BY <1>2 DEF RollbackRun, RollbackAllowed, TypeOK
<1>3. CASE UNCHANGED thread
  BY <1>3
<1>4. ASSUME NEW w \in Workers, SlotStep(w) PROVE thread[t].exists
  <2>1. CASE \E r \in Runs, locked \in SUBSET Runs : ClaimNext(w, r, locked)
    BY <1>1, <2>1 DEF ClaimNext, Claim, ClaimWithoutAssistant, ClaimExhausted
  <2>2. CASE Finalize(w) \/ RequeueForShutdown(w) \/ Release(w)
    BY <1>1, <1>3, <2>2 DEF Finalize, RequeueForShutdown, Release
  <2>3. CASE AckRollback(w)
    <3>1. slot[w].job \in Runs
      BY <2>3, SlotTypes DEF AckRollback
    <3> QED BY <1>2, <1>3, <2>3, <3>1 DEF AckRollback, RollbackReady
  <2>4. CASE UNCHANGED thread
    BY <1>3, <2>4
  <2> QED BY <1>4, <2>1, <2>2, <2>3, <2>4
       DEF SlotStep, FailContext, Begin, HeartbeatLost, HeartbeatError, Load,
           FinalizeLost, Crash
<1>5. CASE ReaperStep
  <2>1. ASSUME NEW batch \in SUBSET Expired, RequeueExpired(batch)
        PROVE  thread[t].exists
    BY <2>1 DEF RequeueExpired, WithStatus, TypeOK, ThreadRow
  <2> QED BY <1>2, <1>3, <1>5, <2>1
       DEF ReaperStep, CompleteRollbacks, RollbackReady, LeaseExpires, BackoffElapses
<1>6. CASE ClientStep \/ DeleteStep
  <2>1. ASSUME NEW d \in Threads, ThreadsDelete(d) PROVE thread[t].exists
    BY <2>1 DEF ThreadsDelete, TypeOK
  <2> QED BY <1>2, <1>3, <1>6, <2>1
       DEF ClientStep, DeleteStep, Create, CancelInterrupt, CancelRollback, Reorder,
           UpdateState, RunsDelete
<1> QED BY <1>3, <1>4, <1>5, <1>6 DEF Next, vars

LEMMA EventStep ==
    ASSUME TypeInv, TypeInv', EndedRunHasEvent, [Next]_vars
    PROVE  EndedRunHasEvent'
<1>1. ASSUME NEW r \in Runs, run'[r].status \in Terminal,
             run'[r].reason # "rollback", CanRecord(r)'
      PROVE  run'[r].term # "none"
  <2>0. RowStep(r) /\ run[r] \in RunRow
    BY NextRow DEF TypeInv, TypeOK
  <2>1. CanRecord(r)
    BY <1>1, ThreadsStay, ConstantsAssumption DEF CanRecord, Threaded
  <2>2. CASE Untouched(r)
    BY <1>1, <2>1, <2>2 DEF Untouched, EndedRunHasEvent
  <2>3. CASE Released(r)
    BY <1>1, <2>1, <2>3 DEF Released, EndedRunHasEvent
  <2>4. CASE Marked(r)
    BY <1>1, <2>0, <2>4 DEF Marked, RunRow
  <2>5. CASE Left(r) \/ Stopped(r)
    BY <1>1, <2>5 DEF Left, Stopped
  <2>6. CASE Taken(r)
    BY <1>1, <2>6 DEF Taken, Terminal
  <2>7. CASE Created(r) \/ Removed(r)
    BY <1>1, <2>7 DEF Created, Removed, DeletedRow, NoRow, Terminal
  <2> QED BY <2>0, <2>2, <2>3, <2>4, <2>5, <2>6, <2>7 DEF RowStep
<1> QED BY <1>1 DEF EndedRunHasEvent

-----------------------------------------------------------------------------
(* Ended runs *)

\* The step half of EndedUnlessStale.
LEMMA EndedStep ==
    ASSUME TypeInv, LeaseInv, [Next]_vars, NEW r \in Runs, run[r].status \in Terminal,
           <<run'[r].status, run'[r].reason>> # <<run[r].status, run[r].reason>>
    PROVE  \/ run'[r].status = "deleted" \/ run'[r].reason = "rollback"
           \/ \E w \in Workers : slot[w].pc = "loaded" /\ slot[w].job = r
<1>0. RowStep(r) /\ run[r] \in RunRow
  BY NextRow DEF TypeInv, TypeOK
<1>1. ~Untouched(r) /\ ~Released(r)
  BY DEF Untouched, Released
<1>2. ~Created(r) /\ ~Taken(r) /\ ~Stopped(r)
  BY DEF Created, Taken, Stopped, Terminal
<1>3. CASE Left(r)
  BY <1>3 DEF Left
<1>4. CASE Marked(r)
  BY <1>0, <1>4 DEF Marked, RunRow
<1>5. CASE Removed(r)
  BY <1>5 DEF Removed, DeletedRow, NoRow
<1> QED BY <1>0, <1>1, <1>2, <1>3, <1>4, <1>5 DEF RowStep

-----------------------------------------------------------------------------
(* Queue positions *)

LEMMA PositionStep ==
    ASSUME TypeInv, TypeInv', PositionsDistinct, [Next]_vars
    PROVE  PositionsDistinct'
<1>0. \A r \in Runs : RowStep(r) /\ run[r] \in RunRow
                      /\ run[r].pos \in Nat /\ run'[r].pos \in Nat
  BY NextRow, ConstantsAssumption DEF TypeInv, TypeOK, RunRow
<1>s. ASSUME NEW r \in Runs, NEW q \in Runs, r # q, Threaded(r),
             ThreadOf[q] = ThreadOf[r], Exists(r), Exists(q)
      PROVE  run[r].pos # run[q].pos
  BY <1>s DEF PositionsDistinct, Siblings
<1>1. CASE \E t \in Threads : Reorder(t)
  <2>1. PICK t \in Threads : Reorder(t)
    BY <1>1
  <2>2. PICK f \in [Queued(t) -> Queued(t)] :
           /\ \A q, r \in Queued(t) : f[q] = f[r] => q = r
           /\ run' = [r \in Runs |-> IF r \in Queued(t)
                                  THEN [run[r] EXCEPT !.pos = run[f[r]].pos] ELSE run[r]]
    BY <2>1 DEF Reorder
  <2>3. \A r \in Queued(t) : /\ r \in Runs /\ f[r] \in Queued(t) /\ f[r] \in Runs
                             /\ ThreadOf[r] = t /\ ThreadOf[f[r]] = t
                             /\ Exists(r) /\ Exists(f[r])
    BY DEF Queued, Exists
  <2>4. \A r \in Runs : run'[r].status = run[r].status
    BY <1>0, <2>2 DEF RunRow
  <2>5. /\ \A r \in Queued(t) : run'[r].pos = run[f[r]].pos
        /\ \A r \in Runs \ Queued(t) : run'[r].pos = run[r].pos
    BY <1>0, <2>2, <2>3 DEF RunRow
  <2>6. \A r \in Queued(t), q \in Runs \ Queued(t) : f[r] # q
    BY <2>3
  <2>7. ASSUME NEW r \in Runs, NEW q \in Runs, r # q, Threaded(r),
               ThreadOf[q] = ThreadOf[r], Exists(r), Exists(q)
        PROVE  run'[r].pos # run'[q].pos
    <3>0. Threaded(q)
      BY <2>7 DEF Threaded
    <3>1. CASE r \in Queued(t) /\ q \in Queued(t)
      <4>1. f[r] # f[q] /\ Threaded(f[r])
        BY <2>2, <2>3, <2>7, <3>1 DEF Threaded
      <4> QED BY <1>s, <2>3, <2>5, <3>1, <4>1
    <3>2. CASE r \in Queued(t) /\ q \notin Queued(t)
      <4>1. f[r] # q /\ Threaded(f[r]) /\ ThreadOf[q] = ThreadOf[f[r]]
        BY <2>3, <2>6, <2>7, <3>2 DEF Threaded
      <4> QED BY <1>s, <2>3, <2>5, <2>7, <3>2, <4>1
    <3>3. CASE r \notin Queued(t) /\ q \in Queued(t)
      <4>1. f[q] # r /\ ThreadOf[r] = ThreadOf[f[q]]
        BY <2>3, <2>6, <2>7, <3>3
      <4> QED BY <1>s, <2>3, <2>5, <2>7, <3>3, <4>1
    <3>4. CASE r \notin Queued(t) /\ q \notin Queued(t)
      BY <1>s, <2>5, <2>7, <3>4
    <3> QED BY <3>1, <3>2, <3>3, <3>4
  <2> QED BY <2>4, <2>7 DEF PositionsDistinct, Siblings, Exists, Threaded
<1>2. CASE ~\E t \in Threads : Reorder(t)
  <2>1. ASSUME NEW r \in Runs, run'[r].status \notin {"new", "deleted"}
        PROVE  Created(r) \/ (Exists(r) /\ run'[r].pos = run[r].pos)
    BY <1>0, <1>2, <2>1
       DEF RowStep, Untouched, Left, Taken, Stopped, Marked, Released, SameButLease,
           Exists, Removed, DeletedRow, NoRow, RunRow
  <2>2. ASSUME NEW r \in Runs, NEW q \in Runs, r # q, Threaded(r), Created(r),
               ThreadOf[q] = ThreadOf[r], run'[q].status \notin {"new", "deleted"}
        PROVE  run'[r].pos # run'[q].pos
    <3>1. run'[q] = run[q] /\ q \in Siblings(r)
      BY <2>2 DEF Created, Alone, Siblings, Exists
    <3>2. run[q].pos < run'[r].pos
      BY <2>2, <3>1 DEF Created
    <3> QED BY <1>0, <3>1, <3>2
  <2>3. ASSUME NEW r \in Runs, NEW q \in Runs, r # q, Threaded(r),
               ThreadOf[q] = ThreadOf[r], run'[r].status \notin {"new", "deleted"},
               run'[q].status \notin {"new", "deleted"}
        PROVE  run'[r].pos # run'[q].pos
    <3>1. Threaded(q)
      BY <2>3 DEF Threaded
    <3>2. CASE Created(r) \/ Created(q)
      BY <2>2, <2>3, <3>1, <3>2
    <3>3. CASE ~Created(r) /\ ~Created(q)
      BY <1>s, <2>1, <2>3, <3>3
    <3> QED BY <3>2, <3>3
  <2> QED BY <2>3 DEF PositionsDistinct, Siblings, Exists, Threaded
<1> QED BY <1>1, <1>2

-----------------------------------------------------------------------------
(* The theorems *)

\* The inductive invariant.
IInv ==
    /\ TypeInv
    /\ LeaseInv
    /\ OneHolderPerThread
    /\ RollbackBarrier
    /\ GenerationReached
    /\ GenerationHeldOnce
    /\ EndedRunHasEvent
    /\ PositionsDistinct

\* IInv holds of the empty tables and of no other tables than its steps reach.
THEOREM Inductive == Spec => []IInv
<1>1. Init => TypeInv
  BY EmptyRowType, ConstantsAssumption
     DEF Init, TypeInv, TypeOK, SlotHasJob, IdleSlot, Slot, Phases, Outcomes,
         NoSaw, Saw, ThreadRow, ThreadStatus
<1>2. Init => IInv
  <2> SUFFICES ASSUME Init PROVE IInv
    OBVIOUS
  <2>1. \A r \in Runs : run[r] = NoRow
    BY DEF Init
  <2>2. \A w \in Workers : slot[w].job = NoRun
    BY DEF Init, IdleSlot
  <2>3. LeaseInv /\ OneHolderPerThread
    BY <2>1 DEF NoRow, LeaseInv, LeaseRow, OneHolderPerThread, Holds
  <2>4. RollbackBarrier /\ EndedRunHasEvent
    BY <2>1 DEF NoRow, RollbackBarrier, EndedRunHasEvent, Terminal
  <2>5. PositionsDistinct
    BY <2>1 DEF NoRow, PositionsDistinct, Exists
  <2>6. GenerationReached /\ GenerationHeldOnce
    BY <2>2, ConstantsAssumption DEF GenerationReached, GenerationHeldOnce
  <2> QED BY <1>1, <2>3, <2>4, <2>5, <2>6 DEF IInv
<1>3. IInv /\ [Next]_vars => IInv'
  <2> SUFFICES ASSUME IInv, [Next]_vars PROVE IInv'
    OBVIOUS
  <2>1. TypeInv'
    <3>1. CASE Next
      BY <3>1, SlotStepType, ReaperStepType, ClientStepType DEF IInv, Next
    <3>2. CASE UNCHANGED vars
      BY <3>2 DEF IInv, TypeInv, TypeOK, SlotHasJob, vars
    <3> QED BY <3>1, <3>2
  <2>2. LeaseMatchesRun
    BY LeaseInvImplies DEF IInv
  <2>3. LeaseInv'
    BY <2>1, LeaseStep DEF IInv
  <2>4. OneHolderPerThread'
    BY <2>1, <2>2, HolderStep DEF IInv
  <2>5. RollbackBarrier'
    BY <2>1, <2>2, BarrierStep DEF IInv
  <2>6. GenerationReached' /\ GenerationHeldOnce'
    BY <2>1, GenerationStep DEF IInv
  <2>7. EndedRunHasEvent'
    BY <2>1, EventStep DEF IInv
  <2>8. PositionsDistinct'
    BY <2>1, PositionStep DEF IInv
  <2> QED BY <2>1, <2>3, <2>4, <2>5, <2>6, <2>7, <2>8 DEF IInv
<1> QED BY <1>2, <1>3, PTL DEF Spec

\* Every row that any transaction of RunRepository, the workers, the reaper or
\* the API writes is well-formed; retry_count never exceeds max_attempts.
THEOREM TypeCorrect == Spec => []TypeOK
BY Inductive, PTL DEF IInv, TypeInv

\* At most one run of a thread runs or keeps a live lease, whatever the claims,
\* the reaper, the requests and stale finalisers do.
THEOREM ThreadExclusion == Spec => []OneHolderPerThread
BY Inductive, PTL DEF IInv

\* runs.lease_owner and run_leases always agree.
THEOREM LeaseAgreement == Spec => []LeaseMatchesRun
<1>1. IInv => LeaseMatchesRun
  BY LeaseInvImplies DEF IInv
<1> QED BY <1>1, Inductive, PTL

\* A rollback that waits keeps its thread to itself.
THEOREM RollbackSafe == Spec => []RollbackBarrier
BY Inductive, PTL DEF IInv

\* A generation of a run is executed by at most one slot, ever.
THEOREM GenerationUnique == Spec => []GenerationHeldOnce
BY Inductive, PTL DEF IInv

\* While the checkpoint fence admits a writer, no other run of its thread holds
\* the thread or waits for a rollback.
THEOREM SingleWriter == Spec => []OneWriterPerThread
<1>1. IInv => OneWriterPerThread
  <2> SUFFICES ASSUME IInv, NEW w \in Workers, MayWrite(w), NEW q \in Siblings(slot[w].job)
               PROVE  ~Holds(q) /\ run[q].reason # "rollback"
    BY DEF OneWriterPerThread
  <2>1. /\ slot[w].job \in Runs /\ q \in Runs \ {slot[w].job}
        /\ Threaded(slot[w].job) /\ ThreadOf[q] = ThreadOf[slot[w].job]
    BY SlotTypes DEF IInv, MayWrite, Siblings
  <2>2. run[slot[w].job].status = "running" /\ Exists(slot[w].job)
    BY DEF MayWrite, JobRow
  <2>3. ~Holds(q)
    BY <2>1, <2>2 DEF IInv, OneHolderPerThread, Holds, Threaded
  <2>4. slot[w].job \in Siblings(q)
    BY <2>1, <2>2 DEF Siblings, Threaded
  <2>5. run[q].reason # "rollback"
    BY <2>1, <2>2, <2>4 DEF IInv, RollbackBarrier, Occupies
  <2> QED BY <2>3, <2>5
<1> QED BY <1>1, Inductive, PTL

\* A run that has ended has its terminal event.
THEOREM EndedRecorded == Spec => []EndedRunHasEvent
BY Inductive, PTL DEF IInv

\* The queue of a thread has no ties.
THEOREM QueueOrder == Spec => []PositionsDistinct
BY Inductive, PTL DEF IInv

\* Only a finaliser that loaded a row while it was running can change the
\* outcome of an ended run.
THEOREM EndedStable == Spec => EndedUnlessStale
<1>1. IInv /\ [Next]_vars =>
        [\A r \in Runs :
          /\ run[r].status \in Terminal
          /\ <<run'[r].status, run'[r].reason>> # <<run[r].status, run[r].reason>>
          => \/ run'[r].status = "deleted" \/ run'[r].reason = "rollback"
             \/ \E w \in Workers : slot[w].pc = "loaded" /\ slot[w].job = r]_vars
  BY EndedStep DEF IInv
<1> QED BY <1>1, Inductive, PTL DEF Spec, EndedUnlessStale

-----------------------------------------------------------------------------
(* The promise to clients *)

\* What a row step shows to the client of the run: nothing, that the run leaves
\* the queue or its slot, or a step that no other run takes part in.
Quits(r) ==
    \/ Seen(r) = "running" /\ Seen(r)' = "queued"
    \/ Seen(r) \in {"queued", "running"} /\ Seen(r)' = "ended"

SoloStep(r) == Queue!Submit(r) \/ Queue!Start(r) \/ Queue!Revive(r) \/ Queue!Remove(r)

\* A running sibling is what keeps a run in the queue, on both levels.
LEMMA RivalsWait ==
    ASSUME NEW r \in Runs, Threaded(r) => ThreadFree(r)
    PROVE  Queue!Rivals(r) \cap Queue!In("running") = {}
<1> SUFFICES ASSUME NEW q \in Runs \ {r}, Threaded(r), ThreadOf[q] = ThreadOf[r],
                    Seen(q) = "running"
             PROVE  FALSE
  BY DEF Queue!Rivals, Queue!In, Threaded
<1>1. run[q].status = "running"
  BY DEF Seen
<1>2. q \in Siblings(r)
  BY <1>1 DEF Siblings, Exists
<1> QED BY <1>1, <1>2 DEF ThreadFree, Occupies

\* A step of one row alone changes what one client sees.
LEMMA AloneSeen ==
    ASSUME NEW r \in Runs, Alone(r), NEW s, Seen(r)' = s
    PROVE  [q \in Runs |-> Seen(q)]' = [[q \in Runs |-> Seen(q)] EXCEPT ![r] = s]
<1>1. \A q \in Runs \ {r} : Seen(q)' = Seen(q)
  BY DEF Alone, Seen
<1> QED BY <1>1

\* What the client of a run may see in one step.
LEMMA SeenStep ==
    ASSUME TypeInv, TypeInv', LeaseInv, NEW r \in Runs, RowStep(r)
    PROVE  Seen(r)' = Seen(r) \/ Quits(r) \/ SoloStep(r)
<1>0. /\ run[r] \in RunRow /\ run'[r] \in RunRow
      /\ run[r].status \in RunStatus /\ run'[r].status \in RunStatus
  BY DEF TypeInv, TypeOK, RunRow
<1>s. /\ Seen(r) = "absent" <=> run[r].status = "new"
      /\ Seen(r) = "removed" <=> run[r].status = "deleted"
      /\ Seen(r) = "queued" <=> run[r].status = "pending"
      /\ Seen(r) = "running" <=> run[r].status = "running"
      /\ Seen(r) = "ended" <=> run[r].status \in Terminal
  BY <1>0 DEF Seen, RunStatus, Terminal
<1>t. /\ Seen(r)' = "absent" <=> run'[r].status = "new"
      /\ Seen(r)' = "removed" <=> run'[r].status = "deleted"
      /\ Seen(r)' = "queued" <=> run'[r].status = "pending"
      /\ Seen(r)' = "running" <=> run'[r].status = "running"
      /\ Seen(r)' = "ended" <=> run'[r].status \in Terminal
  BY <1>0 DEF Seen, RunStatus, Terminal
<1>1. CASE Untouched(r) \/ Released(r)
  BY <1>1 DEF Untouched, Released, Seen
<1>2. CASE Left(r)
  <2>1. CASE run[r].status \notin Terminal
    <3>1. run[r].status \in {"pending", "running"}
      BY <1>0, <1>2, <2>1 DEF Left, Exists, RunStatus
    <3> QED BY <1>2, <1>s, <1>t, <3>1 DEF Left, Quits
  <2>2. CASE run[r].status \in Terminal
    <3>1. Seen(r) = "ended" /\ Alone(r)
      BY <1>2, <1>s, <2>2 DEF Left
    <3>2. CASE Seen(r)' = "queued"
      <4>1. Queue!Revive(r)
        BY <3>1, <3>2, AloneSeen DEF Queue!Revive, Queue!In, Queue!Becomes
      <4> QED BY <4>1 DEF SoloStep
    <3>3. CASE Seen(r)' # "queued"
      BY <1>2, <1>t, <3>1, <3>3 DEF Left
    <3> QED BY <3>2, <3>3
  <2> QED BY <2>1, <2>2
<1>3. CASE Created(r)
  <2>1. Seen(r) = "absent" /\ Seen(r)' = "queued" /\ Alone(r)
    BY <1>3, <1>s, <1>t DEF Created
  <2>2. Queue!Submit(r)
    BY <2>1, AloneSeen DEF Queue!Submit, Queue!In, Queue!Becomes
  <2> QED BY <2>2 DEF SoloStep
<1>4. CASE Taken(r)
  <2>1. Seen(r) = "queued" /\ Alone(r) /\ Seen(r)' \in {"running", "ended"}
    BY <1>4, <1>s, <1>t DEF Taken, Terminal
  <2>2. CASE Seen(r)' = "running"
    <3>1. Queue!Rivals(r) \cap Queue!In("running") = {}
      BY <1>4, RivalsWait DEF Taken
    <3>2. Queue!Start(r)
      BY <2>1, <2>2, <3>1, AloneSeen DEF Queue!Start, Queue!In, Queue!Becomes
    <3> QED BY <3>2 DEF SoloStep
  <2>3. CASE Seen(r)' = "ended"
    BY <2>1, <2>3 DEF Quits
  <2> QED BY <2>1, <2>2, <2>3
<1>5. CASE Stopped(r)
  BY <1>5, <1>s, <1>t DEF Stopped, Quits, Terminal
<1>6. CASE Marked(r)
  <2>1. run[r].status \in {"running", "interrupted"}
    BY <1>6 DEF Marked, LeaseInv, LeaseRow
  <2>2. run'[r].status = "interrupted"
    BY <1>0, <1>6 DEF Marked, RunRow
  <2> QED BY <1>s, <1>t, <2>1, <2>2 DEF Quits, Terminal
<1>7. CASE Removed(r)
  <2>1. Seen(r) # "absent" /\ Seen(r)' = "removed" /\ Alone(r)
    BY <1>7, <1>s, <1>t DEF Removed, Exists, DeletedRow, NoRow
  <2>2. Queue!Remove(r)
    BY <2>1, AloneSeen DEF Queue!Remove, Queue!In, Queue!Becomes
  <2> QED BY <2>2 DEF SoloStep
<1> QED BY <1>1, <1>2, <1>3, <1>4, <1>5, <1>6, <1>7 DEF RowStep

\* A step of the run store is a step of the queue, or shows nothing.
LEMMA QueueStep ==
    ASSUME TypeInv, TypeInv', LeaseInv, [Next]_vars
    PROVE  [Queue!Next]_([r \in Runs |-> Seen(r)])
<1>1. \A r \in Runs : Seen(r)' = Seen(r) \/ Quits(r) \/ SoloStep(r)
  BY NextRow, SeenStep
<1>2. CASE \E r \in Runs : SoloStep(r)
  BY <1>2 DEF SoloStep, Queue!Next
<1>3. CASE \A r \in Runs : Seen(r)' = Seen(r) \/ Quits(r)
  <2> DEFINE again == {r \in Runs : Seen(r) = "running" /\ Seen(r)' = "queued"}
             over == {r \in Runs : Seen(r) \in {"queued", "running"} /\ Seen(r)' = "ended"}
  <2>1. \A r \in Runs : Seen(r)' = IF r \in over THEN "ended"
                                   ELSE IF r \in again THEN "queued" ELSE Seen(r)
    BY <1>3 DEF Quits
  <2>2. again \subseteq Queue!In("running")
        /\ over \subseteq Queue!In("queued") \cup Queue!In("running")
    BY DEF Queue!In
  <2>3. again \in SUBSET Runs /\ over \in SUBSET Runs
    OBVIOUS
  <2> HIDE DEF again, over
  <2>4. Queue!Leave(again, over)
    BY <2>1, <2>2 DEF Queue!Leave
  <2> QED BY <2>3, <2>4 DEF Queue!Next
<1> QED BY <1>1, <1>2, <1>3

\* Slots, leases, attempts, crashes, the reaper and the requests together keep the
\* promise of RunQueue to clients.
THEOREM QueueImplemented == Spec => ImplementsQueue
<1>1. Init => Queue!Init
  BY DEF Init, Queue!Init, Seen, NoRow
<1>2. IInv /\ IInv' /\ [Next]_vars => [Queue!Next]_([r \in Runs |-> Seen(r)])
  BY QueueStep DEF IInv
<1> QED BY <1>1, <1>2, Inductive, PTL DEF Spec, ImplementsQueue, Queue!Spec

=============================================================================
