----------------------------- MODULE HitlProofs -----------------------------
(***************************************************************************)
(* Proofs about Submission and Hitl for every set of requests, threads,    *)
(* keys, interrupts and principals, and any number of runs.                *)
(***************************************************************************)
EXTENDS Hitl, SequenceTheorems, FiniteSetTheorems, TLAPS

-----------------------------------------------------------------------------
(* The inductive invariant *)

\* The row of a thread is locked by one transaction.
LockInv ==
    \A p, q \in Requests :
        /\ req[p].pc \in Locking /\ req[q].pc \in Locking
        /\ req[p].order.thread = req[q].order.thread
        => p = q

\* A key has one run that is not deleted, or one transaction that has inserted it and not committed.
KeyInv ==
    /\ \A m, n \in Rows : /\ runs[m].key = runs[n].key /\ runs[m].key # NoKey
                          /\ runs[m].status # "deleted" /\ runs[n].status # "deleted"
                          => m = n
    /\ \A q \in Requests : req[q].pc = "inserted" /\ req[q].order.key # NoKey =>
          /\ \A n \in Rows : runs[n].key = req[q].order.key => runs[n].status = "deleted"
          /\ \A p \in Requests \ {q} :
                req[p].pc = "inserted" => req[p].order.key # req[q].order.key

\* A request that is done has the run that it asked for.
DoneInv ==
    \A q \in Requests : req[q].pc = "done" =>
        /\ req[q].run \in Rows
        /\ runs[req[q].run].key = req[q].order.key
        /\ runs[req[q].run].thread = req[q].order.thread

\* What the check for "reject" found is still so at the commit: the lock keeps
\* other submissions out, and the runs that want to come back wait for it.
RejectInv ==
    /\ ~dirty
    /\ \A q \in Requests :
          /\ req[q].pc \in {"insert", "inserted"}
          /\ req[q].order.reject /\ req[q].order.resume = NoInterrupt
          => ~Active(req[q].order.thread)

\* Runs and orders are those of a start or of an answer.
Shape(o) ==
    IF o.resume = NoInterrupt THEN o.key \notin Principals \X Interrupts
    ELSE o.thread = Asked /\ \E p \in Principals : o.key = KeyOf(p, o.resume)

ShapeInv ==
    /\ \A n \in Rows : Shape(runs[n])
    /\ \A q \in Requests : req[q].pc \notin {"idle", "refused"} => Shape(req[q].order)

\* A command and its request.
CmdInv ==
    \A q \in Requests :
        /\ cmd[q].pc # "none" => /\ cmd[q].interrupt \in Interrupts
                                 /\ \E p \in Principals : cmd[q].key = KeyOf(p, cmd[q].interrupt)
        /\ cmd[q].pc = "check" => req[q].pc = "idle"
        /\ cmd[q].pc = "submit" => \/ req[q].pc \in {"idle", "refused"}
                                   \/ req[q].order.key = cmd[q].key
        /\ cmd[q].pc = "write" => req[q].pc = "done" /\ req[q].order.key = cmd[q].key

\* One run of a thread has its lease, and what a graph writes is on record: in the
\* interrupts that it asks, and in the baselines of the other runs.
LeaseInv ==
    /\ \A m, n \in Rows : /\ runs[m].status \in Leased /\ runs[n].status \in Leased
                          /\ runs[m].thread = runs[n].thread
                          => m = n
    /\ \A i \in Interrupts : asker[i] # 0 => asker[i] \in Rows /\ runs[asker[i]].thread = Asked
    /\ \A i \in open : asker[i] # 0
    /\ \A m \in 1..MaxRuns : base[m].taken =>
          /\ m \in Rows /\ runs[m].thread = Asked
          /\ \A i \in base[m].open : asker[i] # 0
          /\ \A n \in Rows : /\ n # m /\ runs[n].status \in Leased
                             /\ runs[n].thread = Asked /\ base[n].wrote
                             => n \in base[m].others

\* The interrupts that are in one of two sets.
Apart(S, T) == (S \ T) \cup (T \ S)

\* The run n answers i, or has asked it.
Concerns(n, i) == runs[n].resume = i \/ asker[i] = n

\* A busy thread has a run that explains it.
BusyInv ==
    row.status = "busy" =>
        \E n \in Rows : runs[n].thread = Asked /\ runs[n].status \notin {"ended", "failed"}

\* A graph starts anew when the row has no interrupts.
StartInv ==
    \A n \in Rows : /\ runs[n].status = "running" /\ runs[n].thread = Asked
                    /\ runs[n].resume = NoInterrupt
                    => row.interrupts = {}

\* Where the row and the graph disagree, a run of that interrupt has not ended.
TornInv ==
    \A i \in Apart(row.interrupts, open) :
        \E n \in Rows : Concerns(n, i) /\ runs[n].status # "ended"

\* Where a baseline disagrees with itself, so it is or the rollback is refused, unless
\* it is the rolled back run that concerns the interrupt.
BaseInv ==
    \A m \in 1..MaxRuns : base[m].taken =>
        \A i \in Apart(base[m].row.interrupts, base[m].open) :
            \E n \in Rows : /\ Concerns(n, i)
                            /\ runs[n].status # "ended" \/ n = m \/ n \in base[m].others

\* RowSound while runs of the thread are active, and of what a rollback puts back.
RowInv == ~overlap => BusyInv /\ StartInv /\ TornInv /\ BaseInv

IInv ==
    /\ TypeOK /\ LockInv /\ KeyInv /\ DoneInv /\ RejectInv /\ ShapeInv /\ CmdInv
    /\ LeaseInv /\ RowInv

-----------------------------------------------------------------------------
(* Rows of the runs table *)

LEMMA RunsFacts ==
    ASSUME SubmissionTypeOK
    PROVE  /\ Len(runs) \in Nat
           /\ \A n \in Rows : runs[n] \in Run
BY LenProperties, ElementOfSeq DEF SubmissionTypeOK, Rows

\* An execution changes the status of one run.
LEMMA StatusStep ==
    ASSUME SubmissionTypeOK, NEW n \in Rows, NEW s \in Status,
           runs' = [runs EXCEPT ![n].status = s]
    PROVE  /\ runs' \in Seq(Run) /\ Len(runs') = Len(runs) /\ Rows' = Rows
           /\ runs'[n] = [runs[n] EXCEPT !.status = s]
           /\ \A m \in Rows \ {n} : runs'[m] = runs[m]
<1> DEFINE new == [runs[n] EXCEPT !.status = s]
<1>1. new \in Run
  BY RunsFacts DEF Run
<1>2. runs \in Seq(Run) /\ n \in 1..Len(runs) /\ runs' = [runs EXCEPT ![n] = new]
  BY DEF SubmissionTypeOK, Rows
<1> HIDE DEF new
<1>3. /\ [runs EXCEPT ![n] = new] \in Seq(Run)
      /\ Len([runs EXCEPT ![n] = new]) = Len(runs)
      /\ \A j \in 1..Len(runs) : [runs EXCEPT ![n] = new][j] = IF j = n THEN new ELSE runs[j]
  BY <1>1, <1>2, ExceptSeq
<1> QED BY <1>2, <1>3 DEF Rows, new

\* A commit adds a run at the end.
LEMMA AppendStep ==
    ASSUME SubmissionTypeOK, NEW new \in Run, runs' = Append(runs, new)
    PROVE  /\ runs' \in Seq(Run) /\ Len(runs') = Len(runs) + 1
           /\ Rows' = Rows \cup {Len(runs')} /\ Len(runs') \notin Rows
           /\ runs'[Len(runs')] = new
           /\ \A m \in Rows : runs'[m] = runs[m]
<1>1. runs \in Seq(Run) /\ Len(runs) \in Nat
  BY RunsFacts DEF SubmissionTypeOK
<1>2. /\ Append(runs, new) \in Seq(Run)
      /\ Len(Append(runs, new)) = Len(runs) + 1
      /\ \A i \in 1..Len(runs) + 1 : Append(runs, new)[i] = IF i <= Len(runs) THEN runs[i] ELSE new
  BY <1>1, AppendProperties
<1> QED BY <1>1, <1>2 DEF Rows

-----------------------------------------------------------------------------
(* Types *)

Request == [pc : Phases, order : Order, run : 0..MaxRuns, new : BOOLEAN]
Command == [pc : {"none", "check", "submit", "write"}, interrupt : Interrupts \cup {NoInterrupt},
            key : Keys \cup {NoKey}, loaded : Row]

LEMMA NoneTypes ==
    /\ NoOrder \in Order /\ NoRequest \in Request /\ NoRequest.pc = "idle"
    /\ [NoRequest EXCEPT !.pc = "refused"] \in Request
    /\ NoCmd \in Command /\ NoCmd.pc = "none"
<1>1. (CHOOSE t \in Threads : TRUE) \in Threads
  BY HitlConstants
<1>2. NoOrder \in Order
  BY <1>1 DEF NoOrder, Order
<1>3. 0 \in 0..MaxRuns
  BY SubmissionConstants
<1>4. NoRequest \in Request /\ NoRequest.pc = "idle"
  BY <1>2, <1>3 DEF NoRequest, Request, Phases
<1>5. [NoRequest EXCEPT !.pc = "refused"] \in Request
  BY <1>4 DEF Request, Phases
<1>6. NoCmd \in Command /\ NoCmd.pc = "none"
  BY DEF NoCmd, Command, Row
<1> QED BY <1>2, <1>4, <1>5, <1>6

\* The steps of a submission keep the types.
LEMMA SubmitTypes ==
    ASSUME SubmissionTypeOK, NEW q \in Requests, NEW o \in Order, NEW create \in BOOLEAN,
           Submit(q, o, create)
    PROVE  SubmissionTypeOK'
<1>1. req \in [Requests -> Request]
  BY DEF SubmissionTypeOK, Request
<1>2. req' \in [Requests -> Request]
  <2>1. CASE o.thread \in exists \/ create
    BY <1>1, <2>1 DEF Submit, Request, Phases
  <2>2. CASE ~(o.thread \in exists \/ create)
    BY <1>1, <2>2, NoneTypes DEF Submit, Refuse
  <2> QED BY <2>1, <2>2
<1> QED BY <1>2 DEF SubmissionTypeOK, Request, Submit

LEMMA SubmissionStepTypes ==
    ASSUME SubmissionTypeOK, NEW q \in Requests, SubmissionStep(q)
    PROVE  SubmissionTypeOK'
<1>0. /\ req \in [Requests -> Request] /\ req[q] \in Request /\ req[q].order \in Order
      /\ req[q].order.thread \in Threads
      /\ exists \subseteq Threads /\ runs \in Seq(Run) /\ Len(runs) <= MaxRuns /\ dirty \in BOOLEAN
      /\ Len(runs) \in Nat
  BY RunsFacts DEF SubmissionTypeOK, Request, Order
<1>g. \A pc \in Phases : Goto(q, pc) => req' \in [Requests -> Request]
  BY <1>0 DEF Goto, Request
<1>r. Refuse(q) => req' \in [Requests -> Request]
  BY <1>0, NoneTypes DEF Refuse
<1>a. ASSUME NEW n \in WithKey(req[q].order.key), Answer(q, n)
      PROVE  SubmissionTypeOK'
  <2>1. n \in 0..MaxRuns
    BY <1>0, SubmissionConstants DEF WithKey
  <2>2. req' \in [Requests -> Request]
    BY <1>0, <1>a, <1>r, <2>1 DEF Answer, Conflict, Request, Phases
  <2> QED BY <1>0, <1>a, <2>2 DEF Answer, Conflict, SubmissionTypeOK, Request
<1>1. CASE InsertThread(q)
  <2>1. req' \in [Requests -> Request]
    BY <1>0, <1>1, <1>r DEF InsertThread, Request, Phases
  <2> QED BY <1>0, <1>1, <2>1 DEF InsertThread, SubmissionTypeOK, Request
<1>2. CASE Lock(q)
  BY <1>0, <1>2, <1>g DEF Lock, SubmissionTypeOK, Request, Phases, Locking
<1>3. CASE Lookup(q)
  <2>1. ASSUME Conflict(q) PROVE SubmissionTypeOK'
    BY <1>0, <1>r, <2>1 DEF Conflict, SubmissionTypeOK, Request
  <2>2. ASSUME Goto(q, "insert"), UNCHANGED <<exists, runs, dirty>> PROVE SubmissionTypeOK'
    BY <1>0, <1>g, <2>2 DEF SubmissionTypeOK, Request, Phases, Locking
  <2> QED BY <1>3, <1>a, <2>1, <2>2 DEF Lookup
<1>4. CASE InsertRun(q)
  <2>1. ASSUME Goto(q, "inserted"), UNCHANGED <<exists, runs, dirty>> PROVE SubmissionTypeOK'
    BY <1>0, <1>g, <2>1 DEF SubmissionTypeOK, Request, Phases, Locking
  <2> QED BY <1>4, <1>a, <2>1 DEF InsertRun
<1>5. CASE CommitRun(q)
  <2> DEFINE o == req[q].order
             new == [thread |-> o.thread, key |-> o.key, resume |-> o.resume,
                     status |-> "pending"]
  <2>1. new \in Run
    BY <1>0 DEF Run, Order, Status
  <2>2. runs' = Append(runs, new) /\ Len(runs) < MaxRuns
    BY <1>5 DEF CommitRun
  <2> HIDE DEF new
  <2>3. runs' \in Seq(Run) /\ Len(runs') = Len(runs) + 1
    BY <2>1, <2>2, AppendStep
  <2>4. Len(runs') \in 0..MaxRuns
    BY <1>0, <2>2, <2>3, SubmissionConstants
  <2>5. req' \in [Requests -> Request]
    BY <1>0, <1>5, <2>4 DEF CommitRun, Request, Phases
  <2>6. dirty' \in BOOLEAN /\ exists' \subseteq Threads
    BY <1>0, <1>5 DEF CommitRun
  <2> QED BY <2>3, <2>4, <2>5, <2>6 DEF SubmissionTypeOK, Request
<1>6. CASE Rollback(q)
  BY <1>0, <1>6, <1>r DEF Rollback, SubmissionTypeOK, Request
<1> QED BY <1>1, <1>2, <1>3, <1>4, <1>5, <1>6 DEF SubmissionStep

\* Baselines stay baselines, whatever is done to them.
LEMMA BaseTypes ==
    ASSUME base \in [1..MaxRuns -> Baseline], row \in Row, open \subseteq Interrupts,
           NEW n \in 1..MaxRuns
    PROVE  /\ CaptureBaseline(n) => base' \in [1..MaxRuns -> Baseline]
           /\ \A undone \in BOOLEAN : DropBaseline(n, undone) \in [1..MaxRuns -> Baseline]
           /\ \A S : GraphWrites(n, S) => base' \in [1..MaxRuns -> Baseline]
<1>1. NoBaseline \in Baseline
  BY DEF NoBaseline, Baseline, Row
<1>2. \A b \in Baseline : /\ [b EXCEPT !.wrote = FALSE] \in Baseline
                         /\ [b EXCEPT !.wrote = TRUE] \in Baseline
                         /\ [b EXCEPT !.after = @ \cup {n}] \in Baseline
                         /\ [b EXCEPT !.others = @ \cup {n}] \in Baseline
  BY DEF Baseline
<1>3. \A b \in Baseline, undone \in BOOLEAN :
        [b EXCEPT !.after = @ \ {n}, !.others = IF undone THEN @ \ {n} ELSE @] \in Baseline
  BY DEF Baseline
<1>4. [NoBaseline EXCEPT !.taken = TRUE, !.row = row, !.open = open] \in Baseline
  BY <1>1 DEF Baseline
<1>5. CaptureBaseline(n) => base' \in [1..MaxRuns -> Baseline]
  BY <1>2, <1>4 DEF CaptureBaseline
<1>6. \A undone \in BOOLEAN : DropBaseline(n, undone) \in [1..MaxRuns -> Baseline]
  BY <1>1, <1>3 DEF DropBaseline
<1>7. ASSUME NEW S, GraphWrites(n, S) PROVE base' \in [1..MaxRuns -> Baseline]
  <2>1. base' = [m \in 1..MaxRuns |->
                   IF m = n THEN [base[m] EXCEPT !.wrote = TRUE]
                   ELSE IF base[m].taken THEN [base[m] EXCEPT !.others = @ \cup {n}] ELSE base[m]]
    BY <1>7 DEF GraphWrites
  <2>2. \A m \in 1..MaxRuns :
          (IF m = n THEN [base[m] EXCEPT !.wrote = TRUE]
           ELSE IF base[m].taken THEN [base[m] EXCEPT !.others = @ \cup {n}] ELSE base[m])
          \in Baseline
    BY <1>2
  <2> QED BY <2>1, <2>2
<1> QED BY <1>5, <1>6, <1>7

\* What a step may do to the status of a run.
Moves(n) ==
    /\ \E s \in Status :
          /\ SetStatus(n, s)
          /\ s = "running" => Claim(n)
          /\ s = "ended" => Finish(n)
          /\ s = "pending" => Unlocked(n)
          /\ s \in Leased => runs[n].status \in Leased \/ Claim(n)
    /\ runs[n].status # "deleted"
    /\ UNCHANGED <<exists, req, dirty, cmd, overlap>>

\* The steps that leave the interrupts and the checkpoints alone,
Quiet(n) ==
    \/ ClaimSpent(n) \/ Fail(n, "failed") \/ Fail(n, "cancelled") \/ Requeue(n)
    \/ Cancel(n) \/ Stopped(n) \/ LeaseExpires(n) \/ RequestRollback(n)

\* and those that delete a run.
Gone(n) == Rollback_run(n) \/ RunsDelete(n)

LEMMA ExecutionCases ==
    ASSUME NEW n, ExecutionStep(n)
    PROVE  \/ Claim(n) \/ Quiet(n) \/ Finish(n) \/ Gone(n)
           \/ \E S \in SUBSET Interrupts : GraphWrites(n, S)
BY DEF ExecutionStep, Quiet, Gone

LEMMA MoveCases ==
    ASSUME NEW n, Claim(n) \/ Quiet(n) \/ Finish(n) \/ Gone(n)
    PROVE  Moves(n)
<1>1. Claim(n) => Moves(n)
  BY DEF Moves, Claim, Claimable, Status
<1>2. ClaimSpent(n) \/ Requeue(n) => Moves(n)
  BY DEF Moves, ClaimSpent, Requeue, Claimable, Leased, Status
<1>3. Fail(n, "failed") \/ Fail(n, "cancelled") => Moves(n)
  BY DEF Moves, Fail, Leased, Status
<1>4. Cancel(n) => Moves(n)
  BY DEF Moves, Cancel, Leased, Status
<1>5. Stopped(n) \/ LeaseExpires(n) \/ RequestRollback(n) => Moves(n)
  BY DEF Moves, Stopped, LeaseExpires, RequestRollback, Leased, Status
<1>6. Finish(n) => Moves(n)
  BY DEF Moves, Finish, Leased, Status
<1>7. Gone(n) => Moves(n)
  BY DEF Moves, Gone, Rollback_run, RunsDelete, Leased, Status
<1> QED BY <1>1, <1>2, <1>3, <1>4, <1>5, <1>6, <1>7 DEF Quiet

\* So do the steps of commands and executions.
LEMMA TypeStep ==
    ASSUME TypeOK, [Next]_vars
    PROVE  TypeOK'
<1>0. /\ SubmissionTypeOK /\ req \in [Requests -> Request] /\ cmd \in [Requests -> Command]
      /\ row \in Row /\ overlap \in BOOLEAN
      /\ open \subseteq Interrupts /\ asker \in [Interrupts -> 0..MaxRuns]
      /\ base \in [1..MaxRuns -> Baseline]
  BY DEF TypeOK, SubmissionTypeOK, Request, Command
<1>t. ASSUME SubmissionTypeOK', cmd' \in [Requests -> Command],
             row' \in Row, open' \subseteq Interrupts, asker' \in [Interrupts -> 0..MaxRuns],
             base' \in [1..MaxRuns -> Baseline], overlap' \in BOOLEAN
      PROVE  TypeOK'
  BY <1>t DEF TypeOK, Command
<1>v. \A n \in Rows : n \in 1..MaxRuns /\ n \in 0..MaxRuns
  BY <1>0, RunsFacts, SubmissionConstants DEF SubmissionTypeOK, Rows
<1>r. ASSUME req' \in [Requests -> Request], UNCHANGED <<exists, runs, dirty>>
      PROVE  SubmissionTypeOK'
  BY <1>0, <1>r DEF SubmissionTypeOK, Request
<1>c. ASSUME NEW q \in Requests, NEW c \in Command, cmd' = [cmd EXCEPT ![q] = c]
      PROVE  cmd' \in [Requests -> Command]
  BY <1>0, <1>c
<1>u. ASSUME UNCHANGED <<exists, runs, req, dirty>> PROVE SubmissionTypeOK'
  BY <1>0, <1>u DEF SubmissionTypeOK
<1>1. ASSUME NEW q \in Requests, NEW s \in Starts, Start(q, s)
      PROVE  TypeOK'
  <2> DEFINE o == [thread |-> s.thread, key |-> s.key, reject |-> s.reject,
                   resume |-> NoInterrupt]
  <2>1. o \in Order /\ s.create \in BOOLEAN
    BY HitlConstants DEF Order
  <2>2. SubmissionTypeOK'
    BY <1>0, <1>1, <2>1, SubmitTypes DEF Start
  <2> QED BY <1>0, <1>1, <1>t, <2>2 DEF Start, graph
<1>2. ASSUME NEW q \in Requests, NEW p \in Principals, NEW i \in Interrupts, Respond(q, p, i)
      PROVE  TypeOK'
  <2> DEFINE c == [NoCmd EXCEPT !.interrupt = i, !.key = KeyOf(p, i), !.pc = "check"]
  <2>1. KeyOf(p, i) \in Keys
    BY HitlConstants DEF KeyOf
  <2>2. c \in Command
    BY <2>1, NoneTypes DEF Command
  <2>3. cmd' = [cmd EXCEPT ![q] = c]
    BY <1>2 DEF Respond
  <2> HIDE DEF c
  <2> QED BY <1>0, <1>2, <1>c, <1>t, <1>u, <2>2, <2>3 DEF Respond, graph
<1>3. ASSUME NEW q \in Requests, CheckInterrupt(q) PROVE TypeOK'
  <2>1. cmd' \in [Requests -> Command]
    BY <1>0, <1>3, NoneTypes DEF CheckInterrupt, Command
  <2> QED BY <1>0, <1>3, <1>t, <1>u, <2>1 DEF CheckInterrupt, graph
<1>4. ASSUME NEW q \in Requests, SubmitResume(q) PROVE TypeOK'
  <2> DEFINE o == [thread |-> Asked, key |-> cmd[q].key, reject |-> FALSE,
                   resume |-> cmd[q].interrupt]
  <2>1. o \in Order
    BY <1>0, HitlConstants DEF Order, Command
  <2>2. SubmissionTypeOK'
    BY <1>0, <1>4, <2>1, SubmitTypes DEF SubmitResume
  <2> QED BY <1>0, <1>4, <1>t, <2>2 DEF SubmitResume, graph
<1>5. ASSUME NEW q \in Requests, LoadRow(q) PROVE TypeOK'
  <2>1. cmd' \in [Requests -> Command]
    BY <1>0, <1>5 DEF LoadRow, Command
  <2> QED BY <1>0, <1>5, <1>t, <1>u, <2>1 DEF LoadRow, graph
<1>6. ASSUME NEW q \in Requests, WriteRow(q) PROVE TypeOK'
  <2>1. cmd[q].loaded \in Row
    BY <1>0 DEF Command
  <2>2. row' \in Row
    BY <1>0, <1>6, <2>1 DEF WriteRow, Remaining, Row
  <2>3. req' \in [Requests -> Request] /\ cmd' \in [Requests -> Command] /\ overlap' \in BOOLEAN
    BY <1>0, <1>6, NoneTypes DEF WriteRow
  <2> QED BY <1>0, <1>6, <1>r, <1>t, <2>2, <2>3 DEF WriteRow, graph
<1>7. ASSUME NEW q \in Requests, Replied(q) PROVE TypeOK'
  <2>1. req' \in [Requests -> Request] /\ cmd' \in [Requests -> Command]
    BY <1>0, <1>7, NoneTypes DEF Replied
  <2> QED BY <1>0, <1>7, <1>r, <1>t, <2>1 DEF Replied, graph
<1>8. ASSUME NEW q \in Requests, SubmissionStep(q), UNCHANGED <<row, graph, cmd, overlap>>
      PROVE  TypeOK'
  BY <1>0, <1>8, <1>t, SubmissionStepTypes DEF graph
<1>e. ASSUME NEW n \in Rows, Moves(n)
      PROVE  SubmissionTypeOK' /\ cmd' = cmd /\ overlap' = overlap
  <2>1. PICK s \in Status : runs' = [runs EXCEPT ![n].status = s]
    BY <1>e DEF Moves, SetStatus
  <2>2. runs' \in Seq(Run) /\ Len(runs') = Len(runs)
    BY <1>0, <2>1, StatusStep
  <2>3. UNCHANGED <<exists, req, dirty, cmd, overlap>>
    BY <1>e DEF Moves
  <2> QED BY <1>0, <2>2, <2>3 DEF SubmissionTypeOK
<1>9. ASSUME NEW n \in Rows, Claim(n) PROVE TypeOK'
  <2>1. row' \in Row /\ open' = open /\ asker' = asker
    BY <1>0, <1>9 DEF Claim, SetThread, Row
  <2>2. base' \in [1..MaxRuns -> Baseline]
    BY <1>0, <1>9, <1>v, BaseTypes DEF Claim
  <2> QED BY <1>0, <1>9, <1>e, <1>t, <2>1, <2>2, MoveCases
<1>10. ASSUME NEW n \in Rows, Quiet(n) PROVE TypeOK'
  <2>1. row' \in Row
    BY <1>0, <1>10 DEF Quiet, ClaimSpent, Fail, Requeue, Cancel, Stopped, LeaseExpires,
                       RequestRollback, SetThread, Row
  <2>2. UNCHANGED <<open, asker, base>>
    BY <1>10 DEF Quiet, ClaimSpent, Fail, Requeue, Cancel, Stopped, LeaseExpires,
                 RequestRollback, graph
  <2> QED BY <1>0, <1>10, <1>e, <1>t, <2>1, <2>2, MoveCases
<1>11. ASSUME NEW n \in Rows, Finish(n) PROVE TypeOK'
  <2>1. row' \in Row /\ UNCHANGED <<open, asker, base>>
    BY <1>0, <1>11 DEF Finish, Reported, Row, graph
  <2> QED BY <1>0, <1>11, <1>e, <1>t, <2>1, MoveCases
<1>12. ASSUME NEW n \in Rows, Gone(n) PROVE TypeOK'
  <2>1. n \in 1..MaxRuns /\ base[n] \in Baseline /\ asker' = asker
    BY <1>0, <1>12, <1>v DEF Gone, Rollback_run, RunsDelete
  <2>2. base' \in [1..MaxRuns -> Baseline]
    BY <1>0, <1>12, <2>1, BaseTypes DEF Gone, Rollback_run, RunsDelete
  <2>3. row' \in Row /\ open' \subseteq Interrupts
    BY <1>0, <1>12, <2>1 DEF Gone, Rollback_run, RunsDelete, Baseline
  <2> QED BY <1>0, <1>12, <1>e, <1>t, <2>1, <2>2, <2>3, MoveCases
<1>13. ASSUME NEW n \in Rows, NEW S \in SUBSET Interrupts, GraphWrites(n, S) PROVE TypeOK'
  <2>1. base' \in [1..MaxRuns -> Baseline]
    BY <1>0, <1>13, <1>v, BaseTypes
  <2>2. open' \subseteq Interrupts /\ asker' \in [Interrupts -> 0..MaxRuns]
    BY <1>0, <1>13, <1>v DEF GraphWrites
  <2> QED BY <1>0, <1>13, <1>t, <1>u, <2>1, <2>2 DEF GraphWrites
<1>14. CASE UNCHANGED vars
  BY <1>0, <1>14, <1>t, <1>u DEF vars, graph
<1>15. ASSUME NEW n \in Rows, ExecutionStep(n) PROVE TypeOK'
  BY <1>9, <1>10, <1>11, <1>12, <1>13, <1>15, ExecutionCases
<1> QED BY <1>1, <1>2, <1>3, <1>4, <1>5, <1>6, <1>7, <1>8, <1>14, <1>15 DEF Next

-----------------------------------------------------------------------------
(* What a step does to the requests and the runs.  Every action is shown once *)
(* to be one of three effects; the invariants are then proved from these.     *)

\* The only request that changes, if any, and how.
Others(q) == \A p \in Requests \ {q} : req'[p] = req[p]

\* It is over, or not yet begun.
Idles(q) == req'[q].pc \in {"idle", "refused"}

\* It has an order, and no lock yet.
Enters(q) == req[q].pc = "idle" /\ req'[q].pc \in {"thread", "lock"} /\ Shape(req'[q].order)

\* It goes on with its order.
Proceeds(q) ==
    /\ req'[q].order = req[q].order
    /\ \/ req[q].pc = "thread" /\ req'[q].pc = "lock"
       \/ req[q].pc = "lock" /\ req'[q].pc = "lookup" /\ LockFree(q)
       \/ /\ req[q].pc = "lookup" /\ req'[q].pc = "insert"
          /\ req[q].order.reject /\ req[q].order.resume = NoInterrupt
             => ~Active(req[q].order.thread)
       \/ /\ req[q].pc = "insert" /\ req'[q].pc = "inserted"
          /\ ~KeyTaken(q) /\ WithKey(req[q].order.key) = {}

\* It is answered with a run that is there.
Answered(q) ==
    /\ req'[q].order = req[q].order
    /\ req[q].pc \in {"lookup", "insert"} /\ req'[q].pc = "done"
    /\ req'[q].run \in WithKey(req[q].order.key)
    /\ runs[req'[q].run].thread = req[q].order.thread

RequestStep(q) == Others(q) /\ (Idles(q) \/ Enters(q) \/ Proceeds(q) \/ Answered(q))

LEMMA SubmitEffect ==
    ASSUME SubmissionTypeOK, NEW q \in Requests, NEW o \in Order, Shape(o),
           NEW create \in BOOLEAN, Submit(q, o, create)
    PROVE  RequestStep(q) /\ UNCHANGED <<runs, dirty>>
<1>1. req \in [Requests -> Request]
  BY DEF SubmissionTypeOK, Request
<1>2. Others(q) /\ UNCHANGED <<runs, dirty>>
  BY <1>1 DEF Submit, Refuse, Others
<1>3. CASE o.thread \in exists \/ create
  <2>1. req[q].pc = "idle" /\ req'[q].pc \in {"thread", "lock"} /\ req'[q].order = o
    BY <1>1, <1>3 DEF Submit, Request
  <2> QED BY <1>2, <2>1 DEF RequestStep, Enters
<1>4. CASE ~(o.thread \in exists \/ create)
  <2>1. req'[q].pc = "refused"
    BY <1>1, <1>4, NoneTypes DEF Submit, Refuse, Request
  <2> QED BY <1>2, <2>1 DEF RequestStep, Idles
<1> QED BY <1>3, <1>4

LEMMA SubmissionEffect ==
    ASSUME SubmissionTypeOK, NEW q \in Requests, SubmissionStep(q)
    PROVE  CommitRun(q) \/ (RequestStep(q) /\ UNCHANGED <<runs, dirty>>)
<1>1. req \in [Requests -> Request] /\ req[q] \in Request
  BY DEF SubmissionTypeOK, Request
<1>g. ASSUME NEW pc \in Phases, Goto(q, pc)
      PROVE  Others(q) /\ req'[q].pc = pc /\ req'[q].order = req[q].order
  BY <1>1, <1>g DEF Goto, Others, Request
<1>r. Refuse(q) => RequestStep(q)
  BY <1>1, NoneTypes DEF Refuse, RequestStep, Others, Idles, Request
<1>p. Phases = {"idle", "thread", "lock", "done", "refused", "lookup", "insert", "inserted"}
  BY DEF Phases, Locking
<1>a. ASSUME NEW n \in WithKey(req[q].order.key), Answer(q, n),
             req[q].pc \in {"lookup", "insert"}
      PROVE  RequestStep(q) /\ UNCHANGED <<runs, dirty>>
  <2>1. CASE runs[n].thread # req[q].order.thread
    BY <1>a, <1>r, <2>1 DEF Answer, Conflict
  <2>2. CASE runs[n].thread = req[q].order.thread
    <3>1. req' = [req EXCEPT ![q].pc = "done", ![q].run = n, ![q].new = FALSE]
      BY <1>a, <2>2 DEF Answer
    <3>2. /\ Others(q) /\ req'[q].order = req[q].order /\ req'[q].pc = "done"
          /\ req'[q].run = n
      BY <1>1, <3>1 DEF Others, Request
    <3> QED BY <1>a, <2>2, <3>2 DEF RequestStep, Answered, Answer
  <2> QED BY <2>1, <2>2
<1>2. CASE InsertThread(q)
  <2>1. CASE Refuse(q)
    BY <1>2, <1>r, <2>1 DEF InsertThread
  <2>2. CASE req' = [req EXCEPT ![q].pc = "lock", ![q].new = TRUE]
    <3>1. Others(q) /\ req'[q].pc = "lock" /\ req'[q].order = req[q].order
      BY <1>1, <2>2 DEF Others, Request
    <3> QED BY <1>2, <3>1 DEF InsertThread, RequestStep, Proceeds
  <2> QED BY <1>2, <2>1, <2>2 DEF InsertThread
<1>3. CASE Lock(q)
  BY <1>3, <1>g, <1>p DEF Lock, RequestStep, Proceeds
<1>4. CASE Lookup(q)
  <2>1. CASE \E n \in WithKey(req[q].order.key) : Answer(q, n)
    BY <1>4, <1>a, <2>1 DEF Lookup
  <2>2. CASE Conflict(q)
    BY <1>r, <2>2 DEF Conflict
  <2>3. CASE /\ ~(req[q].order.reject /\ req[q].order.resume = NoInterrupt
                  /\ Active(req[q].order.thread))
             /\ Goto(q, "insert") /\ UNCHANGED <<exists, runs, dirty>>
    <3>1. Others(q) /\ req'[q].pc = "insert" /\ req'[q].order = req[q].order
      BY <1>g, <1>p, <2>3
    <3> QED BY <1>4, <2>3, <3>1 DEF Lookup, RequestStep, Proceeds
  <2> QED BY <1>4, <2>1, <2>2, <2>3 DEF Lookup
<1>5. CASE InsertRun(q)
  <2>1. CASE \E n \in WithKey(req[q].order.key) : Answer(q, n)
    BY <1>5, <1>a, <2>1 DEF InsertRun
  <2>2. CASE /\ WithKey(req[q].order.key) = {}
             /\ Goto(q, "inserted") /\ UNCHANGED <<exists, runs, dirty>>
    <3>1. Others(q) /\ req'[q].pc = "inserted" /\ req'[q].order = req[q].order
      BY <1>g, <1>p, <2>2
    <3> QED BY <1>5, <2>2, <3>1 DEF InsertRun, RequestStep, Proceeds
  <2> QED BY <1>5, <2>1, <2>2 DEF InsertRun
<1>6. CASE Rollback(q)
  BY <1>6, <1>r DEF Rollback
<1> QED BY <1>2, <1>3, <1>4, <1>5, <1>6 DEF SubmissionStep

\* Every step is one of the effects.
LEMMA NextEffect ==
    ASSUME TypeOK, CmdInv, [Next]_vars
    PROVE  \/ UNCHANGED <<runs, req, dirty>>
           \/ \E q \in Requests : RequestStep(q) /\ UNCHANGED <<runs, dirty>>
           \/ \E q \in Requests : CommitRun(q)
           \/ \E n \in Rows : Moves(n)
<1>0. SubmissionTypeOK /\ req \in [Requests -> Request] /\ cmd \in [Requests -> Command]
  BY DEF TypeOK, SubmissionTypeOK, Request, Command
<1>1. ASSUME NEW q \in Requests, NEW s \in Starts, Start(q, s)
      PROVE  RequestStep(q) /\ UNCHANGED <<runs, dirty>>
  <2> DEFINE o == [thread |-> s.thread, key |-> s.key, reject |-> s.reject,
                   resume |-> NoInterrupt]
  <2>1. o \in Order /\ Shape(o) /\ s.create \in BOOLEAN
    BY HitlConstants, SubmissionConstants DEF Order, Shape
  <2> QED BY <1>0, <1>1, <2>1, SubmitEffect DEF Start
<1>2. ASSUME NEW q \in Requests, SubmitResume(q)
      PROVE  RequestStep(q) /\ UNCHANGED <<runs, dirty>>
  <2> DEFINE o == [thread |-> Asked, key |-> cmd[q].key, reject |-> FALSE,
                   resume |-> cmd[q].interrupt]
  <2>1. o \in Order
    BY <1>0, HitlConstants DEF Order, Command
  <2>2. cmd[q].interrupt \in Interrupts /\ \E p \in Principals : cmd[q].key = KeyOf(p, cmd[q].interrupt)
    BY <1>2 DEF CmdInv, SubmitResume
  <2>3. Shape(o)
    BY <2>2, SubmissionConstants DEF Shape
  <2> QED BY <1>0, <1>2, <2>1, <2>3, SubmitEffect DEF SubmitResume
<1>3. ASSUME NEW q \in Requests, WriteRow(q) \/ Replied(q)
      PROVE  RequestStep(q) /\ UNCHANGED <<runs, dirty>>
  <2>1. req' = [req EXCEPT ![q] = NoRequest] /\ UNCHANGED <<runs, dirty>>
    BY <1>3 DEF WriteRow, Replied
  <2> QED BY <1>0, <2>1, NoneTypes DEF RequestStep, Others, Idles
<1>4. ASSUME NEW n \in Rows, ExecutionStep(n)
      PROVE  Moves(n) \/ UNCHANGED <<runs, req, dirty>>
  <2>1. (\E S \in SUBSET Interrupts : GraphWrites(n, S)) => UNCHANGED <<runs, req, dirty>>
    BY DEF GraphWrites
  <2> QED BY <1>4, <2>1, ExecutionCases, MoveCases
<1>5. ASSUME NEW q \in Requests, SubmissionStep(q)
      PROVE  CommitRun(q) \/ (RequestStep(q) /\ UNCHANGED <<runs, dirty>>)
  BY <1>0, <1>5, SubmissionEffect
<1>6. ASSUME NEW q \in Requests,
             \/ \E p \in Principals, i \in Interrupts : Respond(q, p, i)
             \/ CheckInterrupt(q) \/ LoadRow(q)
      PROVE  UNCHANGED <<runs, req, dirty>>
  BY <1>6 DEF Respond, CheckInterrupt, LoadRow
<1>7. CASE UNCHANGED vars
  BY <1>7 DEF vars
<1> QED BY <1>1, <1>2, <1>3, <1>4, <1>5, <1>6, <1>7 DEF Next

\* What a commit does.
LEMMA CommitEffect ==
    ASSUME SubmissionTypeOK, NEW q \in Requests, CommitRun(q)
    PROVE  /\ Others(q) /\ req[q].pc = "inserted" /\ req'[q].pc = "done"
           /\ req'[q].order = req[q].order /\ req'[q].run = Len(runs')
           /\ Rows' = Rows \cup {Len(runs')} /\ Len(runs') \notin Rows
           /\ \A m \in Rows : runs'[m] = runs[m]
           /\ runs'[Len(runs')].thread = req[q].order.thread
           /\ runs'[Len(runs')].key = req[q].order.key
           /\ runs'[Len(runs')].resume = req[q].order.resume
           /\ runs'[Len(runs')].status = "pending"
<1>1. req \in [Requests -> Request] /\ req[q].order \in Order
  BY DEF SubmissionTypeOK, Request
<1> DEFINE o == req[q].order
           new == [thread |-> o.thread, key |-> o.key, resume |-> o.resume,
                   status |-> "pending"]
<1>2. new \in Run
  BY <1>1 DEF Run, Order, Status
<1>3. runs' = Append(runs, new)
  BY DEF CommitRun
<1>4. /\ Others(q) /\ req[q].pc = "inserted" /\ req'[q].pc = "done"
      /\ req'[q].order = req[q].order /\ req'[q].run = Len(runs')
  BY <1>1 DEF CommitRun, Others, Request
<1> HIDE DEF new
<1>5. /\ Rows' = Rows \cup {Len(runs')} /\ Len(runs') \notin Rows
      /\ runs'[Len(runs')] = new
      /\ \A m \in Rows : runs'[m] = runs[m]
  BY <1>2, <1>3, AppendStep
<1>6. /\ new.thread = o.thread /\ new.key = o.key /\ new.resume = o.resume
      /\ new.status = "pending"
  BY DEF new
<1> QED BY <1>4, <1>5, <1>6

\* What an execution leaves alone.
LEMMA MoveEffect ==
    ASSUME SubmissionTypeOK, NEW n \in Rows, Moves(n)
    PROVE  /\ Rows' = Rows /\ UNCHANGED <<req, dirty>>
           /\ \A m \in Rows : /\ runs'[m].key = runs[m].key
                              /\ runs'[m].thread = runs[m].thread
                              /\ runs'[m].resume = runs[m].resume
           /\ \A m \in Rows \ {n} : runs'[m] = runs[m]
           /\ runs[n].status # "deleted"
           /\ runs'[n].status = "running" => Claim(n)
           /\ runs'[n].status = "ended" => Finish(n)
           /\ runs'[n].status = "pending" => Unlocked(n)
           /\ runs'[n].status \in Leased => runs[n].status \in Leased \/ Claim(n)
<1>1. runs[n] \in Run
  BY RunsFacts
<1>2. PICK s \in Status :
        /\ SetStatus(n, s)
        /\ s = "running" => Claim(n)
        /\ s = "ended" => Finish(n)
        /\ s = "pending" => Unlocked(n)
        /\ s \in Leased => runs[n].status \in Leased \/ Claim(n)
  BY DEF Moves
<1>3. /\ Rows' = Rows /\ runs'[n] = [runs[n] EXCEPT !.status = s]
      /\ \A m \in Rows \ {n} : runs'[m] = runs[m]
  BY <1>2, StatusStep DEF SetStatus
<1>4. /\ runs'[n].key = runs[n].key /\ runs'[n].thread = runs[n].thread
      /\ runs'[n].resume = runs[n].resume /\ runs'[n].status = s
  BY <1>1, <1>3 DEF Run
<1>5. UNCHANGED <<req, dirty>> /\ runs[n].status # "deleted"
  BY DEF Moves
<1> QED BY <1>2, <1>3, <1>4, <1>5

-----------------------------------------------------------------------------
(* Keys and locks *)

LEMMA LockStep ==
    ASSUME TypeOK, CmdInv, LockInv, [Next]_vars
    PROVE  LockInv'
<1>0. SubmissionTypeOK
  BY DEF TypeOK
<1>1. ASSUME NEW q \in Requests, RequestStep(q), NEW p \in Requests, NEW r \in Requests,
             req'[p].pc \in Locking, req'[r].pc \in Locking,
             req'[p].order.thread = req'[r].order.thread, p # r
      PROVE  FALSE
  <2>1. ASSUME NEW x \in Requests \ {q}, req'[q].pc \in Locking, req[x].pc \in Locking
        PROVE  req'[q].order.thread # req[x].order.thread
    <3>1. Proceeds(q)
      BY <1>1, <2>1 DEF RequestStep, Idles, Enters, Answered, Locking
    <3>2. CASE LockFree(q)
      BY <2>1, <3>1, <3>2 DEF LockFree, Proceeds
    <3>3. CASE ~LockFree(q)
      <4>1. req[q].pc \in Locking /\ req'[q].order = req[q].order
        BY <2>1, <3>1, <3>3 DEF Proceeds, Locking
      <4> QED BY <2>1, <4>1 DEF LockInv
    <3> QED BY <3>2, <3>3
  <2>2. CASE p # q /\ r # q
    BY <1>1, <2>2 DEF RequestStep, Others, LockInv
  <2>3. CASE p = q
    <3>1. r \in Requests \ {q} /\ req'[r] = req[r]
      BY <1>1, <2>3 DEF RequestStep, Others
    <3> QED BY <1>1, <2>1, <2>3, <3>1
  <2>4. CASE r = q
    <3>1. p \in Requests \ {q} /\ req'[p] = req[p]
      BY <1>1, <2>4 DEF RequestStep, Others
    <3> QED BY <1>1, <2>1, <2>4, <3>1
  <2> QED BY <2>2, <2>3, <2>4
<1>2. ASSUME NEW q \in Requests, CommitRun(q) PROVE LockInv'
  <2>1. Others(q) /\ req'[q].pc \notin Locking
    BY <1>0, <1>2, CommitEffect DEF Locking
  <2> QED BY <2>1 DEF LockInv, Others
<1>3. CASE UNCHANGED req
  BY <1>3 DEF LockInv
<1> QED BY <1>1, <1>2, <1>3, NextEffect DEF LockInv, Moves

\* A transaction that has inserted a key excludes every other use of it.
LEMMA KeyStep ==
    ASSUME TypeOK, CmdInv, KeyInv, [Next]_vars
    PROVE  KeyInv'
<1>0. SubmissionTypeOK
  BY DEF TypeOK
<1>1. ASSUME NEW q \in Requests, RequestStep(q), UNCHANGED <<runs, dirty>> PROVE KeyInv'
  <2>1. Rows' = Rows /\ \A n \in Rows : runs'[n] = runs[n]
    BY <1>1 DEF Rows
  <2>2. ASSUME req'[q].pc = "inserted", req'[q].order.key # NoKey
        PROVE  /\ \A n \in Rows : runs[n].key = req'[q].order.key => runs[n].status = "deleted"
               /\ \A p \in Requests \ {q} :
                     req[p].pc = "inserted" => req[p].order.key # req'[q].order.key
    <3>1. Proceeds(q)
      BY <1>1, <2>2 DEF RequestStep, Idles, Enters, Answered
    <3>2. WithKey(req[q].order.key) = {} /\ ~KeyTaken(q) /\ req'[q].order = req[q].order
      BY <2>2, <3>1 DEF Proceeds
    <3> QED BY <2>2, <3>2 DEF WithKey, KeyTaken, Rows
  <2>3. \A p \in Requests \ {q} : req'[p] = req[p]
    BY <1>1 DEF RequestStep, Others
  <2> QED BY <2>1, <2>2, <2>3 DEF KeyInv
<1>2. ASSUME NEW q \in Requests, CommitRun(q) PROVE KeyInv'
  <2> DEFINE l == Len(runs')
  <2>1. /\ Others(q) /\ req[q].pc = "inserted" /\ req'[q].pc = "done"
        /\ Rows' = Rows \cup {l} /\ l \notin Rows
        /\ \A m \in Rows : runs'[m] = runs[m]
        /\ runs'[l].key = req[q].order.key
    BY <1>0, <1>2, CommitEffect, Zenon
  <2> HIDE DEF l
  <2>2. \A m, n \in Rows' : /\ runs'[m].key = runs'[n].key /\ runs'[m].key # NoKey
                            /\ runs'[m].status # "deleted" /\ runs'[n].status # "deleted"
                            => m = n
    BY <2>1 DEF KeyInv
  <2>3. \A p \in Requests : req'[p].pc = "inserted" => p # q /\ req'[p] = req[p]
    BY <2>1 DEF Others
  <2>4. \A p \in Requests : req'[p].pc = "inserted" /\ req'[p].order.key # NoKey =>
          /\ \A n \in Rows' : runs'[n].key = req'[p].order.key => runs'[n].status = "deleted"
          /\ \A x \in Requests \ {p} :
                req'[x].pc = "inserted" => req'[x].order.key # req'[p].order.key
    BY <2>1, <2>3 DEF KeyInv
  <2> QED BY <2>2, <2>4 DEF KeyInv
<1>3. ASSUME NEW n \in Rows, Moves(n) PROVE KeyInv'
  BY <1>0, <1>3, MoveEffect DEF KeyInv
<1>4. CASE UNCHANGED <<runs, req, dirty>>
  BY <1>4 DEF KeyInv, Rows
<1> QED BY <1>1, <1>2, <1>3, <1>4, NextEffect

LEMMA DoneStep ==
    ASSUME TypeOK, CmdInv, DoneInv, [Next]_vars
    PROVE  DoneInv'
<1>0. SubmissionTypeOK
  BY DEF TypeOK
<1>1. ASSUME NEW q \in Requests, RequestStep(q), UNCHANGED <<runs, dirty>> PROVE DoneInv'
  <2>1. Rows' = Rows /\ \A p \in Requests \ {q} : req'[p] = req[p]
    BY <1>1 DEF Rows, RequestStep, Others
  <2>2. req'[q].pc = "done" => /\ req'[q].run \in Rows
                               /\ runs[req'[q].run].key = req'[q].order.key
                               /\ runs[req'[q].run].thread = req'[q].order.thread
    BY <1>1 DEF RequestStep, Idles, Enters, Proceeds, Answered, WithKey, Rows
  <2> QED BY <1>1, <2>1, <2>2 DEF DoneInv
<1>2. ASSUME NEW q \in Requests, CommitRun(q) PROVE DoneInv'
  <2> DEFINE l == Len(runs')
  <2>1. /\ Others(q) /\ req'[q].order = req[q].order /\ req'[q].run = l
        /\ Rows' = Rows \cup {l}
        /\ \A m \in Rows : runs'[m] = runs[m]
        /\ runs'[l].key = req[q].order.key /\ runs'[l].thread = req[q].order.thread
    BY <1>0, <1>2, CommitEffect, Zenon
  <2> HIDE DEF l
  <2> QED BY <2>1 DEF DoneInv, Others
<1>3. ASSUME NEW n \in Rows, Moves(n) PROVE DoneInv'
  BY <1>0, <1>3, MoveEffect DEF DoneInv
<1>4. CASE UNCHANGED <<runs, req, dirty>>
  BY <1>4 DEF DoneInv, Rows
<1> QED BY <1>1, <1>2, <1>3, <1>4, NextEffect

-----------------------------------------------------------------------------
(* The strategy "reject" *)

\* The thread of a submission that has looked is locked until its commit.
LEMMA RejectStep ==
    ASSUME TypeOK, CmdInv, LockInv, RejectInv, [Next]_vars
    PROVE  RejectInv'
<1>0. SubmissionTypeOK
  BY DEF TypeOK
<1> DEFINE After(t) == \E n \in Rows' : runs'[n].thread = t
                                        /\ runs'[n].status \in {"pending", "running"}
<1>a. \A t : Active(t)' <=> After(t)
  BY DEF Active, Rows
<1>b. \A t : Active(t) <=> \E n \in Rows : runs[n].thread = t
                                            /\ runs[n].status \in {"pending", "running"}
  BY DEF Active, Rows
<1>1. ASSUME NEW q \in Requests, RequestStep(q), UNCHANGED <<runs, dirty>> PROVE RejectInv'
  <2>1. \A t : Active(t)' <=> Active(t)
    BY <1>1 DEF Active
  <2>2. ASSUME req'[q].pc \in {"insert", "inserted"},
               req'[q].order.reject, req'[q].order.resume = NoInterrupt
        PROVE  ~Active(req'[q].order.thread)
    BY <1>1, <2>2 DEF RequestStep, Idles, Enters, Proceeds, Answered, RejectInv
  <2> QED BY <1>1, <2>1, <2>2 DEF RejectInv, RequestStep, Others
<1>2. ASSUME NEW q \in Requests, CommitRun(q) PROVE RejectInv'
  <2> DEFINE l == Len(runs')
  <2>1. /\ Others(q) /\ req[q].pc = "inserted" /\ req'[q].pc = "done"
        /\ Rows' = Rows \cup {l}
        /\ \A m \in Rows : runs'[m] = runs[m]
        /\ runs'[l].thread = req[q].order.thread
    BY <1>0, <1>2, CommitEffect, Zenon
  <2>2. ~dirty'
    BY <1>2, <2>1 DEF CommitRun, RejectInv
  <2> HIDE DEF l
  <2>3. ASSUME NEW p \in Requests, req'[p].pc \in {"insert", "inserted"},
               req'[p].order.reject, req'[p].order.resume = NoInterrupt
        PROVE  ~After(req'[p].order.thread)
    <3>1. p # q /\ req'[p] = req[p]
      BY <2>1, <2>3 DEF Others
    <3>2. req[p].order.thread # req[q].order.thread
      BY <2>1, <2>3, <3>1 DEF LockInv, Locking
    <3>3. ~Active(req[p].order.thread)
      BY <2>3, <3>1 DEF RejectInv
    <3> QED BY <1>b, <2>1, <3>1, <3>2, <3>3
  <2> QED BY <2>2, <2>3 DEF RejectInv, Active, Rows
<1>3. ASSUME NEW n \in Rows, Moves(n) PROVE RejectInv'
  <2>1. /\ Rows' = Rows /\ UNCHANGED <<req, dirty>>
        /\ \A m \in Rows : runs'[m].thread = runs[m].thread
        /\ \A m \in Rows \ {n} : runs'[m] = runs[m]
    BY <1>0, <1>3, MoveEffect
  <2>2. /\ runs'[n].status = "pending" => Unlocked(n)
        /\ runs'[n].status = "running" => runs[n].status = "pending"
    <3>1. Claim(n) => runs[n].status = "pending"
      BY DEF Claim, Claimable
    <3> QED BY <1>0, <1>3, <3>1, MoveEffect
  <2>3. ASSUME NEW p \in Requests, req[p].pc \in {"insert", "inserted"},
               req[p].order.reject, req[p].order.resume = NoInterrupt,
               After(req[p].order.thread)
        PROVE  FALSE
    <3>1. ~Active(req[p].order.thread)
      BY <2>3 DEF RejectInv
    <3>2. runs[n].thread = req[p].order.thread /\ runs'[n].status = "pending"
      BY <1>b, <2>1, <2>2, <2>3, <3>1
    <3> QED BY <2>2, <2>3, <3>2 DEF Unlocked, Locking
  <2> QED BY <2>1, <2>3, <1>a DEF RejectInv
<1>4. CASE UNCHANGED <<runs, req, dirty>>
  BY <1>4 DEF RejectInv, Active
<1> QED BY <1>1, <1>2, <1>3, <1>4, NextEffect

-----------------------------------------------------------------------------
(* Answers *)

LEMMA ShapeStep ==
    ASSUME TypeOK, CmdInv, ShapeInv, [Next]_vars
    PROVE  ShapeInv'
<1>0. SubmissionTypeOK
  BY DEF TypeOK
<1>s. ASSUME NEW a, NEW b, a.key = b.key, a.thread = b.thread, a.resume = b.resume, Shape(a)
      PROVE  Shape(b)
  BY <1>s DEF Shape
<1>p. \A o : Shape(o)' <=> Shape(o)
  OBVIOUS
<1>1. ASSUME NEW q \in Requests, RequestStep(q), UNCHANGED <<runs, dirty>> PROVE ShapeInv'
  <2>1. Rows' = Rows /\ \A p \in Requests \ {q} : req'[p] = req[p]
    BY <1>1 DEF Rows, RequestStep, Others
  <2>2. req'[q].pc \notin {"idle", "refused"} => Shape(req'[q].order)
    BY <1>1 DEF RequestStep, Idles, Enters, Proceeds, Answered, ShapeInv
  <2> QED BY <1>1, <2>1, <2>2 DEF ShapeInv
<1>2. ASSUME NEW q \in Requests, CommitRun(q) PROVE ShapeInv'
  <2> DEFINE l == Len(runs')
  <2>1. /\ Others(q) /\ req[q].pc = "inserted" /\ req'[q].order = req[q].order
        /\ Rows' = Rows \cup {l}
        /\ \A m \in Rows : runs'[m] = runs[m]
        /\ runs'[l].thread = req[q].order.thread /\ runs'[l].key = req[q].order.key
        /\ runs'[l].resume = req[q].order.resume
    BY <1>0, <1>2, CommitEffect, Zenon
  <2> HIDE DEF l
  <2>2. Shape(req[q].order)
    BY <2>1 DEF ShapeInv
  <2>3. Shape(runs'[l])
    BY <1>s, <2>1, <2>2
  <2> QED BY <2>1, <2>2, <2>3 DEF ShapeInv, Others
<1>3. ASSUME NEW n \in Rows, Moves(n) PROVE ShapeInv'
  <2>1. /\ Rows' = Rows /\ UNCHANGED req
        /\ \A m \in Rows : /\ runs'[m].key = runs[m].key
                           /\ runs'[m].thread = runs[m].thread
                           /\ runs'[m].resume = runs[m].resume
    BY <1>0, <1>3, MoveEffect
  <2>2. \A m \in Rows : Shape(runs'[m])
    BY <1>s, <2>1 DEF ShapeInv
  <2> QED BY <2>1, <2>2 DEF ShapeInv
<1>4. CASE UNCHANGED <<runs, req, dirty>>
  BY <1>4 DEF ShapeInv, Rows
<1> QED BY <1>1, <1>2, <1>3, <1>4, NextEffect

\* A submission goes on with the order of its command.
LEMMA CmdStep ==
    ASSUME TypeOK, CmdInv, [Next]_vars
    PROVE  CmdInv'
<1>0. SubmissionTypeOK /\ req \in [Requests -> Request] /\ cmd \in [Requests -> Command]
  BY DEF TypeOK, SubmissionTypeOK, Request, Command
<1>1. ASSUME NEW q \in Requests, NEW s \in Starts, Start(q, s)
      PROVE  CmdInv'
  <2>1. cmd' = cmd /\ cmd[q].pc = "none" /\ \A p \in Requests \ {q} : req'[p] = req[p]
    BY <1>0, <1>1 DEF Start, Submit, Refuse
  <2> QED BY <2>1 DEF CmdInv
<1>2. ASSUME NEW q \in Requests, NEW p \in Principals, NEW i \in Interrupts, Respond(q, p, i)
      PROVE  CmdInv'
  <2> DEFINE c == [NoCmd EXCEPT !.interrupt = i, !.key = KeyOf(p, i), !.pc = "check"]
  <2>1. cmd' = [cmd EXCEPT ![q] = c] /\ req' = req /\ req[q].pc = "idle"
    BY <1>2 DEF Respond
  <2>2. c.pc = "check" /\ c.interrupt = i /\ c.key = KeyOf(p, i)
    BY DEF NoCmd
  <2> HIDE DEF c
  <2> QED BY <1>0, <2>1, <2>2 DEF CmdInv
<1>3. ASSUME NEW q \in Requests, CheckInterrupt(q) PROVE CmdInv'
  <2>1. CASE cmd' = [cmd EXCEPT ![q].pc = "submit"]
    BY <1>0, <1>3, <2>1 DEF CheckInterrupt, CmdInv, Command
  <2>2. CASE cmd' = [cmd EXCEPT ![q] = NoCmd]
    BY <1>0, <1>3, <2>2, NoneTypes DEF CheckInterrupt, CmdInv
  <2> QED BY <1>3, <2>1, <2>2 DEF CheckInterrupt
<1>4. ASSUME NEW q \in Requests, SubmitResume(q) PROVE CmdInv'
  <2>1. cmd' = cmd /\ cmd[q].pc = "submit" /\ \A p \in Requests \ {q} : req'[p] = req[p]
    BY <1>0, <1>4 DEF SubmitResume, Submit, Refuse
  <2>2. req'[q].pc = "refused" \/ req'[q].order.key = cmd[q].key
    <3>1. CASE Refuse(q)
      BY <1>0, <3>1, NoneTypes DEF Refuse, Request
    <3>2. CASE ~Refuse(q)
      BY <1>0, <1>4, <3>2 DEF SubmitResume, Submit, Request
    <3> QED BY <3>1, <3>2
  <2> QED BY <2>1, <2>2 DEF CmdInv
<1>5. ASSUME NEW q \in Requests, LoadRow(q) PROVE CmdInv'
  BY <1>0, <1>5 DEF LoadRow, CmdInv, Command
<1>6. ASSUME NEW q \in Requests, WriteRow(q) \/ Replied(q) PROVE CmdInv'
  <2>1. cmd' = [cmd EXCEPT ![q] = NoCmd] /\ req' = [req EXCEPT ![q] = NoRequest]
    BY <1>6 DEF WriteRow, Replied
  <2> QED BY <1>0, <2>1, NoneTypes DEF CmdInv
<1>7. ASSUME NEW q \in Requests, SubmissionStep(q), UNCHANGED cmd PROVE CmdInv'
  <2>1. /\ Others(q) /\ req[q].pc \notin {"idle", "refused", "done"}
        /\ req'[q].pc \in {"idle", "refused"} \/ req'[q].order = req[q].order
    <3>1. req[q].pc \notin {"idle", "refused", "done"}
      BY <1>7 DEF SubmissionStep, InsertThread, Lock, Lookup, InsertRun, CommitRun, Rollback,
                  Locking
    <3>2. CASE CommitRun(q)
      BY <1>0, <3>1, <3>2, CommitEffect, Zenon
    <3>3. CASE RequestStep(q)
      BY <3>1, <3>3 DEF RequestStep, Idles, Enters, Proceeds, Answered
    <3> QED BY <1>0, <1>7, <3>2, <3>3, SubmissionEffect
  <2> QED BY <1>7, <2>1 DEF CmdInv, Others
<1>8. ASSUME NEW n \in Rows, ExecutionStep(n) PROVE CmdInv'
  <2>1. (\E S \in SUBSET Interrupts : GraphWrites(n, S)) => UNCHANGED <<req, cmd>>
    BY DEF GraphWrites
  <2>2. Moves(n) => UNCHANGED <<req, cmd>>
    BY DEF Moves
  <2>3. UNCHANGED <<req, cmd>>
    BY <1>8, <2>1, <2>2, ExecutionCases, MoveCases
  <2> QED BY <2>3 DEF CmdInv
<1>9. CASE UNCHANGED vars
  BY <1>9 DEF vars, CmdInv
<1> QED BY <1>1, <1>2, <1>3, <1>4, <1>5, <1>6, <1>7, <1>8, <1>9 DEF Next

-----------------------------------------------------------------------------
(* The row of the thread *)

\* The run of a command resumes its interrupt.
LEMMA AnswerRun ==
    ASSUME TypeOK, DoneInv, ShapeInv, CmdInv, NEW q \in Requests, cmd[q].pc = "write"
    PROVE  /\ req[q].run \in Rows
           /\ runs[req[q].run].resume = cmd[q].interrupt
           /\ runs[req[q].run].thread = Asked
<1> DEFINE k == req[q].run
           i == cmd[q].interrupt
<1>1. k \in Rows /\ runs[k].key = cmd[q].key
  BY DEF DoneInv, CmdInv
<1>2. i \in Interrupts
  BY DEF CmdInv
<1>3. PICK p \in Principals : cmd[q].key = KeyOf(p, i)
  BY DEF CmdInv
<1>4. runs[k].key = <<p, i>> /\ Shape(runs[k])
  BY <1>1, <1>3 DEF KeyOf, ShapeInv
<1>5. <<p, i>> \in Principals \X Interrupts
  BY <1>2
<1> HIDE DEF k, i
<1>6. runs[k].resume # NoInterrupt
  BY <1>4, <1>5 DEF Shape
<1>7. PICK r \in Principals : runs[k].thread = Asked /\ runs[k].key = <<r, runs[k].resume>>
  BY <1>4, <1>6 DEF Shape, KeyOf
<1> QED BY <1>1, <1>4, <1>7 DEF k, i

-----------------------------------------------------------------------------
(* Leases and records *)

\* The rows that an execution leaves to others.
LEMMA StepCases ==
    ASSUME [Next]_vars
    PROVE  \/ UNCHANGED <<runs, row, graph, overlap>>
           \/ \E q \in Requests : WriteRow(q)
           \/ \E q \in Requests : CommitRun(q) /\ UNCHANGED <<row, graph, overlap>>
           \/ \E n \in Rows : Claim(n) \/ Quiet(n) \/ Finish(n) \/ Gone(n)
           \/ \E n \in Rows, S \in SUBSET Interrupts : GraphWrites(n, S)
<1>1. ASSUME NEW q \in Requests, SubmissionStep(q)
      PROVE  UNCHANGED runs \/ CommitRun(q)
  BY <1>1 DEF SubmissionStep, InsertThread, Lock, Lookup, InsertRun, Rollback, Answer, Conflict
<1>2. ASSUME NEW q \in Requests, CheckInterrupt(q) \/ SubmitResume(q) \/ LoadRow(q) \/ Replied(q)
      PROVE  UNCHANGED <<runs, row, graph, overlap>>
  BY <1>2 DEF CheckInterrupt, SubmitResume, LoadRow, Replied, Submit
<1>3. ASSUME NEW q \in Requests,
             \/ \E s \in Starts : Start(q, s)
             \/ \E p \in Principals, i \in Interrupts : Respond(q, p, i)
      PROVE  UNCHANGED <<runs, row, graph, overlap>>
  BY <1>3 DEF Start, Respond, Submit
<1>4. CASE UNCHANGED vars
  BY <1>4 DEF vars
<1> QED BY <1>1, <1>2, <1>3, <1>4, ExecutionCases DEF Next

\* What the steps of an execution leave of the checkpoints.
LEMMA GraphKept ==
    ASSUME NEW n, Quiet(n) \/ Finish(n)
    PROVE  UNCHANGED <<open, asker, base, overlap>>
BY DEF Quiet, ClaimSpent, Fail, Requeue, Cancel, Stopped, LeaseExpires, RequestRollback, Finish,
       graph

\* The baselines after a first claim, a retry, a deletion and a write.
LEMMA BaseSteps ==
    ASSUME base \in [1..MaxRuns -> Baseline], NEW n \in 1..MaxRuns, NEW m \in 1..MaxRuns
    PROVE  /\ CaptureBaseline(n) =>
                IF m = n /\ ~base[n].taken
                THEN /\ base'[m].taken /\ base'[m].row = row /\ base'[m].open = open
                     /\ base'[m].others = {} /\ ~base'[m].wrote
                ELSE /\ base'[m].taken = base[m].taken /\ base'[m].row = base[m].row
                     /\ base'[m].open = base[m].open /\ base'[m].others = base[m].others
                     /\ base'[m].wrote => base[m].wrote /\ m # n
           /\ Gone(n) =>
                /\ m = n => ~base'[m].taken /\ ~base'[m].wrote
                /\ m # n => /\ base'[m].taken = base[m].taken /\ base'[m].row = base[m].row
                            /\ base'[m].open = base[m].open /\ base'[m].wrote = base[m].wrote
                            /\ base[m].others \ {n} \subseteq base'[m].others
           /\ \A S : GraphWrites(n, S) =>
                /\ base'[m].taken = base[m].taken /\ base'[m].row = base[m].row
                /\ base'[m].open = base[m].open
                /\ m # n => base'[m].wrote = base[m].wrote
                /\ base[m].others \subseteq base'[m].others
                /\ m # n /\ base[m].taken => n \in base'[m].others
<1>0. base[m] \in Baseline /\ base[n] \in Baseline /\ NoBaseline \in Baseline
  BY DEF NoBaseline, Baseline, Row
<1>1. ASSUME CaptureBaseline(n)
      PROVE  IF m = n /\ ~base[n].taken
             THEN /\ base'[m].taken /\ base'[m].row = row /\ base'[m].open = open
                  /\ base'[m].others = {} /\ ~base'[m].wrote
             ELSE /\ base'[m].taken = base[m].taken /\ base'[m].row = base[m].row
                  /\ base'[m].open = base[m].open /\ base'[m].others = base[m].others
                  /\ base'[m].wrote => base[m].wrote /\ (m = n => FALSE)
  <2>1. CASE base[n].taken
    BY <1>0, <1>1, <2>1 DEF CaptureBaseline, Baseline
  <2>2. CASE ~base[n].taken
    <3>1. base'[m] = IF m = n
                     THEN [NoBaseline EXCEPT !.taken = TRUE, !.row = row, !.open = open]
                     ELSE IF base[m].taken THEN [base[m] EXCEPT !.after = @ \cup {n}] ELSE base[m]
      BY <1>1, <2>2 DEF CaptureBaseline
    <3> QED BY <1>0, <2>2, <3>1 DEF NoBaseline, Baseline
  <2> QED BY <2>1, <2>2
<1>2. ASSUME Gone(n)
      PROVE  /\ m = n => ~base'[m].taken /\ ~base'[m].wrote
             /\ m # n => /\ base'[m].taken = base[m].taken /\ base'[m].row = base[m].row
                         /\ base'[m].open = base[m].open /\ base'[m].wrote = base[m].wrote
                         /\ base[m].others \ {n} \subseteq base'[m].others
  <2>1. PICK undone \in BOOLEAN : base' = DropBaseline(n, undone)
    BY <1>2 DEF Gone, Rollback_run, RunsDelete
  <2>2. base'[m] = IF m = n THEN NoBaseline
                   ELSE [base[m] EXCEPT !.after = @ \ {n},
                                        !.others = IF undone THEN @ \ {n} ELSE @]
    BY <2>1 DEF DropBaseline
  <2>3. CASE m = n
    BY <2>2, <2>3 DEF NoBaseline
  <2>4. CASE m # n
    BY <1>0, <2>2, <2>4 DEF Baseline
  <2> QED BY <2>3, <2>4
<1>3. ASSUME NEW S, GraphWrites(n, S)
      PROVE  /\ base'[m].taken = base[m].taken /\ base'[m].row = base[m].row
             /\ base'[m].open = base[m].open
             /\ m # n => base'[m].wrote = base[m].wrote
             /\ base[m].others \subseteq base'[m].others
             /\ m # n /\ base[m].taken => n \in base'[m].others
  <2>1. base'[m] = IF m = n THEN [base[m] EXCEPT !.wrote = TRUE]
                   ELSE IF base[m].taken THEN [base[m] EXCEPT !.others = @ \cup {n}] ELSE base[m]
    BY <1>3 DEF GraphWrites
  <2> QED BY <1>0, <2>1 DEF Baseline
<1> QED BY <1>1, <1>2, <1>3

\* Interrupts keep the run that asked them.
LEMMA AskerStep ==
    ASSUME TypeOK, NEW n \in Rows, NEW S \in SUBSET Interrupts, GraphWrites(n, S)
    PROVE  /\ \A i \in Interrupts : asker'[i] = IF i \in S /\ asker[i] = 0 THEN n ELSE asker[i]
           /\ \A i \in Interrupts : asker[i] # 0 => asker'[i] = asker[i]
           /\ n # 0 /\ n \in 1..MaxRuns
<1>1. asker \in [Interrupts -> 0..MaxRuns] /\ SubmissionTypeOK
  BY DEF TypeOK
<1>2. n # 0 /\ n \in 1..MaxRuns
  BY <1>1, RunsFacts, SubmissionConstants DEF Rows, SubmissionTypeOK
<1>3. \A i \in Interrupts : asker'[i] = IF i \in S /\ asker[i] = 0 THEN n ELSE asker[i]
  BY <1>1 DEF GraphWrites, NeverAsked
<1> QED BY <1>2, <1>3

LEMMA LeaseStep ==
    ASSUME TypeOK, LeaseInv, [Next]_vars
    PROVE  LeaseInv'
<1>0. /\ SubmissionTypeOK /\ open \subseteq Interrupts /\ asker \in [Interrupts -> 0..MaxRuns]
      /\ base \in [1..MaxRuns -> Baseline]
  BY DEF TypeOK
<1>v. \A n \in Rows : n \in 1..MaxRuns
  BY <1>0, RunsFacts, SubmissionConstants DEF SubmissionTypeOK, Rows
<1>1. CASE UNCHANGED <<runs, graph>>
  BY <1>1 DEF LeaseInv, Rows, graph
<1>2. ASSUME NEW q \in Requests, CommitRun(q), UNCHANGED graph PROVE LeaseInv'
  <2> DEFINE l == Len(runs')
  <2>1. /\ Rows' = Rows \cup {l} /\ l \notin Rows
        /\ \A m \in Rows : runs'[m] = runs[m]
        /\ runs'[l].status = "pending"
    BY <1>0, <1>2, CommitEffect, Zenon
  <2>2. UNCHANGED <<open, asker, base>>
    BY <1>2 DEF graph
  <2>3. runs'[l].status \notin Leased
    BY <2>1 DEF Leased
  <2> HIDE DEF l
  <2> QED BY <2>1, <2>2, <2>3 DEF LeaseInv
<1>3. ASSUME NEW n \in Rows, Claim(n) \/ Quiet(n) \/ Finish(n) \/ Gone(n) PROVE LeaseInv'
  <2>1. /\ Rows' = Rows
        /\ \A m \in Rows : runs'[m].thread = runs[m].thread
        /\ \A m \in Rows \ {n} : runs'[m] = runs[m]
        /\ runs'[n].status \in Leased => runs[n].status \in Leased \/ Claim(n)
    BY <1>0, <1>3, MoveCases, MoveEffect
  <2>2. Claim(n) => \A m \in Rows : /\ m # n /\ runs[m].thread = runs[n].thread
                                    => runs[m].status \notin Leased
    BY DEF Claim, Claimable, Siblings
  <2>3. \A m, k \in Rows : /\ runs'[m].status \in Leased /\ runs'[k].status \in Leased
                           /\ runs'[m].thread = runs'[k].thread
                           => m = k
    BY <2>1, <2>2 DEF LeaseInv
  <2>4. asker' = asker
    BY <1>3, GraphKept DEF Claim, Gone, Rollback_run, RunsDelete
  <2>5. \A i \in Interrupts : asker'[i] # 0 => asker'[i] \in Rows /\ runs'[asker'[i]].thread = Asked
    BY <2>1, <2>4 DEF LeaseInv
  <2>6. CASE UNCHANGED <<open, base>>
    <3>1. \A m \in 1..MaxRuns : base[m].taken => m \in Rows /\ runs'[m].thread = Asked
      BY <2>1 DEF LeaseInv
    <3>2. ASSUME NEW m \in 1..MaxRuns, base[m].taken, NEW k \in Rows, k # m,
                 runs'[k].status \in Leased, runs'[k].thread = Asked, base[k].wrote, ~Claim(n)
          PROVE  k \in base[m].others
      BY <2>1, <3>2 DEF LeaseInv
    <3>3. Claim(n) => runs[n].thread # Asked \/ base[n].wrote = FALSE
      BY <1>0, <1>v, <2>6, BaseSteps DEF Claim
    <3>4. ASSUME NEW m \in 1..MaxRuns, base[m].taken, NEW k \in Rows, k # m,
                 runs'[k].status \in Leased, runs'[k].thread = Asked, base[k].wrote, Claim(n)
          PROVE  k \in base[m].others
      <4>1. k # n
        BY <2>1, <3>3, <3>4
      <4> QED BY <2>1, <3>4, <4>1 DEF LeaseInv
    <3> QED BY <2>1, <2>3, <2>4, <2>5, <2>6, <3>1, <3>2, <3>4 DEF LeaseInv
  <2>7. CASE Claim(n) /\ runs[n].thread = Asked
    <3>1. CaptureBaseline(n) /\ open' = open
      BY <2>7 DEF Claim
    <3>2. \A m \in 1..MaxRuns :
            IF m = n /\ ~base[n].taken
            THEN /\ base'[m].taken /\ base'[m].open = open /\ base'[m].others = {}
                 /\ ~base'[m].wrote
            ELSE /\ base'[m].taken = base[m].taken /\ base'[m].open = base[m].open
                 /\ base'[m].others = base[m].others
                 /\ base'[m].wrote => base[m].wrote /\ m # n
      BY <1>0, <1>v, <3>1, BaseSteps
    <3>3. \A i \in open' : asker'[i] # 0
      BY <2>4, <3>1 DEF LeaseInv
    <3>4. ASSUME NEW m \in 1..MaxRuns, base'[m].taken
          PROVE  /\ m \in Rows /\ runs'[m].thread = Asked
                 /\ \A i \in base'[m].open : asker'[i] # 0
      BY <2>1, <2>4, <2>7, <3>2, <3>4 DEF LeaseInv
    <3>5. ASSUME NEW m \in 1..MaxRuns, base'[m].taken, NEW k \in Rows, k # m,
                 runs'[k].status \in Leased, runs'[k].thread = Asked, base'[k].wrote
          PROVE  FALSE
      <4>1. k # n
        BY <1>v, <3>2, <3>5
      <4> QED BY <2>1, <2>2, <2>7, <3>5, <4>1
    <3> QED BY <2>1, <2>3, <2>5, <3>3, <3>4, <3>5 DEF LeaseInv
  <2>8. CASE Gone(n)
    <3>1. \A m \in 1..MaxRuns :
            /\ m = n => ~base'[m].taken /\ ~base'[m].wrote
            /\ m # n => /\ base'[m].taken = base[m].taken
                        /\ base'[m].open = base[m].open /\ base'[m].wrote = base[m].wrote
                        /\ base[m].others \ {n} \subseteq base'[m].others
      BY <1>0, <1>v, <2>8, BaseSteps
    <3>2. open' = open \/ (base[n].taken /\ open' = base[n].open)
      BY <2>8 DEF Gone, Rollback_run, RunsDelete
    <3>3. \A i \in open' : asker'[i] # 0
      BY <1>v, <2>4, <3>2 DEF LeaseInv
    <3>4. ASSUME NEW m \in 1..MaxRuns, base'[m].taken
          PROVE  /\ m \in Rows /\ runs'[m].thread = Asked
                 /\ \A i \in base'[m].open : asker'[i] # 0
      BY <2>1, <2>4, <3>1, <3>4 DEF LeaseInv
    <3>5. ASSUME NEW m \in 1..MaxRuns, base'[m].taken, NEW k \in Rows, k # m,
                 runs'[k].status \in Leased, runs'[k].thread = Asked, base'[k].wrote
          PROVE  k \in base'[m].others
      <4>1. k # n /\ m # n /\ k \in 1..MaxRuns
        BY <1>v, <3>1, <3>5
      <4>2. k \in base[m].others
        BY <2>1, <3>1, <3>5, <4>1 DEF LeaseInv
      <4> QED BY <3>1, <4>1, <4>2
    <3> QED BY <2>1, <2>3, <2>5, <3>3, <3>4, <3>5 DEF LeaseInv
  <2> QED BY <1>3, <2>6, <2>7, <2>8, GraphKept DEF Claim
<1>4. ASSUME NEW n \in Rows, NEW S \in SUBSET Interrupts, GraphWrites(n, S) PROVE LeaseInv'
  <2>1. /\ runs' = runs /\ Rows' = Rows /\ open' = S
        /\ runs[n].status = "running" /\ runs[n].thread = Asked
    BY <1>4 DEF GraphWrites, Rows
  <2>2. /\ \A i \in Interrupts : asker'[i] = IF i \in S /\ asker[i] = 0 THEN n ELSE asker[i]
        /\ n # 0 /\ n \in 1..MaxRuns
    BY <1>4, AskerStep
  <2>3. \A m \in 1..MaxRuns :
          /\ base'[m].taken = base[m].taken
          /\ base'[m].open = base[m].open
          /\ m # n => base'[m].wrote = base[m].wrote
          /\ base[m].others \subseteq base'[m].others
          /\ m # n /\ base[m].taken => n \in base'[m].others
    BY <1>0, <1>4, <2>2, BaseSteps
  <2>4. \A i \in Interrupts : asker'[i] # 0 => asker'[i] \in Rows /\ runs'[asker'[i]].thread = Asked
    BY <2>1, <2>2 DEF LeaseInv
  <2>5. \A i \in open' : asker'[i] # 0
    BY <2>1, <2>2
  <2>6. \A m \in 1..MaxRuns : base[m].taken => base[m].open \subseteq Interrupts
    BY <1>0 DEF Baseline
  <2>7. ASSUME NEW m \in 1..MaxRuns, base'[m].taken
        PROVE  /\ m \in Rows /\ runs'[m].thread = Asked
               /\ \A i \in base'[m].open : asker'[i] # 0
    BY <2>1, <2>2, <2>3, <2>6, <2>7 DEF LeaseInv
  <2>8. ASSUME NEW m \in 1..MaxRuns, base'[m].taken, NEW k \in Rows, k # m,
               runs'[k].status \in Leased, runs'[k].thread = Asked, base'[k].wrote
        PROVE  k \in base'[m].others
    <3>1. k = n
      BY <2>1, <2>8 DEF LeaseInv, Leased
    <3> QED BY <2>3, <2>8, <3>1
  <2>9. \A m, k \in Rows' : /\ runs'[m].status \in Leased /\ runs'[k].status \in Leased
                            /\ runs'[m].thread = runs'[k].thread
                            => m = k
    BY <2>1 DEF LeaseInv
  <2> QED BY <2>1, <2>4, <2>5, <2>7, <2>8, <2>9 DEF LeaseInv
<1>5. ASSUME NEW q \in Requests, WriteRow(q) PROVE LeaseInv'
  BY <1>1, <1>5 DEF WriteRow
<1> QED BY <1>1, <1>2, <1>3, <1>4, <1>5, StepCases

-----------------------------------------------------------------------------
(* The row of the thread *)

\* The status that a step gives.
LEMMA StatusSet ==
    ASSUME SubmissionTypeOK, NEW n \in Rows
    PROVE  /\ Claim(n) => runs'[n].status = "running"
           /\ Quiet(n) => runs'[n].status \notin {"running", "ended"}
           /\ Finish(n) => runs'[n].status = "ended"
           /\ Gone(n) => runs'[n].status = "deleted"
<1>1. ASSUME NEW s \in Status, SetStatus(n, s) PROVE runs'[n].status = s
  <2>1. runs[n] \in Run /\ runs'[n] = [runs[n] EXCEPT !.status = s]
    BY <1>1, RunsFacts, StatusStep DEF SetStatus
  <2> QED BY <2>1 DEF Run
<1>2. Quiet(n) => \E s \in Status \ {"running", "ended"} : SetStatus(n, s)
  BY DEF Quiet, ClaimSpent, Fail, Requeue, Cancel, Stopped, LeaseExpires, RequestRollback, Status
<1> QED BY <1>1, <1>2 DEF Claim, Finish, Gone, Rollback_run, RunsDelete, Status

\* A quiet step keeps the interrupts of the row, and makes nothing busy; a failure
\* makes the thread idle.
LEMMA QuietRow ==
    ASSUME SubmissionTypeOK, row \in Row, NEW n \in Rows, Quiet(n)
    PROVE  /\ row'.interrupts = row.interrupts
           /\ row'.status = "busy" => row.status = "busy"
           /\ row'.status = "busy" /\ runs'[n].status = "failed" => runs[n].thread # Asked
<1>1. ASSUME NEW t \in {"idle", "interrupted"}, SetThread(n, t)
      PROVE  /\ row'.interrupts = row.interrupts
             /\ row'.status = "busy" => row.status = "busy" /\ runs[n].thread # Asked
  BY <1>1 DEF SetThread, Row
<1>2. ClaimSpent(n) \/ Fail(n, "failed") \/ Fail(n, "cancelled") \/ Requeue(n) => SetThread(n, "idle")
  BY DEF ClaimSpent, Fail, Requeue
<1>3. Stopped(n) => \E t \in {"idle", "interrupted"} : SetThread(n, t)
  BY DEF Stopped
<1>4. Cancel(n) \/ LeaseExpires(n) \/ RequestRollback(n)
      => row' = row /\ \E s \in Status \ {"failed"} : SetStatus(n, s)
  BY DEF Cancel, LeaseExpires, RequestRollback, Status
<1>5. ASSUME NEW s \in Status, SetStatus(n, s) PROVE runs'[n].status = s
  <2>1. runs[n] \in Run /\ runs'[n] = [runs[n] EXCEPT !.status = s]
    BY <1>5, RunsFacts, StatusStep DEF SetStatus
  <2> QED BY <2>1 DEF Run
<1> QED BY <1>1, <1>2, <1>3, <1>4, <1>5 DEF Quiet

LEMMA RowStep ==
    ASSUME TypeOK, DoneInv, ShapeInv, CmdInv, LeaseInv, RowInv, [Next]_vars
    PROVE  RowInv'
<1>0. /\ SubmissionTypeOK /\ row \in Row /\ open \subseteq Interrupts
      /\ asker \in [Interrupts -> 0..MaxRuns] /\ base \in [1..MaxRuns -> Baseline]
      /\ cmd \in [Requests -> Command] /\ overlap \in BOOLEAN
  BY DEF TypeOK, Command
<1>v. \A n \in Rows : n \in 1..MaxRuns /\ n # 0
  BY <1>0, RunsFacts, SubmissionConstants DEF SubmissionTypeOK, Rows
<1>b. \A m \in 1..MaxRuns : /\ base[m].row \in Row /\ base[m].open \subseteq Interrupts
                            /\ Apart(base[m].row.interrupts, base[m].open) \subseteq Interrupts
  BY <1>0 DEF Baseline, Row, Apart
<1>w. ASSUME NEW n \in Rows, NEW i \in Interrupts, Concerns(n, i) PROVE runs[n].thread = Asked
  <2>1. runs[n].resume = i => runs[n].thread = Asked
    BY SubmissionConstants DEF ShapeInv, Shape
  <2>2. asker[i] = n => runs[n].thread = Asked
    BY <1>v DEF LeaseInv
  <2> QED BY <1>w, <2>1, <2>2 DEF Concerns
<1>1. ASSUME UNCHANGED <<runs, row, graph, overlap>> PROVE RowInv'
  BY <1>1 DEF RowInv, BusyInv, StartInv, TornInv, BaseInv, Apart, Concerns, Rows, graph
<1>2. ASSUME NEW q \in Requests, CommitRun(q), UNCHANGED <<row, graph, overlap>> PROVE RowInv'
  <2> DEFINE l == Len(runs')
  <2>1. /\ Rows' = Rows \cup {l}
        /\ \A m \in Rows : runs'[m] = runs[m]
        /\ runs'[l].status = "pending"
    BY <1>0, <1>2, CommitEffect, Zenon
  <2>2. UNCHANGED <<row, open, asker, base, overlap>>
    BY <1>2 DEF graph
  <2> HIDE DEF l
  <2>3. BusyInv => BusyInv'
    BY <2>1, <2>2 DEF BusyInv
  <2>4. StartInv => StartInv'
    BY <2>1, <2>2 DEF StartInv
  <2>5. TornInv => TornInv'
    BY <2>1, <2>2 DEF TornInv, Apart, Concerns
  <2>6. BaseInv => BaseInv'
    BY <2>1, <2>2 DEF BaseInv, Apart, Concerns
  <2> QED BY <2>2, <2>3, <2>4, <2>5, <2>6 DEF RowInv
<1>3. ASSUME NEW n \in Rows, Claim(n) \/ Quiet(n) \/ Finish(n) \/ Gone(n), ~overlap'
      PROVE  BusyInv' /\ StartInv' /\ TornInv' /\ BaseInv'
  <2>1. /\ Rows' = Rows
        /\ \A m \in Rows : runs'[m].thread = runs[m].thread /\ runs'[m].resume = runs[m].resume
        /\ \A m \in Rows \ {n} : runs'[m] = runs[m]
    BY <1>0, <1>3, MoveCases, MoveEffect
  <2>2. /\ Claim(n) => runs'[n].status = "running"
        /\ Quiet(n) => runs'[n].status \notin {"running", "ended"}
        /\ Finish(n) => runs'[n].status = "ended"
        /\ Gone(n) => runs'[n].status = "deleted"
    BY <1>0, StatusSet
  <2>3. ~overlap /\ asker' = asker
    <3>1. overlap' = overlap
      BY <1>3, MoveCases DEF Moves
    <3>2. Claim(n) \/ Gone(n) => asker' = asker
      BY DEF Claim, Gone, Rollback_run, RunsDelete
    <3> QED BY <1>3, <3>1, <3>2, GraphKept
  <2>4. BusyInv /\ StartInv /\ TornInv /\ BaseInv
    BY <2>3 DEF RowInv
  <2>5. \A m \in Rows : \A i : Concerns(m, i)' <=> Concerns(m, i)
    BY <2>1, <2>3 DEF Concerns
  <2>6. ~Finish(n) => \A m \in Rows : runs[m].status # "ended" => runs'[m].status # "ended"
    BY <1>3, <2>1, <2>2
  <2>7. ~Finish(n) => \A i : (\E m \in Rows : Concerns(m, i) /\ runs[m].status # "ended")
                             => \E m \in Rows : Concerns(m, i)' /\ runs'[m].status # "ended"
    BY <2>5, <2>6
  <2>8. CASE Claim(n)
    <3>1. /\ row'.interrupts = row.interrupts /\ open' = open
          /\ runs[n].thread # Asked => row' = row
          /\ ~Finish(n)
      BY <1>0, <2>2, <2>8 DEF Claim, SetThread, Row
    <3>2. BusyInv'
      <4>1. CASE runs[n].thread = Asked
        BY <2>1, <2>2, <2>8, <4>1 DEF BusyInv
      <4>2. CASE runs[n].thread # Asked
        BY <2>1, <2>4, <3>1, <4>2 DEF BusyInv
      <4> QED BY <4>1, <4>2
    <3>3. StartInv'
      <4>1. runs[n].thread = Asked /\ runs[n].resume = NoInterrupt => row.interrupts = {}
        BY <2>8 DEF Claim, Claimable
      <4> QED BY <2>1, <2>4, <3>1, <4>1 DEF StartInv
    <3>4. TornInv'
      BY <2>1, <2>4, <2>7, <3>1 DEF TornInv, Apart
    <3>5. BaseInv'
      <4>1. \A m \in 1..MaxRuns :
              IF m = n /\ runs[n].thread = Asked /\ ~base[n].taken
              THEN base'[m].row = row /\ base'[m].open = open
              ELSE /\ base'[m].taken = base[m].taken /\ base'[m].row = base[m].row
                   /\ base'[m].open = base[m].open /\ base'[m].others = base[m].others
        <5>1. CASE runs[n].thread = Asked
          <6>1. CaptureBaseline(n)
            BY <2>8, <5>1 DEF Claim
          <6>2. \A m \in 1..MaxRuns :
                  IF m = n /\ ~base[n].taken
                  THEN base'[m].row = row /\ base'[m].open = open
                  ELSE /\ base'[m].taken = base[m].taken /\ base'[m].row = base[m].row
                       /\ base'[m].open = base[m].open /\ base'[m].others = base[m].others
            BY <1>0, <1>v, <6>1, BaseSteps
          <6> QED BY <5>1, <6>2
        <5>2. CASE runs[n].thread # Asked
          BY <2>8, <5>2 DEF Claim
        <5> QED BY <5>1, <5>2
      <4>2. ASSUME NEW m \in 1..MaxRuns, base'[m].taken,
                   NEW i \in Apart(base'[m].row.interrupts, base'[m].open)
            PROVE  \E k \in Rows : /\ Concerns(k, i)'
                                   /\ runs'[k].status # "ended" \/ k = m \/ k \in base'[m].others
        <5>1. CASE m = n /\ runs[n].thread = Asked /\ ~base[n].taken
          BY <2>4, <2>7, <3>1, <4>1, <4>2, <5>1 DEF TornInv
        <5>2. CASE ~(m = n /\ runs[n].thread = Asked /\ ~base[n].taken)
          <6>1. /\ base[m].taken /\ base'[m].others = base[m].others
                /\ i \in Apart(base[m].row.interrupts, base[m].open)
            BY <4>1, <4>2, <5>2
          <6>2. PICK k \in Rows : /\ Concerns(k, i)
                                  /\ runs[k].status # "ended" \/ k = m \/ k \in base[m].others
            BY <2>4, <6>1 DEF BaseInv
          <6> QED BY <2>5, <2>6, <3>1, <6>1, <6>2
        <5> QED BY <5>1, <5>2
      <4> QED BY <2>1, <4>2 DEF BaseInv, Apart
    <3> QED BY <3>2, <3>3, <3>4, <3>5
  <2>9. CASE Quiet(n)
    <3>1. /\ row'.interrupts = row.interrupts /\ UNCHANGED <<open, base>> /\ ~Finish(n)
          /\ row'.status = "busy" => row.status = "busy"
          /\ row'.status = "busy" /\ runs'[n].status = "failed" => runs[n].thread # Asked
      BY <1>0, <2>2, <2>9, QuietRow, GraphKept
    <3>2. BusyInv'
      <4> SUFFICES ASSUME row'.status = "busy"
                   PROVE  \E k \in Rows : /\ runs'[k].thread = Asked
                                          /\ runs'[k].status \notin {"ended", "failed"}
        BY <2>1 DEF BusyInv
      <4>1. PICK k \in Rows : runs[k].thread = Asked /\ runs[k].status \notin {"ended", "failed"}
        BY <2>4, <3>1 DEF BusyInv
      <4>2. k = n => runs'[n].status \notin {"ended", "failed"}
        BY <2>2, <2>9, <3>1, <4>1
      <4> QED BY <2>1, <4>1, <4>2
    <3>3. StartInv'
      BY <2>1, <2>2, <2>4, <2>9, <3>1 DEF StartInv
    <3>4. TornInv'
      BY <2>1, <2>4, <2>7, <3>1 DEF TornInv, Apart
    <3>5. BaseInv'
      BY <2>1, <2>4, <2>5, <2>6, <3>1 DEF BaseInv, Apart
    <3> QED BY <3>2, <3>3, <3>4, <3>5
  <2>10. CASE Finish(n)
    <3>1. UNCHANGED <<open, base>> /\ runs[n].status \in Leased
      BY <2>10, GraphKept DEF Finish, Reported
    <3>2. BaseInv'
      <4> SUFFICES ASSUME NEW m \in 1..MaxRuns, base[m].taken,
                          NEW i \in Apart(base[m].row.interrupts, base[m].open)
                   PROVE  \E k \in Rows : /\ Concerns(k, i)'
                                          /\ runs'[k].status # "ended" \/ k = m \/ k \in base[m].others
        BY <2>1, <3>1 DEF BaseInv, Apart
      <4>1. PICK k \in Rows : /\ Concerns(k, i)
                              /\ runs[k].status # "ended" \/ k = m \/ k \in base[m].others
        BY <2>4 DEF BaseInv
      <4>2. CASE k = n /\ k # m
        <5>1. runs[n].thread = Asked
          BY <1>b, <1>w, <4>1, <4>2
        <5>2. base[n].wrote
          BY <2>10, <5>1 DEF Finish, Reported, Returned
        <5>3. n \in base[m].others
          BY <3>1, <4>2, <5>1, <5>2 DEF LeaseInv
        <5> QED BY <2>5, <4>1, <4>2, <5>3
      <4>3. CASE ~(k = n /\ k # m)
        BY <2>1, <2>5, <4>1, <4>3
      <4> QED BY <4>2, <4>3
    <3>3. CASE runs[n].thread = Asked
      <4>1. row'.interrupts = open /\ row'.status # "busy"
        BY <2>10, <3>3 DEF Finish, Reported
      <4>2. \A m \in Rows : m # n /\ runs[m].thread = Asked => runs[m].status # "running"
        BY <3>1, <3>3 DEF LeaseInv, Leased
      <4>3. StartInv'
        BY <2>1, <2>2, <2>10, <4>2 DEF StartInv
      <4>4. BusyInv' /\ TornInv'
        BY <3>1, <4>1 DEF BusyInv, TornInv, Apart
      <4> QED BY <3>2, <4>3, <4>4
    <3>4. CASE runs[n].thread # Asked
      <4>1. row' = row
        BY <2>10, <3>4 DEF Finish, Reported
      <4>2. BusyInv' /\ StartInv'
        BY <2>1, <2>2, <2>4, <2>10, <3>4, <4>1 DEF BusyInv, StartInv
      <4>3. ASSUME NEW i \in Apart(row.interrupts, open)
            PROVE  \E m \in Rows : Concerns(m, i)' /\ runs'[m].status # "ended"
        <5>1. PICK m \in Rows : Concerns(m, i) /\ runs[m].status # "ended"
          BY <2>4 DEF TornInv
        <5>2. i \in Interrupts
          BY <1>0 DEF Apart, Row
        <5>3. m # n
          BY <1>w, <3>4, <5>1, <5>2
        <5> QED BY <2>1, <2>5, <5>1, <5>3
      <4>4. TornInv'
        BY <2>1, <3>1, <4>1, <4>3 DEF TornInv, Apart
      <4> QED BY <3>2, <4>2, <4>4
    <3> QED BY <3>3, <3>4
  <2>11. CASE Gone(n)
    <3>1. /\ runs'[n].status = "deleted" /\ ~Finish(n)
          /\ \A m \in Rows : runs'[m].status = "running" => m # n /\ runs[m].status = "running"
      BY <2>1, <2>2, <2>11
    <3>2. ASSUME NEW m \in 1..MaxRuns, base'[m].taken,
                 NEW i \in Apart(base'[m].row.interrupts, base'[m].open)
          PROVE  \E k \in Rows : /\ Concerns(k, i)'
                                 /\ runs'[k].status # "ended" \/ k = m \/ k \in base'[m].others
      <4>1. /\ m # n /\ base[m].taken /\ base'[m].row = base[m].row /\ base'[m].open = base[m].open
            /\ base[m].others \ {n} \subseteq base'[m].others
        BY <1>0, <1>v, <2>11, <3>2, BaseSteps
      <4>2. PICK k \in Rows : /\ Concerns(k, i)
                              /\ runs[k].status # "ended" \/ k = m \/ k \in base[m].others
        BY <2>4, <3>2, <4>1 DEF BaseInv
      <4> QED BY <2>5, <2>6, <3>1, <4>1, <4>2
    <3>3. BaseInv'
      BY <2>1, <3>2 DEF BaseInv, Apart
    <3>4. CASE UNCHANGED <<row, open>>
      <4>1. BusyInv'
        BY <2>1, <2>4, <3>1, <3>4 DEF BusyInv
      <4>2. StartInv'
        BY <2>1, <2>4, <3>1, <3>4 DEF StartInv
      <4>3. TornInv'
        BY <2>1, <2>4, <2>7, <3>1, <3>4 DEF TornInv, Apart
      <4> QED BY <3>3, <4>1, <4>2, <4>3
    <3>5. CASE /\ base[n].taken /\ row' = base[n].row /\ open' = base[n].open
               /\ RollbackAllowed(n)
      <4>1. runs[n].thread = Asked /\ base[n].others = {}
        BY <1>v, <3>5 DEF LeaseInv, RollbackAllowed
      <4>2. BusyInv'
        BY <2>1, <3>1, <4>1 DEF BusyInv
      <4>3. StartInv'
        BY <2>1, <3>1, <3>5, <4>1 DEF StartInv, RollbackAllowed, Siblings
      <4>4. ASSUME NEW i \in Apart(base[n].row.interrupts, base[n].open)
            PROVE  \E m \in Rows : Concerns(m, i)' /\ runs'[m].status # "ended"
        <5>1. PICK k \in Rows : Concerns(k, i) /\ (runs[k].status # "ended" \/ k = n)
          BY <1>v, <2>4, <3>5, <4>1, <4>4 DEF BaseInv
        <5> QED BY <2>5, <2>6, <3>1, <5>1
      <4>5. TornInv'
        BY <2>1, <3>5, <4>4 DEF TornInv, Apart
      <4> QED BY <3>3, <4>2, <4>3, <4>5
    <3> QED BY <2>11, <3>4, <3>5 DEF Gone, Rollback_run, RunsDelete
  <2> QED BY <1>3, <2>8, <2>9, <2>10, <2>11
<1>4. ASSUME NEW n \in Rows, NEW S \in SUBSET Interrupts, GraphWrites(n, S), ~overlap'
      PROVE  BusyInv' /\ StartInv' /\ TornInv' /\ BaseInv'
  <2>1. /\ UNCHANGED <<runs, row, overlap>> /\ Rows' = Rows /\ open' = S
        /\ runs[n].status = "running" /\ runs[n].thread = Asked
        /\ IF runs[n].resume = NoInterrupt THEN S \subseteq Asking(n) \cup NeverAsked
           ELSE S \ NeverAsked = open \ {runs[n].resume}
    BY <1>4 DEF GraphWrites, Rows
  <2>2. /\ \A i \in Interrupts : asker'[i] = IF i \in S /\ asker[i] = 0 THEN n ELSE asker[i]
        /\ \A i \in Interrupts : asker[i] # 0 => asker'[i] = asker[i]
        /\ n # 0 /\ n \in 1..MaxRuns
    BY <1>4, AskerStep
  <2>3. BusyInv /\ StartInv /\ TornInv /\ BaseInv
    BY <1>4, <2>1 DEF RowInv
  <2>4. ASSUME NEW i \in Interrupts, NEW m \in Rows, Concerns(m, i) PROVE Concerns(m, i)'
    BY <1>v, <2>1, <2>2, <2>4 DEF Concerns
  <2>5. BusyInv' /\ StartInv'
    BY <2>1, <2>3 DEF BusyInv, StartInv
  <2>6. ASSUME NEW i \in Apart(row.interrupts, S)
        PROVE  \E m \in Rows : Concerns(m, i)' /\ runs[m].status # "ended"
    <3>1. i \in Interrupts
      BY <1>0 DEF Apart, Row
    <3>2. CASE i \in S /\ asker[i] = 0
      BY <2>1, <2>2, <3>1, <3>2 DEF Concerns
    <3>3. CASE asker[i] = n \/ runs[n].resume = i
      <4>1. Concerns(n, i)
        BY <3>3 DEF Concerns
      <4> QED BY <2>1, <2>4, <3>1, <4>1
    <3>4. CASE ~(i \in S /\ asker[i] = 0) /\ asker[i] # n /\ runs[n].resume # i
      <4>1. runs[n].resume # NoInterrupt
        <5>1. runs[n].resume = NoInterrupt => row.interrupts = {} /\ S \subseteq Asking(n) \cup NeverAsked
          BY <2>1, <2>3 DEF StartInv
        <5>2. i \notin Asking(n) /\ ~(i \in S /\ i \in NeverAsked)
          BY <3>4 DEF Asking, NeverAsked
        <5> QED BY <2>6, <5>1, <5>2 DEF Apart
      <4>2. i \in S <=> i \in open
        <5>1. i \in NeverAsked => i \notin S /\ i \notin open
          BY <3>1, <3>4 DEF NeverAsked, LeaseInv
        <5> QED BY <2>1, <3>4, <4>1, <5>1
      <4>3. i \in Apart(row.interrupts, open)
        BY <2>6, <4>2 DEF Apart
      <4>4. PICK m \in Rows : Concerns(m, i) /\ runs[m].status # "ended"
        BY <2>3, <4>3 DEF TornInv
      <4> QED BY <2>4, <3>1, <4>4
    <3> QED BY <3>2, <3>3, <3>4
  <2>7. TornInv'
    BY <2>1, <2>6 DEF TornInv, Apart
  <2>8. ASSUME NEW m \in 1..MaxRuns, base'[m].taken,
               NEW i \in Apart(base'[m].row.interrupts, base'[m].open)
        PROVE  \E k \in Rows : /\ Concerns(k, i)'
                               /\ runs[k].status # "ended" \/ k = m \/ k \in base'[m].others
    <3>1. /\ base[m].taken /\ base'[m].row = base[m].row /\ base'[m].open = base[m].open
          /\ base[m].others \subseteq base'[m].others
      BY <1>0, <1>4, <2>2, <2>8, BaseSteps
    <3>2. PICK k \in Rows : /\ Concerns(k, i)
                            /\ runs[k].status # "ended" \/ k = m \/ k \in base[m].others
      BY <2>3, <2>8, <3>1 DEF BaseInv
    <3>3. i \in Interrupts
      BY <1>b, <2>8, <3>1
    <3> QED BY <2>4, <3>1, <3>2, <3>3
  <2>9. BaseInv'
    BY <2>1, <2>8 DEF BaseInv, Apart
  <2> QED BY <2>5, <2>7, <2>9
<1>5. ASSUME NEW q \in Requests, WriteRow(q), ~overlap'
      PROVE  BusyInv' /\ StartInv' /\ TornInv' /\ BaseInv'
  <2> DEFINE i == cmd[q].interrupt
             k == req[q].run
  <2>1. k \in Rows /\ runs[k].resume = i /\ runs[k].thread = Asked
    BY <1>5, AnswerRun DEF WriteRow
  <2>2. /\ ~overlap /\ cmd[q].loaded = row /\ runs[k].status \notin {"ended", "failed"}
        /\ UNCHANGED <<runs, open, asker, base>> /\ Rows' = Rows
    BY <1>5 DEF WriteRow, graph, Rows
  <2>3. row'.interrupts \subseteq row.interrupts /\ row.interrupts \subseteq row'.interrupts \cup {i}
    BY <1>5, <2>2 DEF WriteRow, Remaining
  <2>4. BusyInv /\ StartInv /\ TornInv /\ BaseInv
    BY <2>2 DEF RowInv
  <2> HIDE DEF i, k
  <2>5. BusyInv'
    BY <2>1, <2>2 DEF BusyInv
  <2>6. StartInv'
    BY <2>2, <2>3, <2>4 DEF StartInv
  <2>7. ASSUME NEW j \in Apart(row'.interrupts, open)
        PROVE  \E n \in Rows : Concerns(n, j) /\ runs[n].status # "ended"
    <3>1. CASE j = i
      BY <2>1, <2>2, <3>1 DEF Concerns
    <3>2. CASE j # i
      BY <2>3, <2>4, <2>7, <3>2 DEF TornInv, Apart
    <3> QED BY <3>1, <3>2
  <2>8. TornInv'
    BY <2>2, <2>7 DEF TornInv, Apart, Concerns
  <2>9. BaseInv'
    BY <2>2, <2>4 DEF BaseInv, Apart, Concerns
  <2> QED BY <2>5, <2>6, <2>8, <2>9
<1> QED BY <1>1, <1>2, <1>3, <1>4, <1>5, StepCases DEF RowInv

-----------------------------------------------------------------------------
(* The theorems *)

LEMMA InitInv == Init => IInv
<1> SUFFICES ASSUME Init PROVE IInv
  OBVIOUS
<1> DEFINE first == [thread |-> Asked, key |-> NoKey, resume |-> NoInterrupt, status |-> "ended"]
<1>0. first \in Run
  BY HitlConstants DEF Run, Status
<1>1. runs = <<first>>
  BY DEF Init
<1> HIDE DEF first
<1>2. runs \in Seq(Run) /\ Len(runs) = 1 /\ Rows = {1} /\ runs[1] = first
  BY <1>0, <1>1 DEF Rows
<1>3. 1 <= MaxRuns
  BY HitlConstants, SubmissionConstants
<1>4. req \in [Requests -> Request] /\ \A q \in Requests : req[q].pc = "idle"
  BY NoneTypes DEF Init
<1>5. cmd \in [Requests -> Command] /\ \A q \in Requests : cmd[q].pc = "none"
  BY NoneTypes DEF Init
<1>6. exists \subseteq Threads /\ dirty = FALSE /\ overlap = FALSE
  BY HitlConstants DEF Init
<1>7. /\ open \subseteq Interrupts /\ row \in Row
      /\ row.interrupts = open /\ row.status # "busy"
  BY DEF Init, Row
<1>8. /\ asker \in [Interrupts -> 0..MaxRuns]
      /\ \A i \in Interrupts : asker[i] = IF i \in open THEN 1 ELSE 0
  BY <1>3, SubmissionConstants DEF Init
<1>9. /\ base \in [1..MaxRuns -> Baseline]
      /\ \A m \in 1..MaxRuns : /\ base[m].taken <=> m = 1
                               /\ base[m].row.interrupts = {} /\ base[m].open = {}
  <2>1. NoBaseline \in Baseline /\ NoBaseline.row.interrupts = {} /\ NoBaseline.open = {}
        /\ ~NoBaseline.taken
    BY DEF NoBaseline, Baseline, Row
  <2>2. base = [m \in 1..MaxRuns |->
                  IF m = 1 THEN [NoBaseline EXCEPT !.taken = TRUE, !.wrote = TRUE] ELSE NoBaseline]
    BY DEF Init
  <2> QED BY <2>1, <2>2 DEF Baseline
<1>10. TypeOK
  BY <1>2, <1>3, <1>4, <1>5, <1>6, <1>7, <1>8, <1>9
     DEF TypeOK, SubmissionTypeOK, Request, Command
<1>11. LockInv /\ KeyInv /\ DoneInv /\ RejectInv /\ CmdInv
  BY <1>2, <1>4, <1>5, <1>6
     DEF LockInv, KeyInv, DoneInv, RejectInv, CmdInv, Locking
<1>12. ShapeInv
  BY <1>2, <1>4, HitlConstants, SubmissionConstants DEF ShapeInv, Shape, first
<1>13. LeaseInv
  <2>1. first.status \notin Leased /\ first.thread = Asked
    BY DEF first, Leased
  <2> QED BY <1>2, <1>7, <1>8, <1>9, <2>1 DEF LeaseInv
<1>14. RowInv
  <2>1. first.status # "running"
    BY DEF first
  <2> QED BY <1>2, <1>7, <1>9, <2>1 DEF RowInv, BusyInv, StartInv, TornInv, BaseInv, Apart
<1> QED BY <1>10, <1>11, <1>12, <1>13, <1>14 DEF IInv

\* IInv holds of the first run and of nothing but what its steps reach.
THEOREM Inductive == Spec => []IInv
<1>1. IInv /\ [Next]_vars => IInv'
  BY TypeStep, LockStep, KeyStep, DoneStep, RejectStep, ShapeStep, CmdStep,
     LeaseStep, RowStep DEF IInv
<1> QED BY InitInv, <1>1, PTL DEF Spec

\* The variables have their types.
THEOREM TypeCorrect == Spec => []TypeOK
BY Inductive, PTL DEF IInv

\* One key makes one run, however requests are repeated, interleaved and broken off,
\* and every success is answered with that run.
THEOREM KeysIdempotent == Spec => []Idempotent
<1>1. IInv => Idempotent
  <2> SUFFICES ASSUME IInv PROVE Idempotent
    OBVIOUS
  <2>1. ASSUME NEW k \in Keys PROVE Cardinality(WithKey(k)) <= 1
    <3>1. CASE WithKey(k) = {}
      BY <3>1, FS_EmptySet
    <3>2. CASE WithKey(k) # {}
      <4>1. PICK n : n \in WithKey(k)
        BY <3>2
      <4>2. WithKey(k) = {n}
        BY <4>1 DEF IInv, KeyInv, WithKey, Rows
      <4>3. Cardinality({n}) = 1
        BY FS_Singleton
      <4> QED BY <4>2, <4>3
    <3> QED BY <3>1, <3>2
  <2> QED BY <2>1 DEF IInv, DoneInv, Idempotent
<1> QED BY <1>1, Inductive, PTL

\* No run is created under "reject" beside an active one.
THEOREM RejectExcludes == Spec => []RejectAlone
<1>1. IInv => RejectAlone
  BY DEF IInv, RejectInv, RejectAlone
<1> QED BY <1>1, Inductive, PTL

\* While no run of the thread is at work, the row and the checkpoints agree about its
\* interrupts, but for those of runs that were given up, and the row is busy for a
\* cancelled or deleted run only; unless a command wrote over what it had not seen.
THEOREM RowTrue == Spec => []RowSound
<1>1. IInv => RowSound
  <2> SUFFICES ASSUME IInv, ~overlap,
                      \A n \in Rows : runs[n].thread = Asked
                                      => runs[n].status \notin Leased \cup {"pending"}
               PROVE  /\ \A i \in Torn : GivenUp(i)
                      /\ row.status = "busy" =>
                            \E n \in Rows : /\ runs[n].thread = Asked
                                            /\ runs[n].status \in {"cancelled", "deleted"}
    BY DEF RowSound
  <2>0. BusyInv /\ TornInv /\ SubmissionTypeOK
    BY DEF IInv, RowInv, TypeOK
  <2>s. \A n \in Rows : runs[n].thread = Asked
                        => runs[n].status \in {"ended", "failed", "cancelled", "deleted"}
    BY <2>0, RunsFacts DEF Run, Status, Leased
  <2>1. ASSUME row.status = "busy"
        PROVE  \E n \in Rows : /\ runs[n].thread = Asked
                               /\ runs[n].status \in {"cancelled", "deleted"}
    BY <2>0, <2>1, <2>s DEF BusyInv
  <2>2. ASSUME NEW i \in Torn PROVE GivenUp(i)
    <3>1. i \in Apart(row.interrupts, open) /\ i \in Interrupts
      BY <2>2 DEF Torn, Apart, IInv, TypeOK, Row
    <3>2. PICK n \in Rows : Concerns(n, i) /\ runs[n].status # "ended"
      BY <2>0, <3>1 DEF TornInv
    <3>3. runs[n].thread = Asked
      <4>1. runs[n].resume = i => runs[n].thread = Asked
        BY <3>1, SubmissionConstants DEF IInv, ShapeInv, Shape
      <4>2. asker[i] = n => runs[n].thread = Asked
        <5>1. n # 0
          BY <2>0, RunsFacts DEF Rows
        <5> QED BY <3>1, <5>1 DEF IInv, LeaseInv
      <4> QED BY <3>2, <4>1, <4>2 DEF Concerns
    <3> QED BY <2>s, <3>2, <3>3 DEF GivenUp, Concerns
  <2> QED BY <2>1, <2>2
<1> QED BY <1>1, Inductive, PTL

=============================================================================
