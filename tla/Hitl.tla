-------------------------------- MODULE Hitl ---------------------------------
(***************************************************************************)
(* Human answers to interrupts (protocol_api.py, protocol_commands): the   *)
(* command input.respond looks for a run that already resumes the          *)
(* interrupt, looks at the interrupts of the thread, submits a resume run  *)
(* (Submission), and then takes the interrupt out of the thread row, each  *)
(* in a transaction of its own; the last one loads the row without a lock  *)
(* and writes it after another await.                                      *)
(*                                                                         *)
(* Runs are executed meanwhile, cancelled, rolled back and deleted         *)
(* (RunStore has the leases, Checkpoints the checkpoints): a run that ends *)
(* overwrites the interrupts of the thread with those that its graph       *)
(* reports, a rollback puts back those of the run's first claim, and       *)
(* nothing else in the life of a run does.                                 *)
(***************************************************************************)
EXTENDS Submission

CONSTANTS
    Asked,        \* the thread of the interrupts
    Principals,   \* who answers
    Starts,       \* the orders of run.start, and whether one creates the thread
    MaxTakenBack  \* bound on runs that are cancelled, rolled back or deleted

\* The key of an answer has a prefix of its own ("protocol-resume:").
ASSUME HitlConstants ==
    /\ Asked \in Threads
    /\ Principals \X Interrupts \subseteq Keys
    /\ Starts \subseteq [thread : Threads, key : (Keys \ (Principals \X Interrupts)) \cup {NoKey},
                        reject : BOOLEAN, create : BOOLEAN]
    /\ MaxRuns > 0 /\ MaxTakenBack \in Nat

VARIABLES
    row,      \* interrupts and status of the thread row
    open,     \* interrupts that the checkpoints of the graph have
    asker,    \* the run whose graph asked, for interrupts that were ever open
    base,     \* the baselines of runs, see Baseline
    cmd,      \* commands input.respond
    overlap   \* history: a command wrote the row as it was, not as it is

graph == <<open, asker, base>>
vars == <<exists, runs, req, dirty, row, graph, cmd, overlap>>

\* scoped_idempotency_key: the key of an answer belongs to its principal.
KeyOf(p, i) == <<p, i>>

Row == [interrupts : SUBSET Interrupts, status : {"idle", "busy", "interrupted"}]
NoCmd == [pc |-> "none", interrupt |-> NoInterrupt, key |-> NoKey,
          loaded |-> [interrupts |-> {}, status |-> "idle"]]

\* What the first claim of a run keeps of the thread, and what happened since: runs
\* that were claimed first (after), other runs that wrote checkpoints (others), and
\* whether this one did in its last execution.
Baseline == [taken : BOOLEAN, row : Row, open : SUBSET Interrupts,
             after : SUBSET (1..MaxRuns), others : SUBSET (1..MaxRuns), wrote : BOOLEAN]
NoBaseline == [taken |-> FALSE, row |-> [interrupts |-> {}, status |-> "idle"], open |-> {},
               after |-> {}, others |-> {}, wrote |-> FALSE]

TypeOK ==
    /\ SubmissionTypeOK
    /\ row \in Row
    /\ open \subseteq Interrupts
    /\ asker \in [Interrupts -> 0..MaxRuns]
    /\ base \in [1..MaxRuns -> Baseline]
    /\ cmd \in [Requests -> [pc : {"none", "check", "submit", "write"},
                             interrupt : Interrupts \cup {NoInterrupt},
                             key : Keys \cup {NoKey}, loaded : Row]]
    /\ overlap \in BOOLEAN

-----------------------------------------------------------------------------
(* Commands *)

\* run.start and POST runs: any strategy; run.start creates the thread.
Start(q, s) ==
    /\ cmd[q].pc = "none"
    /\ Submit(q, [thread |-> s.thread, key |-> s.key, reject |-> s.reject,
                  resume |-> NoInterrupt], s.create)
    /\ UNCHANGED <<row, graph, cmd, overlap>>

\* input.respond: an answer that has a run already is answered with that run, and
\* nothing changes.
Respond(q, p, i) ==
    /\ cmd[q].pc = "none" /\ req[q].pc = "idle"
    /\ WithKey(KeyOf(p, i)) = {}
    /\ cmd' = [cmd EXCEPT ![q] = [NoCmd EXCEPT !.interrupt = i, !.key = KeyOf(p, i),
                                               !.pc = "check"]]
    /\ UNCHANGED <<exists, runs, req, dirty, row, graph, overlap>>

\* The thread must have that interrupt, and a run.
CheckInterrupt(q) ==
    /\ cmd[q].pc = "check"
    /\ cmd' = IF /\ cmd[q].interrupt \in row.interrupts
                 /\ \E n \in 1..Len(runs) : runs[n].thread = Asked /\ runs[n].status # "deleted"
              THEN [cmd EXCEPT ![q].pc = "submit"]
              ELSE [cmd EXCEPT ![q] = NoCmd]
    /\ UNCHANGED <<exists, runs, req, dirty, row, graph, overlap>>

\* runs_create with the resume command.
SubmitResume(q) ==
    /\ cmd[q].pc = "submit"
    /\ Submit(q, [thread |-> Asked, key |-> cmd[q].key, reject |-> FALSE,
                  resume |-> cmd[q].interrupt], FALSE)
    /\ UNCHANGED <<row, graph, cmd, overlap>>

\* The row is loaded, without a lock, once the run is there.
LoadRow(q) ==
    /\ cmd[q].pc = "submit"
    /\ req[q].pc = "done"
    /\ cmd' = [cmd EXCEPT ![q].pc = "write", ![q].loaded = row]
    /\ UNCHANGED <<exists, runs, req, dirty, row, graph, overlap>>

\* A resume consumes exactly one persisted interrupt.
Remaining(S, i) == S \ {i}

\* The changed columns are written, over whatever the row has become.
WriteRow(q) ==
    LET i == cmd[q].interrupt
        old == cmd[q].loaded
    IN  /\ cmd[q].pc = "write"
        /\ row' = [interrupts |-> IF i \in old.interrupts THEN Remaining(old.interrupts, i)
                                  ELSE row.interrupts,
                   status |-> IF old.status = "busy" THEN row.status ELSE "busy"]
        /\ overlap' = (overlap \/ old # row \/ runs[req[q].run].status \in {"ended", "failed"})
        /\ cmd' = [cmd EXCEPT ![q] = NoCmd]
        /\ req' = [req EXCEPT ![q] = NoRequest]
        /\ UNCHANGED <<exists, runs, dirty, graph>>

\* The submission is answered: a run.start ends here, and a refused answer.
Replied(q) ==
    /\ req[q].pc = "refused" \/ (req[q].pc = "done" /\ cmd[q].pc = "none")
    /\ cmd' = [cmd EXCEPT ![q] = NoCmd]
    /\ req' = [req EXCEPT ![q] = NoRequest]
    /\ UNCHANGED <<exists, runs, dirty, row, graph, overlap>>

-----------------------------------------------------------------------------
(* Execution *)

Rows == 1..Len(runs)
Siblings(n) == {m \in Rows \ {n} : runs[m].thread = runs[n].thread}

\* A worker has the lease of such a run.
Leased == {"running", "stopping", "undoing"}

\* Resume runs go first, then the order of creation.
Ahead(m, n) ==
    LET resume(k) == runs[k].resume # NoInterrupt
    IN  (resume(m) /\ ~resume(n)) \/ (resume(m) = resume(n) /\ m < n)

\* Who writes a thread row, or an event of the thread, waits for submissions to it.
\* Steps that only end a run need not wait here, which allows more than the code.
Unlocked(n) == ~\E q \in Requests : req[q].pc \in Locking /\ req[q].order.thread = runs[n].thread

SetStatus(n, s) == runs' = [runs EXCEPT ![n].status = s]

\* The thread row is written for a run of that thread.
SetThread(n, s) ==
    row' = IF runs[n].thread = Asked THEN [row EXCEPT !.status = s] ELSE row

\* claim_next: one run of a thread at a time, its head; only a resume run passes
\* interrupts.  It takes a free lock of the thread.
Claimable(n) ==
    /\ runs[n].status = "pending"
    /\ \A m \in Siblings(n) : /\ runs[m].status \notin Leased
                              /\ runs[m].status = "pending" => Ahead(n, m)
    /\ runs[n].thread = Asked /\ row.interrupts # {} => runs[n].resume # NoInterrupt
    /\ Unlocked(n)

\* capture_baseline; a retry keeps the first one.
CaptureBaseline(n) ==
    base' = IF base[n].taken THEN [base EXCEPT ![n].wrote = FALSE]
            ELSE [m \in 1..MaxRuns |->
                    IF m = n
                    THEN [NoBaseline EXCEPT !.taken = TRUE, !.row = row, !.open = open]
                    ELSE IF base[m].taken THEN [base[m] EXCEPT !.after = @ \cup {n}] ELSE base[m]]

Claim(n) ==
    /\ Claimable(n)
    /\ SetStatus(n, "running")
    /\ SetThread(n, "busy")
    /\ IF runs[n].thread = Asked THEN CaptureBaseline(n) ELSE UNCHANGED base
    /\ UNCHANGED <<exists, req, dirty, open, asker, cmd, overlap>>

\* claim_next ends a run that has no attempts left.
ClaimSpent(n) ==
    /\ Claimable(n) /\ base[n].taken
    /\ SetStatus(n, "failed")
    /\ SetThread(n, "idle")
    /\ UNCHANGED <<exists, req, dirty, graph, cmd, overlap>>

Asking(n) == {i \in Interrupts : asker[i] = n}
NeverAsked == {i \in Interrupts : asker[i] = 0}

\* The graph writes its checkpoints, which have the interrupts S now: those it had,
\* without the one that is answered, or without all that earlier runs have left
\* open when it starts anew; and those it asks.  The fence lets only a running run.
GraphWrites(n, S) ==
    /\ runs[n].status = "running" /\ runs[n].thread = Asked
    /\ IF runs[n].resume = NoInterrupt THEN S \subseteq Asking(n) \cup NeverAsked
       ELSE S \ NeverAsked = open \ {runs[n].resume}
    /\ open' = S
    /\ asker' = [i \in Interrupts |-> IF i \in S \cap NeverAsked THEN n ELSE asker[i]]
    /\ base' = [m \in 1..MaxRuns |->
                  IF m = n THEN [base[m] EXCEPT !.wrote = TRUE]
                  ELSE IF base[m].taken THEN [base[m] EXCEPT !.others = @ \cup {n}] ELSE base[m]]
    /\ UNCHANGED <<exists, runs, req, dirty, row, cmd, overlap>>

\* The checkpoints are those of a graph that has returned.
Returned(n) ==
    runs[n].thread = Asked =>
        /\ base[n].wrote
        /\ IF runs[n].resume = NoInterrupt THEN open \subseteq Asking(n)
           ELSE runs[n].resume \notin open

\* Faulty variant of Reported: a success leaves the interrupts of the row alone.
ReportedIfAny == IF open = {} THEN row.interrupts ELSE open

\* What a graph that has returned reports: the interrupts it has now, or none.
Reported == open

\* The worker records the result.  It has loaded the run without a lock, so that a
\* cancellation or a rollback request in between is overwritten.
Finish(n) ==
    /\ runs[n].status \in Leased
    /\ Returned(n)
    /\ SetStatus(n, "ended")
    /\ row' = IF runs[n].thread = Asked
              THEN [interrupts |-> Reported, status |-> IF open = {} THEN "idle" ELSE "interrupted"]
              ELSE row
    /\ UNCHANGED <<exists, req, dirty, graph, cmd, overlap>>

\* The execution fails, runs out of time, or is stopped by a message; or the lease
\* of a run expires that has no attempts left.  The interrupts of the row stay.
Fail(n, s) ==
    /\ runs[n].status \in Leased
    /\ SetStatus(n, s)
    /\ SetThread(n, "idle")
    /\ UNCHANGED <<exists, req, dirty, graph, cmd, overlap>>

\* The same, to be tried again; also when the worker shuts down.
Requeue(n) ==
    /\ runs[n].status \in Leased
    /\ Unlocked(n)
    /\ SetStatus(n, "pending")
    /\ SetThread(n, "idle")
    /\ UNCHANGED <<exists, req, dirty, graph, cmd, overlap>>

-----------------------------------------------------------------------------
(* Cancellation, rollback and deletion *)

\* There is room for another one.
TakesBack(n) ==
    LET gone == {m \in Rows : runs[m].status \in {"stopping", "undoing", "cancelled", "deleted"}}
    IN  n \in gone \/ Cardinality(gone) < MaxTakenBack

\* _cancel_row with "interrupt": a run that runs keeps its lease; the thread row is
\* left to its worker, or to nobody when the run has not started.
Cancel(n) ==
    /\ runs[n].status \in {"pending", "running"}
    /\ TakesBack(n)
    /\ SetStatus(n, IF runs[n].status = "running" THEN "stopping" ELSE "cancelled")
    /\ UNCHANGED <<exists, req, dirty, row, graph, cmd, overlap>>

\* The worker acknowledges: the end of run_once.
Stopped(n) ==
    /\ runs[n].status = "stopping"
    /\ SetStatus(n, "cancelled")
    /\ SetThread(n, IF row.interrupts # {} THEN "interrupted" ELSE "idle")
    /\ UNCHANGED <<exists, req, dirty, graph, cmd, overlap>>

\* The worker dies; later its lease does not count any more.
LeaseExpires(n) ==
    /\ runs[n].status = "stopping"
    /\ SetStatus(n, "cancelled")
    /\ UNCHANGED <<exists, req, dirty, row, graph, cmd, overlap>>

\* rollback_run refuses beside another run that runs or is rolled back, after a
\* later first claim, over checkpoints of others, and without a baseline once the
\* run has been claimed.
RollbackAllowed(n) ==
    /\ \A m \in Siblings(n) : runs[m].status \notin {"running", "undoing"}
    /\ IF base[n].taken THEN base[n].after = {} /\ base[n].others = {}
       ELSE runs[n].thread = Asked => runs[n].status \in {"pending", "cancelled"}

\* _cancel_row with "rollback", of a run whose lease somebody has.
RequestRollback(n) ==
    /\ runs[n].status \in {"running", "stopping"}
    /\ TakesBack(n)
    /\ RollbackAllowed(n)
    /\ SetStatus(n, "undoing")
    /\ UNCHANGED <<exists, req, dirty, row, graph, cmd, overlap>>

\* The baseline of a deleted run goes with it, and with a rollback its checkpoints.
DropBaseline(n, undone) ==
    [m \in 1..MaxRuns |->
        IF m = n THEN NoBaseline
        ELSE [base[m] EXCEPT !.after = @ \ {n}, !.others = IF undone THEN @ \ {n} ELSE @]]

\* rollback_run: of a run without a lease at once, else by complete_rollbacks.
Rollback_run(n) ==
    /\ runs[n].status \notin {"running", "stopping", "deleted"}
    /\ TakesBack(n)
    /\ RollbackAllowed(n)
    /\ Unlocked(n)
    /\ SetStatus(n, "deleted")
    /\ base' = DropBaseline(n, TRUE)
    /\ IF base[n].taken THEN row' = base[n].row /\ open' = base[n].open
       ELSE UNCHANGED <<row, open>>
    /\ UNCHANGED <<exists, req, dirty, asker, cmd, overlap>>

\* runs_delete, whatever the run is doing.
RunsDelete(n) ==
    /\ runs[n].status # "deleted"
    /\ TakesBack(n)
    /\ SetStatus(n, "deleted")
    /\ base' = DropBaseline(n, FALSE)
    /\ UNCHANGED <<exists, req, dirty, row, open, asker, cmd, overlap>>

-----------------------------------------------------------------------------
(* The specification *)

\* A run of the thread has ended with interrupts.
Init ==
    /\ exists = {Asked}
    /\ runs = <<[thread |-> Asked, key |-> NoKey, resume |-> NoInterrupt, status |-> "ended"]>>
    /\ req = [q \in Requests |-> NoRequest]
    /\ dirty = FALSE
    /\ open \in SUBSET Interrupts
    /\ asker = [i \in Interrupts |-> IF i \in open THEN 1 ELSE 0]
    /\ base = [m \in 1..MaxRuns |->
                 IF m = 1 THEN [NoBaseline EXCEPT !.taken = TRUE, !.wrote = TRUE] ELSE NoBaseline]
    /\ row = [interrupts |-> open, status |-> IF open = {} THEN "idle" ELSE "interrupted"]
    /\ cmd = [q \in Requests |-> NoCmd]
    /\ overlap = FALSE

ExecutionStep(n) ==
    \/ Claim(n) \/ ClaimSpent(n)
    \/ \E S \in SUBSET Interrupts : GraphWrites(n, S)
    \/ Finish(n) \/ Fail(n, "failed") \/ Fail(n, "cancelled") \/ Requeue(n)
    \/ Cancel(n) \/ Stopped(n) \/ LeaseExpires(n)
    \/ RequestRollback(n) \/ Rollback_run(n) \/ RunsDelete(n)

Next ==
    \/ \E q \in Requests, s \in Starts : Start(q, s)
    \/ \E q \in Requests, p \in Principals, i \in Interrupts : Respond(q, p, i)
    \/ \E q \in Requests :
          \/ CheckInterrupt(q) \/ SubmitResume(q) \/ LoadRow(q) \/ WriteRow(q) \/ Replied(q)
          \/ SubmissionStep(q) /\ UNCHANGED <<row, graph, cmd, overlap>>
    \/ \E n \in Rows : ExecutionStep(n)

Spec == Init /\ [][Next]_vars

-----------------------------------------------------------------------------
(* Properties *)

\* Interrupts about which the thread row and the graph disagree.
Torn == (row.interrupts \ open) \cup (open \ row.interrupts)

\* A run that asked i, or answers it, was given up.
GivenUp(i) ==
    \E n \in Rows : /\ runs[n].resume = i \/ asker[i] = n
                    /\ runs[n].status \in {"failed", "cancelled", "deleted"}

\* Answers, executions and rollbacks agree about the interrupts of the thread while
\* none of its runs is at work, whatever the commands are doing: the row offers what
\* is open in the graph, except for interrupts that a run asked or answered that
\* failed, was cancelled or was deleted; and the thread is not shown as busy unless a
\* run was cancelled or deleted.  Commands that wrote the row over a change they had
\* not seen, or after their run had ended, are excluded: they bring an answered
\* interrupt back, or leave the thread busy.
RowSound ==
    /\ ~overlap
    /\ \A n \in Rows : runs[n].thread = Asked => runs[n].status \notin Leased \cup {"pending"}
    => /\ \A i \in Torn : GivenUp(i)
       /\ row.status = "busy" =>
             \E n \in Rows : /\ runs[n].thread = Asked
                             /\ runs[n].status \in {"cancelled", "deleted"}

=============================================================================
