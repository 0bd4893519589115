----------------------------- MODULE Checkpoints -----------------------------
(***************************************************************************)
(* The checkpoint tables (checkpoint.py, checkpoint_mutations.py): the     *)
(* fenced writes of executions and of state updates, the baselines that    *)
(* claims capture and rollbacks restore, pruning, and copies of a thread.  *)
(* Of the life of a run there is what decides about checkpoints; RunStore  *)
(* has the rest.                                                           *)
(*                                                                         *)
(* A transaction is one step: all of them lock the row of the run or of    *)
(* the thread before they look.  A state update reads in one and writes in *)
(* another, a copy writes each checkpoint in its own.  Checkpoint ids      *)
(* grow with time.  A checkpoint holds the value of its channels in full   *)
(* or only what changed; then its ancestors are needed to read it.         *)
(***************************************************************************)
EXTENDS Integers, FiniteSets, FiniteSetsExt

CONSTANTS
    Runs, NoRun,
    Threads,
    First,        \* the thread that is there at first; others are made by copies
    Namespaces,   \* checkpoint_ns: the graph and its subgraphs
    ThreadOf,     \* the thread of a run
    MaxId,        \* bound on checkpoints
    MaxWrites,    \* bound on the pending writes of a thread
    MaxOps,       \* bound on lost leases, deletions, state updates, prunings and copies
    MaxGen        \* bound on the attempts of a run

ASSUME CheckpointConstants ==
    /\ IsFiniteSet(Runs) /\ NoRun \notin Runs /\ First \in Threads
    /\ ThreadOf \in [Runs -> Threads]
    /\ MaxId \in Nat /\ MaxWrites \in Nat /\ MaxOps \in Nat /\ MaxGen \in Nat

VARIABLES
    exists,     \* threads that have a row
    cps,        \* table checkpoints
    writes,     \* table checkpoint_writes
    run,        \* runs, with their baselines
    update,     \* a threads_update_state under way
    copy,       \* a threads_copy under way
    last,       \* the newest checkpoint id
    ops,        \* lost leases, deletions, state updates, prunings and copies
    spoiled     \* history: checkpoints that an update had read, or a copy had written, were removed

vars == <<exists, cps, writes, run, update, copy, last, ops, spoiled>>

Ids == 1..MaxId

\* parent 0: none.  by and gen are the attempt that wrote the row.
Checkpoint == [id : Ids, ns : Namespaces, parent : 0..MaxId, full : BOOLEAN,
               by : Runs \cup {NoRun}, gen : 0..MaxGen]
Pending == [id : Ids, by : Runs]

\* at orders the captures of a thread (_captured_at); 0 without a baseline.
NoBaseline == [at |-> 0, gen |-> 0, cps |-> {}, writes |-> {}]
NoRow == [status |-> "none", gen |-> 0, live |-> FALSE,
          rollback |-> FALSE, base |-> NoBaseline]
NoUpdate == [thread |-> First, parent |-> -1]
NoCopy == [pc |-> "none", from |-> First, to |-> First, todo |-> {}, left |-> {}]

Baseline == [at : 0..Cardinality(Runs), gen : 0..MaxGen,
             cps : SUBSET Checkpoint, writes : SUBSET Pending]
Row == [status : {"none", "pending", "running", "stopped", "gone"}, gen : 0..MaxGen,
        live : BOOLEAN, rollback : BOOLEAN, base : Baseline]
Update == [thread : Threads, parent : -1..MaxId]
Copy == [pc : {"none", "list", "put", "done", "failed"}, from : Threads, to : Threads,
         todo : SUBSET Checkpoint, left : SUBSET Pending]

TypeOK ==
    /\ exists \subseteq Threads
    /\ cps \in [Threads -> SUBSET Checkpoint] /\ writes \in [Threads -> SUBSET Pending]
    /\ \A t \in Threads : \A c, d \in cps[t] : c.id = d.id => c = d
    /\ run \in [Runs -> Row]
    /\ update \in Update /\ copy \in Copy
    /\ last \in 0..MaxId /\ ops \in 0..MaxOps
    /\ spoiled \in BOOLEAN

-----------------------------------------------------------------------------
(* The tables *)

IdsOf(S) == {c.id : c \in S}
InNs(S, ns) == {c \in S : c.ns = ns}
HeadId(S, ns) == IF InNs(S, ns) = {} THEN 0 ELSE Max(IdsOf(InNs(S, ns)))

Lives(r) == run[r].status \in {"pending", "running", "stopped"}
On(t) == {r \in Runs : Lives(r) /\ ThreadOf[r] = t}

\* status = 'running' OR reason = 'rollback'
Busy(S) == \E r \in S : run[r].status = "running" \/ run[r].rollback

\* The rows of the runs, without the baselines of t.
WithoutBaselines(t) ==
    [r \in Runs |-> IF ThreadOf[r] = t THEN [run[r] EXCEPT !.base = NoBaseline] ELSE run[r]]

\* What an update has read from t, or a copy has put there, is in use.
InUse(t) == (update.parent >= 0 /\ update.thread = t) \/ (copy.pc = "put" /\ copy.to = t)

\* Threads that a copy made.
Targets == IF copy.pc = "none" THEN {} ELSE {copy.to}

Counted == ops < MaxOps /\ ops' = ops + 1

-----------------------------------------------------------------------------
(* Runs *)

Create(r) ==
    /\ run[r].status = "none" /\ ThreadOf[r] \in exists
    /\ run' = [run EXCEPT ![r].status = "pending"]
    /\ UNCHANGED <<exists, cps, writes, update, copy, last, ops, spoiled>>

\* capture_baseline: the tables as they are; retries keep the one they have.
Captured(r) ==
    LET t == ThreadOf[r]
    IN  IF run[r].base.at > 0 THEN run[r].base
        ELSE [at |-> 1 + Max({run[q].base.at : q \in On(t)}), gen |-> run[r].gen + 1,
              cps |-> cps[t], writes |-> writes[t]]

AttemptsLeft(r) == run[r].gen < MaxGen

\* claim_next
Claim(r) ==
    /\ run[r].status = "pending" /\ ThreadOf[r] \in exists
    /\ AttemptsLeft(r)
    /\ ~Busy(On(ThreadOf[r]))
    /\ run' = [run EXCEPT ![r].status = "running", ![r].gen = @ + 1, ![r].live = TRUE,
                          ![r].base = Captured(r)]
    /\ UNCHANGED <<exists, cps, writes, update, copy, last, ops, spoiled>>

LeaseExpires(r) ==
    /\ Counted
    /\ run[r].live
    /\ run' = [run EXCEPT ![r].live = FALSE]
    /\ UNCHANGED <<exists, cps, writes, update, copy, last, spoiled>>

\* requeue_expired: the worker may not know.
Requeue(r) ==
    /\ run[r].status = "running" /\ ~run[r].live
    /\ run' = [run EXCEPT ![r].status = "pending"]
    /\ UNCHANGED <<exists, cps, writes, update, copy, last, ops, spoiled>>

\* finish, fail or a cancellation.
Stop(r) ==
    /\ run[r].status \in {"pending", "running"}
    /\ run' = [run EXCEPT ![r].status = "stopped", ![r].live = FALSE]
    /\ UNCHANGED <<exists, cps, writes, update, copy, last, ops, spoiled>>

\* runs_delete: with the baseline.
RunsDelete(r) ==
    /\ Counted
    /\ Lives(r)
    /\ run' = [run EXCEPT ![r] = [NoRow EXCEPT !.status = "gone"]]
    /\ UNCHANGED <<exists, cps, writes, update, copy, last, spoiled>>

-----------------------------------------------------------------------------
(* The fence: FencedPostgresSaver._writer *)

\* Faulty variant of Fence: the generation is not compared.
FenceLoose(r, g) == run[r].status = "running" /\ run[r].live

\* A worker that executes generation g of r still owns the run.  This is the branch
\* of writers with a token, the slots of the production worker.  An execution without
\* one (a worker of the runtime contract) is only held to the status of its run, has
\* no generation to compare, and is not modelled; UpdateWrite has the branch without
\* a run.
Fence(r, g) == run[r].status = "running" /\ run[r].live /\ run[r].gen = g

\* aput of an execution
Put(r, g, ns, full) ==
    LET t == ThreadOf[r]
    IN  /\ g <= run[r].gen /\ Fence(r, g)
        /\ last < MaxId
        /\ last' = last + 1
        /\ cps' = [cps EXCEPT ![t] = @ \cup
              {[id |-> last + 1, ns |-> ns, parent |-> HeadId(cps[t], ns), full |-> full,
                by |-> r, gen |-> g]}]
        /\ UNCHANGED <<exists, writes, run, update, copy, ops, spoiled>>

\* aput_writes of an execution, to the checkpoint it has reached.
PutWrites(r, g, ns) ==
    LET t == ThreadOf[r]
    IN  /\ g <= run[r].gen /\ Fence(r, g)
        /\ HeadId(cps[t], ns) > 0 /\ Cardinality(writes[t]) < MaxWrites
        /\ writes' = [writes EXCEPT ![t] = @ \cup {[id |-> HeadId(cps[t], ns), by |-> r]}]
        /\ UNCHANGED <<exists, cps, run, update, copy, last, ops, spoiled>>

\* threads_update_state reads the head, or the checkpoint that the request names.
UpdateRead(t, c) ==
    /\ Counted
    /\ update.parent = -1 /\ t \in exists
    /\ c \in {HeadId(cps[t], ns) : ns \in Namespaces} \cup IdsOf(cps[t])
    /\ update' = [thread |-> t, parent |-> c]
    /\ UNCHANGED <<exists, cps, writes, run, copy, last, spoiled>>

\* Others than executions may write only while there is none.
NoWriter(t) == ~Busy(On(t))

\* ... and writes a child of it; the baselines are superseded.  The namespace is
\* that of the parent.
UpdateWrite(ns, full) ==
    LET t == update.thread
    IN  /\ update.parent >= 0
        /\ IF NoWriter(t)
           THEN /\ \A c \in cps[t] : c.id = update.parent => c.ns = ns
                /\ last < MaxId
                /\ last' = last + 1
                /\ cps' = [cps EXCEPT ![t] = @ \cup
                      {[id |-> last + 1, ns |-> ns, parent |-> update.parent, full |-> full,
                        by |-> NoRun, gen |-> 0]}]
                /\ run' = WithoutBaselines(t)
           ELSE UNCHANGED <<last, cps, run>>
        /\ update' = NoUpdate
        /\ UNCHANGED <<exists, writes, copy, ops, spoiled>>

-----------------------------------------------------------------------------
(* Rollback *)

\* Faulty variant of Newest: the captures are not compared.
NewestEver(r) == TRUE

\* No other run of the thread has started since.
Newest(r) ==
    \A q \in On(ThreadOf[r]) \ {r} : run[q].base.at < run[r].base.at

\* rollback_run: nothing but the run itself has changed what it found.
RollbackAllowed(r) ==
    LET t == ThreadOf[r]
    IN  /\ Lives(r) /\ t \in exists
        /\ ~Busy(On(t) \ {r})
        /\ IF run[r].base.at = 0
           THEN run[r].gen = 0 /\ run[r].status \in {"pending", "stopped"}
           ELSE /\ \A c \in cps[t] : c \in run[r].base.cps \/ c.by = r
                /\ Newest(r)

RollbackRun(r) ==
    LET t == ThreadOf[r]
        base == run[r].base
    IN  /\ cps' = [cps EXCEPT ![t] = IF base.at > 0 THEN base.cps ELSE @]
        /\ writes' = [writes EXCEPT ![t] = IF base.at > 0 THEN base.writes ELSE @]
        /\ run' = [run EXCEPT ![r] = [NoRow EXCEPT !.status = "gone"]]
        /\ spoiled' = (spoiled \/ (InUse(t) /\ cps' # cps))

\* _cancel_row: at once, or when the worker has given up the run.
RequestRollback(r) ==
    /\ RollbackAllowed(r)
    /\ IF run[r].status # "running" THEN RollbackRun(r)
       ELSE /\ run' = [run EXCEPT ![r].status = "stopped", ![r].live = FALSE,
                                  ![r].rollback = TRUE]
            /\ UNCHANGED <<cps, writes, spoiled>>
    /\ UNCHANGED <<exists, update, copy, last, ops>>

\* complete_rollbacks, once the worker has stopped (RunStore: RollbackReady).
CompleteRollback(r) ==
    /\ run[r].rollback
    /\ RollbackAllowed(r)
    /\ RollbackRun(r)
    /\ UNCHANGED <<exists, update, copy, last, ops>>

-----------------------------------------------------------------------------
(* Maintenance *)

\* A set with the checkpoint id of S in which every difference has its parent, if the
\* parent is there.
Readable(S, id, X) ==
    /\ \A c \in S : c.id = id => c \in X
    /\ \A c \in X : ~c.full => \A d \in S : d.id = c.parent => d \in X

\* A checkpoint with the ancestors that are needed to read it, and no others: up to
\* the first full one, as far as they are there.
Chain(S, id) == {c \in S : \A X \in SUBSET S : Readable(S, id, X) => c \in X}

\* Faulty variant of Kept: only the heads are kept.
KeptHeads(S) == {c \in S : c.id = HeadId(S, c.ns)}

\* prune_checkpoints: what the head of each namespace needs.
Kept(S) == UNION {Chain(S, HeadId(S, ns)) : ns \in Namespaces}

\* threads_prune, keep_latest
Prune(t) ==
    /\ Counted
    /\ t \in exists
    /\ ~Busy(On(t))
    /\ cps' = [cps EXCEPT ![t] = Kept(@)]
    /\ writes' = [writes EXCEPT ![t] = {w \in @ : w.id \in IdsOf(Kept(cps[t]))}]
    /\ run' = WithoutBaselines(t)
    /\ spoiled' = (spoiled \/ (InUse(t) /\ Kept(cps[t]) # cps[t]))
    /\ UNCHANGED <<exists, update, copy, last>>

\* threads_delete: the row of the thread goes first.
ThreadsDelete(t) ==
    /\ Counted
    /\ t \in exists
    /\ exists' = exists \ {t}
    /\ run' = WithoutBaselines(t)
    /\ UNCHANGED <<cps, writes, update, copy, last, spoiled>>

\* delete_thread_checkpoints, in a transaction of its own.
DeleteCheckpoints(t) ==
    /\ t \notin exists /\ cps[t] # {} /\ (copy.to = t => copy.pc # "put")
    /\ cps' = [cps EXCEPT ![t] = {}]
    /\ writes' = [writes EXCEPT ![t] = {}]
    /\ spoiled' = (spoiled \/ InUse(t))
    /\ UNCHANGED <<exists, run, update, copy, last, ops>>

\* threads_copy: the row of the new thread is committed.
CopyStart(t, u) ==
    /\ Counted
    /\ copy.pc = "none" /\ t \in exists /\ u \notin exists /\ u # First
    /\ exists' = exists \cup {u}
    /\ copy' = [NoCopy EXCEPT !.pc = "list", !.from = t, !.to = u]
    /\ UNCHANGED <<cps, writes, run, update, last, spoiled>>

\* alist: one statement reads all.
CopyList ==
    /\ copy.pc = "list"
    /\ copy' = [copy EXCEPT !.pc = "put", !.todo = cps[copy.from], !.left = writes[copy.from]]
    /\ UNCHANGED <<exists, cps, writes, run, update, last, ops, spoiled>>

\* items.sort: the oldest first, so that a parent is there before its child.
NextRow(c) == \A d \in copy.todo : c.id <= d.id

\* The writes of the checkpoints that are already there.
Due == {w \in copy.left : w.id \notin IdsOf(copy.todo)}

\* aput of the next checkpoint, with its parent.
CopyPut ==
    /\ copy.pc = "put" /\ Due = {}
    /\ NoWriter(copy.to)
    /\ \E c \in copy.todo :
          /\ NextRow(c)
          /\ cps' = [cps EXCEPT ![copy.to] = @ \cup {c}]
          /\ copy' = [copy EXCEPT !.todo = @ \ {c}]
    /\ run' = WithoutBaselines(copy.to)
    /\ UNCHANGED <<exists, writes, update, last, ops, spoiled>>

\* aput_writes of one of its pending writes.
CopyWrite ==
    /\ copy.pc = "put"
    /\ NoWriter(copy.to)
    /\ \E w \in Due :
          /\ writes' = [writes EXCEPT ![copy.to] = @ \cup {w}]
          /\ copy' = [copy EXCEPT !.left = @ \ {w}]
    /\ run' = WithoutBaselines(copy.to)
    /\ UNCHANGED <<exists, cps, update, last, ops, spoiled>>

CopyDone ==
    /\ copy.pc = "put" /\ copy.todo = {} /\ copy.left = {}
    /\ copy' = [copy EXCEPT !.pc = "done"]
    /\ UNCHANGED <<exists, cps, writes, run, update, last, ops, spoiled>>

\* The fence refuses, or PostgreSQL fails: the row of the new thread is deleted,
\* unless the process is gone too.
CopyFails(dead) ==
    /\ copy.pc \in {"list", "put"}
    /\ copy' = [NoCopy EXCEPT !.pc = "failed", !.to = copy.to]
    /\ exists' = IF dead THEN exists ELSE exists \ {copy.to}
    /\ run' = IF dead THEN run ELSE WithoutBaselines(copy.to)
    /\ UNCHANGED <<cps, writes, update, last, ops, spoiled>>

-----------------------------------------------------------------------------
(* The specification *)

Init ==
    /\ exists = {First}
    /\ cps = [t \in Threads |-> {}] /\ writes = [t \in Threads |-> {}]
    /\ run = [r \in Runs |-> NoRow]
    /\ update = NoUpdate /\ copy = NoCopy
    /\ last = 0 /\ ops = 0 /\ spoiled = FALSE

RunStep(r) ==
    \/ Create(r) \/ Claim(r) \/ LeaseExpires(r) \/ Requeue(r) \/ Stop(r) \/ RunsDelete(r)
    \/ \E g \in 1..MaxGen, ns \in Namespaces :
          PutWrites(r, g, ns) \/ \E full \in BOOLEAN : Put(r, g, ns, full)
    \/ RequestRollback(r) \/ CompleteRollback(r)

Next ==
    \/ \E r \in Runs : RunStep(r)
    \/ \E t \in Threads :
          \/ \E c \in 0..MaxId : UpdateRead(t, c)
          \/ Prune(t) \/ ThreadsDelete(t) \/ DeleteCheckpoints(t)
          \/ \E u \in Threads : CopyStart(t, u)
    \/ \E ns \in Namespaces, full \in BOOLEAN : UpdateWrite(ns, full)
    \/ CopyList \/ CopyPut \/ CopyWrite \/ CopyDone
    \/ \E dead \in BOOLEAN : CopyFails(dead)

Spec == Init /\ [][Next]_vars

-----------------------------------------------------------------------------
(* Properties *)

\* The newest state of a thread can always be read: from the head of a namespace
\* the parents lead to a full checkpoint or to the first one, through prunings,
\* rollbacks and half-finished copies.  It takes that nothing was removed under a
\* state update that had read it, or from the target of a running copy.
HeadReadable ==
    ~spoiled =>
        \A t \in exists, ns \in Namespaces :
            HeadId(cps[t], ns) > 0 =>
                \E c \in Chain(cps[t], HeadId(cps[t], ns)) : c.full \/ c.parent = 0

\* The checkpoints of one attempt follow each other: no other run, no earlier
\* attempt of the same run and no state update comes between two of them.  (A
\* thread that a copy writes to receives checkpoints with the ids of the source.)
AttemptsContiguous ==
    \A t \in Threads \ Targets : \A c, d, e \in cps[t] :
        /\ c.id < d.id /\ d.id < e.id
        /\ c.by \in On(t) /\ <<c.by, c.gen>> = <<e.by, e.gen>>
        => <<d.by, d.gen>> = <<c.by, c.gen>>

Gone(r) == run[r].status # "gone" /\ run'[r].status = "gone"

\* A later attempt kept the baseline of an earlier one.
Retried(q) == run[q].base.at > 0 /\ run[q].gen > run[q].base.gen

\* What the end of r does to its thread: what disappears was written by the run (or
\* is a pending write of a run that was deleted, and its baseline with it, or of one
\* that was overtaken before it was retried, and whose baseline is not the latest),
\* nothing that was removed before comes back, and if the baseline is that of the
\* first attempt, nothing of the run remains.
TakesOwn(r) ==
    LET t == ThreadOf[r]
    IN  /\ cps'[t] \subseteq cps[t] /\ writes'[t] \subseteq writes[t]
        /\ \A c \in cps[t] \ cps'[t] : c.by = r
        /\ \A w \in writes[t] \ writes'[t] : w.by = r \/ ~Lives(w.by) \/ Retried(w.by)
        /\ run[r].base.gen = 1 /\ <<cps', writes'>> # <<cps, writes>> =>
              \A c \in cps'[t] \cup writes'[t] : c.by # r

\* A rollback takes back the run and nothing else.
RollbackOwn == [][\A r \in Runs : Gone(r) => TakesOwn(r)]_vars

=============================================================================
