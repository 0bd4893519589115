----------------------------- MODULE EventBuffer -----------------------------
(***************************************************************************)
(* From the graph to the client: how an execution publishes what its graph *)
(* emits (production_worker.py), with the log, the fan-out and the client  *)
(* of RunStream behind it.  Message deltas go through _StreamEventBuffer,  *)
(* which writes them in batches; other events flush it first.  The graph,  *)
(* the timer of the buffer and a cancellation of the execution interleave  *)
(* at every await.                                                         *)
(*                                                                         *)
(* The events of the graph are the numbers 1..made; a row of the log holds *)
(* one of them, or 0 for the terminal event.                               *)
(***************************************************************************)
EXTENDS RunStream

CONSTANTS
    Worker,      \* the process of the execution
    Api,         \* the process that may cancel the run
    BatchSize,   \* deltas that make a batch (32)
    MaxMade      \* bound on the events of the graph

ASSUME BufferConstants ==
    /\ Publishers = {Worker, Api}
    /\ BatchSize \in Nat \ {0}
    /\ MaxMade \in Nat
    /\ MaxEvents >= 2 * MaxMade + 1

VARIABLES
    made,      \* events the graph has emitted
    other,     \* the last of them is not a delta and waits for the flush
    pending,   \* deltas in the buffer
    flush,     \* the publication under way: by whom, and whether it has committed
    timer,     \* whether the timer of the buffer is set
    error,     \* a publication of the buffer failed
    exec,      \* the execution
    strike,    \* where execution.cancel() struck, and what became of the last flush
    log        \* the contents of the rows 1..n

bufferVars == <<made, other, pending, flush, timer, error, exec, strike, log>>
vars == <<streamVars, bufferVars>>

Idle == [by |-> "none", committed |-> FALSE]
Begin(who) == [by |-> who, committed |-> FALSE]

TypeOK ==
    /\ StreamTypeOK
    /\ made \in 0..MaxMade
    /\ other \in BOOLEAN
    /\ pending \in Seq(1..MaxMade) /\ Len(pending) <= BatchSize
    /\ flush \in [by : {"none", "graph", "other", "timer", "final"}, committed : BOOLEAN]
    /\ timer \in BOOLEAN /\ error \in BOOLEAN
    /\ exec \in {"running", "final", "over", "ended"}
    /\ strike \in {"none", "graph", "saved", "lost"}
    /\ log \in Seq(0..MaxMade) /\ Len(log) = n

-----------------------------------------------------------------------------
(* The graph *)

\* The lock of the buffer is free.
Unlocked == flush.by = "none"

\* The graph may hand over an event.
Ready == exec = "running" /\ ~other /\ Unlocked /\ ~error /\ made < MaxMade

\* on_event with a delta: _StreamEventBuffer.add.
Add ==
    /\ Ready
    /\ made' = made + 1
    /\ pending' = Append(pending, made + 1)
    /\ IF Len(pending') >= BatchSize
       THEN flush' = Begin("graph") /\ UNCHANGED timer
       ELSE timer' = TRUE /\ UNCHANGED flush
    /\ UNCHANGED <<streamVars, other, error, exec, strike, log>>

\* Faulty variant of FlushFirst: the buffer is not flushed.
FlushNever == FALSE

\* Whether the buffer has to be flushed before another event.
FlushFirst == pending # <<>>

\* on_event with any other event: the buffer is flushed, its timer cancelled.
AddOther ==
    /\ Ready
    /\ made' = made + 1
    /\ other' = TRUE
    /\ flush' = IF FlushFirst THEN Begin("graph") ELSE Begin("other")
    /\ timer' = FALSE
    /\ UNCHANGED <<streamVars, pending, error, exec, strike, log>>

\* The graph returns or fails; an error of the buffer is raised into it.
GraphReturns ==
    /\ exec = "running" /\ flush.by \in {"none", "timer"}
    /\ exec' = "final"
    /\ UNCHANGED <<streamVars, made, other, pending, flush, timer, error, strike, log>>

-----------------------------------------------------------------------------
(* _publish_events *)

\* Faulty variant of TimerFires: a batch that is not full waits for more.
TimerWaits ==
    /\ timer /\ Unlocked
    /\ timer' = FALSE
    /\ UNCHANGED <<streamVars, made, other, pending, flush, error, exec, strike, log>>

\* _flush_after_delay
TimerFires ==
    /\ timer /\ Unlocked
    /\ timer' = FALSE
    /\ flush' = IF pending = <<>> THEN Idle ELSE Begin("timer")
    /\ UNCHANGED <<streamVars, made, other, pending, error, exec, strike, log>>

Batch == IF flush.by = "other" THEN <<made>> ELSE pending

\* The transaction commits the events, in their order.
FlushCommit ==
    /\ ~Unlocked /\ ~flush.committed
    /\ Commit(Worker, Len(Batch), FALSE)
    /\ log' = log \o Batch
    /\ flush' = [flush EXCEPT !.committed = TRUE]
    /\ UNCHANGED <<made, other, pending, timer, error, exec, strike>>

\* PostgreSQL fails.  The buffer keeps the error for its next caller; an event
\* outside the buffer is lost with the exception it raises.
FlushFails ==
    /\ ~Unlocked /\ ~flush.committed
    /\ flush' = Idle
    /\ error' = (error \/ flush.by # "other")
    /\ made' = IF other THEN made - 1 ELSE made
    /\ other' = FALSE
    /\ exec' = IF flush.by \in {"graph", "other"} THEN "final"
               ELSE IF flush.by = "final" THEN "over" ELSE exec
    /\ UNCHANGED <<streamVars, pending, timer, strike, log>>

\* What the buffer holds after a publication.
Kept == IF flush.by = "other" THEN pending ELSE <<>>

\* The fan-out (Publish, Lose) is over.
FlushDone ==
    /\ flush.committed
    /\ out[Worker] = <<>>
    /\ pending' = Kept
    /\ flush' = IF flush.by = "graph" /\ other THEN Begin("other") ELSE Idle
    /\ other' = (other /\ flush.by # "other")
    /\ exec' = IF flush.by = "final" THEN "over" ELSE exec
    /\ UNCHANGED <<streamVars, made, timer, error, strike, log>>

-----------------------------------------------------------------------------
(* Cancellation and the end *)

\* A publication the struck task runs itself is broken off; one of the timer is so
\* if the task waits in flush(), whose finally block cancels the timer.
Broken(cut) ==
    /\ cut => ~Unlocked
    /\ flush.by \in {"graph", "other", "final"} => cut

\* execution.cancel() strikes the task of the execution, once, at the await it has
\* reached: the graph, which goes on to the last flush, or that flush, which ends
\* without an error.  A fan-out is broken off and what was published stays in the
\* buffer.  A transaction that is being committed may go through all the same.
Strike(cut, through) ==
    LET stored == through \/ flush.committed
    IN  /\ exec \in {"running", "final"} /\ strike = "none"
        /\ Broken(cut)
        /\ exec' = IF exec = "final" /\ cut THEN "over" ELSE "final"
        /\ strike' = IF exec' = "final" THEN "graph"
                     ELSE IF stored THEN "saved" ELSE "lost"
        /\ IF through
           THEN /\ cut /\ ~flush.committed
                /\ n' = n + Len(Batch)
                /\ log' = log \o Batch
                /\ UNCHANGED out
           ELSE /\ out' = [out EXCEPT ![Worker] = IF cut THEN <<>> ELSE @]
                /\ UNCHANGED <<n, log>>
        /\ clean' = (clean /\ ~through /\ out' = out)
        /\ flush' = IF cut THEN Idle ELSE flush
        /\ made' = IF other /\ ~(flush.by = "other" /\ stored) THEN made - 1 ELSE made
        /\ other' = FALSE
        /\ UNCHANGED <<term, store, reader, got, breaks, pending, timer, error>>

\* Faulty variant of FinalFlush: what is in the buffer is left there.
FinalSkip ==
    /\ exec = "final" /\ Unlocked
    /\ timer' = FALSE
    /\ exec' = "over"
    /\ UNCHANGED <<streamVars, made, other, pending, flush, error, strike, log>>

\* The finally block flushes the buffer and stops its timer.
FinalFlush ==
    /\ exec = "final" /\ Unlocked
    /\ timer' = FALSE
    /\ IF error \/ pending = <<>>
       THEN exec' = "over" /\ UNCHANGED flush
       ELSE flush' = Begin("final") /\ UNCHANGED exec
    /\ UNCHANGED <<streamVars, made, other, pending, error, strike, log>>

\* The terminal event, unless the run has one (RunStore is about who may write it).
RecordEnd ==
    /\ exec = "over" /\ Unlocked
    /\ exec' = "ended"
    /\ IF term = 0 THEN Commit(Worker, 1, TRUE) /\ log' = Append(log, 0)
                   ELSE UNCHANGED <<streamVars, log>>
    /\ UNCHANGED <<made, other, pending, flush, timer, error, strike>>

\* A request cancels the run; the execution finds out later (Strike).
CancelRequest ==
    /\ exec # "ended"
    /\ Commit(Api, 1, TRUE)
    /\ log' = Append(log, 0)
    /\ UNCHANGED <<made, other, pending, flush, timer, error, exec, strike>>

-----------------------------------------------------------------------------
(* The specification *)

Init ==
    /\ StreamInit
    /\ made = 0 /\ other = FALSE /\ pending = <<>> /\ flush = Idle /\ timer = FALSE
    /\ error = FALSE /\ exec = "running" /\ strike = "none" /\ log = <<>>

Publication == TimerFires \/ FlushCommit \/ FlushFails \/ FlushDone

Next ==
    \/ StreamStep /\ UNCHANGED bufferVars
    \/ Add \/ AddOther \/ GraphReturns
    \/ Publication
    \/ \E cut, through \in BOOLEAN : Strike(cut, through)
    \/ FinalFlush \/ RecordEnd \/ CancelRequest

Spec == Init /\ [][Next]_vars

\* The worker's event loop runs the timer, the publication under way and the
\* finally block, and calls to Redis return or fail; the API process runs body()
\* with its heartbeat, and the client reconnects.  Nothing is assumed of the graph.
Fairness ==
    /\ WF_vars(Publication)
    /\ WF_vars(FinalFlush \/ RecordEnd)
    /\ WF_vars((Publish(Worker) \/ Lose(Worker)) /\ UNCHANGED bufferVars)
    /\ WF_vars(Connects /\ UNCHANGED bufferVars)
    /\ WF_vars(ReaderStep /\ UNCHANGED bufferVars)

FairSpec == Spec /\ Fairness

-----------------------------------------------------------------------------
(* Properties *)

Before(i, e) == \E j \in 1..(i - 1) : log[j] = e

\* The log has the events in the order in which the graph emitted them, whoever
\* publishes them, the graph, the timer or the last flush: a row is preceded by
\* all events before its own.
LogInOrder ==
    \A i \in 1..Len(log) : \A e \in 1..(log[i] - 1) : Before(i, e)

\* The flush barrier: when the execution is over, whatever the graph has emitted is
\* in the log, unless PostgreSQL failed or execution.cancel() struck the last flush
\* before it was stored; also when it struck in the middle of another publication.
EndComplete ==
    exec \in {"over", "ended"} /\ ~error /\ strike # "lost" =>
        \A e \in 1..made : Contains(log, e)

\* Every delta in the buffer gets into the log, although the graph may be silent for
\* ever and only the first delta sets the timer.
BufferDrains ==
    \A e \in 1..MaxMade :
        Contains(pending, e) ~> Contains(log, e) \/ error \/ strike = "lost"

\* Once the graph is done or cancelled the client's stream ends, also when the
\* buffer failed, or when Redis lost the terminal message: the heartbeat finds out.
StreamEnds == exec # "running" ~> reader.pc \in Closed

=============================================================================
