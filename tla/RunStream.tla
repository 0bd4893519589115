----------------------------- MODULE RunStream ------------------------------
(***************************************************************************)
(* One client follows one run (streaming.py, _run_sse): the stream first   *)
(* registers a live queue, then replays the event log, looks at the status *)
(* of the run, and then forwards what Redis delivers until the terminal    *)
(* event.  A connection that breaks is resumed with Last-Event-ID.         *)
(*                                                                         *)
(* The events of the run are the numbers 1..n in the order of their        *)
(* commits; EventLog is about how they get their numbers and about         *)
(* retention, which is left out here, EventBuffer about how the worker     *)
(* comes to commit them.  The run is resumable and the stream shows every  *)
(* frame (version v3).                                                     *)
(***************************************************************************)
EXTENDS Integers, Sequences, SequencesExt

CONSTANTS
    Publishers,   \* processes that commit and fan out events of the run
    Local,        \* those among them that are the client's API process
    MaxEvents,    \* most rows the log of the run can get
    MaxBreaks     \* bound on the connections that break

ASSUME StreamConstants ==
    /\ Local \subseteq Publishers
    /\ MaxEvents \in Nat
    /\ MaxBreaks \in Nat

VARIABLES
    n,        \* events committed
    term,     \* number of the terminal event; 0 while the run has not ended
    out,      \* committed events each publisher has not fanned out yet
    store,    \* message_stores of the client's process
    reader,   \* the connection
    got,      \* history: the frames the client received, over all connections
    clean,    \* history: so far every event was fanned out, in the order of commits
    breaks    \* connections that broke

streamVars == <<n, term, out, store, reader, got, clean, breaks>>

Events == 1..MaxEvents

\* pc: "off" before a connection; "replay", "check" and "live" are the phases
\* of body(); the others are the three places where it returns.
Open == {"replay", "check", "live"}
Closed == {"ended", "drained", "finished"}

StreamTypeOK ==
    /\ n \in 0..MaxEvents
    /\ term \in 0..n
    /\ out \in [Publishers -> Seq(Events)]
    /\ store \in Seq(Events)
    /\ reader \in [pc : {"off"} \cup Open \cup Closed, from : 0..MaxEvents,
                   cursor : 0..MaxEvents, queue : Seq(Events), seen : SUBSET Events]
    /\ got \in Seq(Events)
    /\ clean \in BOOLEAN
    /\ breaks \in 0..MaxBreaks

-----------------------------------------------------------------------------
(* Publishers *)

\* k events are committed; a terminal one ends the run.  Events may follow it: a
\* cancelled slot goes on until it notices.
Commit(p, k, terminal) ==
    /\ terminal => term = 0 /\ k = 1
    /\ n' = n + k
    /\ term' = IF terminal THEN n + 1 ELSE term
    /\ out' = [out EXCEPT ![p] = @ \o [i \in 1..k |-> n + i]]
    /\ UNCHANGED <<store, reader, got, clean, breaks>>

\* Faulty variant of Deliver: the queue is registered after the replay.
DeliverLate(k) ==
    reader' = IF reader.pc = "live"
              THEN [reader EXCEPT !.queue = Append(@, k)] ELSE reader

\* The message reaches the live queues that are registered in the process.
Deliver(k) ==
    reader' = IF reader.pc \in Open
              THEN [reader EXCEPT !.queue = Append(@, k)] ELSE reader

\* StreamManager.put and put_batch: a publisher fans its events out in order.
\* Only its own process keeps them for queues that are added later.
Publish(p) ==
    /\ out[p] # <<>>
    /\ out' = [out EXCEPT ![p] = Tail(@)]
    /\ store' = IF p \in Local THEN Append(store, Head(out[p])) ELSE store
    /\ Deliver(Head(out[p]))
    /\ clean' = (clean /\ ~\E q \in Publishers, k \in Events :
                             k < Head(out[p]) /\ Contains(out[q], k))
    /\ UNCHANGED <<n, term, got, breaks>>

\* "event transport unavailable": the event stays in the log only.
Lose(p) ==
    /\ out[p] # <<>>
    /\ out' = [out EXCEPT ![p] = Tail(@)]
    /\ clean' = FALSE
    /\ UNCHANGED <<n, term, store, reader, got, breaks>>

-----------------------------------------------------------------------------
(* The stream *)

\* A request with cursor c: at first any id, then the last one received.
\* add_queue registers a queue that starts with the process's own messages.
Connect(c) ==
    /\ reader.pc = "off"
    /\ IF got = <<>> THEN c \in 0..n ELSE c = Last(got)
    /\ reader' = [pc |-> "replay", from |-> IF got = <<>> THEN c ELSE reader.from,
                  cursor |-> c, queue |-> store, seen |-> {}]
    /\ UNCHANGED <<n, term, out, store, got, clean, breaks>>

\* emit_envelope skips what lies before the cursor or was sent already.
Wanted(k) == k > reader.cursor /\ k \notin reader.seen

\* Frames are sent in the order of their numbers.
Nth(S, i) == CHOOSE k \in S : Cardinality({j \in S : j <= k}) = i
InOrder(S) == [i \in 1..Cardinality(S) |-> Nth(S, i)]

\* The rows are sent and the stream goes on at `next` with the queue q.
Emit(rows, next, q) ==
    LET new == {k \in rows : Wanted(k)}
    IN  /\ reader' = [reader EXCEPT !.pc = next, !.queue = q, !.seen = @ \cup new]
        /\ got' = got \o InOrder(new)

\* The rows of the log after number c.
Rows(c) == (c + 1)..n

\* _run_replay: everything after the cursor.
Replay ==
    /\ reader.pc = "replay"
    /\ Emit(Rows(reader.cursor), "check", reader.queue)
    /\ UNCHANGED <<n, term, out, store, clean, breaks>>

\* The status is read again, in another transaction.
Check ==
    /\ reader.pc = "check"
    /\ reader' = [reader EXCEPT !.pc = IF term # 0 THEN "ended" ELSE "live"]
    /\ UNCHANGED <<n, term, out, store, got, clean, breaks>>

\* A live message; the terminal one ends the stream.
Receive ==
    /\ reader.pc = "live"
    /\ reader.queue # <<>>
    /\ LET k == Head(reader.queue)
       IN  Emit({k}, IF k = term THEN "finished" ELSE "live", Tail(reader.queue))
    /\ UNCHANGED <<n, term, out, store, clean, breaks>>

\* Faulty variant of TailFrom: the first row of the tail is skipped.
TailFromNext == (IF reader.seen = {} THEN reader.cursor ELSE Max(reader.seen)) + 1

\* max(seen or {cursor})
TailFrom == IF reader.seen = {} THEN reader.cursor ELSE Max(reader.seen)

\* Faulty variant of TickSeesEnd: the heartbeat does not look at the run.
TickSeesNothing == FALSE

\* The heartbeat reads the status of the run.
TickSeesEnd == term # 0

\* No message for a heartbeat: if the run has ended, the rest of the log is sent.
Tick ==
    /\ reader.pc = "live"
    /\ reader.queue = <<>>
    /\ TickSeesEnd
    /\ Emit(Rows(TailFrom), "drained", <<>>)
    /\ UNCHANGED <<n, term, out, store, clean, breaks>>

\* The connection breaks, or the stream times out.
Break ==
    /\ reader.pc \in Open
    /\ breaks < MaxBreaks
    /\ breaks' = breaks + 1
    /\ reader' = [reader EXCEPT !.pc = "off", !.queue = <<>>]
    /\ UNCHANGED <<n, term, out, store, got, clean>>

-----------------------------------------------------------------------------
(* The component *)

StreamInit ==
    /\ n = 0 /\ term = 0
    /\ out = [p \in Publishers |-> <<>>]
    /\ store = <<>>
    /\ reader = [pc |-> "off", from |-> 0, cursor |-> 0, queue |-> <<>>, seen |-> {}]
    /\ got = <<>>
    /\ clean = TRUE
    /\ breaks = 0

Connects == \E c \in 0..MaxEvents : Connect(c)

\* The connection goes on.
ReaderStep == Replay \/ Check \/ Receive \/ Tick

\* Everything but the commits.
StreamStep ==
    \/ \E p \in Publishers : Publish(p) \/ Lose(p)
    \/ Connects \/ ReaderStep \/ Break

-----------------------------------------------------------------------------
(* Properties *)

\* While Redis works and the publishers do not overtake one another, the client
\* gets the numbers after its first cursor one by one, without a gap, a repetition
\* or a swap, across the hand-over from replay to live and across reconnections.
Contiguous == clean => \A i \in 1..Len(got) : got[i] = reader.from + i

\* All events up to the terminal one that the client asked for.
AllSent == \A k \in (reader.from + 1)..term : Contains(got, k)

\* In the same circumstances a stream that went live has sent everything when it
\* closes: by the terminal event, or by the tail of the log that a heartbeat reads.
\* (One that finds the run ended when it checks the status has not: what was
\* committed between its replay and the check is missing.)
LiveComplete == clean /\ reader.pc \in {"drained", "finished"} => AllSent

=============================================================================
