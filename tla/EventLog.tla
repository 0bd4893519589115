------------------------------ MODULE EventLog ------------------------------
(***************************************************************************)
(* The durable event log: runtime_events with the cursors kept in the run  *)
(* and thread rows (record_event, record_message_deltas), the retention    *)
(* that prunes it (prune_expired_events), the deletions that cascade into  *)
(* it, and a client that follows a thread with Last-Event-ID               *)
(* (streaming.py, thread_stream).                                          *)
(*                                                                         *)
(* A writer locks the run and the thread row, so an append is one step.    *)
(* The finalisation of a run is two: it loads both rows before it calls    *)
(* RunRepository.finish, and the locking SELECT of record_event keeps the  *)
(* loaded event_seq.                                                       *)
(***************************************************************************)
EXTENDS Integers, FiniteSets

CONSTANTS
    Runs,       \* run ids; a uuid is used once
    Threads,    \* thread ids
    NoThread,   \* thread_id of a threadless run
    NoRun,      \* no finalisation is under way
    ThreadOf,   \* the thread of a run
    Slots,      \* execution slots that finalise a run
    Followed,   \* the thread the client follows
    BatchSize,  \* most deltas of one flush and rows of one pruning batch
    SeqBound    \* bound on sequence numbers

ASSUME EventConstants ==
    /\ NoThread \notin Threads
    /\ NoRun \notin Runs
    /\ ThreadOf \in [Runs -> Threads \cup {NoThread}]
    /\ Followed \in Threads
    /\ BatchSize \in Nat
    /\ SeqBound \in Nat

VARIABLES
    row,      \* what the log needs of the runs table
    ended,    \* runs with a terminal status, except those to be rolled back
    top,      \* what it needs of the threads table
    log,      \* the runtime_events table
    ever,     \* history: every <<run, sequence>> ever committed
    tx,       \* finalisations that have loaded their rows
    client    \* the client that follows the thread Followed

vars == <<row, ended, top, log, ever, tx, client>>

-----------------------------------------------------------------------------
(* Rows *)

Seq0 == 0..SeqBound
Sequence == 1..SeqBound

\* event_seq and event_pruned_through of a run and of a thread.
Row == [exists : BOOLEAN, seq : Seq0, pruned : Seq0]
Event == [run : Runs, seq : Sequence, terminal : BOOLEAN]

\* The run and the event_seq values (of the run and of the thread) that a
\* finalisation goes by.
Tx == [run : Runs \cup {NoRun}, top : Seq0, row : Seq0]
NoTx == [run |-> NoRun, top |-> 0, row |-> 0]

\* `from` is the cursor of the first connection, `cursor` the last id received.
Client == [pc : {"off", "on", "expired"}, from : Seq0, cursor : Seq0,
           got : SUBSET (Runs \X Sequence)]

TypeOK ==
    /\ row \in [Runs -> Row]
    /\ ended \subseteq Runs
    /\ top \in [Threads -> Row]
    /\ log \subseteq Event
    /\ ever \subseteq Runs \X Sequence
    /\ tx \in [Slots -> Tx]
    /\ client \in Client

-----------------------------------------------------------------------------
(* Sequence numbers *)

Threaded(r) == ThreadOf[r] # NoThread

\* Two runs number their events together.
SameScope(q, r) == q = r \/ (Threaded(r) /\ ThreadOf[q] = ThreadOf[r])

\* The events that r shares its numbers with: its thread's, or its own.
Scope(r) == {e \in log : SameScope(e.run, r)}

\* record_event raises for a missing run or thread.
CanRecord(r) == row[r].exists /\ (Threaded(r) => top[ThreadOf[r]].exists)

\* Faulty variant of IsNext: the rows of the log are not consulted.
IsNextOfCounter(s, r, base) == s = base + 1

\* s is the next sequence number after the counters `base` and the log's rows.
IsNext(s, r, base) ==
    /\ s > base
    /\ \A e \in Scope(r) : s > e.seq
    /\ s = base + 1 \/ \E e \in Scope(r) : s = e.seq + 1

\* The counter an append to r starts from.
Counter(r) == IF Threaded(r) THEN top[ThreadOf[r]].seq ELSE row[r].seq

Greater(a, b) == IF a > b THEN a ELSE b

\* The events s .. last of r; the last one may be terminal.
Appended(r, s, last, terminal) ==
    {[run |-> r, seq |-> k, terminal |-> terminal /\ k = last] : k \in s..last}

HasTerminal(r) == \E e \in log : e.run = r /\ e.terminal

\* Faulty variant of SetCounters: the counter is left at the next free number.
SetCountersNext(r, s, own) ==
    /\ row' = [row EXCEPT ![r].seq = Greater(own, s + 1)]
    /\ top' = IF Threaded(r) THEN [top EXCEPT ![ThreadOf[r]].seq = s + 1] ELSE top

\* Both counters after an append that ended at sequence number s; `own` is
\* run.event_seq as the session sees it.
SetCounters(r, s, own) ==
    /\ row' = [row EXCEPT ![r].seq = Greater(own, s)]
    /\ top' = IF Threaded(r) THEN [top EXCEPT ![ThreadOf[r]].seq = s] ELSE top

\* n events of r are committed, numbered from the next number after `base` on.
Append(r, base, own, n, terminal) ==
    \E s \in Sequence :
        /\ IsNext(s, r, base)
        /\ s + n - 1 <= SeqBound
        /\ log' = log \cup Appended(r, s, s + n - 1, terminal)
        /\ ever' = ever \cup ({r} \X (s .. (s + n - 1)))
        /\ SetCounters(r, s + n - 1, own)

-----------------------------------------------------------------------------
(* Slots *)

\* record_event for an event that is not terminal.  Nothing fences it: a slot
\* that lost its claim still publishes, also for a run that has ended.
RecordEvent(r) ==
    /\ CanRecord(r)
    /\ Append(r, Counter(r), row[r].seq, 1, FALSE)
    /\ UNCHANGED <<ended, tx, client>>

\* record_message_deltas: one flush of the event buffer.
RecordMessageDeltas(r, n) ==
    /\ CanRecord(r)
    /\ Append(r, Greater(Counter(r), row[r].seq), row[r].seq, n, FALSE)
    /\ UNCHANGED <<ended, tx, client>>

\* The reaper, a cancellation or claim_next ends the run, in a session that
\* reads the rows under their locks.
End(r) ==
    /\ CanRecord(r)
    /\ r \notin ended
    /\ ended' = ended \cup {r}
    /\ IF HasTerminal(r)
       THEN UNCHANGED <<row, top, log, ever>>
       ELSE Append(r, Counter(r), row[r].seq, 1, TRUE)
    /\ UNCHANGED <<tx, client>>

\* run_once: the finalisation loads the run and the thread, unlocked.
Load(w, r) ==
    /\ tx[w].run = NoRun
    /\ CanRecord(r)
    /\ r \notin ended
    /\ tx' = [tx EXCEPT ![w] =
                 [run |-> r, row |-> row[r].seq,
                  top |-> IF Threaded(r) THEN top[ThreadOf[r]].seq ELSE 0]]
    /\ UNCHANGED <<row, ended, top, log, ever, client>>

\* The counter that the finalisation of slot w starts from: the loaded one.
Base(w) == IF Threaded(tx[w].run) THEN tx[w].top ELSE tx[w].row

\* finish or fail with n events, the last one terminal or that of a retry.  Both
\* decide on the loaded status, so the run may have ended in between: then it
\* keeps its terminal event, and only the events before are appended.
Finish(w, n, terminal) ==
    LET r == tx[w].run
        kept == terminal /\ HasTerminal(r)
    IN  /\ r # NoRun
        /\ CanRecord(r)
        /\ ended' = IF terminal THEN ended \cup {r} ELSE ended \ {r}
        /\ IF kept /\ n = 1
           THEN UNCHANGED <<row, top, log, ever>>
           ELSE IF kept
           THEN Append(r, Base(w), tx[w].row, n - 1, FALSE)
           ELSE Append(r, Base(w), tx[w].row, n, terminal)
        /\ tx' = [tx EXCEPT ![w] = NoTx]
        /\ UNCHANGED client

\* The transaction is rolled back: a row is gone, or the connection.
Abort(w) ==
    /\ tx[w].run # NoRun
    /\ tx' = [tx EXCEPT ![w] = NoTx]
    /\ UNCHANGED <<row, ended, top, log, ever, client>>

-----------------------------------------------------------------------------
(* Retention and deletion *)

\* Faulty variant of Watermark: the first event of the batch decides.
WatermarkFirst(batch, s) ==
    (\E e \in batch : e.seq = s) /\ (\A e \in batch : e.seq >= s)

\* The sequence number up to which a pruned batch forbids a cursor.
Watermark(batch, s) == (\E e \in batch : e.seq = s) /\ (\A e \in batch : e.seq <= s)

\* Faulty variant of PrunedTop: the last batch decides.
PrunedTopLast(t, s) == [top EXCEPT ![t].pruned = s]

\* threads.event_pruned_through never goes back.
PrunedTop(t, s) == [top EXCEPT ![t].pruned = Greater(@, s)]

\* The retention time is longer than any finalisation takes: an event that was
\* committed after slot w loaded its rows is not old yet.
OldEnough(e) ==
    \A w \in Slots :
        tx[w].run # NoRun /\ SameScope(tx[w].run, e.run) => e.seq <= Base(w)

\* Faulty variant of Prunable: retention takes the terminal event too.
PrunableAny(e, r) == e.run = r /\ OldEnough(e)

\* The events of r that retention may delete: never the terminal one.
Prunable(e, r) == e.run = r /\ ~e.terminal /\ OldEnough(e)

\* prune_expired_events: at most BatchSize old events of an ended run.
\* created_at is the start of the writing transaction, so the old events need
\* not be the ones with the lowest numbers.
Prune(r, batch) ==
    /\ row[r].exists /\ r \in ended
    /\ batch # {} /\ Cardinality(batch) <= BatchSize
    /\ \A e \in batch : Prunable(e, r)
    /\ log' = log \ batch
    /\ \E s \in Sequence :
          /\ Watermark(batch, s)
          /\ row' = [row EXCEPT ![r].pruned = Greater(@, s)]
          /\ top' = IF Threaded(r) THEN PrunedTop(ThreadOf[r], s) ELSE top
    /\ UNCHANGED <<ended, ever, tx, client>>

\* runs_delete and rollback_run: the events go with the run, no cursor moves.
DeleteRun(r) ==
    /\ row[r].exists
    /\ row' = [row EXCEPT ![r].exists = FALSE]
    /\ log' = {e \in log : e.run # r}
    /\ UNCHANGED <<ended, top, ever, tx, client>>

\* threads_delete: the events go with the thread, its runs stay.
DeleteThread(t) ==
    /\ top[t].exists
    /\ top' = [top EXCEPT ![t].exists = FALSE]
    /\ log' = {e \in log : ThreadOf[e.run] # t}
    /\ UNCHANGED <<row, ended, ever, tx, client>>

-----------------------------------------------------------------------------
(* The client *)

\* The rows _thread_events returns for the client's cursor.
Unread == {e \in log : ThreadOf[e.run] = Followed /\ e.seq > client.cursor}

\* thread_stream with a Last-Event-ID of the form c-0: on the first connection
\* any id, later the last one received.
Open(c) ==
    /\ client.pc = "off"
    /\ client.got # {} => c = client.cursor
    /\ client' = [client EXCEPT !.pc = "on", !.cursor = c,
                                !.from = IF client.got = {} THEN c ELSE @]
    /\ UNCHANGED <<row, ended, top, log, ever, tx>>

\* Faulty variant of Expired: only a cursor before the first event is refused.
ExpiredAtStart == client.cursor = 0 /\ top[Followed].pruned > 0

\* The cursor lies before what was pruned.
Expired == client.cursor < top[Followed].pruned

\* One pass of the loop: cursor_expired, or the unread rows in order.  The runs
\* are resumable and the stream modes show every event.  A connection that
\* breaks on the way leaves the client with the rows up to `upto`.
Poll(upto) ==
    /\ client.pc = "on"
    /\ top[Followed].exists
    /\ IF Expired
       THEN client' = [client EXCEPT !.pc = "expired"]
       ELSE /\ \E e \in Unread : e.seq = upto
            /\ client' = [client EXCEPT
                  !.cursor = upto,
                  !.got = @ \cup {<<e.run, e.seq>> : e \in {x \in Unread : x.seq <= upto}},
                  !.pc = IF \A e \in Unread : e.seq <= upto THEN "on" ELSE "off"]
    /\ UNCHANGED <<row, ended, top, log, ever, tx>>

\* The connection breaks between two passes.
Disconnect ==
    /\ client.pc = "on"
    /\ client' = [client EXCEPT !.pc = "off"]
    /\ UNCHANGED <<row, ended, top, log, ever, tx>>

-----------------------------------------------------------------------------
(* The specification *)

Init ==
    /\ row = [r \in Runs |-> [exists |-> TRUE, seq |-> 0, pruned |-> 0]]
    /\ ended = {}
    /\ top = [t \in Threads |-> [exists |-> TRUE, seq |-> 0, pruned |-> 0]]
    /\ log = {}
    /\ ever = {}
    /\ tx = [w \in Slots |-> NoTx]
    /\ client = [pc |-> "off", from |-> 0, cursor |-> 0, got |-> {}]

WriterStep ==
    \/ \E r \in Runs : RecordEvent(r) \/ End(r)
    \/ \E r \in Runs, n \in 2..BatchSize : RecordMessageDeltas(r, n)
    \/ \E w \in Slots, r \in Runs : Load(w, r)
    \/ \E w \in Slots, n \in 1..2, terminal \in BOOLEAN : Finish(w, n, terminal)
    \/ \E w \in Slots : Abort(w)

PruneStep == \E r \in Runs, batch \in SUBSET log : Prune(r, batch)

ClientStep ==
    \/ \E c \in Seq0 : Open(c)
    \/ \E upto \in Sequence : Poll(upto)
    \/ Disconnect

DeleteStep ==
    \/ \E r \in Runs : DeleteRun(r)
    \/ \E t \in Threads : DeleteThread(t)

Next == WriterStep \/ PruneStep \/ DeleteStep \/ ClientStep
Spec == Init /\ [][Next]_vars

\* The log by itself: the client only reads.
NextLog == WriterStep \/ PruneStep \/ DeleteStep
SpecLog == Init /\ [][NextLog]_vars

\* The system while no run or thread is deleted.
NextKept == WriterStep \/ PruneStep \/ ClientStep
SpecKept == Init /\ [][NextKept]_vars

-----------------------------------------------------------------------------
(* Properties *)

\* No two stored events of a thread, or of a threadless run, share a sequence
\* number: it is the SSE id by which clients resume, and only (run_id, sequence)
\* is unique in the schema.  Two finalisations on stale counters, zombies and
\* pruning must not collide.
SequenceUnique ==
    \A e, f \in log : e.seq = f.seq /\ SameScope(e.run, f.run) => e = f

\* An ended run has its terminal event, and no run ever has two: neither a
\* second finalisation, nor a retry of a run that had ended, nor retention
\* changes that, so a reader of the log finds out how the run ended.
TerminalOnce ==
    /\ \A e, f \in log : e.terminal /\ f.terminal /\ e.run = f.run => e = f
    /\ \A r \in ended : CanRecord(r) => HasTerminal(r)

Stored(x) == \E e \in log : e.run = x[1] /\ e.seq = x[2]

\* A run stream resumed at or after runs.event_pruned_through can be replayed
\* in full: every event of the run beyond that cursor is still stored.
RunReplayComplete ==
    \A x \in ever : CanRecord(x[1]) /\ x[2] > row[x[1]].pruned => Stored(x)

\* The same for a thread stream and threads.event_pruned_through, whichever runs
\* of the thread were pruned in whichever order.
ThreadReplayComplete ==
    \A x \in ever :
        Threaded(x[1]) /\ CanRecord(x[1]) /\ x[2] > top[ThreadOf[x[1]]].pruned => Stored(x)

\* A client that reconnects with its last id, over any number of connections
\* and prunings, either is told cursor_expired or has every event committed
\* between its first cursor and its last: nothing is skipped silently.
FollowerComplete ==
    client.pc # "expired" =>
        \A x \in ever :
            ThreadOf[x[1]] = Followed /\ client.from < x[2] /\ x[2] <= client.cursor
                => x \in client.got

\* A sequence number is greater than all those given out before on its thread:
\* record_event appends a "monotonic event cursor".
SequenceMonotone ==
    [][\A x \in ever' \ ever : \A y \in ever : SameScope(y[1], x[1]) => x[2] > y[2]]_vars

=============================================================================
