---------------------------- MODULE StreamManager ----------------------------
(***************************************************************************)
(* The Redis transport of one run (redis_stream.py): StreamManager in each *)
(* process, with its buffer, the ids it has seen and its control key; the  *)
(* Redis stream, control key and fan-out channel they share; a reader that *)
(* subscribes and joins (ops.py, Runs.Stream) and a listener for           *)
(* cancellation.                                                           *)
(*                                                                         *)
(* A message of a process reaches its own queues directly and once more as *)
(* the echo of the channel, which the seen ids drop.  Ids are ms-seq: a    *)
(* resumable message has the one that XADD returns, any other one that its *)
(* process generates, so two sources can generate the same id.             *)
(***************************************************************************)
EXTENDS Integers, Sequences, SequencesExt

CONSTANTS
    Procs,        \* processes with a StreamManager
    Tasks,        \* callers of put and put_batch
    Cancellers,   \* those of them that cancel
    ProcOf,       \* the process of a task
    ReaderAt,     \* the process of the reader
    ListenerAt,   \* the process of the listener
    BatchSize,    \* most messages of one put_batch
    MaxPuts,      \* bound on messages
    BufferCap,    \* messages kept in a local buffer (2_000)
    SeenCap,      \* ids kept by _SeenIds (10_000)
    MaxId,        \* bound on ids
    MaxBreaks     \* bound on lost subscriptions, reconnections and retries of the run

ASSUME StreamManagerConstants ==
    /\ ProcOf \in [Tasks -> Procs] /\ Cancellers \subseteq Tasks
    /\ ReaderAt \in Procs /\ ListenerAt \in Procs
    /\ BufferCap \in Nat \ {0} /\ SeenCap \in Nat \ {0}
    /\ BatchSize \in Nat \ {0} /\ MaxPuts \in Nat /\ MaxId \in Nat /\ MaxBreaks \in Nat

VARIABLES
    resumable,  \* stream_resumable of the run
    issued,     \* ids that each source has generated
    stream,     \* the Redis stream
    redisKey,   \* whether Redis has a control key
    store,      \* message_stores
    seen,       \* _seen_ids, oldest first
    key,        \* control_keys
    up,         \* the subscription of the mux is established
    chan,       \* messages on their way to the mux
    task,       \* calls of put and put_batch under way
    reader,     \* Runs.Stream.subscribe and join
    listener,   \* listen_for_cancellation
    done,       \* history: messages whose put returned
    breaks,     \* lost subscriptions, reconnections and retries
    puts        \* messages so far

vars == <<resumable, issued, stream, redisKey, store, seen, key, up, chan, task, reader,
          listener, done, breaks, puts>>

Redis == "redis"
Sources == Procs \cup {Redis}
Ids == 1..MaxId

\* A control message cancels the run; n tells messages apart.
Message == [n : 1..MaxPuts, control : BOOLEAN, id : Ids]

\* A call of put or put_batch.
Call == [pc : {"idle", "buffer", "key", "publish"}, msgs : Seq(Message)]

\* cursor -1: no Last-Event-ID; whole: no message was lost since registration;
\* before: messages that a queue registered now does not get.
Reader == [pc : {"off", "restore", "live"}, cursor : -1..MaxId, queue : Seq(Message),
           emitted : SUBSET Ids, latest : -1..MaxId, whole : BOOLEAN, before : SUBSET Message]

\* since: messages put before the worker last left the run; drop: its buffer is
\* about to be dropped.
Listener == [pc : {"off", "hydrate", "on"}, heard : BOOLEAN, whole : BOOLEAN,
             since : 0..MaxPuts, drop : BOOLEAN]

NoReader == [pc |-> "off", cursor |-> -1, queue |-> <<>>, emitted |-> {}, latest |-> -1,
             whole |-> TRUE, before |-> {}]
NoListener == [pc |-> "off", heard |-> FALSE, whole |-> TRUE, since |-> 0, drop |-> FALSE]
NoTask == [pc |-> "idle", msgs |-> <<>>]

TypeOK ==
    /\ resumable \in BOOLEAN
    /\ issued \in [Sources -> SUBSET Ids]
    /\ stream \in Seq(Message)
    /\ store \in [Procs -> Seq(Message)]
    /\ \A p \in Procs : Len(store[p]) <= BufferCap /\ Len(seen[p]) <= SeenCap
    /\ seen \in [Procs -> Seq(Ids)]
    /\ redisKey \in BOOLEAN /\ key \in [Procs -> BOOLEAN]
    /\ up \in [Procs -> BOOLEAN]
    /\ chan \in [Procs -> Seq(Message)]
    /\ task \in [Tasks -> Call]
    /\ reader \in Reader /\ listener \in Listener
    /\ done \subseteq Message
    /\ breaks \in 0..MaxBreaks
    /\ puts \in 0..MaxPuts

-----------------------------------------------------------------------------
(* Buffers *)

\* The newest messages of a local buffer.
Capped(s) == IF Len(s) > BufferCap THEN SubSeq(s, Len(s) - BufferCap + 1, Len(s)) ELSE s

\* _SeenIds.add: when full, the older half is forgotten.
Remember(ids, id) ==
    LET s == Append(ids, id)
    IN  IF Len(s) > SeenCap THEN SubSeq(s, Len(s) \div 2 + 1, Len(s)) ELSE s

\* _mark_seen, message by message: the ids seen afterwards and the messages that
\* are new.  Run and control messages of a run are in one scope.
Marked(ids, ms) ==
    LET mark[j \in 0..Len(ms)] ==
            IF j = 0 THEN [seen |-> ids, new |-> <<>>]
            ELSE IF ms[j].id \in Range(mark[j - 1].seen) THEN mark[j - 1]
            ELSE [seen |-> Remember(mark[j - 1].seen, ms[j].id),
                  new |-> Append(mark[j - 1].new, ms[j])]
    IN  mark[Len(ms)]

IsControl(m) == m.control
IsFrame(m) == ~m.control

\* _deliver_local: to the queues or the listeners that are registered in p.  The
\* messages of one call are all controls or all frames.
Deliver(p, ms) ==
    LET mark == Marked(seen[p], ms)
        new(control) == mark.new # <<>> /\ IsControl(mark.new[1]) = control
    IN  /\ seen' = [seen EXCEPT ![p] = mark.seen]
        /\ reader' = IF p = ReaderAt /\ reader.pc # "off" /\ new(FALSE)
                     THEN [reader EXCEPT !.queue = @ \o mark.new] ELSE reader
        /\ listener' = IF p = ListenerAt /\ listener.pc # "off" /\ new(TRUE)
                       THEN [listener EXCEPT !.heard = TRUE] ELSE listener

-----------------------------------------------------------------------------
(* put and put_batch *)

\* XADD numbers the frames of a resumable run, the process all other messages.
Source(t, control) == IF resumable /\ ~control THEN Redis ELSE ProcOf[t]

\* k messages get their ids; frames of a resumable run are in the Redis stream now.
Put(t, control, k) ==
    LET s == Source(t, control)
    IN  /\ task[t].pc = "idle"
        /\ puts + k <= MaxPuts
        /\ puts' = puts + k
        /\ \E i \in 1..(MaxId - k + 1) :
              LET ms == [j \in 1..k |-> [n |-> puts + j, control |-> control, id |-> i + j - 1]]
              IN  /\ \A old \in issued[s] : old < i
                  /\ issued' = [issued EXCEPT ![s] = @ \cup i..(i + k - 1)]
                  /\ stream' = IF s = Redis THEN stream \o ms ELSE stream
                  /\ task' = [task EXCEPT ![t] = [pc |-> "buffer", msgs |-> ms]]
        /\ UNCHANGED <<resumable, redisKey, store, seen, key, up, chan, reader, listener,
                       done, breaks>>

\* Under the lock: buffered unless control, and delivered in the own process.
Buffer(t) ==
    LET p == ProcOf[t]
        ms == task[t].msgs
        control == IsControl(ms[1])
    IN  /\ task[t].pc = "buffer"
        /\ store' = IF control THEN store ELSE [store EXCEPT ![p] = Capped(@ \o ms)]
        /\ key' = [key EXCEPT ![p] = @ \/ control]
        /\ Deliver(p, ms)
        /\ task' = [task EXCEPT ![t].pc = IF control THEN "key" ELSE "publish"]
        /\ UNCHANGED <<resumable, issued, stream, redisKey, up, chan, done, breaks, puts>>

\* The control key in Redis, for listeners to come.
SetKey(t) ==
    /\ task[t].pc = "key"
    /\ redisKey' = TRUE
    /\ task' = [task EXCEPT ![t].pc = "publish"]
    /\ UNCHANGED <<resumable, issued, stream, store, seen, key, up, chan, reader, listener, done,
                   breaks, puts>>

\* To all processes that are subscribed, the own one included.
Publish(t) ==
    /\ task[t].pc = "publish"
    /\ chan' = [p \in Procs |-> IF up[p] THEN chan[p] \o task[t].msgs ELSE chan[p]]
    /\ done' = done \cup Range(task[t].msgs)
    /\ task' = [task EXCEPT ![t] = NoTask]
    /\ UNCHANGED <<resumable, issued, stream, redisKey, store, seen, key, up, reader, listener,
                   breaks, puts>>

\* Redis fails, or the caller is cancelled, at any of the round trips.
PutFails(t) ==
    /\ task[t].pc # "idle"
    /\ task' = [task EXCEPT ![t] = NoTask]
    /\ UNCHANGED <<resumable, issued, stream, redisKey, store, seen, key, up, chan, reader, listener,
                   done, breaks, puts>>

-----------------------------------------------------------------------------
(* The fan-out mux *)

\* _handle_run_fanout_message
Receive(p) ==
    /\ chan[p] # <<>>
    /\ LET m == Head(chan[p])
       IN  /\ Deliver(p, <<m>>)
           /\ key' = [key EXCEPT ![p] = @ \/ (IsControl(m) /\ m.id \notin Range(seen[p]))]
    /\ chan' = [chan EXCEPT ![p] = Tail(@)]
    /\ UNCHANGED <<resumable, issued, stream, redisKey, store, up, task, done, breaks, puts>>

\* The connection is lost, with what was on its way; pub/sub has no replay.
MuxDown(p) ==
    /\ up[p]
    /\ breaks < MaxBreaks
    /\ up' = [up EXCEPT ![p] = FALSE]
    /\ chan' = [chan EXCEPT ![p] = <<>>]
    /\ reader' = [reader EXCEPT !.whole = @ /\ p # ReaderAt]
    /\ listener' = [listener EXCEPT !.whole = @ /\ p # ListenerAt]
    /\ breaks' = breaks + 1
    /\ UNCHANGED <<resumable, issued, stream, redisKey, store, seen, key, task, done, puts>>

\* After the backoff the mux subscribes again.
MuxUp(p) ==
    /\ ~up[p]
    /\ up' = [up EXCEPT ![p] = TRUE]
    /\ UNCHANGED <<resumable, issued, stream, redisKey, store, seen, key, chan, task, reader,
                   listener, done, breaks, puts>>

-----------------------------------------------------------------------------
(* The reader *)

\* _run_join_accept
Accept(m) == m.id \notin reader.emitted /\ m.id > reader.cursor

\* What is accepted of ms is yielded, in order; the reader goes on with the queue q.
Yield(ms, q) ==
    LET I == {i \in DOMAIN ms : Accept(ms[i])}
    IN  reader' = [reader EXCEPT !.pc = "live", !.queue = q,
                     !.emitted = @ \cup {ms[i].id : i \in I},
                     !.latest = IF I = {} THEN @ ELSE ms[Max(I)].id]

\* Messages that were delivered in the reader's process and have left its buffer,
\* although their put has not returned.
Gone ==
    {m \in Message : /\ m \notin Range(store[ReaderAt])
                     /\ \E t \in Tasks : /\ ProcOf[t] = ReaderAt
                                         /\ task[t].pc \in {"key", "publish"}
                                         /\ m \in Range(task[t].msgs)}

\* subscribe: add_queue copies the buffer and registers, under the lock.  The
\* cursor is none, the beginning, or the last id of the connection before.
Subscribe(c) ==
    /\ reader.pc = "off"
    /\ c \in {-1, 0, reader.latest}
    /\ reader' = [pc |-> "restore", cursor |-> c, queue |-> store[ReaderAt],
                  emitted |-> {}, latest |-> c, whole |-> up[ReaderAt], before |-> done \cup Gone]
    /\ UNCHANGED <<resumable, issued, stream, redisKey, store, seen, key, up, chan, task, listener,
                   done, breaks, puts>>

\* Faulty variant of Restored: the local buffer stands in for the stream.
RestoredLocally(c) == store[ReaderAt]

\* restore_messages_async: from the stream or, if it has nothing after c, the buffer.
\* What is not after c is not accepted either.
Restored(c) == IF \E m \in Range(stream) : m.id > c THEN stream ELSE store[ReaderAt]

\* join: what lies after the cursor is replayed first.
Restore ==
    /\ reader.pc = "restore"
    /\ Yield(IF reader.cursor = -1 THEN <<>> ELSE Restored(reader.cursor), reader.queue)
    /\ UNCHANGED <<resumable, issued, stream, redisKey, store, seen, key, up, chan, task, listener,
                   done, breaks, puts>>

\* _stream_run_queue
Read ==
    /\ reader.pc = "live"
    /\ reader.queue # <<>>
    /\ Yield(<<Head(reader.queue)>>, Tail(reader.queue))
    /\ UNCHANGED <<resumable, issued, stream, redisKey, store, seen, key, up, chan, task, listener,
                   done, breaks, puts>>

\* remove_queue, when the client has gone.
Unsubscribe ==
    /\ reader.pc # "off"
    /\ breaks < MaxBreaks
    /\ breaks' = breaks + 1
    /\ reader' = [NoReader EXCEPT !.latest = reader.latest]
    /\ UNCHANGED <<resumable, issued, stream, redisKey, store, seen, key, up, chan, task, listener,
                   done, puts>>

-----------------------------------------------------------------------------
(* Cancellation, and the end of a run *)

\* add_control_queue
Listen ==
    /\ listener.pc = "off"
    /\ listener' = [listener EXCEPT !.pc = "hydrate", !.heard = FALSE, !.whole = up[ListenerAt]]
    /\ UNCHANGED <<resumable, issued, stream, redisKey, store, seen, key, up, chan, task, reader,
                   done, breaks, puts>>

\* Faulty variant of Known: a cancellation of another process is not looked up.
KnownLocally == key[ListenerAt]

\* aget_control_key: the own key, else the one in Redis.
Known == key[ListenerAt] \/ redisKey

\* A cancellation from before add_control_queue.
Hydrate ==
    /\ listener.pc = "hydrate"
    /\ listener' = [listener EXCEPT !.pc = "on", !.heard = @ \/ Known]
    /\ key' = [key EXCEPT ![ListenerAt] = Known]
    /\ UNCHANGED <<resumable, issued, stream, redisKey, store, seen, up, chan, task, reader, done,
                   breaks, puts>>

\* clear_run_buffers when the worker leaves the run: the control keys go now, the
\* local buffer after its grace.
Leave ==
    /\ listener.pc = "on"
    /\ breaks < MaxBreaks
    /\ breaks' = breaks + 1
    /\ listener' = [NoListener EXCEPT !.since = puts, !.drop = TRUE]
    /\ key' = [key EXCEPT ![ListenerAt] = FALSE]
    /\ redisKey' = FALSE
    /\ UNCHANGED <<resumable, issued, stream, store, seen, up, chan, task, reader, done, puts>>

\* _drop_local_store, after the grace; the run may have been taken up again.
DropStore ==
    /\ listener.drop
    /\ listener' = [listener EXCEPT !.drop = FALSE]
    /\ store' = [store EXCEPT ![ListenerAt] = <<>>]
    /\ UNCHANGED <<resumable, issued, stream, redisKey, seen, key, up, chan, task, reader,
                   done, breaks, puts>>

-----------------------------------------------------------------------------
Init ==
    /\ resumable \in BOOLEAN
    /\ issued = [s \in Sources |-> {}]
    /\ stream = <<>> /\ redisKey = FALSE
    /\ store = [p \in Procs |-> <<>>]
    /\ seen = [p \in Procs |-> <<>>]
    /\ key = [p \in Procs |-> FALSE]
    /\ up = [p \in Procs |-> TRUE]
    /\ chan = [p \in Procs |-> <<>>]
    /\ task = [t \in Tasks |-> NoTask]
    /\ reader = NoReader /\ listener = NoListener
    /\ done = {} /\ breaks = 0 /\ puts = 0

Next ==
    \/ \E t \in Tasks :
          \/ t \in Cancellers /\ Put(t, TRUE, 1)
          \/ \E k \in 1..BatchSize : Put(t, FALSE, k)
          \/ Buffer(t) \/ SetKey(t) \/ Publish(t) \/ PutFails(t)
    \/ \E p \in Procs : Receive(p) \/ MuxDown(p) \/ MuxUp(p)
    \/ \E c \in -1..MaxId : Subscribe(c)
    \/ Restore \/ Read \/ Unsubscribe
    \/ Listen \/ Hydrate \/ Leave \/ DropStore

Spec == Init /\ [][Next]_vars

-----------------------------------------------------------------------------
(* Properties *)

\* Nothing is on its way to p.
Quiet(p) == (\A t \in Tasks : task[t].pc = "idle") /\ chan[p] = <<>>

\* No two sources have generated the same id.
IdsDistinct == \A s, u \in Sources : s # u => issued[s] \cap issued[u] = {}

\* The messages the reader has asked for: those in the stream after its cursor,
\* and those that were put after it registered.
Wanted ==
    {m \in done : /\ IsFrame(m)
                  /\ m.id > reader.cursor
                  /\ m \in reader.before => resumable /\ reader.cursor >= 0}

\* Every message that a reader asks for reaches it once: from the buffer, the
\* stream, its own process or the channel.  This takes a subscription that was not
\* lost in between, and ids that no two sources have generated (_mark_seen drops
\* the second message, whatever it is).
NothingMissed ==
    reader.pc = "live" /\ reader.whole /\ IdsDistinct /\ Quiet(ReaderAt) =>
        \A m \in Wanted : m.id \in reader.emitted \/ m \in Range(reader.queue)

\* A cancellation that was put since the worker last left the run, and whose put
\* returned, is known to the listener, whether it came before, while or after the
\* listener registered, on the same terms.
ControlHeard ==
    (\E m \in done : IsControl(m) /\ m.n > listener.since) =>
        (listener.pc = "on" /\ listener.whole /\ IdsDistinct /\ Quiet(ListenerAt)
             => listener.heard)

=============================================================================
