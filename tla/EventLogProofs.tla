--------------------------- MODULE EventLogProofs ---------------------------
(***************************************************************************)
(* Proofs about EventLog for every set of runs, threads and slots, every   *)
(* assignment of runs to threads and every bound.                          *)
(***************************************************************************)
EXTENDS EventLog, TLAPS

-----------------------------------------------------------------------------
(* What a writer does to the log *)

\* The rows, the log and its history stay; a run ends at most on the terminal
\* event it already has.
Quiet ==
    /\ UNCHANGED <<row, top, log, ever>>
    /\ \A r \in ended' : r \in ended \/ (r \in Runs /\ HasTerminal(r))

\* The events s .. last of r are new.  s lies beyond the counter of r, or beyond
\* the one that a finalisation of r has loaded.
Wrote(r, s, last, own, terminal) ==
    /\ CanRecord(r)
    /\ s <= last
    /\ \A e \in Scope(r) : s > e.seq
    /\ s > Counter(r) \/ \E w \in Slots : tx[w].run = r /\ s > Base(w)
    /\ terminal => ~HasTerminal(r)
    /\ log' = log \cup Appended(r, s, last, terminal)
    /\ ever' = ever \cup ({r} \X (s..last))
    /\ SetCounters(r, last, own)
    /\ \A q \in ended' : q \in ended \/ (q = r /\ (terminal \/ HasTerminal(r)))

SomeWrote ==
    \E r \in Runs, s, last \in Sequence, own \in Seq0, terminal \in BOOLEAN :
        Wrote(r, s, last, own, terminal)

\* The counters that sessions go by are sequence numbers.
LEMMA CounterTypes ==
    ASSUME TypeOK
    PROVE  /\ \A r \in Runs : Counter(r) \in Seq0 /\ row[r].seq \in Seq0
           /\ \A w \in Slots : Base(w) \in Seq0 /\ tx[w].row \in Seq0
<1>1. ASSUME NEW r \in Runs
      PROVE  Counter(r) \in Seq0 /\ row[r].seq \in Seq0
  BY <1>1, EventConstants DEF TypeOK, Row, Counter, Threaded
<1>2. ASSUME NEW w \in Slots
      PROVE  Base(w) \in Seq0 /\ tx[w].row \in Seq0
  BY <1>2 DEF TypeOK, Tx, Base
<1> QED BY <1>1, <1>2

\* An append of at least one event is a Wrote step.
LEMMA AppendWrote ==
    ASSUME TypeOK, NEW r \in Runs, NEW base \in Seq0, NEW own \in Seq0,
           NEW n \in Nat \ {0}, NEW terminal \in BOOLEAN,
           CanRecord(r), Append(r, base, own, n, terminal),
           base >= Counter(r) \/ \E w \in Slots : tx[w].run = r /\ base = Base(w),
           terminal => ~HasTerminal(r),
           \A q \in ended' : q \in ended \/ (q = r /\ (terminal \/ HasTerminal(r)))
    PROVE  SomeWrote
<1>1. PICK s \in Sequence :
          /\ IsNext(s, r, base)
          /\ s + n - 1 <= SeqBound
          /\ log' = log \cup Appended(r, s, s + n - 1, terminal)
          /\ ever' = ever \cup ({r} \X (s .. (s + n - 1)))
          /\ SetCounters(r, s + n - 1, own)
  BY DEF Append
<1>2. s + n - 1 \in Sequence /\ s <= s + n - 1
  BY <1>1, EventConstants DEF Sequence
<1>3. s > base /\ \A e \in Scope(r) : s > e.seq
  BY <1>1 DEF IsNext
<1>4. s > Counter(r) \/ \E w \in Slots : tx[w].run = r /\ s > Base(w)
  BY <1>3, CounterTypes, EventConstants DEF Sequence, Seq0
<1>5. Wrote(r, s, s + n - 1, own, terminal)
  BY <1>1, <1>2, <1>3, <1>4 DEF Wrote
<1> QED BY <1>2, <1>5 DEF SomeWrote

\* Every step of a writer is quiet or an append.
LEMMA WriterEffect ==
    ASSUME TypeOK, WriterStep
    PROVE  Quiet \/ SomeWrote
<1>1. CASE \E r \in Runs : RecordEvent(r)
  <2>1. PICK r \in Runs : RecordEvent(r) BY <1>1
  <2>2. Counter(r) \in Seq0 /\ row[r].seq \in Seq0 BY CounterTypes
  <2>3. CanRecord(r) /\ ended' = ended /\ Append(r, Counter(r), row[r].seq, 1, FALSE)
    BY <2>1 DEF RecordEvent
  <2>4. Counter(r) >= Counter(r) /\ 1 \in Nat \ {0}
    BY <2>2, EventConstants DEF Seq0
  <2>5. \A q \in ended' : q \in ended \/ (q = r /\ (FALSE \/ HasTerminal(r)))
    BY <2>3
  <2> QED BY <2>2, <2>3, <2>4, <2>5, AppendWrote, Zenon
<1>2. CASE \E r \in Runs : End(r)
  <2>1. PICK r \in Runs : End(r) BY <1>2
  <2>2. Counter(r) \in Seq0 /\ row[r].seq \in Seq0 BY CounterTypes
  <2>3. CanRecord(r) /\ ended' = ended \cup {r}
    BY <2>1 DEF End
  <2>4. Counter(r) >= Counter(r) /\ 1 \in Nat \ {0}
    BY <2>2, EventConstants DEF Seq0
  <2>5. CASE HasTerminal(r)
    BY <2>1, <2>3, <2>5 DEF End, Quiet
  <2>6. CASE ~HasTerminal(r)
    <3>1. Append(r, Counter(r), row[r].seq, 1, TRUE)
      BY <2>1, <2>6 DEF End
    <3>2. \A q \in ended' : q \in ended \/ (q = r /\ (TRUE \/ HasTerminal(r)))
      BY <2>3
    <3> QED BY <2>2, <2>3, <2>4, <2>6, <3>1, <3>2, AppendWrote, Zenon
  <2> QED BY <2>5, <2>6
<1>3. CASE \E r \in Runs, n \in 2..BatchSize : RecordMessageDeltas(r, n)
  <2>1. PICK r \in Runs, n \in 2..BatchSize : RecordMessageDeltas(r, n) BY <1>3
  <2> DEFINE base == Greater(Counter(r), row[r].seq)
  <2>2. Counter(r) \in Seq0 /\ row[r].seq \in Seq0 BY CounterTypes
  <2>3. base \in Seq0 /\ base >= Counter(r) /\ n \in Nat \ {0}
    BY <2>2, EventConstants DEF Greater, Seq0
  <2>4. CanRecord(r) /\ ended' = ended /\ Append(r, base, row[r].seq, n, FALSE)
    BY <2>1 DEF RecordMessageDeltas
  <2>5. \A q \in ended' : q \in ended \/ (q = r /\ (FALSE \/ HasTerminal(r)))
    BY <2>4
  <2> HIDE DEF base
  <2> QED BY <2>2, <2>3, <2>4, <2>5, AppendWrote, Zenon
<1>4. CASE \E w \in Slots, r \in Runs : Load(w, r)
  BY <1>4 DEF Load, Quiet
<1>5. CASE \E w \in Slots, n \in 1..2, terminal \in BOOLEAN : Finish(w, n, terminal)
  <2>1. PICK w \in Slots, n \in 1..2, terminal \in BOOLEAN : Finish(w, n, terminal)
    BY <1>5
  <2> DEFINE r == tx[w].run
  <2>2. r \in Runs /\ CanRecord(r)
    BY <2>1 DEF Finish, TypeOK, Tx
  <2>3. Base(w) \in Seq0 /\ tx[w].row \in Seq0 BY CounterTypes
  <2>4. ended' = IF terminal THEN ended \cup {r} ELSE ended \ {r}
    BY <2>1 DEF Finish
  <2>5. CASE terminal /\ HasTerminal(r) /\ n = 1
    BY <2>1, <2>2, <2>4, <2>5 DEF Finish, Quiet
  <2>6. CASE terminal /\ HasTerminal(r) /\ n # 1
    <3>1. Append(r, Base(w), tx[w].row, n - 1, FALSE)
      BY <2>1, <2>6 DEF Finish
    <3>2. n - 1 \in Nat \ {0}
      BY <2>6
    <3>3. \A q \in ended' : q \in ended \/ (q = r /\ (FALSE \/ HasTerminal(r)))
      BY <2>4, <2>6
    <3> QED BY <2>2, <2>3, <3>1, <3>2, <3>3, AppendWrote, Zenon
  <2>7. CASE ~(terminal /\ HasTerminal(r))
    <3>1. Append(r, Base(w), tx[w].row, n, terminal)
      BY <2>1, <2>7 DEF Finish
    <3>2. n \in Nat \ {0}
      OBVIOUS
    <3>3. terminal => ~HasTerminal(r)
      BY <2>7
    <3>4. \A q \in ended' : q \in ended \/ (q = r /\ (terminal \/ HasTerminal(r)))
      BY <2>4
    <3> QED BY <2>2, <2>3, <3>1, <3>2, <3>3, <3>4, AppendWrote, Zenon
  <2> QED BY <2>5, <2>6, <2>7
<1>6. CASE \E w \in Slots : Abort(w)
  BY <1>6 DEF Abort, Quiet
<1> QED BY <1>1, <1>2, <1>3, <1>4, <1>5, <1>6 DEF WriterStep

-----------------------------------------------------------------------------
(* Types *)

\* An append keeps the types of the tables.
LEMMA WroteTypes ==
    ASSUME TypeOK, SomeWrote
    PROVE  /\ row' \in [Runs -> Row]
           /\ top' \in [Threads -> Row]
           /\ log' \subseteq Event
           /\ ever' \subseteq Runs \X Sequence
<1>1. PICK r \in Runs, s \in Sequence, last \in Sequence, own \in Seq0, terminal \in BOOLEAN :
          Wrote(r, s, last, own, terminal)
  BY DEF SomeWrote
<1>2. s..last \subseteq Sequence
  BY EventConstants DEF Sequence
<1>3. Appended(r, s, last, terminal) \subseteq Event
  <2>1. ASSUME NEW k \in s..last
        PROVE  [run |-> r, seq |-> k, terminal |-> terminal /\ k = last] \in Event
    <3>1. (terminal /\ k = last) \in BOOLEAN
      OBVIOUS
    <3>2. k \in Sequence
      BY <1>2
    <3> QED BY <3>1, <3>2, Zenon DEF Event
  <2> QED BY <2>1, Zenon DEF Appended
<1>4. {r} \X (s..last) \subseteq Runs \X Sequence
  BY <1>2
<1>5. Greater(own, last) \in Seq0 /\ last \in Seq0
  BY EventConstants DEF Greater, Seq0, Sequence
<1>6. row' = [row EXCEPT ![r].seq = Greater(own, last)]
  BY <1>1 DEF Wrote, SetCounters
<1>7. row' \in [Runs -> Row]
  BY <1>5, <1>6 DEF TypeOK, Row
<1>8. top' = IF Threaded(r) THEN [top EXCEPT ![ThreadOf[r]].seq = last] ELSE top
  BY <1>1 DEF Wrote, SetCounters
<1>9. Threaded(r) => ThreadOf[r] \in Threads
  BY EventConstants DEF Threaded
<1>10. top' \in [Threads -> Row]
  BY <1>5, <1>8, <1>9 DEF TypeOK, Row
<1> QED BY <1>1, <1>3, <1>4, <1>7, <1>10 DEF Wrote, TypeOK

\* A step of the client keeps the type of its record.
LEMMA ClientTypes ==
    ASSUME TypeOK, ClientStep
    PROVE  client' \in Client
<1>1. CASE \E c \in Seq0 : Open(c)
  BY <1>1 DEF Open, TypeOK, Client
<1>2. CASE \E upto \in Sequence : Poll(upto)
  <2>1. PICK upto \in Sequence : Poll(upto) BY <1>2
  <2>2. upto \in Seq0
    BY EventConstants DEF Seq0, Sequence
  <2>3. {<<e.run, e.seq>> : e \in {x \in Unread : x.seq <= upto}} \subseteq Runs \X Sequence
    BY DEF TypeOK, Unread, Event
  <2>4. client \in Client
    BY DEF TypeOK
  <2>5. client.got \cup {<<e.run, e.seq>> : e \in {x \in Unread : x.seq <= upto}}
            \in SUBSET (Runs \X Sequence)
    BY <2>3, <2>4 DEF Client
  <2>6. CASE Expired
    BY <2>1, <2>4, <2>6 DEF Poll, Client
  <2>7. CASE ~Expired
    <3>1. client' = [client EXCEPT
              !.cursor = upto,
              !.got = @ \cup {<<e.run, e.seq>> : e \in {x \in Unread : x.seq <= upto}},
              !.pc = IF \A e \in Unread : e.seq <= upto THEN "on" ELSE "off"]
      BY <2>1, <2>7 DEF Poll
    <3> QED BY <2>2, <2>4, <2>5, <3>1 DEF Client
  <2> QED BY <2>6, <2>7
<1>3. CASE Disconnect
  BY <1>3 DEF Disconnect, TypeOK, Client
<1> QED BY <1>1, <1>2, <1>3 DEF ClientStep

\* A step of a writer keeps the types of the sessions.
LEMMA TxTypes ==
    ASSUME TypeOK, WriterStep
    PROVE  tx' \in [Slots -> Tx] /\ ended' \subseteq Runs /\ client' = client
<1>1. NoTx \in Tx
  BY EventConstants DEF NoTx, Tx, Seq0
<1>2. ASSUME NEW w \in Slots, NEW r \in Runs, Load(w, r)
      PROVE  tx' \in [Slots -> Tx] /\ ended' \subseteq Runs /\ client' = client
  <2>1. (IF Threaded(r) THEN top[ThreadOf[r]].seq ELSE 0) \in Seq0
    BY EventConstants DEF TypeOK, Row, Threaded, Seq0
  <2>2. row[r].seq \in Seq0
    BY DEF TypeOK, Row
  <2> QED BY <1>2, <2>1, <2>2 DEF Load, TypeOK, Tx
<1>3. ASSUME NEW w \in Slots, NEW n \in 1..2, NEW terminal \in BOOLEAN, Finish(w, n, terminal)
      PROVE  tx' \in [Slots -> Tx] /\ ended' \subseteq Runs /\ client' = client
  <2>1. tx[w].run \in Runs
    BY <1>3 DEF Finish, TypeOK, Tx
  <2>2. ended' \subseteq ended \cup {tx[w].run}
    BY <1>3 DEF Finish
  <2>3. tx' = [tx EXCEPT ![w] = NoTx] /\ client' = client
    BY <1>3 DEF Finish
  <2> QED BY <1>1, <2>1, <2>2, <2>3 DEF TypeOK
<1>4. ASSUME NEW w \in Slots, Abort(w)
      PROVE  tx' \in [Slots -> Tx] /\ ended' \subseteq Runs /\ client' = client
  BY <1>1, <1>4 DEF Abort, TypeOK
<1>5. ASSUME NEW r \in Runs, RecordEvent(r) \/ End(r)
      PROVE  tx' \in [Slots -> Tx] /\ ended' \subseteq Runs /\ client' = client
  BY <1>5 DEF RecordEvent, End, TypeOK
<1>6. ASSUME NEW r \in Runs, NEW n \in 2..BatchSize, RecordMessageDeltas(r, n)
      PROVE  tx' \in [Slots -> Tx] /\ ended' \subseteq Runs /\ client' = client
  BY <1>6 DEF RecordMessageDeltas, TypeOK
<1> QED BY <1>2, <1>3, <1>4, <1>5, <1>6 DEF WriterStep

\* Retention keeps the types of the rows.
LEMMA PruneTypes ==
    ASSUME TypeOK, NEW r \in Runs, NEW batch \in SUBSET log, Prune(r, batch)
    PROVE  row' \in [Runs -> Row] /\ top' \in [Threads -> Row]
<1>1. PICK s \in Sequence :
          /\ row' = [row EXCEPT ![r].pruned = Greater(@, s)]
          /\ top' = IF Threaded(r) THEN PrunedTop(ThreadOf[r], s) ELSE top
  BY DEF Prune
<1>2. \A a \in Seq0 : Greater(a, s) \in Seq0
  BY EventConstants DEF Greater, Seq0, Sequence
<1>3. Threaded(r) => ThreadOf[r] \in Threads
  BY EventConstants DEF Threaded
<1>4. row' \in [Runs -> Row]
  BY <1>1, <1>2 DEF TypeOK, Row
<1>5. top' \in [Threads -> Row]
  BY <1>1, <1>2, <1>3 DEF TypeOK, Row, PrunedTop
<1> QED BY <1>4, <1>5

\* Every step keeps the types.
LEMMA TypeStep ==
    ASSUME TypeOK, [Next]_vars
    PROVE  TypeOK'
<1>1. CASE WriterStep
  <2>1. CASE Quiet
    BY <1>1, <2>1, TxTypes DEF Quiet, TypeOK
  <2>2. CASE SomeWrote
    BY <1>1, <2>2, TxTypes, WroteTypes DEF TypeOK
  <2> QED BY <1>1, <2>1, <2>2, WriterEffect
<1>2. CASE PruneStep
  <2>1. PICK r \in Runs, batch \in SUBSET log : Prune(r, batch)
    BY <1>2 DEF PruneStep
  <2>2. log' \subseteq log /\ UNCHANGED <<ended, ever, tx, client>>
    BY <2>1 DEF Prune
  <2> QED BY <2>1, <2>2, PruneTypes DEF TypeOK
<1>3. CASE DeleteStep
  <2>1. CASE \E r \in Runs : DeleteRun(r)
    BY <2>1 DEF DeleteRun, TypeOK, Row
  <2>2. CASE \E t \in Threads : DeleteThread(t)
    BY <2>2 DEF DeleteThread, TypeOK, Row
  <2> QED BY <1>3, <2>1, <2>2 DEF DeleteStep
<1>4. CASE ClientStep
  <2>1. UNCHANGED <<row, ended, top, log, ever, tx>>
    BY <1>4 DEF ClientStep, Open, Poll, Disconnect
  <2> QED BY <1>4, <2>1, ClientTypes DEF TypeOK
<1>5. CASE UNCHANGED vars
  BY <1>5 DEF vars, TypeOK
<1> QED BY <1>1, <1>2, <1>3, <1>4, <1>5 DEF Next

\* The initial state has the types.
LEMMA TypeInit == Init => TypeOK
<1>1. 0 \in Seq0
  BY EventConstants DEF Seq0
<1> QED BY <1>1, EventConstants DEF Init, TypeOK, Row, Client, Tx, NoTx

-----------------------------------------------------------------------------
(* The log *)

\* The fields of an appended event.
LEMMA AppendedFields ==
    ASSUME NEW r, NEW s \in Int, NEW last \in Int, NEW terminal \in BOOLEAN,
           NEW e \in Appended(r, s, last, terminal)
    PROVE  /\ e.run = r /\ e.seq \in s..last
           /\ e.terminal => terminal /\ e.seq = last
<1>1. PICK k \in s..last : e = [run |-> r, seq |-> k, terminal |-> terminal /\ k = last]
  BY Zenon DEF Appended
<1>2. e.run = r /\ e.seq = k /\ e.terminal = (terminal /\ k = last)
  BY <1>1, Zenon
<1> QED BY <1>1, <1>2, Zenon

\* Their numbers tell them apart.
LEMMA AppendedUnique ==
    ASSUME NEW r, NEW s, NEW last, NEW terminal,
           NEW e \in Appended(r, s, last, terminal), NEW f \in Appended(r, s, last, terminal),
           e.seq = f.seq
    PROVE  e = f
<1>1. PICK k \in s..last : e = [run |-> r, seq |-> k, terminal |-> terminal /\ k = last]
  BY Zenon DEF Appended
<1>2. PICK l \in s..last : f = [run |-> r, seq |-> l, terminal |-> terminal /\ l = last]
  BY Zenon DEF Appended
<1>3. e.seq = k
  BY <1>1, Zenon
<1>4. f.seq = l
  BY <1>2, Zenon
<1> QED BY <1>1, <1>2, <1>3, <1>4, Zenon

\* Every number of the range has its event.
LEMMA AppendedCovers ==
    ASSUME NEW r, NEW s \in Int, NEW last \in Int, NEW terminal \in BOOLEAN,
           NEW k \in s..last
    PROVE  \E e \in Appended(r, s, last, terminal) :
               e.run = r /\ e.seq = k /\ e.terminal = (terminal /\ k = last)
<1> DEFINE e == [run |-> r, seq |-> k, terminal |-> terminal /\ k = last]
<1>1. e \in Appended(r, s, last, terminal)
  BY Zenon DEF Appended
<1>2. e.run = r /\ e.seq = k /\ e.terminal = (terminal /\ k = last)
  BY Zenon
<1> QED BY <1>1, <1>2, Zenon

\* Sharing numbers is symmetric.
LEMMA ScopeSymmetric ==
    ASSUME NEW q, NEW r, SameScope(q, r)
    PROVE  SameScope(r, q)
BY DEF SameScope, Threaded

\* An append does not move the watermarks, nor create or delete rows.
LEMMA WroteRows ==
    ASSUME TypeOK, NEW r \in Runs, NEW s \in Sequence, NEW last \in Sequence,
           NEW own \in Seq0, NEW terminal \in BOOLEAN,
           Wrote(r, s, last, own, terminal)
    PROVE  /\ \A q \in Runs : row'[q].exists = row[q].exists /\ row'[q].pruned = row[q].pruned
           /\ \A t \in Threads : top'[t].exists = top[t].exists /\ top'[t].pruned = top[t].pruned
           /\ \A q \in Runs : CanRecord(q)' <=> CanRecord(q)
<1>1. \A q \in Runs : row'[q].exists = row[q].exists /\ row'[q].pruned = row[q].pruned
  BY DEF Wrote, SetCounters, TypeOK, Row
<1>2. \A t \in Threads : top'[t].exists = top[t].exists /\ top'[t].pruned = top[t].pruned
  BY DEF Wrote, SetCounters, TypeOK, Row
<1>3. ASSUME NEW q \in Runs
      PROVE  CanRecord(q)' <=> CanRecord(q)
  <2>1. Threaded(q) => ThreadOf[q] \in Threads
    BY EventConstants DEF Threaded
  <2> QED BY <1>1, <1>2, <2>1 DEF CanRecord, Threaded
<1> QED BY <1>1, <1>2, <1>3

\* The invariant of the log.
LogInv ==
    /\ TypeOK
    /\ SequenceUnique
    /\ TerminalOnce
    /\ RunReplayComplete
    /\ ThreadReplayComplete

\* It does not depend on the clients and the sessions.
LEMMA LogSame ==
    ASSUME LogInv, TypeOK', UNCHANGED <<row, ended, top, log, ever>>
    PROVE  LogInv'
BY DEF LogInv, SequenceUnique, TerminalOnce, RunReplayComplete, ThreadReplayComplete,
       CanRecord, HasTerminal, Stored

\* A quiet step only ends runs that have their terminal event.
LEMMA LogQuiet ==
    ASSUME LogInv, TypeOK', Quiet
    PROVE  LogInv'
<1>1. SequenceUnique' /\ RunReplayComplete' /\ ThreadReplayComplete'
  BY DEF LogInv, Quiet, SequenceUnique, RunReplayComplete, ThreadReplayComplete,
         CanRecord, Stored
<1>2. TerminalOnce'
  BY DEF LogInv, Quiet, TerminalOnce, CanRecord, HasTerminal
<1> QED BY <1>1, <1>2 DEF LogInv

\* An append keeps the invariant.
LEMMA LogWrote ==
    ASSUME LogInv, TypeOK', SomeWrote
    PROVE  LogInv'
<1> USE DEF LogInv
<1>1. PICK r \in Runs, s \in Sequence, last \in Sequence, own \in Seq0, terminal \in BOOLEAN :
          Wrote(r, s, last, own, terminal)
  BY DEF SomeWrote
<1>2. s \in Int /\ last \in Int /\ s <= last
  BY <1>1 DEF Sequence, Wrote
<1>3. /\ log' = log \cup Appended(r, s, last, terminal)
      /\ ever' = ever \cup ({r} \X (s..last))
      /\ terminal => ~HasTerminal(r)
      /\ \A e \in Scope(r) : s > e.seq
      /\ \A q \in ended' : q \in ended \/ (q = r /\ (terminal \/ HasTerminal(r)))
  BY <1>1 DEF Wrote
<1>4. \A e \in log : e \in Event /\ e.seq \in Int
  BY DEF TypeOK, Event, Sequence
<1>5. SequenceUnique'
  <2>1. SUFFICES ASSUME NEW e \in log', NEW f \in log',
                        e.seq = f.seq, SameScope(e.run, f.run)
                 PROVE  e = f
    BY DEF SequenceUnique, SameScope, Threaded
  <2>2. CASE e \in log /\ f \in log
    BY <2>1, <2>2 DEF SequenceUnique
  <2>3. ASSUME NEW a \in Appended(r, s, last, terminal), NEW b \in log,
               SameScope(b.run, a.run)
        PROVE  a.seq # b.seq
    <3>1. a.run = r /\ a.seq \in s..last
      BY <1>2, AppendedFields
    <3>2. b \in Scope(r)
      BY <2>3, <3>1 DEF Scope
    <3> QED BY <1>2, <1>3, <1>4, <3>1, <3>2
  <2>4. CASE e \in Appended(r, s, last, terminal) /\ f \in log
    BY <2>1, <2>3, <2>4, ScopeSymmetric
  <2>5. CASE e \in log /\ f \in Appended(r, s, last, terminal)
    BY <2>1, <2>3, <2>5
  <2>6. CASE e \in Appended(r, s, last, terminal) /\ f \in Appended(r, s, last, terminal)
    BY <2>1, <2>6, AppendedUnique
  <2> QED BY <1>3, <2>2, <2>4, <2>5, <2>6
<1>6. TerminalOnce'
  <2>1. ASSUME NEW e \in log', NEW f \in log', e.terminal, f.terminal, e.run = f.run
        PROVE  e = f
    <3>1. CASE e \in log /\ f \in log
      BY <2>1, <3>1 DEF TerminalOnce
    <3>2. ASSUME NEW a \in Appended(r, s, last, terminal), NEW b \in log,
                 a.terminal, b.terminal, a.run = b.run
          PROVE  FALSE
      <4>1. terminal /\ b.run = r
        BY <1>2, <3>2, AppendedFields
      <4> QED BY <1>3, <3>2, <4>1 DEF HasTerminal
    <3>3. CASE e \in Appended(r, s, last, terminal) /\ f \in Appended(r, s, last, terminal)
      <4>1. e.seq = last /\ f.seq = last
        BY <1>2, <2>1, <3>3, AppendedFields
      <4> QED BY <3>3, <4>1, AppendedUnique
    <3> QED BY <1>3, <2>1, <3>1, <3>2, <3>3
  <2>2. ASSUME NEW q \in ended', CanRecord(q)'
        PROVE  HasTerminal(q)'
    <3>1. q \in Runs
      BY DEF TypeOK
    <3>2. CASE HasTerminal(q)
      BY <1>3, <3>2 DEF HasTerminal
    <3>3. CASE ~HasTerminal(q)
      <4>1. q \notin ended
        BY <1>1, <2>2, <3>1, <3>3, WroteRows DEF TerminalOnce
      <4>2. q = r /\ terminal
        BY <1>3, <3>3, <4>1
      <4>3. last \in s..last
        BY <1>2
      <4>4. PICK e \in Appended(r, s, last, terminal) :
                e.run = r /\ e.seq = last /\ e.terminal = (terminal /\ last = last)
        BY <1>2, <4>3, AppendedCovers
      <4> QED BY <1>3, <4>2, <4>4 DEF HasTerminal
    <3> QED BY <3>2, <3>3
  <2> QED BY <2>1, <2>2 DEF TerminalOnce
<1>7. ASSUME NEW x \in ever'
      PROVE  \/ x \in ever /\ (Stored(x) => Stored(x)')
             \/ Stored(x)'
  <2>1. CASE x \in ever
    BY <1>3, <2>1 DEF Stored
  <2>2. CASE x \in {r} \X (s..last)
    <3>1. x[1] = r /\ x[2] \in s..last
      BY <2>2
    <3>2. PICK e \in Appended(r, s, last, terminal) : e.run = r /\ e.seq = x[2]
      BY <1>2, <3>1, AppendedCovers
    <3> QED BY <1>3, <3>1, <3>2 DEF Stored
  <2> QED BY <1>3, <2>1, <2>2
<1>8. \A x \in ever' : x[1] \in Runs
  BY DEF TypeOK
<1>9. RunReplayComplete'
  BY <1>1, <1>7, <1>8, WroteRows DEF RunReplayComplete
<1>10. ThreadReplayComplete'
  <2>1. \A q \in Runs : Threaded(q) => ThreadOf[q] \in Threads
    BY EventConstants DEF Threaded
  <2> QED BY <1>1, <1>7, <1>8, <2>1, WroteRows DEF ThreadReplayComplete, Threaded
<1> QED BY <1>5, <1>6, <1>9, <1>10

\* Retention keeps the invariant: what it deletes lies below the watermarks it
\* raises, and is not terminal.
LEMMA LogPrune ==
    ASSUME LogInv, TypeOK', NEW r \in Runs, NEW batch \in SUBSET log, Prune(r, batch)
    PROVE  LogInv'
<1> USE DEF LogInv
<1>1. PICK s \in Sequence :
          /\ Watermark(batch, s)
          /\ row' = [row EXCEPT ![r].pruned = Greater(@, s)]
          /\ top' = IF Threaded(r) THEN PrunedTop(ThreadOf[r], s) ELSE top
  BY DEF Prune
<1>2. /\ log' = log \ batch /\ ever' = ever /\ ended' = ended
      /\ \A e \in batch : e.run = r /\ ~e.terminal
  BY DEF Prune, Prunable
<1>3. \A e \in batch : e.seq <= s
  BY <1>1 DEF Watermark
<1>4. s \in Int /\ \A e \in log : e.seq \in Int
  BY DEF TypeOK, Event, Sequence
<1>5. \A q \in Runs : row[q].pruned \in Int /\ row'[q].pruned \in Int
  BY DEF TypeOK, Row, Seq0
<1>6. \A t \in Threads : top[t].pruned \in Int /\ top'[t].pruned \in Int
  BY DEF TypeOK, Row, Seq0
<1>7. /\ \A q \in Runs : row'[q].exists = row[q].exists /\ row'[q].pruned >= row[q].pruned
      /\ row'[r].pruned >= s
  BY <1>1, <1>4, <1>5 DEF Greater, TypeOK, Row
<1>8. Threaded(r) => ThreadOf[r] \in Threads
  BY EventConstants DEF Threaded
<1>9. /\ \A t \in Threads : top'[t].exists = top[t].exists /\ top'[t].pruned >= top[t].pruned
      /\ Threaded(r) => top'[ThreadOf[r]].pruned >= s
  BY <1>1, <1>4, <1>6, <1>8 DEF Greater, TypeOK, Row, PrunedTop
<1>10. \A q \in Runs : Threaded(q) => ThreadOf[q] \in Threads
  BY EventConstants DEF Threaded
<1>11. \A q \in Runs : CanRecord(q)' <=> CanRecord(q)
  BY <1>7, <1>9, <1>10 DEF CanRecord, Threaded
<1>12. \A x \in ever : x[1] \in Runs /\ x[2] \in Int
  BY DEF TypeOK, Sequence
<1>13. ASSUME NEW x \in ever, Stored(x)
       PROVE  Stored(x)' \/ (x[1] = r /\ x[2] <= s)
  BY <1>2, <1>3, <1>13 DEF Stored
<1>14. SequenceUnique'
  BY <1>2 DEF SequenceUnique, SameScope, Threaded
<1>15. TerminalOnce'
  <2>1. \A q \in Runs : HasTerminal(q) => HasTerminal(q)'
    BY <1>2 DEF HasTerminal
  <2>2. \A q \in ended : q \in Runs
    BY DEF TypeOK
  <2>3. \A e, f \in log' : e.terminal /\ f.terminal /\ e.run = f.run => e = f
    BY <1>2 DEF TerminalOnce
  <2>4. \A q \in ended' : CanRecord(q)' => HasTerminal(q)'
    BY <1>2, <1>11, <2>1, <2>2 DEF TerminalOnce
  <2> QED BY <2>3, <2>4 DEF TerminalOnce
<1>16. RunReplayComplete'
  <2>1. SUFFICES ASSUME NEW x \in ever, CanRecord(x[1])', x[2] > row'[x[1]].pruned
                 PROVE  Stored(x)'
    BY <1>2 DEF RunReplayComplete
  <2>2. x[2] > row[x[1]].pruned /\ ~(x[1] = r /\ x[2] <= s)
    BY <1>4, <1>5, <1>7, <1>12, <2>1
  <2> QED BY <1>11, <1>12, <1>13, <2>1, <2>2 DEF RunReplayComplete
<1>17. ThreadReplayComplete'
  <2>1. SUFFICES ASSUME NEW x \in ever, Threaded(x[1]), CanRecord(x[1])',
                        x[2] > top'[ThreadOf[x[1]]].pruned
                 PROVE  Stored(x)'
    BY <1>2 DEF ThreadReplayComplete, Threaded
  <2>2. x[2] > top[ThreadOf[x[1]]].pruned /\ ~(x[1] = r /\ x[2] <= s)
    BY <1>4, <1>6, <1>9, <1>10, <1>12, <2>1
  <2> QED BY <1>11, <1>12, <1>13, <2>1, <2>2 DEF ThreadReplayComplete
<1> QED BY <1>14, <1>15, <1>16, <1>17

\* A deletion takes the events of the runs nobody can record for any more.
LEMMA LogDelete ==
    ASSUME LogInv, TypeOK', DeleteStep
    PROVE  LogInv'
<1> USE DEF LogInv
<1>1. /\ log' \subseteq log /\ ever' = ever /\ ended' = ended
      /\ \A q \in Runs : row'[q].pruned = row[q].pruned
      /\ \A t \in Threads : top'[t].pruned = top[t].pruned
  BY DEF DeleteStep, DeleteRun, DeleteThread, TypeOK, Row
<1>2. ASSUME NEW q \in Runs, CanRecord(q)'
      PROVE  CanRecord(q) /\ \A e \in log : e.run = q => e \in log'
  <2>1. Threaded(q) => ThreadOf[q] \in Threads
    BY EventConstants DEF Threaded
  <2>2. CASE \E r \in Runs : DeleteRun(r)
    BY <1>2, <2>1, <2>2 DEF DeleteRun, CanRecord, TypeOK, Row, Threaded
  <2>3. CASE \E t \in Threads : DeleteThread(t)
    <3>1. PICK t \in Threads : DeleteThread(t) BY <2>3
    <3>2. CanRecord(q) /\ ThreadOf[q] # t
      BY <1>2, <2>1, <3>1, EventConstants DEF DeleteThread, CanRecord, TypeOK, Row, Threaded
    <3> QED BY <3>1, <3>2 DEF DeleteThread
  <2> QED BY <2>2, <2>3 DEF DeleteStep
<1>3. \A x \in ever : x[1] \in Runs
  BY DEF TypeOK
<1>4. \A q \in Runs : Threaded(q) => ThreadOf[q] \in Threads
  BY EventConstants DEF Threaded
<1>5. ASSUME NEW x \in ever, CanRecord(x[1])', Stored(x)
      PROVE  Stored(x)'
  BY <1>2, <1>3, <1>5 DEF Stored
<1>6. SequenceUnique'
  BY <1>1 DEF SequenceUnique, SameScope, Threaded
<1>7. TerminalOnce'
  <2>1. \A e, f \in log' : e.terminal /\ f.terminal /\ e.run = f.run => e = f
    BY <1>1 DEF TerminalOnce
  <2>2. ASSUME NEW q \in ended', CanRecord(q)'
        PROVE  HasTerminal(q)'
    <3>1. q \in Runs /\ q \in ended
      BY <1>1 DEF TypeOK
    <3> QED BY <1>2, <2>2, <3>1 DEF TerminalOnce, HasTerminal
  <2> QED BY <2>1, <2>2 DEF TerminalOnce
<1>8. RunReplayComplete'
  BY <1>1, <1>2, <1>3, <1>5 DEF RunReplayComplete
<1>9. ThreadReplayComplete'
  BY <1>1, <1>2, <1>3, <1>4, <1>5 DEF ThreadReplayComplete, Threaded
<1> QED BY <1>6, <1>7, <1>8, <1>9

\* Every step keeps the invariant.
LEMMA LogStep ==
    ASSUME LogInv, [Next]_vars
    PROVE  LogInv'
<1>1. TypeOK'
  BY TypeStep DEF LogInv
<1>2. CASE WriterStep
  BY <1>1, <1>2, WriterEffect, LogQuiet, LogWrote DEF LogInv
<1>3. CASE PruneStep
  BY <1>1, <1>3, LogPrune DEF PruneStep
<1>4. CASE DeleteStep
  BY <1>1, <1>4, LogDelete
<1>5. CASE ClientStep
  <2>1. UNCHANGED <<row, ended, top, log, ever>>
    BY <1>5 DEF ClientStep, Open, Poll, Disconnect
  <2> QED BY <1>1, <2>1, LogSame
<1>6. CASE UNCHANGED vars
  <2>1. UNCHANGED <<row, ended, top, log, ever>>
    BY <1>6 DEF vars
  <2> QED BY <1>1, <2>1, LogSame
<1> QED BY <1>2, <1>3, <1>4, <1>5, <1>6 DEF Next

\* The empty log satisfies the invariant.
LEMMA LogInit == Init => LogInv
<1>1. ASSUME Init
      PROVE  LogInv
  <2>1. log = {} /\ ever = {} /\ ended = {}
    BY <1>1 DEF Init
  <2> QED BY <1>1, <2>1, TypeInit
         DEF LogInv, SequenceUnique, TerminalOnce, RunReplayComplete, ThreadReplayComplete
<1> QED BY <1>1

\* The invariant of the log holds in every reachable state, whatever writers,
\* finalisations, retention and deletions do.
THEOREM LogInductive == Spec => []LogInv
BY LogInit, LogStep, PTL DEF Spec

\* The tables, sessions and the client of the event log keep their types; the
\* counters of record_event stay within the numbers given out.
THEOREM LogTypes == Spec => []TypeOK
<1>1. LogInv => TypeOK
  BY DEF LogInv
<1> QED BY <1>1, LogInductive, PTL

\* record_event never gives two stored events of a thread, or of a threadless
\* run, the same number.
THEOREM NumbersUnique == Spec => []SequenceUnique
<1>1. LogInv => SequenceUnique
  BY DEF LogInv
<1> QED BY <1>1, LogInductive, PTL

\* A run ends with one terminal event, and retention never takes it.
THEOREM TerminalStays == Spec => []TerminalOnce
<1>1. LogInv => TerminalOnce
  BY DEF LogInv
<1> QED BY <1>1, LogInductive, PTL

\* What lies beyond the watermark of a run can be replayed in full.
THEOREM RunReplayable == Spec => []RunReplayComplete
<1>1. LogInv => RunReplayComplete
  BY DEF LogInv
<1> QED BY <1>1, LogInductive, PTL

\* What lies beyond the watermark of a thread can be replayed in full.
THEOREM ThreadReplayable == Spec => []ThreadReplayComplete
<1>1. LogInv => ThreadReplayComplete
  BY DEF LogInv
<1> QED BY <1>1, LogInductive, PTL

-----------------------------------------------------------------------------
(* Following a thread while nothing is deleted *)

\* Every row is there.
AllExist == (\A r \in Runs : row[r].exists) /\ (\A t \in Threads : top[t].exists)

\* What is stored was committed.
InHistory == \A e \in log : <<e.run, e.seq>> \in ever

\* The counter that the next event of a run starts from covers all numbers of
\* its scope.
CounterCovers == \A x \in ever : x[2] <= Counter(x[1])

\* A loaded counter is stale, but what it does not cover is still stored: this
\* is why the locked rows of the log make up for it.
LoadedCovers ==
    \A w \in Slots : \A x \in ever :
        tx[w].run # NoRun /\ SameScope(x[1], tx[w].run) /\ x[2] > Base(w) => Stored(x)

\* The client stands where it started or at a committed event of its thread.
CursorCommitted ==
    \/ client.cursor = client.from
    \/ \E x \in ever : ThreadOf[x[1]] = Followed /\ x[2] = client.cursor

KeptInv ==
    /\ LogInv
    /\ AllExist
    /\ InHistory
    /\ CounterCovers
    /\ LoadedCovers
    /\ CursorCommitted
    /\ FollowerComplete

\* Runs that share numbers share the counter.
LEMMA SharedCounter ==
    ASSUME NEW q, NEW r, SameScope(q, r)
    PROVE  Counter(q) = Counter(r)
BY DEF SameScope, Counter, Threaded

\* An append starts beyond every number ever given out in its scope.
LEMMA NumbersFresh ==
    ASSUME KeptInv, NEW r \in Runs, NEW s \in Sequence, NEW last \in Sequence,
           NEW own \in Seq0, NEW terminal \in BOOLEAN,
           Wrote(r, s, last, own, terminal),
           NEW y \in ever, SameScope(y[1], r)
    PROVE  s > y[2]
<1>1. TypeOK
  BY DEF KeptInv, LogInv
<1>2. s \in Int /\ y[1] \in Runs /\ y[2] \in Int
  BY <1>1 DEF TypeOK, Sequence
<1>3. CASE s > Counter(r)
  <2>1. y[2] <= Counter(r)
    BY SharedCounter DEF KeptInv, CounterCovers
  <2>2. Counter(r) \in Int
    BY <1>1, CounterTypes DEF Seq0
  <2> QED BY <1>2, <1>3, <2>1, <2>2
<1>4. CASE \E w \in Slots : tx[w].run = r /\ s > Base(w)
  <2>1. PICK w \in Slots : tx[w].run = r /\ s > Base(w)
    BY <1>4
  <2>2. Base(w) \in Int
    BY <1>1, CounterTypes DEF Seq0
  <2>3. CASE y[2] <= Base(w)
    BY <1>2, <2>1, <2>2, <2>3
  <2>4. CASE y[2] > Base(w)
    <3>1. Stored(y)
      BY <2>1, <2>4, EventConstants DEF KeptInv, LoadedCovers
    <3>2. PICK e \in log : e.run = y[1] /\ e.seq = y[2]
      BY <3>1 DEF Stored
    <3>3. e \in Scope(r)
      BY <3>2 DEF Scope
    <3> QED BY <3>2, <3>3 DEF Wrote
  <2> QED BY <1>2, <2>2, <2>3, <2>4
<1> QED BY <1>3, <1>4 DEF Wrote

\* What a writer's step does to a session: nothing, it closes it, or it loads
\* the current counter.
LEMMA SessionEffect ==
    ASSUME TypeOK, WriterStep, NEW w \in Slots
    PROVE  \/ tx'[w] = tx[w]
           \/ tx'[w].run = NoRun
           \/ /\ tx'[w].run \in Runs
              /\ Base(w)' = Counter(tx'[w].run)
              /\ UNCHANGED <<row, top, log, ever>>
<1>1. CASE \E v \in Slots, r \in Runs : Load(v, r)
  <2>1. PICK v \in Slots, r \in Runs : Load(v, r) BY <1>1
  <2>2. CASE v = w
    <3>1. tx'[w] = [run |-> r, row |-> row[r].seq,
                    top |-> IF Threaded(r) THEN top[ThreadOf[r]].seq ELSE 0]
      BY <2>1, <2>2 DEF Load, TypeOK
    <3>2. tx'[w].run = r /\ tx'[w].row = row[r].seq
          /\ tx'[w].top = IF Threaded(r) THEN top[ThreadOf[r]].seq ELSE 0
      BY <3>1
    <3>3. Base(w)' = Counter(r)
      BY <3>2 DEF Base, Counter, Threaded
    <3> QED BY <2>1, <3>2, <3>3 DEF Load
  <2>3. CASE v # w
    BY <2>1, <2>3 DEF Load, TypeOK
  <2> QED BY <2>2, <2>3
<1>2. CASE \E v \in Slots : tx' = [tx EXCEPT ![v] = NoTx]
  BY <1>2 DEF TypeOK, NoTx
<1>3. CASE tx' = tx
  BY <1>3
<1> QED BY <1>1, <1>2, <1>3
        DEF WriterStep, RecordEvent, End, RecordMessageDeltas, Finish, Abort

\* A writer's step that appends nothing keeps the invariant.
LEMMA KeptQuiet ==
    ASSUME KeptInv, LogInv', WriterStep, UNCHANGED <<row, top, log, ever>>
    PROVE  KeptInv'
<1>1. TypeOK /\ client' = client
  BY TxTypes DEF KeptInv, LogInv
<1>2. AllExist' /\ InHistory' /\ CounterCovers' /\ CursorCommitted' /\ FollowerComplete'
  BY <1>1 DEF KeptInv, AllExist, InHistory, CounterCovers, CursorCommitted,
              FollowerComplete, Counter
<1>3. LoadedCovers'
  <2>1. SUFFICES ASSUME NEW w \in Slots, NEW x \in ever, tx'[w].run # NoRun,
                        SameScope(x[1], tx'[w].run), x[2] > Base(w)'
                 PROVE  Stored(x)
    BY DEF LoadedCovers, Stored, SameScope, Threaded
  <2>2. CASE tx'[w] = tx[w]
    BY <2>1, <2>2 DEF KeptInv, LoadedCovers, Base
  <2>3. CASE tx'[w].run \in Runs /\ Base(w)' = Counter(tx'[w].run)
    <3>1. x[2] <= Counter(tx'[w].run)
      BY <2>1, SharedCounter DEF KeptInv, CounterCovers
    <3>2. Counter(tx'[w].run) \in Int /\ x[2] \in Int
      BY <1>1, <2>3, CounterTypes DEF Seq0, TypeOK, Sequence
    <3> QED BY <2>1, <2>3, <3>1, <3>2
  <2> QED BY <1>1, <2>1, <2>2, <2>3, SessionEffect
<1> QED BY <1>2, <1>3 DEF KeptInv

\* An append keeps it: its numbers are fresh.
LEMMA KeptWrote ==
    ASSUME KeptInv, LogInv', WriterStep, SomeWrote
    PROVE  KeptInv'
<1>1. TypeOK /\ TypeOK' /\ client' = client
  BY TxTypes DEF KeptInv, LogInv
<1>2. PICK r \in Runs, s \in Sequence, last \in Sequence, own \in Seq0, terminal \in BOOLEAN :
          Wrote(r, s, last, own, terminal)
  BY DEF SomeWrote
<1>3. /\ log' = log \cup Appended(r, s, last, terminal)
      /\ ever' = ever \cup ({r} \X (s..last))
      /\ row' = [row EXCEPT ![r].seq = Greater(own, last)]
      /\ top' = IF Threaded(r) THEN [top EXCEPT ![ThreadOf[r]].seq = last] ELSE top
  BY <1>2 DEF Wrote, SetCounters
<1>4. s \in Int /\ last \in Int /\ own \in Int /\ s <= last
  BY <1>2 DEF Sequence, Seq0, Wrote
<1>5. \A q \in Runs : Threaded(q) => ThreadOf[q] \in Threads
  BY EventConstants DEF Threaded
<1>6. \A x \in ever' : x[1] \in Runs /\ x[2] \in Int
  BY <1>1 DEF TypeOK, Sequence
<1>7. AllExist'
  BY <1>1, <1>2, WroteRows DEF KeptInv, AllExist
<1>8. InHistory'
  <2>1. ASSUME NEW e \in Appended(r, s, last, terminal)
        PROVE  <<e.run, e.seq>> \in ever'
    BY <1>3, <1>4, AppendedFields
  <2> QED BY <1>3, <2>1 DEF KeptInv, InHistory
<1>9. CounterCovers'
  <2>1. ASSUME NEW x \in ever'
        PROVE  x[2] <= Counter(x[1])'
    <3>1. CASE SameScope(x[1], r)
      <4>1. x[2] <= last
        <5>1. CASE x \in ever
          BY <1>2, <1>4, <1>6, <3>1, <5>1, NumbersFresh
        <5>2. CASE x \in {r} \X (s..last)
          BY <5>2
        <5> QED BY <1>3, <5>1, <5>2
      <4>2. CASE Threaded(r)
        <5>1. top'[ThreadOf[r]].seq = last
          BY <1>1, <1>3, <1>5, <4>2 DEF TypeOK, Row
        <5>2. ThreadOf[x[1]] = ThreadOf[r]
          BY <3>1 DEF SameScope
        <5> QED BY <4>1, <4>2, <5>1, <5>2 DEF Counter, Threaded
      <4>3. CASE ~Threaded(r)
        <5>1. x[1] = r
          BY <3>1, <4>3 DEF SameScope
        <5>2. row'[r].seq = Greater(own, last)
          BY <1>1, <1>3 DEF TypeOK, Row
        <5>3. Greater(own, last) >= last /\ Greater(own, last) \in Int
          BY <1>4 DEF Greater
        <5> QED BY <1>4, <1>6, <4>1, <4>3, <5>1, <5>2, <5>3 DEF Counter, Threaded
      <4> QED BY <4>2, <4>3
    <3>2. CASE ~SameScope(x[1], r)
      <4>1. x \in ever
        BY <1>3, <3>2 DEF SameScope
      <4>2. Counter(x[1])' = Counter(x[1])
        BY <1>1, <1>3, <1>5, <1>6, <3>2 DEF Counter, Threaded, SameScope, TypeOK, Row
      <4> QED BY <4>1, <4>2 DEF KeptInv, CounterCovers
    <3> QED BY <3>1, <3>2
  <2> QED BY <2>1 DEF CounterCovers
<1>10. ASSUME NEW x \in ever'
       PROVE  Stored(x)' \/ (x \in ever /\ (Stored(x) => Stored(x)'))
  <2>1. CASE x \in ever
    BY <1>3, <2>1 DEF Stored
  <2>2. CASE x \in {r} \X (s..last)
    <3>1. x[1] = r /\ x[2] \in s..last
      BY <2>2
    <3>2. PICK e \in Appended(r, s, last, terminal) : e.run = r /\ e.seq = x[2]
      BY <1>4, <3>1, AppendedCovers
    <3> QED BY <1>3, <3>1, <3>2 DEF Stored
  <2> QED BY <1>3, <2>1, <2>2
<1>11. LoadedCovers'
  <2>1. SUFFICES ASSUME NEW w \in Slots, NEW x \in ever', tx'[w].run # NoRun,
                        SameScope(x[1], tx'[w].run), x[2] > Base(w)'
                 PROVE  Stored(x)'
    BY DEF LoadedCovers, SameScope, Threaded
  <2>2. CASE tx'[w] = tx[w]
    BY <1>10, <2>1, <2>2 DEF KeptInv, LoadedCovers, Base
  <2>3. CASE UNCHANGED <<row, top, log, ever>>
    BY <2>1, <2>3, KeptQuiet DEF KeptInv, LoadedCovers
  <2> QED BY <1>1, <2>1, <2>2, <2>3, SessionEffect
<1>12. CursorCommitted'
  BY <1>1, <1>3 DEF KeptInv, CursorCommitted
<1>13. FollowerComplete'
  <2>1. SUFFICES ASSUME client.pc # "expired", NEW x \in ever', ThreadOf[x[1]] = Followed,
                        client.from < x[2], x[2] <= client.cursor
                 PROVE  x \in client.got
    BY <1>1 DEF FollowerComplete
  <2>2. CASE x \in ever
    BY <2>1, <2>2 DEF KeptInv, FollowerComplete
  <2>3. CASE x \in {r} \X (s..last)
    <3>1. x[1] = r /\ x[2] >= s
      BY <1>4, <2>3
    <3>2. client.from \in Int /\ client.cursor \in Int
      BY <1>1 DEF TypeOK, Client, Seq0
    <3>3. PICK y \in ever : ThreadOf[y[1]] = Followed /\ y[2] = client.cursor
      BY <1>6, <2>1, <3>2 DEF KeptInv, CursorCommitted
    <3>4. SameScope(y[1], r)
      BY <2>1, <3>1, <3>3, EventConstants DEF SameScope, Threaded
    <3>5. s > client.cursor
      BY <1>2, <3>3, <3>4, NumbersFresh
    <3> QED BY <1>4, <1>6, <2>1, <3>1, <3>2, <3>5
  <2> QED BY <1>3, <2>2, <2>3
<1> QED BY <1>7, <1>8, <1>9, <1>11, <1>12, <1>13 DEF KeptInv

\* Retention keeps it: it does not take what an open finalisation relies on.
LEMMA KeptPrune ==
    ASSUME KeptInv, LogInv', NEW r \in Runs, NEW batch \in SUBSET log, Prune(r, batch)
    PROVE  KeptInv'
<1>1. TypeOK /\ TypeOK'
  BY DEF KeptInv, LogInv
<1>2. /\ log' = log \ batch /\ UNCHANGED <<ever, tx, client>>
      /\ \A e \in batch : OldEnough(e)
  BY DEF Prune, Prunable
<1>3. \A q \in Runs : Threaded(q) => ThreadOf[q] \in Threads
  BY EventConstants DEF Threaded
<1>4. \A q \in Runs : row'[q].exists = row[q].exists /\ row'[q].seq = row[q].seq
  BY <1>1 DEF Prune, TypeOK, Row
<1>5. \A t \in Threads : top'[t].exists = top[t].exists /\ top'[t].seq = top[t].seq
  BY <1>1, <1>3 DEF Prune, PrunedTop, TypeOK, Row
<1>6. AllExist'
  BY <1>4, <1>5 DEF KeptInv, AllExist
<1>7. InHistory' /\ CursorCommitted' /\ FollowerComplete'
  BY <1>2 DEF KeptInv, InHistory, CursorCommitted, FollowerComplete
<1>8. CounterCovers'
  <2>1. ASSUME NEW x \in ever
        PROVE  Counter(x[1])' = Counter(x[1])
    <3>1. x[1] \in Runs
      BY <1>1 DEF TypeOK
    <3> QED BY <1>3, <1>4, <1>5, <3>1 DEF Counter, Threaded
  <2> QED BY <1>2, <2>1 DEF KeptInv, CounterCovers
<1>9. LoadedCovers'
  <2>1. SUFFICES ASSUME NEW w \in Slots, NEW x \in ever, tx[w].run # NoRun,
                        SameScope(x[1], tx[w].run), x[2] > Base(w)
                 PROVE  Stored(x)'
    BY <1>2 DEF LoadedCovers, SameScope, Threaded, Base
  <2>2. PICK e \in log : e.run = x[1] /\ e.seq = x[2]
    BY <2>1 DEF KeptInv, LoadedCovers, Stored
  <2>3. SameScope(tx[w].run, e.run)
    BY <2>1, <2>2, ScopeSymmetric
  <2>4. Base(w) \in Int /\ x[2] \in Int
    BY <1>1, CounterTypes DEF Seq0, TypeOK, Sequence
  <2>5. e \notin batch
    BY <1>2, <2>1, <2>2, <2>3, <2>4 DEF OldEnough
  <2> QED BY <1>2, <2>2, <2>5 DEF Stored
<1> QED BY <1>6, <1>7, <1>8, <1>9 DEF KeptInv

\* A step of the client keeps it: a poll that is not refused finds everything
\* beyond the cursor.
LEMMA KeptClient ==
    ASSUME KeptInv, LogInv', ClientStep
    PROVE  KeptInv'
<1>1. TypeOK /\ client \in Client
  BY DEF KeptInv, LogInv, TypeOK
<1>2. UNCHANGED <<row, ended, top, log, ever, tx>>
  BY DEF ClientStep, Open, Poll, Disconnect
<1>3. AllExist' /\ InHistory' /\ CounterCovers' /\ LoadedCovers'
  BY <1>2 DEF KeptInv, AllExist, InHistory, CounterCovers, LoadedCovers, Counter, Base, Stored
<1>4. CASE \E c \in Seq0 : Open(c)
  <2>1. PICK c \in Seq0 : Open(c) BY <1>4
  <2>2. client' = [client EXCEPT !.pc = "on", !.cursor = c,
                                 !.from = IF client.got = {} THEN c ELSE @]
    BY <2>1 DEF Open
  <2>3. CASE client.got = {}
    <3>1. client'.cursor = c /\ client'.from = c
      BY <1>1, <2>2, <2>3 DEF Client
    <3>2. \A x \in ever : ~(c < x[2] /\ x[2] <= c)
      BY <1>1, EventConstants DEF TypeOK, Sequence, Seq0
    <3> QED BY <1>2, <1>3, <3>1, <3>2 DEF KeptInv, CursorCommitted, FollowerComplete
  <2>4. CASE client.got # {}
    <3>1. /\ client'.cursor = client.cursor /\ client'.from = client.from
          /\ client'.got = client.got /\ client.pc = "off"
      BY <1>1, <2>1, <2>2, <2>4 DEF Open, Client
    <3> QED BY <1>2, <1>3, <3>1 DEF KeptInv, CursorCommitted, FollowerComplete
  <2> QED BY <2>3, <2>4
<1>5. CASE \E upto \in Sequence : Poll(upto)
  <2>1. PICK upto \in Sequence : Poll(upto) BY <1>5
  <2>2. CASE Expired
    <3>1. /\ client'.cursor = client.cursor /\ client'.from = client.from
          /\ client'.pc = "expired"
      BY <1>1, <2>1, <2>2 DEF Poll, Client
    <3> QED BY <1>2, <1>3, <3>1 DEF KeptInv, CursorCommitted, FollowerComplete
  <2>3. CASE ~Expired
    <3> DEFINE read == {<<e.run, e.seq>> : e \in {x \in Unread : x.seq <= upto}}
    <3>1. /\ \E e \in Unread : e.seq = upto
          /\ client' = [client EXCEPT
                !.cursor = upto,
                !.got = @ \cup read,
                !.pc = IF \A e \in Unread : e.seq <= upto THEN "on" ELSE "off"]
          /\ client.pc = "on"
      BY <2>1, <2>3 DEF Poll
    <3>2. /\ client'.cursor = upto /\ client'.from = client.from
          /\ client'.got = client.got \cup read
      BY <1>1, <3>1 DEF Client
    <3>3. CursorCommitted'
      <4>1. PICK e \in Unread : e.seq = upto BY <3>1
      <4>2. <<e.run, e.seq>> \in ever /\ ThreadOf[e.run] = Followed
        BY <4>1 DEF KeptInv, InHistory, Unread
      <4> QED BY <1>2, <3>2, <4>1, <4>2 DEF CursorCommitted
    <3>4. FollowerComplete'
      <4>1. SUFFICES ASSUME NEW x \in ever, ThreadOf[x[1]] = Followed,
                            client.from < x[2], x[2] <= upto
                     PROVE  x \in client.got \cup read
        BY <1>2, <3>2 DEF FollowerComplete
      <4>2. x[1] \in Runs /\ x[2] \in Int /\ x = <<x[1], x[2]>> /\ client.cursor \in Int
        BY <1>1 DEF TypeOK, Sequence, Client, Seq0
      <4>3. CASE x[2] <= client.cursor
        BY <3>1, <4>1, <4>3 DEF KeptInv, FollowerComplete
      <4>4. CASE x[2] > client.cursor
        <5>1. Threaded(x[1]) /\ CanRecord(x[1])
          BY <4>1, <4>2, EventConstants DEF Threaded, CanRecord, KeptInv, AllExist
        <5>2. top[Followed].pruned \in Int
          BY <1>1, EventConstants DEF TypeOK, Row, Seq0
        <5>3. x[2] > top[ThreadOf[x[1]]].pruned
          BY <2>3, <4>1, <4>2, <4>4, <5>2 DEF Expired
        <5>4. Stored(x)
          BY <5>1, <5>3 DEF KeptInv, LogInv, ThreadReplayComplete
        <5>5. PICK e \in log : e.run = x[1] /\ e.seq = x[2]
          BY <5>4 DEF Stored
        <5>6. e \in Unread /\ e.seq <= upto
          BY <4>1, <4>4, <5>5 DEF Unread
        <5> QED BY <4>2, <5>5, <5>6
      <4> QED BY <4>2, <4>3, <4>4
    <3> QED BY <1>3, <3>3, <3>4 DEF KeptInv
  <2> QED BY <2>2, <2>3
<1>6. CASE Disconnect
  <2>1. /\ client'.cursor = client.cursor /\ client'.from = client.from
        /\ client'.got = client.got /\ client.pc = "on"
    BY <1>1, <1>6 DEF Disconnect, Client
  <2> QED BY <1>2, <1>3, <2>1 DEF KeptInv, CursorCommitted, FollowerComplete
<1> QED BY <1>4, <1>5, <1>6 DEF ClientStep

\* Every step without a deletion keeps the invariant.
LEMMA KeptStep ==
    ASSUME KeptInv, [NextKept]_vars
    PROVE  KeptInv'
<1>1. LogInv'
  BY LogStep DEF NextKept, Next, KeptInv
<1>2. CASE WriterStep
  <2>1. CASE Quiet
    BY <1>1, <1>2, <2>1, KeptQuiet DEF Quiet
  <2>2. CASE SomeWrote
    BY <1>1, <1>2, <2>2, KeptWrote
  <2> QED BY <1>2, <2>1, <2>2, WriterEffect DEF KeptInv, LogInv
<1>3. CASE PruneStep
  BY <1>1, <1>3, KeptPrune DEF PruneStep
<1>4. CASE ClientStep
  BY <1>1, <1>4, KeptClient
<1>5. CASE UNCHANGED vars
  BY <1>1, <1>5 DEF vars, KeptInv, AllExist, InHistory, CounterCovers, LoadedCovers,
                    CursorCommitted, FollowerComplete, Counter, Base, Stored
<1> QED BY <1>2, <1>3, <1>4, <1>5 DEF NextKept

\* The initial state satisfies it.
LEMMA KeptInit == Init => KeptInv
<1>1. ASSUME Init
      PROVE  KeptInv
  <2>1. log = {} /\ ever = {} /\ client.cursor = client.from
    BY <1>1 DEF Init
  <2>2. AllExist
    BY <1>1 DEF Init, AllExist
  <2> QED BY <1>1, <2>1, <2>2, LogInit
         DEF KeptInv, InHistory, CounterCovers, LoadedCovers, CursorCommitted, FollowerComplete
<1> QED BY <1>1

\* While nothing is deleted, a client that resumes a thread stream with its last
\* id misses nothing between its first cursor and its last, or is told that its
\* cursor has expired.
THEOREM FollowerMissesNothing == SpecKept => []FollowerComplete
<1>1. KeptInv => FollowerComplete
  BY DEF KeptInv
<1> QED BY <1>1, KeptInit, KeptStep, PTL DEF SpecKept

\* While nothing is deleted, the numbers of a thread only grow, although
\* finalisations go by counters they loaded without a lock.
THEOREM NumbersMonotone == SpecKept => SequenceMonotone
<1> DEFINE Grow == \A x \in ever' \ ever : \A y \in ever : SameScope(y[1], x[1]) => x[2] > y[2]
<1>1. ASSUME KeptInv, [NextKept]_vars
      PROVE  [Grow]_vars
  <2>1. CASE WriterStep /\ SomeWrote
    <3>1. PICK r \in Runs, s \in Sequence, last \in Sequence, own \in Seq0,
               terminal \in BOOLEAN : Wrote(r, s, last, own, terminal)
      BY <2>1 DEF SomeWrote
    <3>2. SUFFICES ASSUME NEW x \in ever' \ ever, NEW y \in ever, SameScope(y[1], x[1])
                   PROVE  x[2] > y[2]
      BY DEF SameScope, Threaded
    <3>3. x[1] = r /\ x[2] \in s..last
      BY <3>1, <3>2 DEF Wrote
    <3>4. s > y[2]
      BY <1>1, <3>1, <3>2, <3>3, NumbersFresh
    <3>5. y[2] \in Int /\ s \in Int /\ last \in Int
      BY <1>1 DEF KeptInv, LogInv, TypeOK, Sequence
    <3> QED BY <3>3, <3>4, <3>5
  <2>2. CASE ever' = ever
    BY <2>2
  <2>3. CASE WriterStep /\ Quiet
    BY <2>2, <2>3 DEF Quiet
  <2>4. CASE PruneStep \/ ClientStep \/ UNCHANGED vars
    BY <2>2, <2>4 DEF PruneStep, Prune, ClientStep, Open, Poll, Disconnect, vars
  <2> QED BY <1>1, <2>1, <2>3, <2>4, WriterEffect DEF NextKept, KeptInv, LogInv
<1> QED BY <1>1, KeptInit, KeptStep, PTL DEF SpecKept, SequenceMonotone

=============================================================================
