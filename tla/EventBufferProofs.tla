------------------------- MODULE EventBufferProofs --------------------------
(***************************************************************************)
(* Proofs about RunStream and EventBuffer: the log has the events in the   *)
(* order of the graph and, when the execution is over, all of them; while  *)
(* Redis works, the client gets the numbers after its cursor one by one,   *)
(* across the hand-over and reconnections, and a stream that went live is  *)
(* complete when it closes.  Batches and logs have any size.               *)
(***************************************************************************)
EXTENDS EventBuffer, SequenceTheorems, FiniteSetTheorems, WellFoundedInduction, TLAPS

-----------------------------------------------------------------------------
(* The inductive invariant: the worker *)

\* Events before those that wait in the buffer or for its flush.
Base == made - Len(pending) - (IF other THEN 1 ELSE 0)

\* The buffer holds consecutive events, the last ones but the one that waits.
PendingInv == Base \in Nat /\ \A i \in 1..Len(pending) : pending[i] = Base + i

\* Who publishes: the graph has a full batch or another event in hand, which
\* comes after the buffer, and never after its end.
FlushInv ==
    /\ flush.committed => ~Unlocked
    /\ other => exec = "running" /\ flush.by \in {"graph", "other"}
    /\ flush.by \in {"graph", "other"} => exec = "running"
    /\ flush.by = "other" => other /\ pending = <<>>
    /\ exec = "running" /\ Len(pending) = BatchSize => flush.by = "graph"
    /\ flush.by = "final" => exec = "final"
    /\ flush.by \in {"timer", "final"} => ~timer
    /\ exec \in {"over", "ended"} =>
           ~timer /\ Unlocked /\ (pending = <<>> \/ error \/ strike \in {"saved", "lost"})
    /\ exec = "running" => strike = "none"
    /\ strike \in {"saved", "lost"} => exec \in {"over", "ended"}

\* Everything before the buffer is in the log, and what is being published as
\* soon as it is committed, also if the last flush is struck afterwards.
StoredInv ==
    /\ \A e \in 1..Base : Contains(log, e)
    /\ flush.committed => \A i \in 1..Len(Batch) : Contains(log, Batch[i])
    /\ strike = "saved" => \A i \in 1..Len(pending) : Contains(log, pending[i])

\* An execution that is struck publishes what it had in hand at most twice.
SizeInv ==
    LET end == IF term = 0 THEN 0 ELSE 1
        new == IF flush.committed THEN Len(Batch) ELSE 0
    IN  IF strike = "none" THEN n = Base + new + end
        ELSE n + (IF flush.committed THEN 0 ELSE Len(pending)) <= made + made + end

WorkerInv == PendingInv /\ FlushInv /\ StoredInv /\ LogInOrder /\ SizeInv

-----------------------------------------------------------------------------
(* The inductive invariant: the stream *)

\* Event k waits for its fan-out.
Waits(k) == \E p \in Publishers : Contains(out[p], k)

Increasing(s) == \A i, j \in 1..Len(s) : i < j => s[i] < s[j]

\* Every committed event waits at one place, in order; nothing else does.
OutInv ==
    /\ \A p \in Publishers : Increasing(out[p]) /\ \A i \in 1..Len(out[p]) : out[p][i] <= n
    /\ \A p, q \in Publishers : \A k \in Events :
           Contains(out[p], k) /\ Contains(out[q], k) => p = q

\* What was fanned out.
Fanned(k) == k <= n /\ ~Waits(k)

\* In order, without a gap.
CleanInv ==
    /\ \A k, l \in 1..n : k < l /\ Fanned(l) => Fanned(k)
    /\ Increasing(store) /\ \A i \in 1..Len(store) : Fanned(store[i])

\* The number the client has reached.
High == reader.from + Len(got)

\* Frames come once and in order; the connection has sent the numbers after its
\* cursor, and from the replay on everything above them that was fanned out is in
\* its queue, in order.
ReaderInv ==
    /\ Contiguous
    /\ High <= n
    /\ reader.pc # "off" => reader.cursor <= High
    /\ reader.pc \in Open \cup Closed => reader.seen = (reader.cursor + 1)..High
    /\ reader.pc \in Open =>
           /\ Increasing(reader.queue)
           /\ \A i \in 1..Len(reader.queue) : Fanned(reader.queue[i])
    /\ reader.pc \in {"check", "live"} =>
           \A k \in (High + 1)..n : Fanned(k) => Contains(reader.queue, k)
    /\ reader.pc \in {"drained", "finished"} => term # 0 /\ term <= High

\* Whatever Redis does, frames lie after the cursor, and a replay comes first.
SeenInv ==
    /\ \A k \in reader.seen : k > reader.cursor
    /\ reader.pc = "replay" => reader.seen = {}

StreamInv == OutInv /\ SeenInv /\ (clean => CleanInv /\ ReaderInv)

IInv == TypeOK /\ WorkerInv /\ StreamInv

-----------------------------------------------------------------------------
(* Sequences, and numbers in their order *)

LEMMA ContainsConcat ==
    ASSUME NEW S, NEW s \in Seq(S), NEW t \in Seq(S), NEW e
    PROVE  /\ s \o t \in Seq(S)
           /\ Contains(s \o t, e) <=> Contains(s, e) \/ Contains(t, e)
  <1>1. /\ s \o t \in Seq(S)
        /\ Len(s \o t) = Len(s) + Len(t)
        /\ \A i \in 1..(Len(s) + Len(t)) :
              (s \o t)[i] = IF i <= Len(s) THEN s[i] ELSE t[i - Len(s)]
    BY ConcatProperties
  <1>2. Len(s) \in Nat /\ Len(t) \in Nat
    BY LenProperties
  <1>3. ASSUME Contains(s, e)
        PROVE  Contains(s \o t, e)
    BY <1>1, <1>2, <1>3 DEF Contains
  <1>4. ASSUME Contains(t, e)
        PROVE  Contains(s \o t, e)
    <2>1. PICK i \in 1..Len(t) : t[i] = e
      BY <1>4 DEF Contains
    <2>2. /\ Len(s) + i \in 1..(Len(s) + Len(t))
          /\ ~(Len(s) + i <= Len(s)) /\ (Len(s) + i) - Len(s) = i
      BY <1>2
    <2>3. (s \o t)[Len(s) + i] = e
      BY <1>1, <2>1, <2>2
    <2> QED
      BY <1>1, <2>2, <2>3 DEF Contains
  <1>5. ASSUME Contains(s \o t, e)
        PROVE  Contains(s, e) \/ Contains(t, e)
    <2>1. PICK i \in 1..(Len(s) + Len(t)) : (s \o t)[i] = e
      BY <1>1, <1>5 DEF Contains
    <2>2. CASE i <= Len(s)
      BY <1>1, <1>2, <2>1, <2>2 DEF Contains
    <2>3. CASE ~(i <= Len(s))
      <3>1. i - Len(s) \in 1..Len(t) /\ t[i - Len(s)] = e
        BY <1>1, <1>2, <2>1, <2>3
      <3> QED
        BY <3>1 DEF Contains
    <2> QED
      BY <2>2, <2>3
  <1> QED
    BY <1>1, <1>3, <1>4, <1>5

LEMMA ContainsAppend ==
    ASSUME NEW S, NEW s \in Seq(S), NEW x \in S, NEW e
    PROVE  /\ Append(s, x) \in Seq(S)
           /\ Contains(Append(s, x), e) <=> Contains(s, e) \/ e = x
  <1>1. /\ Append(s, x) \in Seq(S)
        /\ Len(Append(s, x)) = Len(s) + 1
        /\ \A i \in 1..Len(s) : Append(s, x)[i] = s[i]
        /\ Append(s, x)[Len(s) + 1] = x
    BY AppendProperties
  <1>2. Len(s) \in Nat
    BY LenProperties
  <1> QED
    BY <1>1, <1>2 DEF Contains

LEMMA ContainsTail ==
    ASSUME NEW S, NEW s \in Seq(S), s # <<>>, NEW e
    PROVE  /\ Tail(s) \in Seq(S) /\ Head(s) \in S
           /\ Contains(s, e) <=> e = Head(s) \/ Contains(Tail(s), e)
  <1>1. /\ Tail(s) \in Seq(S) /\ Head(s) \in S
        /\ Len(Tail(s)) = Len(s) - 1
        /\ \A i \in 1..Len(Tail(s)) : Tail(s)[i] = s[i + 1]
    BY HeadTailProperties
  <1>2. Len(s) \in Nat /\ Len(s) # 0 /\ Head(s) = s[1]
    BY LenProperties, EmptySeq
  <1>3. ASSUME NEW i \in 1..Len(s), s[i] = e, i # 1
        PROVE  Contains(Tail(s), e)
    <2>1. i - 1 \in 1..Len(Tail(s)) /\ (i - 1) + 1 = i
      BY <1>1, <1>2, <1>3
    <2> QED
      BY <1>1, <1>3, <2>1 DEF Contains
  <1>4. ASSUME NEW i \in 1..Len(Tail(s)), Tail(s)[i] = e
        PROVE  Contains(s, e)
    <2>1. i + 1 \in 1..Len(s)
      BY <1>1, <1>2
    <2> QED
      BY <1>1, <1>4, <2>1 DEF Contains
  <1>5. 1 \in 1..Len(s)
    BY <1>2
  <1> QED
    BY <1>1, <1>2, <1>3, <1>4, <1>5 DEF Contains

LEMMA SeqInt ==
    ASSUME NEW S \in SUBSET Nat, NEW s \in Seq(S)
    PROVE  s \in Seq(Int)
  <1>1. S \subseteq Int
    OBVIOUS
  <1> QED
    BY <1>1, SeqMonotonic

\* The tail of an increasing sequence is increasing and above its head.
LEMMA IncreasingTail ==
    ASSUME NEW s \in Seq(Int), s # <<>>, Increasing(s)
    PROVE  /\ Increasing(Tail(s))
           /\ \A e : Contains(Tail(s), e) => Head(s) < e
  <1>1. /\ Len(Tail(s)) = Len(s) - 1
        /\ \A i \in 1..Len(Tail(s)) : Tail(s)[i] = s[i + 1]
    BY HeadTailProperties
  <1>2. Len(s) \in Nat /\ Len(s) # 0 /\ Head(s) = s[1]
    BY LenProperties, EmptySeq
  <1>3. \A i \in 1..Len(Tail(s)) : i + 1 \in 1..Len(s) /\ 1 < i + 1
    BY <1>1, <1>2
  <1>4. Increasing(Tail(s))
    BY <1>1, <1>3 DEF Increasing
  <1>5. 1 \in 1..Len(s)
    BY <1>2
  <1> QED
    BY <1>1, <1>2, <1>3, <1>4, <1>5 DEF Increasing, Contains

LEMMA IncreasingAppend ==
    ASSUME NEW s \in Seq(Int), NEW x \in Int, Increasing(s),
           \A i \in 1..Len(s) : s[i] < x
    PROVE  Increasing(Append(s, x))
  <1>1. /\ Len(Append(s, x)) = Len(s) + 1
        /\ \A i \in 1..Len(s) : Append(s, x)[i] = s[i]
        /\ Append(s, x)[Len(s) + 1] = x
    BY AppendProperties
  <1>2. Len(s) \in Nat
    BY LenProperties
  <1>3. ASSUME NEW i \in 1..(Len(s) + 1), NEW j \in 1..(Len(s) + 1), i < j
        PROVE  Append(s, x)[i] < Append(s, x)[j]
    <2>1. i \in 1..Len(s)
      BY <1>2, <1>3
    <2>2. CASE j = Len(s) + 1
      BY <1>1, <2>1, <2>2
    <2>3. CASE j # Len(s) + 1
      <3>1. j \in 1..Len(s)
        BY <1>2, <2>3
      <3> QED
        BY <1>1, <1>3, <2>1, <3>1 DEF Increasing
    <2> QED
      BY <2>2, <2>3
  <1> QED
    BY <1>1, <1>3 DEF Increasing

\* No, one, or all numbers of an interval.
LEMMA InOrderInterval ==
    ASSUME NEW c \in Nat, NEW m \in Nat
    PROVE  /\ InOrder((c + 1)..m) \in Seq((c + 1)..m)
           /\ Len(InOrder((c + 1)..m)) = IF c < m THEN m - c ELSE 0
           /\ \A i \in 1..Len(InOrder((c + 1)..m)) : InOrder((c + 1)..m)[i] = c + i
  <1> DEFINE S == (c + 1)..m
             l == IF c < m THEN m - c ELSE 0
  <1>1. Cardinality(S) = l
    BY FS_Interval
  <1>2. l \in Nat
    OBVIOUS
  <1>3. ASSUME NEW i \in 1..l
        PROVE  Nth(S, i) = c + i
    <2>1. ASSUME NEW k \in S
          PROVE  Cardinality({j \in S : j <= k}) = k - c
      <3>1. {j \in S : j <= k} = (c + 1)..k
        OBVIOUS
      <3>2. Cardinality((c + 1)..k) = k - c
        BY FS_Interval
      <3> QED
        BY <3>1, <3>2
    <2>2. c + i \in S
      BY <1>2
    <2>3. \A k \in S : Cardinality({j \in S : j <= k}) = i <=> k = c + i
      BY <2>1
    <2> HIDE DEF S
    <2> QED
      BY <2>2, <2>3, Zenon DEF Nth
  <1> HIDE DEF S
  <1>4. InOrder(S) = [i \in 1..l |-> Nth(S, i)]
    BY <1>1 DEF InOrder
  <1>5. \A i \in 1..l : InOrder(S)[i] = c + i
    BY <1>3, <1>4
  <1>6. \A i \in 1..l : c + i \in S
    BY <1>2 DEF S
  <1>7. InOrder(S) \in [1..l -> S]
    BY <1>3, <1>4, <1>6
  <1>8. InOrder(S) \in Seq(S) /\ Len(InOrder(S)) = l
    BY <1>2, <1>7, IsASeq, LenProperties
  <1> QED
    BY <1>5, <1>8 DEF S

\* Induction over numbers, as a least element.
LEMMA Least ==
    ASSUME NEW T \in SUBSET Nat, T # {}
    PROVE  \E x \in T : \A y \in T : x <= y
  <1> DEFINE R == {ss \in Nat \X Nat : ss[1] < ss[2]}
  <1>1. IsWellFoundedOn(R, Nat)
    BY NatLessThanWellFounded DEF OpToRel
  <1>2. \A x, y \in Nat : y < x => <<y, x>> \in R
    OBVIOUS
  <1> HIDE DEF R
  <1>3. PICK x \in T : \A y \in T : ~(<<y, x>> \in R)
    BY <1>1, WFMin, Zenon
  <1>4. \A y \in T : ~(y < x)
    BY <1>2, <1>3
  <1> QED
    BY <1>4

\* A bounded set of numbers has a maximum.
LEMMA MaxInSet ==
    ASSUME NEW S \in SUBSET Nat, S # {}, NEW m \in Nat, \A x \in S : x <= m
    PROVE  Max(S) \in S /\ \A x \in S : x <= Max(S)
  <1> DEFINE T == {x \in Nat : \A y \in S : y <= x}
  <1>1. T \in SUBSET Nat /\ m \in T
    OBVIOUS
  <1>2. PICK x \in T : \A y \in T : x <= y
    <2> HIDE DEF T
    <2> QED
      BY <1>1, Least
  <1>3. x \in S
    <2> SUFFICES ASSUME x \notin S PROVE FALSE
      OBVIOUS
    <2>1. \A y \in S : y < x
      BY <1>2
    <2>2. x > 0 /\ x - 1 \in Nat
      <3>1. PICK y \in S : TRUE
        OBVIOUS
      <3>2. y \in Nat /\ y < x /\ x \in Nat
        BY <1>2, <2>1
      <3> QED
        BY <3>2
    <2>3. \A y \in S : y <= x - 1
      BY <1>2, <2>1
    <2>4. x - 1 \in T
      BY <2>2, <2>3
    <2> QED
      BY <1>2, <2>4
  <1>4. \A y \in S : x >= y
    BY <1>2
  <1>5. Max(S) \in S /\ \A y \in S : Max(S) >= y
    BY <1>3, <1>4, Zenon DEF Max
  <1> QED
    BY <1>5

-----------------------------------------------------------------------------
(* The worker *)

FlushType == [by : {"none", "graph", "other", "timer", "final"}, committed : BOOLEAN]

BufferTypeOK ==
    /\ made \in 0..MaxMade
    /\ other \in BOOLEAN
    /\ pending \in Seq(1..MaxMade) /\ Len(pending) <= BatchSize
    /\ flush \in FlushType
    /\ timer \in BOOLEAN /\ error \in BOOLEAN
    /\ exec \in {"running", "final", "over", "ended"}
    /\ strike \in {"none", "graph", "saved", "lost"}
    /\ log \in Seq(0..MaxMade) /\ Len(log) = n

LEMMA BeginType ==
    /\ Begin("graph") \in FlushType /\ Begin("graph").by = "graph" /\ ~Begin("graph").committed
    /\ Begin("other") \in FlushType /\ Begin("other").by = "other" /\ ~Begin("other").committed
    /\ Begin("timer") \in FlushType /\ Begin("timer").by = "timer" /\ ~Begin("timer").committed
    /\ Begin("final") \in FlushType /\ Begin("final").by = "final" /\ ~Begin("final").committed
    /\ Idle \in FlushType /\ Idle.by = "none" /\ ~Idle.committed
  BY DEF Begin, Idle, FlushType

\* What is proved of the worker; the steps of the stream do not touch it.
WorkerIInv == BufferTypeOK /\ WorkerInv /\ n \in Nat /\ term \in Nat

LEMMA WorkerSame ==
    ASSUME WorkerIInv, UNCHANGED <<n, term, bufferVars>>
    PROVE  WorkerIInv'
  <1>1. UNCHANGED <<made, other, pending, flush, timer, error, exec, strike, log>>
    BY DEF bufferVars
  <1>2. BufferTypeOK' /\ n' \in Nat /\ term' \in Nat
    BY <1>1 DEF WorkerIInv, BufferTypeOK
  <1>3. Base' = Base /\ Batch' = Batch /\ Unlocked' = Unlocked
    BY <1>1 DEF Base, Batch, Unlocked
  <1>4. PendingInv' /\ FlushInv'
    BY <1>1, <1>3 DEF WorkerIInv, WorkerInv, PendingInv, FlushInv
  <1>5. StoredInv'
    BY <1>1, <1>3 DEF WorkerIInv, WorkerInv, StoredInv
  <1>6. LogInOrder'
    BY <1>1 DEF WorkerIInv, WorkerInv, LogInOrder, Before
  <1>7. SizeInv'
    BY <1>1, <1>3 DEF WorkerIInv, WorkerInv, SizeInv
  <1> QED
    BY <1>2, <1>4, <1>5, <1>6, <1>7 DEF WorkerIInv, WorkerInv

\* The numbers the proofs compute with.
LEMMA Counts ==
    ASSUME WorkerIInv
    PROVE  /\ made \in Nat /\ Len(pending) \in Nat /\ n \in Nat /\ term \in Nat
           /\ Base \in Nat /\ MaxMade \in Nat /\ BatchSize \in Nat \ {0}
           /\ pending = <<>> <=> Len(pending) = 0
           /\ made = Base + Len(pending) + (IF other THEN 1 ELSE 0)
  <1>1. made \in Nat /\ Len(pending) \in Nat /\ n \in Nat /\ term \in Nat
    BY BufferConstants, LenProperties DEF WorkerIInv, BufferTypeOK
  <1>2. Base \in Nat /\ made = Base + Len(pending) + (IF other THEN 1 ELSE 0)
    BY <1>1 DEF WorkerIInv, WorkerInv, PendingInv, Base
  <1>3. pending = <<>> <=> Len(pending) = 0
    BY EmptySeq DEF WorkerIInv, BufferTypeOK
  <1> QED
    BY <1>1, <1>2, <1>3, BufferConstants

\* A batch continues where the log ends.
LEMMA BatchIs ==
    ASSUME WorkerIInv, ~Unlocked
    PROVE  /\ Batch \in Seq(1..MaxMade) /\ Len(Batch) \in Nat
           /\ \A i \in 1..Len(Batch) : Batch[i] = Base + i
           /\ flush.by # "other" => Batch = pending
           /\ flush.by = "other" => Len(Batch) = 1 /\ Len(pending) = 0 /\ other
  <1>1. CASE flush.by = "other"
    <2>1. other /\ pending = <<>> /\ Batch = <<made>>
      BY <1>1 DEF WorkerIInv, WorkerInv, FlushInv, Batch
    <2>2. Len(pending) = 0 /\ made = Base + 1 /\ Base \in Nat
      BY <2>1, Counts
    <2>3. made \in 1..MaxMade
      BY <2>2 DEF WorkerIInv, BufferTypeOK
    <2> QED
      BY <1>1, <2>1, <2>2, <2>3
  <1>2. CASE flush.by # "other"
    <2>1. Batch = pending
      BY <1>2 DEF Batch
    <2> QED
      BY <1>2, <2>1, Counts DEF WorkerIInv, BufferTypeOK, WorkerInv, PendingInv
  <1> QED
    BY <1>1, <1>2

\* What is appended keeps the log in order if it is in order itself.
LEMMA LogAppended ==
    ASSUME WorkerIInv, NEW b \in Seq(0..MaxMade),
           \A i \in 1..Len(b) : \A e \in 1..(b[i] - 1) :
              Contains(log, e) \/ \E j \in 1..(i - 1) : b[j] = e,
           log' = log \o b, n' = n + Len(b)
    PROVE  /\ log' \in Seq(0..MaxMade) /\ Len(log') = n' /\ n' \in Nat
           /\ LogInOrder'
           /\ \A e : Contains(log, e) \/ Contains(b, e) => Contains(log', e)
  <1>0. log \in Seq(0..MaxMade) /\ Len(log) = n /\ n \in Nat /\ LogInOrder
    BY DEF WorkerIInv, BufferTypeOK, WorkerInv
  <1>1. Len(b) \in Nat
    BY LenProperties
  <1>2. /\ log' \in Seq(0..MaxMade)
        /\ Len(log') = n + Len(b)
        /\ \A i \in 1..(n + Len(b)) : log'[i] = IF i <= n THEN log[i] ELSE b[i - n]
    BY <1>0, ConcatProperties
  <1>3. \A e : Contains(log, e) \/ Contains(b, e) => Contains(log', e)
    BY <1>0, ContainsConcat
  <1>4. ASSUME NEW i \in 1..(n + Len(b)), NEW e \in 1..(log'[i] - 1)
        PROVE  \E j \in 1..(i - 1) : log'[j] = e
    <2>1. CASE i <= n
      <3>1. i \in 1..Len(log) /\ log'[i] = log[i]
        BY <1>0, <1>1, <1>2, <2>1
      <3>2. PICK j \in 1..(i - 1) : log[j] = e
        BY <1>0, <1>4, <3>1 DEF LogInOrder, Before
      <3>3. j \in 1..(n + Len(b)) /\ j <= n
        BY <1>0, <1>1, <2>1
      <3> QED
        BY <1>2, <3>2, <3>3
    <2>2. CASE ~(i <= n)
      <3>1. i - n \in 1..Len(b) /\ log'[i] = b[i - n]
        BY <1>0, <1>1, <1>2, <2>2
      <3>2. Contains(log, e) \/ \E j \in 1..((i - n) - 1) : b[j] = e
        BY <1>4, <3>1
      <3>3. CASE Contains(log, e)
        <4>1. PICK j \in 1..n : log[j] = e
          BY <1>0, <3>3 DEF Contains
        <4>2. j \in 1..(i - 1) /\ j \in 1..(n + Len(b)) /\ j <= n
          BY <1>0, <1>1, <2>2
        <4> QED
          BY <1>2, <4>1, <4>2
      <3>4. CASE \E j \in 1..((i - n) - 1) : b[j] = e
        <4>1. PICK j \in 1..((i - n) - 1) : b[j] = e
          BY <3>4
        <4>2. /\ n + j \in 1..(i - 1) /\ n + j \in 1..(n + Len(b)) /\ ~(n + j <= n)
              /\ (n + j) - n = j
          BY <1>0, <1>1, <3>1
        <4>3. log'[n + j] = b[j]
          BY <1>2, <4>2
        <4> QED
          BY <4>1, <4>2, <4>3
      <3> QED
        BY <3>2, <3>3, <3>4
    <2> QED
      BY <2>1, <2>2, <1>0
  <1>5. LogInOrder'
    BY <1>2, <1>4 DEF LogInOrder, Before
  <1> QED
    BY <1>0, <1>1, <1>2, <1>3, <1>5

\* The same for the batch and for the terminal event.
LEMMA BatchAppended ==
    ASSUME WorkerIInv, ~Unlocked, log' = log \o Batch, n' = n + Len(Batch)
    PROVE  /\ log' \in Seq(0..MaxMade) /\ Len(log') = n' /\ n' \in Nat
           /\ LogInOrder'
           /\ \A e \in 1..(Base + Len(Batch)) : Contains(log', e)
  <1>1. /\ Batch \in Seq(1..MaxMade) /\ Len(Batch) \in Nat
        /\ \A i \in 1..Len(Batch) : Batch[i] = Base + i
    BY BatchIs
  <1>2. Batch \in Seq(0..MaxMade)
    BY <1>1, SeqMonotonic, Counts
  <1>3. Base \in Nat /\ \A e \in 1..Base : Contains(log, e)
    BY Counts DEF WorkerIInv, WorkerInv, StoredInv
  <1>4. ASSUME NEW i \in 1..Len(Batch), NEW e \in 1..(Batch[i] - 1)
        PROVE  Contains(log, e) \/ \E j \in 1..(i - 1) : Batch[j] = e
    <2>1. Batch[i] = Base + i
      BY <1>1
    <2>2. CASE e <= Base
      BY <1>3, <2>2
    <2>3. CASE e > Base
      <3>1. PICK b \in Nat, l \in Nat : b = Base /\ l = Len(Batch)
        BY <1>1, <1>3
      <3>2. e \in 1..(b + i - 1) /\ i \in 1..l /\ e > b
        BY <2>1, <2>3, <3>1
      <3>3. e - b \in 1..(i - 1) /\ e - b \in 1..l /\ b + (e - b) = e
        BY <3>2
      <3>4. Batch[e - b] = b + (e - b)
        BY <1>1, <3>1, <3>3, Zenon
      <3> QED
        BY <3>3, <3>4
    <2>4. e <= Base \/ e > Base
      BY <1>1, <1>3, <2>1
    <2> QED
      BY <2>2, <2>3, <2>4
  <1>5. /\ log' \in Seq(0..MaxMade) /\ Len(log') = n' /\ n' \in Nat
        /\ LogInOrder'
        /\ \A e : Contains(log, e) \/ Contains(Batch, e) => Contains(log', e)
    BY <1>2, <1>4, LogAppended
  <1>6. ASSUME NEW e \in 1..(Base + Len(Batch))
        PROVE  Contains(log, e) \/ Contains(Batch, e)
    <2>1. CASE e <= Base
      BY <1>3, <2>1
    <2>2. CASE e > Base
      <3>1. e - Base \in 1..Len(Batch)
        BY <1>1, <1>3, <2>2
      <3>2. Batch[e - Base] = Base + (e - Base)
        BY <1>1, <3>1
      <3>3. e \in Int /\ Base \in Int
        BY <1>1, <1>3
      <3>4. Base + (e - Base) = e
        BY <3>3
      <3> QED
        BY <3>1, <3>2, <3>4 DEF Contains
    <2> QED
      BY <1>1, <1>3, <2>1, <2>2
  <1> QED
    BY <1>5, <1>6

LEMMA EndAppended ==
    ASSUME WorkerIInv, log' = Append(log, 0), n' = n + 1
    PROVE  /\ log' \in Seq(0..MaxMade) /\ Len(log') = n' /\ n' \in Nat
           /\ LogInOrder'
           /\ \A e : Contains(log, e) => Contains(log', e)
  <1>1. <<0>> \in Seq(0..MaxMade) /\ Len(<<0>>) = 1 /\ \A i \in 1..1 : <<0>>[i] = 0
    BY BufferConstants
  <1>2. log' = log \o <<0>>
    <2>1. log \in Seq(0..MaxMade) /\ 0 \in 0..MaxMade
      BY BufferConstants DEF WorkerIInv, BufferTypeOK
    <2> QED
      BY <2>1, AppendIsConcat
  <1>3. \A i \in 1..Len(<<0>>) : \A e \in 1..(<<0>>[i] - 1) :
           Contains(log, e) \/ \E j \in 1..(i - 1) : <<0>>[j] = e
    BY <1>1
  <1> DEFINE b == <<0>>
  <1> HIDE DEF b
  <1> QED
    BY <1>1, <1>2, <1>3, LogAppended DEF b

\* A step that writes nothing and starts no flush of its own.
LEMMA NothingLogged ==
    ASSUME WorkerIInv, UNCHANGED <<n, term, log, strike>>, BufferTypeOK', PendingInv', FlushInv',
           Base' = Base, ~flush'.committed, SizeInv', strike = "saved" => pending' = pending
    PROVE  WorkerIInv'
  <1>1. StoredInv'
    BY DEF WorkerIInv, WorkerInv, StoredInv
  <1>2. LogInOrder'
    BY DEF WorkerIInv, WorkerInv, LogInOrder, Before
  <1> QED
    BY <1>1, <1>2 DEF WorkerIInv, WorkerInv

LEMMA AddStep ==
    ASSUME WorkerIInv, Add
    PROVE  WorkerIInv'
  <1>1. /\ exec = "running" /\ ~other /\ Unlocked /\ ~error /\ made < MaxMade
        /\ made' = made + 1 /\ pending' = Append(pending, made + 1)
        /\ UNCHANGED <<other, error, exec, strike, log, n, term>>
    BY DEF Add, Ready, streamVars
  <1>0. strike = "none"
    BY <1>1 DEF WorkerIInv, WorkerInv, FlushInv
  <1>2. /\ made \in Nat /\ Len(pending) \in Nat /\ Base \in Nat /\ made = Base + Len(pending)
        /\ BatchSize \in Nat \ {0} /\ MaxMade \in Nat
    BY <1>1, Counts
  <1>3. /\ pending \in Seq(1..MaxMade) /\ made + 1 \in 1..MaxMade
    BY <1>1, <1>2 DEF WorkerIInv, BufferTypeOK
  <1>4. /\ pending' \in Seq(1..MaxMade) /\ Len(pending') = Len(pending) + 1
        /\ \A i \in 1..Len(pending) : pending'[i] = pending[i]
        /\ pending'[Len(pending) + 1] = made + 1
    BY <1>1, <1>3, AppendProperties
  <1>5. Len(pending) < BatchSize
    BY <1>1, <1>2 DEF WorkerIInv, BufferTypeOK, WorkerInv, FlushInv, Unlocked
  <1>6. \/ Len(pending') = BatchSize /\ flush' = Begin("graph") /\ timer' = timer
        \/ Len(pending') < BatchSize /\ flush' = flush /\ timer' = TRUE
    BY <1>2, <1>4, <1>5 DEF Add
  <1>7. flush.by = "none" /\ ~flush.committed
    BY <1>1 DEF Unlocked, WorkerIInv, WorkerInv, FlushInv
  <1>8. BufferTypeOK'
    <2>1. made' \in 0..MaxMade
      BY <1>1, <1>2
    <2>2. Len(pending') <= BatchSize
      BY <1>2, <1>4, <1>5
    <2>3. flush' \in FlushType
      BY <1>6, BeginType DEF WorkerIInv, BufferTypeOK
    <2> QED
      BY <1>1, <1>4, <1>6, <2>1, <2>2, <2>3 DEF WorkerIInv, BufferTypeOK
  <1>9. Base' = Base
    BY <1>1, <1>2, <1>4 DEF Base
  <1>10. PendingInv'
    <2>1. ASSUME NEW i \in 1..Len(pending')
          PROVE  pending'[i] = Base + i
      <3>1. CASE i = Len(pending) + 1
        BY <1>2, <1>4, <3>1
      <3>2. CASE i # Len(pending) + 1
        <4>1. i \in 1..Len(pending)
          BY <1>2, <1>4, <3>2
        <4> QED
          BY <1>4, <4>1 DEF WorkerIInv, WorkerInv, PendingInv
      <3> QED
        BY <3>1, <3>2
    <2> QED
      BY <1>2, <1>9, <2>1 DEF PendingInv
  <1>11. FlushInv'
    BY <1>0, <1>1, <1>2, <1>6, <1>7, BeginType DEF FlushInv, Unlocked
  <1>12. ~flush'.committed
    BY <1>6, <1>7, BeginType
  <1>13. SizeInv'
    BY <1>0, <1>1, <1>7, <1>9, <1>12 DEF SizeInv, WorkerIInv, WorkerInv
  <1> QED
    BY <1>0, <1>1, <1>8, <1>9, <1>10, <1>11, <1>12, <1>13, NothingLogged

LEMMA AddOtherStep ==
    ASSUME WorkerIInv, AddOther
    PROVE  WorkerIInv'
  <1>1. /\ exec = "running" /\ ~other /\ Unlocked /\ ~error /\ made < MaxMade
        /\ made' = made + 1 /\ other' = TRUE /\ timer' = FALSE
        /\ flush' = IF FlushFirst THEN Begin("graph") ELSE Begin("other")
        /\ UNCHANGED <<pending, error, exec, strike, log, n, term>>
    BY DEF AddOther, Ready, streamVars
  <1>0. strike = "none"
    BY <1>1 DEF WorkerIInv, WorkerInv, FlushInv
  <1>2. /\ made \in Nat /\ Len(pending) \in Nat /\ Base \in Nat /\ made = Base + Len(pending)
        /\ MaxMade \in Nat
    BY <1>1, Counts
  <1>3. flush.by = "none" /\ ~flush.committed
    BY <1>1 DEF Unlocked, WorkerIInv, WorkerInv, FlushInv
  <1>4. /\ flush' \in FlushType
        /\ ~flush'.committed /\ flush'.by \in {"graph", "other"}
        /\ flush'.by = "other" => pending = <<>>
    BY <1>1, BeginType DEF FlushFirst
  <1>5. BufferTypeOK'
    <2>1. made' \in 0..MaxMade
      BY <1>1, <1>2
    <2> QED
      BY <1>1, <1>4, <2>1 DEF WorkerIInv, BufferTypeOK
  <1>6. Base' = Base
    BY <1>1, <1>2 DEF Base
  <1>7. PendingInv'
    BY <1>1, <1>6 DEF WorkerIInv, WorkerInv, PendingInv
  <1>8. FlushInv'
    <2>1. Len(pending) # BatchSize
      BY <1>1, <1>3 DEF WorkerIInv, WorkerInv, FlushInv
    <2> QED
      BY <1>0, <1>1, <1>4, <2>1 DEF FlushInv, Unlocked
  <1>9. SizeInv'
    BY <1>0, <1>1, <1>3, <1>4, <1>6 DEF SizeInv, WorkerIInv, WorkerInv
  <1> QED
    BY <1>0, <1>1, <1>4, <1>5, <1>6, <1>7, <1>8, <1>9, NothingLogged

\* The graph returns, and nothing is lost.
LEMMA GraphReturnsStep ==
    ASSUME WorkerIInv, GraphReturns
    PROVE  WorkerIInv'
  <1>1. /\ exec = "running" /\ flush.by \in {"none", "timer"} /\ exec' = "final"
        /\ UNCHANGED <<n, term, made, other, pending, flush, timer, error, strike, log>>
    BY DEF GraphReturns, streamVars
  <1>2. ~other
    BY <1>1 DEF WorkerIInv, WorkerInv, FlushInv
  <1>3. /\ made \in Nat /\ Len(pending) \in Nat /\ Base \in Nat /\ made = Base + Len(pending)
        /\ n \in Nat /\ (Batch = pending)
    BY <1>1, <1>2, Counts DEF Batch
  <1>4. BufferTypeOK' /\ Base' = Base /\ Batch' = Batch
    BY <1>1 DEF WorkerIInv, BufferTypeOK, Base, Batch
  <1>5. PendingInv' /\ StoredInv' /\ LogInOrder'
    BY <1>1, <1>4 DEF WorkerIInv, WorkerInv, PendingInv, StoredInv, LogInOrder, Before
  <1>6. FlushInv'
    BY <1>1, <1>2 DEF FlushInv, Unlocked, WorkerIInv, WorkerInv
  <1>7. SizeInv'
    <2>1. strike = "none"
      BY <1>1 DEF WorkerIInv, WorkerInv, FlushInv
    <2> QED
      BY <1>1, <1>4, <2>1 DEF SizeInv, WorkerIInv, WorkerInv
  <1> QED
    BY <1>1, <1>4, <1>5, <1>6, <1>7 DEF WorkerIInv, WorkerInv

LEMMA TimerFiresStep ==
    ASSUME WorkerIInv, TimerFires
    PROVE  WorkerIInv'
  <1>1. /\ timer /\ Unlocked /\ timer' = FALSE
        /\ flush' = IF pending = <<>> THEN Idle ELSE Begin("timer")
        /\ UNCHANGED <<n, term, made, other, pending, error, exec, strike, log>>
    BY DEF TimerFires, streamVars
  <1>2. flush.by = "none" /\ ~flush.committed
    BY <1>1 DEF Unlocked, WorkerIInv, WorkerInv, FlushInv
  <1>3. /\ flush' \in FlushType
        /\ ~flush'.committed /\ flush'.by \in {"none", "timer"}
    BY <1>1, BeginType
  <1>4. BufferTypeOK' /\ Base' = Base
    BY <1>1, <1>3 DEF WorkerIInv, BufferTypeOK, Base
  <1>5. PendingInv'
    BY <1>1, <1>4 DEF WorkerIInv, WorkerInv, PendingInv
  <1>6. FlushInv'
    BY <1>1, <1>2, <1>3 DEF FlushInv, Unlocked, WorkerIInv, WorkerInv
  <1>7. SizeInv'
    BY <1>1, <1>2, <1>3, <1>4 DEF SizeInv, WorkerIInv, WorkerInv
  <1> QED
    BY <1>1, <1>3, <1>4, <1>5, <1>6, <1>7, NothingLogged

LEMMA FinalFlushStep ==
    ASSUME WorkerIInv, FinalFlush
    PROVE  WorkerIInv'
  <1>1. /\ exec = "final" /\ Unlocked /\ timer' = FALSE
        /\ \/ (error \/ pending = <<>>) /\ exec' = "over" /\ flush' = flush
           \/ flush' = Begin("final") /\ exec' = exec
        /\ UNCHANGED <<n, term, made, other, pending, error, strike, log>>
    BY DEF FinalFlush, streamVars
  <1>2. flush.by = "none" /\ ~flush.committed /\ ~other
    BY <1>1 DEF Unlocked, WorkerIInv, WorkerInv, FlushInv
  <1>3. /\ flush' \in FlushType
        /\ ~flush'.committed
        /\ \/ flush'.by = "none" /\ exec' = "over" /\ (error \/ pending = <<>>)
           \/ flush'.by = "final" /\ exec' = "final"
    BY <1>1, <1>2, BeginType DEF WorkerIInv, BufferTypeOK
  <1>4. BufferTypeOK' /\ Base' = Base
    BY <1>1, <1>3 DEF WorkerIInv, BufferTypeOK, Base
  <1>5. PendingInv'
    BY <1>1, <1>4 DEF WorkerIInv, WorkerInv, PendingInv
  <1>6. FlushInv'
    BY <1>1, <1>2, <1>3 DEF FlushInv, Unlocked, WorkerIInv, WorkerInv
  <1>7. SizeInv'
    BY <1>1, <1>2, <1>3, <1>4 DEF SizeInv, WorkerIInv, WorkerInv
  <1> QED
    BY <1>1, <1>3, <1>4, <1>5, <1>6, <1>7, NothingLogged

LEMMA FlushCommitStep ==
    ASSUME WorkerIInv, FlushCommit
    PROVE  WorkerIInv'
  <1>1. /\ ~Unlocked /\ ~flush.committed /\ n' = n + Len(Batch) /\ term' = term
        /\ log' = log \o Batch /\ flush' = [flush EXCEPT !.committed = TRUE]
        /\ UNCHANGED <<made, other, pending, timer, error, exec, strike>>
    BY DEF FlushCommit, Commit
  <1>2. flush \in FlushType
    BY DEF WorkerIInv, BufferTypeOK
  <1>3. flush' \in FlushType /\ flush'.by = flush.by /\ flush'.committed
    BY <1>1, <1>2 DEF FlushType
  <1>4. /\ log' \in Seq(0..MaxMade) /\ Len(log') = n' /\ n' \in Nat
        /\ LogInOrder'
        /\ \A e \in 1..(Base + Len(Batch)) : Contains(log', e)
    BY <1>1, BatchAppended
  <1>5. Base' = Base /\ Batch' = Batch /\ Unlocked' = Unlocked
    BY <1>1, <1>3 DEF Base, Batch, Unlocked
  <1>6. /\ Len(Batch) \in Nat /\ Base \in Nat /\ \A i \in 1..Len(Batch) : Batch[i] = Base + i
        /\ Len(pending) \in Nat /\ n \in Nat /\ made \in Nat
    BY <1>1, BatchIs, Counts
  <1>7. BufferTypeOK'
    BY <1>1, <1>3, <1>4 DEF WorkerIInv, BufferTypeOK
  <1>8. PendingInv' /\ FlushInv'
    BY <1>1, <1>3, <1>5 DEF WorkerIInv, WorkerInv, PendingInv, FlushInv
  <1>9. StoredInv'
    <2>1. \A e \in 1..Base : Contains(log', e)
      BY <1>4, <1>6
    <2>2. ASSUME NEW i \in 1..Len(Batch)
          PROVE  Contains(log', Batch[i])
      <3>1. Base + i \in 1..(Base + Len(Batch))
        BY <1>6
      <3> QED
        BY <1>4, <1>6, <3>1
    <2>3. strike' # "saved"
      BY <1>1 DEF WorkerIInv, WorkerInv, FlushInv
    <2> QED
      BY <1>5, <2>1, <2>2, <2>3 DEF StoredInv
  <1>10. SizeInv'
    <2> DEFINE end == IF term = 0 THEN 0 ELSE 1
    <2>1. CASE strike = "none"
      <3>1. n = Base + 0 + end
        BY <1>1, <2>1 DEF WorkerIInv, WorkerInv, SizeInv
      <3>2. n' = Base + Len(Batch) + end
        BY <1>1, <1>6, <3>1
      <3> QED
        BY <1>1, <1>3, <1>5, <2>1, <3>2 DEF SizeInv
    <2>2. CASE strike # "none"
      <3>1. n + Len(pending) <= made + made + end
        BY <1>1, <2>2 DEF WorkerIInv, WorkerInv, SizeInv
      <3>2. Batch = pending
        BY <1>1, <2>2, BatchIs DEF WorkerIInv, WorkerInv, FlushInv
      <3>3. n' + 0 <= made + made + end
        BY <1>1, <1>6, <3>1, <3>2
      <3> QED
        BY <1>1, <1>3, <2>2, <3>3 DEF SizeInv
    <2> QED
      BY <2>1, <2>2
  <1> QED
    BY <1>1, <1>4, <1>7, <1>8, <1>9, <1>10 DEF WorkerIInv, WorkerInv

\* What was to be published stays in the buffer or is given up.
LEMMA FlushFailsStep ==
    ASSUME WorkerIInv, FlushFails
    PROVE  WorkerIInv'
  <1>1. /\ ~Unlocked /\ ~flush.committed /\ flush' = Idle
        /\ error' = (error \/ flush.by # "other")
        /\ made' = IF other THEN made - 1 ELSE made
        /\ other' = FALSE
        /\ exec' = IF flush.by \in {"graph", "other"} THEN "final"
                   ELSE IF flush.by = "final" THEN "over" ELSE exec
        /\ UNCHANGED <<n, term, pending, timer, strike, log>>
    BY DEF FlushFails, streamVars
  <1>2. flush' \in FlushType /\ flush'.by = "none" /\ ~flush'.committed
    BY <1>1, BeginType
  <1>3. /\ made \in Nat /\ Len(pending) \in Nat /\ Base \in Nat /\ n \in Nat
        /\ made = Base + Len(pending) + (IF other THEN 1 ELSE 0)
        /\ made' = Base + Len(pending)
    BY <1>1, Counts
  <1>4. BufferTypeOK'
    <2>1. made' \in Nat /\ made' <= made
      BY <1>3
    <2>2. made' \in 0..MaxMade
      BY <1>3, <2>1, BufferConstants DEF WorkerIInv, BufferTypeOK
    <2> QED
      BY <1>1, <1>2, <2>2 DEF WorkerIInv, BufferTypeOK
  <1>5. Base' = Base
    BY <1>1, <1>3 DEF Base
  <1>6. PendingInv'
    BY <1>1, <1>5 DEF WorkerIInv, WorkerInv, PendingInv
  <1>7. FlushInv'
    BY <1>1, <1>2 DEF FlushInv, Unlocked, WorkerIInv, WorkerInv, BufferTypeOK
  <1>8. SizeInv'
    <2> DEFINE end == IF term = 0 THEN 0 ELSE 1
    <2>1. CASE strike = "none"
      <3>1. n = Base + 0 + end
        BY <1>1, <2>1 DEF WorkerIInv, WorkerInv, SizeInv
      <3> QED
        BY <1>1, <1>2, <1>5, <2>1, <3>1 DEF SizeInv
    <2>2. CASE strike # "none"
      <3>1. n + Len(pending) <= made + made + end
        BY <1>1, <2>2 DEF WorkerIInv, WorkerInv, SizeInv
      <3>2. made' = made
        BY <1>1, <2>2 DEF WorkerIInv, WorkerInv, FlushInv
      <3> QED
        BY <1>1, <1>2, <2>2, <3>1, <3>2 DEF SizeInv
    <2> QED
      BY <2>1, <2>2
  <1> QED
    BY <1>1, <1>2, <1>4, <1>5, <1>6, <1>7, <1>8, NothingLogged

\* What was published leaves the buffer.
LEMMA FlushDoneStep ==
    ASSUME WorkerIInv, FlushDone
    PROVE  WorkerIInv'
  <1>1. /\ flush.committed /\ pending' = Kept
        /\ flush' = IF flush.by = "graph" /\ other THEN Begin("other") ELSE Idle
        /\ other' = (other /\ flush.by # "other")
        /\ exec' = IF flush.by = "final" THEN "over" ELSE exec
        /\ UNCHANGED <<n, term, made, timer, error, strike, log>>
    BY DEF FlushDone, streamVars
  <1>2. ~Unlocked
    BY <1>1 DEF WorkerIInv, WorkerInv, FlushInv
  <1>3. pending' = <<>> /\ Len(pending') = 0 /\ pending' \in Seq(1..MaxMade)
    <2>1. CASE flush.by = "other"
      BY <1>1, <2>1 DEF Kept, WorkerIInv, WorkerInv, FlushInv
    <2>2. CASE flush.by # "other"
      BY <1>1, <2>2 DEF Kept
    <2> QED
      BY <2>1, <2>2
  <1>4. /\ made \in Nat /\ Len(pending) \in Nat /\ Base \in Nat /\ n \in Nat
        /\ made = Base + Len(pending) + (IF other THEN 1 ELSE 0)
        /\ BatchSize \in Nat \ {0}
        /\ Len(Batch) \in Nat /\ \A i \in 1..Len(Batch) : Batch[i] = Base + i
        /\ flush.by # "other" => Batch = pending
        /\ flush.by = "other" => Len(Batch) = 1 /\ Len(pending) = 0 /\ other
    BY <1>2, Counts, BatchIs
  <1>5. Base' = Base + Len(Batch)
    <2>1. Base' = made - 0 - (IF other' THEN 1 ELSE 0)
      BY <1>1, <1>3 DEF Base
    <2>2. CASE flush.by = "other"
      <3>1. ~other'
        BY <1>1, <2>2
      <3>2. made = Base + 0 + 1 /\ Len(Batch) = 1
        BY <1>4, <2>2
      <3>3. Base' = made
        BY <1>4, <2>1, <3>1
      <3> QED
        BY <1>4, <3>2, <3>3
    <2>3. CASE flush.by # "other"
      <3>1. other' = other
        BY <1>1, <2>3 DEF WorkerIInv, BufferTypeOK
      <3> QED
        BY <1>4, <2>1, <2>3, <3>1
    <2> QED
      BY <2>2, <2>3
  <1>6. flush' \in FlushType /\ ~flush'.committed
          /\ flush'.by = (IF flush.by = "graph" /\ other THEN "other" ELSE "none")
    BY <1>1, BeginType
  <1>7. BufferTypeOK'
    BY <1>1, <1>3, <1>4, <1>6 DEF WorkerIInv, BufferTypeOK
  <1>8. PendingInv'
    BY <1>3, <1>4, <1>5 DEF PendingInv
  <1>9. FlushInv'
    BY <1>1, <1>2, <1>3, <1>4, <1>6 DEF FlushInv, Unlocked, WorkerIInv, WorkerInv
  <1>10. StoredInv'
    <2>1. ASSUME NEW e \in 1..(Base + Len(Batch))
          PROVE  Contains(log, e)
      <3>1. CASE e <= Base
        BY <1>4, <3>1 DEF WorkerIInv, WorkerInv, StoredInv
      <3>2. CASE e > Base
        <4>1. e - Base \in 1..Len(Batch) /\ Base + (e - Base) = e
          BY <1>4, <3>2
        <4>2. Batch[e - Base] = e
          BY <1>4, <4>1
        <4> QED
          BY <1>1, <4>1, <4>2 DEF WorkerIInv, WorkerInv, StoredInv
      <3> QED
        BY <1>4, <3>1, <3>2
    <2> QED
      BY <1>1, <1>3, <1>5, <1>6, <2>1 DEF StoredInv
  <1>11. LogInOrder'
    BY <1>1 DEF WorkerIInv, WorkerInv, LogInOrder, Before
  <1>12. SizeInv'
    <2> DEFINE end == IF term = 0 THEN 0 ELSE 1
    <2>1. CASE strike = "none"
      <3>1. n = Base + Len(Batch) + end
        BY <1>1, <2>1 DEF WorkerIInv, WorkerInv, SizeInv
      <3>2. n = (Base + Len(Batch)) + 0 + end
        BY <1>4, <3>1
      <3> QED
        BY <1>1, <1>5, <1>6, <2>1, <3>2 DEF SizeInv
    <2>2. CASE strike # "none"
      <3>1. n + 0 <= made + made + end
        BY <1>1, <2>2 DEF WorkerIInv, WorkerInv, SizeInv
      <3> QED
        BY <1>1, <1>3, <1>6, <2>2, <3>1 DEF SizeInv
    <2> QED
      BY <2>1, <2>2
  <1> QED
    BY <1>1, <1>7, <1>8, <1>9, <1>10, <1>11, <1>12 DEF WorkerIInv, WorkerInv

\* The terminal event.
LEMMA EndStep ==
    ASSUME WorkerIInv, term = 0, n' = n + 1, term' = n + 1, log' = Append(log, 0),
           UNCHANGED <<made, other, pending, flush, timer, error, strike>>,
           exec' = exec \/ (exec = "over" /\ exec' = "ended")
    PROVE  WorkerIInv'
  <1>1. /\ log' \in Seq(0..MaxMade) /\ Len(log') = n' /\ n' \in Nat
        /\ LogInOrder'
        /\ \A e : Contains(log, e) => Contains(log', e)
    BY EndAppended
  <1>2. Base' = Base /\ Batch' = Batch /\ Unlocked' = Unlocked
    BY DEF Base, Batch, Unlocked
  <1>3. /\ n \in Nat /\ Base \in Nat /\ Len(pending) \in Nat /\ made \in Nat /\ term' # 0
        /\ flush.committed => Len(Batch) \in Nat
    BY Counts, BatchIs DEF WorkerIInv, WorkerInv, FlushInv
  <1>4. BufferTypeOK'
    BY <1>1 DEF WorkerIInv, BufferTypeOK
  <1>5. PendingInv' /\ FlushInv'
    BY <1>2 DEF WorkerIInv, WorkerInv, PendingInv, FlushInv
  <1>6. StoredInv'
    BY <1>1, <1>2 DEF WorkerIInv, WorkerInv, StoredInv
  <1>7. SizeInv'
    <2> DEFINE new == IF flush.committed THEN Len(Batch) ELSE 0
               rest == IF flush.committed THEN 0 ELSE Len(pending)
    <2>1. CASE strike = "none"
      <3>1. n = Base + new + 0
        BY <2>1 DEF WorkerIInv, WorkerInv, SizeInv
      <3>2. new \in Nat
        BY <1>3
      <3>3. n' = Base + new + 1
        BY <1>3, <3>1, <3>2
      <3> QED
        BY <1>2, <1>3, <2>1, <3>3 DEF SizeInv
    <2>2. CASE strike # "none"
      <3>1. n + rest <= made + made + 0
        BY <2>2 DEF WorkerIInv, WorkerInv, SizeInv
      <3>2. rest \in Nat
        BY <1>3
      <3>3. n' + rest <= made + made + 1
        <4> HIDE DEF rest
        <4> QED
          BY <1>3, <3>1, <3>2
      <3> QED
        BY <1>3, <2>2, <3>3 DEF SizeInv
    <2> QED
      BY <2>1, <2>2
  <1> QED
    BY <1>1, <1>3, <1>4, <1>5, <1>6, <1>7 DEF WorkerIInv, WorkerInv

\* The graph or the last flush is struck at whatever await it has reached.
LEMMA StrikeStep ==
    ASSUME WorkerIInv, NEW cut \in BOOLEAN, NEW through \in BOOLEAN, Strike(cut, through)
    PROVE  WorkerIInv'
  <1> DEFINE saved == flush.by = "other" /\ (through \/ flush.committed)
             end == IF term = 0 THEN 0 ELSE 1
             new == IF flush.committed THEN Len(Batch) ELSE 0
  <1>1. /\ exec \in {"running", "final"} /\ strike = "none" /\ term' = term
        /\ exec' = IF exec = "final" /\ cut THEN "over" ELSE "final"
        /\ strike' = IF exec' = "final" THEN "graph"
                     ELSE IF through \/ flush.committed THEN "saved" ELSE "lost"
        /\ other' = FALSE /\ UNCHANGED <<pending, timer, error>>
        /\ made' = IF other /\ ~saved THEN made - 1 ELSE made
        /\ cut => flush' = Idle /\ ~Unlocked
        /\ ~cut => flush' = flush /\ flush.by \notin {"graph", "other", "final"}
    BY DEF Strike, Broken
  <1>2. \/ through /\ cut /\ ~flush.committed /\ n' = n + Len(Batch) /\ log' = log \o Batch
        \/ ~through /\ n' = n /\ log' = log
    BY DEF Strike, Broken
  <1>3. /\ cut => flush' \in FlushType /\ flush'.by = "none" /\ ~flush'.committed
        /\ flush \in FlushType
    BY <1>1, BeginType DEF WorkerIInv, BufferTypeOK
  <1>4. /\ made \in Nat /\ Len(pending) \in Nat /\ Base \in Nat /\ n \in Nat
        /\ made = Base + Len(pending) + (IF other THEN 1 ELSE 0)
    BY Counts
  <1>5. /\ Unlocked <=> flush.by = "none"
        /\ Unlocked => ~flush.committed
        /\ other => cut
        /\ flush.by = "other" => other
    BY <1>1 DEF Unlocked, WorkerIInv, WorkerInv, FlushInv
  <1>6. ~Unlocked => /\ Len(Batch) \in Nat /\ \A i \in 1..Len(Batch) : Batch[i] = Base + i
                     /\ flush.by # "other" => Batch = pending
                     /\ flush.by = "other" => Len(Batch) = 1 /\ Len(pending) = 0
    BY BatchIs
  <1>7. made' = Base + Len(pending) + (IF saved THEN 1 ELSE 0)
    <2>1. CASE other /\ ~saved
      <3>1. made = Base + Len(pending) + 1 /\ made' = made - 1
        BY <1>1, <1>4, <2>1
      <3> QED
        BY <1>4, <2>1, <3>1
    <2>2. CASE other /\ saved
      <3>1. made = Base + Len(pending) + 1 /\ made' = made
        BY <1>1, <1>4, <2>2
      <3> QED
        BY <1>4, <2>2, <3>1
    <2>3. CASE ~other
      <3>1. made = Base + Len(pending) + 0 /\ made' = made /\ ~saved
        BY <1>1, <1>4, <1>5, <2>3
      <3> QED
        BY <1>4, <3>1
    <2> QED
      BY <2>1, <2>2, <2>3
  <1>8. /\ log' \in Seq(0..MaxMade) /\ Len(log') = n' /\ n' \in Nat
        /\ LogInOrder'
        /\ \A e \in 1..Base : Contains(log', e)
        /\ through => \A e \in 1..(Base + Len(Batch)) : Contains(log', e)
    <2>1. CASE through
      <3>1. /\ ~Unlocked /\ log' = log \o Batch /\ n' = n + Len(Batch) /\ Len(Batch) \in Nat
        BY <1>1, <1>2, <1>6, <2>1
      <3>2. /\ log' \in Seq(0..MaxMade) /\ Len(log') = n' /\ n' \in Nat
            /\ LogInOrder'
            /\ \A e \in 1..(Base + Len(Batch)) : Contains(log', e)
        BY <3>1, BatchAppended
      <3>3. \A e \in 1..Base : e \in 1..(Base + Len(Batch))
        BY <1>4, <3>1
      <3> QED
        BY <3>2, <3>3
    <2>2. CASE ~through
      <3>1. n' = n /\ log' = log
        BY <1>2, <2>2
      <3>2. LogInOrder'
        BY <3>1 DEF WorkerIInv, WorkerInv, LogInOrder, Before
      <3> QED
        BY <2>2, <3>1, <3>2 DEF WorkerIInv, WorkerInv, BufferTypeOK, StoredInv
    <2> QED
      BY <2>1, <2>2
  <1>9. BufferTypeOK'
    <2>1. made' \in Nat /\ made' <= made
      BY <1>1, <1>4, <1>7
    <2>2. made' \in 0..MaxMade
      BY <1>4, <2>1, BufferConstants DEF WorkerIInv, BufferTypeOK
    <2>3. flush' \in FlushType
      BY <1>1, <1>3
    <2> QED
      BY <1>1, <1>8, <2>2, <2>3 DEF WorkerIInv, BufferTypeOK
  <1>10. Base' = Base + (IF saved THEN 1 ELSE 0)
    <2>1. Base' = made' - Len(pending) - 0
      BY <1>1 DEF Base
    <2> QED
      BY <1>4, <1>7, <2>1
  <1>11. PendingInv'
    <2>1. CASE saved
      <3>1. Len(pending) = 0
        BY <1>5, <1>6, <2>1
      <3> QED
        BY <1>1, <1>4, <1>10, <2>1, <3>1 DEF PendingInv
    <2>2. CASE ~saved
      <3>1. Base' = Base
        BY <1>4, <1>10, <2>2
      <3> QED
        BY <1>1, <3>1 DEF PendingInv, WorkerIInv, WorkerInv
    <2> QED
      BY <2>1, <2>2
  <1>12. FlushInv'
    <2>1. strike' \in {"saved", "lost"} <=> exec' = "over"
      BY <1>1
    <2>2. CASE exec' = "over"
      <3>1. cut /\ exec = "final" /\ flush.by \in {"timer", "final"}
        BY <1>1, <1>3, <1>5, <2>2 DEF FlushType, WorkerIInv, WorkerInv, FlushInv
      <3>2. ~timer'
        BY <1>1, <3>1 DEF WorkerIInv, WorkerInv, FlushInv
      <3> QED
        BY <1>1, <1>3, <2>1, <2>2, <3>1, <3>2 DEF FlushInv, Unlocked
    <2>3. CASE exec' = "final" /\ cut
      BY <1>1, <1>3, <2>1, <2>3 DEF FlushInv, Unlocked
    <2>4. CASE exec' = "final" /\ ~cut
      BY <1>1, <2>1, <2>4 DEF FlushInv, Unlocked, WorkerIInv, WorkerInv
    <2> QED
      BY <1>1, <2>2, <2>3, <2>4
  <1>13. StoredInv'
    <2>1. ASSUME saved
          PROVE  Contains(log', Base + 1)
      <3>1. ~Unlocked /\ Len(Batch) = 1 /\ Batch[1] = Base + 1
        BY <1>5, <1>6, <2>1
      <3>2. CASE through
        <4>1. Base + 1 \in 1..(Base + Len(Batch))
          BY <1>4, <3>1
        <4> QED
          BY <1>8, <3>2, <4>1
      <3>3. CASE ~through
        <4>1. flush.committed /\ log' = log
          BY <1>2, <2>1, <3>3
        <4>2. 1 \in 1..Len(Batch)
          BY <3>1
        <4> QED
          BY <3>1, <4>1, <4>2 DEF WorkerIInv, WorkerInv, StoredInv
      <3> QED
        BY <3>2, <3>3
    <2>2. \A e \in 1..Base' : Contains(log', e)
      <3>1. CASE saved
        <4>1. Base' = Base + 1
          BY <1>10, <3>1
        <4>2. \A e \in 1..(Base + 1) : e \in 1..Base \/ e = Base + 1
          BY <1>4
        <4> QED
          BY <1>8, <2>1, <3>1, <4>1, <4>2
      <3>2. CASE ~saved
        <4>1. Base' = Base
          BY <1>4, <1>10, <3>2
        <4> QED
          BY <1>8, <4>1
      <3> QED
        BY <3>1, <3>2
    <2>3. ASSUME flush'.committed
          PROVE  \A i \in 1..Len(Batch') : Contains(log', Batch'[i])
      <3>1. ~cut
        BY <1>3, <2>3
      <3>2. flush' = flush /\ log' = log
        BY <1>1, <1>2, <3>1
      <3>3. Batch' = Batch
        BY <1>1, <3>1, <3>2 DEF Batch
      <3> QED
        BY <2>3, <3>2, <3>3 DEF WorkerIInv, WorkerInv, StoredInv
    <2>4. ASSUME strike' = "saved", NEW i \in 1..Len(pending')
          PROVE  Contains(log', pending'[i])
      <3>1. /\ exec = "final" /\ cut /\ pending' = pending
            /\ through \/ flush.committed
        BY <1>1, <2>4
      <3>2. flush.by # "other" /\ ~Unlocked
        BY <1>1, <3>1 DEF WorkerIInv, WorkerInv, FlushInv
      <3>3. Batch = pending /\ i \in 1..Len(Batch) /\ Batch[i] = Base + i
        BY <1>6, <2>4, <3>1, <3>2
      <3>4. CASE through
        <4>1. Base + i \in 1..(Base + Len(Batch))
          BY <1>4, <1>6, <3>2, <3>3
        <4> QED
          BY <1>8, <3>1, <3>3, <3>4, <4>1
      <3>5. CASE ~through
        <4>1. flush.committed /\ log' = log
          BY <1>2, <3>1, <3>5
        <4> QED
          BY <3>1, <3>3, <4>1 DEF WorkerIInv, WorkerInv, StoredInv
      <3> QED
        BY <3>4, <3>5
    <2> QED
      BY <2>2, <2>3, <2>4 DEF StoredInv
  <1>14. SizeInv'
    <2>1. n = Base + new + end
      BY <1>1 DEF WorkerIInv, WorkerInv, SizeInv
    <2>2. CASE cut
      <3>0. ~Unlocked
        BY <1>1, <2>2
      <3>1. n' <= Base + Len(Batch) + end
        <4>0. Len(Batch) \in Nat
          BY <1>6, <3>0
        <4>1. CASE ~flush.committed
          <5>1. n = Base + 0 + end
            BY <2>1, <4>1
          <5>2. n' = n \/ n' = n + Len(Batch)
            BY <1>2
          <5> QED
            BY <1>4, <4>0, <5>1, <5>2
        <4>2. CASE flush.committed
          <5>1. n = Base + Len(Batch) + end
            BY <2>1, <4>2
          <5>2. n' = n
            BY <1>2, <4>2
          <5> QED
            BY <1>4, <4>0, <5>1, <5>2
        <4> QED
          BY <4>1, <4>2
      <3>2. n' + Len(pending) <= made' + made' + end
        <4>1. CASE flush.by = "other" /\ saved
          <5>1. Len(Batch) = 1 /\ Len(pending) = 0
            BY <1>6, <3>0, <4>1
          <5>2. made' = Base + 0 + 1
            BY <1>7, <4>1, <5>1
          <5>3. /\ n' \in Nat /\ made' \in Nat /\ end \in Nat
                /\ n' <= made' + end
            BY <1>4, <1>8, <3>1, <5>1, <5>2
          <5>4. \A a, b, c \in Nat : a <= b + c => a + 0 <= b + b + c
            OBVIOUS
          <5>5. n' + 0 <= made' + made' + end
            BY <5>3, <5>4
          <5> QED
            BY <5>1, <5>5
        <4>2. CASE flush.by = "other" /\ ~saved
          <5>1. n' = Base + 0 + end
            BY <1>2, <2>1, <4>2
          <5> QED
            BY <1>4, <1>6, <1>7, <3>0, <4>2, <5>1
        <4>3. CASE flush.by # "other"
          <5>1. Len(Batch) = Len(pending) /\ made' = Base + Len(pending) + 0
            BY <1>6, <1>7, <3>0, <4>3
          <5> QED
            BY <1>4, <1>8, <3>1, <5>1
        <4> QED
          BY <4>1, <4>2, <4>3
      <3> QED
        BY <1>1, <1>3, <2>2, <3>2 DEF SizeInv
    <2>3. CASE ~cut
      <3> DEFINE rest == IF flush.committed THEN 0 ELSE Len(pending)
      <3>1. flush' = flush /\ n' = n /\ ~saved /\ flush.by # "other"
        BY <1>1, <1>2, <2>3
      <3>2. new + rest = Len(pending) /\ new \in Nat /\ rest \in Nat
        BY <1>4, <1>5, <1>6, <2>3, <3>1
      <3>3. made' = Base + Len(pending) + 0
        BY <1>7, <3>1
      <3>4. n' + rest <= made' + made' + end
        <4> HIDE DEF new, rest, saved
        <4> QED
          BY <1>4, <2>1, <3>1, <3>2, <3>3
      <3> QED
        BY <1>1, <3>1, <3>4 DEF SizeInv
    <2> QED
      BY <2>2, <2>3
  <1> QED
    BY <1>1, <1>8, <1>9, <1>11, <1>12, <1>13, <1>14 DEF WorkerIInv, WorkerInv

\* Every step of the system.
LEMMA WorkerStep ==
    ASSUME WorkerIInv, Next
    PROVE  WorkerIInv'
  <1>1. CASE StreamStep /\ UNCHANGED bufferVars
    <2>1. UNCHANGED <<n, term>>
      BY <1>1 DEF StreamStep, Publish, Lose, Connects, Connect, ReaderStep, Replay, Check,
                  Receive, Tick, Break
    <2> QED
      BY <1>1, <2>1, WorkerSame
  <1>2. CASE Add \/ AddOther \/ GraphReturns
    BY <1>2, AddStep, AddOtherStep, GraphReturnsStep
  <1>3. CASE Publication
    BY <1>3, TimerFiresStep, FlushCommitStep, FlushFailsStep, FlushDoneStep DEF Publication
  <1>4. CASE \E cut, through \in BOOLEAN : Strike(cut, through)
    BY <1>4, StrikeStep
  <1>5. CASE FinalFlush
    BY <1>5, FinalFlushStep
  <1>6. CASE RecordEnd
    <2>1. CASE term = 0
      BY <1>6, <2>1, EndStep DEF RecordEnd, Commit
    <2>2. CASE term # 0
      <3>1. /\ exec = "over" /\ exec' = "ended" /\ Unlocked
            /\ UNCHANGED <<n, term, made, other, pending, flush, timer, error, strike, log>>
        BY <1>6, <2>2 DEF RecordEnd, streamVars
      <3>2. BufferTypeOK' /\ Base' = Base /\ Batch' = Batch
        BY <3>1 DEF WorkerIInv, BufferTypeOK, Base, Batch
      <3>3. PendingInv' /\ StoredInv' /\ LogInOrder'
        BY <3>1, <3>2 DEF WorkerIInv, WorkerInv, PendingInv, StoredInv, LogInOrder, Before
      <3>4. FlushInv' /\ SizeInv'
        BY <3>1, <3>2 DEF FlushInv, SizeInv, Unlocked, WorkerIInv, WorkerInv
      <3> QED
        BY <3>1, <3>2, <3>3, <3>4 DEF WorkerIInv, WorkerInv
    <2> QED
      BY <2>1, <2>2
  <1>7. CASE CancelRequest
    BY <1>7, EndStep DEF CancelRequest, Commit
  <1> QED
    BY <1>1, <1>2, <1>3, <1>4, <1>5, <1>6, <1>7 DEF Next

\* The bound on the events of the graph bounds the log.
Fits == n <= MaxEvents

LEMMA Bounded ==
    WorkerIInv => Fits
  <1> SUFFICES ASSUME WorkerIInv PROVE n <= MaxEvents
    BY DEF Fits
  <1>1. /\ made \in Nat /\ Len(pending) \in Nat /\ n \in Nat /\ Base \in Nat /\ MaxMade \in Nat
        /\ made = Base + Len(pending) + (IF other THEN 1 ELSE 0)
    BY Counts
  <1>2. made <= MaxMade /\ MaxEvents \in Nat /\ MaxMade + MaxMade + 1 <= MaxEvents
    BY <1>1, BufferConstants, StreamConstants DEF WorkerIInv, BufferTypeOK
  <1>3. n <= made + made + 1
    <2>1. CASE strike = "none"
      <3> DEFINE new == IF flush.committed THEN Len(Batch) ELSE 0
                 end == IF term = 0 THEN 0 ELSE 1
      <3>1. n = Base + new + end
        BY <2>1 DEF WorkerIInv, WorkerInv, SizeInv
      <3>2. new \in Nat /\ Base + new <= made
        <4>1. CASE ~flush.committed
          BY <1>1, <4>1
        <4>2. CASE flush.committed /\ flush.by = "other"
          <5>1. Len(Batch) = 1 /\ Len(pending) = 0 /\ other
            BY <4>2, BatchIs DEF WorkerIInv, WorkerInv, FlushInv
          <5> QED
            BY <1>1, <4>2, <5>1
        <4>3. CASE flush.committed /\ flush.by # "other"
          <5>1. Batch = pending
            BY <4>3 DEF Batch
          <5> QED
            BY <1>1, <4>3, <5>1
        <4> QED
          BY <4>1, <4>2, <4>3
      <3>3. end <= 1 /\ end \in Nat
        OBVIOUS
      <3> HIDE DEF new, end
      <3> QED
        BY <1>1, <3>1, <3>2, <3>3
    <2>2. CASE strike # "none"
      <3> DEFINE rest == IF flush.committed THEN 0 ELSE Len(pending)
                 end == IF term = 0 THEN 0 ELSE 1
      <3>1. n + rest <= made + made + end
        BY <2>2 DEF WorkerIInv, WorkerInv, SizeInv
      <3>2. rest \in Nat /\ end \in Nat /\ end <= 1
        BY <1>1
      <3> HIDE DEF rest, end
      <3> QED
        BY <1>1, <3>1, <3>2
    <2> QED
      BY <2>1, <2>2
  <1>4. \A a, b, c, d \in Nat : a <= b + b + 1 /\ b <= c /\ c + c + 1 <= d => a <= d
    OBVIOUS
  <1> QED
    BY <1>1, <1>2, <1>3, <1>4

-----------------------------------------------------------------------------
(* The stream *)

StreamIInv == StreamTypeOK /\ StreamInv

LEMMA ReaderType ==
    ASSUME StreamTypeOK
    PROVE  /\ reader.pc \in {"off"} \cup Open \cup Closed
           /\ reader.from \in 0..MaxEvents /\ reader.cursor \in 0..MaxEvents
           /\ reader.queue \in Seq(Events) /\ reader.seen \in SUBSET Events
           /\ got \in Seq(Events) /\ Len(got) \in Nat /\ High \in Nat
           /\ n \in Nat /\ term \in Nat /\ MaxEvents \in Nat /\ Events \subseteq Nat
  <1>1. Len(got) \in Nat
    BY LenProperties DEF StreamTypeOK
  <1> QED
    BY <1>1, StreamConstants DEF StreamTypeOK, High, Events

\* Whatever leaves the client alone and waits as before leaves it in step.
LEMMA ReaderSame ==
    ASSUME StreamTypeOK, clean, CleanInv, ReaderInv, UNCHANGED <<reader, got, store>>,
           n' \in Nat, n <= n', term = 0 \/ term' = term,
           \A e \in Nat : Fanned(e)' <=> Fanned(e)
    PROVE  CleanInv' /\ ReaderInv'
  <1>1. /\ n \in Nat /\ store \in Seq(Events) /\ reader.queue \in Seq(Events)
        /\ Events \subseteq Nat /\ High \in Nat
    BY ReaderType DEF StreamTypeOK
  <1>2. \A e \in Nat : Fanned(e) => e <= n
    BY DEF Fanned
  <1>3. CleanInv'
    <2>1. ASSUME NEW k \in 1..n', NEW l \in 1..n', k < l, Fanned(l)'
          PROVE  Fanned(k)'
      <3>1. Fanned(l) /\ k \in 1..n /\ l \in 1..n
        BY <1>1, <1>2, <2>1
      <3> QED
        BY <2>1, <3>1 DEF CleanInv
    <2>2. \A i \in 1..Len(store) : store[i] \in Nat /\ Fanned(store[i])
      BY <1>1, ElementOfSeq DEF CleanInv
    <2>3. \A i \in 1..Len(store') : Fanned(store[i])'
      BY <2>2
    <2>4. Increasing(store')
      BY DEF CleanInv
    <2> QED
      BY <2>1, <2>3, <2>4 DEF CleanInv, Increasing
  <1>4. High' = High
    BY DEF High
  <1>5. ASSUME reader.pc \in Open
        PROVE  /\ Increasing(reader.queue)'
               /\ \A i \in 1..Len(reader'.queue) : Fanned(reader.queue[i])'
    <2>1. \A i \in 1..Len(reader.queue) : reader.queue[i] \in Nat /\ Fanned(reader.queue[i])
      BY <1>1, <1>5, ElementOfSeq DEF ReaderInv
    <2> QED
      BY <1>5, <2>1 DEF ReaderInv, Increasing
  <1>6. ASSUME reader.pc \in {"check", "live"}, NEW k \in (High + 1)..n', Fanned(k)'
        PROVE  Contains(reader.queue, k)
    <2>1. k \in Nat /\ Fanned(k) /\ k \in (High + 1)..n
      BY <1>1, <1>2, <1>6
    <2> QED
      BY <1>6, <2>1 DEF ReaderInv
  <1>7. Contiguous'
    BY DEF ReaderInv, Contiguous
  <1> QED
    BY <1>1, <1>3, <1>4, <1>5, <1>6, <1>7 DEF ReaderInv

\* What is appended to a sequence of small numbers keeps it increasing.
LEMMA IncreasingConcat ==
    ASSUME NEW s \in Seq(Int), NEW m \in Int, NEW k \in Nat, Increasing(s),
           \A i \in 1..Len(s) : s[i] <= m
    PROVE  Increasing(s \o [i \in 1..k |-> m + i])
  <1> DEFINE t == [i \in 1..k |-> m + i]
  <1>1. t \in Seq(Int) /\ Len(t) = k /\ \A i \in 1..k : t[i] = m + i
    BY IsASeq
  <1> HIDE DEF t
  <1>2. /\ Len(s \o t) = Len(s) + k
        /\ \A i \in 1..(Len(s) + k) :
              (s \o t)[i] = IF i <= Len(s) THEN s[i] ELSE t[i - Len(s)]
    BY <1>1, ConcatProperties
  <1>3. Len(s) \in Nat
    BY LenProperties
  <1>4. ASSUME NEW i \in 1..(Len(s) + k), NEW j \in 1..(Len(s) + k), i < j
        PROVE  (s \o t)[i] < (s \o t)[j]
    <2>1. CASE j <= Len(s)
      <3>1. i \in 1..Len(s) /\ j \in 1..Len(s) /\ i <= Len(s)
        BY <1>3, <1>4, <2>1
      <3>2. (s \o t)[i] = s[i] /\ (s \o t)[j] = s[j]
        BY <1>2, <2>1, <3>1
      <3> QED
        BY <1>4, <3>1, <3>2 DEF Increasing
    <2>2. CASE ~(j <= Len(s))
      <3>1. j - Len(s) \in 1..k /\ (s \o t)[j] = m + (j - Len(s))
        BY <1>1, <1>2, <1>3, <2>2
      <3>2. CASE i <= Len(s)
        <4>1. i \in 1..Len(s) /\ (s \o t)[i] = s[i]
          BY <1>2, <1>3, <3>2
        <4>2. s[i] \in Int /\ s[i] <= m
          BY <4>1, ElementOfSeq
        <4> QED
          BY <1>3, <3>1, <4>1, <4>2
      <3>3. CASE ~(i <= Len(s))
        <4>1. i - Len(s) \in 1..k /\ (s \o t)[i] = m + (i - Len(s))
          BY <1>1, <1>2, <1>3, <3>3
        <4> QED
          BY <1>3, <1>4, <3>1, <4>1
      <3> QED
        BY <3>2, <3>3
    <2> QED
      BY <2>1, <2>2
  <1>5. Increasing(s \o t)
    BY <1>2, <1>4 DEF Increasing
  <1> QED
    BY <1>5 DEF t

LEMMA CommitStep ==
    ASSUME StreamIInv, NEW p \in Publishers, NEW k \in Nat, NEW terminal \in BOOLEAN,
           Commit(p, k, terminal), n' <= MaxEvents
    PROVE  StreamIInv'
  <1> DEFINE new == [i \in 1..k |-> n + i]
  <1>1. StreamTypeOK /\ OutInv /\ SeenInv /\ (clean => CleanInv /\ ReaderInv)
    BY DEF StreamIInv, StreamInv
  <1>2. /\ n \in Nat /\ term \in Nat /\ term <= n /\ MaxEvents \in Nat /\ Events \subseteq Nat
        /\ out \in [Publishers -> Seq(Events)]
    BY <1>1, ReaderType DEF StreamTypeOK
  <1>3. /\ n' = n + k /\ n' \in 0..MaxEvents /\ n' \in Nat /\ n <= n'
        /\ UNCHANGED <<store, reader, got, clean, breaks>>
        /\ out' = [out EXCEPT ![p] = @ \o new]
    BY <1>2 DEF Commit
  <1>4. term' \in 0..n' /\ (term = 0 \/ term' = term)
    <2>1. CASE terminal
      BY <1>2, <1>3, <2>1 DEF Commit
    <2>2. CASE ~terminal
      BY <1>2, <1>3, <2>2 DEF Commit
    <2> QED
      BY <2>1, <2>2
  <1>5. new \in Seq(Events) /\ Len(new) = k /\ \A i \in 1..k : new[i] = n + i
    <2>1. \A i \in 1..k : n + i \in Events
      BY <1>2, <1>3 DEF Events
    <2> QED
      BY <2>1, IsASeq
  <1>6. \A e : Contains(new, e) <=> e \in (n + 1)..n'
    <2>1. ASSUME NEW e \in (n + 1)..n' PROVE Contains(new, e)
      <3>1. e - n \in 1..k /\ new[e - n] = e
        BY <1>2, <1>3, <1>5
      <3> QED
        BY <1>5, <3>1 DEF Contains
    <2>2. ASSUME NEW e, Contains(new, e) PROVE e \in (n + 1)..n'
      BY <1>2, <1>3, <1>5, <2>2 DEF Contains
    <2> QED
      BY <2>1, <2>2
  <1> HIDE DEF new
  <1>7. ASSUME NEW q \in Publishers
        PROVE  /\ out[q] \in Seq(Events)
               /\ out'[q] = IF q = p THEN out[p] \o new ELSE out[q]
    BY <1>2, <1>3
  <1>8. ASSUME NEW q \in Publishers
        PROVE  /\ out'[q] \in Seq(Events)
               /\ \A e : Contains(out'[q], e)
                          <=> Contains(out[q], e) \/ (q = p /\ e \in (n + 1)..n')
    <2>1. CASE q = p
      <3>1. out[p] \in Seq(Events) /\ out'[q] = out[p] \o new
        BY <1>7, <2>1
      <3>2. /\ out[p] \o new \in Seq(Events)
            /\ \A e : Contains(out[p] \o new, e) <=> Contains(out[p], e) \/ Contains(new, e)
        BY <1>5, <3>1, ContainsConcat, Zenon
      <3> QED
        BY <1>6, <2>1, <3>1, <3>2
    <2>2. CASE q # p
      BY <1>7, <2>2
    <2> QED
      BY <2>1, <2>2
  <1>9. out' \in [Publishers -> Seq(Events)]
    BY <1>2, <1>3, <1>8
  <1>10. StreamTypeOK'
    BY <1>1, <1>3, <1>4, <1>9 DEF StreamTypeOK
  <1>11. ASSUME NEW q \in Publishers, NEW e, Contains(out[q], e)
         PROVE  e \in Nat /\ e <= n
    <2>1. PICK i \in 1..Len(out[q]) : out[q][i] = e
      BY <1>11 DEF Contains
    <2>2. out[q][i] \in Events
      BY <1>7, ElementOfSeq
    <2> QED
      BY <1>1, <1>2, <2>1, <2>2 DEF OutInv
  <1>12. ASSUME NEW q \in Publishers
         PROVE  Increasing(out[q])' /\ \A i \in 1..Len(out'[q]) : out'[q][i] <= n'
    <2>1. \A i \in 1..Len(out'[q]) : out'[q][i] <= n'
      <3>1. ASSUME NEW i \in 1..Len(out'[q]) PROVE out'[q][i] <= n'
        <4>1. Contains(out'[q], out'[q][i])
          BY DEF Contains
        <4>2. Contains(out[q], out'[q][i]) \/ out'[q][i] \in (n + 1)..n'
          BY <1>8, <4>1
        <4> QED
          BY <1>2, <1>3, <1>11, <4>2
      <3> QED
        BY <3>1
    <2>2. Increasing(out'[q])
      <3>1. CASE q = p
        <4>1. out[q] \in Seq(Int) /\ Increasing(out[q]) /\ \A i \in 1..Len(out[q]) : out[q][i] <= n
          <5>1. out[q] \in Seq(Int)
            BY <1>2, <1>7, SeqInt
          <5> QED
            BY <1>1, <5>1 DEF OutInv
        <4>2. Increasing(out[q] \o [i \in 1..k |-> n + i])
          BY <1>2, <4>1, IncreasingConcat
        <4> QED
          BY <1>7, <3>1, <4>2 DEF new
      <3>2. CASE q # p
        BY <1>1, <1>7, <3>2 DEF OutInv
      <3> QED
        BY <3>1, <3>2
    <2> QED
      BY <2>1, <2>2 DEF Increasing
  <1>13. ASSUME NEW q \in Publishers, NEW r \in Publishers, NEW e \in Events,
                Contains(out'[q], e), Contains(out'[r], e)
         PROVE  q = r
    <2>1. /\ Contains(out[q], e) \/ (q = p /\ e \in (n + 1)..n')
          /\ Contains(out[r], e) \/ (r = p /\ e \in (n + 1)..n')
      BY <1>8, <1>13
    <2>2. e \in (n + 1)..n' => ~Contains(out[q], e) /\ ~Contains(out[r], e)
      BY <1>2, <1>11
    <2> QED
      BY <1>1, <2>1, <2>2 DEF OutInv
  <1>14. OutInv'
    BY <1>12, <1>13 DEF OutInv
  <1>15. ASSUME NEW e \in Nat
         PROVE  Fanned(e)' <=> Fanned(e)
    <2>1. Waits(e)' <=> Waits(e) \/ e \in (n + 1)..n'
      BY <1>8 DEF Waits
    <2> QED
      BY <1>2, <1>3, <2>1 DEF Fanned
  <1>16. SeenInv'
    BY <1>1, <1>3 DEF SeenInv
  <1>17. clean' => CleanInv' /\ ReaderInv'
    BY <1>1, <1>3, <1>4, <1>15, ReaderSame
  <1> QED
    BY <1>10, <1>14, <1>16, <1>17 DEF StreamIInv, StreamInv

\* A publisher drops the first of its events: that one waits no more.
LEMMA TailOut ==
    ASSUME StreamTypeOK, OutInv, NEW p \in Publishers, out[p] # <<>>,
           out' = [out EXCEPT ![p] = Tail(@)], UNCHANGED n
    PROVE  /\ out' \in [Publishers -> Seq(Events)]
           /\ OutInv'
           /\ Head(out[p]) \in Events /\ Head(out[p]) \in Nat /\ Head(out[p]) <= n
           /\ Waits(Head(out[p]))
           /\ \A e \in Events : Waits(e)' <=> Waits(e) /\ e # Head(out[p])
  <1>1. /\ n \in Nat /\ Events \subseteq Nat /\ out \in [Publishers -> Seq(Events)]
        /\ \A q \in Publishers : out[q] \in Seq(Events) /\ Increasing(out[q])
    BY ReaderType DEF StreamTypeOK, OutInv
  <1>2. \A q \in Publishers : out'[q] = IF q = p THEN Tail(out[p]) ELSE out[q]
    BY <1>1
  <1>3. /\ Tail(out[p]) \in Seq(Events) /\ Head(out[p]) \in Events
        /\ \A e : Contains(out[p], e) <=> e = Head(out[p]) \/ Contains(Tail(out[p]), e)
    BY <1>1, ContainsTail
  <1>4. out[p] \in Seq(Int)
    BY <1>1, SeqInt
  <1>5. Increasing(Tail(out[p])) /\ \A e : Contains(Tail(out[p]), e) => Head(out[p]) < e
    BY <1>1, <1>4, IncreasingTail
  <1>6. out' \in [Publishers -> Seq(Events)]
    BY <1>1, <1>2, <1>3
  <1>7. Contains(out[p], Head(out[p])) /\ ~Contains(Tail(out[p]), Head(out[p]))
    <2>1. Head(out[p]) \in Nat
      BY <1>1, <1>3
    <2> QED
      BY <1>3, <1>5, <2>1
  <1>8. \A q \in Publishers : \A e : Contains(out[q], e) => e <= n
    BY <1>1 DEF OutInv, Contains
  <1>9. \A q \in Publishers : \A e : Contains(out'[q], e) => Contains(out[q], e)
    BY <1>2, <1>3
  <1>10. ASSUME NEW q \in Publishers
         PROVE  Increasing(out'[q]) /\ \A i \in 1..Len(out'[q]) : out'[q][i] <= n
    <2>1. Increasing(out'[q])
      BY <1>1, <1>2, <1>5
    <2>2. \A i \in 1..Len(out'[q]) : Contains(out'[q], out'[q][i])
      BY DEF Contains
    <2> QED
      BY <1>8, <1>9, <2>1, <2>2
  <1>11. OutInv'
    <2>1. \A q \in Publishers : Increasing(out[q])' /\ \A i \in 1..Len(out'[q]) : out'[q][i] <= n'
      BY <1>10 DEF Increasing
    <2>2. \A q, r \in Publishers : \A e \in Events :
              Contains(out'[q], e) /\ Contains(out'[r], e) => q = r
      BY <1>9 DEF OutInv
    <2> QED
      BY <2>1, <2>2 DEF OutInv
  <1>12. Waits(Head(out[p]))
    BY <1>7 DEF Waits
  <1>13. ASSUME NEW e \in Events
         PROVE  Waits(e)' <=> Waits(e) /\ e # Head(out[p])
    <2>1. CASE e = Head(out[p])
      <3>1. \A q \in Publishers : ~Contains(out'[q], e)
        <4>1. ASSUME NEW q \in Publishers PROVE ~Contains(out'[q], e)
          <5>1. CASE q = p
            BY <1>2, <1>7, <2>1, <5>1
          <5>2. CASE q # p
            BY <1>2, <1>7, <2>1, <5>2 DEF OutInv
          <5> QED
            BY <5>1, <5>2
        <4> QED
          BY <4>1
      <3> QED
        BY <2>1, <3>1 DEF Waits
    <2>2. CASE e # Head(out[p])
      <3>1. \A q \in Publishers : Contains(out'[q], e) <=> Contains(out[q], e)
        BY <1>2, <1>3, <2>2
      <3> QED
        BY <2>2, <3>1 DEF Waits
    <2> QED
      BY <2>1, <2>2
  <1> QED
    BY <1>1, <1>3, <1>6, <1>7, <1>8, <1>11, <1>12, <1>13

LEMMA StreamSame ==
    ASSUME StreamIInv, UNCHANGED streamVars
    PROVE  StreamIInv'
  <1>1. UNCHANGED <<n, term, out, store, reader, got, clean, breaks>>
    BY DEF streamVars
  <1>2. StreamTypeOK' /\ SeenInv'
    BY <1>1 DEF StreamIInv, StreamInv, StreamTypeOK, SeenInv
  <1>3. OutInv'
    BY <1>1 DEF StreamIInv, StreamInv, OutInv, Increasing
  <1>4. \A e \in Nat : Fanned(e)' <=> Fanned(e)
    BY <1>1 DEF Fanned, Waits
  <1>5. n' \in Nat /\ n <= n' /\ StreamTypeOK
    BY <1>1, ReaderType DEF StreamIInv
  <1>6. clean' => CleanInv' /\ ReaderInv'
    BY <1>1, <1>4, <1>5, ReaderSame DEF StreamIInv, StreamInv
  <1> QED
    BY <1>2, <1>3, <1>6 DEF StreamIInv, StreamInv

LEMMA LoseStep ==
    ASSUME StreamIInv, NEW p \in Publishers, Lose(p)
    PROVE  StreamIInv'
  <1>1. StreamTypeOK /\ OutInv /\ SeenInv
    BY DEF StreamIInv, StreamInv
  <1>2. /\ out[p] # <<>> /\ out' = [out EXCEPT ![p] = Tail(@)] /\ clean' = FALSE
        /\ UNCHANGED <<n, term, store, reader, got, breaks>>
    BY DEF Lose
  <1>3. out' \in [Publishers -> Seq(Events)] /\ OutInv'
    BY <1>1, <1>2, TailOut
  <1>4. StreamTypeOK' /\ SeenInv'
    BY <1>1, <1>2, <1>3 DEF StreamTypeOK, SeenInv
  <1> QED
    BY <1>2, <1>3, <1>4 DEF StreamIInv, StreamInv

\* What a fan-out reaches, the store and the live queue, stays in order.
LEMMA PublishStep ==
    ASSUME StreamIInv, NEW p \in Publishers, Publish(p)
    PROVE  StreamIInv'
  <1>k. PICK k : k = Head(out[p])
    OBVIOUS
  <1>1. StreamTypeOK /\ OutInv /\ SeenInv /\ (clean => CleanInv /\ ReaderInv)
    BY DEF StreamIInv, StreamInv
  <1>2. /\ out[p] # <<>> /\ out' = [out EXCEPT ![p] = Tail(@)]
        /\ store' = IF p \in Local THEN Append(store, k) ELSE store
        /\ reader' = IF reader.pc \in Open
                     THEN [reader EXCEPT !.queue = Append(@, k)] ELSE reader
        /\ clean' = (clean /\ ~\E q \in Publishers, e \in Events : e < k /\ Contains(out[q], e))
        /\ UNCHANGED <<n, term, got, breaks>>
    BY <1>k DEF Publish, Deliver
  <1>3. /\ out' \in [Publishers -> Seq(Events)] /\ OutInv'
        /\ k \in Events /\ k \in Nat /\ k <= n /\ Waits(k)
        /\ \A e \in Events : Waits(e)' <=> Waits(e) /\ e # k
    BY <1>1, <1>2, <1>k, TailOut
  <1>4. /\ reader.queue \in Seq(Events) /\ reader.seen \in SUBSET Events /\ store \in Seq(Events)
        /\ Events \subseteq Nat /\ n \in Nat /\ term \in Nat /\ High \in Nat
        /\ MaxEvents \in Nat /\ n <= MaxEvents
    BY <1>1, ReaderType DEF StreamTypeOK
  <1>5. /\ Append(reader.queue, k) \in Seq(Events) /\ Append(store, k) \in Seq(Events)
        /\ \A e : Contains(Append(reader.queue, k), e) <=> Contains(reader.queue, e) \/ e = k
        /\ \A e : Contains(Append(store, k), e) <=> Contains(store, e) \/ e = k
    BY <1>3, <1>4, ContainsAppend
  <1>6. /\ reader'.pc = reader.pc /\ reader'.from = reader.from
        /\ reader'.cursor = reader.cursor /\ reader'.seen = reader.seen
        /\ reader'.queue = IF reader.pc \in Open THEN Append(reader.queue, k) ELSE reader.queue
    BY <1>1, <1>2 DEF StreamTypeOK
  <1>7. StreamTypeOK'
    <2>1. store' \in Seq(Events)
      BY <1>2, <1>4, <1>5
    <2>2. reader' \in [pc : {"off"} \cup Open \cup Closed, from : 0..MaxEvents,
                       cursor : 0..MaxEvents, queue : Seq(Events), seen : SUBSET Events]
      BY <1>1, <1>2, <1>5 DEF StreamTypeOK
    <2>3. clean' \in BOOLEAN
      BY <1>2
    <2> QED
      BY <1>1, <1>2, <1>3, <2>1, <2>2, <2>3 DEF StreamTypeOK
  <1>8. SeenInv'
    BY <1>1, <1>6 DEF SeenInv
  <1>9. ASSUME clean'
        PROVE  CleanInv' /\ ReaderInv'
    <2>1. /\ clean /\ CleanInv /\ ReaderInv
          /\ \A e \in Events : e < k => ~Waits(e)
      BY <1>1, <1>2, <1>9 DEF Waits
    <2>g. PICK G : G = {e \in Events : e <= n' /\ ~\E q \in Publishers : Contains(out'[q], e)}
      OBVIOUS
    <2>f. \A e \in Events : e \in G <=> Fanned(e)'
      BY <2>g DEF Fanned, Waits
    <2>2. \A e \in Events : e \in G <=> Fanned(e) \/ e = k
      BY <1>2, <1>3, <2>f DEF Fanned
    <2>h. \A e : e \in G => e <= n' /\ ~\E q \in Publishers : Contains(out'[q], e)
      BY <2>g
    <2>3. \A e \in Events : e < k => Fanned(e)
      BY <1>3, <1>4, <2>1 DEF Fanned
    <2>4. \A e \in Events : Fanned(e) => e < k /\ e <= n
      <3>1. ASSUME NEW e \in Events, Fanned(e), ~(e < k)
            PROVE  FALSE
        <4>1. e # k /\ e <= n
          BY <1>3, <3>1 DEF Fanned
        <4>2. e \in 1..n /\ k \in 1..n /\ k < e
          BY <1>3, <1>4, <3>1, <4>1 DEF Events
        <4>3. Fanned(k)
          BY <2>1, <3>1, <4>2 DEF CleanInv
        <4> QED
          BY <1>3, <4>3 DEF Fanned
      <3> QED
        BY <3>1 DEF Fanned
    <2>5. \A e \in 1..n : e \in Events
      BY <1>4 DEF Events
    <2>6. ASSUME NEW s \in Seq(Events), Increasing(s), \A i \in 1..Len(s) : Fanned(s[i])
          PROVE  /\ Increasing(Append(s, k)) /\ \A i \in 1..Len(s) : s[i] \in G
                 /\ \A i \in 1..Len(Append(s, k)) : Append(s, k)[i] \in G
      <3>1. s \in Seq(Int) /\ \A i \in 1..Len(s) : s[i] \in Events
        BY <1>4, <2>6, SeqInt, ElementOfSeq
      <3>2. \A i \in 1..Len(s) : s[i] < k
        BY <2>4, <2>6, <3>1
      <3>3. Increasing(Append(s, k))
        BY <1>3, <2>6, <3>1, <3>2, IncreasingAppend
      <3>4. /\ Len(Append(s, k)) = Len(s) + 1
            /\ \A i \in 1..Len(s) : Append(s, k)[i] = s[i]
            /\ Append(s, k)[Len(s) + 1] = k
        BY <1>3, AppendProperties
      <3>5. \A i \in 1..(Len(s) + 1) : i \in 1..Len(s) \/ i = Len(s) + 1
        BY LenProperties
      <3>6. \A i \in 1..Len(s) : s[i] \in G
        BY <2>2, <2>6, <3>1
      <3>7. k \in G
        BY <1>3, <2>2
      <3>8. \A i \in 1..Len(Append(s, k)) : Append(s, k)[i] \in G
        BY <3>4, <3>5, <3>6, <3>7
      <3> QED
        BY <3>3, <3>6, <3>8
    <2>7. CleanInv'
      <3>1. ASSUME NEW a \in 1..n, NEW b \in 1..n, a < b, Fanned(b)'
            PROVE  Fanned(a)'
        <4>1. a \in Events /\ b \in Events
          BY <2>5
        <4>2. CASE Fanned(b)
          BY <2>1, <2>2, <2>f, <3>1, <4>1, <4>2 DEF CleanInv
        <4>3. CASE b = k
          BY <2>2, <2>3, <2>f, <3>1, <4>1, <4>3
        <4> QED
          BY <2>2, <2>f, <3>1, <4>1, <4>2, <4>3
      <3>2. Increasing(store') /\ \A i \in 1..Len(store') : store'[i] \in G
        <4>1. Increasing(store) /\ \A i \in 1..Len(store) : Fanned(store[i])
          BY <2>1 DEF CleanInv
        <4>2. /\ Increasing(Append(store, k)) /\ \A i \in 1..Len(store) : store[i] \in G
              /\ \A i \in 1..Len(Append(store, k)) : Append(store, k)[i] \in G
          BY <1>4, <2>6, <4>1
        <4>3. store' = Append(store, k) \/ store' = store
          BY <1>2
        <4> QED
          BY <4>1, <4>2, <4>3
      <3>3. \A i \in 1..Len(store') : Fanned(store[i])'
        BY <2>h, <3>2 DEF Fanned, Waits
      <3>4. Increasing(store)'
        BY <3>2 DEF Increasing
      <3> QED
        BY <1>2, <3>1, <3>3, <3>4 DEF CleanInv
    <2>8. High' = High /\ Contiguous'
      BY <1>2, <1>6, <2>1 DEF High, ReaderInv, Contiguous
    <2>9. ASSUME reader.pc \in Open
          PROVE  /\ Increasing(reader.queue)'
                 /\ \A i \in 1..Len(reader'.queue) : Fanned(reader.queue[i])'
      <3>1. reader'.queue = Append(reader.queue, k)
        BY <1>6, <2>9
      <3>2. Increasing(reader.queue) /\ \A i \in 1..Len(reader.queue) : Fanned(reader.queue[i])
        BY <2>1, <2>9 DEF ReaderInv
      <3>3. /\ Increasing(Append(reader.queue, k))
            /\ \A i \in 1..Len(Append(reader.queue, k)) : Append(reader.queue, k)[i] \in G
        BY <1>4, <2>6, <3>2
      <3>4. Increasing(reader'.queue) /\ \A i \in 1..Len(reader'.queue) : reader'.queue[i] \in G
        BY <3>1, <3>3
      <3>5. Increasing(reader.queue)'
        BY <3>4 DEF Increasing
      <3>6. \A i \in 1..Len(reader'.queue) : Fanned(reader.queue[i])'
        BY <2>h, <3>4 DEF Fanned, Waits
      <3> QED
        BY <3>5, <3>6
    <2>10. ASSUME reader.pc \in {"check", "live"}, NEW e \in (High + 1)..n, Fanned(e)'
           PROVE  Contains(reader'.queue, e)
      <3>1. e \in Events /\ reader'.queue = Append(reader.queue, k)
        BY <1>4, <1>6, <2>5, <2>10 DEF Open
      <3>2. Fanned(e) => Contains(reader.queue, e)
        BY <2>1, <2>10 DEF ReaderInv
      <3> QED
        BY <1>5, <2>2, <2>f, <2>10, <3>1, <3>2
    <2> QED
      BY <1>2, <1>6, <2>1, <2>7, <2>8, <2>9, <2>10 DEF ReaderInv
  <1> QED
    BY <1>3, <1>7, <1>8, <1>9 DEF StreamIInv, StreamInv

\* A cancellation may leave committed events behind that nobody fans out; then the
\* fan-out is not clean.
LEMMA StrikeStreamStep ==
    ASSUME StreamIInv, NEW cut \in BOOLEAN, NEW through \in BOOLEAN, Strike(cut, through),
           n' \in 0..MaxEvents, n <= n'
    PROVE  StreamIInv'
  <1>1. StreamTypeOK /\ OutInv /\ SeenInv
    BY DEF StreamIInv, StreamInv
  <1>2. /\ UNCHANGED <<term, store, reader, got, breaks>>
        /\ clean' = (clean /\ ~through /\ out' = out)
        /\ through => out' = out
        /\ ~through => n' = n
        /\ out' = out \/ out' = [out EXCEPT ![Worker] = <<>>]
    <2>1. CASE through
      BY <2>1 DEF Strike
    <2>2. CASE ~through
      <3>1. CASE cut
        BY <2>2, <3>1 DEF Strike
      <3>2. CASE ~cut
        <4>1. out' = [out EXCEPT ![Worker] = @]
          BY <2>2, <3>2 DEF Strike
        <4>2. out' = out
          BY <1>1, <4>1 DEF StreamTypeOK
        <4> QED
          BY <2>2, <4>2 DEF Strike
      <3> QED
        BY <3>1, <3>2
    <2> QED
      BY <2>1, <2>2
  <1>3. CASE clean'
    <2>1. UNCHANGED streamVars
      BY <1>2, <1>3 DEF streamVars
    <2> QED
      BY <2>1, StreamSame
  <1>4. CASE ~clean'
    <2>1. /\ n \in Nat /\ n' \in Nat /\ out \in [Publishers -> Seq(Events)] /\ term \in 0..n
      BY <1>1, ReaderType DEF StreamTypeOK
    <2>2. out' \in [Publishers -> Seq(Events)]
      <3>1. <<>> \in Seq(Events)
        BY EmptySeq
      <3>2. CASE out' = out
        BY <2>1, <3>2
      <3>3. CASE out' = [out EXCEPT ![Worker] = <<>>]
        BY <2>1, <3>1, <3>3, Zenon
      <3> QED
        BY <1>2, <3>2, <3>3
    <2>3. StreamTypeOK'
      <3>1. term' \in 0..n' /\ clean' \in BOOLEAN
        BY <1>2, <2>1
      <3> QED
        BY <1>1, <1>2, <2>2, <3>1 DEF StreamTypeOK
    <2>4. \A q \in Publishers : out'[q] = out[q] \/ out'[q] = <<>>
      BY <1>2, <2>1
    <2>5. \A q \in Publishers :
             Increasing(out'[q]) /\ \A i \in 1..Len(out'[q]) : out'[q][i] <= n'
      <3>1. ASSUME NEW q \in Publishers
            PROVE  Increasing(out'[q]) /\ \A i \in 1..Len(out'[q]) : out'[q][i] <= n'
        <4>1. CASE out'[q] = <<>>
          BY <4>1 DEF Increasing
        <4>2. CASE out'[q] = out[q]
          <5>1. ASSUME NEW i \in 1..Len(out[q]) PROVE out[q][i] <= n'
            <6>1. out[q][i] \in Nat /\ out[q][i] <= n
              BY <1>1, <2>1, ReaderType, ElementOfSeq DEF OutInv
            <6> QED
              BY <2>1, <6>1
          <5> QED
            BY <1>1, <4>2, <5>1 DEF OutInv
        <4> QED
          BY <2>4, <4>1, <4>2
      <3> QED
        BY <3>1
    <2>6. \A q \in Publishers : \A e : Contains(out'[q], e) => Contains(out[q], e)
      BY <2>4 DEF Contains
    <2>7. OutInv'
      <3>1. \A q \in Publishers : Increasing(out[q])' /\ \A i \in 1..Len(out'[q]) : out'[q][i] <= n'
        BY <2>5 DEF Increasing
      <3>2. \A q, r \in Publishers : \A e \in Events :
                Contains(out'[q], e) /\ Contains(out'[r], e) => q = r
        BY <1>1, <2>6 DEF OutInv
      <3> QED
        BY <3>1, <3>2 DEF OutInv
    <2>8. SeenInv'
      BY <1>1, <1>2 DEF SeenInv
    <2> QED
      BY <1>4, <2>3, <2>7, <2>8 DEF StreamIInv, StreamInv
  <1> QED
    BY <1>3, <1>4

ReaderRecords ==
    [pc : {"off"} \cup Open \cup Closed, from : 0..MaxEvents, cursor : 0..MaxEvents,
     queue : Seq(Events), seen : SUBSET Events]

\* The connection sends the numbers from c + 1 to m and goes on with the queue q.
\* If c is as far as the client has got, the frames have no gap.
Sent(c, m, next, q) ==
    /\ reader' \in ReaderRecords /\ got' \in Seq(Events)
    /\ reader'.pc = next /\ reader'.from = reader.from /\ reader'.cursor = reader.cursor
    /\ reader'.queue = q /\ reader'.seen = reader.seen \cup (c + 1)..m
    /\ c = High /\ c <= m /\ (\A i \in 1..Len(got) : got[i] = reader.from + i)
          => High' = m /\ \A i \in 1..Len(got') : got'[i] = reader'.from + i

LEMMA Emitted ==
    ASSUME StreamTypeOK, NEW c \in Nat, NEW m \in 0..MaxEvents, NEW rows,
           NEW next \in Open \cup Closed, NEW q \in Seq(Events),
           Emit(rows, next, q), {k \in rows : Wanted(k)} = (c + 1)..m
    PROVE  Sent(c, m, next, q)
  <1> DEFINE new == (c + 1)..m
             add == InOrder(new)
  <1>1. /\ got' = got \o add
        /\ reader' = [reader EXCEPT !.pc = next, !.queue = q, !.seen = @ \cup new]
    BY DEF Emit
  <1>2. /\ m \in Nat /\ got \in Seq(Events) /\ Len(got) \in Nat /\ reader.from \in Nat
        /\ new \subseteq Events
    BY ReaderType DEF Events
  <1>3. /\ add \in Seq(new) /\ Len(add) = (IF c < m THEN m - c ELSE 0)
        /\ \A i \in 1..Len(add) : add[i] = c + i
    BY <1>2, InOrderInterval
  <1>4. add \in Seq(Events)
    BY <1>2, <1>3, SeqMonotonic
  <1>5. reader.seen \cup new \in SUBSET Events
    BY <1>2, ReaderType
  <1> HIDE DEF new, add
  <1>6. /\ got' \in Seq(Events) /\ Len(got') = Len(got) + Len(add)
        /\ \A i \in 1..(Len(got) + Len(add)) :
              got'[i] = IF i <= Len(got) THEN got[i] ELSE add[i - Len(got)]
    BY <1>1, <1>2, <1>4, ConcatProperties
  <1>7. /\ reader' \in [pc : {"off"} \cup Open \cup Closed, from : 0..MaxEvents,
                        cursor : 0..MaxEvents, queue : Seq(Events), seen : SUBSET Events]
        /\ reader'.pc = next /\ reader'.from = reader.from /\ reader'.cursor = reader.cursor
        /\ reader'.queue = q /\ reader'.seen = reader.seen \cup new
    BY <1>1, <1>5 DEF StreamTypeOK
  <1>8. ASSUME c = High, c <= m, \A i \in 1..Len(got) : got[i] = reader.from + i
        PROVE  High' = m /\ \A i \in 1..Len(got') : got'[i] = reader'.from + i
    <2>1. c = reader.from + Len(got)
      BY <1>8 DEF High
    <2>2. Len(add) \in Nat /\ Len(add) = m - c
      BY <1>2, <1>3, <1>8
    <2>3. reader'.from + Len(got') = m
      <3>1. reader'.from = reader.from /\ Len(got') = Len(got) + Len(add)
        BY <1>6, <1>7
      <3>2. reader.from + (Len(got) + Len(add)) = m
        <4>1. PICK a \in Nat, b \in Nat, x \in Nat :
                 a = reader.from /\ b = Len(got) /\ x = Len(add)
          BY <1>2, <2>2, Zenon
        <4>2. c = a + b /\ x = m - c
          BY <2>1, <2>2, <4>1, Zenon
        <4>3. m \in Nat
          BY <1>2
        <4>4. a + (b + x) = m
          BY <4>2, <4>3
        <4> QED
          BY <4>1, <4>4, Zenon
      <3> QED
        BY <3>1, <3>2
    <2>4. ASSUME NEW i \in 1..(Len(got) + Len(add))
          PROVE  got'[i] = reader.from + i
      <3>1. CASE i <= Len(got)
        BY <1>2, <1>6, <1>8, <2>2, <3>1
      <3>2. CASE ~(i <= Len(got))
        <4>1. i - Len(got) \in 1..Len(add) /\ got'[i] = add[i - Len(got)]
          BY <1>2, <1>6, <2>2, <3>2
        <4>2. got'[i] = c + (i - Len(got))
          BY <1>3, <4>1
        <4> QED
          BY <1>2, <2>1, <4>2
      <3> QED
        BY <3>1, <3>2
    <2> QED
      BY <1>6, <1>7, <2>3, <2>4 DEF High
  <1> QED
    BY <1>6, <1>7, <1>8 DEF new, Sent, ReaderRecords

\* Steps of the client leave the fan-out alone.
LEMMA FanoutSame ==
    ASSUME StreamTypeOK, OutInv, clean => CleanInv, UNCHANGED <<n, term, out, store, clean>>
    PROVE  /\ OutInv' /\ (clean' => CleanInv')
           /\ \A e : Fanned(e)' <=> Fanned(e)
  <1>1. \A e : Fanned(e)' <=> Fanned(e)
    BY DEF Fanned, Waits
  <1>2. OutInv'
    BY DEF OutInv, Increasing
  <1>3. clean' => CleanInv'
    BY DEF CleanInv, Increasing, Fanned, Waits
  <1> QED
    BY <1>1, <1>2, <1>3

\* The queue starts with the process's own messages, the numbers after the cursor
\* come from the log.
LEMMA ConnectStep ==
    ASSUME StreamIInv, NEW c \in 0..MaxEvents, Connect(c)
    PROVE  StreamIInv'
  <1>1. StreamTypeOK /\ OutInv /\ SeenInv /\ (clean => CleanInv /\ ReaderInv)
    BY DEF StreamIInv, StreamInv
  <1>2. /\ reader.pc = "off"
        /\ UNCHANGED <<n, term, out, store, got, clean, breaks>>
        /\ IF got = <<>> THEN c \in 0..n ELSE c = Last(got)
        /\ reader' = [pc |-> "replay", from |-> IF got = <<>> THEN c ELSE reader.from,
                      cursor |-> c, queue |-> store, seen |-> {}]
    BY DEF Connect
  <1>3. /\ got \in Seq(Events) /\ Len(got) \in Nat /\ reader.from \in 0..MaxEvents
        /\ store \in Seq(Events) /\ n \in Nat /\ MaxEvents \in Nat /\ c \in Nat
        /\ got = <<>> <=> Len(got) = 0
    BY <1>1, ReaderType, EmptySeq DEF StreamTypeOK
  <1>4. /\ reader'.pc = "replay" /\ reader'.cursor = c /\ reader'.queue = store
        /\ reader'.seen = {} /\ reader'.from = IF got = <<>> THEN c ELSE reader.from
    BY <1>2
  <1>5. reader' \in [pc : {"off"} \cup Open \cup Closed, from : 0..MaxEvents,
                     cursor : 0..MaxEvents, queue : Seq(Events), seen : SUBSET Events]
    <2>1. reader'.from \in 0..MaxEvents /\ reader'.from = IF got = <<>> THEN c ELSE reader.from
      BY <1>3, <1>4
    <2>2. reader' = [pc |-> "replay", from |-> reader'.from, cursor |-> c,
                     queue |-> store, seen |-> {}]
      BY <1>2, <1>4
    <2> QED
      BY <1>3, <2>1, <2>2 DEF Open
  <1>6. StreamTypeOK'
    BY <1>1, <1>2, <1>5 DEF StreamTypeOK
  <1>7. SeenInv'
    BY <1>4 DEF SeenInv
  <1>8. OutInv' /\ (clean' => CleanInv') /\ \A e : Fanned(e)' <=> Fanned(e)
    BY <1>1, <1>2, FanoutSame
  <1>9. ASSUME clean'
        PROVE  ReaderInv'
    <2>1. CleanInv /\ ReaderInv /\ clean
      BY <1>1, <1>2, <1>9
    <2>2. High' = c /\ c <= n
      <3>1. CASE got = <<>>
        BY <1>2, <1>3, <1>4, <3>1 DEF High
      <3>2. CASE got # <<>>
        <4>1. Len(got) \in 1..Len(got) /\ c = got[Len(got)]
          BY <1>2, <1>3, <3>2 DEF Last
        <4>2. c = reader.from + Len(got) /\ High <= n
          BY <2>1, <4>1 DEF ReaderInv, Contiguous
        <4> QED
          BY <1>2, <1>4, <3>2, <4>2 DEF High
      <3> QED
        BY <3>1, <3>2
    <2>3. Contiguous'
      <3>1. CASE got = <<>>
        BY <1>2, <1>3, <3>1 DEF Contiguous
      <3>2. CASE got # <<>>
        BY <1>2, <1>4, <2>1, <3>2 DEF ReaderInv, Contiguous
      <3> QED
        BY <3>1, <3>2
    <2>4. reader'.seen = (reader'.cursor + 1)..High'
      BY <1>3, <1>4, <2>2
    <2>5. Increasing(reader.queue)' /\ \A i \in 1..Len(reader'.queue) : Fanned(reader.queue[i])'
      BY <1>2, <1>4, <2>1 DEF CleanInv, Increasing, Fanned, Waits
    <2>6. reader'.cursor <= High' /\ High' <= n'
      BY <1>2, <1>3, <1>4, <2>2
    <2> QED
      BY <1>4, <2>3, <2>4, <2>5, <2>6 DEF ReaderInv, Open, Closed
  <1> QED
    BY <1>6, <1>7, <1>8, <1>9 DEF StreamIInv, StreamInv

\* The log has everything after the cursor.
LEMMA ReplayStep ==
    ASSUME StreamIInv, Replay
    PROVE  StreamIInv'
  <1>1. StreamTypeOK /\ OutInv /\ SeenInv /\ (clean => CleanInv /\ ReaderInv)
    BY DEF StreamIInv, StreamInv
  <1>2. /\ reader.pc = "replay" /\ Emit(Rows(reader.cursor), "check", reader.queue)
        /\ UNCHANGED <<n, term, out, store, clean, breaks>>
    BY DEF Replay
  <1>3. /\ n \in 0..MaxEvents /\ n \in Nat /\ reader.cursor \in Nat /\ reader.seen = {}
        /\ reader.queue \in Seq(Events) /\ "check" \in Open \cup Closed
    BY <1>1, <1>2, ReaderType DEF StreamTypeOK, SeenInv, Open
  <1>4. {k \in Rows(reader.cursor) : Wanted(k)} = (reader.cursor + 1)..n
    BY <1>3 DEF Rows, Wanted
  <1>5. Sent(reader.cursor, n, "check", reader.queue)
    BY <1>1, <1>2, <1>3, <1>4, Emitted
  <1>6. StreamTypeOK'
    BY <1>1, <1>2, <1>5 DEF StreamTypeOK, Sent, ReaderRecords
  <1>7. SeenInv'
    BY <1>3, <1>5 DEF SeenInv, Sent
  <1>8. OutInv' /\ (clean' => CleanInv') /\ \A e : Fanned(e)' <=> Fanned(e)
    BY <1>1, <1>2, FanoutSame
  <1>9. ASSUME clean'
        PROVE  ReaderInv'
    <2>1. ReaderInv /\ clean
      BY <1>1, <1>2, <1>9
    <2>2. reader.cursor = High /\ reader.cursor <= n
      <3>1. High \in Nat
        BY <1>1, ReaderType
      <3>2. {} = (reader.cursor + 1)..High /\ reader.cursor <= High /\ High <= n
        BY <1>2, <1>3, <2>1 DEF ReaderInv, Open
      <3>3. High \notin (reader.cursor + 1)..High
        BY <3>2, Zenon
      <3>4. ~(reader.cursor + 1 <= High)
        BY <1>3, <3>1, <3>3
      <3>5. \A a, b \in Nat : a <= b /\ ~(a + 1 <= b) => a = b
        OBVIOUS
      <3> QED
        BY <1>3, <3>1, <3>2, <3>4, <3>5
    <2>3. High' = n /\ \A i \in 1..Len(got') : got'[i] = reader'.from + i
      <3>1. \A i \in 1..Len(got) : got[i] = reader.from + i
        BY <2>1 DEF ReaderInv, Contiguous
      <3> QED
        BY <1>5, <2>2, <3>1, Zenon DEF Sent
    <2>4. Increasing(reader.queue) /\ \A i \in 1..Len(reader.queue) : Fanned(reader.queue[i])
      BY <1>2, <2>1 DEF ReaderInv, Open
    <2>5. Increasing(reader.queue)' /\ \A i \in 1..Len(reader'.queue) : Fanned(reader.queue[i])'
      BY <1>2, <1>5, <2>4 DEF Increasing, Fanned, Waits, Sent
    <2>6. Contiguous'
      BY <2>3 DEF Contiguous
    <2>7. (High' + 1)..n' = {}
      BY <1>2, <1>3, <2>3
    <2>8. High' <= n' /\ reader'.cursor <= High' /\ reader'.seen = (reader'.cursor + 1)..High'
      BY <1>2, <1>3, <1>5, <2>2, <2>3 DEF Sent
    <2> QED
      BY <1>5, <2>5, <2>6, <2>7, <2>8 DEF ReaderInv, Sent
  <1> QED
    BY <1>6, <1>7, <1>8, <1>9 DEF StreamIInv, StreamInv

\* Steps that send nothing.
LEMMA CheckStep ==
    ASSUME StreamIInv, Check
    PROVE  StreamIInv'
  <1>1. StreamTypeOK /\ OutInv /\ SeenInv /\ (clean => CleanInv /\ ReaderInv)
    BY DEF StreamIInv, StreamInv
  <1>2. /\ reader.pc = "check"
        /\ reader' = [reader EXCEPT !.pc = IF term # 0 THEN "ended" ELSE "live"]
        /\ UNCHANGED <<n, term, out, store, got, clean, breaks>>
    BY DEF Check
  <1>3. /\ reader'.pc \in {"ended", "live"} /\ reader'.from = reader.from
        /\ reader'.cursor = reader.cursor /\ reader'.seen = reader.seen
        /\ reader'.queue = reader.queue
        /\ reader' \in [pc : {"off"} \cup Open \cup Closed, from : 0..MaxEvents,
                        cursor : 0..MaxEvents, queue : Seq(Events), seen : SUBSET Events]
    BY <1>1, <1>2 DEF StreamTypeOK, Open, Closed
  <1>4. StreamTypeOK'
    BY <1>1, <1>2, <1>3 DEF StreamTypeOK
  <1>5. SeenInv'
    BY <1>1, <1>3 DEF SeenInv
  <1>6. OutInv' /\ (clean' => CleanInv') /\ \A e : Fanned(e)' <=> Fanned(e)
    BY <1>1, <1>2, FanoutSame
  <1>7. ASSUME clean'
        PROVE  ReaderInv'
    <2>1. ReaderInv /\ clean
      BY <1>1, <1>2, <1>7
    <2>2. High' = High /\ Contiguous'
      BY <1>2, <1>3, <2>1 DEF High, ReaderInv, Contiguous
    <2>3. Increasing(reader.queue) /\ \A i \in 1..Len(reader.queue) : Fanned(reader.queue[i])
      BY <1>2, <2>1 DEF ReaderInv, Open
    <2>4. Increasing(reader.queue)' /\ \A i \in 1..Len(reader'.queue) : Fanned(reader.queue[i])'
      BY <1>2, <1>3, <2>3 DEF Increasing, Fanned, Waits
    <2>5. \A k \in (High + 1)..n : Fanned(k) => Contains(reader.queue, k)
      BY <1>2, <2>1 DEF ReaderInv
    <2>6. \A k \in (High' + 1)..n' : Fanned(k)' => Contains(reader'.queue, k)
      BY <1>2, <1>3, <1>6, <2>2, <2>5
    <2>7. /\ High' <= n' /\ reader'.cursor <= High'
          /\ reader'.seen = (reader'.cursor + 1)..High'
      BY <1>2, <1>3, <2>1, <2>2 DEF ReaderInv, Open
    <2> QED
      BY <1>3, <2>2, <2>4, <2>6, <2>7 DEF ReaderInv
  <1> QED
    BY <1>4, <1>5, <1>6, <1>7 DEF StreamIInv, StreamInv

LEMMA BreakStep ==
    ASSUME StreamIInv, Break
    PROVE  StreamIInv'
  <1>1. StreamTypeOK /\ OutInv /\ SeenInv /\ (clean => CleanInv /\ ReaderInv)
    BY DEF StreamIInv, StreamInv
  <1>2. /\ reader.pc \in Open /\ breaks < MaxBreaks /\ breaks' = breaks + 1
        /\ reader' = [reader EXCEPT !.pc = "off", !.queue = <<>>]
        /\ UNCHANGED <<n, term, out, store, got, clean>>
    BY DEF Break
  <1>3. /\ reader'.pc = "off" /\ reader'.from = reader.from
        /\ reader'.cursor = reader.cursor /\ reader'.seen = reader.seen
        /\ reader' \in [pc : {"off"} \cup Open \cup Closed, from : 0..MaxEvents,
                        cursor : 0..MaxEvents, queue : Seq(Events), seen : SUBSET Events]
    <2>1. <<>> \in Seq(Events)
      BY EmptySeq
    <2> QED
      BY <1>1, <1>2, <2>1 DEF StreamTypeOK
  <1>4. breaks' \in 0..MaxBreaks
    BY <1>1, <1>2, StreamConstants DEF StreamTypeOK
  <1>5. StreamTypeOK'
    BY <1>1, <1>2, <1>3, <1>4 DEF StreamTypeOK
  <1>6. SeenInv'
    BY <1>1, <1>3 DEF SeenInv
  <1>7. OutInv' /\ (clean' => CleanInv')
    BY <1>1, <1>2, FanoutSame
  <1>8. ASSUME clean'
        PROVE  ReaderInv'
    <2>1. ReaderInv /\ clean
      BY <1>1, <1>2, <1>8
    <2>2. High' = High /\ Contiguous'
      BY <1>2, <1>3, <2>1 DEF High, ReaderInv, Contiguous
    <2> QED
      BY <1>2, <1>3, <2>1, <2>2 DEF ReaderInv, Open, Closed
  <1> QED
    BY <1>5, <1>6, <1>7, <1>8 DEF StreamIInv, StreamInv

\* A message is the next number or one that was sent before.
LEMMA ReceiveStep ==
    ASSUME StreamIInv, Receive
    PROVE  StreamIInv'
  <1>k. PICK k : k = Head(reader.queue)
    OBVIOUS
  <1>t. PICK rest : rest = Tail(reader.queue)
    OBVIOUS
  <1>x. PICK next : next = IF k = term THEN "finished" ELSE "live"
    OBVIOUS
  <1>1. StreamTypeOK /\ OutInv /\ SeenInv /\ (clean => CleanInv /\ ReaderInv)
    BY DEF StreamIInv, StreamInv
  <1>2. /\ reader.pc = "live" /\ reader.queue # <<>> /\ Emit({k}, next, rest)
        /\ UNCHANGED <<n, term, out, store, clean, breaks>>
    BY <1>k, <1>t, <1>x DEF Receive
  <1>3. /\ n \in 0..MaxEvents /\ n \in Nat /\ reader.cursor \in Nat /\ term \in Nat
        /\ MaxEvents \in Nat /\ reader.queue \in Seq(Events) /\ reader.seen \in SUBSET Events
    BY <1>1, ReaderType DEF StreamTypeOK
  <1>4. /\ rest \in Seq(Events) /\ k \in Events
        /\ \A e : Contains(reader.queue, e) <=> e = k \/ Contains(rest, e)
    BY <1>2, <1>3, <1>k, <1>t, ContainsTail
  <1>5. k \in Nat /\ k >= 1 /\ k <= MaxEvents /\ next \in {"live", "finished"}
    BY <1>3, <1>4, <1>x DEF Events
  <1>6. next \in Open \cup Closed
    BY <1>5 DEF Open, Closed
  <1>7. PICK c \in Nat, m \in 0..MaxEvents :
           /\ {e \in {k} : Wanted(e)} = (c + 1)..m
           /\ Wanted(k) => c = k - 1 /\ m = k
           /\ clean => c = High /\ c <= m
    <2>1. CASE Wanted(k)
      <3>1. k - 1 \in Nat /\ k \in 0..MaxEvents /\ {e \in {k} : Wanted(e)} = ((k - 1) + 1)..k
        BY <1>5, <2>1
      <3>2. ASSUME clean
            PROVE  k - 1 = High
        <4>1. /\ CleanInv /\ ReaderInv /\ High \in Nat /\ reader.pc = "live"
              /\ reader.queue \in Seq(Int)
          BY <1>1, <1>2, <3>2, ReaderType, SeqInt
        <4>2. Increasing(reader.queue) /\ \A i \in 1..Len(reader.queue) : Fanned(reader.queue[i])
          BY <4>1 DEF ReaderInv, Open
        <4>3. Fanned(k) /\ k <= n
          <5>1. Len(reader.queue) \in Nat /\ Len(reader.queue) # 0 /\ k = reader.queue[1]
            BY <1>2, <1>3, <1>k, LenProperties, EmptySeq
          <5> QED
            BY <4>2, <5>1 DEF Fanned
        <4>4. k > High
          <5>1. k > reader.cursor /\ k \notin reader.seen
            BY <2>1 DEF Wanted
          <5>2. reader.seen = (reader.cursor + 1)..High
            BY <4>1 DEF ReaderInv, Open
          <5> QED
            BY <1>3, <1>5, <4>1, <5>1, <5>2
        <4>5. ASSUME High + 1 < k
              PROVE  FALSE
          <5>1. High + 1 \in 1..n /\ High + 1 \in (High + 1)..n /\ k \in 1..n
            BY <1>3, <1>5, <4>1, <4>3, <4>5
          <5>2. Fanned(High + 1)
            BY <4>1, <4>3, <4>5, <5>1 DEF CleanInv
          <5>3. Contains(reader.queue, High + 1)
            BY <4>1, <5>1, <5>2 DEF ReaderInv
          <5>4. Contains(rest, High + 1)
            BY <1>4, <1>5, <4>1, <4>5, <5>3
          <5>5. k < High + 1
            BY <1>2, <1>k, <1>t, <4>1, <4>2, <5>4, IncreasingTail
          <5> QED
            BY <1>5, <4>1, <4>5, <5>5
        <4> QED
          BY <1>5, <4>1, <4>4, <4>5
      <3> QED
        BY <1>5, <2>1, <3>1, <3>2
    <2>2. CASE ~Wanted(k)
      <3>1. CASE clean
        <4>1. High \in 0..MaxEvents /\ High \in Nat
          BY <1>1, <1>3, <3>1, ReaderType DEF ReaderInv
        <4>2. {e \in {k} : Wanted(e)} = (High + 1)..High
          BY <2>2, <4>1
        <4> QED
          BY <2>2, <4>1, <4>2
      <3>2. CASE ~clean
        <4>1. {e \in {k} : Wanted(e)} = (0 + 1)..0 /\ 0 \in Nat /\ 0 \in 0..MaxEvents
          BY <1>3, <2>2
        <4> QED
          BY <2>2, <3>2, <4>1
      <3> QED
        BY <3>1, <3>2
    <2> QED
      BY <2>1, <2>2
  <1>8. Sent(c, m, next, rest)
    BY <1>1, <1>2, <1>4, <1>6, <1>7, Emitted
  <1>9. StreamTypeOK'
    BY <1>1, <1>2, <1>8 DEF StreamTypeOK, Sent, ReaderRecords
  <1>10. SeenInv'
    <2>1. \A e \in (c + 1)..m : e > reader.cursor
      BY <1>7 DEF Wanted
    <2> QED
      BY <1>1, <1>5, <1>8, <2>1 DEF SeenInv, Sent
  <1>11. OutInv' /\ (clean' => CleanInv') /\ \A e : Fanned(e)' <=> Fanned(e)
    BY <1>1, <1>2, FanoutSame
  <1>12. ASSUME clean'
         PROVE  ReaderInv'
    <2>1. /\ ReaderInv /\ clean /\ High \in Nat /\ reader.pc = "live"
          /\ reader.cursor <= High /\ reader.seen = (reader.cursor + 1)..High /\ High <= n
      BY <1>1, <1>2, <1>12, ReaderType DEF ReaderInv, Open
    <2>2. c = High /\ High <= m /\ m \in Nat /\ c \in Nat
      BY <1>7, <2>1
    <2>3. High' = m /\ \A i \in 1..Len(got') : got'[i] = reader'.from + i
      <3>1. \A i \in 1..Len(got) : got[i] = reader.from + i
        BY <2>1 DEF ReaderInv, Contiguous
      <3> QED
        BY <1>8, <2>2, <3>1, Zenon DEF Sent
    <2>4. /\ Increasing(reader.queue) /\ \A i \in 1..Len(reader.queue) : Fanned(reader.queue[i])
          /\ \A e \in (High + 1)..n : Fanned(e) => Contains(reader.queue, e)
      BY <2>1 DEF ReaderInv, Open
    <2>5. k <= n /\ k <= m
      <3>1. Len(reader.queue) \in Nat /\ Len(reader.queue) # 0 /\ k = reader.queue[1]
        BY <1>2, <1>3, <1>k, LenProperties, EmptySeq
      <3>2. k <= n
        BY <2>4, <3>1 DEF Fanned
      <3>3. CASE Wanted(k)
        BY <1>5, <1>7, <3>2, <3>3
      <3>4. CASE ~Wanted(k)
        <4>1. k <= reader.cursor \/ k \in reader.seen
          BY <1>3, <1>5, <3>4 DEF Wanted
        <4>2. k <= High
          BY <1>3, <1>5, <2>1, <4>1
        <4> QED
          BY <1>5, <2>1, <2>2, <3>2, <4>2
      <3> QED
        BY <3>3, <3>4
    <2>6. m <= n
      <3>1. CASE Wanted(k)
        BY <1>7, <2>5, <3>1
      <3>2. CASE ~Wanted(k)
        <4>1. (c + 1)..m = {}
          BY <1>7, <3>2
        <4> QED
          BY <1>3, <2>1, <2>2, <4>1
      <3> QED
        BY <3>1, <3>2
    <2>7. reader'.cursor <= High' /\ High' <= n' /\ reader'.seen = (reader'.cursor + 1)..High'
      <3>1. reader'.cursor = reader.cursor /\ reader'.seen = reader.seen \cup (c + 1)..m
        BY <1>8 DEF Sent
      <3>2. reader.seen \cup (c + 1)..m = (reader.cursor + 1)..m
        BY <1>3, <2>1, <2>2
      <3> QED
        BY <1>2, <1>3, <2>1, <2>2, <2>3, <2>6, <3>1, <3>2
    <2>8. reader'.pc = next /\ reader'.queue = rest
      BY <1>8 DEF Sent
    <2>9. Increasing(rest) /\ \A i \in 1..Len(rest) : Fanned(rest[i])
      <3>1. reader.queue \in Seq(Int)
        BY <1>1, <1>3, ReaderType, SeqInt
      <3>2. Increasing(rest)
        BY <1>2, <1>t, <2>4, <3>1, IncreasingTail
      <3>3. \A i \in 1..Len(rest) : Contains(rest, rest[i])
        BY DEF Contains
      <3>4. \A e : Contains(reader.queue, e) => Fanned(e)
        BY <2>4 DEF Contains
      <3> QED
        BY <1>4, <3>2, <3>3, <3>4
    <2>10. Increasing(reader.queue)' /\ \A i \in 1..Len(reader'.queue) : Fanned(reader.queue[i])'
      BY <1>2, <2>8, <2>9 DEF Increasing, Fanned, Waits
    <2>11. \A e \in (High' + 1)..n' : Fanned(e)' => Contains(reader'.queue, e)
      <3>1. ASSUME NEW e \in (m + 1)..n, Fanned(e)
            PROVE  Contains(rest, e)
        <4>1. e \in (High + 1)..n /\ e # k
          BY <1>3, <1>5, <2>1, <2>2, <2>5, <3>1
        <4> QED
          BY <1>4, <2>4, <3>1, <4>1
      <3> QED
        BY <1>2, <1>11, <2>3, <2>8, <3>1
    <2>12. reader'.pc = "finished" => term' # 0 /\ term' <= High'
      BY <1>2, <1>3, <1>5, <1>x, <2>2, <2>3, <2>5, <2>8
    <2>13. Contiguous'
      BY <2>3 DEF Contiguous
    <2> QED
      BY <1>5, <2>7, <2>8, <2>10, <2>11, <2>12, <2>13 DEF ReaderInv
  <1> QED
    BY <1>9, <1>10, <1>11, <1>12 DEF StreamIInv, StreamInv

\* The tail of the log begins where the connection has got.
LEMMA TickStep ==
    ASSUME StreamIInv, Tick
    PROVE  StreamIInv'
  <1>1. StreamTypeOK /\ OutInv /\ SeenInv /\ (clean => CleanInv /\ ReaderInv)
    BY DEF StreamIInv, StreamInv
  <1>2. /\ reader.pc = "live" /\ term # 0 /\ Emit(Rows(TailFrom), "drained", <<>>)
        /\ UNCHANGED <<n, term, out, store, clean, breaks>>
    BY DEF Tick, TickSeesEnd
  <1>3. /\ n \in 0..MaxEvents /\ n \in Nat /\ reader.cursor \in Nat /\ term \in 0..n
        /\ MaxEvents \in Nat /\ reader.seen \in SUBSET Events /\ reader.seen \in SUBSET Nat
        /\ <<>> \in Seq(Events) /\ "drained" \in Open \cup Closed
    BY <1>1, ReaderType, EmptySeq DEF StreamTypeOK, Closed
  <1>4. /\ TailFrom \in Nat /\ reader.cursor <= TailFrom
        /\ \A e \in reader.seen : e <= TailFrom
        /\ TailFrom = reader.cursor \/ TailFrom \in reader.seen
        /\ reader.seen = {} => TailFrom = reader.cursor
    <2>1. CASE reader.seen = {}
      BY <1>3, <2>1 DEF TailFrom
    <2>2. CASE reader.seen # {}
      <3>1. \A e \in reader.seen : e <= MaxEvents
        BY <1>3 DEF Events
      <3>2. Max(reader.seen) \in reader.seen /\ \A e \in reader.seen : e <= Max(reader.seen)
        BY <1>3, <2>2, <3>1, MaxInSet
      <3>3. TailFrom = Max(reader.seen)
        BY <2>2 DEF TailFrom
      <3>4. TailFrom \in reader.seen /\ \A e \in reader.seen : e <= TailFrom
        BY <3>2, <3>3
      <3>5. TailFrom \in Nat /\ TailFrom > reader.cursor
        BY <1>1, <1>3, <3>4 DEF SeenInv
      <3> QED
        BY <1>3, <2>2, <3>4, <3>5
    <2> QED
      BY <2>1, <2>2
  <1>5. {k \in Rows(TailFrom) : Wanted(k)} = (TailFrom + 1)..n
    <2>1. ASSUME NEW k \in (TailFrom + 1)..n
          PROVE  Wanted(k)
      <3>1. k > reader.cursor /\ k > TailFrom
        BY <1>3, <1>4
      <3>2. k \notin reader.seen
        BY <1>3, <1>4, <3>1
      <3> QED
        BY <3>1, <3>2 DEF Wanted
    <2> QED
      BY <2>1 DEF Rows
  <1>6. Sent(TailFrom, n, "drained", <<>>)
    BY <1>1, <1>2, <1>3, <1>4, <1>5, Emitted
  <1>7. StreamTypeOK'
    BY <1>1, <1>2, <1>6 DEF StreamTypeOK, Sent, ReaderRecords
  <1>8. SeenInv'
    <2>1. \A e \in (TailFrom + 1)..n : e > reader.cursor
      BY <1>3, <1>4
    <2> QED
      BY <1>1, <1>6, <2>1 DEF SeenInv, Sent
  <1>9. OutInv' /\ (clean' => CleanInv')
    BY <1>1, <1>2, FanoutSame
  <1>10. ASSUME clean'
         PROVE  ReaderInv'
    <2>1. /\ ReaderInv /\ High \in Nat /\ clean
          /\ reader.cursor <= High /\ reader.seen = (reader.cursor + 1)..High /\ High <= n
      BY <1>1, <1>2, <1>10, ReaderType DEF ReaderInv, Open
    <2>2. TailFrom = High
      <3>1. CASE reader.cursor = High
        BY <1>3, <1>4, <2>1, <3>1
      <3>2. CASE reader.cursor # High
        <4>1. High \in reader.seen
          BY <1>3, <2>1, <3>2
        <4> QED
          BY <1>3, <1>4, <2>1, <4>1
      <3> QED
        BY <3>1, <3>2
    <2>3. High' = n /\ \A i \in 1..Len(got') : got'[i] = reader'.from + i
      <3>1. High <= n /\ \A i \in 1..Len(got) : got[i] = reader.from + i
        BY <2>1 DEF ReaderInv, Contiguous
      <3> QED
        BY <1>6, <2>2, <3>1, Zenon DEF Sent
    <2>4. reader'.cursor = reader.cursor /\ reader'.seen = (reader'.cursor + 1)..n
      <3>1. reader'.cursor = reader.cursor /\ reader'.seen = reader.seen \cup (TailFrom + 1)..n
        BY <1>6 DEF Sent
      <3>2. reader.seen \cup (High + 1)..n = (reader.cursor + 1)..n
        BY <1>3, <2>1
      <3> QED
        BY <2>2, <3>1, <3>2
    <2>5. reader'.cursor <= High' /\ High' <= n'
      BY <1>2, <1>3, <2>1, <2>3, <2>4
    <2>6. Contiguous'
      BY <2>3 DEF Contiguous
    <2>7. reader'.pc = "drained"
      BY <1>6 DEF Sent
    <2>8. term' # 0 /\ term' <= High'
      BY <1>2, <1>3, <2>3
    <2> QED
      BY <2>3, <2>4, <2>5, <2>6, <2>7, <2>8 DEF ReaderInv, Open
  <1> QED
    BY <1>7, <1>8, <1>9, <1>10 DEF StreamIInv, StreamInv

LEMMA StreamNext ==
    ASSUME WorkerIInv, StreamIInv, Next, n' <= MaxEvents
    PROVE  StreamIInv'
  <1>1. n \in Nat /\ MaxEvents \in Nat /\ Worker \in Publishers /\ Api \in Publishers
    BY StreamConstants, BufferConstants DEF WorkerIInv
  <1>2. CASE StreamStep /\ UNCHANGED bufferVars
    BY <1>2, PublishStep, LoseStep, ConnectStep, ReplayStep, CheckStep, ReceiveStep, TickStep,
       BreakStep DEF StreamStep, Connects, ReaderStep
  <1>3. CASE UNCHANGED streamVars
    BY <1>3, StreamSame
  <1>4. CASE Add \/ AddOther \/ GraphReturns \/ FinalFlush
    <2>1. UNCHANGED streamVars
      BY <1>4 DEF Add, AddOther, GraphReturns, FinalFlush
    <2> QED
      BY <1>3, <2>1
  <1>5. CASE TimerFires \/ FlushFails \/ FlushDone
    <2>1. UNCHANGED streamVars
      BY <1>5 DEF TimerFires, FlushFails, FlushDone
    <2> QED
      BY <1>3, <2>1
  <1>6. CASE FlushCommit
    <2>1. Len(Batch) \in Nat /\ Commit(Worker, Len(Batch), FALSE)
      BY <1>6, BatchIs DEF FlushCommit
    <2> QED
      BY <1>1, <2>1, CommitStep
  <1>7. ASSUME NEW cut \in BOOLEAN, NEW through \in BOOLEAN, Strike(cut, through)
        PROVE  StreamIInv'
    <2>1. (n' = n + Len(Batch) /\ Len(Batch) \in Nat) \/ n' = n
      <3>1. CASE through
        <4>1. ~Unlocked /\ n' = n + Len(Batch)
          BY <1>7, <3>1 DEF Strike, Broken
        <4> QED
          BY <4>1, BatchIs
      <3>2. CASE ~through
        BY <1>7, <3>2 DEF Strike
      <3> QED
        BY <3>1, <3>2
    <2>2. n' \in 0..MaxEvents /\ n <= n'
      BY <1>1, <2>1
    <2> QED
      BY <1>7, <2>2, StrikeStreamStep
  <1>8. CASE RecordEnd \/ CancelRequest
    <2>1. UNCHANGED streamVars \/ Commit(Worker, 1, TRUE) \/ Commit(Api, 1, TRUE)
      BY <1>8 DEF RecordEnd, CancelRequest
    <2> QED
      BY <1>1, <1>3, <2>1, CommitStep
  <1> QED
    BY <1>2, <1>4, <1>5, <1>6, <1>7, <1>8 DEF Next, Publication

-----------------------------------------------------------------------------
(* The theorems *)

LEMMA Parts ==
    IInv <=> WorkerIInv /\ StreamIInv
  <1>1. TypeOK <=> StreamTypeOK /\ BufferTypeOK
    BY DEF TypeOK, BufferTypeOK, FlushType
  <1>2. StreamTypeOK => n \in Nat /\ term \in Nat
    BY ReaderType
  <1> QED
    BY <1>1, <1>2 DEF IInv, WorkerIInv, StreamIInv

LEMMA InitInv ==
    Init => IInv
  <1> SUFFICES ASSUME Init PROVE IInv
    OBVIOUS
  <1>1. /\ n = 0 /\ term = 0 /\ out = [p \in Publishers |-> <<>>] /\ store = <<>>
        /\ reader = [pc |-> "off", from |-> 0, cursor |-> 0, queue |-> <<>>, seen |-> {}]
        /\ got = <<>> /\ clean = TRUE /\ breaks = 0
        /\ made = 0 /\ other = FALSE /\ pending = <<>> /\ flush = Idle /\ timer = FALSE
        /\ error = FALSE /\ exec = "running" /\ strike = "none" /\ log = <<>>
    BY DEF Init, StreamInit
  <1>2. (\A S : <<>> \in Seq(S)) /\ Len(<<>>) = 0
    BY EmptySeq
  <1>3. MaxEvents \in Nat /\ MaxBreaks \in Nat /\ MaxMade \in Nat /\ BatchSize \in Nat \ {0}
    BY StreamConstants, BufferConstants
  <1>4. StreamTypeOK
    <2>1. out \in [Publishers -> Seq(Events)]
      BY <1>1, <1>2
    <2>2. reader \in [pc : {"off"} \cup Open \cup Closed, from : 0..MaxEvents,
                      cursor : 0..MaxEvents, queue : Seq(Events), seen : SUBSET Events]
      BY <1>1, <1>2, <1>3
    <2> QED
      BY <1>1, <1>2, <1>3, <2>1, <2>2 DEF StreamTypeOK
  <1>5. BufferTypeOK
    <2>1. Len(pending) = 0 /\ Len(log) = 0
      BY <1>1, <1>2
    <2>2. pending \in Seq(1..MaxMade) /\ log \in Seq(0..MaxMade)
      BY <1>1, <1>2
    <2>3. flush \in FlushType
      BY <1>1, BeginType
    <2>4. /\ other \in BOOLEAN /\ timer \in BOOLEAN /\ error \in BOOLEAN
          /\ exec \in {"running", "final", "over", "ended"}
          /\ strike \in {"none", "graph", "saved", "lost"}
      BY <1>1
    <2>5. made \in 0..MaxMade /\ Len(pending) <= BatchSize /\ Len(log) = n
      BY <1>1, <1>3, <2>1
    <2> QED
      BY <2>2, <2>3, <2>4, <2>5 DEF BufferTypeOK
  <1>6. Base = 0 /\ Len(pending) = 0 /\ Len(log) = 0
    <2>1. Len(pending) = 0 /\ Len(log) = 0
      BY <1>1, <1>2
    <2>2. Base = 0 - 0 - (IF other THEN 1 ELSE 0)
      BY <1>1, <2>1 DEF Base
    <2>3. Base = 0 - 0 - 0
      BY <1>1, <2>2
    <2> QED
      BY <2>1, <2>3
  <1>7. PendingInv /\ LogInOrder
    BY <1>6 DEF PendingInv, LogInOrder
  <1>8. Unlocked /\ ~flush.committed /\ flush.by = "none"
    BY <1>1, BeginType DEF Unlocked
  <1>9. FlushInv
    BY <1>1, <1>2, <1>3, <1>8 DEF FlushInv
  <1>10. StoredInv /\ SizeInv
    BY <1>1, <1>6, <1>8 DEF StoredInv, SizeInv
  <1>11. OutInv
    BY <1>1, <1>2 DEF OutInv, Increasing, Contains
  <1>12. SeenInv
    BY <1>1 DEF SeenInv
  <1>13. CleanInv
    BY <1>1, <1>2 DEF CleanInv, Increasing
  <1>14. ReaderInv
    BY <1>1, <1>2 DEF ReaderInv, Contiguous, High, Open, Closed
  <1> QED
    BY <1>1, <1>4, <1>5, <1>7, <1>9, <1>10, <1>11, <1>12, <1>13, <1>14, Parts
       DEF WorkerIInv, WorkerInv, StreamIInv, StreamInv

\* The invariant the theorems rest on holds in every state of every run: steps of
\* the execution, its timer, its cancellation and the client keep it.
THEOREM Inductive ==
    Spec => []IInv
  <1>1. IInv /\ [Next]_vars => IInv'
    <2>1. CASE Next
      <3>1. WorkerIInv' => Fits'
        BY Bounded, PTL
      <3>2. Fits' => n' <= MaxEvents
        BY DEF Fits
      <3>3. WorkerIInv /\ StreamIInv /\ Next => WorkerIInv' /\ StreamIInv'
        BY <3>1, <3>2, WorkerStep, StreamNext
      <3>4. WorkerIInv' /\ StreamIInv' => IInv'
        BY Parts, PTL
      <3> QED
        BY <2>1, <3>3, <3>4, Parts
    <2>2. CASE UNCHANGED vars
      <3>1. UNCHANGED streamVars /\ UNCHANGED bufferVars /\ UNCHANGED <<n, term>>
        BY <2>2 DEF vars, streamVars
      <3>2. WorkerIInv /\ StreamIInv => WorkerIInv' /\ StreamIInv'
        BY <3>1, WorkerSame, StreamSame
      <3>3. WorkerIInv' /\ StreamIInv' => IInv'
        BY Parts, PTL
      <3> QED
        BY <3>2, <3>3, Parts
    <2> QED
      BY <2>1, <2>2
  <1> QED
    BY <1>1, InitInv, PTL DEF Spec

\* The variables of the execution, the log, the fan-out and the client keep their
\* types; in particular the buffer never exceeds a batch and every row of the log
\* is counted.
THEOREM TypeCorrect ==
    Spec => []TypeOK
  <1>1. IInv => TypeOK
    BY DEF IInv
  <1> QED
    BY <1>1, Inductive, PTL

\* A row of the log is preceded by all events the graph emitted before it, whoever
\* publishes: the graph, the timer of the buffer or its last flush.
THEOREM LogOrdered ==
    Spec => []LogInOrder
  <1>1. IInv => LogInOrder
    BY DEF IInv, WorkerInv
  <1> QED
    BY <1>1, Inductive, PTL

\* When the execution is over without an error of PostgreSQL, every event of the
\* graph is in the log, also if a cancellation struck while it published one, and
\* unless it struck the last flush before its commit.
THEOREM EndHasAll ==
    Spec => []EndComplete
  <1>1. IInv => EndComplete
    <2> SUFFICES ASSUME IInv, exec \in {"over", "ended"}, ~error, strike # "lost",
                        NEW e \in 1..made
                 PROVE  Contains(log, e)
      BY DEF EndComplete
    <2>1. WorkerIInv
      BY Parts
    <2>2. ~other /\ (pending = <<>> \/ strike = "saved")
      BY DEF IInv, WorkerInv, FlushInv
    <2>3. /\ made = Base + Len(pending) /\ Base \in Nat /\ Len(pending) \in Nat
          /\ pending = <<>> => Len(pending) = 0
      BY <2>1, <2>2, Counts
    <2>4. CASE e <= Base
      BY <2>3, <2>4 DEF IInv, WorkerInv, StoredInv
    <2>5. CASE e > Base
      <3>1. e - Base \in 1..Len(pending) /\ Base + (e - Base) = e
        BY <2>3, <2>5
      <3>2. strike = "saved" /\ pending[e - Base] = e
        BY <2>2, <2>3, <3>1 DEF IInv, WorkerInv, PendingInv
      <3> QED
        BY <3>1, <3>2 DEF IInv, WorkerInv, StoredInv
    <2> QED
      BY <2>3, <2>4, <2>5
  <1> QED
    BY <1>1, Inductive, PTL

\* While Redis delivers in order, the client gets the numbers after its first cursor
\* one by one, across the hand-over from replay to live and across reconnections.
THEOREM NoGap ==
    Spec => []Contiguous
  <1>1. IInv => Contiguous
    BY DEF IInv, StreamInv, ReaderInv, Contiguous
  <1> QED
    BY <1>1, Inductive, PTL

\* In the same circumstances a stream that went live has sent every event up to the
\* terminal one when it closes, by a message or by the tail a heartbeat reads.
THEOREM LiveWhole ==
    Spec => []LiveComplete
  <1>1. IInv => LiveComplete
    <2> SUFFICES ASSUME IInv, clean, reader.pc \in {"drained", "finished"},
                        NEW k \in (reader.from + 1)..term
                 PROVE  Contains(got, k)
      BY DEF LiveComplete, AllSent
    <2>1. StreamTypeOK /\ ReaderInv
      BY DEF IInv, TypeOK, StreamInv
    <2>2. /\ reader.from \in Nat /\ Len(got) \in Nat /\ term \in Nat
          /\ term <= reader.from + Len(got)
          /\ \A i \in 1..Len(got) : got[i] = reader.from + i
      BY <2>1, ReaderType DEF ReaderInv, High, Contiguous
    <2>3. k - reader.from \in 1..Len(got) /\ reader.from + (k - reader.from) = k
      BY <2>2
    <2> QED
      BY <2>2, <2>3 DEF Contains
  <1> QED
    BY <1>1, Inductive, PTL
=============================================================================
