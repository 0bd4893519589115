------------------------- MODULE StreamManagerProofs -------------------------
(***************************************************************************)
(* Proofs about StreamManager: a reader gets every message it asks for and *)
(* a listener every cancellation, for any processes, callers and breaks    *)
(* and any size of batches, buffers and seen ids.                          *)
(***************************************************************************)
EXTENDS StreamManager, SequenceTheorems, FiniteSetTheorems, WellFoundedInduction, TLAPS

-----------------------------------------------------------------------------
(* The inductive invariant *)

\* The messages of calls under way, and those whose put has returned.
InHand == UNION {Range(task[t].msgs) : t \in Tasks}
Sent == done \cup InHand

\* The ids that were ever generated.
Generated == UNION {issued[s] : s \in Sources}

\* Delivered in the own process, not yet published.
Delivered(t) == task[t].pc \in {"key", "publish"}

\* A call has messages of one kind, and no message in common with another call.
TaskInv ==
    /\ \A t \in Tasks : task[t].pc = "idle" <=> task[t].msgs = <<>>
    /\ \A t \in Tasks : \A m, q \in Range(task[t].msgs) : m.control = q.control
    /\ \A t \in Tasks : Range(task[t].msgs) \cap done = {}
    /\ \A t, u \in Tasks : t # u => Range(task[t].msgs) \cap Range(task[u].msgs) = {}
    /\ \A m \in Sent : m.n <= puts

\* Ids tell messages apart, and nobody has seen the id of a message before it was
\* delivered in its own process, elsewhere before it was published.
IdInv ==
    /\ \A m \in Sent : m.id \in Generated
    /\ \A p \in Procs : Range(seen[p]) \subseteq Generated
    /\ \A p \in Procs : Range(chan[p]) \subseteq done
    /\ IdsDistinct =>
          /\ \A m, q \in Sent : m.id = q.id => m = q
          /\ \A t \in Tasks, p \in Procs : task[t].pc = "buffer" \/ p # ProcOf[t] =>
                \A m \in Range(task[t].msgs) : m.id \notin Range(seen[p])

\* The message is on its way to p and will not be taken for an echo.
Coming(p, m) == m \in Range(chan[p]) /\ m.id \notin Range(seen[p])

\* The reader has the message, will read it, or does not want it.
Got(m) == m.id <= reader.cursor \/ m.id \in reader.emitted \/ m \in Range(reader.queue)

\* What was put before the reader registered is in the stream and replayed from
\* there.
ReplayInv ==
    resumable =>
        /\ \A m \in Sent : IsFrame(m) => m \in Range(stream)
        /\ reader.pc # "off" => \A m \in reader.before : IsFrame(m) =>
              /\ m \in Range(stream)
              /\ reader.pc = "live" /\ reader.cursor >= 0 =>
                     m.id <= reader.cursor \/ m.id \in reader.emitted

\* Everything else is delivered to it.
LiveInv ==
    reader.pc # "off" /\ reader.whole =>
        /\ up[ReaderAt]
        /\ IdsDistinct => \A m \in Sent \ reader.before : IsFrame(m) =>
              /\ m \in done => Got(m) \/ Coming(ReaderAt, m)
              /\ \A t \in Tasks : ProcOf[t] = ReaderAt /\ Delivered(t)
                                  /\ m \in Range(task[t].msgs) => Got(m)

\* A cancellation of this stay of the worker.
Current(m) == IsControl(m) /\ m.n > listener.since

\* A cancellation is in Redis before it is published, and its process knows it;
\* a listener has heard of it or will.
ListenerInv ==
    /\ \A m \in done : Current(m) => redisKey
    /\ \A t \in Tasks : \A m \in Range(task[t].msgs) : Current(m) =>
          /\ task[t].pc = "publish" => redisKey
          /\ ProcOf[t] = ListenerAt /\ Delivered(t) =>
                /\ key[ListenerAt]
                /\ IdsDistinct /\ listener.pc = "on" => listener.heard
    /\ listener.pc # "off" /\ listener.whole => up[ListenerAt]
    /\ listener.pc = "on" /\ listener.whole /\ IdsDistinct =>
          \A m \in done : Current(m) => listener.heard \/ Coming(ListenerAt, m)

IInv == TypeOK /\ TaskInv /\ IdInv /\ ReplayInv /\ LiveInv /\ ListenerInv


-----------------------------------------------------------------------------
(* Sequences *)

\* A nonempty set of numbers has a least one.
LEMMA Least ==
    ASSUME NEW T \in SUBSET Nat, T # {}
    PROVE  \E x \in T : \A y \in T : x <= y
<1> DEFINE R == {ss \in Nat \X Nat : ss[1] < ss[2]}
<1>1. IsWellFoundedOn(R, Nat)
  BY NatLessThanWellFounded DEF OpToRel
<1>2. \A x, y \in Nat : y < x => <<y, x>> \in R
  OBVIOUS
<1> HIDE DEF R
<1>3. PICK x \in T : \A y \in T : ~(<<y, x>> \in R)
  BY <1>1, WFMin, Zenon
<1>4. \A y \in T : ~(y < x)
  BY <1>2, <1>3
<1> QED BY <1>4

\* The greatest of some positions of a sequence.
LEMMA MaxPosition ==
    ASSUME NEW n \in Nat, NEW I \in SUBSET (1..n), I # {}
    PROVE  Max(I) \in I
<1> DEFINE T == {n - i : i \in I}
<1>1. T \in SUBSET Nat /\ T # {}
  <2>1. \A i \in I : i \in Nat /\ i <= n
    OBVIOUS
  <2>2. \A i \in I : n - i \in Nat
    BY <2>1
  <2> QED BY <2>2
<1>2. PICK x \in T : \A y \in T : x <= y
  <2> HIDE DEF T
  <2> QED BY <1>1, Least
<1>3. PICK i \in I : x = n - i
  OBVIOUS
<1>4. \A j \in I : i >= j
  <2>1. \A j \in I : n - j \in T
    OBVIOUS
  <2> QED BY <1>2, <1>3, <2>1
<1> QED BY <1>3, <1>4, Zenon DEF Max

\* What the operators on sequences do to the elements.
LEMMA Elements ==
    ASSUME NEW S, NEW s \in Seq(S)
    PROVE  /\ Range(s) \subseteq S
           /\ Range(s) = {s[i] : i \in 1..Len(s)}
           /\ \A e \in S : Append(s, e) \in Seq(S) /\ Range(Append(s, e)) = Range(s) \cup {e}
           /\ \A u \in Seq(S) : s \o u \in Seq(S) /\ Range(s \o u) = Range(s) \cup Range(u)
           /\ s # <<>> => /\ Tail(s) \in Seq(S) /\ Head(s) \in Range(s)
                          /\ Range(s) = {Head(s)} \cup Range(Tail(s))
                          /\ s[1] = Head(s)
<1>1. Range(s) = {s[i] : i \in 1..Len(s)}
  BY RangeEquality
<1>2. ASSUME NEW e \in S
      PROVE  Append(s, e) \in Seq(S) /\ Range(Append(s, e)) = Range(s) \cup {e}
  <2>1. /\ Append(s, e) \in Seq(S) /\ Len(Append(s, e)) = Len(s) + 1 /\ Len(s) \in Nat
        /\ \A i \in 1..Len(s) : Append(s, e)[i] = s[i]
        /\ Append(s, e)[Len(s) + 1] = e
    BY AppendProperties
  <2>2. Range(Append(s, e)) = {Append(s, e)[i] : i \in 1..Len(s) + 1}
    BY <2>1, RangeEquality
  <2> QED BY <1>1, <2>1, <2>2
<1>3. s # <<>> => /\ Tail(s) \in Seq(S) /\ Head(s) \in Range(s)
                  /\ Range(s) = {Head(s)} \cup Range(Tail(s)) /\ s[1] = Head(s)
  <2> SUFFICES ASSUME s # <<>>
               PROVE  /\ Tail(s) \in Seq(S) /\ Head(s) \in Range(s)
                      /\ Range(s) = {Head(s)} \cup Range(Tail(s)) /\ s[1] = Head(s)
    OBVIOUS
  <2>1. /\ Tail(s) \in Seq(S) /\ Len(s) \in Nat \ {0} /\ Len(Tail(s)) = Len(s) - 1
        /\ \A i \in 1..Len(Tail(s)) : Tail(s)[i] = s[i + 1]
        /\ Head(s) = s[1]
    BY HeadTailProperties, EmptySeq
  <2>2. Range(Tail(s)) = {Tail(s)[i] : i \in 1..Len(s) - 1}
    BY <2>1, RangeEquality
  <2>3. \A i \in 1..Len(s) : i = 1 \/ (i - 1 \in 1..Len(s) - 1 /\ Tail(s)[i - 1] = s[i])
    BY <2>1
  <2>4. ASSUME NEW i \in 1..Len(s) PROVE s[i] = Head(s) \/ s[i] \in Range(Tail(s))
    <3>1. CASE i = 1
      BY <2>1, <3>1
    <3>2. CASE i # 1
      <4>1. i - 1 \in 1..Len(s) - 1 /\ Tail(s)[i - 1] = s[i]
        BY <2>3, <3>2
      <4> QED BY <2>2, <4>1
    <3> QED BY <3>1, <3>2
  <2>5. \A i \in 1..Len(s) - 1 : i + 1 \in 1..Len(s)
    BY <2>1
  <2>6. 1 \in 1..Len(s)
    BY <2>1
  <2>7. {Head(s)} \cup Range(Tail(s)) \subseteq Range(s)
    BY <1>1, <2>1, <2>2, <2>5, <2>6
  <2>8. Range(s) \subseteq {Head(s)} \cup Range(Tail(s))
    BY <1>1, <2>4
  <2> QED BY <1>1, <2>1, <2>6, <2>7, <2>8
<1>4. Range(s) \subseteq S
  BY RangeOfSeq
<1>5. \A u \in Seq(S) : s \o u \in Seq(S) /\ Range(s \o u) = Range(s) \cup Range(u)
  BY ConcatProperties, RangeConcatenation
<1> QED BY <1>1, <1>2, <1>3, <1>4, <1>5

\* The empty sequence and that of one element.
LEMMA Small ==
    /\ Range(<<>>) = {}
    /\ \A S : <<>> \in Seq(S)
    /\ \A e : Range(<<e>>) = {e} /\ Len(<<e>>) = 1 /\ <<e>>[1] = e
<1>1. Range(<<>>) = {}
  BY DEF Range
<1>2. \A e : Range(<<e>>) = {e}
  BY DEF Range
<1> QED BY <1>1, <1>2

\* The end of a sequence, as buffers and seen ids keep it.
LEMMA EndOf ==
    ASSUME NEW S, NEW s \in Seq(S), NEW k \in 1..Len(s)
    PROVE  /\ SubSeq(s, k, Len(s)) \in Seq(S)
           /\ Len(SubSeq(s, k, Len(s))) = Len(s) - k + 1
           /\ Range(SubSeq(s, k, Len(s))) \subseteq Range(s)
<1>1. /\ SubSeq(s, k, Len(s)) \in Seq(S)
      /\ Len(SubSeq(s, k, Len(s))) = Len(s) - k + 1
      /\ \A i \in 1..Len(s) - k + 1 : SubSeq(s, k, Len(s))[i] = s[k + i - 1]
  BY SubSeqProperties
<1>2. Range(SubSeq(s, k, Len(s))) = {SubSeq(s, k, Len(s))[i] : i \in 1..Len(s) - k + 1}
  BY <1>1, RangeEquality
<1>3. Range(s) = {s[i] : i \in 1..Len(s)}
  BY RangeEquality
<1> QED BY <1>1, <1>2, <1>3

-----------------------------------------------------------------------------
(* Buffers *)

\* A buffer keeps its newest messages.
LEMMA CappedKeeps ==
    ASSUME NEW s \in Seq(Message)
    PROVE  /\ Capped(s) \in Seq(Message) /\ Len(Capped(s)) <= BufferCap
           /\ Range(Capped(s)) \subseteq Range(s)
<1>1. Len(s) \in Nat /\ BufferCap \in Nat \ {0}
  BY LenProperties, StreamManagerConstants
<1>2. CASE Len(s) > BufferCap
  <2>1. Len(s) - BufferCap + 1 \in 1..Len(s)
    BY <1>1, <1>2
  <2> HIDE DEF Message
  <2>2. PICK k \in 1..Len(s) : k = Len(s) - BufferCap + 1
    BY <2>1
  <2>3. Capped(s) = SubSeq(s, k, Len(s)) /\ Len(s) - k + 1 = BufferCap
    BY <1>1, <1>2, <2>2 DEF Capped
  <2> QED BY <1>1, <2>3, EndOf
<1>3. CASE ~(Len(s) > BufferCap)
  BY <1>1, <1>3 DEF Capped
<1> QED BY <1>2, <1>3

\* The ids that are kept are old ones and the new one.
LEMMA RememberKeeps ==
    ASSUME NEW ids \in Seq(Ids), NEW id \in Ids
    PROVE  /\ Remember(ids, id) \in Seq(Ids)
           /\ Len(ids) <= SeenCap => Len(Remember(ids, id)) <= SeenCap
           /\ Range(Remember(ids, id)) \subseteq Range(ids) \cup {id}
<1> DEFINE s == Append(ids, id)
<1>1. /\ s \in Seq(Ids) /\ Len(s) = Len(ids) + 1 /\ Len(s) \in Nat
      /\ Range(s) = Range(ids) \cup {id}
  BY AppendProperties, Elements
<1>2. SeenCap \in Nat \ {0}
  BY StreamManagerConstants
<1>3. Remember(ids, id) = IF Len(s) > SeenCap THEN SubSeq(s, Len(s) \div 2 + 1, Len(s)) ELSE s
  BY DEF Remember
<1> HIDE DEF s
<1>4. CASE Len(s) > SeenCap
  <2>1. Len(s) \div 2 + 1 \in 1..Len(s) /\ Len(s) \div 2 >= 1
    BY <1>1, <1>2, <1>4
  <2>2. PICK k \in 1..Len(s) : k = Len(s) \div 2 + 1
    BY <2>1
  <2>3. Remember(ids, id) = SubSeq(s, k, Len(s))
    BY <1>3, <1>4, <2>2
  <2>4. /\ SubSeq(s, k, Len(s)) \in Seq(Ids)
        /\ Len(SubSeq(s, k, Len(s))) = Len(s) - k + 1
        /\ Range(SubSeq(s, k, Len(s))) \subseteq Range(s)
    BY <1>1, EndOf
  <2>5. k >= 2
    BY <1>1, <2>1, <2>2
  <2>6. Len(ids) <= SeenCap => Len(s) - k + 1 <= SeenCap
    BY <1>1, <1>2, <2>5
  <2> QED BY <1>1, <2>3, <2>4, <2>6
<1>5. CASE ~(Len(s) > SeenCap)
  BY <1>1, <1>2, <1>3, <1>5
<1> QED BY <1>4, <1>5

\* The marks message by message.
Marks(ids, ms, f) ==
    f = [j \in 0..Len(ms) |->
            IF j = 0 THEN [seen |-> ids, new |-> <<>>]
            ELSE IF ms[j].id \in Range(f[j - 1].seen) THEN f[j - 1]
            ELSE [seen |-> Remember(f[j - 1].seen, ms[j].id),
                  new |-> Append(f[j - 1].new, ms[j])]]

\* They exist, so that Marked is the last one.
LEMMA MarkedLast ==
    ASSUME NEW ids, NEW ms, Len(ms) \in Nat
    PROVE  \E f : Marks(ids, ms, f) /\ Marked(ids, ms) = f[Len(ms)]
<1> DEFINE Mark(f, j) ==
        IF j = 0 THEN [seen |-> ids, new |-> <<>>]
        ELSE IF ms[j].id \in Range(f[j - 1].seen) THEN f[j - 1]
        ELSE [seen |-> Remember(f[j - 1].seen, ms[j].id), new |-> Append(f[j - 1].new, ms[j])]
<1> DEFINE Upto(n) == \E f : f = [j \in 0..n |-> Mark(f, j)]
<1> DEFINE T == {n \in Nat : ~Upto(n)}
<1>0. \A f, g, j : j = 0 \/ f[j - 1] = g[j - 1] => Mark(f, j) = Mark(g, j)
  OBVIOUS
<1> HIDE DEF Mark
<1>1. T = {}
  <2> SUFFICES ASSUME T # {} PROVE FALSE
    OBVIOUS
  <2>1. PICK x \in T : \A y \in T : x <= y
    <3> HIDE DEF T
    <3>1. T \in SUBSET Nat
      BY DEF T
    <3> QED BY <3>1, Least
  <2>2. CASE x = 0
    <3> DEFINE f == [j \in 0..0 |-> Mark(0, j)]
    <3>1. \A j \in 0..0 : Mark(f, j) = Mark(0, j)
      <4> HIDE DEF f
      <4> QED BY <1>0
    <3>2. f = [j \in 0..0 |-> Mark(f, j)]
      BY <3>1
    <3> QED BY <2>1, <2>2, <3>2
  <2>3. CASE x # 0
    <3>1. x - 1 \in Nat /\ x \in Nat /\ x - 1 \notin T
      BY <2>1, <2>3
    <3>2. PICK g : g = [j \in 0..x - 1 |-> Mark(g, j)]
      BY <3>1
    <3> DEFINE f == [j \in 0..x |-> Mark(g, j)]
    <3>3. \A j \in 0..x : j = 0 \/ (f[j - 1] = Mark(g, j - 1) /\ g[j - 1] = Mark(g, j - 1))
      BY <3>1, <3>2
    <3>4. \A j \in 0..x : Mark(f, j) = Mark(g, j)
      <4> HIDE DEF f
      <4> QED BY <1>0, <3>3
    <3>5. f = [j \in 0..x |-> Mark(f, j)]
      BY <3>4
    <3>6. Upto(x)
      BY <3>5
    <3> QED BY <2>1, <3>6
  <2> QED BY <2>2, <2>3
<1>2. PICK f : f = [j \in 0..Len(ms) |-> Mark(f, j)]
  BY <1>1
<1>3. Marks(ids, ms, f)
  BY <1>2 DEF Marks, Mark
<1> DEFINE g == CHOOSE h : Marks(ids, ms, h)
<1>4. Marks(ids, ms, g)
  BY <1>3
<1>5. Marked(ids, ms) = g[Len(ms)]
  BY DEF Marked, Marks
<1> QED BY <1>4, <1>5

LEMMA MessageFields ==
    \A m \in Message : m.n \in 1..MaxPuts /\ m.control \in BOOLEAN /\ m.id \in Ids
BY DEF Message

\* Whoever is not known by its id is delivered, and only ids of what is delivered
\* are added to those that are seen.
LEMMA MarkedFacts ==
    ASSUME NEW ids \in Seq(Ids), NEW ms \in Seq(Message)
    PROVE  LET mark == Marked(ids, ms)
           IN  /\ mark.seen \in Seq(Ids)
               /\ Len(ids) <= SeenCap => Len(mark.seen) <= SeenCap
               /\ mark.new \in Seq(Message) /\ Range(mark.new) \subseteq Range(ms)
               /\ \A i \in Range(mark.seen) :
                      i \in Range(ids) \/ \E q \in Range(mark.new) : q.id = i
               /\ \A m \in Range(ms) :
                      m.id \in Range(ids) \/ \E q \in Range(mark.new) : q.id = m.id
<1> DEFINE Fine(mark, k) ==
        /\ mark.seen \in Seq(Ids)
        /\ Len(ids) <= SeenCap => Len(mark.seen) <= SeenCap
        /\ mark.new \in Seq(Message) /\ Range(mark.new) \subseteq Range(ms)
        /\ \A i \in Range(mark.seen) : i \in Range(ids) \/ \E q \in Range(mark.new) : q.id = i
        /\ \A j \in 1..k : ms[j].id \in Range(ids) \/ \E q \in Range(mark.new) : q.id = ms[j].id
<1>1. Len(ms) \in Nat /\ Range(ms) = {ms[j] : j \in 1..Len(ms)}
  BY LenProperties, RangeEquality
<1>2. \A j \in 1..Len(ms) : ms[j] \in Message /\ ms[j].id \in Ids /\ ms[j] \in Range(ms)
  <2>1. \A j \in 1..Len(ms) : ms[j] \in Message /\ ms[j] \in Range(ms)
    BY <1>1, ElementOfSeq
  <2> QED BY <2>1, MessageFields
<1>3. PICK f : Marks(ids, ms, f) /\ Marked(ids, ms) = f[Len(ms)]
  BY <1>1, MarkedLast
<1>4. f[0] = [seen |-> ids, new |-> <<>>]
  BY <1>1, <1>3 DEF Marks
<1>5. \A j \in 1..Len(ms) :
          f[j] = IF ms[j].id \in Range(f[j - 1].seen) THEN f[j - 1]
                 ELSE [seen |-> Remember(f[j - 1].seen, ms[j].id),
                       new |-> Append(f[j - 1].new, ms[j])]
  <2>1. \A j \in 0..Len(ms) :
            f[j] = IF j = 0 THEN [seen |-> ids, new |-> <<>>]
                   ELSE IF ms[j].id \in Range(f[j - 1].seen) THEN f[j - 1]
                   ELSE [seen |-> Remember(f[j - 1].seen, ms[j].id),
                         new |-> Append(f[j - 1].new, ms[j])]
    BY <1>3 DEF Marks
  <2>2. \A j \in 1..Len(ms) : j \in 0..Len(ms) /\ j # 0
    BY <1>1
  <2> QED BY <2>1, <2>2
<1>6. Fine(f[0], 0)
  BY <1>4, Small
<1>7. ASSUME NEW j \in 1..Len(ms), Fine(f[j - 1], j - 1)
      PROVE  Fine(f[j], j)
  <2>0. \A i \in 1..j : i \in 1..j - 1 \/ i = j
    OBVIOUS
  <2>1. CASE ms[j].id \in Range(f[j - 1].seen)
    <3>1. f[j] = f[j - 1]
      BY <1>5, <2>1
    <3>2. ms[j].id \in Range(ids) \/ \E q \in Range(f[j].new) : q.id = ms[j].id
      BY <1>7, <2>1, <3>1
    <3> QED BY <1>7, <2>0, <3>1, <3>2
  <2>2. CASE ms[j].id \notin Range(f[j - 1].seen)
    <3> DEFINE old == f[j - 1]
               e == ms[j]
    <3>0. f[j] = [seen |-> Remember(old.seen, e.id), new |-> Append(old.new, e)]
      BY <1>5, <2>2
    <3> HIDE DEF old, e
    <3>1. f[j].seen = Remember(old.seen, e.id) /\ f[j].new = Append(old.new, e)
      BY <3>0
    <3> USE DEF old, e
    <3>2. /\ f[j].seen \in Seq(Ids)
          /\ Len(ids) <= SeenCap => Len(f[j].seen) <= SeenCap
          /\ Range(f[j].seen) \subseteq Range(f[j - 1].seen) \cup {ms[j].id}
      BY <1>2, <1>7, <3>1, RememberKeeps
    <3>3. f[j].new \in Seq(Message) /\ Range(f[j].new) = Range(f[j - 1].new) \cup {ms[j]}
      BY <1>2, <1>7, <3>1, Elements
    <3>4. Range(f[j].new) \subseteq Range(ms)
      BY <1>2, <1>7, <3>3
    <3>5. \A i \in Range(f[j].seen) : i \in Range(ids) \/ \E q \in Range(f[j].new) : q.id = i
      BY <1>7, <3>2, <3>3
    <3>6. \A i \in 1..j : ms[i].id \in Range(ids) \/ \E q \in Range(f[j].new) : q.id = ms[i].id
      BY <1>7, <2>0, <3>3
    <3> QED BY <3>2, <3>3, <3>4, <3>5, <3>6
  <2> QED BY <2>1, <2>2
<1> DEFINE T == {j \in Nat : j <= Len(ms) /\ ~Fine(f[j], j)}
<1>8. T = {}
  <2> HIDE DEF Fine
  <2> SUFFICES ASSUME T # {} PROVE FALSE
    OBVIOUS
  <2>1. PICK x \in T : \A y \in T : x <= y
    <3>1. T \in SUBSET Nat
      OBVIOUS
    <3> HIDE DEF T
    <3> QED BY <3>1, Least
  <2>2. x # 0
    BY <1>6, <2>1
  <2>3. x \in 1..Len(ms) /\ x - 1 \in Nat /\ x - 1 <= Len(ms) /\ x - 1 \notin T
    BY <1>1, <2>1, <2>2
  <2> QED BY <1>7, <2>1, <2>3
<1>9. Fine(f[Len(ms)], Len(ms))
  <2> HIDE DEF Fine
  <2> QED BY <1>1, <1>8
<1> QED BY <1>1, <1>3, <1>9

-----------------------------------------------------------------------------
(* Steps *)

\* put and put_batch with any messages, and the other steps.
LEMMA NextCases ==
    ASSUME [Next]_vars
    PROVE  \/ \E t \in Tasks, control \in BOOLEAN, k \in Nat \ {0} : Put(t, control, k)
           \/ \E t \in Tasks : Buffer(t) \/ SetKey(t) \/ Publish(t) \/ PutFails(t)
           \/ \E p \in Procs : Receive(p) \/ MuxDown(p) \/ MuxUp(p)
           \/ \E c \in -1..MaxId : Subscribe(c)
           \/ Restore \/ Read \/ Unsubscribe \/ Listen \/ Hydrate \/ Leave \/ DropStore
           \/ UNCHANGED vars
<1>1. ASSUME NEW t \in Tasks, NEW k \in 1..BatchSize, Put(t, FALSE, k)
      PROVE  \E control \in BOOLEAN, l \in Nat \ {0} : Put(t, control, l)
  <2>1. k \in Nat \ {0} /\ FALSE \in BOOLEAN
    BY StreamManagerConstants
  <2> QED BY <1>1, <2>1, Zenon
<1>2. ASSUME NEW t \in Tasks, Put(t, TRUE, 1)
      PROVE  \E control \in BOOLEAN, l \in Nat \ {0} : Put(t, control, l)
  <2>1. 1 \in Nat \ {0} /\ TRUE \in BOOLEAN
    OBVIOUS
  <2> QED BY <1>2, <2>1, Zenon
<1> QED BY <1>1, <1>2, Zenon DEF Next

-----------------------------------------------------------------------------
(* Types *)

\* What a process does to its own messages, in terms of their elements.
Delivers(p, ms) ==
    /\ \A q \in Procs : q # p => seen'[q] = seen[q]
    /\ \A i \in Range(seen'[p]) : i \in Range(seen[p]) \/ \E m \in Range(ms) : m.id = i
    /\ reader' = [reader EXCEPT !.queue = reader'.queue]
    /\ Range(reader.queue) \subseteq Range(reader'.queue)
    /\ p = ReaderAt /\ reader.pc # "off" =>
          \A m \in Range(ms) : IsFrame(m) =>
              \/ m.id \in Range(seen[p])
              \/ \E q \in Range(reader'.queue) \cap Range(ms) : q.id = m.id
    /\ listener' = [listener EXCEPT !.heard = listener'.heard]
    /\ listener.heard => listener'.heard
    /\ p = ListenerAt /\ listener.pc # "off" =>
          \A m \in Range(ms) : IsControl(m) => m.id \in Range(seen[p]) \/ listener'.heard

\* _deliver_local with messages of one kind.
LEMMA DeliverFacts ==
    ASSUME TypeOK, NEW p \in Procs, NEW ms \in Seq(Message), Deliver(p, ms),
           \A m, q \in Range(ms) : m.control = q.control
    PROVE  /\ Delivers(p, ms)
           /\ seen' \in [Procs -> Seq(Ids)]
           /\ \A q \in Procs : Len(seen'[q]) <= SeenCap
           /\ reader'.queue \in Seq(Message)
           /\ listener'.heard \in BOOLEAN
<1> DEFINE mark == Marked(seen[p], ms)
<1>1. /\ seen \in [Procs -> Seq(Ids)] /\ \A q \in Procs : Len(seen[q]) <= SeenCap
      /\ reader.queue \in Seq(Message) /\ listener.heard \in BOOLEAN
  BY DEF TypeOK, Reader, Listener
<1>2. /\ mark.seen \in Seq(Ids) /\ Len(mark.seen) <= SeenCap
      /\ mark.new \in Seq(Message) /\ Range(mark.new) \subseteq Range(ms)
      /\ \A i \in Range(mark.seen) : i \in Range(seen[p]) \/ \E q \in Range(mark.new) : q.id = i
      /\ \A m \in Range(ms) : m.id \in Range(seen[p]) \/ \E q \in Range(mark.new) : q.id = m.id
  BY <1>1, MarkedFacts
<1>3. seen' = [seen EXCEPT ![p] = mark.seen]
  BY DEF Deliver
<1>4. /\ seen' \in [Procs -> Seq(Ids)] /\ \A q \in Procs : Len(seen'[q]) <= SeenCap
      /\ \A q \in Procs : q # p => seen'[q] = seen[q]
      /\ seen'[p] = mark.seen
  <2> HIDE DEF mark
  <2> QED BY <1>1, <1>2, <1>3
<1>5. reader' = IF p = ReaderAt /\ reader.pc # "off" /\ mark.new # <<>>
                   /\ IsControl(mark.new[1]) = FALSE
                THEN [reader EXCEPT !.queue = @ \o mark.new] ELSE reader
  BY DEF Deliver
<1>6. listener' = IF p = ListenerAt /\ listener.pc # "off" /\ mark.new # <<>>
                     /\ IsControl(mark.new[1]) = TRUE
                  THEN [listener EXCEPT !.heard = TRUE] ELSE listener
  BY DEF Deliver
<1>7. reader \in Reader /\ listener \in Listener
  BY DEF TypeOK
<1> HIDE DEF mark
<1> USE DEF Reader, Listener
<1>8. mark.new # <<>> => mark.new[1] \in Range(mark.new)
  BY <1>2, Elements
<1>9. \A m \in Range(ms) : m.control \in BOOLEAN
  BY Elements, MessageFields
<1>10. \A m \in Range(ms) : m.id \in Range(seen[p])
                             \/ (mark.new # <<>> /\ mark.new[1].control = m.control)
  <2>1. TAKE m \in Range(ms)
  <2>2. CASE m.id \notin Range(seen[p])
    <3>1. Range(mark.new) # {}
      BY <1>2, <2>2
    <3>2. mark.new # <<>>
      BY <3>1, Small
    <3> QED BY <1>2, <1>8, <3>2
  <2> QED BY <2>2
<1>11. /\ Range(reader.queue) \subseteq Range(reader'.queue)
       /\ reader' = [reader EXCEPT !.queue = reader'.queue]
       /\ reader'.queue \in Seq(Message)
  <2>1. CASE reader' = reader
    BY <1>1, <1>7, <2>1
  <2>2. CASE reader' = [reader EXCEPT !.queue = @ \o mark.new]
    <3>1. reader'.queue = reader.queue \o mark.new
      BY <1>7, <2>2
    <3> QED BY <1>1, <1>2, <1>7, <2>2, <3>1, Elements
  <2> QED BY <1>5, <2>1, <2>2
<1>12. ASSUME p = ReaderAt, reader.pc # "off", NEW m \in Range(ms), IsFrame(m),
              m.id \notin Range(seen[p])
       PROVE  \E q \in Range(reader'.queue) \cap Range(ms) : q.id = m.id
  <2>1. mark.new # <<>> /\ IsControl(mark.new[1]) = FALSE
    BY <1>2, <1>8, <1>9, <1>10, <1>12 DEF IsFrame, IsControl
  <2>2. reader'.queue = reader.queue \o mark.new
    BY <1>5, <1>7, <1>12, <2>1
  <2>3. Range(mark.new) \subseteq Range(reader'.queue)
    BY <1>1, <1>2, <2>2, Elements
  <2> QED BY <1>2, <1>12, <2>3
<1>13. /\ listener' = [listener EXCEPT !.heard = listener'.heard]
       /\ listener'.heard \in BOOLEAN /\ (listener.heard => listener'.heard)
  BY <1>6, <1>7
<1>14. ASSUME p = ListenerAt, listener.pc # "off", NEW m \in Range(ms), IsControl(m),
              m.id \notin Range(seen[p])
       PROVE  listener'.heard
  <2>1. mark.new # <<>> /\ IsControl(mark.new[1]) = TRUE
    BY <1>2, <1>8, <1>9, <1>10, <1>14 DEF IsControl
  <2> QED BY <1>6, <1>7, <1>14, <2>1
<1>15. \A i \in Range(seen'[p]) : i \in Range(seen[p]) \/ \E m \in Range(ms) : m.id = i
  BY <1>2, <1>4
<1>16. Delivers(p, ms)
  BY <1>4, <1>11, <1>12, <1>13, <1>14, <1>15 DEF Delivers
<1> QED BY <1>4, <1>11, <1>13, <1>16

\* New messages: the next numbers, and ids that are greater than all of their source.
New(s, control, ms) ==
    /\ ms \in Seq(Message) /\ ms # <<>>
    /\ \A m \in Range(ms) :
          /\ m.control = control /\ puts < m.n /\ m.n <= puts'
          /\ m.id \in issued'[s] /\ m.id \notin issued[s]
    /\ \A m, q \in Range(ms) : m.id = q.id => m = q

LEMMA PutFacts ==
    ASSUME TypeOK, NEW t \in Tasks, NEW control \in BOOLEAN, NEW k \in Nat \ {0},
           Put(t, control, k)
    PROVE  \E ms : /\ New(Source(t, control), control, ms)
                   /\ issued' \in [Sources -> SUBSET Ids] /\ puts' \in 0..MaxPuts
                   /\ \A s \in Sources : issued[s] \subseteq issued'[s]
                   /\ stream' = IF Source(t, control) = Redis THEN stream \o ms ELSE stream
                   /\ task' = [task EXCEPT ![t] = [pc |-> "buffer", msgs |-> ms]]
<1> DEFINE s == Source(t, control)
<1>1. s \in Sources
  BY StreamManagerConstants DEF Source, Sources
<1> HIDE DEF s
<1>2. /\ puts \in Nat /\ MaxPuts \in Nat /\ MaxId \in Nat /\ puts + k <= MaxPuts
      /\ puts' = puts + k /\ issued \in [Sources -> SUBSET Ids]
  BY StreamManagerConstants DEF TypeOK, Put
<1>3. PICK i \in 1..(MaxId - k + 1) :
          LET ms == [j \in 1..k |-> [n |-> puts + j, control |-> control, id |-> i + j - 1]]
          IN  /\ \A old \in issued[s] : old < i
              /\ issued' = [issued EXCEPT ![s] = @ \cup i..(i + k - 1)]
              /\ stream' = IF s = Redis THEN stream \o ms ELSE stream
              /\ task' = [task EXCEPT ![t] = [pc |-> "buffer", msgs |-> ms]]
  BY DEF Put, s
<1> DEFINE e(j) == [n |-> puts + j, control |-> control, id |-> i + j - 1]
           ms == [j \in 1..k |-> e(j)]
<1>4. \A j \in 1..k : /\ e(j) \in Message /\ e(j).control = control
                      /\ e(j).n = puts + j /\ e(j).id = i + j - 1
  <2>1. \A j \in 1..k : puts + j \in 1..MaxPuts /\ i + j - 1 \in 1..MaxId
    BY <1>2
  <2> QED BY <2>1 DEF Message, Ids
<1> HIDE DEF e
<1>5. ms \in Seq(Message) /\ Len(ms) = k
  <2>1. ms \in [1..k -> Message]
    BY <1>4
  <2> QED BY <2>1
<1>6. Range(ms) = {e(j) : j \in 1..k}
  BY DEF Range
<1>7. ms # <<>>
  <2>1. e(1) \in Range(ms)
    BY <1>6
  <2> QED BY <2>1, Small
<1>8. issued'[s] = issued[s] \cup i..(i + k - 1) /\ issued' \in [Sources -> SUBSET Ids]
      /\ \A u \in Sources : issued[u] \subseteq issued'[u]
  <2>1. i..(i + k - 1) \subseteq Ids
    BY <1>2 DEF Ids
  <2> QED BY <1>1, <1>2, <1>3, <2>1
<1>9. \A j \in 1..k : /\ puts < puts + j /\ puts + j <= puts'
                      /\ i + j - 1 \in i..(i + k - 1) /\ i + j - 1 \notin issued[s]
  BY <1>2, <1>3
<1>10. \A m, q \in Range(ms) : m.id = q.id => m = q
  <2> SUFFICES ASSUME NEW j \in 1..k, NEW l \in 1..k, e(j).id = e(l).id PROVE e(j) = e(l)
    BY <1>6
  <2>1. j = l
    BY <1>4
  <2> QED BY <2>1
<1>11. New(s, control, ms)
  BY <1>4, <1>5, <1>6, <1>7, <1>8, <1>9, <1>10 DEF New
<1>12. /\ stream' = IF s = Redis THEN stream \o ms ELSE stream
       /\ task' = [task EXCEPT ![t] = [pc |-> "buffer", msgs |-> ms]]
  BY <1>3 DEF e
<1>13. puts' \in 0..MaxPuts
  BY <1>2
<1> QED BY <1>8, <1>11, <1>12, <1>13 DEF s

\* What the actions of the reader change of it.
LEMMA YieldFacts ==
    ASSUME TypeOK, NEW ms \in Seq(Message), NEW q \in Seq(Message), Yield(ms, q)
    PROVE  /\ reader' \in Reader
           /\ reader'.pc = "live" /\ reader'.cursor = reader.cursor /\ reader'.queue = q
           /\ reader'.whole = reader.whole /\ reader'.before = reader.before
           /\ reader.emitted \subseteq reader'.emitted
           /\ \A m \in Range(ms) : m.id <= reader.cursor \/ m.id \in reader'.emitted
<1> DEFINE I == {i \in DOMAIN ms : Accept(ms[i])}
           latest == IF I = {} THEN reader.latest ELSE ms[Max(I)].id
<1>0. reader \in Reader
  BY DEF TypeOK
<1> USE DEF Reader
<1>1. Len(ms) \in Nat /\ DOMAIN ms = 1..Len(ms) /\ \A i \in 1..Len(ms) : ms[i] \in Message
  BY LenProperties, ElementOfSeq
<1>2. \A i \in 1..Len(ms) : ms[i].id \in Ids
  BY <1>1, MessageFields
<1>3. I \in SUBSET (1..Len(ms))
  BY <1>1
<1>4. latest \in -1..MaxId
  <2>1. CASE I = {}
    BY <1>0, <2>1
  <2>2. CASE I # {}
    <3> HIDE DEF I
    <3>1. ms[Max(I)].id \in Ids
      BY <1>1, <1>2, <1>3, <2>2, MaxPosition
    <3> QED BY <2>2, <3>1 DEF Ids
  <2> QED BY <2>1, <2>2
<1>5. reader' = [reader EXCEPT !.pc = "live", !.queue = q,
                    !.emitted = @ \cup {ms[i].id : i \in I}, !.latest = latest]
  BY DEF Yield
<1>6. {ms[i].id : i \in I} \subseteq Ids
  BY <1>2, <1>3
<1>7. \A m \in Range(ms) : m.id <= reader.cursor \/ m.id \in reader.emitted
                           \/ m.id \in {ms[i].id : i \in I}
  <2>1. TAKE m \in Range(ms)
  <2>2. PICK i \in 1..Len(ms) : m = ms[i]
    BY <1>1 DEF Range
  <2>3. m.id \in Int /\ reader.cursor \in Int
    BY <1>0, <1>2, <2>2 DEF Ids
  <2>4. CASE Accept(m)
    BY <1>1, <2>2, <2>4
  <2>5. CASE ~Accept(m)
    BY <2>3, <2>5 DEF Accept
  <2> QED BY <2>4, <2>5
<1> HIDE DEF latest
<1> DEFINE new == {ms[i].id : i \in I}
<1> HIDE DEF I
<1>8. reader' = [reader EXCEPT !.pc = "live", !.queue = q,
                    !.emitted = reader.emitted \cup new, !.latest = latest]
  BY <1>0, <1>5
<1> HIDE DEF new
<1>9. new \subseteq Ids /\ \A m \in Range(ms) : m.id <= reader.cursor \/ m.id \in reader.emitted
                                                \/ m.id \in new
  BY <1>6, <1>7 DEF new
<1> QED BY <1>0, <1>4, <1>8, <1>9

\* The messages of a call.
LEMMA TaskFacts ==
    ASSUME TypeOK, NEW t \in Tasks
    PROVE  /\ task[t] \in Call
           /\ task[t].msgs \in Seq(Message) /\ Range(task[t].msgs) \subseteq Message
           /\ ProcOf[t] \in Procs
<1>1. task[t] \in Call
  BY DEF TypeOK
<1>2. task[t].msgs \in Seq(Message)
  BY <1>1 DEF Call
<1> QED BY <1>1, <1>2, Elements, StreamManagerConstants

\* Buffer and Receive deliver.
LEMMA BufferFacts ==
    ASSUME TypeOK, TaskInv, NEW t \in Tasks, Buffer(t)
    PROVE  LET ms == task[t].msgs
           IN  /\ Delivers(ProcOf[t], ms)
               /\ seen' \in [Procs -> Seq(Ids)] /\ \A q \in Procs : Len(seen'[q]) <= SeenCap
               /\ reader'.queue \in Seq(Message) /\ listener'.heard \in BOOLEAN
               /\ ms # <<>> /\ ms[1] \in Range(ms)
<1>1. task[t].msgs \in Seq(Message) /\ ProcOf[t] \in Procs
  BY TaskFacts
<1>2. \A m, q \in Range(task[t].msgs) : m.control = q.control
  BY DEF TaskInv
<1>3. Deliver(ProcOf[t], task[t].msgs)
  BY DEF Buffer
<1>4. task[t].msgs # <<>>
  BY DEF Buffer, TaskInv
<1>5. task[t].msgs[1] \in Range(task[t].msgs)
  BY <1>1, <1>4, Elements
<1> QED BY <1>1, <1>2, <1>3, <1>4, <1>5, DeliverFacts

LEMMA ReceiveFacts ==
    ASSUME TypeOK, NEW p \in Procs, Receive(p)
    PROVE  LET m == Head(chan[p])
           IN  /\ Delivers(p, <<m>>)
               /\ seen' \in [Procs -> Seq(Ids)] /\ \A q \in Procs : Len(seen'[q]) <= SeenCap
               /\ reader'.queue \in Seq(Message) /\ listener'.heard \in BOOLEAN
               /\ m \in Message /\ Range(<<m>>) = {m}
               /\ Range(chan[p]) = {m} \cup Range(chan'[p])
               /\ \A q \in Procs : q # p => chan'[q] = chan[q]
               /\ chan' \in [Procs -> Seq(Message)]
<1>1. chan \in [Procs -> Seq(Message)] /\ chan[p] # <<>> /\ chan' = [chan EXCEPT ![p] = Tail(@)]
  BY DEF TypeOK, Receive
<1>2. /\ Head(chan[p]) \in Message /\ Tail(chan[p]) \in Seq(Message)
      /\ Range(chan[p]) = {Head(chan[p])} \cup Range(Tail(chan[p]))
  BY <1>1, Elements
<1>3. <<Head(chan[p])>> \in Seq(Message) /\ Range(<<Head(chan[p])>>) = {Head(chan[p])}
  BY <1>2, Small
<1>4. Deliver(p, <<Head(chan[p])>>)
  BY DEF Receive
<1> HIDE DEF Message
<1>5. /\ chan'[p] = Tail(chan[p]) /\ chan' \in [Procs -> Seq(Message)]
      /\ \A q \in Procs : q # p => chan'[q] = chan[q]
  BY <1>1, <1>2
<1> QED BY <1>2, <1>3, <1>4, <1>5, DeliverFacts

\* Records with a new field.
LEMMA DeliveredTypes ==
    ASSUME TypeOK, NEW p, NEW ms, Delivers(p, ms),
           reader'.queue \in Seq(Message), listener'.heard \in BOOLEAN
    PROVE  /\ reader' \in Reader /\ listener' \in Listener
           /\ reader'.pc = reader.pc /\ reader'.cursor = reader.cursor
           /\ reader'.emitted = reader.emitted /\ reader'.whole = reader.whole
           /\ reader'.before = reader.before
           /\ listener'.pc = listener.pc /\ listener'.whole = listener.whole
           /\ listener'.since = listener.since /\ (listener.heard => listener'.heard)
           /\ Range(reader.queue) \subseteq Range(reader'.queue)
<1>1. reader \in Reader /\ listener \in Listener
  BY DEF TypeOK
<1>2. reader' = [reader EXCEPT !.queue = reader'.queue]
      /\ listener' = [listener EXCEPT !.heard = listener'.heard]
  BY DEF Delivers
<1>3. (listener.heard => listener'.heard) /\ Range(reader.queue) \subseteq Range(reader'.queue)
  BY DEF Delivers
<1> QED BY <1>1, <1>2, <1>3 DEF Reader, Listener

LEMMA TypeInit == Init => TypeOK
<1> SUFFICES ASSUME Init PROVE TypeOK
  OBVIOUS
<1>1. /\ BufferCap \in Nat /\ SeenCap \in Nat /\ MaxBreaks \in Nat /\ MaxPuts \in Nat
      /\ MaxId \in Nat
  BY StreamManagerConstants
<1>2. Len(<<>>) = 0 /\ <<>> \in Seq(Message) /\ <<>> \in Seq(Ids)
  OBVIOUS
<1>3. reader \in Reader /\ listener \in Listener
  <2>1. <<>> \in Seq(Message) /\ -1 \in -1..MaxId /\ 0 \in 0..MaxPuts
    BY <1>1
  <2> QED BY <2>1 DEF Init, NoReader, NoListener, Reader, Listener
<1>4. NoTask \in Call
  BY <1>2 DEF NoTask, Call
<1>5. /\ resumable \in BOOLEAN /\ issued \in [Sources -> SUBSET Ids]
      /\ redisKey \in BOOLEAN /\ key \in [Procs -> BOOLEAN] /\ up \in [Procs -> BOOLEAN]
  BY Zenon DEF Init
<1>6. /\ stream \in Seq(Message) /\ store \in [Procs -> Seq(Message)]
      /\ seen \in [Procs -> Seq(Ids)] /\ chan \in [Procs -> Seq(Message)]
  BY <1>2, Zenon DEF Init
<1>7. \A p \in Procs : Len(store[p]) <= BufferCap /\ Len(seen[p]) <= SeenCap
  BY <1>1, <1>2 DEF Init
<1>8. task \in [Tasks -> Call]
  BY <1>4 DEF Init
<1>9. done \subseteq Message /\ breaks \in 0..MaxBreaks /\ puts \in 0..MaxPuts
  BY <1>1 DEF Init
<1> QED BY <1>3, <1>5, <1>6, <1>7, <1>8, <1>9 DEF TypeOK

LEMMA TypePut ==
    ASSUME TypeOK, NEW t \in Tasks, NEW control \in BOOLEAN, NEW k \in Nat \ {0},
           Put(t, control, k)
    PROVE  TypeOK'
<1>1. PICK ms : /\ New(Source(t, control), control, ms)
                /\ issued' \in [Sources -> SUBSET Ids] /\ puts' \in 0..MaxPuts
                /\ stream' = IF Source(t, control) = Redis THEN stream \o ms ELSE stream
                /\ task' = [task EXCEPT ![t] = [pc |-> "buffer", msgs |-> ms]]
  BY PutFacts
<1>2. ms \in Seq(Message)
  BY <1>1 DEF New
<1>3. stream' \in Seq(Message)
  BY <1>1, <1>2, Elements DEF TypeOK
<1>4. task' \in [Tasks -> Call]
  <2>1. [pc |-> "buffer", msgs |-> ms] \in Call
    BY <1>2 DEF Call
  <2> QED BY <1>1, <2>1 DEF TypeOK
<1> QED BY <1>1, <1>3, <1>4 DEF TypeOK, Put

LEMMA TypeBuffer ==
    ASSUME TypeOK, TaskInv, NEW t \in Tasks, Buffer(t)
    PROVE  TypeOK'
<1> DEFINE ms == task[t].msgs
           p == ProcOf[t]
<1>1. /\ Delivers(p, ms)
      /\ seen' \in [Procs -> Seq(Ids)] /\ \A q \in Procs : Len(seen'[q]) <= SeenCap
      /\ reader'.queue \in Seq(Message) /\ listener'.heard \in BOOLEAN
  BY BufferFacts
<1>2. reader' \in Reader /\ listener' \in Listener
  BY <1>1, DeliveredTypes
<1>3. ms \in Seq(Message) /\ p \in Procs /\ task[t] \in Call
  BY TaskFacts
<1>4. store' \in [Procs -> Seq(Message)] /\ \A q \in Procs : Len(store'[q]) <= BufferCap
  <2> DEFINE new == Capped(store[p] \o ms)
  <2>1. /\ store \in [Procs -> Seq(Message)] /\ \A q \in Procs : Len(store[q]) <= BufferCap
        /\ store[p] \o ms \in Seq(Message)
    BY <1>3, Elements DEF TypeOK
  <2>2. new \in Seq(Message) /\ Len(new) <= BufferCap
    BY <2>1, CappedKeeps
  <2>3. store' = store \/ store' = [store EXCEPT ![p] = new]
    BY DEF Buffer
  <2> HIDE DEF new
  <2> QED BY <1>3, <2>1, <2>2, <2>3
<1>5. key' \in [Procs -> BOOLEAN]
  <2>1. key' = [key EXCEPT ![p] = key'[p]] /\ key'[p] \in BOOLEAN
    <3>1. IsControl(ms[1]) \in BOOLEAN
      <4>1. ms[1] \in Range(ms)
        BY BufferFacts
      <4>2. ms[1] \in Message
        BY <4>1, TaskFacts
      <4> QED BY <4>2, MessageFields DEF IsControl
    <3> QED BY <1>3, <3>1 DEF Buffer, TypeOK
  <2> QED BY <1>3, <2>1 DEF TypeOK
<1>6. task' \in [Tasks -> Call]
  <2>1. PICK pc \in {"key", "publish"} : task' = [task EXCEPT ![t].pc = pc]
    BY DEF Buffer
  <2>2. [task[t] EXCEPT !.pc = pc] \in Call
    BY <1>3 DEF Call
  <2> QED BY <2>1, <2>2 DEF TypeOK
<1> QED BY <1>1, <1>2, <1>4, <1>5, <1>6 DEF TypeOK, Buffer

LEMMA TypeReceive ==
    ASSUME TypeOK, NEW p \in Procs, Receive(p)
    PROVE  TypeOK'
<1> DEFINE m == Head(chan[p])
<1>1. /\ Delivers(p, <<m>>)
      /\ seen' \in [Procs -> Seq(Ids)] /\ \A q \in Procs : Len(seen'[q]) <= SeenCap
      /\ reader'.queue \in Seq(Message) /\ listener'.heard \in BOOLEAN
      /\ m \in Message /\ chan' \in [Procs -> Seq(Message)]
  BY ReceiveFacts
<1>2. reader' \in Reader /\ listener' \in Listener
  BY <1>1, DeliveredTypes
<1>3. key' \in [Procs -> BOOLEAN]
  <2>1. m.control \in BOOLEAN
    BY <1>1, MessageFields
  <2>2. key' = [key EXCEPT ![p] = key[p] \/ (m.control /\ m.id \notin Range(seen[p]))]
    BY DEF Receive, IsControl, TypeOK
  <2> HIDE DEF m
  <2> QED BY <2>1, <2>2 DEF TypeOK
<1> QED BY <1>1, <1>2, <1>3 DEF TypeOK, Receive

\* The other steps of calls.
LEMMA TypeCall ==
    ASSUME TypeOK, NEW t \in Tasks, SetKey(t) \/ Publish(t) \/ PutFails(t)
    PROVE  TypeOK'
<1>1. NoTask \in Call
  BY Small DEF NoTask, Call
<1>2. /\ task[t] \in Call /\ task[t].msgs \in Seq(Message) /\ Range(task[t].msgs) \subseteq Message
  BY TaskFacts
<1>3. CASE SetKey(t)
  <2>1. [task[t] EXCEPT !.pc = "publish"] \in Call
    BY <1>2 DEF Call
  <2>2. task' \in [Tasks -> Call]
    BY <1>3, <2>1 DEF SetKey, TypeOK
  <2> QED BY <1>3, <2>2 DEF SetKey, TypeOK
<1>4. CASE Publish(t)
  <2>1. task' \in [Tasks -> Call]
    BY <1>1, <1>4 DEF Publish, TypeOK
  <2>2. \A p \in Procs : chan[p] \o task[t].msgs \in Seq(Message)
    BY <1>2, Elements DEF TypeOK
  <2>3. chan' \in [Procs -> Seq(Message)]
    BY <1>4, <2>2 DEF Publish, TypeOK
  <2>4. done' \subseteq Message
    BY <1>2, <1>4 DEF Publish, TypeOK
  <2> QED BY <1>4, <2>1, <2>3, <2>4 DEF Publish, TypeOK
<1>5. CASE PutFails(t)
  BY <1>1, <1>5 DEF PutFails, TypeOK
<1> QED BY <1>3, <1>4, <1>5

LEMMA TypeMux ==
    ASSUME TypeOK, NEW p \in Procs, MuxDown(p) \/ MuxUp(p)
    PROVE  TypeOK'
<1>1. CASE MuxDown(p)
  <2>1. reader' \in Reader
    BY <1>1 DEF MuxDown, TypeOK, Reader
  <2>2. listener' \in Listener
    BY <1>1 DEF MuxDown, TypeOK, Listener
  <2>3. chan' \in [Procs -> Seq(Message)] /\ up' \in [Procs -> BOOLEAN]
    BY <1>1, Small DEF MuxDown, TypeOK
  <2>4. breaks' \in 0..MaxBreaks
    <3>1. MaxBreaks \in Nat
      BY StreamManagerConstants
    <3> QED BY <1>1, <3>1 DEF MuxDown, TypeOK
  <2> QED BY <1>1, <2>1, <2>2, <2>3, <2>4 DEF MuxDown, TypeOK
<1>2. CASE MuxUp(p)
  BY <1>2 DEF MuxUp, TypeOK
<1> QED BY <1>1, <1>2

\* What Restore and Read yield.
LEMMA ReadFacts ==
    ASSUME TypeOK, Read
    PROVE  LET m == Head(reader.queue)
           IN  /\ reader' \in Reader
               /\ reader.pc = "live" /\ reader'.pc = "live" /\ reader'.cursor = reader.cursor
               /\ reader'.whole = reader.whole /\ reader'.before = reader.before
               /\ reader.emitted \subseteq reader'.emitted
               /\ Range(reader.queue) = {m} \cup Range(reader'.queue)
               /\ m.id <= reader.cursor \/ m.id \in reader'.emitted
<1>1. reader.queue \in Seq(Message) /\ reader.queue # <<>>
  BY DEF Read, TypeOK, Reader
<1>2. /\ Head(reader.queue) \in Message /\ Tail(reader.queue) \in Seq(Message)
      /\ Range(reader.queue) = {Head(reader.queue)} \cup Range(Tail(reader.queue))
  BY <1>1, Elements
<1>3. <<Head(reader.queue)>> \in Seq(Message)
      /\ Range(<<Head(reader.queue)>>) = {Head(reader.queue)}
  BY <1>2, Small
<1>4. Yield(<<Head(reader.queue)>>, Tail(reader.queue)) /\ reader.pc = "live"
  BY DEF Read
<1> QED BY <1>2, <1>3, <1>4, YieldFacts

LEMMA RestoreFacts ==
    ASSUME TypeOK, Restore
    PROVE  /\ reader' \in Reader /\ reader'.queue = reader.queue
           /\ reader.pc = "restore" /\ reader'.pc = "live" /\ reader'.cursor = reader.cursor
           /\ reader'.whole = reader.whole /\ reader'.before = reader.before
           /\ reader.emitted \subseteq reader'.emitted
           /\ reader.cursor # -1 => \A m \in Range(stream) :
                  m.id <= reader.cursor \/ m.id \in reader'.emitted
<1> DEFINE ms == IF reader.cursor = -1 THEN <<>> ELSE Restored(reader.cursor)
<1>1. /\ reader.queue \in Seq(Message) /\ store[ReaderAt] \in Seq(Message)
      /\ stream \in Seq(Message) /\ reader.cursor \in Int
  BY StreamManagerConstants DEF TypeOK, Reader
<1>2. ms \in Seq(Message)
  BY <1>1, Small DEF Restored
<1>3. Yield(ms, reader.queue) /\ reader.pc = "restore"
  BY DEF Restore
<1>4. ASSUME reader.cursor # -1, NEW m \in Range(stream), ~(m.id <= reader.cursor)
      PROVE  m \in Range(ms)
  <2>1. m.id \in Int
    BY <1>1, Elements, MessageFields DEF Ids
  <2>2. Restored(reader.cursor) = stream
    BY <1>1, <1>4, <2>1 DEF Restored
  <2> QED BY <1>4, <2>2
<1> HIDE DEF ms
<1> QED BY <1>1, <1>2, <1>3, <1>4, YieldFacts

LEMMA TypeReader ==
    ASSUME TypeOK, (\E c \in -1..MaxId : Subscribe(c)) \/ Restore \/ Read \/ Unsubscribe
    PROVE  TypeOK'
<1>1. ASSUME NEW c \in -1..MaxId, Subscribe(c) PROVE TypeOK'
  <2>1. done \cup Gone \subseteq Message /\ store[ReaderAt] \in Seq(Message)
        /\ up[ReaderAt] \in BOOLEAN
    BY StreamManagerConstants DEF TypeOK, Gone
  <2>2. reader' = [pc |-> "restore", cursor |-> c, queue |-> store[ReaderAt], emitted |-> {},
                   latest |-> c, whole |-> up[ReaderAt], before |-> done \cup Gone]
    BY <1>1 DEF Subscribe
  <2>3. reader' \in Reader
    BY <2>1, <2>2 DEF Reader
  <2> QED BY <1>1, <2>3 DEF Subscribe, TypeOK
<1>2. CASE Restore
  BY <1>2, RestoreFacts DEF Restore, TypeOK
<1>3. CASE Read
  BY <1>3, ReadFacts DEF Read, TypeOK
<1>4. CASE Unsubscribe
  <2>0. MaxBreaks \in Nat /\ MaxId \in Nat /\ <<>> \in Seq(Message)
    BY Small, StreamManagerConstants
  <2>1. reader' \in Reader
    <3>1. reader.latest \in -1..MaxId
      BY DEF TypeOK, Reader
    <3>2. -1 \in -1..MaxId
      BY <2>0
    <3> QED BY <1>4, <2>0, <3>1, <3>2 DEF Unsubscribe, Reader, NoReader
  <2>2. breaks' \in 0..MaxBreaks
    BY <1>4, <2>0 DEF Unsubscribe, TypeOK
  <2> QED BY <1>4, <2>1, <2>2 DEF Unsubscribe, TypeOK
<1> QED BY <1>1, <1>2, <1>3, <1>4

LEMMA TypeListener ==
    ASSUME TypeOK, Listen \/ Hydrate \/ Leave \/ DropStore
    PROVE  TypeOK'
<1>1. ListenerAt \in Procs /\ MaxBreaks \in Nat /\ MaxPuts \in Nat /\ BufferCap \in Nat
  BY StreamManagerConstants
<1>2. CASE Listen
  <2>1. listener' \in Listener
    BY <1>1, <1>2 DEF Listen, TypeOK, Listener
  <2> QED BY <1>2, <2>1 DEF Listen, TypeOK
<1>3. CASE Hydrate
  <2>1. Known \in BOOLEAN
    BY <1>1 DEF Known, TypeOK
  <2>2. listener' \in Listener
    BY <1>1, <1>3, <2>1 DEF Hydrate, TypeOK, Listener
  <2> QED BY <1>3, <2>1, <2>2 DEF Hydrate, TypeOK
<1>4. CASE Leave
  <2>1. listener' \in Listener
    BY <1>1, <1>4 DEF Leave, TypeOK, Listener, NoListener
  <2>2. breaks' \in 0..MaxBreaks
    BY <1>1, <1>4 DEF Leave, TypeOK
  <2> QED BY <1>4, <2>1, <2>2 DEF Leave, TypeOK
<1>5. CASE DropStore
  <2>1. listener' \in Listener
    BY <1>5 DEF DropStore, TypeOK, Listener
  <2>2. store' \in [Procs -> Seq(Message)] /\ \A p \in Procs : Len(store'[p]) <= BufferCap
    <3>1. <<>> \in Seq(Message) /\ Len(<<>>) = 0 /\ 0 <= BufferCap
      BY <1>1, Small
    <3> QED BY <1>5, <3>1 DEF DropStore, TypeOK
  <2> QED BY <1>5, <2>1, <2>2 DEF DropStore, TypeOK
<1> QED BY <1>2, <1>3, <1>4, <1>5

LEMMA TypeStep ==
    ASSUME TypeOK, TaskInv, [Next]_vars
    PROVE  TypeOK'
<1>1. CASE UNCHANGED vars
  BY <1>1 DEF vars, TypeOK
<1>2. ASSUME NEW t \in Tasks, SetKey(t) \/ Publish(t) \/ PutFails(t) PROVE TypeOK'
  BY <1>2, TypeCall
<1>3. ASSUME NEW p \in Procs, MuxDown(p) \/ MuxUp(p) PROVE TypeOK'
  BY <1>3, TypeMux
<1>4. ASSUME NEW c \in -1..MaxId, Subscribe(c) PROVE TypeOK'
  BY <1>4, TypeReader
<1>5. CASE Restore \/ Read \/ Unsubscribe
  BY <1>5, TypeReader
<1> QED BY <1>1, <1>2, <1>3, <1>4, <1>5, TypePut, TypeBuffer, TypeReceive, TypeListener,
           NextCases

-----------------------------------------------------------------------------
(* Calls and their ids *)

LEMMA SentMember ==
    /\ \A m : m \in Sent <=> m \in done \/ \E t \in Tasks : m \in Range(task[t].msgs)
    /\ (\A m : m \in Sent <=> m \in done \/ \E t \in Tasks : m \in Range(task[t].msgs))'
BY DEF Sent, InHand

\* A call gets to its next step.
LEMMA StepEffect ==
    ASSUME TypeOK, NEW t \in Tasks, Buffer(t) \/ SetKey(t)
    PROVE  /\ \A u \in Tasks : task'[u].msgs = task[u].msgs
           /\ \A u \in Tasks : u # t => task'[u] = task[u]
           /\ task[t].pc \in {"buffer", "key"} /\ task'[t].pc \in {"key", "publish"}
           /\ UNCHANGED <<done, issued, puts, chan>> /\ Sent' = Sent
<1>1. PICK pc \in {"key", "publish"} : task' = [task EXCEPT ![t].pc = pc]
  BY DEF Buffer, SetKey
<1>2. task \in [Tasks -> Call] /\ task[t] \in Call
  BY DEF TypeOK
<1>3. /\ \A u \in Tasks : task'[u].msgs = task[u].msgs
      /\ \A u \in Tasks : u # t => task'[u] = task[u]
      /\ task'[t].pc = pc
  BY <1>1, <1>2 DEF Call
<1>4. UNCHANGED <<done, issued, puts, chan>> /\ task[t].pc \in {"buffer", "key"}
  BY DEF Buffer, SetKey
<1>5. Sent' = Sent
  BY <1>3, <1>4, SentMember
<1> QED BY <1>1, <1>3, <1>4, <1>5

\* A call ends, well or not.
LEMMA EndEffect ==
    ASSUME TypeOK, NEW t \in Tasks, Publish(t) \/ PutFails(t)
    PROVE  /\ task'[t] = NoTask /\ \A u \in Tasks : u # t => task'[u] = task[u]
           /\ done' \in {done, done \cup Range(task[t].msgs)}
           /\ UNCHANGED <<issued, puts, seen>> /\ Sent' \subseteq Sent
<1>1. task' = [task EXCEPT ![t] = NoTask] /\ task \in [Tasks -> Call]
  BY DEF Publish, PutFails, TypeOK
<1>2. task'[t] = NoTask /\ \A u \in Tasks : u # t => task'[u] = task[u]
  BY <1>1
<1>3. done' \in {done, done \cup Range(task[t].msgs)} /\ UNCHANGED <<issued, puts, seen>>
  BY DEF Publish, PutFails
<1>4. Sent' \subseteq Sent
  <2>1. Range(NoTask.msgs) = {}
    BY Small DEF NoTask
  <2> QED BY <1>2, <1>3, <2>1, SentMember
<1> QED BY <1>2, <1>3, <1>4

\* New messages are new in every respect.
LEMMA PutEffect ==
    ASSUME TypeOK, TaskInv, IdInv, NEW t \in Tasks, NEW control \in BOOLEAN, NEW k \in Nat \ {0},
           Put(t, control, k)
    PROVE  \E ms : /\ New(Source(t, control), control, ms)
                   /\ task'[t].pc = "buffer" /\ task'[t].msgs = ms
                   /\ \A u \in Tasks : u # t => task'[u] = task[u]
                   /\ UNCHANGED <<done, seen, chan>>
                   /\ Sent' = Sent \cup Range(ms) /\ Sent \cap Range(ms) = {}
                   /\ puts <= puts' /\ Generated \subseteq Generated'
                   /\ \A m \in Range(ms) : m.n <= puts' /\ m.id \in Generated'
                   /\ IdsDistinct' => /\ IdsDistinct
                                      /\ \A m \in Range(ms) : m.id \notin Generated
                   /\ stream' = IF Source(t, control) = Redis THEN stream \o ms ELSE stream
<1> DEFINE s == Source(t, control)
<1>1. PICK ms : /\ New(s, control, ms)
                /\ issued' \in [Sources -> SUBSET Ids] /\ puts' \in 0..MaxPuts
                /\ \A u \in Sources : issued[u] \subseteq issued'[u]
                /\ stream' = IF s = Redis THEN stream \o ms ELSE stream
                /\ task' = [task EXCEPT ![t] = [pc |-> "buffer", msgs |-> ms]]
  BY PutFacts
<1>2. s \in Sources
  BY StreamManagerConstants DEF Source, Sources
<1> HIDE DEF s
<1>3. /\ task'[t].pc = "buffer" /\ task'[t].msgs = ms
      /\ \A u \in Tasks : u # t => task'[u] = task[u]
  BY <1>1 DEF TypeOK
<1>4. UNCHANGED <<done, seen, chan>> /\ task[t].pc = "idle" /\ puts \in Nat /\ puts' \in Nat
  BY <1>1, StreamManagerConstants DEF Put, TypeOK
<1>5. Range(task[t].msgs) = {}
  BY <1>4, Small DEF TaskInv
<1>6. Sent' = Sent \cup Range(ms)
  BY <1>3, <1>4, <1>5, SentMember
<1>7. \A m \in Range(ms) : /\ puts < m.n /\ m.n <= puts' /\ m.n \in Nat
                           /\ m.id \in issued'[s] /\ m.id \notin issued[s]
  <2>1. \A m \in Range(ms) : m \in Message /\ m.n \in Nat
    BY <1>1, Elements, MessageFields DEF New
  <2> QED BY <1>1, <2>1 DEF New
<1>8. Sent \cap Range(ms) = {}
  BY <1>4, <1>7 DEF TaskInv
<1>9. puts <= puts'
  <2>1. PICK m \in Range(ms) : TRUE
    BY <1>1, Elements DEF New
  <2> QED BY <1>4, <1>7, <2>1
<1>10. Generated \subseteq Generated' /\ \A m \in Range(ms) : m.id \in Generated'
  BY <1>1, <1>2, <1>7 DEF Generated
<1>11. ASSUME IdsDistinct' PROVE IdsDistinct /\ \A m \in Range(ms) : m.id \notin Generated
  <2>1. IdsDistinct
    BY <1>1, <1>11 DEF IdsDistinct
  <2>2. ASSUME NEW m \in Range(ms), NEW u \in Sources, m.id \in issued[u] PROVE FALSE
    <3>1. u # s /\ m.id \in issued'[u] /\ m.id \in issued'[s]
      BY <1>1, <1>7, <2>2
    <3> QED BY <1>2, <1>11, <3>1 DEF IdsDistinct
  <2> QED BY <2>1, <2>2 DEF Generated
<1> QED BY <1>1, <1>3, <1>4, <1>6, <1>7, <1>8, <1>9, <1>10, <1>11 DEF s

LEMMA TaskStep ==
    ASSUME TypeOK, TaskInv, IdInv, [Next]_vars
    PROVE  TaskInv'
<1>1. ASSUME NEW t \in Tasks, NEW control \in BOOLEAN, NEW k \in Nat \ {0}, Put(t, control, k)
      PROVE  TaskInv'
  <2>1. PICK ms : /\ New(Source(t, control), control, ms)
                  /\ task'[t].pc = "buffer" /\ task'[t].msgs = ms
                  /\ \A u \in Tasks : u # t => task'[u] = task[u]
                  /\ done' = done
                  /\ Sent' = Sent \cup Range(ms) /\ Sent \cap Range(ms) = {}
                  /\ puts <= puts' /\ \A m \in Range(ms) : m.n <= puts'
    BY <1>1, PutEffect
  <2>2. ms # <<>> /\ \A m, q \in Range(ms) : m.control = q.control
    BY <2>1 DEF New
  <2>3. \A m \in Sent : m.n <= puts'
    <3>1. \A m \in Sent : m.n \in Nat
      BY SentMember, TaskFacts, MessageFields DEF TypeOK
    <3>2. puts \in Nat /\ puts' \in Nat
      BY <1>1, StreamManagerConstants DEF TypeOK, Put
    <3> QED BY <2>1, <3>1, <3>2 DEF TaskInv
  <2>4. \A m : m \in Range(ms) => m \notin done /\ \A u \in Tasks : m \notin Range(task[u].msgs)
    BY <2>1, SentMember
  <2>5. \A u \in Tasks : task'[u].pc = "idle" <=> task'[u].msgs = <<>>
    BY <2>1, <2>2 DEF TaskInv
  <2>6. \A u \in Tasks : \A m, q \in Range(task'[u].msgs) : m.control = q.control
    BY <2>1, <2>2 DEF TaskInv
  <2>7. \A u \in Tasks : Range(task'[u].msgs) \cap done' = {}
    BY <2>1, <2>4 DEF TaskInv
  <2>8. \A u, v \in Tasks : u # v => Range(task'[u].msgs) \cap Range(task'[v].msgs) = {}
    <3>1. TAKE u, v \in Tasks
    <3> QED BY <2>1, <2>4 DEF TaskInv
  <2>9. \A m \in Sent' : m.n <= puts'
    BY <2>1, <2>3
  <2> QED BY <2>5, <2>6, <2>7, <2>8, <2>9 DEF TaskInv
<1>2. ASSUME NEW t \in Tasks, Buffer(t) \/ SetKey(t)
      PROVE  TaskInv'
  <2>1. /\ \A u \in Tasks : task'[u].msgs = task[u].msgs
        /\ \A u \in Tasks : u # t => task'[u] = task[u]
        /\ task[t].pc \in {"buffer", "key"} /\ task'[t].pc \in {"key", "publish"}
        /\ done' = done /\ puts' = puts /\ Sent' = Sent
    BY <1>2, StepEffect
  <2>2. \A u \in Tasks : task[u].pc = "idle" <=> task[u].msgs = <<>>
    BY DEF TaskInv
  <2>3. \A u \in Tasks : task'[u].pc = "idle" <=> task'[u].msgs = <<>>
    <3>1. TAKE u \in Tasks
    <3>2. CASE u = t
      BY <2>1, <2>2, <3>2
    <3>3. CASE u # t
      BY <2>1, <2>2, <3>3
    <3> QED BY <3>2, <3>3
  <2>4. /\ \A u \in Tasks : \A m, q \in Range(task'[u].msgs) : m.control = q.control
        /\ \A u \in Tasks : Range(task'[u].msgs) \cap done' = {}
    BY <2>1 DEF TaskInv
  <2>5. /\ \A u, v \in Tasks : u # v => Range(task'[u].msgs) \cap Range(task'[v].msgs) = {}
        /\ \A m \in Sent' : m.n <= puts'
    BY <2>1 DEF TaskInv
  <2> QED BY <2>3, <2>4, <2>5 DEF TaskInv
<1>3. ASSUME NEW t \in Tasks, Publish(t) \/ PutFails(t)
      PROVE  TaskInv'
  <2>1. /\ task'[t] = NoTask /\ \A u \in Tasks : u # t => task'[u] = task[u]
        /\ done' \in {done, done \cup Range(task[t].msgs)}
        /\ puts' = puts /\ Sent' \subseteq Sent
    BY <1>3, EndEffect
  <2>2. Range(task'[t].msgs) = {} /\ task'[t].pc = "idle" /\ task'[t].msgs = <<>>
    BY <2>1, Small DEF NoTask
  <2>3. \A u \in Tasks : task'[u] = task[u] \/ Range(task'[u].msgs) = {}
    BY <2>1, <2>2
  <2>4. \A u \in Tasks : task'[u].pc = "idle" <=> task'[u].msgs = <<>>
    BY <2>1, <2>2 DEF TaskInv
  <2>5. \A u \in Tasks : \A m, q \in Range(task'[u].msgs) : m.control = q.control
    BY <2>3 DEF TaskInv
  <2>6. ASSUME NEW u \in Tasks PROVE Range(task'[u].msgs) \cap done' = {}
    <3>1. CASE u = t
      BY <2>2, <3>1
    <3>2. CASE u # t
      BY <2>1, <3>2 DEF TaskInv
    <3> QED BY <3>1, <3>2
  <2>7. \A u, v \in Tasks : u # v => Range(task'[u].msgs) \cap Range(task'[v].msgs) = {}
    BY <2>3 DEF TaskInv
  <2>8. \A m \in Sent' : m.n <= puts'
    BY <2>1 DEF TaskInv
  <2> QED BY <2>4, <2>5, <2>6, <2>7, <2>8 DEF TaskInv
<1>4. ASSUME UNCHANGED <<task, done, puts>> PROVE TaskInv'
  BY <1>4 DEF TaskInv, Sent, InHand
<1>5. ASSUME NEW p \in Procs, Receive(p) \/ MuxDown(p) \/ MuxUp(p) PROVE TaskInv'
  BY <1>4, <1>5 DEF Receive, MuxDown, MuxUp
<1>6. ASSUME NEW c \in -1..MaxId, Subscribe(c) PROVE TaskInv'
  BY <1>4, <1>6 DEF Subscribe
<1>7. ASSUME Restore \/ Read \/ Unsubscribe \/ Listen \/ Hydrate \/ Leave \/ DropStore
      PROVE  TaskInv'
  BY <1>4, <1>7 DEF Restore, Read, Unsubscribe, Listen, Hydrate, Leave, DropStore
<1>8. CASE UNCHANGED vars
  BY <1>4, <1>8 DEF vars
<1> QED BY <1>1, <1>2, <1>3, <1>5, <1>6, <1>7, <1>8, NextCases

\* Where p delivers a message of a call to itself or from its channel, it takes
\* no message of another call for seen.
LEMMA Unseen ==
    ASSUME TaskInv, IdInv, IdsDistinct, NEW p \in Procs, NEW ms, Delivers(p, ms),
           Range(ms) \subseteq Sent, NEW m \in Sent, m \notin Range(ms),
           m.id \notin Range(seen[p])
    PROVE  m.id \notin Range(seen'[p])
<1>1. ASSUME m.id \in Range(seen'[p]) PROVE FALSE
  <2>1. PICK q \in Range(ms) : q.id = m.id
    BY <1>1 DEF Delivers
  <2> QED BY <2>1 DEF IdInv
<1> QED BY <1>1

LEMMA IdStep ==
    ASSUME TypeOK, TaskInv, IdInv, [Next]_vars
    PROVE  IdInv'
<1>1. ASSUME NEW t \in Tasks, NEW control \in BOOLEAN, NEW k \in Nat \ {0}, Put(t, control, k)
      PROVE  IdInv'
  <2>1. PICK ms : /\ New(Source(t, control), control, ms)
                  /\ task'[t].pc = "buffer" /\ task'[t].msgs = ms
                  /\ \A u \in Tasks : u # t => task'[u] = task[u]
                  /\ UNCHANGED <<done, seen, chan>>
                  /\ Sent' = Sent \cup Range(ms) /\ Sent \cap Range(ms) = {}
                  /\ Generated \subseteq Generated'
                  /\ \A m \in Range(ms) : m.id \in Generated'
                  /\ IdsDistinct' => /\ IdsDistinct
                                     /\ \A m \in Range(ms) : m.id \notin Generated
    BY <1>1, PutEffect
  <2>2. \A m \in Sent' : m.id \in Generated'
    BY <2>1 DEF IdInv
  <2>3. \A p \in Procs : Range(seen'[p]) \subseteq Generated' /\ Range(chan'[p]) \subseteq done'
    BY <2>1 DEF IdInv
  <2>4. ASSUME IdsDistinct'
        PROVE  /\ \A m, q \in Sent' : m.id = q.id => m = q
               /\ \A u \in Tasks, p \in Procs : task'[u].pc = "buffer" \/ p # ProcOf[u] =>
                     \A m \in Range(task'[u].msgs) : m.id \notin Range(seen'[p])
    <3>1. /\ \A m, q \in Sent : m.id = q.id => m = q
          /\ \A m, q \in Range(ms) : m.id = q.id => m = q
          /\ \A m \in Sent, q \in Range(ms) : m.id # q.id
      BY <2>1, <2>4 DEF IdInv, New
    <3>2. \A u \in Tasks, p \in Procs : task'[u].pc = "buffer" \/ p # ProcOf[u] =>
              \A m \in Range(task'[u].msgs) : m.id \notin Range(seen'[p])
      <4>1. TAKE u \in Tasks, p \in Procs
      <4>2. CASE u = t
        BY <2>1, <2>4, <4>2 DEF IdInv
      <4>3. CASE u # t
        BY <2>1, <2>4, <4>3 DEF IdInv
      <4> QED BY <4>2, <4>3
    <3> QED BY <2>1, <3>1, <3>2
  <2> QED BY <2>2, <2>3, <2>4 DEF IdInv
<1>2. ASSUME NEW t \in Tasks, Buffer(t) PROVE IdInv'
  <2> DEFINE p == ProcOf[t]
             ms == task[t].msgs
  <2>1. /\ \A u \in Tasks : task'[u].msgs = task[u].msgs
        /\ \A u \in Tasks : u # t => task'[u] = task[u]
        /\ task[t].pc \in {"buffer", "key"} /\ task'[t].pc \in {"key", "publish"}
        /\ UNCHANGED <<done, issued, puts, chan>> /\ Sent' = Sent
    BY <1>2, StepEffect
  <2>2. Delivers(p, ms) /\ p \in Procs
    BY <1>2, BufferFacts, TaskFacts
  <2>3. Range(ms) \subseteq Sent
    BY SentMember
  <2>4. Generated' = Generated /\ (IdsDistinct' <=> IdsDistinct)
    BY <2>1 DEF Generated, IdsDistinct
  <2>5. \A q \in Procs : Range(seen'[q]) \subseteq Generated'
    <3>1. \A i \in Range(seen'[p]) : i \in Generated'
      BY <2>2, <2>3, <2>4 DEF Delivers, IdInv
    <3>2. \A q \in Procs : q # p => Range(seen'[q]) = Range(seen[q])
      BY <2>2 DEF Delivers
    <3> QED BY <2>4, <3>1, <3>2 DEF IdInv
  <2>6. ASSUME IdsDistinct, NEW u \in Tasks, NEW q \in Procs,
               task'[u].pc = "buffer" \/ q # ProcOf[u], NEW m \in Range(task[u].msgs)
        PROVE  m.id \notin Range(seen'[q])
    <3>1. task[u].pc = "buffer" \/ q # ProcOf[u]
      BY <2>1, <2>6
    <3>2. m.id \notin Range(seen[q]) /\ m \in Sent
      BY <2>6, <3>1, SentMember DEF IdInv
    <3>3. CASE q # p
      BY <2>2, <3>2, <3>3 DEF Delivers
    <3>4. CASE q = p
      <4>1. u # t
        BY <2>1, <2>6, <3>4
      <4>2. m \notin Range(ms)
        BY <2>6, <4>1 DEF TaskInv
      <4> QED BY <2>2, <2>3, <2>6, <3>2, <3>4, <4>2, Unseen
    <3> QED BY <3>3, <3>4
  <2> QED BY <2>1, <2>4, <2>5, <2>6 DEF IdInv
<1>3. ASSUME NEW p \in Procs, Receive(p) PROVE IdInv'
  <2> DEFINE m == Head(chan[p])
  <2>1. /\ Delivers(p, <<m>>) /\ Range(<<m>>) = {m}
        /\ Range(chan[p]) = {m} \cup Range(chan'[p])
        /\ \A q \in Procs : q # p => chan'[q] = chan[q]
    BY <1>3, ReceiveFacts
  <2>2. UNCHANGED <<done, issued, task>>
    BY <1>3 DEF Receive
  <2>3. Generated' = Generated /\ (IdsDistinct' <=> IdsDistinct) /\ Sent' = Sent
    BY <2>2 DEF Generated, IdsDistinct, Sent, InHand
  <2> HIDE DEF m
  <2>4. m \in done /\ Range(<<m>>) \subseteq Sent
    BY <2>1, SentMember DEF IdInv
  <2>5. \A q \in Procs : Range(seen'[q]) \subseteq Generated' /\ Range(chan'[q]) \subseteq done
    <3>1. \A i \in Range(seen'[p]) : i \in Generated'
      BY <2>1, <2>3, <2>4 DEF Delivers, IdInv
    <3>2. \A q \in Procs : q # p => Range(seen'[q]) = Range(seen[q])
      BY <2>1 DEF Delivers
    <3> QED BY <2>1, <2>3, <3>1, <3>2 DEF IdInv
  <2>6. ASSUME IdsDistinct, NEW u \in Tasks, NEW q \in Procs,
               task[u].pc = "buffer" \/ q # ProcOf[u], NEW o \in Range(task[u].msgs)
        PROVE  o.id \notin Range(seen'[q])
    <3>1. o.id \notin Range(seen[q]) /\ o \in Sent
      BY <2>6, SentMember DEF IdInv
    <3>2. CASE q # p
      BY <2>1, <3>1, <3>2 DEF Delivers
    <3>3. CASE q = p
      <4>1. o \notin Range(<<m>>)
        BY <2>1, <2>4, <2>6 DEF TaskInv
      <4> QED BY <2>1, <2>4, <2>6, <3>1, <3>3, <4>1, Unseen
    <3> QED BY <3>2, <3>3
  <2> QED BY <2>2, <2>3, <2>5, <2>6 DEF IdInv
<1>4. ASSUME NEW t \in Tasks, SetKey(t) PROVE IdInv'
  <2>1. /\ \A u \in Tasks : task'[u].msgs = task[u].msgs
        /\ \A u \in Tasks : u # t => task'[u] = task[u]
        /\ task'[t].pc \in {"key", "publish"}
        /\ UNCHANGED <<done, issued, chan>> /\ Sent' = Sent
    BY <1>4, StepEffect
  <2>2. seen' = seen
    BY <1>4 DEF SetKey
  <2>3. \A u \in Tasks : task'[u].pc = "buffer" => task[u].pc = "buffer"
    BY <2>1
  <2> QED BY <2>1, <2>2, <2>3 DEF IdInv, Generated, IdsDistinct
<1>5. ASSUME NEW t \in Tasks, Publish(t) \/ PutFails(t) PROVE IdInv'
  <2>1. /\ task'[t] = NoTask /\ \A u \in Tasks : u # t => task'[u] = task[u]
        /\ UNCHANGED <<issued, puts, seen>> /\ Sent' \subseteq Sent
    BY <1>5, EndEffect
  <2>2. Range(task'[t].msgs) = {}
    BY <2>1, Small DEF NoTask
  <2>3. \A p \in Procs : Range(chan'[p]) \subseteq done'
    <3>1. CASE Publish(t)
      <4>1. task[t].msgs \in Seq(Message) /\ \A p \in Procs : chan[p] \in Seq(Message)
        BY TaskFacts DEF TypeOK
      <4>2. \A p \in Procs : Range(chan'[p]) \subseteq Range(chan[p]) \cup Range(task[t].msgs)
        BY <3>1, <4>1, Elements DEF Publish
      <4> QED BY <3>1, <4>2 DEF Publish, IdInv
    <3>2. CASE PutFails(t)
      BY <3>2 DEF PutFails, IdInv
    <3> QED BY <1>5, <3>1, <3>2
  <2>4. Generated' = Generated /\ (IdsDistinct' <=> IdsDistinct)
    BY <2>1 DEF Generated, IdsDistinct
  <2>5. \A u \in Tasks : Range(task'[u].msgs) = {} \/ task'[u] = task[u]
    BY <2>1, <2>2
  <2> QED BY <2>1, <2>3, <2>4, <2>5 DEF IdInv
<1>6. ASSUME UNCHANGED <<task, done, seen, issued>>,
             \A p \in Procs : Range(chan'[p]) \subseteq Range(chan[p])
      PROVE  IdInv'
  <2>1. Generated' = Generated /\ (IdsDistinct' <=> IdsDistinct) /\ Sent' = Sent
    BY <1>6 DEF Generated, IdsDistinct, Sent, InHand
  <2> QED BY <1>6, <2>1 DEF IdInv
<1>7. ASSUME NEW p \in Procs, MuxDown(p) \/ MuxUp(p) PROVE IdInv'
  <2>1. \A q \in Procs : Range(chan'[q]) \subseteq Range(chan[q])
    BY <1>7, Small DEF MuxDown, MuxUp, TypeOK
  <2> QED BY <1>6, <1>7, <2>1 DEF MuxDown, MuxUp
<1>8. ASSUME NEW c \in -1..MaxId, Subscribe(c) PROVE IdInv'
  BY <1>6, <1>8 DEF Subscribe
<1>9. ASSUME Restore \/ Read \/ Unsubscribe \/ Listen \/ Hydrate \/ Leave \/ DropStore
       PROVE  IdInv'
  BY <1>6, <1>9 DEF Restore, Read, Unsubscribe, Listen, Hydrate, Leave, DropStore
<1>10. CASE UNCHANGED vars
  BY <1>6, <1>10 DEF vars
<1> QED BY <1>1, <1>2, <1>3, <1>4, <1>5, <1>7, <1>8, <1>9, <1>10, NextCases

-----------------------------------------------------------------------------
(* The reader *)

\* Steps that leave the reader and its connection as they are.
LEMMA ReplayKept ==
    ASSUME ReplayInv, resumable' = resumable, Range(stream) \subseteq Range(stream'),
           \A m \in Sent' : IsFrame(m) => m \in Sent \/ m \in Range(stream'),
           reader'.pc = reader.pc, reader'.cursor = reader.cursor,
           reader'.before = reader.before, reader.emitted \subseteq reader'.emitted
    PROVE  ReplayInv'
BY DEF ReplayInv, IsFrame

LEMMA ReplayStep ==
    ASSUME TypeOK, TaskInv, IdInv, ReplayInv, [Next]_vars
    PROVE  ReplayInv'
<1>1. ASSUME NEW t \in Tasks, NEW control \in BOOLEAN, NEW k \in Nat \ {0}, Put(t, control, k)
      PROVE  ReplayInv'
  <2>1. PICK ms : /\ New(Source(t, control), control, ms)
                  /\ Sent' = Sent \cup Range(ms)
                  /\ stream' = IF Source(t, control) = Redis THEN stream \o ms ELSE stream
    BY <1>1, PutEffect
  <2>2. /\ ms \in Seq(Message) /\ stream \in Seq(Message)
        /\ \A m \in Range(ms) : m.control = control
    BY <2>1 DEF New, TypeOK
  <2>3. Range(stream) \subseteq Range(stream')
    BY <2>1, <2>2, Elements
  <2>4. ASSUME resumable
        PROVE  \A m \in Sent' : IsFrame(m) => m \in Sent \/ m \in Range(stream')
    <3>1. CASE control
      BY <2>1, <2>2, <3>1 DEF IsFrame
    <3>2. CASE ~control
      <4>1. stream' = stream \o ms
        BY <2>1, <2>4, <3>2 DEF Source
      <4> QED BY <2>1, <2>2, <4>1, Elements
    <3> QED BY <3>1, <3>2
  <2>5. resumable' = resumable /\ reader' = reader
    BY <1>1 DEF Put
  <2>6. CASE resumable
    BY <2>3, <2>4, <2>5, <2>6, ReplayKept
  <2>7. CASE ~resumable
    BY <2>5, <2>7 DEF ReplayInv
  <2> QED BY <2>6, <2>7
<1>2. ASSUME UNCHANGED <<resumable, stream>>, Sent' \subseteq Sent,
             reader'.pc = reader.pc, reader'.cursor = reader.cursor,
             reader'.before = reader.before, reader.emitted \subseteq reader'.emitted
      PROVE  ReplayInv'
  BY <1>2, ReplayKept
<1>3. ASSUME NEW t \in Tasks, Buffer(t) \/ SetKey(t) PROVE ReplayInv'
  <2>1. Sent' = Sent
    BY <1>3, StepEffect
  <2>2. CASE Buffer(t)
    <3>1. reader'.pc = reader.pc /\ reader'.cursor = reader.cursor
          /\ reader'.before = reader.before /\ reader'.emitted = reader.emitted
      BY <2>2, BufferFacts, DeliveredTypes
    <3> QED BY <1>2, <2>1, <2>2, <3>1 DEF Buffer
  <2>3. CASE SetKey(t)
    BY <1>2, <2>1, <2>3 DEF SetKey
  <2> QED BY <1>3, <2>2, <2>3
<1>4. ASSUME NEW t \in Tasks, Publish(t) \/ PutFails(t) PROVE ReplayInv'
  <2>1. Sent' \subseteq Sent
    BY <1>4, EndEffect
  <2> QED BY <1>2, <1>4, <2>1 DEF Publish, PutFails
<1>5. ASSUME UNCHANGED <<task, done>> PROVE Sent' = Sent
  BY <1>5 DEF Sent, InHand
<1>6. ASSUME NEW p \in Procs, Receive(p) \/ MuxDown(p) \/ MuxUp(p) PROVE ReplayInv'
  <2>1. Sent' = Sent /\ UNCHANGED <<resumable, stream>>
    BY <1>5, <1>6 DEF Receive, MuxDown, MuxUp
  <2>2. reader'.pc = reader.pc /\ reader'.cursor = reader.cursor
        /\ reader'.before = reader.before /\ reader'.emitted = reader.emitted
    <3>1. CASE Receive(p)
      BY <3>1, ReceiveFacts, DeliveredTypes
    <3>2. CASE MuxDown(p)
      BY <3>2 DEF MuxDown, TypeOK, Reader
    <3>3. CASE MuxUp(p)
      BY <3>3 DEF MuxUp
    <3> QED BY <1>6, <3>1, <3>2, <3>3
  <2> QED BY <1>2, <2>1, <2>2
<1>7. ASSUME NEW c \in -1..MaxId, Subscribe(c) PROVE ReplayInv'
  <2>1. Sent' = Sent /\ UNCHANGED <<resumable, stream>>
    BY <1>5, <1>7 DEF Subscribe
  <2>2. reader'.pc = "restore" /\ reader'.before = done \cup Gone
    BY <1>7 DEF Subscribe
  <2>3. done \cup Gone \subseteq Sent
    BY SentMember DEF Gone
  <2> QED BY <2>1, <2>2, <2>3 DEF ReplayInv, IsFrame
<1>8. ASSUME Restore PROVE ReplayInv'
  <2>1. Sent' = Sent /\ UNCHANGED <<resumable, stream>>
    BY <1>5, <1>8 DEF Restore
  <2>2. /\ reader.pc = "restore" /\ reader'.pc = "live" /\ reader'.cursor = reader.cursor
        /\ reader'.before = reader.before
        /\ reader.cursor # -1 => \A m \in Range(stream) :
               m.id <= reader.cursor \/ m.id \in reader'.emitted
    BY <1>8, RestoreFacts
  <2>3. reader.cursor \in Int
    BY DEF TypeOK, Reader
  <2> QED BY <2>1, <2>2, <2>3 DEF ReplayInv, IsFrame
<1>9. ASSUME Read PROVE ReplayInv'
  <2>1. Sent' = Sent /\ UNCHANGED <<resumable, stream>>
    BY <1>5, <1>9 DEF Read
  <2>2. /\ reader'.pc = reader.pc /\ reader'.cursor = reader.cursor
        /\ reader'.before = reader.before /\ reader.emitted \subseteq reader'.emitted
    BY <1>9, ReadFacts
  <2> QED BY <1>2, <2>1, <2>2
<1>10. ASSUME Unsubscribe PROVE ReplayInv'
  <2>1. Sent' = Sent /\ UNCHANGED <<resumable, stream>> /\ reader'.pc = "off"
    BY <1>5, <1>10 DEF Unsubscribe, NoReader
  <2> QED BY <2>1 DEF ReplayInv, IsFrame
<1>11. ASSUME Listen \/ Hydrate \/ Leave \/ DropStore \/ UNCHANGED vars PROVE ReplayInv'
  BY <1>2, <1>5, <1>11 DEF Listen, Hydrate, Leave, DropStore, vars
<1> QED BY <1>1, <1>3, <1>4, <1>6, <1>7, <1>8, <1>9, <1>10, <1>11, NextCases

\* Steps that neither deliver nor publish, nor register a reader.
LEMMA LiveKept ==
    ASSUME LiveInv, UNCHANGED <<issued, done>>, Sent' \subseteq Sent,
           reader'.pc # "off" /\ reader'.whole =>
               /\ reader.pc # "off" /\ reader.whole /\ reader'.before = reader.before
               /\ up[ReaderAt] => up'[ReaderAt]
               /\ \A m \in Sent : Got(m) => Got(m)'
               /\ chan'[ReaderAt] = chan[ReaderAt] /\ seen'[ReaderAt] = seen[ReaderAt],
           \A t \in Tasks : Delivered(t)' => Delivered(t) /\ task'[t].msgs = task[t].msgs
    PROVE  LiveInv'
<1> SUFFICES ASSUME reader'.pc # "off", reader'.whole
             PROVE  /\ up'[ReaderAt]
                    /\ IdsDistinct' => \A m \in Sent' \ reader'.before : IsFrame(m) =>
                          /\ m \in done' => Got(m)' \/ Coming(ReaderAt, m)'
                          /\ \A t \in Tasks : ProcOf[t] = ReaderAt /\ Delivered(t)'
                                              /\ m \in Range(task'[t].msgs) => Got(m)'
  BY DEF LiveInv, IsFrame
<1>1. IdsDistinct' <=> IdsDistinct
  BY DEF IdsDistinct
<1>2. up'[ReaderAt]
  BY DEF LiveInv
<1>3. ASSUME IdsDistinct', NEW m \in Sent' \ reader'.before, IsFrame(m)
      PROVE  /\ m \in done' => Got(m)' \/ Coming(ReaderAt, m)'
             /\ \A t \in Tasks : ProcOf[t] = ReaderAt /\ Delivered(t)'
                                 /\ m \in Range(task'[t].msgs) => Got(m)'
  <2>1. m \in Sent \ reader.before /\ IdsDistinct
    BY <1>1, <1>3
  <2>2. /\ m \in done => Got(m) \/ Coming(ReaderAt, m)
        /\ \A t \in Tasks : ProcOf[t] = ReaderAt /\ Delivered(t)
                            /\ m \in Range(task[t].msgs) => Got(m)
    BY <1>3, <2>1 DEF LiveInv
  <2>3. Coming(ReaderAt, m) => Coming(ReaderAt, m)'
    BY DEF Coming
  <2> QED BY <2>1, <2>2, <2>3
<1> QED BY <1>2, <1>3

\* A delivery takes nothing from the reader.
LEMMA GotKept ==
    ASSUME TypeOK, NEW p, NEW ms, Delivers(p, ms),
           reader'.queue \in Seq(Message), listener'.heard \in BOOLEAN, NEW m, Got(m)
    PROVE  Got(m)'
BY DeliveredTypes DEF Got

LEMMA LiveBuffer ==
    ASSUME TypeOK, TaskInv, IdInv, LiveInv, NEW t \in Tasks, Buffer(t)
    PROVE  LiveInv'
<1> DEFINE p == ProcOf[t]
           ms == task[t].msgs
<1>1. /\ \A u \in Tasks : task'[u].msgs = task[u].msgs
      /\ \A u \in Tasks : u # t => task'[u] = task[u]
      /\ UNCHANGED <<done, issued, chan>> /\ Sent' = Sent
  BY StepEffect
<1>2. /\ Delivers(p, ms) /\ p \in Procs
      /\ reader'.queue \in Seq(Message) /\ listener'.heard \in BOOLEAN
  BY BufferFacts, TaskFacts
<1>3. /\ reader'.pc = reader.pc /\ reader'.whole = reader.whole
      /\ reader'.before = reader.before
  BY <1>2, DeliveredTypes
<1>4. up' = up /\ task[t].pc = "buffer" /\ (IdsDistinct' <=> IdsDistinct)
  BY <1>1 DEF Buffer, IdsDistinct
<1>5. Range(ms) \subseteq Sent
  BY SentMember
<1>6. ASSUME reader.pc # "off", reader.whole, IdsDistinct, NEW m \in Sent \ reader.before,
             IsFrame(m)
      PROVE  /\ m \in done => Got(m)' \/ Coming(ReaderAt, m)'
             /\ \A u \in Tasks : ProcOf[u] = ReaderAt /\ Delivered(u)'
                                 /\ m \in Range(task[u].msgs) => Got(m)'
  <2>1. /\ m \in done => Got(m) \/ Coming(ReaderAt, m)
        /\ \A u \in Tasks : ProcOf[u] = ReaderAt /\ Delivered(u)
                            /\ m \in Range(task[u].msgs) => Got(m)
    BY <1>6 DEF LiveInv
  <2>2. Got(m) => Got(m)'
    BY <1>2, GotKept
  <2>3. m \in done /\ Coming(ReaderAt, m) => Coming(ReaderAt, m)'
    <3> SUFFICES ASSUME m \in done, Coming(ReaderAt, m) PROVE m.id \notin Range(seen'[ReaderAt])
      BY <1>1 DEF Coming
    <3>1. m.id \notin Range(seen[ReaderAt]) /\ ReaderAt \in Procs
      BY StreamManagerConstants DEF Coming
    <3>2. m \notin Range(ms)
      BY DEF TaskInv
    <3>3. CASE p = ReaderAt
      BY <1>2, <1>5, <1>6, <3>1, <3>2, <3>3, Unseen
    <3>4. CASE p # ReaderAt
      BY <1>2, <3>1, <3>4 DEF Delivers
    <3> QED BY <3>3, <3>4
  <2>4. ASSUME p = ReaderAt, m \in Range(ms) PROVE Got(m)'
    <3>1. m.id \notin Range(seen[p])
      BY <1>2, <1>4, <1>6, <2>4 DEF IdInv
    <3>2. PICK q \in Range(reader'.queue) \cap Range(ms) : q.id = m.id
      BY <1>2, <1>6, <2>4, <3>1 DEF Delivers
    <3>3. q = m
      BY <1>5, <1>6, <3>2 DEF IdInv
    <3> QED BY <3>2, <3>3 DEF Got
  <2>5. \A u \in Tasks : u # t /\ Delivered(u)' => Delivered(u)
    BY <1>1 DEF Delivered
  <2> QED BY <2>1, <2>2, <2>3, <2>4, <2>5
<1> QED BY <1>1, <1>3, <1>4, <1>6 DEF LiveInv, IsFrame

LEMMA LiveReceive ==
    ASSUME TypeOK, TaskInv, IdInv, LiveInv, NEW p \in Procs, Receive(p)
    PROVE  LiveInv'
<1> DEFINE h == Head(chan[p])
<1>1. /\ Delivers(p, <<h>>) /\ Range(<<h>>) = {h}
      /\ reader'.queue \in Seq(Message) /\ listener'.heard \in BOOLEAN
      /\ Range(chan[p]) = {h} \cup Range(chan'[p])
      /\ \A q \in Procs : q # p => chan'[q] = chan[q]
  BY ReceiveFacts
<1>2. /\ reader'.pc = reader.pc /\ reader'.whole = reader.whole
      /\ reader'.before = reader.before
  BY <1>1, DeliveredTypes
<1>3. UNCHANGED <<done, issued, task, up>>
  BY DEF Receive
<1>4. (IdsDistinct' <=> IdsDistinct) /\ Sent' = Sent
  BY <1>3 DEF IdsDistinct, Sent, InHand
<1> HIDE DEF h
<1>5. h \in done /\ Range(<<h>>) \subseteq Sent
  BY <1>1, SentMember DEF IdInv
<1>6. ASSUME reader.pc # "off", reader.whole, IdsDistinct, NEW m \in Sent \ reader.before,
             IsFrame(m)
      PROVE  /\ m \in done => Got(m)' \/ Coming(ReaderAt, m)'
             /\ \A u \in Tasks : ProcOf[u] = ReaderAt /\ Delivered(u)'
                                 /\ m \in Range(task[u].msgs) => Got(m)'
  <2>1. /\ m \in done => Got(m) \/ Coming(ReaderAt, m)
        /\ \A u \in Tasks : ProcOf[u] = ReaderAt /\ Delivered(u)
                            /\ m \in Range(task[u].msgs) => Got(m)
    BY <1>6 DEF LiveInv
  <2>2. Got(m) => Got(m)'
    BY <1>1, GotKept
  <2>3. Coming(ReaderAt, m) => Got(m)' \/ Coming(ReaderAt, m)'
    <3> SUFFICES ASSUME Coming(ReaderAt, m) PROVE Got(m)' \/ Coming(ReaderAt, m)'
      OBVIOUS
    <3>1. m \in Range(chan[ReaderAt]) /\ m.id \notin Range(seen[ReaderAt]) /\ ReaderAt \in Procs
      BY StreamManagerConstants DEF Coming
    <3>2. CASE p # ReaderAt
      BY <1>1, <3>1, <3>2 DEF Delivers, Coming
    <3>3. CASE p = ReaderAt /\ m = h
      BY <1>1, <1>6, <3>1, <3>3 DEF Delivers, Got
    <3>4. CASE p = ReaderAt /\ m # h
      <4>1. m.id \notin Range(seen'[p])
        BY <1>1, <1>5, <1>6, <3>1, <3>4, Unseen
      <4> QED BY <1>1, <3>1, <3>4, <4>1 DEF Coming
    <3> QED BY <3>2, <3>3, <3>4
  <2> QED BY <1>3, <2>1, <2>2, <2>3 DEF Delivered
<1> QED BY <1>2, <1>3, <1>4, <1>6 DEF LiveInv, IsFrame

LEMMA LivePublish ==
    ASSUME TypeOK, TaskInv, IdInv, LiveInv, NEW t \in Tasks, Publish(t)
    PROVE  LiveInv'
<1>1. /\ task'[t] = NoTask /\ \A u \in Tasks : u # t => task'[u] = task[u]
      /\ issued' = issued /\ seen' = seen /\ Sent' \subseteq Sent
  BY EndEffect
<1>2. UNCHANGED <<reader, up>> /\ task[t].pc = "publish"
      /\ done' = done \cup Range(task[t].msgs)
  BY DEF Publish
<1>3. IdsDistinct' <=> IdsDistinct
  BY <1>1 DEF IdsDistinct
<1>4. ReaderAt \in Procs /\ task[t].msgs \in Seq(Message) /\ chan[ReaderAt] \in Seq(Message)
  BY TaskFacts, StreamManagerConstants DEF TypeOK
<1>5. up[ReaderAt] => Range(chan'[ReaderAt]) = Range(chan[ReaderAt]) \cup Range(task[t].msgs)
  BY <1>4, Elements DEF Publish
<1>6. ASSUME reader.pc # "off", reader.whole, IdsDistinct, NEW m \in Sent \ reader.before,
             IsFrame(m)
      PROVE  /\ m \in done' => Got(m)' \/ Coming(ReaderAt, m)'
             /\ \A u \in Tasks : ProcOf[u] = ReaderAt /\ Delivered(u)'
                                 /\ m \in Range(task'[u].msgs) => Got(m)'
  <2>1. /\ up[ReaderAt]
        /\ m \in done => Got(m) \/ Coming(ReaderAt, m)
        /\ \A u \in Tasks : ProcOf[u] = ReaderAt /\ Delivered(u)
                            /\ m \in Range(task[u].msgs) => Got(m)
    BY <1>6 DEF LiveInv
  <2>2. Got(m)' <=> Got(m)
    BY <1>2 DEF Got
  <2>3. Coming(ReaderAt, m) => Coming(ReaderAt, m)'
    BY <1>1, <1>5, <2>1 DEF Coming
  <2>4. ASSUME m \in Range(task[t].msgs) PROVE Got(m) \/ Coming(ReaderAt, m)'
    <3>1. CASE ProcOf[t] = ReaderAt
      BY <1>2, <2>1, <2>4, <3>1 DEF Delivered
    <3>2. CASE ProcOf[t] # ReaderAt
      <4>1. m.id \notin Range(seen[ReaderAt])
        BY <1>4, <1>6, <2>4, <3>2 DEF IdInv
      <4> QED BY <1>1, <1>5, <2>1, <2>4, <4>1 DEF Coming
    <3> QED BY <3>1, <3>2
  <2>5. \A u \in Tasks : Delivered(u)' => Delivered(u) /\ task'[u] = task[u]
    BY <1>1 DEF Delivered, NoTask
  <2> QED BY <1>2, <2>1, <2>2, <2>3, <2>4, <2>5
<1> QED BY <1>1, <1>2, <1>3, <1>6 DEF LiveInv, IsFrame

LEMMA LivePut ==
    ASSUME TypeOK, TaskInv, IdInv, LiveInv, NEW t \in Tasks, NEW control \in BOOLEAN,
           NEW k \in Nat \ {0}, Put(t, control, k)
    PROVE  LiveInv'
<1>1. PICK ms : /\ task'[t].pc = "buffer"
                /\ \A u \in Tasks : u # t => task'[u] = task[u]
                /\ UNCHANGED <<done, seen, chan>>
                /\ Sent' = Sent \cup Range(ms)
                /\ IdsDistinct' => IdsDistinct
  BY PutEffect
<1>2. UNCHANGED <<reader, up>>
  BY DEF Put
<1>3. \A u \in Tasks : Delivered(u)' => Delivered(u) /\ task'[u] = task[u]
  BY <1>1 DEF Delivered
<1>4. \A m : (Got(m)' <=> Got(m)) /\ (Coming(ReaderAt, m)' <=> Coming(ReaderAt, m))
  BY <1>1, <1>2 DEF Got, Coming
<1>5. ASSUME reader.pc # "off", reader.whole, IdsDistinct', NEW m \in Sent' \ reader.before,
             IsFrame(m)
      PROVE  /\ m \in done => Got(m) \/ Coming(ReaderAt, m)
             /\ \A u \in Tasks : ProcOf[u] = ReaderAt /\ Delivered(u)'
                                 /\ m \in Range(task'[u].msgs) => Got(m)
  <2>1. CASE m \in Sent
    BY <1>1, <1>3, <1>5, <2>1 DEF LiveInv
  <2>2. CASE m \notin Sent
    BY <1>3, <2>2, SentMember
  <2> QED BY <2>1, <2>2
<1> QED BY <1>1, <1>2, <1>4, <1>5 DEF LiveInv, IsFrame

LEMMA LiveSubscribe ==
    ASSUME TypeOK, NEW c \in -1..MaxId, Subscribe(c)
    PROVE  LiveInv'
<1>1. /\ reader'.queue = store[ReaderAt] /\ reader'.whole = up[ReaderAt]
      /\ reader'.before = done \cup Gone
      /\ UNCHANGED <<done, task, up, store>>
  BY DEF Subscribe
<1>2. Sent' = Sent
  BY <1>1 DEF Sent, InHand
<1>3. ASSUME NEW m \in Sent \ reader'.before, NEW t \in Tasks, ProcOf[t] = ReaderAt,
             Delivered(t), m \in Range(task[t].msgs)
      PROVE  Got(m)'
  <2>1. m \in Message
    BY <1>3, TaskFacts
  <2>2. m \in Range(store[ReaderAt])
    BY <1>1, <1>3, <2>1 DEF Gone, Delivered
  <2> QED BY <1>1, <2>2 DEF Got
<1> QED BY <1>1, <1>2, <1>3 DEF LiveInv, Delivered

LEMMA LiveStep ==
    ASSUME TypeOK, TaskInv, IdInv, LiveInv, [Next]_vars
    PROVE  LiveInv'
<1>1. ASSUME NEW t \in Tasks, SetKey(t) PROVE LiveInv'
  <2>1. /\ \A u \in Tasks : task'[u].msgs = task[u].msgs
        /\ \A u \in Tasks : u # t => task'[u] = task[u]
        /\ UNCHANGED <<done, issued, chan>> /\ Sent' = Sent
    BY <1>1, StepEffect
  <2>2. UNCHANGED <<reader, seen, up>> /\ task[t].pc = "key"
    BY <1>1 DEF SetKey
  <2> QED BY <2>1, <2>2, LiveKept DEF Delivered, Got
<1>2. ASSUME NEW t \in Tasks, PutFails(t) PROVE LiveInv'
  <2>1. /\ task'[t] = NoTask /\ \A u \in Tasks : u # t => task'[u] = task[u]
        /\ UNCHANGED issued /\ Sent' \subseteq Sent
    BY <1>2, EndEffect
  <2>2. UNCHANGED <<reader, seen, up, done, chan>>
    BY <1>2 DEF PutFails
  <2> QED BY <2>1, <2>2, LiveKept DEF Delivered, Got, NoTask
<1>3. ASSUME UNCHANGED <<task, done>> PROVE Sent' = Sent
  BY <1>3 DEF Sent, InHand
<1>4. ASSUME NEW p \in Procs, MuxDown(p) PROVE LiveInv'
  <2>1. UNCHANGED <<issued, task, done, seen>> /\ ReaderAt \in Procs
    BY <1>4, StreamManagerConstants DEF MuxDown
  <2>2. reader' = [reader EXCEPT !.whole = @ /\ p # ReaderAt] /\ reader \in Reader
    BY <1>4 DEF MuxDown, TypeOK
  <2>3. /\ reader'.pc = reader.pc /\ reader'.before = reader.before
        /\ reader'.cursor = reader.cursor /\ reader'.emitted = reader.emitted
        /\ reader'.queue = reader.queue
        /\ reader'.whole => reader.whole /\ p # ReaderAt
    BY <2>2 DEF Reader
  <2>4. p # ReaderAt => chan'[ReaderAt] = chan[ReaderAt] /\ up'[ReaderAt] = up[ReaderAt]
    BY <1>4, <2>1 DEF MuxDown, TypeOK
  <2> QED BY <1>3, <2>1, <2>3, <2>4, LiveKept DEF Delivered, Got
<1>5. ASSUME NEW p \in Procs, MuxUp(p) PROVE LiveInv'
  <2>1. UNCHANGED <<issued, task, done, seen, chan, reader>>
    BY <1>5 DEF MuxUp
  <2>2. up[ReaderAt] => up'[ReaderAt]
    BY <1>5, StreamManagerConstants DEF MuxUp, TypeOK
  <2> QED BY <1>3, <2>1, <2>2, LiveKept DEF Delivered, Got
<1>6. ASSUME Restore \/ Read PROVE LiveInv'
  <2>1. UNCHANGED <<issued, task, done, seen, chan, up>>
    BY <1>6 DEF Restore, Read
  <2>2. /\ reader.pc # "off" /\ reader'.before = reader.before /\ reader'.whole = reader.whole
        /\ \A m : Got(m) => Got(m)'
    <3>1. CASE Restore
      BY <3>1, RestoreFacts DEF Got
    <3>2. CASE Read
      BY <3>2, ReadFacts DEF Got
    <3> QED BY <1>6, <3>1, <3>2
  <2> QED BY <1>3, <2>1, <2>2, LiveKept DEF Delivered
<1>7. ASSUME Unsubscribe PROVE LiveInv'
  BY <1>7 DEF Unsubscribe, NoReader, LiveInv
<1>8. ASSUME Listen \/ Hydrate \/ Leave \/ DropStore \/ UNCHANGED vars PROVE LiveInv'
  <2>1. UNCHANGED <<issued, task, done, seen, chan, up, reader>>
    BY <1>8 DEF Listen, Hydrate, Leave, DropStore, vars
  <2> QED BY <1>3, <2>1, LiveKept DEF Delivered, Got
<1> QED BY <1>1, <1>2, <1>4, <1>5, <1>6, <1>7, <1>8, LivePut, LiveBuffer, LivePublish,
           LiveReceive, LiveSubscribe, NextCases

-----------------------------------------------------------------------------
(* The listener *)

\* Steps that neither deliver nor publish, nor touch a control key or the listener.
LEMMA ListenerKept ==
    ASSUME ListenerInv, UNCHANGED <<issued, done, redisKey>>,
           \A t \in Tasks : \A m \in Range(task'[t].msgs) :
               m \in Range(task[t].msgs) /\ task'[t].pc = task[t].pc,
           key[ListenerAt] => key'[ListenerAt],
           listener'.since = listener.since, listener'.heard = listener.heard,
           listener'.pc = listener.pc, listener'.whole => listener.whole,
           listener.pc # "off" /\ listener'.whole =>
               /\ up[ListenerAt] => up'[ListenerAt]
               /\ chan'[ListenerAt] = chan[ListenerAt] /\ seen'[ListenerAt] = seen[ListenerAt]
    PROVE  ListenerInv'
<1>1. (IdsDistinct' <=> IdsDistinct) /\ \A m : Current(m)' <=> Current(m)
  BY DEF IdsDistinct, Current
<1>2. listener.pc # "off" /\ listener'.whole =>
          \A m : Coming(ListenerAt, m) => Coming(ListenerAt, m)'
  BY DEF Coming
<1>3. \A t \in Tasks : \A m \in Range(task'[t].msgs) : Delivered(t)' <=> Delivered(t)
  BY DEF Delivered
<1>4. \A m \in done' : Current(m)' => redisKey'
  BY <1>1 DEF ListenerInv
<1>5. \A t \in Tasks : \A m \in Range(task'[t].msgs) : Current(m)' =>
          /\ task'[t].pc = "publish" => redisKey'
          /\ ProcOf[t] = ListenerAt /\ Delivered(t)' =>
                /\ key'[ListenerAt]
                /\ IdsDistinct' /\ listener'.pc = "on" => listener'.heard
  BY <1>1, <1>3 DEF ListenerInv
<1>6. listener'.pc # "off" /\ listener'.whole => up'[ListenerAt]
  BY DEF ListenerInv
<1>7. listener'.pc = "on" /\ listener'.whole /\ IdsDistinct' =>
          \A m \in done' : Current(m)' => listener'.heard \/ Coming(ListenerAt, m)'
  BY <1>1, <1>2 DEF ListenerInv
<1> QED BY <1>4, <1>5, <1>6, <1>7 DEF ListenerInv

LEMMA ListenerPut ==
    ASSUME TypeOK, TaskInv, IdInv, ListenerInv, NEW t \in Tasks, NEW control \in BOOLEAN,
           NEW k \in Nat \ {0}, Put(t, control, k)
    PROVE  ListenerInv'
<1>1. /\ task'[t].pc = "buffer" /\ \A u \in Tasks : u # t => task'[u] = task[u]
      /\ UNCHANGED <<done, seen, chan>> /\ (IdsDistinct' => IdsDistinct)
  BY PutEffect
<1>2. UNCHANGED <<listener, redisKey, key, up>>
  BY DEF Put
<1>3. \A u \in Tasks : task'[u].pc = "publish" \/ Delivered(u)' => task'[u] = task[u]
  BY <1>1 DEF Delivered
<1>4. \A m : (Current(m)' <=> Current(m)) /\ (Coming(ListenerAt, m)' <=> Coming(ListenerAt, m))
  BY <1>1, <1>2 DEF Current, Coming
<1>5. \A u \in Tasks : Delivered(u)' => Delivered(u)
  BY <1>3 DEF Delivered
<1>6. \A u \in Tasks : \A m \in Range(task'[u].msgs) : Current(m)' =>
          /\ task'[u].pc = "publish" => redisKey'
          /\ ProcOf[u] = ListenerAt /\ Delivered(u)' =>
                /\ key'[ListenerAt]
                /\ IdsDistinct' /\ listener'.pc = "on" => listener'.heard
  BY <1>1, <1>2, <1>3, <1>4, <1>5 DEF ListenerInv
<1> QED BY <1>1, <1>2, <1>4, <1>6 DEF ListenerInv

LEMMA ListenerBuffer ==
    ASSUME TypeOK, TaskInv, IdInv, ListenerInv, NEW t \in Tasks, Buffer(t)
    PROVE  ListenerInv'
<1> DEFINE p == ProcOf[t]
           ms == task[t].msgs
<1>1. /\ \A u \in Tasks : task'[u].msgs = task[u].msgs
      /\ \A u \in Tasks : u # t => task'[u] = task[u]
      /\ UNCHANGED <<done, issued, chan>>
  BY StepEffect
<1>2. /\ Delivers(p, ms) /\ p \in Procs /\ ms # <<>> /\ ms[1] \in Range(ms)
      /\ reader'.queue \in Seq(Message) /\ listener'.heard \in BOOLEAN
  BY BufferFacts, TaskFacts
<1>3. /\ listener'.pc = listener.pc /\ listener'.whole = listener.whole
      /\ listener'.since = listener.since
      /\ listener.heard => listener'.heard
  BY <1>2, DeliveredTypes
<1>4. UNCHANGED <<up, redisKey>> /\ task[t].pc = "buffer"
  BY DEF Buffer
<1>5. (IdsDistinct' <=> IdsDistinct) /\ \A m : Current(m)' <=> Current(m)
  BY <1>1, <1>3 DEF IdsDistinct, Current
<1>6. Range(ms) \subseteq Sent /\ \A m \in Range(ms) : IsControl(m) <=> IsControl(ms[1])
  BY <1>2, SentMember DEF TaskInv, IsControl
<1>7. task'[t].pc = IF IsControl(ms[1]) THEN "key" ELSE "publish"
  BY DEF Buffer, TypeOK
<1>8. key[ListenerAt] => key'[ListenerAt]
  BY StreamManagerConstants DEF Buffer, TypeOK
<1>9. ASSUME NEW m \in Range(ms), Current(m)
      PROVE  /\ task'[t].pc # "publish"
             /\ p = ListenerAt => key'[ListenerAt]
             /\ p = ListenerAt /\ IdsDistinct /\ listener.pc = "on" => listener'.heard
  <2>1. IsControl(m) /\ IsControl(ms[1])
    BY <1>6, <1>9 DEF Current
  <2>2. task'[t].pc # "publish"
    BY <1>7, <2>1
  <2>3. key'[p]
    BY <1>2, <2>1 DEF Buffer, TypeOK
  <2>4. ASSUME p = ListenerAt, IdsDistinct, listener.pc = "on" PROVE listener'.heard
    <3>1. m.id \notin Range(seen[p])
      BY <1>2, <1>4, <2>4 DEF IdInv
    <3> QED BY <1>2, <2>1, <2>4, <3>1 DEF Delivers
  <2> QED BY <2>2, <2>3, <2>4
<1>10. ASSUME IdsDistinct, NEW m \in done, Coming(ListenerAt, m) PROVE Coming(ListenerAt, m)'
  <2>1. m \in Range(chan[ListenerAt]) /\ m.id \notin Range(seen[ListenerAt]) /\ m \in Sent
        /\ ListenerAt \in Procs
    BY <1>10, StreamManagerConstants, SentMember DEF Coming
  <2>2. m \notin Range(ms)
    BY DEF TaskInv
  <2>3. CASE p = ListenerAt
    BY <1>1, <1>2, <1>6, <1>10, <2>1, <2>2, <2>3, Unseen DEF Coming
  <2>4. CASE p # ListenerAt
    BY <1>1, <1>2, <2>1, <2>4 DEF Coming, Delivers
  <2> QED BY <2>3, <2>4
<1>11. \A u \in Tasks : u # t => (Delivered(u)' <=> Delivered(u))
  BY <1>1 DEF Delivered
<1>12. \A u \in Tasks : \A m \in Range(task'[u].msgs) : Current(m)' =>
           /\ task'[u].pc = "publish" => redisKey'
           /\ ProcOf[u] = ListenerAt /\ Delivered(u)' =>
                 /\ key'[ListenerAt]
                 /\ IdsDistinct' /\ listener'.pc = "on" => listener'.heard
  <2> TAKE u \in Tasks
  <2> TAKE m \in Range(task'[u].msgs)
  <2>2. CASE u = t
    BY <1>1, <1>3, <1>5, <1>9, <2>2
  <2>3. CASE u # t
    BY <1>1, <1>3, <1>4, <1>5, <1>8, <1>11, <2>3 DEF ListenerInv
  <2> QED BY <2>2, <2>3
<1>13. \A m \in done' : Current(m)' => redisKey'
  BY <1>1, <1>4, <1>5 DEF ListenerInv
<1>14. listener'.pc # "off" /\ listener'.whole => up'[ListenerAt]
  BY <1>3, <1>4 DEF ListenerInv
<1>15. listener'.pc = "on" /\ listener'.whole /\ IdsDistinct' =>
           \A m \in done' : Current(m)' => listener'.heard \/ Coming(ListenerAt, m)'
  BY <1>1, <1>3, <1>5, <1>10 DEF ListenerInv
<1> QED BY <1>12, <1>13, <1>14, <1>15 DEF ListenerInv

LEMMA ListenerReceive ==
    ASSUME TypeOK, TaskInv, IdInv, ListenerInv, NEW p \in Procs, Receive(p)
    PROVE  ListenerInv'
<1> DEFINE h == Head(chan[p])
<1>1. /\ Delivers(p, <<h>>) /\ Range(<<h>>) = {h}
      /\ reader'.queue \in Seq(Message) /\ listener'.heard \in BOOLEAN
      /\ Range(chan[p]) = {h} \cup Range(chan'[p])
      /\ \A q \in Procs : q # p => chan'[q] = chan[q]
  BY ReceiveFacts
<1>2. /\ listener'.pc = listener.pc /\ listener'.whole = listener.whole
      /\ listener'.since = listener.since
      /\ listener.heard => listener'.heard
  BY <1>1, DeliveredTypes
<1>3. UNCHANGED <<done, issued, task, up, redisKey>>
  BY DEF Receive
<1>4. (IdsDistinct' <=> IdsDistinct) /\ \A m : Current(m)' <=> Current(m)
  BY <1>2, <1>3 DEF IdsDistinct, Current
<1>5. key[ListenerAt] => key'[ListenerAt]
  BY StreamManagerConstants DEF Receive, TypeOK
<1> HIDE DEF h
<1>6. Range(<<h>>) \subseteq Sent
  BY <1>1, SentMember DEF IdInv
<1>7. ASSUME IdsDistinct, listener.pc = "on", NEW m \in done, Current(m),
             Coming(ListenerAt, m)
      PROVE  listener'.heard \/ Coming(ListenerAt, m)'
  <2>1. m \in Range(chan[ListenerAt]) /\ m.id \notin Range(seen[ListenerAt]) /\ m \in Sent
        /\ ListenerAt \in Procs /\ IsControl(m)
    BY <1>7, StreamManagerConstants, SentMember DEF Coming, Current
  <2>2. CASE p # ListenerAt
    BY <1>1, <2>1, <2>2 DEF Coming, Delivers
  <2>3. CASE p = ListenerAt /\ m = h
    BY <1>1, <1>7, <2>1, <2>3 DEF Delivers
  <2>4. CASE p = ListenerAt /\ m # h
    <3>1. m.id \notin Range(seen'[p])
      BY <1>1, <1>6, <1>7, <2>1, <2>4, Unseen
    <3> QED BY <1>1, <2>1, <2>4, <3>1 DEF Coming
  <2> QED BY <2>2, <2>3, <2>4
<1>8. \A u \in Tasks : \A m \in Range(task'[u].msgs) : Current(m)' =>
          /\ task'[u].pc = "publish" => redisKey'
          /\ ProcOf[u] = ListenerAt /\ Delivered(u)' =>
                /\ key'[ListenerAt]
                /\ IdsDistinct' /\ listener'.pc = "on" => listener'.heard
  BY <1>2, <1>3, <1>4, <1>5 DEF ListenerInv, Delivered
<1>9. \A m \in done' : Current(m)' => redisKey'
  BY <1>3, <1>4 DEF ListenerInv
<1>10. listener'.pc # "off" /\ listener'.whole => up'[ListenerAt]
  BY <1>2, <1>3 DEF ListenerInv
<1>11. listener'.pc = "on" /\ listener'.whole /\ IdsDistinct' =>
           \A m \in done' : Current(m)' => listener'.heard \/ Coming(ListenerAt, m)'
  BY <1>2, <1>3, <1>4, <1>7 DEF ListenerInv
<1> QED BY <1>8, <1>9, <1>10, <1>11 DEF ListenerInv

LEMMA ListenerPublish ==
    ASSUME TypeOK, TaskInv, IdInv, ListenerInv, NEW t \in Tasks, Publish(t)
    PROVE  ListenerInv'
<1>1. /\ task'[t] = NoTask /\ \A u \in Tasks : u # t => task'[u] = task[u]
      /\ issued' = issued /\ seen' = seen
  BY EndEffect
<1>2. UNCHANGED <<listener, up, redisKey, key>> /\ task[t].pc = "publish"
      /\ done' = done \cup Range(task[t].msgs)
  BY DEF Publish
<1>3. (IdsDistinct' <=> IdsDistinct) /\ \A m : Current(m)' <=> Current(m)
  BY <1>1, <1>2 DEF IdsDistinct, Current
<1>4. ListenerAt \in Procs /\ task[t].msgs \in Seq(Message) /\ chan[ListenerAt] \in Seq(Message)
  BY TaskFacts, StreamManagerConstants DEF TypeOK
<1>5. up[ListenerAt] =>
          Range(chan'[ListenerAt]) = Range(chan[ListenerAt]) \cup Range(task[t].msgs)
  BY <1>4, Elements DEF Publish
<1>6. \A m \in done' : Current(m)' => redisKey'
  BY <1>2, <1>3 DEF ListenerInv
<1>7. \A u \in Tasks : u # t => (Delivered(u)' <=> Delivered(u))
  BY <1>1 DEF Delivered
<1>8. Range(task'[t].msgs) = {}
  BY <1>1, Small DEF NoTask
<1>9. \A u \in Tasks : \A m \in Range(task'[u].msgs) : Current(m)' =>
          /\ task'[u].pc = "publish" => redisKey'
          /\ ProcOf[u] = ListenerAt /\ Delivered(u)' =>
                /\ key'[ListenerAt]
                /\ IdsDistinct' /\ listener'.pc = "on" => listener'.heard
  <2> TAKE u \in Tasks
  <2> TAKE m \in Range(task'[u].msgs)
  <2>2. u # t
    BY <1>8
  <2> QED BY <1>1, <1>2, <1>3, <1>7, <2>2 DEF ListenerInv
<1>10. ASSUME listener.pc = "on", listener.whole, IdsDistinct, NEW m \in done', Current(m)
       PROVE  listener.heard \/ Coming(ListenerAt, m)'
  <2>1. up[ListenerAt]
    BY <1>10 DEF ListenerInv
  <2>2. CASE m \in done
    <3>1. Coming(ListenerAt, m) => Coming(ListenerAt, m)'
      BY <1>1, <1>5, <2>1 DEF Coming
    <3> QED BY <1>10, <2>2, <3>1 DEF ListenerInv
  <2>3. CASE m \in Range(task[t].msgs)
    <3>1. CASE ProcOf[t] = ListenerAt
      BY <1>2, <1>10, <2>3, <3>1 DEF ListenerInv, Delivered
    <3>2. CASE ProcOf[t] # ListenerAt
      <4>1. m.id \notin Range(seen[ListenerAt])
        BY <1>4, <1>10, <2>3, <3>2 DEF IdInv
      <4> QED BY <1>1, <1>5, <2>1, <2>3, <4>1 DEF Coming
    <3> QED BY <3>1, <3>2
  <2> QED BY <1>2, <2>2, <2>3
<1>11. listener'.pc # "off" /\ listener'.whole => up'[ListenerAt]
  BY <1>2 DEF ListenerInv
<1>12. listener'.pc = "on" /\ listener'.whole /\ IdsDistinct' =>
           \A m \in done' : Current(m)' => listener'.heard \/ Coming(ListenerAt, m)'
  BY <1>2, <1>3, <1>10
<1> QED BY <1>6, <1>9, <1>11, <1>12 DEF ListenerInv

\* Listening, and leaving the run.
LEMMA ListenerOwn ==
    ASSUME TypeOK, TaskInv, IdInv, ListenerInv, Listen \/ Hydrate \/ Leave
    PROVE  ListenerInv'
<1>1. UNCHANGED <<issued, done, task, seen, chan, up>> /\ ListenerAt \in Procs
  BY StreamManagerConstants DEF Listen, Hydrate, Leave
<1>2. (IdsDistinct' <=> IdsDistinct) /\ \A t \in Tasks : Delivered(t)' <=> Delivered(t)
  BY <1>1 DEF IdsDistinct, Delivered
<1>3. CASE Listen
  <2>1. /\ listener'.pc = "hydrate" /\ listener'.whole = up[ListenerAt]
        /\ listener'.since = listener.since /\ UNCHANGED <<key, redisKey>>
    BY <1>3 DEF Listen, TypeOK, Listener
  <2>2. \A m : Current(m)' <=> Current(m)
    BY <2>1 DEF Current
  <2> QED BY <1>1, <1>2, <2>1, <2>2 DEF ListenerInv
<1>4. CASE Hydrate
  <2>1. /\ listener'.pc = "on" /\ listener'.whole = listener.whole /\ listener.pc # "off"
        /\ listener'.since = listener.since /\ listener'.heard = (listener.heard \/ Known)
        /\ redisKey' = redisKey /\ key'[ListenerAt] = Known
    BY <1>1, <1>4 DEF Hydrate, TypeOK, Listener
  <2>2. \A m : Current(m)' <=> Current(m)
    BY <2>1 DEF Current
  <2>3. \A t \in Tasks : \A m \in Range(task[t].msgs) :
            Current(m) /\ ProcOf[t] = ListenerAt /\ Delivered(t) => Known
    BY DEF ListenerInv, Known
  <2>4. \A m \in done : Current(m) => Known
    BY DEF ListenerInv, Known
  <2> QED BY <1>1, <1>2, <2>1, <2>2, <2>3, <2>4 DEF ListenerInv
<1>5. CASE Leave
  <2>1. listener'.pc = "off" /\ listener'.since = puts /\ puts \in Int
    BY <1>5, StreamManagerConstants DEF Leave, NoListener, TypeOK
  <2>2. \A m \in Sent : m \in Message /\ m.n \in Int
    BY SentMember, TaskFacts, MessageFields DEF TypeOK
  <2>3. \A m \in Sent : ~Current(m)'
    BY <2>1, <2>2 DEF Current, TaskInv
  <2>4. \A m \in done' : ~Current(m)'
    BY <1>1, <2>3, SentMember
  <2>5. \A t \in Tasks : \A m \in Range(task'[t].msgs) : ~Current(m)'
    BY <1>1, <2>3, SentMember
  <2> QED BY <2>1, <2>4, <2>5 DEF ListenerInv
<1> QED BY <1>3, <1>4, <1>5

LEMMA ListenerStep ==
    ASSUME TypeOK, TaskInv, IdInv, ListenerInv, [Next]_vars
    PROVE  ListenerInv'
<1>1. ASSUME NEW t \in Tasks, SetKey(t) PROVE ListenerInv'
  <2>1. /\ \A u \in Tasks : task'[u].msgs = task[u].msgs
        /\ \A u \in Tasks : u # t => task'[u] = task[u]
        /\ UNCHANGED <<done, issued, chan>>
    BY <1>1, StepEffect
  <2>2. UNCHANGED <<listener, seen, up, key>> /\ task[t].pc = "key" /\ redisKey' = TRUE
    BY <1>1 DEF SetKey
  <2>3. \A u \in Tasks : Delivered(u)' => Delivered(u)
    BY <2>1, <2>2 DEF Delivered
  <2>4. (IdsDistinct' <=> IdsDistinct)
        /\ \A m : (Current(m)' <=> Current(m)) /\ (Coming(ListenerAt, m)' <=> Coming(ListenerAt, m))
    BY <2>1, <2>2 DEF IdsDistinct, Current, Coming
  <2> QED BY <2>1, <2>2, <2>3, <2>4 DEF ListenerInv
<1>2. ASSUME NEW t \in Tasks, PutFails(t) PROVE ListenerInv'
  <2>1. task'[t] = NoTask /\ \A u \in Tasks : u # t => task'[u] = task[u]
    BY <1>2, EndEffect
  <2>2. \A u \in Tasks : Range(task'[u].msgs) = {} \/ task'[u] = task[u]
    BY <2>1, Small DEF NoTask
  <2>3. UNCHANGED <<issued, done, redisKey, listener, seen, up, key, chan>>
    BY <1>2 DEF PutFails
  <2> QED BY <2>2, <2>3, ListenerKept
<1>3. ASSUME NEW p \in Procs, MuxDown(p) PROVE ListenerInv'
  <2>1. UNCHANGED <<issued, task, done, seen, redisKey, key>> /\ ListenerAt \in Procs
    BY <1>3, StreamManagerConstants DEF MuxDown
  <2>2. /\ listener'.pc = listener.pc /\ listener'.since = listener.since
        /\ listener'.heard = listener.heard
        /\ listener'.whole => listener.whole /\ p # ListenerAt
    BY <1>3 DEF MuxDown, TypeOK, Listener
  <2>3. p # ListenerAt =>
            chan'[ListenerAt] = chan[ListenerAt] /\ up'[ListenerAt] = up[ListenerAt]
    BY <1>3, <2>1 DEF MuxDown, TypeOK
  <2> QED BY <2>1, <2>2, <2>3, ListenerKept
<1>4. ASSUME NEW p \in Procs, MuxUp(p) PROVE ListenerInv'
  <2>1. UNCHANGED <<issued, task, done, seen, redisKey, key, chan, listener>>
    BY <1>4 DEF MuxUp
  <2>2. up[ListenerAt] => up'[ListenerAt]
    BY <1>4, StreamManagerConstants DEF MuxUp, TypeOK
  <2> QED BY <2>1, <2>2, ListenerKept
<1>5. ASSUME UNCHANGED <<issued, task, done, seen, redisKey, key, chan, listener, up>>
      PROVE  ListenerInv'
  BY <1>5, ListenerKept
<1>6. ASSUME NEW c \in -1..MaxId, Subscribe(c) PROVE ListenerInv'
  BY <1>5, <1>6 DEF Subscribe
<1>7. ASSUME Restore \/ Read \/ Unsubscribe \/ UNCHANGED vars PROVE ListenerInv'
  BY <1>5, <1>7 DEF Restore, Read, Unsubscribe, vars
<1>8. ASSUME DropStore PROVE ListenerInv'
  <2>1. UNCHANGED <<issued, task, done, seen, redisKey, key, chan, up>>
    BY <1>8 DEF DropStore
  <2>2. /\ listener'.pc = listener.pc /\ listener'.since = listener.since
        /\ listener'.heard = listener.heard /\ listener'.whole = listener.whole
    BY <1>8 DEF DropStore, TypeOK, Listener
  <2> QED BY <2>1, <2>2, ListenerKept
<1> QED BY <1>1, <1>2, <1>3, <1>4, <1>6, <1>7, <1>8, ListenerPut, ListenerBuffer,
           ListenerPublish, ListenerReceive, ListenerOwn, NextCases

-----------------------------------------------------------------------------
(* The theorems *)

LEMMA InvInit == Init => IInv
<1> SUFFICES ASSUME Init PROVE IInv
  OBVIOUS
<1>1. TypeOK
  BY TypeInit
<1>2. /\ \A t \in Tasks : task[t].pc = "idle" /\ task[t].msgs = <<>>
                          /\ Range(task[t].msgs) = {}
      /\ done = {} /\ reader.pc = "off" /\ listener.pc = "off"
  BY Small DEF Init, NoTask, NoReader, NoListener
<1>3. Sent = {}
  BY <1>2, SentMember
<1>4. \A p \in Procs : Range(seen[p]) = {} /\ Range(chan[p]) = {}
  BY Small DEF Init
<1>5. TaskInv
  BY <1>2, <1>3 DEF TaskInv
<1>6. IdInv
  BY <1>2, <1>3, <1>4 DEF IdInv
<1>7. ReplayInv /\ LiveInv
  BY <1>2, <1>3 DEF ReplayInv, LiveInv
<1>8. ListenerInv
  BY <1>2 DEF ListenerInv
<1> QED BY <1>1, <1>5, <1>6, <1>7, <1>8 DEF IInv

\* The invariant holds initially and every step keeps it.
THEOREM Inductive == Spec => []IInv
<1>1. IInv /\ [Next]_vars => IInv'
  BY TypeStep, TaskStep, IdStep, ReplayStep, LiveStep, ListenerStep DEF IInv
<1> QED BY <1>1, InvInit, PTL DEF Spec

\* Buffers and seen ids stay within their limits, and ids within theirs.
THEOREM TypeCorrect == Spec => []TypeOK
<1>1. IInv => TypeOK
  BY DEF IInv
<1> QED BY <1>1, Inductive, PTL

\* restore_messages_async, add_queue and the fan-out together: while the ids of
\* all sources differ and the subscription holds, a reader that has caught up has
\* every message it asked for.
THEOREM ReaderServed == Spec => []NothingMissed
<1>1. ASSUME IInv PROVE NothingMissed
  <2> SUFFICES ASSUME reader.pc = "live", reader.whole, IdsDistinct, Quiet(ReaderAt),
                      NEW m \in Wanted
               PROVE  m.id \in reader.emitted \/ m \in Range(reader.queue)
    BY DEF NothingMissed
  <2>1. /\ m \in done /\ IsFrame(m) /\ m.id > reader.cursor
        /\ m \in reader.before => resumable /\ reader.cursor >= 0
    BY DEF Wanted
  <2>2. m.id \in Int /\ reader.cursor \in Int
    BY <1>1, <2>1, MessageFields DEF IInv, TypeOK, Reader, Ids
  <2>3. Range(chan[ReaderAt]) = {}
    BY Small DEF Quiet
  <2>4. CASE m \in reader.before
    BY <1>1, <2>1, <2>2, <2>4 DEF IInv, ReplayInv
  <2>5. CASE m \notin reader.before
    <3>1. Got(m) \/ Coming(ReaderAt, m)
      BY <1>1, <2>1, <2>5, SentMember DEF IInv, LiveInv
    <3> QED BY <2>1, <2>2, <2>3, <3>1 DEF Got, Coming
  <2> QED BY <2>4, <2>5
<1> QED BY <1>1, Inductive, PTL

\* The control key and the channel together: a cancellation whose put has returned
\* reaches the listener of its process, whenever that one registers.
THEOREM CancellationHeard == Spec => []ControlHeard
<1>1. ASSUME IInv PROVE ControlHeard
  <2> SUFFICES ASSUME NEW m \in done, IsControl(m), m.n > listener.since,
                      listener.pc = "on", listener.whole, IdsDistinct, Quiet(ListenerAt)
               PROVE  listener.heard
    BY DEF ControlHeard
  <2>1. Range(chan[ListenerAt]) = {}
    BY Small DEF Quiet
  <2>2. listener.heard \/ Coming(ListenerAt, m)
    BY <1>1 DEF IInv, ListenerInv, Current
  <2> QED BY <2>1, <2>2 DEF Coming
<1> QED BY <1>1, Inductive, PTL
=============================================================================
