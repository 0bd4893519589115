-------------------------- MODULE CheckpointsProofs --------------------------
(***************************************************************************)
(* Proofs about Checkpoints, for any number of runs, threads, namespaces,  *)
(* checkpoints, attempts and disturbances: the newest state can be read,   *)
(* the checkpoints of an attempt follow each other, and a rollback takes   *)
(* back the run and nothing else.                                          *)
(***************************************************************************)
EXTENDS Checkpoints, FiniteSetTheorems, WellFoundedInduction, TLAPS

-----------------------------------------------------------------------------
(* The inductive invariant *)

\* TypeOK without the ids.
TableTypes ==
    /\ exists \subseteq Threads
    /\ cps \in [Threads -> SUBSET Checkpoint] /\ writes \in [Threads -> SUBSET Pending]
    /\ run \in [Runs -> Row]
    /\ update \in Update /\ copy \in Copy
    /\ last \in 0..MaxId /\ ops \in 0..MaxOps
    /\ spoiled \in BOOLEAN

\* What a row says by itself: a run that was not claimed has no generation, one that
\* does not live has no baseline, a baseline is that of an attempt.
RowInv ==
    \A r \in Runs :
        /\ run[r].status = "none" => run[r].gen = 0
        /\ run[r].status \in {"none", "gone"} => run[r].base.at = 0
        /\ run[r].live => run[r].status = "running"
        /\ run[r].base.at > 0 => run[r].base.gen \in 1..run[r].gen

Together(q, r) == q # r /\ ThreadOf[q] = ThreadOf[r]

OneRunning ==
    \A q, r \in Runs :
        Together(q, r) => ~(run[q].status = "running" /\ run[r].status = "running")

\* A running run has the latest baseline of its thread, unless it was retried.
Latest ==
    \A q, r \in Runs :
        Together(q, r) /\ run[q].status = "running" /\ run[r].base.at > 0
        => Retried(q) \/ run[q].base.at > run[r].base.at

\* A baseline has what the earlier ones of its thread have.
Nested ==
    \A q, r \in Runs :
        /\ Together(q, r) /\ run[r].base.at > 0 /\ run[r].base.at < run[q].base.at
        => /\ run[r].base.cps \subseteq run[q].base.cps
           /\ run[r].base.writes \subseteq run[q].base.writes

\* The runs of t that captured a baseline since the last one was superseded, among
\* others; they bound the positions of the captures.
Captures(t) ==
    {q \in Runs : ThreadOf[q] = t /\ (run[q].base.at > 0 \/ run[q].status = "gone")}

CaptureInv == \A r \in Runs : run[r].base.at <= Cardinality(Captures(ThreadOf[r]))

\* Why a pending write of the thread that is not in the baseline of r is there.
Excused(r, w) ==
    /\ ThreadOf[w.by] = ThreadOf[r]
    /\ \/ w.by = r \/ ~Lives(w.by) \/ Retried(w.by)
       \/ run[w.by].base.at > run[r].base.at

\* What is in a baseline is still in the tables.
BaseInv ==
    \A r \in Runs : run[r].base.at > 0 =>
        /\ ThreadOf[r] \in exists
        /\ run[r].base.cps \subseteq cps[ThreadOf[r]]
        /\ run[r].base.writes \subseteq writes[ThreadOf[r]]
        /\ \A w \in writes[ThreadOf[r]] \ run[r].base.writes : Excused(r, w)
        /\ run[r].base.gen = 1 =>
              \A c \in run[r].base.cps \cup run[r].base.writes : c.by # r

\* Rows in the tables, and rows that a copy is about to put there, were written by
\* attempts that there have been.
WrittenCp(c) ==
    c.by # NoRun /\ run[c.by].status # "gone" => c.gen \in 1..run[c.by].gen
WrittenWrite(w) == run[w.by].status # "gone" => run[w.by].gen >= 1

WrittenInv ==
    /\ \A t \in Threads : \A c \in cps[t] : WrittenCp(c)
    /\ \A t \in Threads : \A w \in writes[t] : WrittenWrite(w)
    /\ \A c \in copy.todo : WrittenCp(c)
    /\ \A w \in copy.left : WrittenWrite(w)

RunsInv == RowInv /\ OneRunning /\ Latest /\ Nested /\ CaptureInv
TablesInv == BaseInv /\ WrittenInv
BaselineInv == RunsInv /\ TablesInv

-----------------------------------------------------------------------------
(* Numbers *)

\* Induction over numbers, as a least element.
LEMMA Least ==
    ASSUME NEW T \in SUBSET Nat, T # {}
    PROVE  \E x \in T : \A y \in T : x <= y
  <1> DEFINE R == {ss \in Nat \X Nat : ss[1] < ss[2]}
  <1>1. IsWellFoundedOn(R, Nat)
    BY NatLessThanWellFounded DEF OpToRel
  <1>2. \A x, y \in Nat : y < x => <<y, x>> \in R
    OBVIOUS
  <1> HIDE DEF R
  <1>3. PICK x \in T : \A y \in T : ~(<<y, x>> \in R)
    BY <1>1, WFMin, Zenon
  <1>4. \A y \in T : ~(y < x)
    BY <1>2, <1>3
  <1> QED
    BY <1>4

\* A bounded set of numbers has a maximum.
LEMMA MaxInSet ==
    ASSUME NEW S \in SUBSET Nat, S # {}, NEW m \in Nat, \A x \in S : x <= m
    PROVE  Max(S) \in S /\ \A x \in S : x <= Max(S)
  <1> DEFINE T == {x \in Nat : \A y \in S : y <= x}
  <1>1. T \in SUBSET Nat /\ m \in T
    OBVIOUS
  <1>2. PICK x \in T : \A y \in T : x <= y
    <2> HIDE DEF T
    <2> QED
      BY <1>1, Least
  <1>3. x \in S
    <2> SUFFICES ASSUME x \notin S PROVE FALSE
      OBVIOUS
    <2>1. \A y \in S : y < x
      BY <1>2
    <2>2. x > 0 /\ x - 1 \in Nat
      <3>1. PICK y \in S : TRUE
        OBVIOUS
      <3>2. y \in Nat /\ y < x /\ x \in Nat
        BY <1>2, <2>1
      <3> QED
        BY <3>2
    <2>3. \A y \in S : y <= x - 1
      BY <1>2, <2>1
    <2>4. x - 1 \in T
      BY <2>2, <2>3
    <2> QED
      BY <1>2, <2>4
  <1>4. \A y \in S : x >= y
    BY <1>2
  <1>5. Max(S) \in S /\ \A y \in S : Max(S) >= y
    BY <1>3, <1>4, Zenon DEF Max
  <1> QED
    BY <1>5

\* The head of a namespace is a checkpoint of it, and none of them is newer.
LEMMA HeadFacts ==
    ASSUME NEW S \in SUBSET Checkpoint, NEW ns
    PROVE  /\ HeadId(S, ns) \in 0..MaxId
           /\ HeadId(S, ns) > 0 => \E c \in S : c.id = HeadId(S, ns) /\ c.ns = ns
           /\ \A c \in S : c.ns = ns => c.id <= HeadId(S, ns)
  <1> DEFINE T == IdsOf(InNs(S, ns))
  <1>1. \A c \in S : c.id \in 1..MaxId
    BY DEF Checkpoint, Ids
  <1>2. MaxId \in Nat
    BY CheckpointConstants
  <1>3. CASE InNs(S, ns) = {}
    BY <1>2, <1>3 DEF HeadId, InNs
  <1>4. CASE InNs(S, ns) # {}
    <2>1. T \in SUBSET Nat /\ T # {} /\ \A x \in T : x <= MaxId
      BY <1>1, <1>2, <1>4 DEF IdsOf, InNs
    <2>2. Max(T) \in T /\ \A x \in T : x <= Max(T)
      <3> HIDE DEF T
      <3> QED
        BY <1>2, <2>1, MaxInSet
    <2>3. PICK m : m = Max(T)
      OBVIOUS
    <2>4. HeadId(S, ns) = m
      BY <1>4, <2>3 DEF HeadId
    <2>5. m \in T /\ \A x \in T : x <= m
      BY <2>2, <2>3
    <2>6. /\ \E c \in S : c.id = m /\ c.ns = ns
          /\ \A c \in S : c.ns = ns => c.id <= m
      BY <2>5 DEF IdsOf, InNs
    <2> QED
      BY <1>1, <2>4, <2>6
  <1> QED
    BY <1>3, <1>4

-----------------------------------------------------------------------------
(* Rows *)

LEMMA RowFields ==
    ASSUME TableTypes, NEW r \in Runs
    PROVE  /\ run[r] \in Row
           /\ run[r].status \in {"none", "pending", "running", "stopped", "gone"}
           /\ run[r].gen \in 0..MaxGen /\ run[r].live \in BOOLEAN /\ run[r].rollback \in BOOLEAN
           /\ run[r].base \in Baseline
           /\ run[r].base.at \in 0..Cardinality(Runs) /\ run[r].base.gen \in 0..MaxGen
           /\ run[r].base.cps \in SUBSET Checkpoint /\ run[r].base.writes \in SUBSET Pending
           /\ ThreadOf[r] \in Threads
  BY CheckpointConstants DEF TableTypes, Row, Baseline

LEMMA Naturals ==
    /\ Cardinality(Runs) \in Nat /\ MaxGen \in Nat /\ MaxId \in Nat /\ MaxOps \in Nat
  BY CheckpointConstants, FS_CardinalityType

LEMMA Defaults ==
    /\ NoBaseline \in Baseline /\ NoRow \in Row /\ [NoRow EXCEPT !.status = "gone"] \in Row
    /\ NoUpdate \in Update /\ NoCopy \in Copy
    /\ NoBaseline.at = 0 /\ NoBaseline.cps = {} /\ NoBaseline.writes = {}
    /\ NoRow.status = "none" /\ NoRow.gen = 0 /\ NoRow.base = NoBaseline
  <1>1. 0 \in 0..Cardinality(Runs) /\ 0 \in 0..MaxGen /\ -1 \in -1..MaxId
    BY Naturals
  <1>2. NoBaseline \in Baseline
    BY <1>1 DEF NoBaseline, Baseline
  <1>3. NoRow \in Row /\ [NoRow EXCEPT !.status = "gone"] \in Row
    BY <1>1, <1>2 DEF NoRow, Row
  <1>4. NoUpdate \in Update /\ NoCopy \in Copy
    BY <1>1, CheckpointConstants DEF NoUpdate, Update, NoCopy, Copy
  <1> QED
    BY <1>2, <1>3, <1>4 DEF NoBaseline, NoRow

\* The row of r is replaced.
LEMMA RowPut ==
    ASSUME TableTypes, NEW r \in Runs, NEW row \in Row, run' = [run EXCEPT ![r] = row]
    PROVE  /\ run' \in [Runs -> Row] /\ run'[r] = row
           /\ \A q \in Runs \ {r} : run'[q] = run[q]
  BY DEF TableTypes

\* The baselines of a thread are superseded.
Wiped(t) ==
    \A r \in Runs :
        /\ run'[r].status = run[r].status /\ run'[r].gen = run[r].gen
        /\ run'[r].live = run[r].live
        /\ run'[r].base = IF ThreadOf[r] = t THEN NoBaseline ELSE run[r].base

LEMMA WipedRows ==
    ASSUME TableTypes, NEW t \in Threads, run' = WithoutBaselines(t)
    PROVE  run' \in [Runs -> Row] /\ Wiped(t)
  <1>1. ASSUME NEW r \in Runs
        PROVE  /\ run'[r] \in Row
               /\ run'[r].status = run[r].status /\ run'[r].gen = run[r].gen
               /\ run'[r].live = run[r].live
               /\ run'[r].base = IF ThreadOf[r] = t THEN NoBaseline ELSE run[r].base
    <2>1. run[r] \in Row
      BY RowFields
    <2>2. CASE ThreadOf[r] = t
      <3>1. run'[r] = [run[r] EXCEPT !.base = NoBaseline]
        BY <2>2 DEF WithoutBaselines
      <3> QED
        BY <2>1, <2>2, <3>1, Defaults DEF Row
    <2>3. CASE ThreadOf[r] # t
      <3>1. run'[r] = run[r]
        BY <2>3 DEF WithoutBaselines
      <3> QED
        BY <2>1, <2>3, <3>1
    <2> QED
      BY <2>2, <2>3
  <1>2. run' \in [Runs -> Row]
    BY <1>1 DEF WithoutBaselines
  <1> QED
    BY <1>1, <1>2 DEF Wiped

-----------------------------------------------------------------------------
(* What the actions do to rows and tables *)

Tables == <<exists, cps, writes, update, copy, last, spoiled>>

\* A step in the life of r which neither starts nor removes it.
Life(r) ==
    /\ run[r].status # "gone"
    /\ run'[r].gen = run[r].gen /\ run'[r].base = run[r].base
    /\ run'[r].status \in {"pending", "running", "stopped"}
    /\ run'[r].status = "running" => run[r].status = "running"
    /\ run'[r].live => run'[r].status = "running"
    /\ \A q \in Runs \ {r} : run'[q] = run[q]
    /\ UNCHANGED Tables

Mark(r) == RequestRollback(r) /\ run[r].status = "running"

LEMMA LifeEffect ==
    ASSUME TableTypes, RowInv, NEW r \in Runs,
           Create(r) \/ LeaseExpires(r) \/ Requeue(r) \/ Stop(r) \/ Mark(r)
    PROVE  TableTypes' /\ Life(r)
  <1>r. /\ run[r] \in Row /\ run[r].gen \in 0..MaxGen /\ run[r].base \in Baseline
        /\ run[r].live \in BOOLEAN /\ run[r].rollback \in BOOLEAN
        /\ run[r].status \in {"none", "pending", "running", "stopped", "gone"}
    BY RowFields
  <1>1. ASSUME NEW row \in Row, run' = [run EXCEPT ![r] = row],
               run[r].status # "gone", row.gen = run[r].gen, row.base = run[r].base,
               row.status \in {"pending", "running", "stopped"},
               row.status = "running" => run[r].status = "running",
               row.live => row.status = "running",
               UNCHANGED Tables, ops' \in 0..MaxOps
        PROVE  TableTypes' /\ Life(r)
    <2>1. /\ run' \in [Runs -> Row] /\ run'[r] = row
          /\ \A q \in Runs \ {r} : run'[q] = run[q]
      BY <1>1, RowPut
    <2> QED
      BY <1>1, <2>1 DEF TableTypes, Life, Tables
  <1>o. ops \in 0..MaxOps
    BY DEF TableTypes
  <1>2. CASE Create(r)
    <2> DEFINE row == [run[r] EXCEPT !.status = "pending"]
    <2>1. row \in Row /\ row.gen = run[r].gen /\ row.base = run[r].base /\ row.status = "pending"
          /\ row.live = run[r].live
      BY <1>r DEF Row
    <2>2. run' = [run EXCEPT ![r] = row] /\ UNCHANGED Tables /\ ops' = ops
      BY <1>2 DEF Create, Tables
    <2>3. run[r].status # "gone" /\ ~run[r].live
      BY <1>2 DEF Create, RowInv
    <2> HIDE DEF row
    <2> QED
      BY <1>1, <1>o, <2>1, <2>2, <2>3
  <1>3. CASE LeaseExpires(r)
    <2> DEFINE row == [run[r] EXCEPT !.live = FALSE]
    <2>1. /\ row \in Row /\ row.gen = run[r].gen /\ row.base = run[r].base
          /\ row.status = run[r].status /\ ~row.live
      BY <1>r DEF Row
    <2>2. run' = [run EXCEPT ![r] = row] /\ UNCHANGED Tables /\ ops < MaxOps /\ ops' = ops + 1
      BY <1>3 DEF LeaseExpires, Counted, Tables
    <2>3. ops' \in 0..MaxOps
      BY <1>o, <2>2, Naturals
    <2>4. run[r].status = "running"
      BY <1>3 DEF LeaseExpires, RowInv
    <2> HIDE DEF row
    <2> QED
      BY <1>1, <2>1, <2>2, <2>3, <2>4
  <1>4. CASE Requeue(r)
    <2> DEFINE row == [run[r] EXCEPT !.status = "pending"]
    <2>1. row \in Row /\ row.gen = run[r].gen /\ row.base = run[r].base /\ row.status = "pending"
          /\ row.live = run[r].live
      BY <1>r DEF Row
    <2>2. run' = [run EXCEPT ![r] = row] /\ UNCHANGED Tables /\ ops' = ops
      BY <1>4 DEF Requeue, Tables
    <2>3. run[r].status # "gone" /\ ~run[r].live
      BY <1>4 DEF Requeue
    <2> HIDE DEF row
    <2> QED
      BY <1>1, <1>o, <2>1, <2>2, <2>3
  <1>5. CASE Stop(r)
    <2> DEFINE row == [run[r] EXCEPT !.status = "stopped", !.live = FALSE]
    <2>1. row \in Row /\ row.gen = run[r].gen /\ row.base = run[r].base /\ row.status = "stopped"
          /\ ~row.live
      BY <1>r DEF Row
    <2>2. run' = [run EXCEPT ![r] = row] /\ UNCHANGED Tables /\ ops' = ops
      BY <1>5 DEF Stop, Tables, TableTypes
    <2>3. run[r].status # "gone"
      BY <1>5 DEF Stop
    <2> HIDE DEF row
    <2> QED
      BY <1>1, <1>o, <2>1, <2>2, <2>3
  <1>6. CASE Mark(r)
    <2> DEFINE row == [run[r] EXCEPT !.status = "stopped", !.live = FALSE, !.rollback = TRUE]
    <2>1. row \in Row /\ row.gen = run[r].gen /\ row.base = run[r].base /\ row.status = "stopped"
          /\ ~row.live
      BY <1>r DEF Row
    <2>2. run' = [run EXCEPT ![r] = row] /\ UNCHANGED Tables /\ ops' = ops
      BY <1>6 DEF Mark, RequestRollback, Tables, TableTypes
    <2>3. run[r].status # "gone"
      BY <1>6 DEF Mark
    <2> HIDE DEF row
    <2> QED
      BY <1>1, <1>o, <2>1, <2>2, <2>3
  <1> QED
    BY <1>2, <1>3, <1>4, <1>5, <1>6

\* No run of the thread is running.
LEMMA NoWriterIdle ==
    ASSUME TableTypes, NEW t \in Threads, ~Busy(On(t))
    PROVE  \A q \in Runs : ThreadOf[q] = t => run[q].status # "running"
  BY DEF Busy, On, Lives

LEMMA RunsFinite == IsFiniteSet(Runs)
  BY CheckpointConstants

LEMMA CapturesCount ==
    ASSUME NEW t
    PROVE  /\ IsFiniteSet(Captures(t)) /\ Cardinality(Captures(t)) \in Nat
           /\ Cardinality(Captures(t)) <= Cardinality(Runs)
           /\ \A r \in Runs \ Captures(t) :
                 /\ Cardinality(Captures(t) \cup {r}) = Cardinality(Captures(t)) + 1
                 /\ Cardinality(Captures(t)) + 1 <= Cardinality(Runs)
  <1>1. Captures(t) \in SUBSET Runs
    BY DEF Captures
  <1>2. /\ IsFiniteSet(Captures(t)) /\ Cardinality(Captures(t)) \in Nat
        /\ Cardinality(Captures(t)) <= Cardinality(Runs)
    BY <1>1, RunsFinite, FS_Subset, FS_CardinalityType
  <1>3. ASSUME NEW r \in Runs \ Captures(t)
        PROVE  /\ Cardinality(Captures(t) \cup {r}) = Cardinality(Captures(t)) + 1
               /\ Cardinality(Captures(t)) + 1 <= Cardinality(Runs)
    <2>1. Cardinality(Captures(t) \cup {r}) = Cardinality(Captures(t)) + 1
      BY <1>2, FS_AddElement
    <2>2. Captures(t) \cup {r} \in SUBSET Runs
      BY <1>1
    <2>3. Cardinality(Captures(t) \cup {r}) <= Cardinality(Runs)
      BY <2>2, RunsFinite, FS_Subset
    <2> QED
      BY <2>1, <2>3
  <1> QED
    BY <1>2, <1>3

\* A claim captures a baseline beyond all others of the thread, or keeps the one it has.
LEMMA CapturedFacts ==
    ASSUME TableTypes, RowInv, CaptureInv, NEW r \in Runs,
           run[r].status = "pending", run[r].gen < MaxGen, NEW b, b = Captured(r)
    PROVE  /\ b \in Baseline
           /\ run[r].base.at > 0 => b = run[r].base
           /\ run[r].base.at = 0 =>
                 /\ b.at > 0 /\ b.gen = run[r].gen + 1
                 /\ b.at <= Cardinality(Captures(ThreadOf[r])) + 1
                 /\ b.cps = cps[ThreadOf[r]] /\ b.writes = writes[ThreadOf[r]]
                 /\ \A q \in Runs : ThreadOf[q] = ThreadOf[r] => run[q].base.at < b.at
  <1> DEFINE t == ThreadOf[r]
             T == {run[q].base.at : q \in On(t)}
             m == Max(T)
  <1>1. CASE run[r].base.at > 0
    <2>1. b = run[r].base
      BY <1>1 DEF Captured
    <2> QED
      BY <1>1, <2>1, RowFields, Naturals
  <1>2. CASE ~(run[r].base.at > 0)
    <2>1. b = [at |-> 1 + m, gen |-> run[r].gen + 1, cps |-> cps[t], writes |-> writes[t]]
      BY <1>2 DEF Captured
    <2>2. \A q \in Runs : run[q].base.at \in Nat
      BY RowFields, Naturals
    <2>3. \A x \in T : x \in Nat /\ x <= Cardinality(Captures(t))
      BY <2>2 DEF CaptureInv, On
    <2>4. T \in SUBSET Nat /\ T # {}
      BY <2>3 DEF On, Lives
    <2>5. Cardinality(Captures(t)) \in Nat
      BY CapturesCount
    <2>6. m \in T /\ \A x \in T : x <= m
      <3> HIDE DEF T
      <3> QED
        BY <2>3, <2>4, <2>5, MaxInSet
    <2>7. m \in Nat /\ m <= Cardinality(Captures(t))
      BY <2>3, <2>6
    <2>8. ASSUME NEW q \in Runs, ThreadOf[q] = t
          PROVE  run[q].base.at < 1 + m
      <3>1. CASE Lives(q)
        <4>1. run[q].base.at \in T
          BY <2>8, <3>1 DEF On
        <4>2. run[q].base.at <= m
          BY <2>6, <4>1
        <4> HIDE DEF m
        <4> QED
          BY <2>2, <2>7, <4>2
      <3>2. CASE ~Lives(q)
        <4>1. run[q].base.at = 0
          BY <3>2, RowFields DEF RowInv, Lives
        <4> HIDE DEF m
        <4> QED
          BY <2>7, <4>1
      <3> QED
        BY <3>1, <3>2
    <2>9. r \notin Captures(t)
      BY <1>2 DEF Captures
    <2>10. Cardinality(Captures(t)) + 1 <= Cardinality(Runs)
      BY <2>9, CapturesCount
    <2>11. 1 + m \in 0..Cardinality(Runs) /\ 1 + m > 0 /\ 1 + m <= Cardinality(Captures(t)) + 1
      <3> HIDE DEF m
      <3> QED
        BY <2>5, <2>7, <2>10, Naturals
    <2>12. run[r].gen + 1 \in 0..MaxGen
      BY RowFields, Naturals
    <2>13. cps[t] \in SUBSET Checkpoint /\ writes[t] \in SUBSET Pending
      BY RowFields DEF TableTypes
    <2> HIDE DEF m, t
    <2>14. b \in Baseline
      BY <2>1, <2>11, <2>12, <2>13 DEF Baseline
    <2>15. /\ b.at = 1 + m /\ b.gen = run[r].gen + 1
           /\ b.cps = cps[t] /\ b.writes = writes[t]
      BY <2>1
    <2> QED
      BY <1>2, <2>8, <2>11, <2>14, <2>15 DEF t
  <1> QED
    BY <1>1, <1>2

LEMMA ClaimEffect ==
    ASSUME TableTypes, RowInv, CaptureInv, NEW r \in Runs, Claim(r)
    PROVE  /\ TableTypes' /\ UNCHANGED Tables
           /\ ThreadOf[r] \in exists
           /\ run[r].status = "pending" /\ run'[r].status = "running"
           /\ run[r].gen < MaxGen /\ run'[r].gen = run[r].gen + 1
           /\ run'[r].base = Captured(r)
           /\ \A q \in Runs \ {r} : run'[q] = run[q]
           /\ \A q \in Runs : ThreadOf[q] = ThreadOf[r] => run[q].status # "running"
  <1> DEFINE row == [run[r] EXCEPT !.status = "running", !.gen = @ + 1, !.live = TRUE,
                                   !.base = Captured(r)]
  <1>1. /\ run[r].status = "pending" /\ ThreadOf[r] \in exists /\ run[r].gen < MaxGen
        /\ ~Busy(On(ThreadOf[r]))
        /\ run' = [run EXCEPT ![r].status = "running", ![r].gen = @ + 1, ![r].live = TRUE,
                              ![r].base = Captured(r)]
        /\ UNCHANGED <<exists, cps, writes, update, copy, last, ops, spoiled>>
    BY DEF Claim, AttemptsLeft
  <1>2. Captured(r) \in Baseline
    BY <1>1, CapturedFacts
  <1>3. run[r].gen + 1 \in 0..MaxGen
    BY <1>1, RowFields, Naturals
  <1>4. run[r] \in Row
    BY RowFields
  <1>5. /\ row \in Row /\ row.status = "running" /\ row.gen = run[r].gen + 1
        /\ row.base = Captured(r)
    BY <1>2, <1>3, <1>4 DEF Row
  <1>6. run' = [run EXCEPT ![r] = row]
    BY <1>1 DEF TableTypes
  <1>7. /\ run' \in [Runs -> Row] /\ run'[r] = row
        /\ \A q \in Runs \ {r} : run'[q] = run[q]
    <2> HIDE DEF row
    <2> QED
      BY <1>5, <1>6, RowPut
  <1>8. \A q \in Runs : ThreadOf[q] = ThreadOf[r] => run[q].status # "running"
    BY <1>1, NoWriterIdle, RowFields
  <1> HIDE DEF row
  <1> QED
    BY <1>1, <1>5, <1>7, <1>8 DEF TableTypes, Tables

\* The tables of thread t are replaced.
LEMMA CpsPut ==
    ASSUME TableTypes, NEW t \in Threads, NEW S \in SUBSET Checkpoint,
           cps' = [cps EXCEPT ![t] = S]
    PROVE  /\ cps' \in [Threads -> SUBSET Checkpoint] /\ cps'[t] = S
           /\ \A u \in Threads \ {t} : cps'[u] = cps[u]
  BY DEF TableTypes

LEMMA WritesPut ==
    ASSUME TableTypes, NEW t \in Threads, NEW W \in SUBSET Pending,
           writes' = [writes EXCEPT ![t] = W]
    PROVE  /\ writes' \in [Threads -> SUBSET Pending] /\ writes'[t] = W
           /\ \A u \in Threads \ {t} : writes'[u] = writes[u]
  BY DEF TableTypes

LEMMA TableFields ==
    ASSUME TableTypes, NEW t \in Threads
    PROVE  cps[t] \in SUBSET Checkpoint /\ writes[t] \in SUBSET Pending
  BY DEF TableTypes

LEMMA PutEffect ==
    ASSUME TableTypes, NEW r \in Runs, NEW g \in 1..MaxGen, NEW ns \in Namespaces,
           NEW full \in BOOLEAN, Put(r, g, ns, full)
    PROVE  /\ TableTypes' /\ UNCHANGED <<exists, writes, run, update, copy, spoiled>>
           /\ run[r].status = "running" /\ run[r].gen = g
           /\ last' = last + 1 /\ last + 1 \in 1..MaxId
           /\ \E c \in Checkpoint :
                 /\ c.id = last + 1 /\ c.ns = ns /\ c.by = r /\ c.gen = g
                 /\ c.parent = HeadId(cps[ThreadOf[r]], ns)
                 /\ cps'[ThreadOf[r]] = cps[ThreadOf[r]] \cup {c}
           /\ \A u \in Threads \ {ThreadOf[r]} : cps'[u] = cps[u]
  <1>t. PICK t \in Threads : t = ThreadOf[r]
    BY RowFields
  <1> DEFINE c == [id |-> last + 1, ns |-> ns, parent |-> HeadId(cps[t], ns), full |-> full,
                   by |-> r, gen |-> g]
  <1>1. /\ run[r].status = "running" /\ run[r].gen = g /\ last < MaxId /\ last' = last + 1
        /\ cps' = [cps EXCEPT ![t] = cps[t] \cup {c}]
        /\ UNCHANGED <<exists, writes, run, update, copy, ops, spoiled>>
    BY <1>t DEF Put, Fence, TableTypes
  <1>2. last + 1 \in 1..MaxId /\ last + 1 \in 0..MaxId
    BY <1>1, Naturals DEF TableTypes
  <1>3. cps[t] \in SUBSET Checkpoint
    BY TableFields
  <1>4. HeadId(cps[t], ns) \in 0..MaxId
    BY <1>3, HeadFacts
  <1>5. g \in 0..MaxGen
    BY Naturals
  <1>6. /\ c \in Checkpoint
        /\ c.id = last + 1 /\ c.ns = ns /\ c.by = r /\ c.gen = g
        /\ c.parent = HeadId(cps[t], ns)
    BY <1>2, <1>4, <1>5 DEF Checkpoint, Ids
  <1> HIDE DEF c
  <1>7. PICK S \in SUBSET Checkpoint : S = cps[t] \cup {c}
    BY <1>3, <1>6
  <1>9. cps' = [cps EXCEPT ![t] = S]
    BY <1>1, <1>7
  <1>8. /\ cps' \in [Threads -> SUBSET Checkpoint] /\ cps'[t] = cps[t] \cup {c}
        /\ \A u \in Threads \ {t} : cps'[u] = cps[u]
    BY <1>7, <1>9, CpsPut
  <1> QED
    BY <1>t, <1>1, <1>2, <1>6, <1>8 DEF TableTypes

LEMMA PutWritesEffect ==
    ASSUME TableTypes, NEW r \in Runs, NEW g \in 1..MaxGen, NEW ns \in Namespaces,
           PutWrites(r, g, ns)
    PROVE  /\ TableTypes' /\ UNCHANGED <<exists, cps, run, update, copy, last, spoiled>>
           /\ run[r].status = "running" /\ run[r].gen = g
           /\ \E w \in Pending : w.by = r /\ writes'[ThreadOf[r]] = writes[ThreadOf[r]] \cup {w}
           /\ \A u \in Threads \ {ThreadOf[r]} : writes'[u] = writes[u]
  <1>t. PICK t \in Threads : t = ThreadOf[r]
    BY RowFields
  <1> DEFINE w == [id |-> HeadId(cps[t], ns), by |-> r]
  <1>1. /\ run[r].status = "running" /\ run[r].gen = g
        /\ HeadId(cps[t], ns) > 0
        /\ writes' = [writes EXCEPT ![t] = writes[t] \cup {w}]
        /\ UNCHANGED <<exists, cps, run, update, copy, last, ops, spoiled>>
    BY <1>t DEF PutWrites, Fence, TableTypes
  <1>2. HeadId(cps[t], ns) \in 0..MaxId
    BY TableFields, HeadFacts
  <1>3. w \in Pending /\ w.by = r
    BY <1>1, <1>2, Naturals DEF Pending, Ids
  <1> HIDE DEF w
  <1>4. PICK W \in SUBSET Pending : W = writes[t] \cup {w}
    BY <1>3, TableFields
  <1>6. writes' = [writes EXCEPT ![t] = W]
    BY <1>1, <1>4
  <1>5. /\ writes' \in [Threads -> SUBSET Pending] /\ writes'[t] = writes[t] \cup {w}
        /\ \A u \in Threads \ {t} : writes'[u] = writes[u]
    BY <1>4, <1>6, WritesPut
  <1> QED
    BY <1>t, <1>1, <1>3, <1>5 DEF TableTypes

\* The row of r goes, with its baseline.
Removed(r) ==
    /\ Lives(r)
    /\ run'[r].status = "gone" /\ run'[r].gen = 0 /\ ~run'[r].live
    /\ run'[r].base.at = 0 /\ run'[r].base.cps = {}
    /\ \A q \in Runs \ {r} : run'[q] = run[q]
    /\ UNCHANGED <<exists, update, copy, last>>

LEMMA RemovedRow ==
    ASSUME TableTypes, NEW r \in Runs, Lives(r),
           run' = [run EXCEPT ![r] = [NoRow EXCEPT !.status = "gone"]],
           UNCHANGED <<exists, update, copy, last>>
    PROVE  run' \in [Runs -> Row] /\ Removed(r)
  <1>1. PICK row \in Row : row = [NoRow EXCEPT !.status = "gone"]
    BY Defaults
  <1>2. /\ row.status = "gone" /\ row.gen = 0 /\ ~row.live
        /\ row.base.at = 0 /\ row.base.cps = {}
    BY <1>1, Defaults DEF NoRow
  <1>3. run' = [run EXCEPT ![r] = row]
    BY <1>1
  <1>4. /\ run' \in [Runs -> Row] /\ run'[r] = row
        /\ \A q \in Runs \ {r} : run'[q] = run[q]
    BY <1>3, RowPut
  <1> QED
    BY <1>2, <1>4 DEF Removed

LEMMA RunsDeleteEffect ==
    ASSUME TableTypes, NEW r \in Runs, RunsDelete(r)
    PROVE  TableTypes' /\ Removed(r) /\ UNCHANGED <<cps, writes, spoiled>>
  <1>1. /\ Lives(r) /\ run' = [run EXCEPT ![r] = [NoRow EXCEPT !.status = "gone"]]
        /\ ops < MaxOps /\ ops' = ops + 1
        /\ UNCHANGED <<exists, cps, writes, update, copy, last, spoiled>>
    BY DEF RunsDelete, Counted
  <1>2. ops' \in 0..MaxOps
    BY <1>1, Naturals DEF TableTypes
  <1> QED
    BY <1>1, <1>2, RemovedRow DEF TableTypes

\* Where there is a baseline its thread gets the tables it had.
Restored(r) ==
    /\ \A u \in Threads \ {ThreadOf[r]} : cps'[u] = cps[u] /\ writes'[u] = writes[u]
    /\ cps'[ThreadOf[r]] = IF run[r].base.at > 0 THEN run[r].base.cps ELSE cps[ThreadOf[r]]
    /\ writes'[ThreadOf[r]] = IF run[r].base.at > 0 THEN run[r].base.writes
                              ELSE writes[ThreadOf[r]]

\* A rollback, at once or once the worker has stopped.
Rollback(r) ==
    /\ RollbackAllowed(r) /\ RollbackRun(r)
    /\ UNCHANGED <<exists, update, copy, last, ops>>

LEMMA RollbackEffect ==
    ASSUME TableTypes, NEW r \in Runs, Rollback(r)
    PROVE  /\ TableTypes' /\ Removed(r) /\ Restored(r)
           /\ run[r].base.at > 0 => Newest(r) /\ \A c \in cps[ThreadOf[r]] :
                                                    c \in run[r].base.cps \/ c.by = r
           /\ ThreadOf[r] \in exists
           /\ spoiled' = (spoiled \/ (InUse(ThreadOf[r]) /\ cps' # cps))
  <1>t. PICK t \in Threads : t = ThreadOf[r]
    BY RowFields
  <1>1. /\ Lives(r) /\ t \in exists
        /\ run[r].base.at # 0 =>
              (\A c \in cps[t] : c \in run[r].base.cps \/ c.by = r) /\ Newest(r)
    BY <1>t DEF Rollback, RollbackAllowed
  <1>2. /\ cps' = [cps EXCEPT ![t] = IF run[r].base.at > 0 THEN run[r].base.cps ELSE @]
        /\ writes' = [writes EXCEPT ![t] = IF run[r].base.at > 0 THEN run[r].base.writes ELSE @]
        /\ run' = [run EXCEPT ![r] = [NoRow EXCEPT !.status = "gone"]]
        /\ spoiled' = (spoiled \/ (InUse(t) /\ cps' # cps))
        /\ UNCHANGED <<exists, update, copy, last, ops>>
    BY <1>t DEF Rollback, RollbackRun
  <1>3. PICK S \in SUBSET Checkpoint :
           S = IF run[r].base.at > 0 THEN run[r].base.cps ELSE cps[t]
    BY RowFields, TableFields
  <1>4. PICK W \in SUBSET Pending :
           W = IF run[r].base.at > 0 THEN run[r].base.writes ELSE writes[t]
    BY RowFields, TableFields
  <1>5. cps' = [cps EXCEPT ![t] = S] /\ writes' = [writes EXCEPT ![t] = W]
    BY <1>2, <1>3, <1>4 DEF TableTypes
  <1>6. /\ cps' \in [Threads -> SUBSET Checkpoint] /\ writes' \in [Threads -> SUBSET Pending]
        /\ Restored(r)
    <2>1. /\ cps' \in [Threads -> SUBSET Checkpoint] /\ cps'[t] = S
          /\ \A u \in Threads \ {t} : cps'[u] = cps[u]
      BY <1>5, CpsPut
    <2>2. /\ writes' \in [Threads -> SUBSET Pending] /\ writes'[t] = W
          /\ \A u \in Threads \ {t} : writes'[u] = writes[u]
      BY <1>5, WritesPut
    <2> QED
      BY <1>t, <1>3, <1>4, <2>1, <2>2 DEF Restored
  <1>7. run' \in [Runs -> Row] /\ Removed(r)
    BY <1>1, <1>2, RemovedRow
  <1>8. spoiled' \in BOOLEAN
    BY <1>2
  <1>9. run[r].base.at > 0 => run[r].base.at # 0
    BY RowFields, Naturals
  <1> QED
    BY <1>t, <1>1, <1>2, <1>6, <1>7, <1>8, <1>9 DEF TableTypes

LEMMA CopyFields ==
    ASSUME TableTypes
    PROVE  /\ copy.pc \in {"none", "list", "put", "done", "failed"}
           /\ copy.from \in Threads /\ copy.to \in Threads
           /\ copy.todo \in SUBSET Checkpoint /\ copy.left \in SUBSET Pending
           /\ update.thread \in Threads /\ update.parent \in -1..MaxId
  BY DEF TableTypes, Copy, Update

LEMMA OpsCounted ==
    ASSUME TableTypes, Counted
    PROVE  ops' \in 0..MaxOps
  BY Naturals DEF TableTypes, Counted

\* A state update writes its checkpoint while nobody runs on the thread, ...
UpdateWritten(ns) ==
    LET t == update.thread
    IN  /\ Wiped(t)
        /\ \A q \in Runs : ThreadOf[q] = t => run[q].status # "running"
        /\ update.parent \in 0..MaxId
        /\ last' = last + 1 /\ last + 1 \in 1..MaxId
        /\ \E c \in Checkpoint :
              /\ c.id = last + 1 /\ c.by = NoRun /\ c.parent = update.parent
              /\ cps'[t] = cps[t] \cup {c}
        /\ \A u \in Threads \ {t} : cps'[u] = cps[u]
        /\ UNCHANGED <<exists, writes, copy, spoiled>>

LEMMA UpdateWriteEffect ==
    ASSUME TableTypes, NEW ns \in Namespaces, NEW full \in BOOLEAN, UpdateWrite(ns, full)
    PROVE  /\ TableTypes' /\ update' = NoUpdate
           /\ \/ UpdateWritten(ns)
              \/ UNCHANGED <<exists, cps, writes, run, copy, last, spoiled>>
  <1>t. PICK t \in Threads : t = update.thread
    BY CopyFields
  <1>0. /\ update.parent >= 0 /\ update' = NoUpdate
        /\ UNCHANGED <<exists, writes, copy, ops, spoiled>>
    BY DEF UpdateWrite
  <1>1. CASE ~NoWriter(t)
    <2>1. UNCHANGED <<last, cps, run>>
      BY <1>t, <1>1 DEF UpdateWrite
    <2> QED
      BY <1>0, <2>1, Defaults DEF TableTypes
  <1>2. CASE NoWriter(t)
    <2> DEFINE c == [id |-> last + 1, ns |-> ns, parent |-> update.parent, full |-> full,
                     by |-> NoRun, gen |-> 0]
    <2>1. /\ last < MaxId /\ last' = last + 1
          /\ cps' = [cps EXCEPT ![t] = cps[t] \cup {c}]
          /\ run' = WithoutBaselines(t)
      BY <1>t, <1>2 DEF UpdateWrite, TableTypes
    <2>2. last + 1 \in 1..MaxId /\ last + 1 \in 0..MaxId
      BY <2>1, Naturals DEF TableTypes
    <2>3. update.parent \in 0..MaxId
      BY <1>0, CopyFields, Naturals
    <2>4. /\ c \in Checkpoint /\ c.id = last + 1 /\ c.by = NoRun /\ c.parent = update.parent
      BY <2>2, <2>3, Naturals DEF Checkpoint, Ids
    <2> HIDE DEF c
    <2>5. PICK S \in SUBSET Checkpoint : S = cps[t] \cup {c}
      BY <2>4, TableFields
    <2>6. cps' = [cps EXCEPT ![t] = S]
      BY <2>1, <2>5
    <2>7. /\ cps' \in [Threads -> SUBSET Checkpoint] /\ cps'[t] = S
          /\ \A u \in Threads \ {t} : cps'[u] = cps[u]
      BY <2>6, CpsPut
    <2>8. run' \in [Runs -> Row] /\ Wiped(t)
      BY <2>1, WipedRows
    <2>9. \A q \in Runs : ThreadOf[q] = t => run[q].status # "running"
      BY <1>2, NoWriterIdle DEF NoWriter
    <2>10. UpdateWritten(ns)
      BY <1>t, <1>0, <2>1, <2>2, <2>3, <2>4, <2>5, <2>7, <2>8, <2>9 DEF UpdateWritten
    <2>11. TableTypes'
      BY <1>0, <2>1, <2>2, <2>7, <2>8, Defaults DEF TableTypes
    <2> QED
      BY <1>0, <2>10, <2>11
  <1> QED
    BY <1>1, <1>2

LEMMA KeptSubset == ASSUME NEW S PROVE Kept(S) \subseteq S
  BY DEF Kept, Chain

LEMMA PruneEffect ==
    ASSUME TableTypes, NEW t \in Threads, Prune(t)
    PROVE  /\ TableTypes' /\ Wiped(t)
           /\ cps'[t] = Kept(cps[t]) /\ writes'[t] \subseteq writes[t]
           /\ \A u \in Threads \ {t} : cps'[u] = cps[u] /\ writes'[u] = writes[u]
           /\ spoiled' = (spoiled \/ (InUse(t) /\ Kept(cps[t]) # cps[t]))
           /\ UNCHANGED <<exists, update, copy, last>>
  <1>1. PICK S \in SUBSET Checkpoint : S = Kept(cps[t])
    BY KeptSubset, TableFields
  <1>2. PICK W \in SUBSET Pending : W = {w \in writes[t] : w.id \in IdsOf(Kept(cps[t]))}
    BY TableFields
  <1>3. /\ cps' = [cps EXCEPT ![t] = S] /\ writes' = [writes EXCEPT ![t] = W]
        /\ run' = WithoutBaselines(t) /\ Counted
        /\ spoiled' = (spoiled \/ (InUse(t) /\ Kept(cps[t]) # cps[t]))
        /\ UNCHANGED <<exists, update, copy, last>>
    BY <1>1, <1>2 DEF Prune, TableTypes
  <1>4. /\ cps' \in [Threads -> SUBSET Checkpoint] /\ cps'[t] = S
        /\ \A u \in Threads \ {t} : cps'[u] = cps[u]
    BY <1>3, CpsPut
  <1>5. /\ writes' \in [Threads -> SUBSET Pending] /\ writes'[t] = W
        /\ \A u \in Threads \ {t} : writes'[u] = writes[u]
    BY <1>3, WritesPut
  <1>6. run' \in [Runs -> Row] /\ Wiped(t)
    BY <1>3, WipedRows
  <1>7. ops' \in 0..MaxOps
    BY <1>3, OpsCounted
  <1>8. spoiled' \in BOOLEAN
    BY <1>3
  <1>9. TableTypes'
    BY <1>3, <1>4, <1>5, <1>6, <1>7, <1>8 DEF TableTypes
  <1> QED
    BY <1>1, <1>2, <1>3, <1>4, <1>5, <1>6, <1>9

LEMMA ThreadsDeleteEffect ==
    ASSUME TableTypes, NEW t \in Threads, ThreadsDelete(t)
    PROVE  /\ TableTypes' /\ Wiped(t) /\ exists' = exists \ {t}
           /\ UNCHANGED <<cps, writes, update, copy, last, spoiled>>
  <1>1. /\ exists' = exists \ {t} /\ run' = WithoutBaselines(t) /\ Counted
        /\ UNCHANGED <<cps, writes, update, copy, last, spoiled>>
    BY DEF ThreadsDelete
  <1>2. run' \in [Runs -> Row] /\ Wiped(t)
    BY <1>1, WipedRows
  <1>3. ops' \in 0..MaxOps
    BY <1>1, OpsCounted
  <1> QED
    BY <1>1, <1>2, <1>3 DEF TableTypes

LEMMA DeleteCheckpointsEffect ==
    ASSUME TableTypes, NEW t \in Threads, DeleteCheckpoints(t)
    PROVE  /\ TableTypes' /\ t \notin exists /\ (copy.to = t => copy.pc # "put")
           /\ cps'[t] = {} /\ writes'[t] = {}
           /\ \A u \in Threads \ {t} : cps'[u] = cps[u] /\ writes'[u] = writes[u]
           /\ spoiled' = (spoiled \/ InUse(t))
           /\ UNCHANGED <<exists, run, update, copy, last>>
  <1>1. /\ t \notin exists /\ (copy.to = t => copy.pc # "put")
        /\ cps' = [cps EXCEPT ![t] = {}] /\ writes' = [writes EXCEPT ![t] = {}]
        /\ spoiled' = (spoiled \/ InUse(t))
        /\ UNCHANGED <<exists, run, update, copy, last, ops>>
    BY DEF DeleteCheckpoints
  <1>2. /\ cps' \in [Threads -> SUBSET Checkpoint] /\ cps'[t] = {}
        /\ \A u \in Threads \ {t} : cps'[u] = cps[u]
    BY <1>1 DEF TableTypes
  <1>3. /\ writes' \in [Threads -> SUBSET Pending] /\ writes'[t] = {}
        /\ \A u \in Threads \ {t} : writes'[u] = writes[u]
    BY <1>1 DEF TableTypes
  <1>4. spoiled' \in BOOLEAN
    BY <1>1
  <1>5. TableTypes'
    BY <1>1, <1>2, <1>3, <1>4 DEF TableTypes
  <1> QED
    BY <1>1, <1>2, <1>3, <1>5

LEMMA CopyPutEffect ==
    ASSUME TableTypes, CopyPut
    PROVE  /\ TableTypes' /\ Wiped(copy.to) /\ copy.pc = "put"
           /\ \E c \in copy.todo :
                 /\ NextRow(c)
                 /\ cps'[copy.to] = cps[copy.to] \cup {c}
                 /\ copy'.todo = copy.todo \ {c}
           /\ \A u \in Threads \ {copy.to} : cps'[u] = cps[u]
           /\ copy'.pc = copy.pc /\ copy'.to = copy.to /\ copy'.left = copy.left
           /\ UNCHANGED <<exists, writes, update, last, spoiled>>
  <1>0. PICK t \in Threads : t = copy.to
    BY CopyFields
  <1>1. PICK c \in copy.todo :
           /\ NextRow(c)
           /\ cps' = [cps EXCEPT ![t] = @ \cup {c}]
           /\ copy' = [copy EXCEPT !.todo = @ \ {c}]
    BY <1>0 DEF CopyPut
  <1>2. /\ copy.pc = "put" /\ run' = WithoutBaselines(t)
        /\ UNCHANGED <<exists, writes, update, last, ops, spoiled>>
    BY <1>0 DEF CopyPut
  <1>3. PICK S \in SUBSET Checkpoint : S = cps[t] \cup {c}
    BY CopyFields, TableFields
  <1>4. cps' = [cps EXCEPT ![t] = S]
    BY <1>1, <1>3 DEF TableTypes
  <1>5. /\ cps' \in [Threads -> SUBSET Checkpoint] /\ cps'[t] = S
        /\ \A u \in Threads \ {t} : cps'[u] = cps[u]
    BY <1>4, CpsPut
  <1>6. run' \in [Runs -> Row] /\ Wiped(t)
    BY <1>2, WipedRows
  <1>7. /\ copy' \in Copy /\ copy'.todo = copy.todo \ {c}
        /\ copy'.pc = copy.pc /\ copy'.to = copy.to /\ copy'.left = copy.left
    BY <1>1 DEF TableTypes, Copy
  <1>8. TableTypes'
    BY <1>2, <1>5, <1>6, <1>7 DEF TableTypes
  <1> QED
    BY <1>0, <1>1, <1>2, <1>3, <1>5, <1>6, <1>7, <1>8

LEMMA CopyWriteEffect ==
    ASSUME TableTypes, CopyWrite
    PROVE  /\ TableTypes' /\ Wiped(copy.to)
           /\ \E w \in copy.left : writes'[copy.to] = writes[copy.to] \cup {w}
           /\ \A u \in Threads \ {copy.to} : writes'[u] = writes[u]
           /\ copy'.left \subseteq copy.left
           /\ copy.pc = "put" /\ copy'.pc = "put" /\ copy'.to = copy.to
           /\ copy'.todo = copy.todo
           /\ UNCHANGED <<exists, cps, update, last, spoiled>>
  <1>0. PICK t \in Threads : t = copy.to
    BY CopyFields
  <1>1. PICK w \in copy.left :
           /\ writes' = [writes EXCEPT ![t] = @ \cup {w}]
           /\ copy' = [copy EXCEPT !.left = @ \ {w}]
    BY <1>0 DEF CopyWrite, Due
  <1>2. /\ copy.pc = "put" /\ run' = WithoutBaselines(t)
        /\ UNCHANGED <<exists, cps, update, last, ops, spoiled>>
    BY <1>0 DEF CopyWrite
  <1>3. PICK W \in SUBSET Pending : W = writes[t] \cup {w}
    BY CopyFields, TableFields
  <1>4. writes' = [writes EXCEPT ![t] = W]
    BY <1>1, <1>3 DEF TableTypes
  <1>5. /\ writes' \in [Threads -> SUBSET Pending] /\ writes'[t] = W
        /\ \A u \in Threads \ {t} : writes'[u] = writes[u]
    BY <1>4, WritesPut
  <1>6. run' \in [Runs -> Row] /\ Wiped(t)
    BY <1>2, WipedRows
  <1>7. /\ copy' \in Copy /\ copy'.todo = copy.todo /\ copy'.left \subseteq copy.left
        /\ copy'.pc = copy.pc /\ copy'.to = copy.to
    BY <1>1 DEF TableTypes, Copy
  <1>8. TableTypes'
    BY <1>2, <1>5, <1>6, <1>7 DEF TableTypes
  <1> QED
    BY <1>0, <1>1, <1>2, <1>3, <1>5, <1>6, <1>7, <1>8

LEMMA CopyFailsEffect ==
    ASSUME TableTypes, NEW dead \in BOOLEAN, CopyFails(dead)
    PROVE  /\ TableTypes' /\ copy.pc \in {"list", "put"}
           /\ copy'.pc = "failed" /\ copy'.to = copy.to /\ copy'.todo = {} /\ copy'.left = {}
           /\ \/ UNCHANGED <<exists, run>>
              \/ exists' = exists \ {copy.to} /\ Wiped(copy.to)
           /\ UNCHANGED <<cps, writes, update, last, spoiled>>
  <1>0. PICK t \in Threads : t = copy.to
    BY CopyFields
  <1>1. /\ copy.pc \in {"list", "put"}
        /\ copy' = [NoCopy EXCEPT !.pc = "failed", !.to = t]
        /\ exists' = IF dead THEN exists ELSE exists \ {t}
        /\ run' = IF dead THEN run ELSE WithoutBaselines(t)
        /\ UNCHANGED <<cps, writes, update, last, ops, spoiled>>
    BY <1>0 DEF CopyFails
  <1>2. /\ copy' \in Copy /\ copy'.pc = "failed" /\ copy'.to = t
        /\ copy'.todo = {} /\ copy'.left = {}
    BY <1>1, CheckpointConstants DEF NoCopy, Copy
  <1>3. CASE dead
    BY <1>0, <1>1, <1>2, <1>3 DEF TableTypes
  <1>4. CASE ~dead
    <2>1. run' \in [Runs -> Row] /\ Wiped(t)
      BY <1>1, <1>4, WipedRows
    <2>2. TableTypes'
      BY <1>1, <1>2, <1>4, <2>1 DEF TableTypes
    <2> QED
      BY <1>0, <1>1, <1>2, <1>4, <2>1, <2>2
  <1> QED
    BY <1>3, <1>4

\* The steps of updates and copies that touch neither runs nor tables.
LEMMA UpdateReadEffect ==
    ASSUME TableTypes, NEW t \in Threads, NEW c \in 0..MaxId, UpdateRead(t, c)
    PROVE  /\ TableTypes'
           /\ update'.thread = t /\ update'.parent = c
           /\ c = 0 \/ \E d \in cps[t] : d.id = c
           /\ UNCHANGED <<exists, cps, writes, run, copy, last, spoiled>>
  <1>1. /\ update' = [thread |-> t, parent |-> c] /\ Counted
        /\ c \in {HeadId(cps[t], ns) : ns \in Namespaces} \cup IdsOf(cps[t])
        /\ UNCHANGED <<exists, cps, writes, run, copy, last, spoiled>>
    BY DEF UpdateRead
  <1>2. update' \in Update /\ update'.thread = t /\ update'.parent = c
    BY <1>1, Naturals DEF Update
  <1>3. ops' \in 0..MaxOps
    BY <1>1, OpsCounted
  <1>4. c = 0 \/ \E d \in cps[t] : d.id = c
    <2>1. CASE c \in IdsOf(cps[t])
      BY <2>1 DEF IdsOf
    <2>2. ASSUME NEW ns \in Namespaces, c = HeadId(cps[t], ns)
          PROVE  c = 0 \/ \E d \in cps[t] : d.id = c
      BY <2>2, TableFields, HeadFacts, Naturals
    <2> QED
      BY <1>1, <2>1, <2>2
  <1> QED
    BY <1>1, <1>2, <1>3, <1>4 DEF TableTypes

LEMMA CopyStartEffect ==
    ASSUME TableTypes, NEW t \in Threads, NEW u \in Threads, CopyStart(t, u)
    PROVE  /\ TableTypes' /\ copy.pc = "none" /\ exists' = exists \cup {u}
           /\ copy'.pc = "list" /\ copy'.to # copy'.from /\ copy'.todo = {} /\ copy'.left = {}
           /\ UNCHANGED <<cps, writes, run, update, last, spoiled>>
  <1>1. /\ copy.pc = "none" /\ t # u /\ exists' = exists \cup {u} /\ Counted
        /\ copy' = [NoCopy EXCEPT !.pc = "list", !.from = t, !.to = u]
        /\ UNCHANGED <<cps, writes, run, update, last, spoiled>>
    BY DEF CopyStart
  <1>2. /\ copy' \in Copy /\ copy'.pc = "list" /\ copy'.to = u /\ copy'.from = t
        /\ copy'.todo = {} /\ copy'.left = {}
    BY <1>1, CheckpointConstants DEF NoCopy, Copy
  <1>3. ops' \in 0..MaxOps
    BY <1>1, OpsCounted
  <1> QED
    BY <1>1, <1>2, <1>3 DEF TableTypes

LEMMA CopyListEffect ==
    ASSUME TableTypes, CopyList
    PROVE  /\ TableTypes' /\ copy.pc = "list"
           /\ copy'.pc = "put" /\ copy'.to = copy.to
           /\ copy'.todo = cps[copy.from] /\ copy'.left = writes[copy.from]
           /\ UNCHANGED <<exists, cps, writes, run, update, last, spoiled>>
  <1>1. /\ copy.pc = "list"
        /\ copy' = [copy EXCEPT !.pc = "put", !.todo = cps[copy.from],
                                !.left = writes[copy.from]]
        /\ UNCHANGED <<exists, cps, writes, run, update, last, ops, spoiled>>
    BY DEF CopyList
  <1>2. cps[copy.from] \in SUBSET Checkpoint /\ writes[copy.from] \in SUBSET Pending
    BY CopyFields, TableFields
  <1>3. /\ copy' \in Copy /\ copy'.pc = "put" /\ copy'.to = copy.to
        /\ copy'.todo = cps[copy.from] /\ copy'.left = writes[copy.from]
    BY <1>1, <1>2 DEF TableTypes, Copy
  <1> QED
    BY <1>1, <1>3 DEF TableTypes

LEMMA CopyDoneEffect ==
    ASSUME TableTypes, CopyDone
    PROVE  /\ TableTypes' /\ copy.pc = "put" /\ copy'.pc = "done" /\ copy'.to = copy.to
           /\ copy'.todo = copy.todo /\ copy'.left = copy.left
           /\ UNCHANGED <<exists, cps, writes, run, update, last, spoiled>>
  <1>1. /\ copy.pc = "put" /\ copy' = [copy EXCEPT !.pc = "done"]
        /\ UNCHANGED <<exists, cps, writes, run, update, last, ops, spoiled>>
    BY DEF CopyDone
  <1>2. /\ copy' \in Copy /\ copy'.pc = "done" /\ copy'.to = copy.to
        /\ copy'.todo = copy.todo /\ copy'.left = copy.left
    BY <1>1 DEF TableTypes, Copy
  <1> QED
    BY <1>1, <1>2 DEF TableTypes

-----------------------------------------------------------------------------
(* Baselines: what the rows of the runs say *)

LEMMA LifeRuns ==
    ASSUME TableTypes, TableTypes', RunsInv, NEW r \in Runs, Life(r)
    PROVE  RunsInv'
  <1>1. /\ run[r].status # "gone"
        /\ run'[r].status \in {"pending", "running", "stopped"}
        /\ run'[r].status = "running" => run[r].status = "running"
        /\ run'[r].live => run'[r].status = "running"
        /\ \A q \in Runs : /\ run'[q].gen = run[q].gen /\ run'[q].base = run[q].base
                           /\ q # r => run'[q] = run[q]
    BY DEF Life
  <1>2. \A t : Captures(t)' = Captures(t)
    BY <1>1 DEF Captures
  <1>3. RowInv'
    BY <1>1 DEF RunsInv, RowInv
  <1>4. OneRunning'
    BY <1>1 DEF RunsInv, OneRunning, Together
  <1>5. Latest'
    BY <1>1 DEF RunsInv, Latest, Together, Retried
  <1>6. Nested'
    BY <1>1 DEF RunsInv, Nested, Together
  <1>7. CaptureInv'
    BY <1>1, <1>2 DEF RunsInv, CaptureInv
  <1> QED
    BY <1>3, <1>4, <1>5, <1>6, <1>7 DEF RunsInv

LEMMA RemovedRuns ==
    ASSUME TableTypes, TableTypes', RunsInv, NEW r \in Runs, Removed(r)
    PROVE  RunsInv'
  <1>1. /\ run'[r].status = "gone" /\ run'[r].gen = 0 /\ run'[r].base.at = 0
        /\ ~run'[r].live
        /\ \A q \in Runs : q # r => run'[q] = run[q]
    BY DEF Removed
  <1>2. ASSUME NEW t
        PROVE  Cardinality(Captures(t)) <= Cardinality(Captures(t)')
    <2>1. Captures(t) \in SUBSET (Captures(t)')
      BY <1>1 DEF Captures
    <2>2. IsFiniteSet(Captures(t)')
      <3>1. Captures(t)' \in SUBSET Runs
        BY DEF Captures
      <3> QED
        BY <3>1, RunsFinite, FS_Subset
    <2> QED
      BY <2>1, <2>2, FS_Subset
  <1>3. RowInv'
    BY <1>1 DEF RunsInv, RowInv
  <1>4. OneRunning'
    BY <1>1 DEF RunsInv, OneRunning, Together
  <1>5. Latest'
    BY <1>1 DEF RunsInv, Latest, Together, Retried
  <1>6. Nested'
    <2> SUFFICES ASSUME NEW q \in Runs, NEW p \in Runs, Together(q, p),
                        run'[p].base.at > 0, run'[p].base.at < run'[q].base.at
                 PROVE  /\ run'[p].base.cps \subseteq run'[q].base.cps
                        /\ run'[p].base.writes \subseteq run'[q].base.writes
      BY DEF Nested, Together
    <2>1. run'[p].base.at \in Nat
      BY Naturals DEF TableTypes, Row, Baseline
    <2>2. p # r /\ q # r
      BY <1>1, <2>1
    <2> QED
      BY <1>1, <2>2 DEF RunsInv, Nested
  <1>7. CaptureInv'
    <2> SUFFICES ASSUME NEW q \in Runs
                 PROVE  run'[q].base.at <= Cardinality(Captures(ThreadOf[q])')
      BY DEF CaptureInv
    <2>1. run[q].base.at <= Cardinality(Captures(ThreadOf[q])) /\ run[q].base.at \in Nat
      BY RowFields, Naturals DEF RunsInv, CaptureInv
    <2>2. PICK m : m = Cardinality(Captures(ThreadOf[q])) /\ m \in Nat
      BY CapturesCount
    <2>3. Cardinality(Captures(ThreadOf[q])') \in Nat
      <3>1. Captures(ThreadOf[q])' \in SUBSET Runs
        BY DEF Captures
      <3> QED
        BY <3>1, RunsFinite, FS_Subset, FS_CardinalityType
    <2>4. PICK n : n = Cardinality(Captures(ThreadOf[q])') /\ n \in Nat /\ m <= n
      BY <1>2, <2>2, <2>3
    <2>5. run'[q].base.at <= m
      BY <1>1, <2>1, <2>2
    <2>6. run'[q].base.at \in Nat
      BY <1>1, <2>1
    <2> QED
      BY <2>2, <2>4, <2>5, <2>6
  <1> QED
    BY <1>3, <1>4, <1>5, <1>6, <1>7 DEF RunsInv

LEMMA WipedRuns ==
    ASSUME TableTypes, TableTypes', RunsInv, NEW t \in Threads, Wiped(t)
    PROVE  RunsInv'
  <1>1. \A r \in Runs :
           /\ run'[r].status = run[r].status /\ run'[r].gen = run[r].gen
           /\ run'[r].live = run[r].live
           /\ ThreadOf[r] = t => run'[r].base.at = 0
           /\ ThreadOf[r] # t => run'[r].base = run[r].base
    BY Defaults DEF Wiped
  <1>2. RowInv'
    BY <1>1 DEF RunsInv, RowInv
  <1>3. OneRunning'
    BY <1>1 DEF RunsInv, OneRunning, Together
  <1>4. Latest'
    BY <1>1 DEF RunsInv, Latest, Together, Retried
  <1>5. Nested'
    BY <1>1 DEF RunsInv, Nested, Together
  <1>6. ASSUME NEW q \in Runs
        PROVE  run'[q].base.at <= Cardinality(Captures(ThreadOf[q])')
    <2>1. CASE ThreadOf[q] = t
      <3>1. Captures(ThreadOf[q])' \in SUBSET Runs
        BY DEF Captures
      <3>2. Cardinality(Captures(ThreadOf[q])') \in Nat
        BY <3>1, RunsFinite, FS_Subset, FS_CardinalityType
      <3> QED
        BY <1>1, <2>1, <3>2
    <2>2. CASE ThreadOf[q] # t
      <3>1. Captures(ThreadOf[q])' = Captures(ThreadOf[q])
        BY <1>1, <2>2 DEF Captures
      <3> QED
        BY <1>1, <2>2, <3>1 DEF RunsInv, CaptureInv
    <2> QED
      BY <2>1, <2>2
  <1>7. CaptureInv'
    BY <1>6 DEF CaptureInv
  <1> QED
    BY <1>2, <1>3, <1>4, <1>5, <1>7 DEF RunsInv

\* What a claim does to the other runs' view.
LEMMA ClaimRuns ==
    ASSUME TableTypes, TableTypes', RunsInv, BaseInv, NEW r \in Runs, Claim(r)
    PROVE  RunsInv'
  <1>1. /\ run[r].status = "pending" /\ run'[r].status = "running"
        /\ run[r].gen < MaxGen /\ run'[r].gen = run[r].gen + 1
        /\ run'[r].base = Captured(r)
        /\ \A q \in Runs \ {r} : run'[q] = run[q]
        /\ \A q \in Runs : ThreadOf[q] = ThreadOf[r] => run[q].status # "running"
    BY ClaimEffect DEF RunsInv
  <1>2. PICK b \in Baseline :
           /\ run'[r].base = b
           /\ run[r].base.at > 0 => b = run[r].base
           /\ run[r].base.at = 0 =>
                 /\ b.at > 0 /\ b.gen = run[r].gen + 1
                 /\ b.at <= Cardinality(Captures(ThreadOf[r])) + 1
                 /\ b.cps = cps[ThreadOf[r]] /\ b.writes = writes[ThreadOf[r]]
                 /\ \A q \in Runs : ThreadOf[q] = ThreadOf[r] => run[q].base.at < b.at
    BY <1>1, CapturedFacts DEF RunsInv
  <1>3. /\ run[r].base.at \in Nat /\ run[r].gen \in Nat /\ b.at \in Nat
        /\ run[r].base.at = 0 \/ run[r].base.at > 0
    BY RowFields, Naturals DEF Baseline
  <1>4. RowInv'
    <2>1. run'[r].base.at > 0 => run'[r].base.gen \in 1..run'[r].gen
      <3>1. CASE run[r].base.at > 0
        <4>1. run[r].base.gen \in 1..run[r].gen
          BY <3>1 DEF RunsInv, RowInv
        <4> QED
          BY <1>1, <1>2, <1>3, <3>1, <4>1
      <3>2. CASE run[r].base.at = 0
        BY <1>1, <1>2, <1>3, <3>2
      <3> QED
        BY <1>3, <3>1, <3>2
    <2> QED
      BY <1>1, <2>1 DEF RunsInv, RowInv
  <1>5. OneRunning'
    BY <1>1 DEF RunsInv, OneRunning, Together
  <1>6. Latest'
    <2> SUFFICES ASSUME NEW q \in Runs, NEW p \in Runs, Together(q, p),
                        run'[q].status = "running", run'[p].base.at > 0
                 PROVE  Retried(q)' \/ run'[q].base.at > run'[p].base.at
      BY DEF Latest, Together
    <2>1. CASE q = r /\ p # r
      <3>1. CASE run[r].base.at > 0
        <4>1. run[r].base.gen \in 1..run[r].gen
          BY <3>1 DEF RunsInv, RowInv
        <4>2. run'[r].base.gen < run'[r].gen
          BY <1>1, <1>2, <1>3, <3>1, <4>1
        <4> QED
          BY <1>2, <2>1, <3>1, <4>2 DEF Retried
      <3>2. CASE run[r].base.at = 0
        BY <1>1, <1>2, <2>1, <3>2 DEF Together
      <3> QED
        BY <1>3, <3>1, <3>2
    <2>2. CASE q # r
      <3>1. run[q].status = "running" /\ p # r
        BY <1>1, <2>2 DEF Together
      <3> QED
        BY <1>1, <2>2, <3>1 DEF RunsInv, Latest, Retried
    <2> QED
      BY <2>1, <2>2 DEF Together
  <1>7. CASE run[r].base.at > 0
    <2>1. \A q \in Runs : run'[q].base = run[q].base
      BY <1>1, <1>2, <1>7
    <2>2. \A t : Captures(t)' = Captures(t)
      BY <1>1, <2>1 DEF Captures
    <2>3. Nested' /\ CaptureInv'
      BY <2>1, <2>2 DEF RunsInv, Nested, CaptureInv, Together
    <2> QED
      BY <1>4, <1>5, <1>6, <2>3 DEF RunsInv
  <1>8. CASE run[r].base.at = 0
    <2>1. Nested'
      <3> SUFFICES ASSUME NEW q \in Runs, NEW p \in Runs, Together(q, p),
                          run'[p].base.at > 0, run'[p].base.at < run'[q].base.at
                   PROVE  /\ run'[p].base.cps \subseteq run'[q].base.cps
                          /\ run'[p].base.writes \subseteq run'[q].base.writes
        BY DEF Nested, Together
      <3>0. \A x \in Runs : run[x].base.at \in Nat
        BY RowFields, Naturals
      <3>1. CASE q = r
        <4>1. p # r /\ run'[p] = run[p] /\ ThreadOf[p] = ThreadOf[r]
          BY <1>1, <3>1 DEF Together
        <4>2. /\ run[p].base.cps \subseteq cps[ThreadOf[r]]
              /\ run[p].base.writes \subseteq writes[ThreadOf[r]]
          BY <4>1 DEF BaseInv
        <4> QED
          BY <1>2, <1>8, <3>1, <4>1, <4>2
      <3>2. CASE p = r
        <4>1. run'[q] = run[q] /\ run[q].base.at < b.at
          BY <1>1, <1>2, <1>8, <3>2 DEF Together
        <4> QED
          BY <1>2, <1>3, <3>0, <3>2, <4>1
      <3>3. CASE p # r /\ q # r
        BY <1>1, <3>3 DEF RunsInv, Nested
      <3> QED
        BY <3>1, <3>2, <3>3
    <2>2. r \notin Captures(ThreadOf[r]) /\ b.at > 0
      BY <1>1, <1>2, <1>8 DEF Captures
    <2>3. Captures(ThreadOf[r])' = Captures(ThreadOf[r]) \cup {r}
      BY <1>1, <1>2, <2>2 DEF Captures
    <2>4. \A t : t # ThreadOf[r] => Captures(t)' = Captures(t)
      BY <1>1 DEF Captures
    <2>5. ASSUME NEW q \in Runs
          PROVE  run'[q].base.at <= Cardinality(Captures(ThreadOf[q])')
      <3>1. CASE ThreadOf[q] # ThreadOf[r]
        BY <1>1, <2>4, <3>1 DEF RunsInv, CaptureInv
      <3>2. CASE ThreadOf[q] = ThreadOf[r]
        <4>1. PICK m \in Nat : m = Cardinality(Captures(ThreadOf[r]))
          BY CapturesCount
        <4>2. Cardinality(Captures(ThreadOf[q])') = m + 1
          BY <2>2, <2>3, <3>2, <4>1, CapturesCount
        <4>3. run[q].base.at <= m /\ run[q].base.at \in Nat
          BY <3>2, <4>1, RowFields, Naturals DEF RunsInv, CaptureInv
        <4>4. run'[q].base.at <= m + 1
          <5>1. CASE q = r
            BY <1>2, <1>8, <4>1, <5>1
          <5>2. CASE q # r
            BY <1>1, <4>1, <4>3, <5>2
          <5> QED
            BY <5>1, <5>2
        <4> QED
          BY <4>2, <4>4
      <3> QED
        BY <3>1, <3>2
    <2>6. CaptureInv'
      BY <2>5 DEF CaptureInv
    <2> QED
      BY <1>4, <1>5, <1>6, <2>1, <2>6 DEF RunsInv
  <1> QED
    BY <1>3, <1>7, <1>8

-----------------------------------------------------------------------------
(* Baselines: what the tables have *)

LEMMA Writers ==
    ASSUME TableTypes, NEW t \in Threads
    PROVE  /\ \A w \in writes[t] : w \in Pending /\ w.by \in Runs
           /\ \A c \in cps[t] : c \in Checkpoint /\ c.by \in Runs \cup {NoRun}
           /\ \A w \in copy.left : w \in Pending /\ w.by \in Runs
           /\ \A c \in copy.todo : c \in Checkpoint /\ c.by \in Runs \cup {NoRun}
           /\ \A r \in Runs : \A c \in run[r].base.cps : c.by \in Runs \cup {NoRun}
           /\ \A r \in Runs : \A w \in run[r].base.writes : w.by \in Runs
  BY TableFields, CopyFields, RowFields DEF Pending, Checkpoint

LEMMA LifeTables ==
    ASSUME TableTypes, RunsInv, TablesInv, NEW r \in Runs, Life(r)
    PROVE  TablesInv'
  <1>1. /\ run[r].status # "gone"
        /\ run'[r].status \in {"pending", "running", "stopped"}
        /\ \A q \in Runs : /\ run'[q].gen = run[q].gen /\ run'[q].base = run[q].base
                           /\ q # r => run'[q] = run[q]
        /\ UNCHANGED <<exists, cps, writes, copy>>
    BY DEF Life, Tables
  <1>2. ASSUME NEW q \in Runs, run[q].status # "gone" \/ run'[q].status # "gone"
        PROVE  run[q].status # "gone" /\ run'[q].gen = run[q].gen
    BY <1>1, <1>2
  <1>3. WrittenInv'
    <2>1. \A c \in Checkpoint : WrittenCp(c) => WrittenCp(c)'
      BY <1>1, <1>2 DEF WrittenCp, Checkpoint
    <2>2. \A w \in Pending : WrittenWrite(w) => WrittenWrite(w)'
      BY <1>1, <1>2 DEF WrittenWrite, Pending
    <2> QED
      BY <1>1, <2>1, <2>2, Writers, CopyFields DEF TablesInv, WrittenInv
  <1>4. ASSUME NEW q \in Runs, NEW w \in writes[ThreadOf[q]], Excused(q, w)
        PROVE  Excused(q, w)'
    <2>1. w.by \in Runs /\ WrittenWrite(w)
      BY RowFields, Writers DEF TablesInv, WrittenInv
    <2>2. CASE w.by = r /\ ~Lives(r)
      <3>1. run[r].status = "none"
        BY <1>1, <2>2, RowFields DEF Lives
      <3>2. run[r].gen = 0 /\ run[r].gen >= 1
        BY <1>1, <2>1, <2>2, <3>1 DEF RunsInv, RowInv, WrittenWrite
      <3> QED
        BY <3>2
    <2>3. CASE w.by # r \/ Lives(r)
      BY <1>1, <1>4, <2>1, <2>3 DEF Excused, Lives, Retried
    <2> QED
      BY <2>2, <2>3
  <1>5. BaseInv'
    BY <1>1, <1>4 DEF TablesInv, BaseInv
  <1> QED
    BY <1>3, <1>5 DEF TablesInv

LEMMA ClaimTables ==
    ASSUME TableTypes, RunsInv, TablesInv, NEW r \in Runs, Claim(r)
    PROVE  TablesInv'
  <1>1. /\ run[r].status = "pending" /\ run'[r].status = "running"
        /\ run[r].gen < MaxGen /\ run'[r].gen = run[r].gen + 1
        /\ run'[r].base = Captured(r) /\ ThreadOf[r] \in exists
        /\ \A q \in Runs \ {r} : run'[q] = run[q]
        /\ UNCHANGED <<exists, cps, writes, copy>>
    BY ClaimEffect DEF RunsInv, Tables
  <1>2. PICK b \in Baseline :
           /\ run'[r].base = b
           /\ run[r].base.at > 0 => b = run[r].base
           /\ run[r].base.at = 0 =>
                 /\ b.at > 0 /\ b.gen = run[r].gen + 1
                 /\ b.cps = cps[ThreadOf[r]] /\ b.writes = writes[ThreadOf[r]]
    BY <1>1, CapturedFacts DEF RunsInv
  <1>3. \A q \in Runs : run[q].gen \in Nat /\ run[q].base.at \in Nat /\ run[q].base.gen \in Nat
    BY RowFields, Naturals
  <1>4. WrittenInv'
    <2>1. \A q \in Runs : run'[q].gen >= run[q].gen /\ run'[q].gen \in Nat
                          /\ (run'[q].status # "gone" => run[q].status # "gone")
      BY <1>1, <1>3
    <2>2. \A c \in Checkpoint : WrittenCp(c) => WrittenCp(c)'
      BY <1>3, <2>1 DEF WrittenCp, Checkpoint
    <2>3. \A w \in Pending : WrittenWrite(w) => WrittenWrite(w)'
      BY <1>3, <2>1 DEF WrittenWrite, Pending
    <2> QED
      BY <1>1, <2>2, <2>3, Writers, CopyFields DEF TablesInv, WrittenInv
  <1>5. ASSUME NEW q \in Runs, NEW w \in writes[ThreadOf[q]], Excused(q, w), run[q].base.at > 0
        PROVE  Excused(q, w)'
    <2>1. w.by \in Runs
      BY RowFields, Writers
    <2>2. \A p \in Runs : Lives(p)' <=> Lives(p)
      BY <1>1 DEF Lives
    <2>3. \A p \in Runs : Retried(p) => Retried(p)'
      BY <1>1, <1>2, <1>3 DEF Retried
    <2>4. \A p \in Runs : run[p].base.at > 0 => run'[p].base = run[p].base
      BY <1>1, <1>2
    <2>5. ASSUME run[w.by].base.at > run[q].base.at
          PROVE  run'[w.by].base.at > run'[q].base.at
      BY <1>3, <1>5, <2>1, <2>4, <2>5
    <2> QED
      BY <1>5, <2>1, <2>2, <2>3, <2>5 DEF Excused
  <1>6. ASSUME NEW q \in Runs, run'[q].base.at > 0
        PROVE  /\ ThreadOf[q] \in exists
               /\ run'[q].base.cps \subseteq cps[ThreadOf[q]]
               /\ run'[q].base.writes \subseteq writes[ThreadOf[q]]
               /\ \A w \in writes[ThreadOf[q]] \ run'[q].base.writes : Excused(q, w)'
               /\ run'[q].base.gen = 1 =>
                     \A c \in run'[q].base.cps \cup run'[q].base.writes : c.by # q
    <2>1. CASE run[q].base.at > 0
      <3>1. run'[q].base = run[q].base
        BY <1>1, <1>2, <2>1
      <3> QED
        BY <1>5, <2>1, <3>1 DEF TablesInv, BaseInv
    <2>2. CASE ~(run[q].base.at > 0)
      <3>1. q = r /\ run[r].base.at = 0
        BY <1>1, <1>3, <1>6, <2>2
      <3>2. /\ run'[r].base.gen = run[r].gen + 1
            /\ run'[r].base.cps = cps[ThreadOf[r]] /\ run'[r].base.writes = writes[ThreadOf[r]]
        BY <1>2, <3>1
      <3>3. ASSUME run'[r].base.gen = 1
            PROVE  \A c \in cps[ThreadOf[r]] \cup writes[ThreadOf[r]] : c.by # r
        <4>1. run[r].gen = 0
          BY <1>3, <3>2, <3>3
        <4>2. \A c \in cps[ThreadOf[r]] : c.by # r
          <5> SUFFICES ASSUME NEW c \in cps[ThreadOf[r]], c.by = r PROVE FALSE
            OBVIOUS
          <5>1. c.gen \in 1..run[r].gen
            BY <1>1, RowFields, CheckpointConstants DEF TablesInv, WrittenInv, WrittenCp
          <5> QED
            BY <4>1, <5>1
        <4>3. \A w \in writes[ThreadOf[r]] : w.by # r
          BY <1>1, <4>1, RowFields DEF TablesInv, WrittenInv, WrittenWrite
        <4> QED
          BY <4>2, <4>3
      <3> QED
        BY <1>1, <3>1, <3>2, <3>3
    <2> QED
      BY <2>1, <2>2
  <1>7. BaseInv'
    BY <1>1, <1>6 DEF BaseInv
  <1> QED
    BY <1>4, <1>7 DEF TablesInv

\* A run goes; the tables of its thread keep what the other baselines have.
LEMMA RemovedTables ==
    ASSUME TableTypes, RunsInv, TablesInv, NEW r \in Runs, Removed(r),
           \A u \in Threads : cps'[u] \subseteq cps[u] /\ writes'[u] \subseteq writes[u],
           \A q \in Runs \ {r} : run[q].base.at > 0 =>
              /\ run[q].base.cps \subseteq cps'[ThreadOf[q]]
              /\ run[q].base.writes \subseteq writes'[ThreadOf[q]]
    PROVE  TablesInv'
  <1>1. /\ run'[r].status = "gone" /\ run'[r].gen = 0 /\ run'[r].base.at = 0
        /\ \A q \in Runs \ {r} : run'[q] = run[q]
        /\ UNCHANGED <<exists, copy>>
    BY DEF Removed
  <1>2. WrittenInv'
    <2>1. \A c \in Checkpoint : WrittenCp(c) => WrittenCp(c)'
      BY <1>1 DEF WrittenCp, Checkpoint
    <2>2. \A w \in Pending : WrittenWrite(w) => WrittenWrite(w)'
      BY <1>1 DEF WrittenWrite, Pending
    <2> QED
      BY <1>1, <2>1, <2>2, Writers, CopyFields DEF TablesInv, WrittenInv
  <1>3. ASSUME NEW q \in Runs \ {r}, NEW w \in writes[ThreadOf[q]], Excused(q, w)
        PROVE  Excused(q, w)'
    <2>1. w.by \in Runs
      BY RowFields, Writers
    <2>2. CASE w.by = r
      <3>1. ThreadOf[w.by] = ThreadOf[q] /\ ~Lives(w.by)'
        BY <1>1, <1>3, <2>2 DEF Excused, Lives
      <3> QED
        BY <3>1 DEF Excused
    <2>3. CASE w.by # r
      BY <1>1, <1>3, <2>1, <2>3 DEF Excused, Lives, Retried
    <2> QED
      BY <2>2, <2>3
  <1>4. BaseInv'
    <2> SUFFICES ASSUME NEW q \in Runs, run'[q].base.at > 0
                 PROVE  /\ ThreadOf[q] \in exists'
                        /\ run'[q].base.cps \subseteq cps'[ThreadOf[q]]
                        /\ run'[q].base.writes \subseteq writes'[ThreadOf[q]]
                        /\ \A w \in writes'[ThreadOf[q]] \ run'[q].base.writes : Excused(q, w)'
                        /\ run'[q].base.gen = 1 =>
                              \A c \in run'[q].base.cps \cup run'[q].base.writes : c.by # q
      BY DEF BaseInv
    <2>1. q # r
      BY <1>1
    <2>2. run'[q] = run[q] /\ ThreadOf[q] \in Threads
      BY <1>1, <2>1, RowFields
    <2> QED
      BY <1>1, <1>3, <2>1, <2>2 DEF TablesInv, BaseInv
  <1> QED
    BY <1>2, <1>4 DEF TablesInv

LEMMA RollbackTables ==
    ASSUME TableTypes, RunsInv, TablesInv, NEW r \in Runs, Rollback(r)
    PROVE  /\ TablesInv'
           /\ \A u \in Threads : cps'[u] \subseteq cps[u] /\ writes'[u] \subseteq writes[u]
  <1>1. /\ Removed(r) /\ Restored(r)
        /\ run[r].base.at > 0 => Newest(r)
        /\ ThreadOf[r] \in Threads
    BY RollbackEffect, RowFields
  <1>2. \A u \in Threads : cps'[u] \subseteq cps[u] /\ writes'[u] \subseteq writes[u]
    BY <1>1 DEF Restored, TablesInv, BaseInv
  <1>3. ASSUME NEW q \in Runs \ {r}, run[q].base.at > 0
        PROVE  /\ run[q].base.cps \subseteq cps'[ThreadOf[q]]
               /\ run[q].base.writes \subseteq writes'[ThreadOf[q]]
    <2>0. /\ run[q].base.cps \subseteq cps[ThreadOf[q]]
          /\ run[q].base.writes \subseteq writes[ThreadOf[q]]
          /\ ThreadOf[q] \in Threads
      BY <1>3, RowFields DEF TablesInv, BaseInv
    <2>1. CASE ThreadOf[q] # ThreadOf[r]
      BY <1>1, <2>0, <2>1 DEF Restored
    <2>2. CASE ThreadOf[q] = ThreadOf[r] /\ run[r].base.at > 0
      <3>1. Lives(q)
        <4>1. run[q].status \notin {"none", "gone"}
          BY <1>3, RowFields, Naturals DEF RunsInv, RowInv
        <4> QED
          BY <4>1, RowFields DEF Lives
      <3>2. run[q].base.at < run[r].base.at
        BY <1>1, <2>2, <3>1 DEF Newest, On
      <3>3. /\ run[q].base.cps \subseteq run[r].base.cps
            /\ run[q].base.writes \subseteq run[r].base.writes
        BY <1>3, <2>2, <3>2 DEF RunsInv, Nested, Together
      <3> QED
        BY <1>1, <2>2, <3>3 DEF Restored
    <2>3. CASE ThreadOf[q] = ThreadOf[r] /\ ~(run[r].base.at > 0)
      BY <1>1, <2>0, <2>3 DEF Restored
    <2> QED
      BY <2>1, <2>2, <2>3
  <1> QED
    BY <1>1, <1>2, <1>3, RemovedTables

LEMMA PutTables ==
    ASSUME TableTypes, TablesInv, NEW r \in Runs, NEW g \in 1..MaxGen,
           NEW ns \in Namespaces, NEW full \in BOOLEAN, Put(r, g, ns, full)
    PROVE  TablesInv'
  <1>1. /\ UNCHANGED <<exists, writes, run, copy>>
        /\ run[r].gen = g /\ ThreadOf[r] \in Threads
        /\ \A u \in Threads \ {ThreadOf[r]} : cps'[u] = cps[u]
    BY PutEffect, RowFields
  <1>2. PICK c \in Checkpoint :
           c.by = r /\ c.gen = g /\ cps'[ThreadOf[r]] = cps[ThreadOf[r]] \cup {c}
    BY PutEffect
  <1>3. WrittenCp(c)
    BY <1>1, <1>2 DEF WrittenCp
  <1>4. WrittenInv'
    <2>1. \A u \in Threads : \A d \in cps'[u] : WrittenCp(d)
      BY <1>1, <1>2, <1>3 DEF TablesInv, WrittenInv
    <2> QED
      BY <1>1, <2>1 DEF TablesInv, WrittenInv, WrittenCp, WrittenWrite
  <1>5. \A u \in Threads : cps[u] \subseteq cps'[u]
    BY <1>1, <1>2
  <1>6. BaseInv'
    BY <1>1, <1>5, RowFields DEF TablesInv, BaseInv, Excused, Lives, Retried
  <1> QED
    BY <1>4, <1>6 DEF TablesInv

LEMMA PutWritesTables ==
    ASSUME TableTypes, RunsInv, TablesInv, NEW r \in Runs, NEW g \in 1..MaxGen,
           NEW ns \in Namespaces, PutWrites(r, g, ns)
    PROVE  TablesInv'
  <1>1. /\ UNCHANGED <<exists, cps, run, copy>>
        /\ run[r].status = "running" /\ run[r].gen = g /\ ThreadOf[r] \in Threads
        /\ \A u \in Threads \ {ThreadOf[r]} : writes'[u] = writes[u]
    BY PutWritesEffect, RowFields
  <1>2. PICK w \in Pending :
           w.by = r /\ writes'[ThreadOf[r]] = writes[ThreadOf[r]] \cup {w}
    BY PutWritesEffect
  <1>3. WrittenWrite(w)
    BY <1>1, <1>2 DEF WrittenWrite
  <1>4. WrittenInv'
    <2>1. \A u \in Threads : \A v \in writes'[u] : WrittenWrite(v)
      BY <1>1, <1>2, <1>3 DEF TablesInv, WrittenInv
    <2> QED
      BY <1>1, <2>1 DEF TablesInv, WrittenInv, WrittenCp, WrittenWrite
  <1>5. \A u \in Threads : writes[u] \subseteq writes'[u]
    BY <1>1, <1>2
  <1>6. ASSUME NEW q \in Runs, run[q].base.at > 0,
               NEW v \in writes'[ThreadOf[q]] \ run[q].base.writes
        PROVE  Excused(q, v)
    <2>1. CASE v \in writes[ThreadOf[q]]
      BY <1>6, <2>1 DEF TablesInv, BaseInv
    <2>2. CASE v \notin writes[ThreadOf[q]]
      <3>1. v = w /\ ThreadOf[q] = ThreadOf[r]
        BY <1>1, <1>2, <1>6, <2>2, RowFields
      <3>2. q # r => Retried(r) \/ run[r].base.at > run[q].base.at
        BY <1>1, <1>6, <3>1 DEF RunsInv, Latest, Together
      <3> QED
        BY <1>2, <3>1, <3>2 DEF Excused
    <2> QED
      BY <2>1, <2>2
  <1>7. \A q \in Runs : \A v : Excused(q, v)' <=> Excused(q, v)
    BY <1>1 DEF Excused, Lives, Retried
  <1>8. BaseInv'
    BY <1>1, <1>5, <1>6, <1>7, RowFields DEF TablesInv, BaseInv
  <1> QED
    BY <1>4, <1>8 DEF TablesInv

\* The baselines of t are superseded, and its tables change as they like.
LEMMA WipedTables ==
    ASSUME TableTypes, TablesInv, NEW t \in Threads, Wiped(t), exists \ {t} \subseteq exists',
           \A u \in Threads \ {t} : cps'[u] = cps[u] /\ writes'[u] = writes[u],
           \A c \in cps'[t] : c \in cps[t] \cup copy.todo \/ c.by = NoRun,
           writes'[t] \subseteq writes[t] \cup copy.left,
           copy'.todo \subseteq copy.todo, copy'.left \subseteq copy.left
    PROVE  TablesInv'
  <1>1. \A r \in Runs :
           /\ run'[r].status = run[r].status /\ run'[r].gen = run[r].gen
           /\ ThreadOf[r] = t => run'[r].base.at = 0
           /\ ThreadOf[r] # t => run'[r].base = run[r].base
    BY Defaults DEF Wiped
  <1>2. WrittenInv'
    <2>1. \A c \in Checkpoint : WrittenCp(c) => WrittenCp(c)'
      BY <1>1 DEF WrittenCp, Checkpoint
    <2>2. \A w \in Pending : WrittenWrite(w) => WrittenWrite(w)'
      BY <1>1 DEF WrittenWrite, Pending
    <2>3. \A c : c.by = NoRun => WrittenCp(c)'
      BY DEF WrittenCp
    <2>4. ASSUME NEW u \in Threads, NEW c \in cps'[u] PROVE WrittenCp(c)'
      <3>1. CASE u = t /\ c \notin cps[t] \cup copy.todo
        BY <2>3, <2>4, <3>1
      <3>2. CASE u # t \/ c \in cps[t] \cup copy.todo
        <4>1. WrittenCp(c) /\ c \in Checkpoint
          BY <2>4, <3>2, Writers, CopyFields DEF TablesInv, WrittenInv
        <4> QED
          BY <2>1, <4>1
      <3> QED
        BY <3>1, <3>2
    <2>5. ASSUME NEW u \in Threads, NEW w \in writes'[u] PROVE WrittenWrite(w)'
      <3>1. WrittenWrite(w) /\ w \in Pending
        BY <2>5, Writers, CopyFields DEF TablesInv, WrittenInv
      <3> QED
        BY <2>2, <3>1
    <2>6. \A c \in copy'.todo : WrittenCp(c)'
      BY <2>1, Writers, CopyFields DEF TablesInv, WrittenInv
    <2>7. \A w \in copy'.left : WrittenWrite(w)'
      BY <2>2, Writers, CopyFields DEF TablesInv, WrittenInv
    <2> QED
      BY <2>4, <2>5, <2>6, <2>7 DEF WrittenInv
  <1>3. BaseInv'
    <2> SUFFICES ASSUME NEW q \in Runs, run'[q].base.at > 0
                 PROVE  /\ ThreadOf[q] \in exists'
                        /\ run'[q].base.cps \subseteq cps'[ThreadOf[q]]
                        /\ run'[q].base.writes \subseteq writes'[ThreadOf[q]]
                        /\ \A w \in writes'[ThreadOf[q]] \ run'[q].base.writes : Excused(q, w)'
                        /\ run'[q].base.gen = 1 =>
                              \A c \in run'[q].base.cps \cup run'[q].base.writes : c.by # q
      BY DEF BaseInv
    <2>1. ThreadOf[q] # t /\ run'[q].base = run[q].base /\ ThreadOf[q] \in Threads
      BY <1>1, RowFields
    <2>2. cps'[ThreadOf[q]] = cps[ThreadOf[q]] /\ writes'[ThreadOf[q]] = writes[ThreadOf[q]]
      BY <2>1
    <2>3. ASSUME NEW w \in writes[ThreadOf[q]], Excused(q, w)
          PROVE  Excused(q, w)'
      <3>1. w.by \in Runs
        BY RowFields, Writers
      <3>2. ThreadOf[w.by] = ThreadOf[q]
        BY <2>3 DEF Excused
      <3>3. /\ Lives(w.by)' <=> Lives(w.by)
            /\ run'[w.by].base = run[w.by].base /\ run'[w.by].gen = run[w.by].gen
        BY <1>1, <2>1, <3>1, <3>2 DEF Lives
      <3> QED
        BY <2>1, <2>3, <3>3 DEF Excused, Retried
    <2> QED
      BY <2>1, <2>2, <2>3 DEF TablesInv, BaseInv
  <1> QED
    BY <1>2, <1>3 DEF TablesInv

\* The runs stay as they are, and so do the tables of the threads that exist.
LEMMA IdleTables ==
    ASSUME TableTypes, TablesInv, run' = run, exists \subseteq exists',
           \A u \in Threads : /\ cps'[u] \subseteq cps[u] /\ writes'[u] \subseteq writes[u]
                              /\ u \in exists => cps'[u] = cps[u] /\ writes'[u] = writes[u],
           \A c \in copy'.todo : c \in copy.todo \/ \E u \in Threads : c \in cps[u],
           \A w \in copy'.left : w \in copy.left \/ \E u \in Threads : w \in writes[u]
    PROVE  TablesInv'
  <1>1. WrittenInv'
    <2>1. /\ \A c : WrittenCp(c)' <=> WrittenCp(c)
          /\ \A w : WrittenWrite(w)' <=> WrittenWrite(w)
      BY DEF WrittenCp, WrittenWrite
    <2>2. \A u \in Threads : \A c \in cps'[u] : WrittenCp(c)
      BY DEF TablesInv, WrittenInv
    <2>3. \A u \in Threads : \A w \in writes'[u] : WrittenWrite(w)
      BY DEF TablesInv, WrittenInv
    <2>4. \A c \in copy'.todo : WrittenCp(c)
      BY DEF TablesInv, WrittenInv
    <2>5. \A w \in copy'.left : WrittenWrite(w)
      BY DEF TablesInv, WrittenInv
    <2> QED
      BY <2>1, <2>2, <2>3, <2>4, <2>5 DEF WrittenInv
  <1>2. \A q \in Runs : \A v : Excused(q, v)' <=> Excused(q, v)
    BY DEF Excused, Lives, Retried
  <1>3. BaseInv'
    BY <1>2, RowFields DEF TablesInv, BaseInv
  <1> QED
    BY <1>1, <1>3 DEF TablesInv

-----------------------------------------------------------------------------
(* The steps, as the ids and the parents of checkpoints see them *)

\* Runs go on: one that lives was there before, unless it is new, one that runs goes
\* on with its attempt or starts the next one, and captures what the thread has.
RunsMove ==
    \A q \in Runs :
        /\ Lives(q)' => Lives(q) \/ run[q].status = "none"
        /\ run'[q].status = "running" =>
              \/ run[q].status = "running" /\ run'[q].gen = run[q].gen
              \/ run'[q].gen = run[q].gen + 1
        /\ \/ run'[q].base.cps = {}
           \/ run'[q].base.cps = run[q].base.cps
           \/ run'[q].base.cps = cps[ThreadOf[q]] /\ cps' = cps

CopyMoves ==
    /\ copy'.todo \subseteq copy.todo
    /\ \/ copy' = copy
       \/ copy.pc = "put" /\ copy'.pc = "put" /\ copy'.to = copy.to /\ copy'.todo = copy.todo
       \/ copy.pc = "none" /\ copy'.pc = "list" /\ copy'.to # copy'.from
       \/ copy.pc # "none" /\ copy'.pc \in {"done", "failed"} /\ copy'.to = copy.to

UpdateMoves ==
    \/ update' = update
    \/ update'.parent = -1
    \/ /\ cps' = cps
       /\ update'.parent = 0 \/ \E d \in cps[update'.thread] : d.id = update'.parent

\* Where the checkpoints of a thread come from.
CpsMove ==
    \A u \in Threads :
        \/ cps'[u] = cps[u] \/ cps'[u] = {} \/ cps'[u] = Kept(cps[u])
        \/ \E r \in Runs : run[r].base.at > 0 /\ ThreadOf[r] = u /\ cps'[u] = run[r].base.cps

SpoiledMoves ==
    ~spoiled' => ~spoiled /\ \A u \in Threads : InUse(u) => cps'[u] = cps[u]

\* No checkpoint is written.
Shrinks ==
    /\ \A u \in Threads : cps'[u] \subseteq cps[u]
    /\ last' = last
    /\ RunsMove /\ CopyMoves /\ UpdateMoves /\ CpsMove /\ SpoiledMoves

\* A step that leaves the checkpoints alone.
LEMMA QuietShrinks ==
    ASSUME TableTypes, UNCHANGED <<cps, last, spoiled>>, RunsMove, CopyMoves, UpdateMoves
    PROVE  Shrinks
  BY DEF Shrinks, CpsMove, SpoiledMoves

LEMMA SameCopy == ASSUME UNCHANGED copy PROVE CopyMoves
  BY DEF CopyMoves

LEMMA SameUpdate == ASSUME UNCHANGED update PROVE UpdateMoves
  BY DEF UpdateMoves

LEMMA SameRuns == ASSUME UNCHANGED run PROVE RunsMove
  BY DEF RunsMove, Lives

LEMMA LifeMoves ==
    ASSUME TableTypes, NEW r \in Runs, Life(r)
    PROVE  Shrinks
  <1>1. /\ run[r].status # "gone"
        /\ run'[r].status = "running" => run[r].status = "running"
        /\ \A q \in Runs : /\ run'[q].gen = run[q].gen /\ run'[q].base = run[q].base
                           /\ q # r => run'[q] = run[q]
        /\ UNCHANGED <<cps, last, spoiled, copy, update>>
    BY DEF Life, Tables
  <1>2. RunsMove
    BY <1>1, RowFields DEF RunsMove, Lives
  <1> QED
    BY <1>1, <1>2, QuietShrinks, SameCopy, SameUpdate

LEMMA ClaimMoves ==
    ASSUME TableTypes, RunsInv, NEW r \in Runs, Claim(r)
    PROVE  Shrinks
  <1>1. /\ run[r].status = "pending" /\ run'[r].gen = run[r].gen + 1
        /\ run'[r].base = Captured(r)
        /\ \A q \in Runs \ {r} : run'[q] = run[q]
        /\ run[r].gen < MaxGen
        /\ UNCHANGED <<cps, last, spoiled, copy, update>>
    BY ClaimEffect DEF RunsInv, Tables
  <1>2. run'[r].base.cps = run[r].base.cps \/ run'[r].base.cps = cps[ThreadOf[r]]
    <2>1. PICK b \in Baseline :
             /\ run'[r].base = b
             /\ run[r].base.at > 0 => b = run[r].base
             /\ run[r].base.at = 0 => b.cps = cps[ThreadOf[r]]
      BY <1>1, CapturedFacts DEF RunsInv
    <2>2. run[r].base.at = 0 \/ run[r].base.at > 0
      BY RowFields, Naturals
    <2> QED
      BY <2>1, <2>2
  <1>3. RunsMove
    BY <1>1, <1>2 DEF RunsMove, Lives
  <1> QED
    BY <1>1, <1>3, QuietShrinks, SameCopy, SameUpdate

LEMMA RemovedMoves ==
    ASSUME TableTypes, NEW r \in Runs, Removed(r)
    PROVE  RunsMove
  <1>1. run'[r].status = "gone" /\ run'[r].base.cps = {} /\ \A q \in Runs \ {r} : run'[q] = run[q]
    BY DEF Removed
  <1> QED
    BY <1>1 DEF RunsMove, Lives

LEMMA WipedMoves ==
    ASSUME TableTypes, NEW t \in Threads, Wiped(t)
    PROVE  RunsMove
  BY Defaults DEF Wiped, RunsMove, Lives

LEMMA RollbackMoves ==
    ASSUME TableTypes, BaselineInv, NEW r \in Runs, Rollback(r)
    PROVE  TableTypes' /\ BaselineInv' /\ Shrinks
  <1>1. /\ TableTypes' /\ Removed(r) /\ Restored(r)
        /\ spoiled' = (spoiled \/ (InUse(ThreadOf[r]) /\ cps' # cps))
        /\ ThreadOf[r] \in Threads /\ run[r].base.at \in Nat
    BY RollbackEffect, RowFields, Naturals
  <1>2. TablesInv' /\ \A u \in Threads : cps'[u] \subseteq cps[u]
    BY RollbackTables DEF BaselineInv
  <1>3. RunsInv'
    BY <1>1, RemovedRuns DEF BaselineInv
  <1>4. UNCHANGED <<update, copy, last>>
    BY <1>1 DEF Removed
  <1>5. CpsMove
    <2>1. CASE run[r].base.at > 0
      BY <1>1, <2>1 DEF Restored, CpsMove
    <2>2. CASE ~(run[r].base.at > 0)
      BY <1>1, <2>2 DEF Restored, CpsMove
    <2> QED
      BY <2>1, <2>2
  <1>6. SpoiledMoves
    <2> SUFFICES ASSUME ~spoiled' PROVE ~spoiled /\ \A u \in Threads : InUse(u) => cps'[u] = cps[u]
      BY DEF SpoiledMoves
    <2>1. ~spoiled /\ ~(InUse(ThreadOf[r]) /\ cps' # cps)
      BY <1>1
    <2>2. ASSUME NEW u \in Threads, InUse(u) PROVE cps'[u] = cps[u]
      BY <1>1, <2>1, <2>2 DEF Restored
    <2> QED
      BY <2>1, <2>2
  <1>7. Shrinks
    BY <1>1, <1>2, <1>4, <1>5, <1>6, RemovedMoves, SameCopy, SameUpdate DEF Shrinks
  <1> QED
    BY <1>1, <1>2, <1>3, <1>7 DEF BaselineInv

LEMMA PruneMoves ==
    ASSUME TableTypes, BaselineInv, NEW t \in Threads, Prune(t)
    PROVE  TableTypes' /\ BaselineInv' /\ Shrinks
  <1>1. /\ TableTypes' /\ Wiped(t)
        /\ cps'[t] = Kept(cps[t]) /\ writes'[t] \subseteq writes[t]
        /\ \A u \in Threads \ {t} : cps'[u] = cps[u] /\ writes'[u] = writes[u]
        /\ spoiled' = (spoiled \/ (InUse(t) /\ Kept(cps[t]) # cps[t]))
        /\ UNCHANGED <<exists, update, copy, last>>
    BY PruneEffect
  <1>2. \A u \in Threads : cps'[u] \subseteq cps[u]
    BY <1>1, KeptSubset
  <1>3. TablesInv'
    BY <1>1, <1>2, WipedTables DEF BaselineInv
  <1>4. RunsInv'
    BY <1>1, WipedRuns DEF BaselineInv
  <1>5. CpsMove
    BY <1>1 DEF CpsMove
  <1>6. SpoiledMoves
    BY <1>1 DEF SpoiledMoves
  <1>7. Shrinks
    BY <1>1, <1>2, <1>5, <1>6, WipedMoves, SameCopy, SameUpdate DEF Shrinks
  <1> QED
    BY <1>1, <1>3, <1>4, <1>7 DEF BaselineInv

LEMMA IdleRuns ==
    ASSUME RunsInv, run' = run
    PROVE  RunsInv'
  BY DEF RunsInv, RowInv, OneRunning, Latest, Nested, CaptureInv, Captures, Retried, Together

LEMMA DeleteCheckpointsMoves ==
    ASSUME TableTypes, BaselineInv, NEW t \in Threads, DeleteCheckpoints(t)
    PROVE  TableTypes' /\ BaselineInv' /\ Shrinks
  <1>1. /\ TableTypes' /\ t \notin exists
        /\ cps'[t] = {} /\ writes'[t] = {}
        /\ \A u \in Threads \ {t} : cps'[u] = cps[u] /\ writes'[u] = writes[u]
        /\ spoiled' = (spoiled \/ InUse(t))
        /\ UNCHANGED <<exists, run, update, copy, last>>
    BY DeleteCheckpointsEffect
  <1>2. \A u \in Threads : cps'[u] \subseteq cps[u] /\ writes'[u] \subseteq writes[u]
    BY <1>1
  <1>3. TablesInv'
    <2>1. \A u \in exists : cps'[u] = cps[u] /\ writes'[u] = writes[u]
      BY <1>1 DEF TableTypes
    <2> QED
      BY <1>1, <1>2, <2>1, IdleTables DEF BaselineInv
  <1>4. RunsInv'
    BY <1>1, IdleRuns DEF BaselineInv
  <1>5. CpsMove
    BY <1>1 DEF CpsMove
  <1>6. SpoiledMoves
    BY <1>1 DEF SpoiledMoves
  <1>7. Shrinks
    BY <1>1, <1>2, <1>5, <1>6, SameRuns, SameCopy, SameUpdate DEF Shrinks
  <1> QED
    BY <1>1, <1>3, <1>4, <1>7 DEF BaselineInv

\* Runs, threads, updates and copies move, and the tables stay.
LEMMA IdleMoves ==
    ASSUME TableTypes, BaselineInv, UNCHANGED <<cps, writes, run>>, exists \subseteq exists',
           \A c \in copy'.todo : c \in copy.todo \/ \E u \in Threads : c \in cps[u],
           \A w \in copy'.left : w \in copy.left \/ \E u \in Threads : w \in writes[u]
    PROVE  BaselineInv' /\ RunsMove
  BY IdleRuns, IdleTables, SameRuns DEF BaselineInv

LEMMA WipedBaselines ==
    ASSUME TableTypes, TableTypes', BaselineInv, NEW t \in Threads, Wiped(t),
           exists \ {t} \subseteq exists',
           \A u \in Threads \ {t} : cps'[u] = cps[u] /\ writes'[u] = writes[u],
           \A c \in cps'[t] : c \in cps[t] \cup copy.todo \/ c.by = NoRun,
           writes'[t] \subseteq writes[t] \cup copy.left,
           copy'.todo \subseteq copy.todo, copy'.left \subseteq copy.left
    PROVE  BaselineInv' /\ RunsMove
  BY WipedRuns, WipedTables, WipedMoves DEF BaselineInv

Putting == \E r \in Runs, g \in 1..MaxGen, ns \in Namespaces, full \in BOOLEAN : Put(r, g, ns, full)
Updating == update' = NoUpdate /\ \E ns \in Namespaces : UpdateWritten(ns)

\* The baseline invariant is inductive, and a step writes checkpoints or takes some
\* away.
LEMMA Moves ==
    ASSUME TableTypes, BaselineInv, Next
    PROVE  /\ TableTypes' /\ BaselineInv'
           /\ Shrinks \/ Putting \/ Updating \/ CopyList \/ CopyPut
  <1>0. RunsInv /\ TablesInv /\ RowInv /\ CaptureInv /\ BaseInv
    BY DEF BaselineInv, RunsInv, TablesInv
  <1>1. ASSUME NEW r \in Runs,
               Create(r) \/ LeaseExpires(r) \/ Requeue(r) \/ Stop(r) \/ Mark(r)
        PROVE  TableTypes' /\ BaselineInv' /\ Shrinks
    <2>1. TableTypes' /\ Life(r)
      BY <1>0, <1>1, LifeEffect
    <2> QED
      BY <1>0, <2>1, LifeRuns, LifeTables, LifeMoves DEF BaselineInv
  <1>2. ASSUME NEW r \in Runs, Claim(r)
        PROVE  TableTypes' /\ BaselineInv' /\ Shrinks
    <2>1. TableTypes'
      BY <1>0, <1>2, ClaimEffect
    <2> QED
      BY <1>0, <1>2, <2>1, ClaimRuns, ClaimTables, ClaimMoves DEF BaselineInv
  <1>3. ASSUME NEW r \in Runs, RunsDelete(r)
        PROVE  TableTypes' /\ BaselineInv' /\ Shrinks
    <2>1. TableTypes' /\ Removed(r) /\ UNCHANGED <<cps, writes, spoiled>>
      BY <1>3, RunsDeleteEffect
    <2>2. UNCHANGED <<update, copy, last>>
      BY <2>1 DEF Removed
    <2>3. TablesInv'
      BY <1>0, <2>1, RemovedTables, RowFields DEF BaseInv
    <2> QED
      BY <1>0, <2>1, <2>2, <2>3, RemovedRuns, RemovedMoves, QuietShrinks, SameCopy, SameUpdate
      DEF BaselineInv
  <1>4. ASSUME NEW r \in Runs, NEW g \in 1..MaxGen, NEW ns \in Namespaces, PutWrites(r, g, ns)
        PROVE  TableTypes' /\ BaselineInv' /\ Shrinks
    <2>1. TableTypes' /\ UNCHANGED <<exists, cps, run, update, copy, last, spoiled>>
      BY <1>4, PutWritesEffect
    <2> QED
      BY <1>0, <1>4, <2>1, PutWritesTables, IdleRuns, SameRuns, SameCopy, SameUpdate, QuietShrinks
      DEF BaselineInv
  <1>5. ASSUME NEW r \in Runs, NEW g \in 1..MaxGen, NEW ns \in Namespaces, NEW full \in BOOLEAN,
               Put(r, g, ns, full)
        PROVE  TableTypes' /\ BaselineInv' /\ Putting
    <2>1. TableTypes' /\ run' = run
      BY <1>5, PutEffect
    <2>2. Putting
      BY <1>5 DEF Putting
    <2> QED
      BY <1>0, <1>5, <2>1, <2>2, PutTables, IdleRuns DEF BaselineInv
  <1>6. ASSUME NEW r \in Runs, RequestRollback(r) \/ CompleteRollback(r), ~Mark(r)
        PROVE  TableTypes' /\ BaselineInv' /\ Shrinks
    <2>1. Rollback(r)
      BY <1>6 DEF RequestRollback, CompleteRollback, Rollback, Mark
    <2> QED
      BY <2>1, RollbackMoves
  <1>7. ASSUME NEW t \in Threads, NEW c \in 0..MaxId, UpdateRead(t, c)
        PROVE  TableTypes' /\ BaselineInv' /\ Shrinks
    <2>1. /\ TableTypes' /\ update'.thread = t /\ update'.parent = c
          /\ c = 0 \/ \E d \in cps[t] : d.id = c
          /\ UNCHANGED <<exists, cps, writes, run, copy, last, spoiled>>
      BY <1>7, UpdateReadEffect
    <2>2. UpdateMoves
      BY <2>1 DEF UpdateMoves
    <2> QED
      BY <2>1, <2>2, IdleMoves, SameCopy, QuietShrinks
  <1>8. ASSUME NEW t \in Threads, Prune(t) \/ DeleteCheckpoints(t)
        PROVE  TableTypes' /\ BaselineInv' /\ Shrinks
    BY <1>8, PruneMoves, DeleteCheckpointsMoves
  <1>9. ASSUME NEW t \in Threads, ThreadsDelete(t)
        PROVE  TableTypes' /\ BaselineInv' /\ Shrinks
    <2>1. /\ TableTypes' /\ Wiped(t) /\ exists' = exists \ {t}
          /\ UNCHANGED <<cps, writes, update, copy, last, spoiled>>
      BY <1>9, ThreadsDeleteEffect
    <2> QED
      BY <2>1, WipedBaselines, SameCopy, SameUpdate, QuietShrinks
  <1>10. ASSUME NEW t \in Threads, NEW u \in Threads, CopyStart(t, u)
         PROVE  TableTypes' /\ BaselineInv' /\ Shrinks
    <2>1. /\ TableTypes' /\ copy.pc = "none" /\ exists' = exists \cup {u}
          /\ copy'.pc = "list" /\ copy'.to # copy'.from /\ copy'.todo = {} /\ copy'.left = {}
          /\ UNCHANGED <<cps, writes, run, update, last, spoiled>>
      BY <1>10, CopyStartEffect
    <2>2. CopyMoves
      BY <2>1 DEF CopyMoves
    <2> QED
      BY <2>1, <2>2, IdleMoves, SameUpdate, QuietShrinks
  <1>11. ASSUME NEW ns \in Namespaces, NEW full \in BOOLEAN, UpdateWrite(ns, full)
         PROVE  TableTypes' /\ BaselineInv' /\ (Shrinks \/ Updating)
    <2>1. TableTypes' /\ update' = NoUpdate
      BY <1>11, UpdateWriteEffect
    <2>2. CASE UNCHANGED <<exists, cps, writes, run, copy, last, spoiled>>
      <3>1. UpdateMoves
        BY <2>1 DEF UpdateMoves, NoUpdate
      <3> QED
        BY <2>1, <2>2, <3>1, IdleMoves, SameCopy, QuietShrinks
    <2>3. CASE UpdateWritten(ns)
      <3>1. PICK t \in Threads : t = update.thread
        BY CopyFields
      <3>2. /\ Wiped(t) /\ \A u \in Threads \ {t} : cps'[u] = cps[u]
            /\ UNCHANGED <<exists, writes, copy>>
        BY <2>3, <3>1 DEF UpdateWritten
      <3>3. \A c \in cps'[t] : c \in cps[t] \cup copy.todo \/ c.by = NoRun
        BY <2>3, <3>1 DEF UpdateWritten
      <3>4. BaselineInv'
        BY <2>1, <3>2, <3>3, WipedBaselines
      <3> QED
        BY <2>1, <2>3, <3>4 DEF Updating
    <2> QED
      BY <1>11, <2>2, <2>3, UpdateWriteEffect
  <1>12. ASSUME CopyList
         PROVE  TableTypes' /\ BaselineInv'
    <2>1. /\ TableTypes' /\ copy'.todo = cps[copy.from] /\ copy'.left = writes[copy.from]
          /\ UNCHANGED <<exists, cps, writes, run, update, last, spoiled>>
      BY <1>12, CopyListEffect
    <2> QED
      BY <2>1, CopyFields, IdleMoves
  <1>13. ASSUME CopyPut
         PROVE  TableTypes' /\ BaselineInv'
    <2>1. /\ TableTypes' /\ Wiped(copy.to)
          /\ \A u \in Threads \ {copy.to} : cps'[u] = cps[u]
          /\ copy'.left = copy.left
          /\ UNCHANGED <<exists, writes, update, last, spoiled>>
      BY <1>13, CopyPutEffect
    <2>2. PICK c \in copy.todo :
             cps'[copy.to] = cps[copy.to] \cup {c} /\ copy'.todo = copy.todo \ {c}
      BY <1>13, CopyPutEffect
    <2> QED
      BY <2>1, <2>2, CopyFields, WipedBaselines
  <1>14. ASSUME CopyWrite
         PROVE  TableTypes' /\ BaselineInv' /\ Shrinks
    <2>1. /\ TableTypes' /\ Wiped(copy.to)
          /\ \A u \in Threads \ {copy.to} : writes'[u] = writes[u]
          /\ copy'.left \subseteq copy.left /\ copy.pc = "put" /\ copy'.pc = "put"
          /\ copy'.to = copy.to /\ copy'.todo = copy.todo
          /\ UNCHANGED <<exists, cps, update, last, spoiled>>
      BY <1>14, CopyWriteEffect
    <2>2. PICK w \in copy.left : writes'[copy.to] = writes[copy.to] \cup {w}
      BY <1>14, CopyWriteEffect
    <2>3. CopyMoves
      BY <2>1 DEF CopyMoves
    <2> QED
      BY <2>1, <2>2, <2>3, CopyFields, WipedBaselines, SameUpdate, QuietShrinks
  <1>15. ASSUME CopyDone
         PROVE  TableTypes' /\ BaselineInv' /\ Shrinks
    <2>1. /\ TableTypes' /\ copy.pc = "put" /\ copy'.pc = "done" /\ copy'.to = copy.to
          /\ copy'.todo = copy.todo /\ copy'.left = copy.left
          /\ UNCHANGED <<exists, cps, writes, run, update, last, spoiled>>
      BY <1>15, CopyDoneEffect
    <2>2. CopyMoves
      BY <2>1 DEF CopyMoves
    <2> QED
      BY <2>1, <2>2, IdleMoves, SameUpdate, QuietShrinks
  <1>16. ASSUME NEW dead \in BOOLEAN, CopyFails(dead)
         PROVE  TableTypes' /\ BaselineInv' /\ Shrinks
    <2>1. /\ TableTypes' /\ copy.pc \in {"list", "put"}
          /\ copy'.pc = "failed" /\ copy'.to = copy.to /\ copy'.todo = {} /\ copy'.left = {}
          /\ UNCHANGED <<cps, writes, update, last, spoiled>>
      BY <1>16, CopyFailsEffect
    <2>2. CopyMoves
      BY <2>1 DEF CopyMoves
    <2>3. BaselineInv' /\ RunsMove
      <3>1. CASE UNCHANGED <<exists, run>>
        BY <2>1, <3>1, IdleMoves
      <3>2. CASE exists' = exists \ {copy.to} /\ Wiped(copy.to)
        BY <2>1, <3>2, CopyFields, WipedBaselines
      <3> QED
        BY <1>16, <3>1, <3>2, CopyFailsEffect
    <2> QED
      BY <2>1, <2>2, <2>3, SameUpdate, QuietShrinks
  <1>17. ASSUME NEW r \in Runs, RunStep(r)
         PROVE  TableTypes' /\ BaselineInv' /\ (Shrinks \/ Putting)
    BY <1>1, <1>2, <1>3, <1>4, <1>5, <1>6, <1>17 DEF RunStep
  <1> QED
    BY <1>7, <1>8, <1>9, <1>10, <1>11, <1>12, <1>13, <1>14, <1>15, <1>16, <1>17 DEF Next

-----------------------------------------------------------------------------
(* Rollbacks *)

\* A run goes when it is deleted or rolled back.
LEMMA GoneSteps ==
    ASSUME TableTypes, BaselineInv, Next, NEW r \in Runs, Gone(r)
    PROVE  RunsDelete(r) \/ Rollback(r)
  <1>0. RunsInv /\ RowInv /\ CaptureInv
    BY DEF BaselineInv, RunsInv
  <1>1. run[r].status # "gone" /\ run'[r].status = "gone"
    BY DEF Gone
  <1>2. run' # run /\ \A t \in Threads : ~Wiped(t)
    BY <1>1 DEF Wiped
  <1>3. PICK q \in Runs : RunStep(q)
    <2>1. ASSUME NEW t \in Threads, NEW c \in 0..MaxId, UpdateRead(t, c) PROVE FALSE
      BY <1>2, <2>1, UpdateReadEffect
    <2>2. ASSUME NEW t \in Threads, Prune(t) PROVE FALSE
      BY <1>2, <2>2, PruneEffect
    <2>3. ASSUME NEW t \in Threads, ThreadsDelete(t) PROVE FALSE
      BY <1>2, <2>3, ThreadsDeleteEffect
    <2>4. ASSUME NEW t \in Threads, DeleteCheckpoints(t) PROVE FALSE
      BY <1>2, <2>4, DeleteCheckpointsEffect
    <2>5. ASSUME NEW t \in Threads, NEW u \in Threads, CopyStart(t, u) PROVE FALSE
      BY <1>2, <2>5, CopyStartEffect
    <2>6. ASSUME NEW ns \in Namespaces, NEW full \in BOOLEAN, UpdateWrite(ns, full) PROVE FALSE
      <3>1. UpdateWritten(ns)
        BY <1>2, <2>6, UpdateWriteEffect
      <3>2. Wiped(update.thread)
        BY <3>1 DEF UpdateWritten
      <3> QED
        BY <1>2, <3>2, CopyFields
    <2>7. ~CopyList /\ ~CopyDone
      BY <1>2, CopyListEffect, CopyDoneEffect
    <2>8. ~CopyPut /\ ~CopyWrite
      BY <1>2, CopyPutEffect, CopyWriteEffect, CopyFields
    <2>9. ASSUME NEW dead \in BOOLEAN, CopyFails(dead) PROVE FALSE
      BY <1>2, <2>9, CopyFailsEffect, CopyFields
    <2> QED
      BY <2>1, <2>2, <2>3, <2>4, <2>5, <2>6, <2>7, <2>8, <2>9 DEF Next
  <1>4. ~(Create(q) \/ LeaseExpires(q) \/ Requeue(q) \/ Stop(q) \/ Mark(q))
    <2> SUFFICES ASSUME Create(q) \/ LeaseExpires(q) \/ Requeue(q) \/ Stop(q) \/ Mark(q)
                 PROVE  FALSE
      OBVIOUS
    <2>1. Life(q)
      BY <1>0, LifeEffect
    <2>2. run'[q].status # "gone" /\ \A p \in Runs \ {q} : run'[p] = run[p]
      BY <2>1 DEF Life
    <2> QED
      BY <1>1, <2>2
  <1>5. ~Claim(q)
    <2> SUFFICES ASSUME Claim(q) PROVE FALSE
      OBVIOUS
    <2>1. run'[q].status = "running" /\ \A p \in Runs \ {q} : run'[p] = run[p]
      BY <1>0, ClaimEffect
    <2> QED
      BY <1>1, <2>1
  <1>6. ASSUME NEW g \in 1..MaxGen, NEW ns \in Namespaces, PutWrites(q, g, ns) PROVE FALSE
    BY <1>2, <1>6, PutWritesEffect
  <1>7. ASSUME NEW g \in 1..MaxGen, NEW ns \in Namespaces, NEW full \in BOOLEAN,
               Put(q, g, ns, full)
        PROVE  FALSE
    BY <1>2, <1>7, PutEffect
  <1>8. RunsDelete(q) \/ Rollback(q)
    <2>1. RunsDelete(q) \/ RequestRollback(q) \/ CompleteRollback(q)
      BY <1>3, <1>4, <1>5, <1>6, <1>7 DEF RunStep
    <2>2. RequestRollback(q) => Rollback(q)
      BY <1>4 DEF RequestRollback, Rollback, Mark
    <2>3. CompleteRollback(q) => Rollback(q)
      BY DEF CompleteRollback, Rollback
    <2> QED
      BY <2>1, <2>2, <2>3
  <1>9. q = r
    <2>1. Removed(q)
      BY <1>8, RunsDeleteEffect, RollbackEffect
    <2> QED
      BY <1>1, <2>1 DEF Removed
  <1> QED
    BY <1>8, <1>9

LEMMA RollbackTakesItsOwn ==
    ASSUME TableTypes, BaselineInv, NEW r \in Runs, Rollback(r)
    PROVE  TakesOwn(r)
  <1>1. PICK t \in Threads : t = ThreadOf[r]
    BY RowFields
  <1>2. /\ TableTypes' /\ Restored(r)
        /\ run[r].base.at > 0 =>
              Newest(r) /\ \A c \in cps[t] : c \in run[r].base.cps \/ c.by = r
    BY <1>1, RollbackEffect
  <1>3. cps'[t] \subseteq cps[t] /\ writes'[t] \subseteq writes[t]
    BY <1>1, RollbackTables DEF BaselineInv
  <1>4. CASE run[r].base.at > 0
    <2>1. cps'[t] = run[r].base.cps /\ writes'[t] = run[r].base.writes
      BY <1>1, <1>2, <1>4 DEF Restored
    <2>2. \A c \in cps[t] \ cps'[t] : c.by = r
      BY <1>2, <1>4, <2>1
    <2>3. ASSUME NEW w \in writes[t] \ writes'[t]
          PROVE  w.by = r \/ ~Lives(w.by) \/ Retried(w.by)
      <3>1. Excused(r, w)
        BY <1>1, <1>4, <2>1, <2>3 DEF BaselineInv, TablesInv, BaseInv
      <3>2. w.by \in Runs
        BY <2>3, Writers
      <3>3. ASSUME w.by # r, Lives(w.by), run[w.by].base.at > run[r].base.at,
                   ThreadOf[w.by] = t
            PROVE  FALSE
        <4>1. w.by \in On(t) \ {r}
          BY <3>2, <3>3 DEF On
        <4>2. run[w.by].base.at < run[r].base.at
          BY <1>1, <1>2, <1>4, <4>1 DEF Newest
        <4> QED
          BY <3>2, <3>3, <4>2, RowFields, Naturals
      <3> QED
        BY <1>1, <3>1, <3>3 DEF Excused
    <2>4. run[r].base.gen = 1 => \A c \in cps'[t] \cup writes'[t] : c.by # r
      BY <1>4, <2>1 DEF BaselineInv, TablesInv, BaseInv
    <2> QED
      BY <1>1, <1>3, <2>2, <2>3, <2>4 DEF TakesOwn
  <1>5. CASE ~(run[r].base.at > 0)
    <2>1. \A u \in Threads : cps'[u] = cps[u] /\ writes'[u] = writes[u]
      BY <1>2, <1>5 DEF Restored
    <2>2. cps' = cps /\ writes' = writes
      BY <1>2, <2>1 DEF TableTypes
    <2> QED
      BY <1>1, <2>2 DEF TakesOwn
  <1> QED
    BY <1>4, <1>5

-----------------------------------------------------------------------------
(* Ids *)

Unique(S) == \A c, d \in S : c.id = d.id => c = d
Apart(S, T) == \A c \in S, d \in T : c.id # d.id

\* Ids have been given out in order, parents before children.
Known(S) == \A c \in S : c.id <= last /\ c.parent < c.id

\* A thread has one checkpoint of an id, and so has what a copy is about to write; the
\* copy does not write what is already there.  Until it has read the source, no two
\* threads have an id in common.
IdInv ==
    /\ \A t \in Threads : Known(cps[t]) /\ Unique(cps[t])
    /\ Known(copy.todo) /\ Unique(copy.todo)
    /\ update.parent <= last
    /\ copy.pc \in {"none", "list"} =>
          \A t, u \in Threads : t # u => Apart(cps[t], cps[u])
    /\ copy.pc = "list" => copy.to # copy.from
    /\ copy.pc = "put" => Apart(copy.todo, cps[copy.to])

LEMMA CheckpointIds ==
    ASSUME TableTypes
    PROVE  /\ last \in Nat /\ update.parent \in Int
           /\ \A t \in Threads : \A c \in cps[t] : c.id \in Nat /\ c.parent \in Nat
           /\ \A c \in copy.todo : c.id \in Nat /\ c.parent \in Nat
  <1>1. \A c \in Checkpoint : c.id \in Nat /\ c.parent \in Nat
    BY Naturals DEF Checkpoint, Ids
  <1> QED
    BY <1>1, TableFields, CopyFields, Naturals DEF TableTypes

\* A thread gets a checkpoint with a new id.
LEMMA NewId ==
    ASSUME TableTypes, IdInv, NEW t \in Threads, NEW c \in Checkpoint,
           c.id = last + 1, c.parent <= last, last' = last + 1,
           cps'[t] = cps[t] \cup {c}, \A u \in Threads \ {t} : cps'[u] = cps[u],
           copy' = copy, update'.parent \in Int, update'.parent <= last
    PROVE  IdInv'
  <1>0. /\ last \in Nat /\ c.id \in Nat /\ c.parent \in Nat /\ update.parent \in Int
        /\ \A u \in Threads : \A d \in cps[u] : d.id \in Nat /\ d.parent \in Nat
        /\ \A d \in copy.todo : d.id \in Nat /\ d.parent \in Nat
        /\ copy.to \in Threads
    BY CheckpointIds, CopyFields, Naturals DEF Checkpoint, Ids
  <1>1. /\ \A u \in Threads : \A d \in cps[u] : d.id <= last /\ d.parent < d.id /\ d.id # c.id
        /\ \A d \in copy.todo : d.id <= last /\ d.parent < d.id /\ d.id # c.id
    BY <1>0 DEF IdInv, Known
  <1>2. ASSUME NEW u \in Threads
        PROVE  Known(cps[u])' /\ Unique(cps[u])'
    <2>1. CASE u = t
      <3>1. Known(cps[u])'
        BY <1>0, <1>1, <2>1 DEF Known
      <3>2. Unique(cps[u])'
        BY <1>1, <2>1 DEF Unique, IdInv
      <3> QED
        BY <3>1, <3>2
    <2>2. CASE u # t
      <3>1. cps'[u] = cps[u]
        BY <2>2
      <3>2. Known(cps[u])'
        BY <1>0, <1>1, <3>1 DEF Known
      <3>3. Unique(cps[u])'
        BY <3>1 DEF Unique, IdInv
      <3> QED
        BY <3>2, <3>3
    <2> QED
      BY <2>1, <2>2
  <1>3. Known(copy.todo)' /\ Unique(copy.todo)'
    BY <1>0, <1>1 DEF Known, Unique, IdInv
  <1>4. update'.parent <= last'
    BY <1>0
  <1>5. ASSUME copy.pc \in {"none", "list"}, NEW u \in Threads, NEW v \in Threads, u # v
        PROVE  Apart(cps[u], cps[v])'
    <2>1. Apart(cps[u], cps[v])
      BY <1>5 DEF IdInv
    <2> QED
      BY <1>1, <1>5, <2>1 DEF Apart
  <1>6. copy.pc = "put" => Apart(copy.todo, cps[copy.to])'
    BY <1>0, <1>1 DEF Apart, IdInv
  <1> QED
    BY <1>2, <1>3, <1>4, <1>5, <1>6 DEF IdInv

LEMMA PutIds ==
    ASSUME TableTypes, IdInv, Putting
    PROVE  IdInv'
  <1>1. PICK r \in Runs, g \in 1..MaxGen, ns \in Namespaces, full \in BOOLEAN :
           Put(r, g, ns, full)
    BY DEF Putting
  <1>2. PICK t \in Threads : t = ThreadOf[r]
    BY RowFields
  <1>3. PICK c \in Checkpoint :
           c.id = last + 1 /\ c.parent = HeadId(cps[t], ns) /\ cps'[t] = cps[t] \cup {c}
    BY <1>1, <1>2, PutEffect
  <1>4. /\ last' = last + 1 /\ copy' = copy /\ update' = update
        /\ \A u \in Threads \ {t} : cps'[u] = cps[u]
    BY <1>1, <1>2, PutEffect
  <1>5. c.parent <= last
    <2>1. \A d \in cps[t] : d.id <= last
      BY DEF IdInv, Known
    <2>2. PICK h \in 0..MaxId : h = HeadId(cps[t], ns) /\ (h > 0 => \E d \in cps[t] : d.id = h)
      BY HeadFacts, TableFields
    <2> QED
      BY <1>3, <2>1, <2>2, CheckpointIds, Naturals
  <1>6. update'.parent \in Int /\ update'.parent <= last
    BY <1>4, CheckpointIds DEF IdInv
  <1> QED
    BY <1>3, <1>4, <1>5, <1>6, NewId

LEMMA UpdateIds ==
    ASSUME TableTypes, IdInv, Updating
    PROVE  IdInv'
  <1>1. PICK ns \in Namespaces : UpdateWritten(ns)
    BY DEF Updating
  <1>2. PICK t \in Threads : t = update.thread
    BY CopyFields
  <1>3. PICK c \in Checkpoint :
           c.id = last + 1 /\ c.parent = update.parent /\ cps'[t] = cps[t] \cup {c}
    BY <1>1, <1>2 DEF UpdateWritten
  <1>4. /\ last' = last + 1 /\ copy' = copy
        /\ \A u \in Threads \ {t} : cps'[u] = cps[u]
    BY <1>1, <1>2 DEF UpdateWritten
  <1>5. c.parent <= last
    BY <1>3 DEF IdInv
  <1>6. update'.parent \in Int /\ update'.parent <= last
    BY CheckpointIds DEF Updating, NoUpdate
  <1> QED
    BY <1>3, <1>4, <1>5, <1>6, NewId

LEMMA ShrinkIds ==
    ASSUME TableTypes, TableTypes', IdInv, Shrinks
    PROVE  IdInv'
  <1>1. /\ \A u \in Threads : cps'[u] \subseteq cps[u]
        /\ last' = last /\ CopyMoves /\ UpdateMoves
        /\ copy'.todo \subseteq copy.todo
    BY DEF Shrinks, CopyMoves
  <1>2. \A u \in Threads : Known(cps[u])' /\ Unique(cps[u])'
    BY <1>1 DEF IdInv, Known, Unique
  <1>3. Known(copy.todo)' /\ Unique(copy.todo)'
    BY <1>1 DEF IdInv, Known, Unique
  <1>4. update'.parent <= last'
    <2>1. update' = update => update'.parent <= last'
      BY <1>1 DEF IdInv
    <2>2. update'.parent \in {-1, 0} => update'.parent <= last'
      BY <1>1, CheckpointIds
    <2>3. update'.thread \in Threads
      BY DEF TableTypes, Update
    <2>4. ASSUME NEW d \in cps[update'.thread], d.id = update'.parent
          PROVE  update'.parent <= last'
      BY <1>1, <2>3, <2>4 DEF IdInv, Known
    <2> QED
      BY <1>1, <2>1, <2>2, <2>4 DEF UpdateMoves
  <1>5. ASSUME copy'.pc \in {"none", "list"}, NEW u \in Threads, NEW v \in Threads, u # v
        PROVE  Apart(cps[u], cps[v])'
    <2>1. copy.pc \in {"none", "list"}
      BY <1>1, <1>5 DEF CopyMoves
    <2>2. Apart(cps[u], cps[v])
      BY <1>5, <2>1 DEF IdInv
    <2> QED
      BY <1>1, <2>2 DEF Apart
  <1>6. copy'.pc = "list" => copy'.to # copy'.from
    BY <1>1 DEF CopyMoves, IdInv
  <1>7. copy'.pc = "put" => Apart(copy.todo, cps[copy.to])'
    <2> SUFFICES ASSUME copy'.pc = "put" PROVE Apart(copy.todo, cps[copy.to])'
      OBVIOUS
    <2>1. copy.pc = "put" /\ copy'.to = copy.to /\ copy.to \in Threads
      BY <1>1, CopyFields DEF CopyMoves
    <2>2. Apart(copy.todo, cps[copy.to])
      BY <2>1 DEF IdInv
    <2> QED
      BY <1>1, <2>1, <2>2 DEF Apart
  <1> QED
    BY <1>2, <1>3, <1>4, <1>5, <1>6, <1>7 DEF IdInv

LEMMA ListIds ==
    ASSUME TableTypes, IdInv, CopyList
    PROVE  IdInv'
  <1>1. /\ copy.pc = "list" /\ copy'.pc = "put" /\ copy'.to = copy.to
        /\ copy'.todo = cps[copy.from]
        /\ UNCHANGED <<cps, last, update>>
        /\ copy.from \in Threads /\ copy.to \in Threads
    BY CopyListEffect, CopyFields
  <1>2. Known(cps[copy.from]) /\ Unique(cps[copy.from]) /\ Apart(cps[copy.from], cps[copy.to])
    BY <1>1 DEF IdInv
  <1> QED
    BY <1>1, <1>2 DEF IdInv, Known, Unique, Apart

LEMMA CopyPutIds ==
    ASSUME TableTypes, IdInv, CopyPut
    PROVE  IdInv'
  <1>1. PICK t \in Threads : t = copy.to
    BY CopyFields
  <1>2. /\ copy.pc = "put" /\ copy'.pc = "put" /\ copy'.to = t
        /\ \A u \in Threads \ {t} : cps'[u] = cps[u]
        /\ UNCHANGED <<last, update>>
    BY <1>1, CopyPutEffect
  <1>3. PICK c \in copy.todo : cps'[t] = cps[t] \cup {c} /\ copy'.todo = copy.todo \ {c}
    BY <1>1, CopyPutEffect
  <1>4. Known(cps[t]) /\ Unique(cps[t]) /\ Apart(copy.todo, cps[t])
    BY <1>1, <1>2 DEF IdInv
  <1>5. Known(copy.todo) /\ Unique(copy.todo)
    BY DEF IdInv
  <1>6. Known(cps[t])'
    BY <1>2, <1>3, <1>4, <1>5 DEF Known
  <1>7. Unique(cps[t])'
    BY <1>3, <1>4 DEF Unique, Apart
  <1>8. Apart(copy.todo, cps[copy.to])'
    BY <1>2, <1>3, <1>4, <1>5 DEF Apart, Unique
  <1>9. Known(copy.todo)' /\ Unique(copy.todo)'
    BY <1>2, <1>3, <1>5 DEF Known, Unique
  <1>10. ASSUME NEW u \in Threads \ {t}
         PROVE  Known(cps[u])' /\ Unique(cps[u])'
    BY <1>2 DEF IdInv, Known, Unique
  <1> QED
    BY <1>2, <1>6, <1>7, <1>8, <1>9, <1>10 DEF IdInv

-----------------------------------------------------------------------------
(* The checkpoints of an attempt *)

\* Nothing came after the checkpoints of the attempt that runs, but more of them.
Tail ==
    \A t \in Threads \ Targets : \A r \in Runs : \A c, d \in cps[t] :
        /\ ThreadOf[r] = t /\ run[r].status = "running"
        /\ c.by = r /\ c.gen = run[r].gen /\ c.id < d.id
        => <<d.by, d.gen>> = <<c.by, c.gen>>

ContInv == Tail /\ AttemptsContiguous

LEMMA PutContiguous ==
    ASSUME TableTypes, BaselineInv, IdInv, ContInv, Putting
    PROVE  ContInv'
  <1>1. PICK r \in Runs, g \in 1..MaxGen, ns \in Namespaces, full \in BOOLEAN :
           Put(r, g, ns, full)
    BY DEF Putting
  <1>2. PICK t \in Threads : t = ThreadOf[r]
    BY RowFields
  <1>3. PICK c \in Checkpoint :
           c.id = last + 1 /\ c.by = r /\ c.gen = g /\ cps'[t] = cps[t] \cup {c}
    BY <1>1, <1>2, PutEffect
  <1>4. /\ run' = run /\ copy' = copy /\ run[r].status = "running" /\ run[r].gen = g
        /\ \A u \in Threads \ {t} : cps'[u] = cps[u]
    BY <1>1, <1>2, PutEffect
  <1>5. Targets' = Targets /\ \A u : On(u)' = On(u)
    BY <1>4 DEF Targets, On, Lives
  <1>6. \A d \in cps[t] : d.id < c.id /\ ~(c.id < d.id)
    BY <1>3, CheckpointIds DEF IdInv, Known
  <1>7. ~(c.id < c.id)
    BY <1>3, CheckpointIds
  <1>8. Tail'
    <2> SUFFICES ASSUME NEW u \in Threads \ Targets, NEW q \in Runs,
                        NEW x \in cps'[u], NEW d \in cps'[u],
                        ThreadOf[q] = u, run[q].status = "running",
                        x.by = q, x.gen = run[q].gen, x.id < d.id
                 PROVE  <<d.by, d.gen>> = <<x.by, x.gen>>
      BY <1>4, <1>5 DEF Tail
    <2>1. CASE u = t /\ d = c
      <3>1. q = r
        BY <1>2, <1>4, <2>1 DEF BaselineInv, RunsInv, OneRunning, Together
      <3> QED
        BY <1>3, <1>4, <2>1, <3>1
    <2>2. CASE u # t \/ d # c
      <3>1. x \in cps[u] /\ d \in cps[u]
        BY <1>3, <1>4, <1>6, <2>2
      <3> QED
        BY <3>1 DEF ContInv, Tail
    <2> QED
      BY <2>1, <2>2
  <1>9. AttemptsContiguous'
    <2> SUFFICES ASSUME NEW u \in Threads \ Targets, NEW x \in cps'[u], NEW d \in cps'[u],
                        NEW e \in cps'[u],
                        x.id < d.id, d.id < e.id, x.by \in On(u),
                        <<x.by, x.gen>> = <<e.by, e.gen>>
                 PROVE  <<d.by, d.gen>> = <<x.by, x.gen>>
      BY <1>5 DEF AttemptsContiguous
    <2>1. CASE u = t /\ e = c
      <3>1. x \in cps[t] /\ d \in cps[t]
        BY <1>3, <1>6, <1>7, <2>1
      <3>2. x.by = r /\ x.gen = run[r].gen
        BY <1>3, <1>4, <2>1
      <3> QED
        BY <1>2, <1>4, <2>1, <3>1, <3>2 DEF ContInv, Tail
    <2>2. CASE u # t \/ e # c
      <3>1. x \in cps[u] /\ d \in cps[u] /\ e \in cps[u]
        BY <1>3, <1>4, <1>6, <2>2
      <3> QED
        BY <3>1 DEF ContInv, AttemptsContiguous
    <2> QED
      BY <2>1, <2>2
  <1> QED
    BY <1>8, <1>9 DEF ContInv

LEMMA UpdateContiguous ==
    ASSUME TableTypes, IdInv, ContInv, Updating
    PROVE  ContInv'
  <1>1. PICK ns \in Namespaces : UpdateWritten(ns)
    BY DEF Updating
  <1>2. PICK t \in Threads : t = update.thread
    BY CopyFields
  <1>3. PICK c \in Checkpoint :
           c.id = last + 1 /\ c.by = NoRun /\ cps'[t] = cps[t] \cup {c}
    BY <1>1, <1>2 DEF UpdateWritten
  <1>4. /\ Wiped(t) /\ copy' = copy
        /\ \A q \in Runs : ThreadOf[q] = t => run[q].status # "running"
        /\ \A u \in Threads \ {t} : cps'[u] = cps[u]
    BY <1>1, <1>2 DEF UpdateWritten
  <1>5. \A q \in Runs : run'[q].status = run[q].status /\ run'[q].gen = run[q].gen
    BY <1>4 DEF Wiped
  <1>6. Targets' = Targets /\ \A u : On(u)' = On(u)
    BY <1>4, <1>5 DEF Targets, On, Lives
  <1>7. \A d \in cps[t] : d.id < c.id /\ ~(c.id < d.id)
    BY <1>3, CheckpointIds DEF IdInv, Known
  <1>8. ~(c.id < c.id)
    BY <1>3, CheckpointIds
  <1>9. Tail'
    <2> SUFFICES ASSUME NEW u \in Threads \ Targets, NEW q \in Runs,
                        NEW x \in cps'[u], NEW d \in cps'[u],
                        ThreadOf[q] = u, run[q].status = "running",
                        x.by = q, x.gen = run[q].gen, x.id < d.id
                 PROVE  <<d.by, d.gen>> = <<x.by, x.gen>>
      BY <1>5, <1>6 DEF Tail
    <2>1. u # t
      BY <1>4
    <2> QED
      BY <1>4, <2>1 DEF ContInv, Tail
  <1>10. AttemptsContiguous'
    <2> SUFFICES ASSUME NEW u \in Threads \ Targets, NEW x \in cps'[u], NEW d \in cps'[u],
                        NEW e \in cps'[u],
                        x.id < d.id, d.id < e.id, x.by \in On(u),
                        <<x.by, x.gen>> = <<e.by, e.gen>>
                 PROVE  <<d.by, d.gen>> = <<x.by, x.gen>>
      BY <1>6 DEF AttemptsContiguous
    <2>1. e.by \in Runs
      BY DEF On
    <2>2. e # c
      BY <1>3, <2>1, CheckpointConstants
    <2>3. x \in cps[u] /\ d \in cps[u] /\ e \in cps[u]
      BY <1>3, <1>4, <1>7, <2>2
    <2> QED
      BY <2>3 DEF ContInv, AttemptsContiguous
  <1> QED
    BY <1>9, <1>10 DEF ContInv

\* Where no checkpoint is added nothing comes between.
LEMMA FewerContiguous ==
    ASSUME TableTypes, BaselineInv, ContInv, RunsMove, Targets \subseteq Targets',
           \A u \in Threads \ Targets' : cps'[u] \subseteq cps[u]
    PROVE  ContInv'
  <1>0. RowInv /\ WrittenInv
    BY DEF BaselineInv, RunsInv, TablesInv
  <1>1. ASSUME NEW u \in Threads, NEW c \in cps[u], c.by \in Runs, run[c.by].status # "gone"
        PROVE  c.gen \in 1..run[c.by].gen /\ run[c.by].gen \in Nat
    BY <1>0, <1>1, CheckpointConstants, RowFields, Naturals DEF WrittenInv, WrittenCp
  <1>2. Tail'
    <2> SUFFICES ASSUME NEW u \in Threads \ Targets', NEW q \in Runs,
                        NEW x \in cps'[u], NEW d \in cps'[u],
                        ThreadOf[q] = u, run'[q].status = "running",
                        x.by = q, x.gen = run'[q].gen, x.id < d.id
                 PROVE  <<d.by, d.gen>> = <<x.by, x.gen>>
      BY DEF Tail
    <2>1. u \in Threads \ Targets /\ x \in cps[u] /\ d \in cps[u]
      OBVIOUS
    <2>2. run[q].status # "gone"
      BY DEF RunsMove, Lives
    <2>3. run'[q].gen # run[q].gen + 1
      BY <1>1, <2>1, <2>2
    <2>4. run[q].status = "running" /\ run'[q].gen = run[q].gen
      BY <2>3 DEF RunsMove
    <2> QED
      BY <2>1, <2>4 DEF ContInv, Tail
  <1>3. AttemptsContiguous'
    <2> SUFFICES ASSUME NEW u \in Threads \ Targets', NEW x \in cps'[u], NEW d \in cps'[u],
                        NEW e \in cps'[u],
                        x.id < d.id, d.id < e.id, x.by \in On(u)',
                        <<x.by, x.gen>> = <<e.by, e.gen>>
                 PROVE  <<d.by, d.gen>> = <<x.by, x.gen>>
      BY DEF AttemptsContiguous
    <2>1. u \in Threads \ Targets /\ x \in cps[u] /\ d \in cps[u] /\ e \in cps[u]
      OBVIOUS
    <2>2. x.by \in Runs /\ ThreadOf[x.by] = u /\ (Lives(x.by) \/ run[x.by].status = "none")
      BY DEF On, RunsMove
    <2>3. run[x.by].status # "none"
      <3> SUFFICES ASSUME run[x.by].status = "none" PROVE FALSE
        OBVIOUS
      <3>1. run[x.by].gen = 0
        BY <1>0, <2>2 DEF RowInv
      <3>2. x.gen \in 1..run[x.by].gen
        BY <1>1, <2>1, <2>2
      <3> QED
        BY <3>1, <3>2
    <2>4. x.by \in On(u)
      BY <2>2, <2>3 DEF On
    <2> QED
      BY <2>1, <2>4 DEF ContInv, AttemptsContiguous
  <1> QED
    BY <1>2, <1>3 DEF ContInv

LEMMA ShrinkContiguous ==
    ASSUME TableTypes, BaselineInv, ContInv, Shrinks \/ CopyList \/ CopyPut
    PROVE  ContInv'
  <1>1. CASE Shrinks
    <2>1. Targets \subseteq Targets'
      BY <1>1 DEF Shrinks, CopyMoves, Targets
    <2> QED
      BY <1>1, <2>1, FewerContiguous DEF Shrinks
  <1>2. CASE CopyList
    <2>1. UNCHANGED <<cps, run>> /\ copy.pc = "list" /\ copy'.pc = "put" /\ copy'.to = copy.to
      BY <1>2, CopyListEffect
    <2>2. Targets \subseteq Targets'
      BY <2>1 DEF Targets
    <2> QED
      BY <2>1, <2>2, FewerContiguous, SameRuns
  <1>3. CASE CopyPut
    <2>1. /\ copy.pc = "put" /\ copy'.pc = "put" /\ copy'.to = copy.to /\ Wiped(copy.to)
          /\ \A u \in Threads \ {copy.to} : cps'[u] = cps[u]
      BY <1>3, CopyPutEffect
    <2>2. Targets \subseteq Targets' /\ Targets' = {copy.to}
      BY <2>1 DEF Targets
    <2>3. RunsMove
      BY <2>1, CopyFields, WipedMoves
    <2> QED
      BY <2>1, <2>2, <2>3, FewerContiguous
  <1> QED
    BY <1>1, <1>2, <1>3

-----------------------------------------------------------------------------
(* What it takes to read a checkpoint *)

\* Every difference has its parent, if it has one.
Leads(c, S) == ~c.full /\ c.parent > 0 => \E d \in S : d.id = c.parent
Closed(S) == \A c \in S : Leads(c, S)

\* Tables and baselines can be read, an update has read a checkpoint of its thread,
\* and what a copy has yet to write can be read once it is written.
ReadInv ==
    ~spoiled =>
        /\ \A t \in Threads : Closed(cps[t])
        /\ \A r \in Runs : Closed(run[r].base.cps)
        /\ update.parent > 0 => \E d \in cps[update.thread] : d.id = update.parent
        /\ copy.pc = "put" => \A c \in copy.todo : Leads(c, copy.todo \cup cps[copy.to])

\* The ancestors of a checkpoint that are needed to read it have those that they need.
LEMMA ChainClosed ==
    ASSUME NEW S, Closed(S), NEW id
    PROVE  Chain(S, id) \subseteq S /\ Closed(Chain(S, id))
  <1>1. Chain(S, id) \subseteq S
    BY DEF Chain
  <1>2. ASSUME NEW c \in Chain(S, id), ~c.full, c.parent > 0
        PROVE  \E d \in Chain(S, id) : d.id = c.parent
    <2>1. PICK d \in S : d.id = c.parent
      BY <1>1, <1>2 DEF Closed, Leads
    <2>2. ASSUME NEW X \in SUBSET S, Readable(S, id, X)
          PROVE  d \in X
      <3>1. c \in X
        BY <1>2, <2>2 DEF Chain
      <3> QED
        BY <1>2, <2>1, <2>2, <3>1 DEF Readable
    <2>3. d \in Chain(S, id)
      BY <2>2 DEF Chain
    <2> QED
      BY <2>1, <2>3
  <1> QED
    BY <1>1, <1>2 DEF Closed, Leads

LEMMA KeptClosed ==
    ASSUME NEW S, Closed(S)
    PROVE  Closed(Kept(S))
  <1> SUFFICES ASSUME NEW c \in Kept(S), ~c.full, c.parent > 0
               PROVE  \E d \in Kept(S) : d.id = c.parent
    BY DEF Closed, Leads
  <1>1. PICK ns \in Namespaces : c \in Chain(S, HeadId(S, ns))
    BY DEF Kept
  <1>2. PICK d \in Chain(S, HeadId(S, ns)) : d.id = c.parent
    BY <1>1, ChainClosed DEF Closed, Leads
  <1> QED
    BY <1>2 DEF Kept

LEMMA EmptyClosed == Closed({})
  BY DEF Closed

\* A checkpoint whose parent is there can be added.
LEMMA ClosedAdd ==
    ASSUME NEW S, Closed(S), NEW c, Leads(c, S)
    PROVE  Closed(S \cup {c})
  BY DEF Closed, Leads

LEMMA PutReadable ==
    ASSUME TableTypes, ReadInv, Putting
    PROVE  ReadInv'
  <1>1. PICK r \in Runs, g \in 1..MaxGen, ns \in Namespaces, full \in BOOLEAN :
           Put(r, g, ns, full)
    BY DEF Putting
  <1>2. PICK t \in Threads : t = ThreadOf[r]
    BY RowFields
  <1>3. PICK c \in Checkpoint :
           c.parent = HeadId(cps[t], ns) /\ cps'[t] = cps[t] \cup {c}
    BY <1>1, <1>2, PutEffect
  <1>4. /\ UNCHANGED <<run, update, copy, spoiled>>
        /\ \A u \in Threads \ {t} : cps'[u] = cps[u]
    BY <1>1, <1>2, PutEffect
  <1>5. Leads(c, cps[t])
    BY <1>3, HeadFacts, TableFields DEF Leads
  <1> SUFFICES ASSUME ~spoiled PROVE ReadInv'
    BY <1>4 DEF ReadInv
  <1>6. \A u \in Threads : Closed(cps'[u])
    <2>1. Closed(cps'[t])
      BY <1>3, <1>5, ClosedAdd DEF ReadInv
    <2> QED
      BY <1>4, <2>1 DEF ReadInv
  <1>7. \A u \in Threads : cps[u] \subseteq cps'[u]
    BY <1>3, <1>4
  <1>8. \A q \in Runs : Closed(run[q].base.cps)
    BY DEF ReadInv
  <1>9. update.parent > 0 => \E d \in cps'[update.thread] : d.id = update.parent
    BY <1>7, CopyFields DEF ReadInv
  <1>10. copy.pc = "put" => \A d \in copy.todo : Leads(d, copy.todo \cup cps'[copy.to])
    BY <1>7, CopyFields DEF ReadInv, Leads
  <1> QED
    BY <1>4, <1>6, <1>8, <1>9, <1>10 DEF ReadInv, Closed, Leads

LEMMA UpdateReadable ==
    ASSUME TableTypes, ReadInv, Updating
    PROVE  ReadInv'
  <1>1. PICK ns \in Namespaces : UpdateWritten(ns)
    BY DEF Updating
  <1>2. PICK t \in Threads : t = update.thread
    BY CopyFields
  <1>3. PICK c \in Checkpoint : c.parent = update.parent /\ cps'[t] = cps[t] \cup {c}
    BY <1>1, <1>2 DEF UpdateWritten
  <1>4. /\ Wiped(t) /\ UNCHANGED <<copy, spoiled>> /\ ~(update'.parent > 0)
        /\ \A u \in Threads \ {t} : cps'[u] = cps[u]
    BY <1>1, <1>2 DEF UpdateWritten, Updating, NoUpdate
  <1> SUFFICES ASSUME ~spoiled PROVE ReadInv'
    BY <1>4 DEF ReadInv
  <1>5. Leads(c, cps[t])
    BY <1>2, <1>3 DEF Leads, ReadInv
  <1>6. \A u \in Threads : Closed(cps'[u])
    <2>1. Closed(cps'[t])
      BY <1>3, <1>5, ClosedAdd DEF ReadInv
    <2> QED
      BY <1>4, <2>1 DEF ReadInv
  <1>7. \A u \in Threads : cps[u] \subseteq cps'[u]
    BY <1>3, <1>4
  <1>8. \A q \in Runs : Closed(run'[q].base.cps)
    <2>1. \A q \in Runs : run'[q].base.cps = {} \/ run'[q].base.cps = run[q].base.cps
      BY <1>4, Defaults DEF Wiped
    <2> QED
      BY <2>1, EmptyClosed DEF ReadInv
  <1>9. copy.pc = "put" => \A d \in copy.todo : Leads(d, copy.todo \cup cps'[copy.to])
    BY <1>7, CopyFields DEF ReadInv, Leads
  <1> QED
    BY <1>4, <1>6, <1>8, <1>9 DEF ReadInv, Closed, Leads

LEMMA ShrinkReadable ==
    ASSUME TableTypes, TableTypes', ReadInv, Shrinks
    PROVE  ReadInv'
  <1> SUFFICES ASSUME ~spoiled' PROVE ReadInv'
    BY DEF ReadInv
  <1>1. /\ ~spoiled /\ \A u \in Threads : InUse(u) => cps'[u] = cps[u]
        /\ RunsMove /\ CopyMoves /\ UpdateMoves /\ CpsMove
    BY DEF Shrinks, SpoiledMoves
  <1>2. ASSUME NEW u \in Threads PROVE Closed(cps'[u])
    <2>1. Closed(cps[u])
      BY <1>1 DEF ReadInv
    <2>2. ASSUME NEW r \in Runs, cps'[u] = run[r].base.cps PROVE Closed(cps'[u])
      BY <1>1, <2>2 DEF ReadInv
    <2>3. CASE cps'[u] = {}
      BY <2>3, EmptyClosed
    <2>4. CASE cps'[u] = Kept(cps[u])
      <3>1. Closed(Kept(cps[u]))
        BY <2>1, KeptClosed
      <3> QED
        BY <2>4, <3>1
    <2>5. CASE cps'[u] = cps[u]
      BY <2>1, <2>5
    <2> QED
      BY <1>1, <2>2, <2>3, <2>4, <2>5 DEF CpsMove
  <1>3. ASSUME NEW q \in Runs PROVE Closed(run'[q].base.cps)
    <2>1. Closed(run[q].base.cps) /\ Closed(cps[ThreadOf[q]])
      BY <1>1, RowFields DEF ReadInv
    <2> QED
      BY <1>1, <2>1, EmptyClosed DEF RunsMove
  <1>4. update'.parent > 0 => \E d \in cps'[update'.thread] : d.id = update'.parent
    <2> SUFFICES ASSUME update'.parent > 0
                 PROVE  \E d \in cps'[update'.thread] : d.id = update'.parent
      OBVIOUS
    <2>1. CASE update' = update
      <3>1. update.thread \in Threads /\ InUse(update.thread)
        BY <2>1, CopyFields DEF InUse
      <3> QED
        BY <1>1, <2>1, <3>1 DEF ReadInv
    <2>2. CASE cps' = cps /\ \E d \in cps[update'.thread] : d.id = update'.parent
      BY <2>2
    <2> QED
      BY <1>1, <2>1, <2>2 DEF UpdateMoves
  <1>5. copy'.pc = "put" => \A c \in copy'.todo : Leads(c, copy'.todo \cup cps'[copy'.to])
    <2> SUFFICES ASSUME copy'.pc = "put", NEW c \in copy'.todo
                 PROVE  Leads(c, copy'.todo \cup cps'[copy'.to])
      OBVIOUS
    <2>1. copy.pc = "put" /\ copy'.to = copy.to /\ copy'.todo = copy.todo
      BY <1>1 DEF CopyMoves
    <2>2. cps'[copy.to] = cps[copy.to]
      BY <1>1, <2>1, CopyFields DEF InUse
    <2> QED
      BY <1>1, <2>1, <2>2 DEF ReadInv
  <1> QED
    BY <1>2, <1>3, <1>4, <1>5 DEF ReadInv, Closed, Leads

LEMMA ListReadable ==
    ASSUME TableTypes, ReadInv, CopyList
    PROVE  ReadInv'
  <1>1. /\ copy'.todo = cps[copy.from]
        /\ UNCHANGED <<cps, run, update, spoiled>> /\ copy.from \in Threads
    BY CopyListEffect, CopyFields
  <1> SUFFICES ASSUME ~spoiled PROVE ReadInv'
    BY <1>1 DEF ReadInv
  <1>2. Closed(cps[copy.from])
    BY <1>1 DEF ReadInv
  <1>3. \A c \in copy'.todo : Leads(c, copy'.todo \cup cps'[copy'.to])
    BY <1>1, <1>2 DEF Closed, Leads
  <1> QED
    BY <1>1, <1>3 DEF ReadInv, Closed, Leads

LEMMA CopyPutReadable ==
    ASSUME TableTypes, IdInv, ReadInv, CopyPut
    PROVE  ReadInv'
  <1>1. PICK t \in Threads : t = copy.to
    BY CopyFields
  <1>2. /\ copy.pc = "put" /\ copy'.to = t /\ Wiped(t)
        /\ \A u \in Threads \ {t} : cps'[u] = cps[u]
        /\ UNCHANGED <<update, spoiled>>
    BY <1>1, CopyPutEffect
  <1>3. PICK c \in copy.todo :
           NextRow(c) /\ cps'[t] = cps[t] \cup {c} /\ copy'.todo = copy.todo \ {c}
    BY <1>1, CopyPutEffect
  <1> SUFFICES ASSUME ~spoiled PROVE ReadInv'
    BY <1>2 DEF ReadInv
  <1>4. \A d \in copy.todo : Leads(d, copy.todo \cup cps[t])
    BY <1>1, <1>2 DEF ReadInv
  <1>5. Leads(c, cps[t])
    <2>1. \A d \in copy.todo : d.id # c.parent
      BY <1>3, CheckpointIds DEF NextRow, IdInv, Known
    <2> QED
      BY <1>3, <1>4, <2>1 DEF Leads
  <1>6. \A u \in Threads : Closed(cps'[u])
    <2>1. Closed(cps'[t])
      BY <1>3, <1>5, ClosedAdd DEF ReadInv
    <2> QED
      BY <1>2, <2>1 DEF ReadInv
  <1>7. \A u \in Threads : cps[u] \subseteq cps'[u]
    BY <1>2, <1>3
  <1>8. \A q \in Runs : Closed(run'[q].base.cps)
    <2>1. \A q \in Runs : run'[q].base.cps = {} \/ run'[q].base.cps = run[q].base.cps
      BY <1>2, Defaults DEF Wiped
    <2> QED
      BY <2>1, EmptyClosed DEF ReadInv
  <1>9. update.parent > 0 => \E d \in cps'[update.thread] : d.id = update.parent
    BY <1>7, CopyFields DEF ReadInv
  <1>10. \A d \in copy'.todo : Leads(d, copy'.todo \cup cps'[t])
    <2>1. copy.todo \cup cps[t] \subseteq copy'.todo \cup cps'[t]
      BY <1>3
    <2> QED
      BY <1>3, <1>4, <2>1 DEF Leads
  <1> QED
    BY <1>2, <1>6, <1>8, <1>9, <1>10 DEF ReadInv, Closed, Leads

\* From a checkpoint of a closed table the parents lead to one that can be read by
\* itself.
LEMMA ClosedReadable ==
    ASSUME NEW S \in SUBSET Checkpoint, Closed(S), Known(S), NEW c \in S
    PROVE  \E d \in Chain(S, c.id) : d.full \/ d.parent = 0
  <1>0. \A d \in S : d.id \in Nat /\ d.parent \in Nat /\ d.parent < d.id
    BY Naturals DEF Checkpoint, Ids, Known
  <1>1. PICK T : T = {d.id : d \in Chain(S, c.id)}
    OBVIOUS
  <1>2. Chain(S, c.id) \subseteq S /\ Closed(Chain(S, c.id))
    BY ChainClosed
  <1>3. c \in Chain(S, c.id)
    BY DEF Chain, Readable
  <1>4. T \in SUBSET Nat /\ T # {}
    BY <1>0, <1>1, <1>2, <1>3
  <1>5. PICK x \in T : \A y \in T : x <= y
    BY <1>4, Least
  <1>6. PICK d \in Chain(S, c.id) : d.id = x
    BY <1>1, <1>5
  <1>7. d.full \/ d.parent = 0
    <2> SUFFICES ASSUME ~d.full, d.parent # 0 PROVE FALSE
      OBVIOUS
    <2>1. d \in S /\ d.parent > 0
      BY <1>0, <1>2, <1>6
    <2>2. PICK e \in Chain(S, c.id) : e.id = d.parent
      BY <1>2, <2>1 DEF Closed, Leads
    <2>3. x <= e.id
      BY <1>1, <1>5, <2>2
    <2> QED
      BY <1>0, <1>6, <2>1, <2>2, <2>3
  <1> QED
    BY <1>6, <1>7

-----------------------------------------------------------------------------
(* The theorems *)

\* Everything together.
IInv == TableTypes /\ BaselineInv /\ IdInv /\ ContInv /\ ReadInv

LEMMA InitInv ==
    ASSUME Init
    PROVE  IInv
  <1>1. /\ exists = {First} /\ last = 0 /\ ops = 0 /\ spoiled = FALSE
        /\ \A t \in Threads : cps[t] = {} /\ writes[t] = {}
        /\ \A r \in Runs : run[r] = NoRow
        /\ cps \in [Threads -> SUBSET Checkpoint] /\ writes \in [Threads -> SUBSET Pending]
        /\ update = NoUpdate /\ copy = NoCopy
    BY DEF Init
  <1>2. run \in [Runs -> Row]
    BY <1>1, Defaults DEF Init
  <1>3. /\ update.parent = -1 /\ copy.pc = "none" /\ copy.todo = {} /\ copy.left = {}
    BY <1>1 DEF NoUpdate, NoCopy
  <1>4. TableTypes
    <2>1. exists \subseteq Threads /\ spoiled \in BOOLEAN
      BY <1>1, CheckpointConstants
    <2>2. last \in 0..MaxId /\ ops \in 0..MaxOps
      BY <1>1, Naturals
    <2>3. update \in Update /\ copy \in Copy
      BY <1>1, Defaults
    <2> QED
      BY <1>1, <1>2, <2>1, <2>2, <2>3 DEF TableTypes
  <1>5. \A r \in Runs : /\ run[r].status = "none" /\ run[r].gen = 0 /\ ~run[r].live
                        /\ run[r].base.at = 0 /\ run[r].base.cps = {}
    BY <1>1, Defaults DEF NoRow
  <1>6. RunsInv
    <2>1. RowInv /\ OneRunning /\ Latest /\ Nested
      BY <1>5 DEF RowInv, OneRunning, Latest, Nested
    <2>2. CaptureInv
      BY <1>5, CapturesCount DEF CaptureInv
    <2> QED
      BY <2>1, <2>2 DEF RunsInv
  <1>7. TablesInv
    BY <1>1, <1>3, <1>5 DEF TablesInv, BaseInv, WrittenInv
  <1>8. IdInv
    BY <1>1, <1>3 DEF IdInv, Known, Unique, Apart
  <1>9. ContInv
    BY <1>1 DEF ContInv, Tail, AttemptsContiguous
  <1>10. ReadInv
    BY <1>1, <1>3, <1>5 DEF ReadInv, Closed
  <1> QED
    BY <1>4, <1>6, <1>7, <1>8, <1>9, <1>10 DEF IInv, BaselineInv

LEMMA NextInv ==
    ASSUME IInv, Next
    PROVE  IInv'
  <1>0. TableTypes /\ BaselineInv /\ IdInv /\ ContInv /\ ReadInv
    BY DEF IInv
  <1>1. /\ TableTypes' /\ BaselineInv'
        /\ Shrinks \/ Putting \/ Updating \/ CopyList \/ CopyPut
    BY <1>0, Moves
  <1>2. IdInv'
    BY <1>0, <1>1, ShrinkIds, PutIds, UpdateIds, ListIds, CopyPutIds
  <1>3. ContInv'
    BY <1>0, <1>1, ShrinkContiguous, PutContiguous, UpdateContiguous
  <1>4. ReadInv'
    BY <1>0, <1>1, ShrinkReadable, PutReadable, UpdateReadable, ListReadable, CopyPutReadable
  <1> QED
    BY <1>1, <1>2, <1>3, <1>4 DEF IInv

LEMMA StutterInv ==
    ASSUME IInv, UNCHANGED vars
    PROVE  IInv'
  <1>0. UNCHANGED <<exists, cps, writes, run, update, copy, last, ops, spoiled>>
    BY DEF vars
  <1>1. TableTypes'
    BY <1>0 DEF IInv, TableTypes
  <1>2. BaselineInv'
    <2>1. \A q \in Runs : \A v : Excused(q, v)' <=> Excused(q, v)
      BY <1>0 DEF Excused, Lives, Retried
    <2>2. BaseInv'
      BY <1>0, <2>1 DEF IInv, BaselineInv, TablesInv, BaseInv
    <2>3. WrittenInv'
      BY <1>0 DEF IInv, BaselineInv, TablesInv, WrittenInv, WrittenCp, WrittenWrite
    <2> QED
      BY <1>0, <2>2, <2>3, IdleRuns DEF IInv, BaselineInv, TablesInv
  <1>3. IdInv'
    BY <1>0 DEF IInv, IdInv, Known, Unique, Apart
  <1>4. ContInv'
    BY <1>0 DEF IInv, ContInv, Tail, AttemptsContiguous, Targets, On, Lives
  <1>5. ReadInv'
    BY <1>0 DEF IInv, ReadInv, Closed, Leads
  <1> QED
    BY <1>1, <1>2, <1>3, <1>4, <1>5 DEF IInv

\* The invariant holds in every state of every behaviour.
THEOREM Inductive == Spec => []IInv
  <1>1. Init => IInv
    BY InitInv
  <1>2. IInv /\ [Next]_vars => IInv'
    BY NextInv, StutterInv
  <1> QED
    BY <1>1, <1>2, PTL DEF Spec

\* The tables and the rows keep their types, and no thread has two checkpoints of an id:
\* (thread_id, checkpoint_ns, checkpoint_id) is the key of the table.
THEOREM TypeCorrect == Spec => []TypeOK
  <1>1. IInv => TypeOK
    BY DEF IInv, TableTypes, IdInv, Unique, TypeOK
  <1> QED
    BY <1>1, Inductive, PTL

\* HeadReadable: prune_checkpoints, rollback_run and threads_copy leave every thread
\* with a head whose ancestors are there as far as they are needed.
THEOREM HeadAlwaysReadable == Spec => []HeadReadable
  <1>1. IInv => HeadReadable
    <2> SUFFICES ASSUME IInv, ~spoiled, NEW t \in exists, NEW ns \in Namespaces,
                        HeadId(cps[t], ns) > 0
                 PROVE  \E c \in Chain(cps[t], HeadId(cps[t], ns)) : c.full \/ c.parent = 0
      BY DEF HeadReadable
    <2>1. TableTypes /\ IdInv /\ ReadInv /\ t \in Threads
      BY DEF IInv, TableTypes
    <2>2. PICK S \in SUBSET Checkpoint : S = cps[t]
      BY <2>1, TableFields
    <2>3. Closed(S) /\ Known(S)
      BY <2>1, <2>2 DEF ReadInv, IdInv
    <2>4. PICK c \in S : c.id = HeadId(S, ns)
      BY <2>2, HeadFacts
    <2>5. \E d \in Chain(S, c.id) : d.full \/ d.parent = 0
      BY <2>3, ClosedReadable
    <2> QED
      BY <2>2, <2>4, <2>5
  <1> QED
    BY <1>1, Inductive, PTL

\* AttemptsContiguous: the fence of FencedPostgresSaver keeps one attempt's checkpoints
\* together.
THEOREM AttemptsTogether == Spec => []AttemptsContiguous
  <1>1. IInv => AttemptsContiguous
    BY DEF IInv, ContInv
  <1> QED
    BY <1>1, Inductive, PTL

\* RollbackOwn: rollback_run, with the baseline that capture_baseline took, takes back
\* the run and nothing else.
THEOREM RollbackTakesOwn == Spec => RollbackOwn
  <1>1. ASSUME IInv, [Next]_vars
        PROVE  [\A r \in Runs : Gone(r) => TakesOwn(r)]_vars
    <2>1. CASE UNCHANGED vars
      BY <2>1
    <2>2. CASE Next
      <3>1. ASSUME NEW r \in Runs, Gone(r) PROVE TakesOwn(r)
        <4>1. TableTypes /\ BaselineInv
          BY <1>1 DEF IInv
        <4>2. RunsDelete(r) \/ Rollback(r)
          BY <2>2, <3>1, <4>1, GoneSteps
        <4>3. CASE RunsDelete(r)
          <5>1. UNCHANGED <<cps, writes>>
            BY <4>1, <4>3, RunsDeleteEffect
          <5> QED
            BY <5>1 DEF TakesOwn
        <4> QED
          BY <4>1, <4>2, <4>3, RollbackTakesItsOwn
      <3> QED
        BY <3>1
    <2> QED
      BY <1>1, <2>1, <2>2
  <1>2. IInv /\ [Next]_vars => [\A r \in Runs : Gone(r) => TakesOwn(r)]_vars
    BY <1>1
  <1> QED
    BY <1>2, Inductive, PTL DEF RollbackOwn, Spec
=============================================================================
