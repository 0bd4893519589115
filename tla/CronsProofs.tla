---------------------------- MODULE CronsProofs -----------------------------
(***************************************************************************)
(* Proofs about Assistants and Crons: the row of an assistant agrees with  *)
(* the version it names, versions are never replaced, and a cron is run at *)
(* most once each time it becomes due, for any number of assistants,       *)
(* requests, crons and schedulers.                                         *)
(***************************************************************************)
EXTENDS Crons, TLAPS

-----------------------------------------------------------------------------
(* The inductive invariant *)

\* A request in flight names a version there can be; an update the one after the
\* version it has loaded.
RequestInv ==
    \A c \in Clients : client[c].op # "none" =>
        /\ client[c].id \in Ids
        /\ client[c].to \in Numbers
        /\ client[c].op = "update" => client[c].to = client[c].from.version + 1

\* Nobody makes a cron that is there.
MakingInv == \A k \in making : ~cron[k].exists

\* What a scheduler has locked is due and nobody else has locked it.
TakenInv ==
    /\ \A s \in Schedulers : \A k \in taken[s] : Due(k)
    /\ \A s, t \in Schedulers : s # t => taken[s] \cap taken[t] = {}

\* A cron that is due has a tick in hand.
FireInv ==
    \A k \in Crons : /\ fired[k] <= ticks[k]
                     /\ cron[k].exists /\ cron[k].due => fired[k] < ticks[k]

CatalogueInv == RequestInv /\ RowIsVersion
CronInv == MakingInv /\ TakenInv /\ FireInv
IInv == TypeOK /\ CatalogueInv /\ CronInv

-----------------------------------------------------------------------------
(* Types *)

\* A session that writes its changed columns writes contents.
LEMMA WrittenType ==
    ASSUME NEW current \in Body, NEW from \in Body, NEW to \in Body
    PROVE  Written(current, from, to) \in Body
  BY DEF Written, Body

\* Over what it has loaded it writes just what the request wants.
LEMMA WrittenOver ==
    ASSUME NEW from \in Body, NEW to \in Body
    PROVE  Written(from, from, to) = to
  BY DEF Written, Body

LEMMA PatchedType ==
    ASSUME NEW b \in Body, NEW f \in Fields, NEW x \in Values
    PROVE  [b EXCEPT ![f] = x] \in Body
  BY DEF Body

\* Two tables with a cell of one row replaced.
LEMMA TablesType ==
    ASSUME AssistantsTypeOK, NEW a \in Ids, NEW v \in Numbers, NEW b \in Body,
           NEW w \in Numbers, NEW d \in Body
    PROVE  /\ [assistant EXCEPT ![a] = [version |-> v, body |-> b]] \in [Ids -> Row]
           /\ [versions EXCEPT ![a][w] = d] \in [Ids -> [Numbers -> Body \cup {NoBody}]]
  <1>1. [version |-> v, body |-> b] \in Row
    BY DEF Row, Numbers
  <1>2. versions[a] \in [Numbers -> Body \cup {NoBody}]
    BY DEF AssistantsTypeOK
  <1>3. [versions[a] EXCEPT ![w] = d] \in [Numbers -> Body \cup {NoBody}]
    BY <1>2
  <1> QED
    BY <1>1, <1>3 DEF AssistantsTypeOK

LEMMA MarkType ==
    ASSUME torn \subseteq Ids, NEW a \in Ids, NEW isTorn \in BOOLEAN, Mark(a, isTorn)
    PROVE  torn' \subseteq Ids
  BY DEF Mark

\* What a commit writes.
LEMMA FlushedType ==
    ASSUME AssistantsTypeOK, RequestInv, NEW c \in Clients, client[c].op # "none",
           Exists(client[c].id)
    PROVE  LET row == Flushed(c, assistant[client[c].id])
           IN  row.version \in Numbers /\ row.body \in Body
                 /\ row = [version |-> row.version, body |-> row.body]
  <1> DEFINE a == client[c].id
             row == Flushed(c, assistant[a])
  <1>1. a \in Ids /\ client[c].to \in Numbers
    BY DEF RequestInv
  <1>2. client[c] \in Request
    BY DEF AssistantsTypeOK
  <1>3. client[c].from \in Row /\ client[c].body \in Body
    BY <1>2 DEF Request
  <1>4. assistant[a] \in Row
    BY <1>1 DEF AssistantsTypeOK
  <1>5. assistant[a].version \in Numbers /\ assistant[a].body \in Body
    BY <1>4 DEF Row, Exists, Numbers
  <1>6. client[c].from.body \in Body
    BY <1>3 DEF Row
  <1>7. Written(assistant[a].body, client[c].from.body, client[c].body) \in Body
    BY <1>3, <1>5, <1>6, WrittenType
  <1> QED
    BY <1>1, <1>5, <1>7 DEF Flushed

\* A fresh request is well formed.
LEMMA LoadType ==
    ASSUME AssistantsTypeOK, RequestInv, NEW c \in Clients, NEW a \in Ids,
           NEW op \in {"update", "latest"}, NEW v \in Numbers, NEW b \in Body,
           op = "update" => v = assistant[a].version + 1,
           client' = [client EXCEPT ![c] = [op |-> op, id |-> a, from |-> assistant[a],
                                            to |-> v, body |-> b]]
    PROVE  client' \in [Clients -> Request] /\ RequestInv'
  <1> DEFINE new == [op |-> op, id |-> a, from |-> assistant[a], to |-> v, body |-> b]
  <1>1. assistant[a] \in Row
    BY DEF AssistantsTypeOK
  <1>2. new \in Request
    BY <1>1 DEF Request, Numbers
  <1>3. client' \in [Clients -> Request]
    BY <1>2 DEF AssistantsTypeOK
  <1>4. ASSUME NEW d \in Clients, client'[d].op # "none"
        PROVE  /\ client'[d].id \in Ids
               /\ client'[d].to \in Numbers
               /\ client'[d].op = "update" => client'[d].to = client'[d].from.version + 1
    <2>1. CASE d = c
      BY <2>1 DEF AssistantsTypeOK
    <2>2. CASE d # c
      <3>1. client'[d] = client[d]
        BY <2>2 DEF AssistantsTypeOK
      <3> QED
        BY <1>4, <3>1 DEF RequestInv
    <2> QED
      BY <2>1, <2>2
  <1>5. RequestInv'
    BY <1>4 DEF RequestInv
  <1> QED
    BY <1>3, <1>5

-----------------------------------------------------------------------------
(* Assistants *)

\* What is left of a request after its commit.
LEMMA DoneType ==
    ASSUME AssistantsTypeOK, RequestInv, NEW c \in Clients,
           client' = [client EXCEPT ![c] = NoRequest]
    PROVE  client' \in [Clients -> Request] /\ RequestInv'
  <1>1. NoRequest \in Request
    BY AssistantConstants DEF NoRequest, Request, NoRow, Row
  <1>2. client' \in [Clients -> Request]
    BY <1>1 DEF AssistantsTypeOK
  <1>3. ASSUME NEW d \in Clients, client'[d].op # "none"
        PROVE  client'[d] = client[d]
    BY <1>3 DEF AssistantsTypeOK, NoRequest
  <1>4. RequestInv'
    BY <1>3 DEF RequestInv
  <1> QED
    BY <1>2, <1>4

\* The tables after contents d have been stored as version w of a and the row of a
\* has been set to version v with contents b.
Stored(a, v, b, w, d) ==
    /\ assistant' = [assistant EXCEPT ![a] = [version |-> v, body |-> b]]
    /\ versions' = [versions EXCEPT ![a][w] = d]

\* A step that stores something only where nothing was, or what was there already,
\* replaces no version.
LEMMA StoredKeeps ==
    ASSUME AssistantsTypeOK, NEW a \in Ids, NEW v \in Numbers, NEW b \in Body,
           NEW w \in Numbers, NEW d \in Body, Stored(a, v, b, w, d),
           Taken(a, w) => versions[a][w] = d
    PROVE  \A e \in Ids, u \in Numbers : Taken(e, u) => versions'[e][u] = versions[e][u]
  <1> SUFFICES ASSUME NEW e \in Ids, NEW u \in Numbers, Taken(e, u)
               PROVE  versions'[e][u] = versions[e][u]
    OBVIOUS
  <1>1. versions[a] \in [Numbers -> Body \cup {NoBody}]
    BY DEF AssistantsTypeOK
  <1>2. versions'[e] = IF e = a THEN [versions[a] EXCEPT ![w] = d] ELSE versions[e]
    BY DEF AssistantsTypeOK, Stored
  <1> QED
    BY <1>1, <1>2

\* The same for the agreement of the row with its version, where the step leaves
\* the row untorn only if the two agree.
LEMMA StoredAgrees ==
    ASSUME AssistantsTypeOK, RowIsVersion, NEW a \in Ids, NEW v \in Numbers, NEW b \in Body,
           NEW w \in Numbers, NEW d \in Body, NEW isTorn \in BOOLEAN,
           Stored(a, v, b, w, d), Mark(a, isTorn),
           ~isTorn => v = w /\ b = d
    PROVE  RowIsVersion'
  <1> SUFFICES ASSUME NEW e \in Ids, Exists(e)', e \notin torn'
               PROVE  versions'[e][assistant'[e].version] = assistant'[e].body
    BY DEF RowIsVersion
  <1>1. CASE e = a
    <2>1. ~isTorn
      BY <1>1 DEF Mark
    <2>2. assistant'[a] = [version |-> v, body |-> b]
      BY DEF Stored, AssistantsTypeOK
    <2>3. versions'[a] = [versions[a] EXCEPT ![w] = d]
      BY DEF Stored, AssistantsTypeOK
    <2>4. versions[a] \in [Numbers -> Body \cup {NoBody}]
      BY DEF AssistantsTypeOK
    <2> QED
      BY <1>1, <2>1, <2>2, <2>3, <2>4
  <1>2. CASE e # a
    <2>1. assistant'[e] = assistant[e] /\ versions'[e] = versions[e]
      BY <1>2 DEF Stored, AssistantsTypeOK
    <2>2. e \notin torn
      BY <1>2 DEF Mark
    <2> QED
      BY <2>1, <2>2 DEF RowIsVersion, Exists
  <1> QED
    BY <1>1, <1>2

\* VersionsKept, of one step.
Kept ==
    \A a \in Ids, v \in Numbers :
        Taken(a, v) => versions'[a][v] \in {versions[a][v], NoBody}
                       /\ (versions'[a][v] = NoBody => assistant'[a] = NoRow)

\* What an assistant's step has to establish.
CatalogueGoal == AssistantsTypeOK' /\ CatalogueInv' /\ Kept

\* Storing contents, with the client left alone.
LEMMA StoreStep ==
    ASSUME AssistantsTypeOK, CatalogueInv, NEW a \in Ids, NEW v \in Numbers, NEW b \in Body,
           NEW w \in Numbers, NEW d \in Body, NEW isTorn \in BOOLEAN,
           Stored(a, v, b, w, d), Mark(a, isTorn), Taken(a, w) => versions[a][w] = d,
           ~isTorn => v = w /\ b = d
    PROVE  /\ assistant' \in [Ids -> Row]
           /\ versions' \in [Ids -> [Numbers -> Body \cup {NoBody}]]
           /\ torn' \subseteq Ids
           /\ RowIsVersion' /\ Kept
  <1>1. assistant' \in [Ids -> Row] /\ versions' \in [Ids -> [Numbers -> Body \cup {NoBody}]]
    BY TablesType DEF Stored
  <1>2. torn' \subseteq Ids
    BY MarkType DEF AssistantsTypeOK
  <1>3. RowIsVersion'
    BY StoredAgrees DEF CatalogueInv
  <1>4. \A e \in Ids, u \in Numbers : Taken(e, u) => versions'[e][u] = versions[e][u]
    BY StoredKeeps
  <1>5. Kept
    BY <1>4 DEF Kept, Taken
  <1> QED
    BY <1>1, <1>2, <1>3, <1>5

\* A step that leaves the tables alone.
LEMMA TablesSame ==
    ASSUME AssistantsTypeOK, CatalogueInv, UNCHANGED <<assistant, versions, torn>>
    PROVE  RowIsVersion' /\ Kept
  BY DEF CatalogueInv, RowIsVersion, Exists, Kept, Taken

LEMMA CreateStep ==
    ASSUME AssistantsTypeOK, CatalogueInv, NEW a \in Ids, NEW b \in Body,
           Create(a, b) \/ Put(a, b)
    PROVE  CatalogueGoal
  <1>1. 1 \in Numbers
    BY AssistantConstants DEF Numbers
  <1>2. UNCHANGED client
    BY DEF Create, Put
  <1>3. AssistantsTypeOK' /\ RequestInv' <=> 
           /\ assistant' \in [Ids -> Row]
           /\ versions' \in [Ids -> [Numbers -> Body \cup {NoBody}]]
           /\ torn' \subseteq Ids
    BY <1>2 DEF AssistantsTypeOK, CatalogueInv, RequestInv
  <1>4. CASE Create(a, b)
    <2>1. Stored(a, 1, b, 1, b) /\ Mark(a, FALSE) /\ ~Taken(a, 1)
      BY <1>4 DEF Create, Stored
    <2> QED
      BY <1>1, <1>3, <2>1, StoreStep DEF CatalogueGoal, CatalogueInv
  <1>5. CASE Put(a, b)
    <2> DEFINE d == IF Taken(a, 1) THEN versions[a][1] ELSE b
    <2>1. versions[a] \in [Numbers -> Body \cup {NoBody}]
      BY DEF AssistantsTypeOK
    <2>2. d \in Body
      BY <1>1, <2>1 DEF Taken
    <2>3. [versions EXCEPT ![a][1] = IF Taken(a, 1) THEN @ ELSE b]
            = [versions EXCEPT ![a][1] = d]
      BY <1>1, <2>1 DEF AssistantsTypeOK
    <2>4. Stored(a, 1, b, 1, d)
      BY <1>5, <2>3 DEF Put, Stored
    <2>5. Leftover(a, b) \in BOOLEAN /\ (~Leftover(a, b) => d = b)
      BY DEF Leftover
    <2>6. Mark(a, Leftover(a, b))
      BY <1>5 DEF Put
    <2> HIDE DEF d
    <2>7. Taken(a, 1) => versions[a][1] = d
      BY DEF d
    <2> QED
      BY <1>1, <1>3, <2>2, <2>4, <2>5, <2>6, <2>7, StoreStep DEF CatalogueGoal, CatalogueInv
  <1> QED
    BY <1>4, <1>5

LEMMA LoadStep ==
    ASSUME AssistantsTypeOK, CatalogueInv, NEW c \in Clients, NEW a \in Ids,
           \/ \E f \in Fields, x \in Values : LoadUpdate(c, a, f, x)
           \/ \E v \in Numbers : LoadLatest(c, a, v)
    PROVE  CatalogueGoal
  <1>1. UNCHANGED <<assistant, versions, torn>>
    BY DEF LoadUpdate, LoadLatest
  <1>2. RowIsVersion' /\ Kept
    BY <1>1, TablesSame
  <1>3. client' \in [Clients -> Request] /\ RequestInv'
    <2>1. CASE \E f \in Fields, x \in Values : LoadUpdate(c, a, f, x)
      <3> PICK f \in Fields, x \in Values : LoadUpdate(c, a, f, x)
        BY <2>1
      <3> DEFINE v == assistant[a].version + 1
                 b == [assistant[a].body EXCEPT ![f] = x]
      <3>1. assistant[a] \in Row
        BY DEF AssistantsTypeOK
      <3>2. v \in Numbers
        BY <3>1, AssistantConstants DEF LoadUpdate, Row, Numbers
      <3>3. b \in Body
        BY <3>1, PatchedType DEF Row
      <3>4. client' = [client EXCEPT ![c] = [op |-> "update", id |-> a, from |-> assistant[a],
                                             to |-> v, body |-> b]]
        BY DEF LoadUpdate
      <3> QED
        BY <3>2, <3>3, <3>4, LoadType DEF CatalogueInv
    <2>2. CASE \E v \in Numbers : LoadLatest(c, a, v)
      <3> PICK v \in Numbers : LoadLatest(c, a, v)
        BY <2>2
      <3>1. versions[a] \in [Numbers -> Body \cup {NoBody}]
        BY DEF AssistantsTypeOK
      <3>2. versions[a][v] \in Body
        BY <3>1 DEF LoadLatest, Taken
      <3>3. client' = [client EXCEPT ![c] = [op |-> "latest", id |-> a, from |-> assistant[a],
                                             to |-> v, body |-> versions[a][v]]]
        BY DEF LoadLatest
      <3> QED
        BY <3>2, <3>3, LoadType DEF CatalogueInv
    <2> QED
      BY <2>1, <2>2
  <1> QED
    BY <1>1, <1>2, <1>3 DEF CatalogueGoal, CatalogueInv, AssistantsTypeOK

\* A request that commits writes what it wants where nothing is, or finds its row
\* changed and leaves it torn.
LEMMA CommitStep ==
    ASSUME AssistantsTypeOK, CatalogueInv, NEW c \in Clients, Commit(c)
    PROVE  CatalogueGoal
  <1> DEFINE a == client[c].id
             from == client[c].from
             to == client[c].to
             body == client[c].body
             row == Flushed(c, assistant[a])
  <1>1. client[c].op # "none" /\ client' = [client EXCEPT ![c] = NoRequest]
    BY DEF Commit
  <1>2. client' \in [Clients -> Request] /\ RequestInv'
    BY <1>1, DoneType DEF CatalogueInv
  <1>3. /\ a \in Ids
        /\ to \in Numbers
        /\ client[c].op = "update" => to = from.version + 1
    BY <1>1 DEF CatalogueInv, RequestInv
  <1>4. client[c] \in Request
    BY DEF AssistantsTypeOK
  <1>5. client[c].op \in {"update", "latest"} /\ from \in Row /\ body \in Body
    BY <1>1, <1>4 DEF Request
  <1>6. CASE Conflict(c) \/ ~Exists(a)
    <2>1. UNCHANGED <<assistant, versions, torn>>
      BY <1>6 DEF Commit
    <2> QED
      BY <1>2, <2>1, TablesSame DEF CatalogueGoal, CatalogueInv, AssistantsTypeOK
  <1>7. CASE ~(Conflict(c) \/ ~Exists(a))
    <2>1. /\ assistant' = [assistant EXCEPT ![a] = row]
          /\ versions' = IF client[c].op = "update" THEN [versions EXCEPT ![a][to] = body]
                         ELSE versions
          /\ Mark(a, Overtaken(c))
      BY <1>3, <1>7 DEF Commit, AssistantsTypeOK
    <2>2. row.version \in Numbers /\ row.body \in Body
            /\ row = [version |-> row.version, body |-> row.body]
      BY <1>1, <1>7, FlushedType DEF CatalogueInv
    <2>3. Overtaken(c) \in BOOLEAN
      BY DEF Overtaken
    <2>4. ~Overtaken(c) => row.version = to /\ row.body = body
      <3> SUFFICES ASSUME ~Overtaken(c) PROVE row.version = to /\ row.body = body
        OBVIOUS
      <3>1. assistant[a] = from
        BY DEF Overtaken
      <3>2. from.body \in Body
        BY <1>5 DEF Row
      <3>3. row.body = body
        BY <1>5, <3>1, <3>2, WrittenOver DEF Flushed
      <3>4. row.version = to
        BY <3>1 DEF Flushed
      <3> QED
        BY <3>3, <3>4
    <2> HIDE DEF row
    <2>5. CASE client[c].op = "update"
      <3>1. ~Taken(a, to)
        BY <1>7, <2>5 DEF Conflict
      <3>2. Stored(a, row.version, row.body, to, body)
        BY <2>1, <2>2, <2>5 DEF Stored
      <3>3. /\ assistant' \in [Ids -> Row]
            /\ versions' \in [Ids -> [Numbers -> Body \cup {NoBody}]]
            /\ torn' \subseteq Ids
            /\ RowIsVersion' /\ Kept
        BY <1>3, <1>5, <2>1, <2>2, <2>3, <2>4, <3>1, <3>2, StoreStep
      <3> QED
        BY <1>2, <3>3 DEF CatalogueGoal, CatalogueInv, AssistantsTypeOK
    <2>6. CASE client[c].op = "latest"
      <3>1. versions' = versions /\ assistant' = [assistant EXCEPT ![a] = row]
        BY <2>1, <2>6
      <3>2. row \in Row
        BY <2>2 DEF Row, Numbers
      <3>3. assistant' \in [Ids -> Row] /\ torn' \subseteq Ids
        BY <1>3, <2>1, <2>3, <3>1, <3>2, MarkType DEF AssistantsTypeOK
      <3>4. Kept
        BY <3>1 DEF Kept, Taken
      <3>5. ASSUME NEW e \in Ids, Exists(e)', e \notin torn'
            PROVE  versions'[e][assistant'[e].version] = assistant'[e].body
        <4>1. CASE e = a
          <5>1. ~Overtaken(c)
            BY <2>1, <3>5, <4>1 DEF Mark
          <5>2. versions[a][to] = body
            BY <2>6, <5>1 DEF Overtaken
          <5> QED
            BY <1>3, <2>4, <3>1, <4>1, <5>1, <5>2 DEF AssistantsTypeOK
        <4>2. CASE e # a
          <5>1. assistant'[e] = assistant[e] /\ e \notin torn
            BY <2>1, <3>1, <3>5, <4>2 DEF Mark, AssistantsTypeOK
          <5> QED
            BY <3>1, <3>5, <5>1 DEF CatalogueInv, RowIsVersion, Exists
        <4> QED
          BY <4>1, <4>2
      <3>6. RowIsVersion'
        BY <3>5 DEF RowIsVersion
      <3> QED
        BY <1>2, <3>1, <3>3, <3>4, <3>6 DEF CatalogueGoal, CatalogueInv, AssistantsTypeOK
    <2> QED
      BY <1>5, <2>5, <2>6
  <1> QED
    BY <1>6, <1>7

LEMMA PatchStep ==
    ASSUME AssistantsTypeOK, CatalogueInv, NEW a \in Ids, NEW f \in Fields, NEW x \in Values,
           Patch(a, f, x)
    PROVE  CatalogueGoal
  <1> DEFINE b == [assistant[a].body EXCEPT ![f] = x]
  <1>1. PICK v \in Numbers : NextVersion(a, v) /\ PatchFields(a, v, b)
    BY DEF Patch
  <1>2. UNCHANGED client
    BY DEF Patch
  <1>3. assistant[a] \in Row
    BY DEF AssistantsTypeOK
  <1>4. b \in Body
    BY <1>3, PatchedType DEF Row
  <1>5. ~Taken(a, v)
    BY <1>1 DEF NextVersion, Numbers
  <1> HIDE DEF b
  <1>6. Stored(a, v, b, v, b) /\ Mark(a, FALSE)
    BY <1>1 DEF PatchFields, Stored
  <1>7. /\ assistant' \in [Ids -> Row]
        /\ versions' \in [Ids -> [Numbers -> Body \cup {NoBody}]]
        /\ torn' \subseteq Ids
        /\ RowIsVersion' /\ Kept
    BY <1>4, <1>5, <1>6, StoreStep
  <1> QED
    BY <1>2, <1>7 DEF CatalogueGoal, CatalogueInv, RequestInv, AssistantsTypeOK

LEMMA DeleteStep ==
    ASSUME AssistantsTypeOK, CatalogueInv, NEW a \in Ids, Delete(a) \/ DeleteRow(a)
    PROVE  CatalogueGoal
  <1> DEFINE none == [v \in Numbers |-> NoBody]
  <1>1. NoRow \in Row
    BY AssistantConstants DEF NoRow, Row
  <1>2. none \in [Numbers -> Body \cup {NoBody}]
    OBVIOUS
  <1>3. /\ assistant' = [assistant EXCEPT ![a] = NoRow]
        /\ versions' = versions \/ versions' = [versions EXCEPT ![a] = none]
        /\ UNCHANGED <<client, torn>>
    BY DEF Delete, DeleteRow
  <1>4. AssistantsTypeOK' /\ RequestInv'
    BY <1>1, <1>2, <1>3 DEF AssistantsTypeOK, CatalogueInv, RequestInv
  <1>5. ASSUME NEW e \in Ids, NEW v \in Numbers, Taken(e, v)
        PROVE  versions'[e][v] \in {versions[e][v], NoBody}
                 /\ (versions'[e][v] = NoBody => assistant'[e] = NoRow)
    <2>1. CASE e = a
      BY <1>3, <2>1, <1>1, <1>5 DEF AssistantsTypeOK, Taken
    <2>2. CASE e # a
      BY <1>3, <2>2, <1>5 DEF AssistantsTypeOK, Taken
    <2> QED
      BY <2>1, <2>2
  <1>6. ASSUME NEW e \in Ids, Exists(e)', e \notin torn'
        PROVE  versions'[e][assistant'[e].version] = assistant'[e].body
    <2>1. e # a
      BY <1>3, <1>6 DEF AssistantsTypeOK, Exists, NoRow
    <2>2. assistant'[e] = assistant[e] /\ versions'[e] = versions[e]
      BY <1>3, <2>1 DEF AssistantsTypeOK
    <2> QED
      BY <1>3, <1>6, <2>2 DEF CatalogueInv, RowIsVersion, Exists
  <1> QED
    BY <1>4, <1>5, <1>6 DEF CatalogueGoal, CatalogueInv, RowIsVersion, Kept

\* Whatever happens to assistants, versions are kept.
LEMMA CatalogueStep ==
    ASSUME TypeOK, CatalogueInv, Next
    PROVE  CatalogueGoal
  <1>0. AssistantsTypeOK
    BY DEF TypeOK
  <1>1. CASE AssistantsStep
    <2>1. CASE \E a \in Ids, b \in Body : Create(a, b) \/ Put(a, b)
      BY <1>0, <2>1, CreateStep
    <2>2. CASE \E a \in Ids : RegisterDefault(a)
      BY <1>0, <2>2, CreateStep, AssistantConstants DEF RegisterDefault
    <2>3. CASE \E c \in Clients, a \in Ids :
                  \/ \E f \in Fields, x \in Values : LoadUpdate(c, a, f, x)
                  \/ \E v \in Numbers : LoadLatest(c, a, v)
      BY <1>0, <2>3, LoadStep
    <2>4. CASE \E c \in Clients : Commit(c)
      BY <1>0, <2>4, CommitStep
    <2>5. CASE \E a \in Ids, f \in Fields, x \in Values : Patch(a, f, x)
      BY <1>0, <2>5, PatchStep
    <2> QED
      BY <1>1, <2>1, <2>2, <2>3, <2>4, <2>5 DEF AssistantsStep
  <1>2. CASE \E a \in Ids : AssistantDelete(a) \/ AssistantDeleteRow(a)
    BY <1>0, <1>2, DeleteStep DEF AssistantDelete, AssistantDeleteRow
  <1>3. CASE UNCHANGED assistantVars
    <2>1. UNCHANGED <<assistant, versions, torn>> /\ client' = client
      BY <1>3 DEF assistantVars
    <2> QED
      BY <1>0, <2>1, TablesSame
         DEF CatalogueGoal, CatalogueInv, AssistantsTypeOK, RequestInv
  <1> QED
    BY <1>1, <1>2, <1>3
       DEF Next, CronPut, CronCreate, CronUpdate, CronUpdateRow, CheckRefs, CronDelete, Tick,
           End, CronNext, SchedulerCommit, SchedulerAbort

-----------------------------------------------------------------------------
(* Crons *)

CronTypeOK ==
    /\ cron \in [Crons -> CronRow]
    /\ making \subseteq Crons
    /\ taken \in [Schedulers -> SUBSET Crons]
    /\ ticks \in [Crons -> 0..MaxTicks]
    /\ fired \in [Crons -> Nat]

\* A step of requests or of time sets the row of one cron, which no scheduler has
\* locked unless the row only becomes due that was not; whoever makes the row due
\* counts a tick.
RowSet(k, new) ==
    /\ cron' = [cron EXCEPT ![k] = new]
    /\ making' \in {making, making \ {k}}
    /\ UNCHANGED <<taken, fired>>
    /\ \/ ticks' = ticks /\ (new.exists /\ new.due => cron[k].exists /\ cron[k].due)
       \/ ticks[k] < MaxTicks /\ ticks' = [ticks EXCEPT ![k] = @ + 1]

LEMMA RowSetStep ==
    ASSUME CronTypeOK, CronInv, NEW k \in Crons, NEW new \in CronRow, RowSet(k, new), ~Locked(k),
           k \in making' => ~new.exists
    PROVE  CronTypeOK' /\ CronInv'
  <1>1. cron' \in [Crons -> CronRow] /\ making' \subseteq Crons /\ taken' = taken
          /\ fired' = fired
    BY DEF CronTypeOK, RowSet
  <1>2. \A j \in Crons : cron'[j] = IF j = k THEN new ELSE cron[j]
    BY DEF CronTypeOK, RowSet
  <1>3. ticks' \in [Crons -> 0..MaxTicks]
    BY CronConstants DEF CronTypeOK, RowSet
  <1>4. CronTypeOK'
    BY <1>1, <1>3 DEF CronTypeOK
  <1>5. MakingInv'
    BY <1>1, <1>2 DEF MakingInv, CronInv, RowSet
  <1>6. TakenInv'
    BY <1>1, <1>2 DEF TakenInv, CronInv, CronTypeOK, Locked, Due
  <1>7. ASSUME NEW j \in Crons
        PROVE  /\ fired'[j] <= ticks'[j]
               /\ cron'[j].exists /\ cron'[j].due => fired'[j] < ticks'[j]
    <2>1. fired[j] \in Nat /\ ticks[j] \in Nat /\ fired[j] <= ticks[j]
            /\ (cron[j].exists /\ cron[j].due => fired[j] < ticks[j])
      BY CronConstants DEF CronTypeOK, CronInv, FireInv
    <2>2. CASE j # k
      BY <1>1, <1>2, <2>1, <2>2 DEF RowSet, CronTypeOK
    <2>3. CASE j = k /\ ticks' = ticks /\ (new.exists /\ new.due => cron[k].exists /\ cron[k].due)
      BY <1>1, <1>2, <2>1, <2>3
    <2>4. CASE j = k /\ ticks' = [ticks EXCEPT ![k] = @ + 1]
      <3>1. ticks'[j] = ticks[j] + 1
        BY <2>4 DEF CronTypeOK
      <3> QED
        BY <1>1, <2>1, <3>1
    <2> QED
      BY <2>2, <2>3, <2>4 DEF RowSet
  <1>8. FireInv'
    BY <1>7 DEF FireInv
  <1> QED
    BY <1>4, <1>5, <1>6, <1>8 DEF CronInv

\* A locked cron is there and due, and nobody is making it.
LEMMA LockedDue ==
    ASSUME CronTypeOK, CronInv, NEW k \in Crons, Locked(k)
    PROVE  Due(k) /\ k \notin making
  BY DEF CronInv, TakenInv, MakingInv, Locked, Due

LEMMA RequestStep ==
    ASSUME CronTypeOK, CronInv, NEW k \in Crons,
           \/ CheckRefs(k) \/ CronDelete(k) \/ Tick(k) \/ End(k)
           \/ \E on \in BOOLEAN : CronPut(k, on) \/ CronCreate(k, on)
           \/ \E on, extend, reschedule \in BOOLEAN : CronUpdate(k, on, extend, reschedule)
    PROVE  CronTypeOK' /\ CronInv'
  <1>0. cron[k] \in CronRow
    BY DEF CronTypeOK
  <1>1. CASE CheckRefs(k)
    BY <1>1 DEF CheckRefs, CronTypeOK, CronInv, MakingInv, TakenInv, FireInv, Due
  <1>2. CASE CronDelete(k)
    <2>1. RowSet(k, NoCron) /\ ~Locked(k)
      BY <1>2 DEF CronDelete, RowSet, NoCron
    <2> QED
      BY <2>1, RowSetStep DEF NoCron, CronRow
  <1>3. CASE Tick(k)
    <2> DEFINE new == [cron[k] EXCEPT !.due = TRUE]
    <2>1. new \in CronRow
      BY <1>0 DEF CronRow
    <2>2. RowSet(k, new)
      BY <1>3 DEF Tick, RowSet, CronTypeOK
    <2>3. ~Locked(k) /\ k \notin making'
      BY <1>3, LockedDue DEF Tick, Due, CronInv, MakingInv
    <2> QED
      BY <2>1, <2>2, <2>3, RowSetStep
  <1>4. CASE End(k)
    <2> DEFINE new == [cron[k] EXCEPT !.over = TRUE]
    <2>1. new \in CronRow /\ new.exists = cron[k].exists /\ new.due = cron[k].due
      BY <1>0 DEF CronRow
    <2>2. RowSet(k, new)
      BY <1>4, <2>1 DEF End, RowSet, CronTypeOK
    <2>3. ~Locked(k) /\ k \notin making'
      BY <1>4, <2>1 DEF End, CronInv, MakingInv
    <2> QED
      BY <2>1, <2>2, <2>3, RowSetStep
  <1>5. ASSUME NEW on \in BOOLEAN, CronPut(k, on)
        PROVE  CronTypeOK' /\ CronInv'
    <2> DEFINE new == [NoCron EXCEPT !.exists = TRUE, !.enabled = on]
    <2>1. new \in CronRow /\ ~new.due
      BY DEF CronRow, NoCron
    <2>2. RowSet(k, new) /\ ~Locked(k) /\ k \notin making'
      BY <1>5, <2>1, LockedDue DEF CronPut, RowSet
    <2> QED
      BY <2>1, <2>2, RowSetStep
  <1>6. ASSUME NEW on \in BOOLEAN, CronCreate(k, on)
        PROVE  CronTypeOK' /\ CronInv'
    <2> DEFINE new == [NoCron EXCEPT !.exists = TRUE, !.enabled = on, !.due = TRUE]
    <2>1. new \in CronRow
      BY DEF CronRow, NoCron
    <2>2. RowSet(k, new) /\ ~Locked(k) /\ k \notin making'
      BY <1>6, LockedDue DEF CronCreate, RowSet
    <2> QED
      BY <2>1, <2>2, RowSetStep
  <1>7. ASSUME NEW on \in BOOLEAN, NEW extend \in BOOLEAN, NEW reschedule \in BOOLEAN,
               CronUpdate(k, on, extend, reschedule)
        PROVE  CronTypeOK' /\ CronInv'
    <2> DEFINE old == IF reschedule THEN Rescheduled(cron[k]) ELSE cron[k]
               new == [old EXCEPT !.enabled = on, !.over = @ /\ ~extend]
    <2>1. old \in CronRow /\ old.exists = cron[k].exists /\ (old.due => cron[k].due)
      BY <1>0 DEF Rescheduled, CronRow
    <2> HIDE DEF old
    <2>2. new \in CronRow /\ new.exists = old.exists /\ new.due = old.due
      BY <2>1 DEF CronRow
    <2>3. cron' = [cron EXCEPT ![k] = new]
      BY <1>7 DEF CronUpdate, old
    <2>4. RowSet(k, new)
      BY <1>7, <2>1, <2>2, <2>3 DEF CronUpdate, RowSet
    <2>5. ~Locked(k) /\ k \notin making'
      BY <1>7 DEF CronUpdate, CronInv, MakingInv
    <2> QED
      BY <2>2, <2>4, <2>5, RowSetStep
  <1> QED
    BY <1>1, <1>2, <1>3, <1>4, <1>5, <1>6, <1>7

LEMMA SchedulerStep ==
    ASSUME CronTypeOK, CronInv, NEW s \in Schedulers,
           CronNext(s) \/ SchedulerCommit(s) \/ SchedulerAbort(s)
    PROVE  CronTypeOK' /\ CronInv'
  <1>1. CASE CronNext(s)
    <2>1. CronTypeOK'
      BY <1>1 DEF CronNext, CronTypeOK
    <2>2. \A t \in Schedulers :
             taken'[t] = IF t = s THEN {k \in Crons : Due(k) /\ Free(k)} ELSE taken[t]
      BY <1>1 DEF CronNext, CronTypeOK
    <2>3. UNCHANGED <<cron, making, ticks, fired>>
      BY <1>1 DEF CronNext
    <2>4. TakenInv'
      BY <2>2, <2>3 DEF CronInv, TakenInv, Due, Free, Locked
    <2> QED
      BY <2>1, <2>3, <2>4 DEF CronInv, MakingInv, FireInv
  <1>2. CASE SchedulerAbort(s)
    <2>1. CronTypeOK'
      BY <1>2 DEF SchedulerAbort, CronTypeOK
    <2>2. \A t \in Schedulers : taken'[t] = IF t = s THEN {} ELSE taken[t]
      BY <1>2 DEF SchedulerAbort, CronTypeOK
    <2>3. UNCHANGED <<cron, making, ticks, fired>>
      BY <1>2 DEF SchedulerAbort
    <2>4. TakenInv'
      BY <2>2, <2>3 DEF CronInv, TakenInv, Due
    <2> QED
      BY <2>1, <2>3, <2>4 DEF CronInv, MakingInv, FireInv
  <1>3. CASE SchedulerCommit(s)
    <2>0. taken[s] \subseteq Crons
      BY DEF CronTypeOK
    <2>1. \A t \in Schedulers : taken'[t] = IF t = s THEN {} ELSE taken[t]
      BY <1>3 DEF SchedulerCommit, CronTypeOK
    <2>2. \A k \in Crons : cron'[k] = IF k \in taken[s] THEN [cron[k] EXCEPT !.due = FALSE]
                                      ELSE cron[k]
      BY <1>3 DEF SchedulerCommit
    <2>3. \A k \in Crons : fired'[k] = IF k \in taken[s] THEN fired[k] + 1 ELSE fired[k]
      BY <1>3 DEF SchedulerCommit
    <2>4. \A k \in Crons : cron'[k] \in CronRow /\ cron'[k].exists = cron[k].exists
                           /\ (k \in taken[s] => ~cron'[k].due)
                           /\ (k \notin taken[s] => cron'[k] = cron[k])
      BY <2>2 DEF CronTypeOK, CronRow
    <2>5. UNCHANGED <<making, ticks>>
      BY <1>3 DEF SchedulerCommit
    <2>6. CronTypeOK'
      <3>1. cron' \in [Crons -> CronRow]
        BY <1>3, <2>4 DEF SchedulerCommit
      <3>2. fired' \in [Crons -> Nat]
        BY <1>3 DEF SchedulerCommit, CronTypeOK
      <3>3. taken' \in [Schedulers -> SUBSET Crons]
        BY <1>3 DEF SchedulerCommit, CronTypeOK
      <3> QED
        BY <2>5, <3>1, <3>2, <3>3 DEF CronTypeOK
    <2>7. MakingInv'
      BY <2>4, <2>5 DEF CronInv, MakingInv, CronTypeOK
    <2>8. TakenInv'
      <3>1. ASSUME NEW t \in Schedulers, NEW k \in taken'[t]
            PROVE  Due(k)'
        <4>1. t # s /\ k \in taken[t]
          BY <2>1, <3>1
        <4>2. k \notin taken[s] /\ Due(k) /\ k \in Crons
          BY <4>1 DEF CronInv, TakenInv, CronTypeOK
        <4> QED
          BY <2>4, <4>2 DEF Due
      <3>2. \A t, u \in Schedulers : t # u => taken'[t] \cap taken'[u] = {}
        BY <2>1 DEF CronInv, TakenInv
      <3> QED
        BY <3>1, <3>2 DEF TakenInv
    <2>9. ASSUME NEW k \in Crons
          PROVE  /\ fired'[k] <= ticks'[k]
                 /\ cron'[k].exists /\ cron'[k].due => fired'[k] < ticks'[k]
      <3>1. fired[k] \in Nat /\ ticks[k] \in Nat /\ fired[k] <= ticks[k]
              /\ (cron[k].exists /\ cron[k].due => fired[k] < ticks[k])
        BY CronConstants DEF CronTypeOK, CronInv, FireInv
      <3>2. CASE k \in taken[s]
        <4>1. fired[k] < ticks[k]
          BY <3>1, <3>2 DEF CronInv, TakenInv, Due
        <4>2. fired'[k] = fired[k] + 1
          BY <2>3, <3>2
        <4> QED
          BY <2>4, <2>5, <3>1, <3>2, <4>1, <4>2
      <3>3. CASE k \notin taken[s]
        BY <2>3, <2>4, <2>5, <3>1, <3>3
      <3> QED
        BY <3>2, <3>3
    <2>10. FireInv'
      BY <2>9 DEF FireInv
    <2> QED
      BY <2>6, <2>7, <2>8, <2>10 DEF CronInv
  <1> QED
    BY <1>1, <1>2, <1>3

\* Whatever happens to crons, a tick is spent once.
LEMMA CronStep ==
    ASSUME TypeOK, CronInv, Next
    PROVE  CronTypeOK' /\ CronInv'
  <1>0. CronTypeOK
    BY DEF TypeOK, CronTypeOK
  <1>1. CASE UNCHANGED cronVars
    <2>1. UNCHANGED <<cron, making, taken, ticks, fired>>
      BY <1>1 DEF cronVars
    <2> QED
      BY <1>0, <2>1 DEF CronTypeOK, CronInv, MakingInv, TakenInv, FireInv, Due
  <1>2. ASSUME NEW a \in Ids, AssistantDelete(a)
        PROVE  CronTypeOK' /\ CronInv'
    <2>1. \A k \in Crons : cron'[k] = IF k \in DeletedWith(a) THEN NoCron ELSE cron[k]
      BY <1>2 DEF AssistantDelete
    <2>2. UNCHANGED <<making, taken, ticks, fired>> /\ \A k \in DeletedWith(a) : ~Locked(k)
      BY <1>2 DEF AssistantDelete
    <2>3. NoCron \in CronRow /\ ~NoCron.exists
      BY DEF NoCron, CronRow
    <2>4. CronTypeOK'
      BY <1>0, <1>2, <2>2, <2>3 DEF AssistantDelete, CronTypeOK
    <2>5. MakingInv' /\ FireInv'
      BY <1>0, <2>1, <2>2, <2>3 DEF CronInv, MakingInv, FireInv, CronTypeOK
    <2>6. \A s \in Schedulers : \A k \in taken[s] : cron'[k] = cron[k]
      BY <1>0, <2>1, <2>2 DEF CronTypeOK, Locked
    <2>7. TakenInv'
      BY <2>2, <2>6 DEF CronInv, TakenInv, Due
    <2> QED
      BY <2>4, <2>5, <2>7 DEF CronInv
  <1>3. ASSUME NEW a \in Ids, AssistantDeleteRow(a)
        PROVE  UNCHANGED cronVars
    BY <1>3 DEF AssistantDeleteRow, cronVars
  <1>4. ASSUME NEW k \in Crons, NEW on \in BOOLEAN,
               \/ CronPut(k, on) \/ CronCreate(k, on)
               \/ \E extend \in BOOLEAN :
                     CronUpdate(k, on, extend, TRUE) \/ CronUpdateRow(k, on, extend)
        PROVE  CronTypeOK' /\ CronInv'
    BY <1>0, <1>4, RequestStep DEF CronUpdateRow
  <1>5. ASSUME NEW k \in Crons, CheckRefs(k) \/ CronDelete(k) \/ Tick(k) \/ End(k)
        PROVE  CronTypeOK' /\ CronInv'
    BY <1>0, <1>5, RequestStep
  <1>6. ASSUME NEW s \in Schedulers, CronNext(s) \/ SchedulerCommit(s) \/ SchedulerAbort(s)
        PROVE  CronTypeOK' /\ CronInv'
    BY <1>0, <1>6, SchedulerStep
  <1> QED
    BY <1>1, <1>2, <1>3, <1>4, <1>5, <1>6 DEF Next

-----------------------------------------------------------------------------
(* Theorems *)

LEMMA InitInv == Init => IInv
  <1> SUFFICES ASSUME Init PROVE IInv
    OBVIOUS
  <1>1. TypeOK
    <2>1. NoRow \in Row /\ NoRequest \in Request
      BY AssistantConstants DEF NoRow, NoRequest, Row, Request
    <2>2. NoCron \in CronRow
      BY DEF NoCron, CronRow
    <2>3. 0 \in 0..MaxTicks
      BY CronConstants
    <2> QED
      BY <2>1, <2>2, <2>3 DEF Init, AssistantsInit, TypeOK, AssistantsTypeOK
  <1>2. CatalogueInv
    BY DEF Init, AssistantsInit, CatalogueInv, RequestInv, RowIsVersion, Exists, NoRow, NoRequest
  <1>3. CronInv
    BY DEF Init, CronInv, MakingInv, TakenInv, FireInv, NoCron
  <1> QED
    BY <1>1, <1>2, <1>3 DEF IInv

LEMMA NextInv == IInv /\ [Next]_vars => IInv'
  <1> SUFFICES ASSUME IInv, [Next]_vars PROVE IInv'
    OBVIOUS
  <1>1. CASE Next
    BY <1>1, CatalogueStep, CronStep DEF IInv, CatalogueGoal, TypeOK, CronTypeOK
  <1>2. CASE UNCHANGED vars
    <2>1. /\ UNCHANGED <<assistant, versions, torn, client>>
          /\ UNCHANGED <<cron, making, taken, ticks, fired>>
      BY <1>2 DEF vars, assistantVars, cronVars
    <2> QED
      BY <2>1 DEF IInv, TypeOK, AssistantsTypeOK, CatalogueInv, RequestInv, RowIsVersion, Exists,
                  CronInv, MakingInv, TakenInv, FireInv, Due
  <1> QED
    BY <1>1, <1>2

\* Assistants, requests, crons and schedulers together keep the invariant.
THEOREM Inductive == Spec => []IInv
  BY InitInv, NextInv, PTL DEF Spec

\* The tables, the requests and the transactions of schedulers keep their types.
THEOREM TypeCorrect == Spec => []TypeOK
  <1>1. IInv => TypeOK
    BY DEF IInv
  <1> QED
    BY <1>1, Inductive, PTL

\* An assistant's row is the version it says it is, unless a request wrote over a
\* change it had not seen: whatever creations, updates without a lock, patches under
\* one, switches of the version and deletions are interleaved.
THEOREM RowMatches == Spec => []RowIsVersion
  <1>1. IInv => RowIsVersion
    BY DEF IInv, CatalogueInv
  <1> QED
    BY <1>1, Inductive, PTL

\* A version that was written is never replaced, however many updates have computed
\* its number: it goes only with the row and all other versions.
THEOREM VersionsStay == Spec => VersionsKept
  <1>1. IInv /\ [Next]_vars => [Kept]_versions
    <2> SUFFICES ASSUME IInv, [Next]_vars, versions' # versions PROVE Kept
      OBVIOUS
    <2>1. Next
      BY DEF vars, assistantVars
    <2> QED
      BY <2>1, CatalogueStep DEF IInv, CatalogueGoal
  <1>2. [Kept]_versions =>
          [\A a \in Ids, v \in Numbers :
              Taken(a, v) => versions'[a][v] \in {versions[a][v], NoBody}
                             /\ (versions'[a][v] = NoBody => assistant'[a] = NoRow)]_versions
    BY DEF Kept
  <1> QED
    BY <1>1, <1>2, Inductive, PTL DEF Spec, VersionsKept

\* A cron is run at most once each time it becomes due, although schedulers poll at
\* the same time, die before they commit and poll again, and requests change the row.
THEOREM FiresOnce == Spec => []FiresOncePerTick
  <1>1. IInv => FiresOncePerTick
    BY DEF IInv, CronInv, FireInv, FiresOncePerTick
  <1> QED
    BY <1>1, Inductive, PTL

=============================================================================
