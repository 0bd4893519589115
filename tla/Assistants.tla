----------------------------- MODULE Assistants -----------------------------
(***************************************************************************)
(* Assistants and their versions: the assistants and assistant_versions    *)
(* tables as the HTTP endpoints (core_api.py) and the LangGraph runtime    *)
(* contract (ops.py, Assistants) change them.  There is no foreign key     *)
(* between the two tables; the primary key (assistant_id, version) is the  *)
(* only thing the database enforces.                                       *)
(*                                                                         *)
(* assistants_update, assistants_latest and Assistants.set_latest load the *)
(* row without a lock; the session then writes the columns whose value     *)
(* differs from what it loaded.  These are two steps, Load... and          *)
(* Commit....  Assistants.patch locks the row and is one step.             *)
(***************************************************************************)
EXTENDS Integers

CONSTANTS
    Ids,          \* assistant ids
    Clients,      \* requests in flight
    NoId,         \* a client without a request
    Fields,       \* columns of a version: graph_id, config, context, ...
    Values,       \* contents of a column
    Default,      \* the contents that register_default_assistants writes
    NoBody,       \* no such version
    MaxVersion    \* bound on version numbers

Body == [Fields -> Values]

ASSUME AssistantConstants ==
    /\ NoId \notin Ids
    /\ Default \in Body
    /\ NoBody \notin Body
    /\ MaxVersion \in Nat \ {0}

VARIABLES
    assistant,    \* the assistants table; version 0: no row
    versions,     \* the assistant_versions table
    client,       \* what a request has loaded
    torn          \* history: rows last written over something unseen

Row == [version : 0..MaxVersion, body : Body]
NoRow == [version |-> 0, body |-> Default]

Numbers == 1..MaxVersion

\* `from`: the loaded row; `to` and `body`: the version the request wants.
Request == [op : {"none", "update", "latest"}, id : Ids \cup {NoId}, from : Row,
            to : 0..MaxVersion, body : Body]
NoRequest == [op |-> "none", id |-> NoId, from |-> NoRow, to |-> 0, body |-> Default]

AssistantsTypeOK ==
    /\ assistant \in [Ids -> Row]
    /\ versions \in [Ids -> [Numbers -> Body \cup {NoBody}]]
    /\ client \in [Clients -> Request]
    /\ torn \subseteq Ids

Exists(a) == assistant[a].version > 0
Taken(a, v) == versions[a][v] # NoBody

\* Whether a new row for a, with contents b, disagrees with what an assistant of
\* the same id has left in assistant_versions.
Leftover(a, b) == Taken(a, 1) /\ versions[a][1] # b

Mark(a, isTorn) == torn' = IF isTorn THEN torn \cup {a} ELSE torn \ {a}

-----------------------------------------------------------------------------
(* Creation *)

\* assistants_create: both rows, or an integrity error if version 1 is left over.
Create(a, b) ==
    /\ ~Exists(a)
    /\ ~Taken(a, 1)
    /\ assistant' = [assistant EXCEPT ![a] = [version |-> 1, body |-> b]]
    /\ versions' = [versions EXCEPT ![a][1] = b]
    /\ Mark(a, FALSE)
    /\ UNCHANGED client

\* Assistants.put: a version row that is there already is kept.
Put(a, b) ==
    /\ ~Exists(a)
    /\ assistant' = [assistant EXCEPT ![a] = [version |-> 1, body |-> b]]
    /\ versions' = [versions EXCEPT ![a][1] = IF Taken(a, 1) THEN @ ELSE b]
    /\ Mark(a, Leftover(a, b))
    /\ UNCHANGED client

\* register_default_assistants at startup: Put of the default contents.
RegisterDefault(a) == Put(a, Default)

-----------------------------------------------------------------------------
(* Changes *)

\* The columns a session writes: those that differ from what it loaded.
Written(current, from, to) ==
    [f \in Fields |-> IF to[f] = from[f] THEN current[f] ELSE to[f]]

\* assistants_update reads the row and sets one of its fields.
LoadUpdate(c, a, f, x) ==
    /\ client[c].op = "none"
    /\ Exists(a)
    /\ assistant[a].version < MaxVersion
    /\ client' = [client EXCEPT ![c] =
          [op |-> "update", id |-> a, from |-> assistant[a],
           to |-> assistant[a].version + 1, body |-> [assistant[a].body EXCEPT ![f] = x]]]
    /\ UNCHANGED <<assistant, versions, torn>>

\* assistants_latest and Assistants.set_latest read the row and a version.
LoadLatest(c, a, v) ==
    /\ client[c].op = "none"
    /\ Exists(a)
    /\ Taken(a, v)
    /\ client' = [client EXCEPT ![c] =
          [op |-> "latest", id |-> a, from |-> assistant[a],
           to |-> v, body |-> versions[a][v]]]
    /\ UNCHANGED <<assistant, versions, torn>>

\* The row after the session of c has flushed its changed columns.
Flushed(c, current) ==
    [version |-> IF client[c].to = client[c].from.version THEN current.version
                 ELSE client[c].to,
     body |-> Written(current.body, client[c].from.body, client[c].body)]

\* Faulty variant of Conflict: the version row is replaced.
ConflictNever(c) == FALSE

\* The new version number is taken, by an update that committed first or because
\* an older version was made the latest.
Conflict(c) == client[c].op = "update" /\ Taken(client[c].id, client[c].to)

\* What the request of c loaded is no longer there.
Overtaken(c) ==
    LET a == client[c].id
    IN  \/ assistant[a] # client[c].from
        \/ client[c].op = "latest" /\ versions[a][client[c].to] # client[c].body

\* The request commits.  With a conflict, or the row gone, it fails as a whole.
Commit(c) ==
    LET a == client[c].id
    IN  /\ client[c].op # "none"
        /\ IF Conflict(c) \/ ~Exists(a)
           THEN UNCHANGED <<assistant, versions, torn>>
           ELSE /\ assistant' = [assistant EXCEPT ![a] = Flushed(c, @)]
                /\ versions' = IF client[c].op = "update"
                               THEN [versions EXCEPT ![a][client[c].to] = client[c].body]
                               ELSE versions
                /\ Mark(a, Overtaken(c))
        /\ client' = [client EXCEPT ![c] = NoRequest]

\* max(version) + 1
NextVersion(a, v) ==
    /\ ~\E u \in Numbers : Taken(a, u) /\ u >= v
    /\ v = 1 \/ Taken(a, v - 1)

\* Faulty variant of PatchFields: the version row gets the contents from before.
PatchFieldsBefore(a, v, b) ==
    /\ assistant' = [assistant EXCEPT ![a] = [version |-> v, body |-> b]]
    /\ versions' = [versions EXCEPT ![a][v] = assistant[a].body]
    /\ Mark(a, FALSE)

\* _apply_assistant_patch_fields
PatchFields(a, v, b) ==
    /\ assistant' = [assistant EXCEPT ![a] = [version |-> v, body |-> b]]
    /\ versions' = [versions EXCEPT ![a][v] = b]
    /\ Mark(a, FALSE)

\* Assistants.patch, under the lock of the row.
Patch(a, f, x) ==
    /\ Exists(a)
    /\ \E v \in Numbers :
          /\ NextVersion(a, v)
          /\ PatchFields(a, v, [assistant[a].body EXCEPT ![f] = x])
    /\ UNCHANGED client

-----------------------------------------------------------------------------
(* Deletion *)

\* assistants_delete: the versions stay.
DeleteRow(a) ==
    /\ Exists(a)
    /\ assistant' = [assistant EXCEPT ![a] = NoRow]
    /\ UNCHANGED <<versions, client, torn>>

\* Assistants.delete: the versions go as well; so do crons (Crons) and runs
\* still to be done (JobQueue).
Delete(a) ==
    /\ Exists(a)
    /\ assistant' = [assistant EXCEPT ![a] = NoRow]
    /\ versions' = [versions EXCEPT ![a] = [v \in Numbers |-> NoBody]]
    /\ UNCHANGED <<client, torn>>

-----------------------------------------------------------------------------
AssistantsInit ==
    /\ assistant = [a \in Ids |-> NoRow]
    /\ versions = [a \in Ids |-> [v \in Numbers |-> NoBody]]
    /\ client = [c \in Clients |-> NoRequest]
    /\ torn = {}

\* Everything but the deletions.
AssistantsStep ==
    \/ \E a \in Ids, b \in Body : Create(a, b) \/ Put(a, b)
    \/ \E a \in Ids : RegisterDefault(a)
    \/ \E c \in Clients, a \in Ids :
          \/ \E f \in Fields, x \in Values : LoadUpdate(c, a, f, x)
          \/ \E v \in Numbers : LoadLatest(c, a, v)
    \/ \E c \in Clients : Commit(c)
    \/ \E a \in Ids, f \in Fields, x \in Values : Patch(a, f, x)

-----------------------------------------------------------------------------
(* Properties *)

\* The row of an assistant is the version it says it is, column by column.  Only
\* a request that wrote over a row which had changed since it was loaded, or a
\* row made over the versions of a deleted assistant, may break this, and the
\* next request that runs alone repairs it.
RowIsVersion ==
    \A a \in Ids : Exists(a) /\ a \notin torn =>
        versions[a][assistant[a].version] = assistant[a].body

\* Concurrent updates may compute the same version number; nevertheless a
\* version that was written is never replaced, it only goes with all the others.
VersionsKept ==
    [][\A a \in Ids, v \in Numbers :
          Taken(a, v) => versions'[a][v] \in {versions[a][v], NoBody}
                         /\ (versions'[a][v] = NoBody => assistant'[a] = NoRow)]_versions

=============================================================================
