------------------------------- MODULE Crons --------------------------------
(***************************************************************************)
(* Cron jobs beside the assistants they run: the crons table as the HTTP   *)
(* endpoints and the LangGraph runtime contract (ops.py, Crons) change it, *)
(* and the schedulers of the replicas, which take the due rows with SKIP   *)
(* LOCKED and submit a run for each in the same transaction.  The loop of  *)
(* the scheduler is langgraph_api's.                                       *)
(*                                                                         *)
(* A cron is made in two steps: its assistant is looked up, without a lock *)
(* and without a foreign key, and then the row is inserted.                *)
(***************************************************************************)
EXTENDS Assistants

CONSTANTS
    Crons,         \* cron ids
    Schedulers,    \* replicas that poll Crons.next
    AssistantOf,   \* the assistant of a cron
    MaxTicks       \* bound on the times a cron becomes due

ASSUME CronConstants ==
    /\ AssistantOf \in [Crons -> Ids]
    /\ MaxTicks \in Nat

VARIABLES
    cron,      \* the crons table
    making,    \* crons whose creation has found the assistant
    taken,     \* rows the open transaction of a scheduler has locked
    ticks,     \* history: how often a cron became due
    fired      \* history: runs submitted for a cron

cronVars == <<cron, making, taken, ticks, fired>>
assistantVars == <<assistant, versions, client, torn>>
vars == <<assistantVars, cronVars>>

\* due: next_run_date is NULL or has passed; over: end_time has passed.
CronRow == [exists : BOOLEAN, due : BOOLEAN, enabled : BOOLEAN, over : BOOLEAN]
NoCron == [exists |-> FALSE, due |-> FALSE, enabled |-> FALSE, over |-> FALSE]

TypeOK ==
    /\ AssistantsTypeOK
    /\ cron \in [Crons -> CronRow]
    /\ making \subseteq Crons
    /\ taken \in [Schedulers -> SUBSET Crons]
    /\ ticks \in [Crons -> 0..MaxTicks]
    /\ fired \in [Crons -> Nat]

Locked(k) == \E s \in Schedulers : k \in taken[s]

\* The WHERE clause of Crons.next.
Due(k) == cron[k].exists /\ cron[k].enabled /\ cron[k].due /\ ~cron[k].over

-----------------------------------------------------------------------------
(* Requests *)

\* _cron_put_check_refs, and _resolve_assistant of cron_create.
CheckRefs(k) ==
    /\ ~cron[k].exists /\ k \notin making
    /\ Exists(AssistantOf[k])
    /\ making' = making \cup {k}
    /\ UNCHANGED <<assistantVars, cron, taken, ticks, fired>>

\* Crons.put: the first date comes from the schedule.
CronPut(k, on) ==
    /\ k \in making
    /\ making' = making \ {k}
    /\ cron' = [cron EXCEPT ![k] = [NoCron EXCEPT !.exists = TRUE, !.enabled = on]]
    /\ UNCHANGED <<assistantVars, taken, ticks, fired>>

\* cron_create writes no next_run_date, which Crons.next takes as due.
CronCreate(k, on) ==
    /\ k \in making
    /\ making' = making \ {k}
    /\ ticks[k] < MaxTicks
    /\ cron' = [cron EXCEPT ![k] = [NoCron EXCEPT !.exists = TRUE, !.enabled = on,
                                                  !.due = TRUE]]
    /\ ticks' = [ticks EXCEPT ![k] = @ + 1]
    /\ UNCHANGED <<assistantVars, taken, fired>>

\* A new schedule or time zone moves next_run_date ahead.
Rescheduled(row) == [row EXCEPT !.due = FALSE]

\* Crons.update, with a new schedule or without: the UPDATE waits for a scheduler
\* that has the row.  A new end_time is in the future.
CronUpdate(k, on, extend, reschedule) ==
    LET row == IF reschedule THEN Rescheduled(cron[k]) ELSE cron[k]
    IN  /\ cron[k].exists
        /\ ~Locked(k)
        /\ cron' = [cron EXCEPT ![k] = [row EXCEPT !.enabled = on, !.over = @ /\ ~extend]]
        /\ UNCHANGED <<assistantVars, making, taken, ticks, fired>>

\* cron_update writes a new schedule too, but leaves next_run_date as it is.
CronUpdateRow(k, on, extend) == CronUpdate(k, on, extend, FALSE)

\* Crons.delete and cron_delete.
CronDelete(k) ==
    /\ cron[k].exists
    /\ ~Locked(k)
    /\ cron' = [cron EXCEPT ![k] = NoCron]
    /\ UNCHANGED <<assistantVars, making, taken, ticks, fired>>

\* The crons that Assistants.delete takes along.
DeletedWith(a) == {k \in Crons : AssistantOf[k] = a}

\* Assistants.delete with its crons.
AssistantDelete(a) ==
    /\ \A k \in DeletedWith(a) : ~Locked(k)
    /\ Delete(a)
    /\ cron' = [k \in Crons |-> IF k \in DeletedWith(a) THEN NoCron ELSE cron[k]]
    /\ UNCHANGED <<making, taken, ticks, fired>>

\* assistants_delete: the crons stay.
AssistantDeleteRow(a) ==
    /\ DeleteRow(a)
    /\ UNCHANGED <<cron, making, taken, ticks, fired>>

-----------------------------------------------------------------------------
(* Time and schedulers *)

\* next_run_date passes.
Tick(k) ==
    /\ cron[k].exists /\ ~cron[k].due
    /\ ticks[k] < MaxTicks
    /\ cron' = [cron EXCEPT ![k].due = TRUE]
    /\ ticks' = [ticks EXCEPT ![k] = @ + 1]
    /\ UNCHANGED <<assistantVars, making, taken, fired>>

\* end_time passes.
End(k) ==
    /\ cron[k].exists /\ ~cron[k].over
    /\ ~Locked(k)
    /\ cron' = [cron EXCEPT ![k].over = TRUE]
    /\ UNCHANGED <<assistantVars, making, taken, ticks, fired>>

\* Faulty variant of Free: the rows of another scheduler are not skipped.
FreeAlways(k) == TRUE

\* FOR UPDATE SKIP LOCKED
Free(k) == ~Locked(k)

\* Crons.next: all due rows are locked and their dates advanced, uncommitted.
CronNext(s) ==
    LET S == {k \in Crons : Due(k) /\ Free(k)}
    IN  /\ taken[s] = {} /\ S # {}
        /\ taken' = [taken EXCEPT ![s] = S]
        /\ UNCHANGED <<assistantVars, cron, making, ticks, fired>>

\* The scheduler has submitted the runs and its connection commits.
SchedulerCommit(s) ==
    /\ taken[s] # {}
    /\ cron' = [k \in Crons |-> IF k \in taken[s] THEN [cron[k] EXCEPT !.due = FALSE]
                                ELSE cron[k]]
    /\ fired' = [k \in Crons |-> IF k \in taken[s] THEN fired[k] + 1 ELSE fired[k]]
    /\ taken' = [taken EXCEPT ![s] = {}]
    /\ UNCHANGED <<assistantVars, making, ticks>>

\* One submission fails, or the scheduler dies: nothing of it happened.
SchedulerAbort(s) ==
    /\ taken[s] # {}
    /\ taken' = [taken EXCEPT ![s] = {}]
    /\ UNCHANGED <<assistantVars, cron, making, ticks, fired>>

-----------------------------------------------------------------------------
(* The specification *)

Init ==
    /\ AssistantsInit
    /\ cron = [k \in Crons |-> NoCron]
    /\ making = {}
    /\ taken = [s \in Schedulers |-> {}]
    /\ ticks = [k \in Crons |-> 0]
    /\ fired = [k \in Crons |-> 0]

Next ==
    \/ AssistantsStep /\ UNCHANGED cronVars
    \/ \E a \in Ids : AssistantDelete(a) \/ AssistantDeleteRow(a)
    \/ \E k \in Crons, on \in BOOLEAN :
          \/ CronPut(k, on) \/ CronCreate(k, on)
          \/ \E extend \in BOOLEAN :
                CronUpdate(k, on, extend, TRUE) \/ CronUpdateRow(k, on, extend)
    \/ \E k \in Crons : CheckRefs(k) \/ CronDelete(k) \/ Tick(k) \/ End(k)
    \/ \E s \in Schedulers : CronNext(s) \/ SchedulerCommit(s) \/ SchedulerAbort(s)

Spec == Init /\ [][Next]_vars

-----------------------------------------------------------------------------
(* Properties *)

\* However many schedulers poll, abort and poll again, a cron is run at most
\* once each time it becomes due.
FiresOncePerTick == \A k \in Crons : fired[k] <= ticks[k]

=============================================================================
