-------------------------- MODULE RunStoreLiveness --------------------------
(***************************************************************************)
(* What the run queue eventually does, what it promises to clients, and    *)
(* what the repository's documents say of it.  Fairness is what the        *)
(* processes of the code guarantee when they are not down for good: a slot *)
(* loops over run_once, the reaper over reap_once, graphs end or time out, *)
(* and the clock advances.                                                 *)
(***************************************************************************)
EXTENDS RunStore

\* A slot goes on with its job.  It may also crash at any of these steps.
SlotProgress(w) ==
    \/ Begin(w)
    \/ \E o \in Endings \cup {"infra", "cancel"} : Load(w, o)
    \/ Finalize(w)
    \/ FinalizeLost(w)
    \/ Release(w)
    \/ AckRollback(w)

\* A tick of an idle slot, with no row locked by someone else.
ClaimTick(w) == \E r \in Runs : ClaimNext(w, r, {})

\* A slot that executes r renews its lease in time; any other lease runs out.
Abandoned(r) ==
    /\ \A w \in Workers : slot[w].job = r => slot[w].pc # "executing"
    /\ LeaseExpires(r)

\* One pass of reap_once over all expired runs.
ReapTick == RequeueExpired(Expired)
RollbackTick == \E r \in Runs : CompleteRollbacks(r)

Fairness ==
    /\ \A w \in Workers : WF_vars(SlotProgress(w)) /\ WF_vars(ClaimTick(w))
    /\ \A r \in Runs : WF_vars(Abandoned(r)) /\ WF_vars(BackoffElapses(r))
    /\ WF_vars(ReapTick)
    /\ WF_vars(RollbackTick)

FairSpecKept == SpecKept /\ Fairness

-----------------------------------------------------------------------------
(* Liveness, for a system whose rows are not deleted under the workers *)

\* A running run does not stay so: its slot finalises it, or its lease runs out
\* and the reaper takes it, wherever its slot crashed.
RunningEnds ==
    \A r \in Runs : run[r].status = "running" ~> run[r].status # "running"

\* A queued run is served: it ends, or its thread waits for the answer to an
\* interrupt.  In particular no crashed or cancelled run blocks its thread.
PendingServed ==
    \A r \in Runs : run[r].status = "pending" ~>
        \/ run[r].status \notin {"pending", "running"}
        \/ Threaded(r) /\ thread[ThreadOf[r]].interrupts

\* A rollback that was accepted while the run was executing completes, also
\* when the slot dies before it acknowledges; or a stale finaliser undoes it.
RollbackEnds ==
    \A r \in Runs : run[r].reason = "rollback" ~> run[r].reason # "rollback"

-----------------------------------------------------------------------------
(* The promise to clients *)

\* A row as its client sees it.
Seen(r) ==
    CASE run[r].status = "new" -> "absent"
      [] run[r].status = "deleted" -> "removed"
      [] run[r].status = "pending" -> "queued"
      [] run[r].status = "running" -> "running"
      [] OTHER -> "ended"

Queue == INSTANCE RunQueue WITH state <- [r \in Runs |-> Seen(r)]

\* Slots, leases, attempts, crashes and the reaper together implement RunQueue: a
\* run starts only from the queue and alone on its thread, however it came there,
\* ends from the queue or from running, and never comes back once it is removed.
ImplementsQueue == Queue!Spec

-----------------------------------------------------------------------------
(* What the documents claim and the code does not do *)

\* 01-run-state-machine-and-interrupt.md, Terminal Irreversibility Invariant:
\* success, error and timeout are never changed once written.
TerminalIrreversible ==
    [][\A r \in Runs :
          run[r].status \in {"success", "error", "timeout"}
          => run'[r].status \in {run[r].status, "deleted"}
             \/ run'[r].reason = "rollback"]_vars

=============================================================================
