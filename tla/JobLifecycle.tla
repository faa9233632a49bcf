------------------------------ MODULE JobLifecycle ------------------------------
(***************************************************************************)
(* Background active jobs (jobs/manager.py, jobs/active_runner.py): each   *)
(* runs in a thread with its own database session, appends progress events *)
(* to its handle and is cancelled through it.  The job row is inserted at  *)
(* the start of the run and committed at its end, so the thread holds the  *)
(* SQLite write lock in between (AttestedScope says how the lock works);   *)
(* a process-wide lock also guards the module's execution.  The process    *)
(* can be killed at any point and started again, which runs the recovery   *)
(* of jobs/recovery.py before requests are served.                         *)
(***************************************************************************)
EXTENDS Naturals, Sequences

CONSTANTS
    Jobs,         \* background jobs submitted to the manager
    Cancels,      \* POST .../cancel requests
    MaxKills,     \* bound: how often the process is killed
    Nobody,       \* a free lock; a cancel request that has not arrived
    None, Error   \* no row, no verdict; the verdict of a job that crashed

ModuleStatuses == {"succeeded", "partial", "failed"}
Unfinished == {"queued", "running"}
Terminal == ModuleStatuses \cup {"cancelled", "interrupted"}

ASSUME JobsAssumption ==
    /\ {Nobody, None} \cap Jobs = {}
    /\ MaxKills \in Nat

ASSUME MarkersAssumption ==
    /\ {None, Error} \cap (Terminal \cup Unfinished) = {}
    /\ None # Error
    /\ None # Nobody

VARIABLES
    up,           \* the process serves requests
    kills,        \* how often it was killed
    pc,           \* where each job's thread is
    log,          \* log[j]: the events of the job's handle
    canceller,    \* canceller[c]: the job whose Event request c has set
    writer,       \* the job whose transaction holds the database write lock
    active,       \* the job that holds _ACTIVE_LOCK
    result,       \* result[j]: status of the row in the job's session
    evidence,     \* evidence[j]: the session has evidence rows of the job
    row           \* row[j]: the committed status of the job

process == <<up, kills, canceller>>
locks == <<writer, active>>
stored == <<result, evidence, row>>
vars == <<process, pc, log, locks, stored>>

Init ==
    /\ up = TRUE
    /\ kills = 0
    /\ pc = [j \in Jobs |-> "new"]
    /\ log = [j \in Jobs |-> <<>>]
    /\ canceller = [c \in Cancels |-> Nobody]
    /\ writer = Nobody
    /\ active = Nobody
    /\ result = [j \in Jobs |-> "running"]
    /\ evidence = [j \in Jobs |-> FALSE]
    /\ row = [j \in Jobs |-> None]

(* The thread is inside manager._run's try block, before the commit. *)
InRun == {"submitted", "started", "flushed", "gated", "resolving", "pinned",
          "contacting", "executing", "executed", "stored"}
(* The job's transaction is open. *)
InTransaction == InRun \ {"submitted", "started"}
InThread == InRun \cup {"committed", "failing"}
HasHandle(j) == pc[j] \in InThread \cup {"ended"}

Goto(j, from, to) ==
    /\ pc[j] = from
    /\ pc' = [pc EXCEPT ![j] = to]

(* JobHandle.emit; a terminal status sets the handle's _terminal flag. *)
Emit(j, type, status) ==
    log' = [log EXCEPT ![j] = Append(@, [type |-> type, status |-> status])]

IsVerdict(e) == e.status \in Terminal
IsTerminal(j) == \E i \in DOMAIN log[j] : IsVerdict(log[j][i])

--------------------------------------------------------------------------------
(* ActiveJobManager.submit and _run, ActiveJobRunner.run *)

Submit(j) ==
    /\ up
    /\ Goto(j, "new", "submitted")
    /\ UNCHANGED <<process, log, locks, stored>>

(* The job's module is not registered. *)
UnknownModule(j) ==
    /\ Goto(j, "submitted", "ended")
    /\ Emit(j, "error", "failed")
    /\ UNCHANGED <<process, locks, stored>>

(* A step that only tells the handle where the run is. *)
Progress(j, from, to, type) ==
    /\ Goto(j, from, to)
    /\ Emit(j, type, "none")
    /\ UNCHANGED <<process, locks, stored>>

Start(j) == Progress(j, "submitted", "started", "running")

(* The INSERT of the job row, status "running", opens the transaction. *)
Flush(j) ==
    /\ Goto(j, "started", "flushed")
    /\ writer = Nobody
    /\ writer' = j
    /\ UNCHANGED <<process, log, active, stored>>

(* Broken variant: the exception ends the thread unhandled. *)
LockTimeoutUnhandled(j) ==
    /\ Goto(j, "started", "ended")
    /\ writer # Nobody
    /\ UNCHANGED <<process, log, locks, stored>>

(* Another job held the database longer than the driver waits. *)
LockTimeout(j) ==
    /\ Goto(j, "started", "failing")
    /\ writer # Nobody
    /\ UNCHANGED <<process, log, locks, stored>>

Gate(j) == Progress(j, "flushed", "gated", "gate")
Allowed(j) == Progress(j, "gated", "resolving", "resolving")
Pinned(j) == Progress(j, "resolving", "pinned", "pinned")
Contacting(j) == Progress(j, "pinned", "contacting", "contacting")

(* Broken variant: the error code is stored as the status. *)
RefuseWithCode(j, from, type) ==
    /\ Goto(j, from, "stored")
    /\ Emit(j, type, "none")
    /\ result' = [result EXCEPT ![j] = "resolution_failed"]
    /\ UNCHANGED <<process, locks, evidence, row>>

(* The gate refuses, or the target does not resolve: the runner finishes. *)
Refuse(j, from, type) ==
    /\ Goto(j, from, "stored")
    /\ Emit(j, type, "none")
    /\ result' = [result EXCEPT ![j] = "failed"]
    /\ UNCHANGED <<process, locks, evidence, row>>

Blocked(j) == Refuse(j, "gated", "blocked")
ResolveFailed(j) == Refuse(j, "resolving", "resolve_failed")

Acquire(j) ==
    /\ Goto(j, "contacting", "executing")
    /\ active = Nobody
    /\ active' = j
    /\ UNCHANGED <<process, log, writer, stored>>

(* Broken variant: acquire without release. *)
ExecuteKeepsLock(j) ==
    /\ Goto(j, "executing", "executed")
    /\ \E s \in ModuleStatuses : result' = [result EXCEPT ![j] = s]
    /\ UNCHANGED <<process, log, locks, evidence, row>>

(* module.run returns a status, or raises and is recorded as failed; the    *)
(* with statement releases the lock.                                        *)
Execute(j) ==
    /\ Goto(j, "executing", "executed")
    /\ active' = Nobody
    /\ \E s \in ModuleStatuses : result' = [result EXCEPT ![j] = s]
    /\ UNCHANGED <<process, log, writer, evidence, row>>

Store(j) ==
    /\ Goto(j, "executed", "stored")
    /\ \E e \in BOOLEAN : evidence' = [evidence EXCEPT ![j] = e]
    /\ UNCHANGED <<process, log, locks, result, row>>

(* _finish sets the status; session.commit makes it durable. *)
Commit(j) ==
    /\ Goto(j, "stored", "committed")
    /\ row' = [row EXCEPT ![j] = result[j]]
    /\ writer' = Nobody
    /\ UNCHANGED <<process, log, active, result, evidence>>

Report(j) ==
    /\ Goto(j, "committed", "ended")
    /\ Emit(j, result[j], result[j])
    /\ UNCHANGED <<process, locks, stored>>

(* Broken variant: the commit is followed by other work in the try block. *)
RollbackAfterCommit(j) ==
    /\ pc[j] \in (InRun \ {"pinned", "contacting", "executing"}) \cup {"committed"}
    /\ pc' = [pc EXCEPT ![j] = "failing"]
    /\ writer' = IF writer = j THEN Nobody ELSE writer
    /\ evidence' = [evidence EXCEPT ![j] = FALSE]
    /\ UNCHANGED <<process, log, active, result, row>>

(* An exception of the run outside the module (database, services, gate,    *)
(* resolver, storing evidence) unwinds to the manager, which rolls back.    *)
Rollback(j) ==
    /\ pc[j] \in InRun \ {"pinned", "contacting", "executing"}
    /\ pc' = [pc EXCEPT ![j] = "failing"]
    /\ writer' = IF writer = j THEN Nobody ELSE writer
    /\ evidence' = [evidence EXCEPT ![j] = FALSE]
    /\ UNCHANGED <<process, log, active, result, row>>

ReportError(j) ==
    /\ Goto(j, "failing", "ended")
    /\ Emit(j, "error", "failed")
    /\ UNCHANGED <<process, locks, stored>>

--------------------------------------------------------------------------------
(* ActiveJobManager.cancel sets the handle's Event and then, in a second    *)
(* step, appends an event.  The Event acts on the scan's process, which     *)
(* ProcessSupervisor models; here the job may still end with any status.    *)

CancelSet(c, j) ==
    /\ up
    /\ HasHandle(j)
    /\ canceller[c] = Nobody
    /\ canceller' = [canceller EXCEPT ![c] = j]
    /\ UNCHANGED <<up, kills, pc, log, locks, stored>>

(* Broken variant: the request is announced as the outcome. *)
CancelEmitVerdict(c, j) ==
    /\ canceller[c] = j
    /\ canceller' = [canceller EXCEPT ![c] = None]
    /\ Emit(j, "cancelled", "cancelled")
    /\ UNCHANGED <<up, kills, pc, locks, stored>>

CancelEmit(c, j) ==
    /\ canceller[c] = j
    /\ canceller' = [canceller EXCEPT ![c] = None]
    /\ Emit(j, "cancelling", "none")
    /\ UNCHANGED <<up, kills, pc, locks, stored>>

--------------------------------------------------------------------------------
(* The process is killed: threads, handles and open transactions are gone. *)
Kill ==
    /\ up
    /\ kills < MaxKills
    /\ kills' = kills + 1
    /\ up' = FALSE
    /\ pc' = [j \in Jobs |-> CASE pc[j] \in InTransaction     -> "killed"
                               [] pc[j] \in {"new", "killed"} -> pc[j]
                               [] OTHER                       -> "forgotten"]
    /\ log' = [j \in Jobs |-> <<>>]
    /\ canceller' = [c \in Cancels |->
                       IF canceller[c] = Nobody THEN Nobody ELSE None]
    /\ writer' = Nobody
    /\ active' = Nobody
    /\ evidence' = [j \in Jobs |-> row[j] # None /\ evidence[j]]
    /\ UNCHANGED <<result, row>>

(* create_app on the next start: recover_interrupted_jobs, then serve. *)
Recover ==
    /\ ~up
    /\ up' = TRUE
    /\ row' = [j \in Jobs |->
                 IF row[j] \in Unfinished
                 THEN IF evidence[j] THEN "partial" ELSE "interrupted"
                 ELSE row[j]]
    /\ UNCHANGED <<kills, pc, log, canceller, locks, result, evidence>>

RunStep(j) ==
    \/ UnknownModule(j) \/ Start(j) \/ Flush(j) \/ LockTimeout(j)
    \/ Gate(j) \/ Blocked(j) \/ Allowed(j) \/ ResolveFailed(j) \/ Pinned(j)
    \/ Contacting(j) \/ Acquire(j) \/ Execute(j) \/ Store(j)
    \/ Commit(j) \/ Report(j) \/ Rollback(j) \/ ReportError(j)

Next ==
    \/ \E j \in Jobs : Submit(j) \/ RunStep(j)
    \/ \E c \in Cancels, j \in Jobs : CancelSet(c, j) \/ CancelEmit(c, j)
    \/ Kill
    \/ Recover

(* Threads are scheduled, a wait for the database ends with its timeout,    *)
(* the resolver answers or gives up, and module.run returns: ModuleRuns     *)
(* says when it does, which is not with every web server.                   *)
Fairness == \A j \in Jobs : WF_vars(RunStep(j))

Spec == Init /\ [][Next]_vars
FairSpec == Spec /\ Fairness

--------------------------------------------------------------------------------
Positions == {"new", "ended", "killed", "forgotten"} \cup InThread
Types == Terminal \cup {"error", "running", "gate", "blocked", "resolving",
           "resolve_failed", "pinned", "contacting", "cancelling"}

(* Type invariant. *)
TypeOK ==
    /\ up \in BOOLEAN
    /\ kills \in 0..MaxKills
    /\ pc \in [Jobs -> Positions]
    /\ log \in [Jobs -> Seq([type : Types, status : Terminal \cup {"none"}])]
    /\ canceller \in [Cancels -> Jobs \cup {Nobody, None}]
    /\ writer \in Jobs \cup {Nobody}
    /\ active \in Jobs \cup {Nobody}
    /\ result \in [Jobs -> ModuleStatuses \cup {"running"}]
    /\ evidence \in [Jobs -> BOOLEAN]
    /\ row \in [Jobs -> Terminal \cup Unfinished \cup {None}]

(* A watcher is told one outcome, with cancels and failures in any order:   *)
(* what follows the terminal event of a handle's log is at most the event   *)
(* of a cancel request that came too late.                                  *)
OneVerdict ==
    \A j \in Jobs : \A h, i \in DOMAIN log[j] :
        IsVerdict(log[j][h]) /\ h < i => log[j][i].type = "cancelling"

(* "Serializes active jobs": from its INSERT to its COMMIT a job runs alone, *)
(* and no job ever waits for _ACTIVE_LOCK while another holds it, so the two *)
(* locks cannot be waited for in opposite orders.                            *)
RunsAlone ==
    \A j \in Jobs :
        /\ pc[j] \in InTransaction => \A i \in Jobs \ {j} : pc[i] \notin InTransaction
        /\ pc[j] = "contacting" => active = Nobody

(* A committed outcome is final: no later step, kill or recovery rewrites it. *)
OutcomesAreFinal ==
    [][\A j \in Jobs : row[j] # None => row'[j] = row[j]]_vars

(* The verdict that the handle's log announces. *)
Verdict(j) ==
    IF ~IsTerminal(j) THEN None
    ELSE LET e == log[j][CHOOSE i \in DOMAIN log[j] : IsVerdict(log[j][i])]
         IN  IF e.type = "error" THEN Error ELSE e.status

Contract == INSTANCE JobContract WITH
    Outcomes <- ModuleStatuses,
    verdict <- [j \in Jobs |-> Verdict(j)],
    dead <- {j \in Jobs : pc[j] \in {"ended", "killed", "forgotten"}}

(* The outcome is announced after it is durable and is the durable one; an  *)
(* error is announced only for a job that leaves no row.                    *)
ImplementsContract == Contract!Spec

(* Every submitted job gets a verdict, unless the process is killed first. *)
EveryJobEnds ==
    \A j \in Jobs :
        pc[j] = "submitted" ~> IsTerminal(j) \/ pc[j] \in {"killed", "forgotten"}

(* main.py: recovery will "reconcile any jobs left running by a previous    *)
(* run".  Violated: the row of a running job is never committed, so a job   *)
(* killed while it runs leaves nothing to reconcile.                        *)
KilledJobsAreReconciled ==
    up => \A j \in Jobs : pc[j] = "killed" => row[j] \in Terminal
================================================================================
