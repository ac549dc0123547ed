----------------------------- MODULE SyncEngine -----------------------------
(***************************************************************************)
(* The synchronisation engine (internal/sync/engine.go) in the processes   *)
(* that run it: servers (cmd/server) with their HTTP triggers, uploads and *)
(* cron scheduler, and batch jobs (cmd/batch).  They share one database:   *)
(* the lock row, the table sync_runs and the table of addresses.           *)
(*                                                                         *)
(* An attempt is one call of Run, TriggerAsync or UploadFull.  Each call   *)
(* draws fresh uuids for its holder and for its run, so an attempt also    *)
(* stands for its row in sync_runs.  The lock is the module SyncLock: each *)
(* step that touches the row is a step of that module.                     *)
(*                                                                         *)
(* A batch is one applyBatch: it reads the stored hashes (ReadBatch) and   *)
(* then writes what differs (WriteBatch).  What it writes is the subject   *)
(* of another module; here only the order of reads and writes of different *)
(* attempts counts, and `current` records it.                              *)
(***************************************************************************)
EXTENDS Naturals

CONSTANTS
    Attempts,      \* calls of the engine, in every process
    NoHolder,
    Instances,     \* processes
    InstOf,        \* the process of each attempt
    Serves,        \* the entry points of each process
    Skew, TTL, MaxHold, MaxClock,         \* as in SyncLock
    MaxBatches,    \* bound of the model: batches of one attempt
    MaxFaults,     \* bound of the model: database errors
    MaxCrashes     \* bound of the model: processes that die

EntryPoints == {"schedule", "manual", "upload", "batch"}

ASSUME EngineAssumption ==
    /\ NoHolder \notin Attempts
    /\ InstOf \in [Attempts -> Instances]
    /\ Serves \in [Instances -> SUBSET EntryPoints]
    /\ \A i \in Instances : "batch" \in Serves[i] => Serves[i] = {"batch"}
    /\ Skew \in [Instances -> Nat]
    /\ {TTL, MaxHold, MaxClock, MaxBatches, MaxFaults, MaxCrashes} \subseteq Nat

VARIABLES
    clock, lock, stamp,   \* the lock row and its time (SyncLock)
    proc,      \* life of each process
    pc,        \* where each attempt is in the engine's code
    kind,      \* the entry point of each attempt
    gone,      \* uploads whose client has disconnected
    todo,      \* batches each attempt still has to apply
    result,    \* what each attempt will write into its row
    pctx,      \* the context each attempt will write it under
    runs,      \* status of each row of sync_runs
    stale,     \* rows each starting process has read as running
    current,   \* history: batch reads no other attempt has overwritten
    faults, crashes

lockVars == <<clock, lock, stamp>>
vars == <<clock, lock, stamp, proc, pc, kind, gone, todo, result, pctx, runs,
          stale, current, faults, crashes>>

Terminal == {"success", "failed"}

\* An attempt holds the lock from the UPDATE of Acquire to its release.
HeldAt == {"locked", "typed", "apply", "batch", "persist", "update", "release"}

LiveAt == HeldAt \cup {"stamped"}

PhaseOf(l) ==
    CASE l \in {"idle", "stamped"} -> l
      [] l \in HeldAt -> "held"
      [] OTHER -> "ended"

lockPhase == [a \in Attempts |-> PhaseOf(pc[a])]

L == INSTANCE SyncLock WITH Sessions <- Attempts, phase <- lockPhase

\* What the rows of sync_runs promise.
Ledger == INSTANCE RunLedger WITH Runs <- Attempts, status <- runs

Live(a) == pc[a] \in LiveAt

\* An in-memory context is done: the engine's asyncCtx for manual triggers,
\* the scheduler's for cron jobs, the signal context of a batch job, the
\* request context of an upload.
CtxDone(a) ==
    \/ kind[a] = "manual" /\ proc[InstOf[a]] \in {"cancelling", "stopping"}
    \/ kind[a] \in {"schedule", "batch"} /\ proc[InstOf[a]] = "stopping"
    \/ kind[a] = "upload" /\ a \in gone

Init ==
    /\ proc = [i \in Instances |-> "down"]
    /\ pc = [a \in Attempts |-> "idle"]
    /\ L!Init
    /\ kind = [a \in Attempts |-> "none"]
    /\ gone = {}
    /\ todo = [a \in Attempts |-> 0]
    /\ result = [a \in Attempts |-> "none"]
    /\ pctx = [a \in Attempts |-> "none"]
    /\ runs = [a \in Attempts |-> "none"]
    /\ stale = [i \in Instances |-> {}]
    /\ current = {}
    /\ faults = 0
    /\ crashes = 0

Goto(a, from, to) ==
    /\ pc[a] = from
    /\ pc' = [pc EXCEPT ![a] = to]

\* A database error; what it left behind is up to each action.
Fault ==
    /\ faults < MaxFaults
    /\ faults' = faults + 1

\* A statement fails: its context is done, or the database errs.
StatementFails(a) ==
    \/ CtxDone(a) /\ UNCHANGED faults
    \/ Fault

-----------------------------------------------------------------------------
(* Processes. *)

\* Mutants of Start: a process that cleans up again while it works, and one
\* that does not clean up.
StartAnyTime(i) ==
    /\ proc[i] \in {"down", "up"}
    /\ proc' = [proc EXCEPT ![i] = "cleaning"]
    /\ stale' = [stale EXCEPT ![i] = {a \in Attempts : runs[a] = "running"}]
    /\ UNCHANGED <<lockVars, pc, kind, gone, todo, result, pctx, runs, current,
                   faults, crashes>>

StartUnclean(i) ==
    /\ proc[i] = "down"
    /\ proc' = [proc EXCEPT ![i] = "cleaning"]
    /\ UNCHANGED <<lockVars, pc, kind, gone, todo, result, pctx, runs, stale,
                   current, faults, crashes>>

\* MarkRunningFailed, first half: a starting process reads every row that
\* says running, whoever owns it.
Start(i) ==
    /\ proc[i] = "down"
    /\ proc' = [proc EXCEPT ![i] = "cleaning"]
    /\ stale' = [stale EXCEPT ![i] = {a \in Attempts : runs[a] = "running"}]
    /\ UNCHANGED <<lockVars, pc, kind, gone, todo, result, pctx, runs, current,
                   faults, crashes>>

\* Mutant of CleanupSave: the status of a row is not looked at.
CleanupSaveAll(i) ==
    /\ proc[i] = "cleaning"
    /\ proc' = [proc EXCEPT ![i] = "up"]
    /\ runs' = [a \in Attempts |-> IF runs[a] = "none" THEN "none" ELSE "failed"]
    /\ stale' = [stale EXCEPT ![i] = {}]
    /\ UNCHANGED <<lockVars, pc, kind, gone, todo, result, pctx, current,
                   faults, crashes>>

\* Second half: it saves every row it has read, whole, as failed.  Between
\* the halves a transaction of PostgreSQL or MySQL lets the owner update its
\* row; SQLite refuses the later writer, which is then CleanupError.
CleanupSave(i) ==
    /\ proc[i] = "cleaning"
    /\ proc' = [proc EXCEPT ![i] = "up"]
    /\ runs' = [a \in Attempts |-> IF a \in stale[i] THEN "failed" ELSE runs[a]]
    /\ stale' = [stale EXCEPT ![i] = {}]
    /\ UNCHANGED <<lockVars, pc, kind, gone, todo, result, pctx, current,
                   faults, crashes>>

\* The clean-up fails and is rolled back; main gives up.
CleanupError(i) ==
    /\ proc[i] = "cleaning"
    /\ Fault
    /\ proc' = [proc EXCEPT ![i] = "down"]
    /\ stale' = [stale EXCEPT ![i] = {}]
    /\ UNCHANGED <<lockVars, pc, kind, gone, todo, result, pctx, runs, current,
                   crashes>>

\* Mutant of LiveOf: asyncWG.Done is never called.
StartedOf(i, kinds) ==
    {a \in Attempts : InstOf[a] = i /\ pc[a] # "idle" /\ kind[a] \in kinds}

\* The attempts that a stage of a shutdown waits for.
LiveOf(i, kinds) == {a \in Attempts : InstOf[a] = i /\ Live(a) /\ kind[a] \in kinds}

\* Shutdown of a server: SIGTERM arrives and srv.Shutdown begins.
Terminate(i) ==
    /\ proc[i] = "up"
    /\ "batch" \notin Serves[i]
    /\ proc' = [proc EXCEPT ![i] = "draining"]
    /\ UNCHANGED <<lockVars, pc, kind, gone, todo, result, pctx, runs, stale,
                   current, faults, crashes>>

\* srv.Shutdown returns: no handler is running, neither an upload nor the
\* part of a trigger before its goroutine.  engine.Shutdown cancels asyncCtx.
CancelAsync(i) ==
    /\ proc[i] = "draining"
    /\ "batch" \notin Serves[i]
    /\ LiveOf(i, {"upload"}) = {}
    /\ \A a \in LiveOf(i, {"manual"}) : pc[a] \notin {"stamped", "locked", "typed"}
    /\ proc' = [proc EXCEPT ![i] = "cancelling"]
    /\ UNCHANGED <<lockVars, pc, kind, gone, todo, result, pctx, runs, stale,
                   current, faults, crashes>>

\* asyncWG.Wait returns, main returns, and its deferred sch.Stop cancels the
\* scheduler's context.
StopScheduler(i) ==
    /\ proc[i] = "cancelling"
    /\ LiveOf(i, {"manual"}) = {}
    /\ proc' = [proc EXCEPT ![i] = "stopping"]
    /\ UNCHANGED <<lockVars, pc, kind, gone, todo, result, pctx, runs, stale,
                   current, faults, crashes>>

\* A signal cancels the context of a batch job.
Interrupt(i) ==
    /\ proc[i] = "draining"
    /\ "batch" \in Serves[i]
    /\ proc' = [proc EXCEPT ![i] = "stopping"]
    /\ UNCHANGED <<lockVars, pc, kind, gone, todo, result, pctx, runs, stale,
                   current, faults, crashes>>

\* Mutant of Exit: main does not wait for sch.Stop().Done().
ExitAtOnce(i) ==
    /\ \/ proc[i] = "stopping"
       \/ proc[i] = "draining" /\ "batch" \in Serves[i]
    /\ proc' = [proc EXCEPT ![i] = "down"]
    /\ UNCHANGED <<lockVars, pc, kind, gone, todo, result, pctx, runs, stale,
                   current, faults, crashes>>

\* The process ends: a server once its cron jobs have returned, a batch job
\* once Run has.
Exit(i) ==
    /\ \/ proc[i] = "stopping"
       \/ proc[i] = "draining" /\ "batch" \in Serves[i]
    /\ LiveOf(i, {"schedule", "batch"}) = {}
    /\ proc' = [proc EXCEPT ![i] = "down"]
    /\ UNCHANGED <<lockVars, pc, kind, gone, todo, result, pctx, runs, stale,
                   current, faults, crashes>>

\* The process dies with its attempts: a kill, or os.Exit when one of the
\* timeouts of the shutdown is over.
Crash(i) ==
    /\ proc[i] # "down"
    /\ crashes < MaxCrashes
    /\ crashes' = crashes + 1
    /\ proc' = [proc EXCEPT ![i] = "down"]
    /\ stale' = [stale EXCEPT ![i] = {}]
    /\ pc' = [a \in Attempts |-> IF InstOf[a] = i /\ Live(a) THEN "dead" ELSE pc[a]]
    /\ UNCHANGED <<lockVars, kind, gone, todo, result, pctx, runs, current,
                   faults>>

\* The client of an upload disconnects.
ClientGone(a) ==
    /\ Live(a)
    /\ kind[a] = "upload"
    /\ a \notin gone
    /\ gone' = gone \cup {a}
    /\ UNCHANGED <<lockVars, proc, pc, kind, todo, result, pctx, runs, stale,
                   current, faults, crashes>>

Tick ==
    /\ UNCHANGED <<proc, pc, kind, gone, todo, result, pctx, runs, stale,
                   current, faults, crashes>>
    /\ L!Tick

-----------------------------------------------------------------------------
(* Attempts. *)

\* When a process accepts a call: handlers run until srv.Shutdown is over,
\* cron fires until the scheduler stops, a batch job makes its one call.
Accepts(i, k) ==
    /\ k \in Serves[i]
    /\ CASE k \in {"manual", "upload"} -> proc[i] \in {"up", "draining"}
         [] k = "schedule" -> proc[i] \in {"up", "draining", "cancelling"}
         [] k = "batch" -> proc[i] = "up"

\* A call of Run, TriggerAsync or UploadFull: Acquire inserts the row if
\* there is none and reads the clock.
Begin(a, k) ==
    /\ Accepts(InstOf[a], k)
    /\ Goto(a, "idle", "stamped")
    /\ kind' = [kind EXCEPT ![a] = k]
    /\ proc' = IF k = "batch" THEN [proc EXCEPT ![InstOf[a]] = "draining"]
                              ELSE proc
    /\ L!ReadClock(a)
    /\ UNCHANGED <<gone, todo, result, pctx, runs, stale, current, faults,
                   crashes>>

\* Mutant of AcquireLock: the second result of Acquire is ignored.
AcquireLockAnyway(a) ==
    /\ ~CtxDone(a)
    /\ Goto(a, "stamped", IF kind[a] = "upload" THEN "typed" ELSE "locked")
    /\ UNCHANGED <<lockVars, proc, kind, gone, todo, result, pctx, runs, stale,
                   current, faults, crashes>>

\* Acquire succeeds.  An upload is a full run; the others have a type to
\* resolve.
AcquireLock(a) ==
    /\ ~CtxDone(a)
    /\ Goto(a, "stamped", IF kind[a] = "upload" THEN "typed" ELSE "locked")
    /\ L!Acquire(a)
    /\ UNCHANGED <<proc, kind, gone, todo, result, pctx, runs, stale, current,
                   faults, crashes>>

\* Acquire finds the row taken: ErrSyncRunning.
RefuseLock(a) ==
    /\ ~CtxDone(a)
    /\ Goto(a, "stamped", "done")
    /\ L!Refuse(a)
    /\ UNCHANGED <<proc, kind, gone, todo, result, pctx, runs, stale, current,
                   faults, crashes>>

\* Acquire fails: the call returns, and nothing will release the row should
\* a lost connection have hidden a commit.  A context that is done rolls the
\* statement back.
AcquireError(a) ==
    /\ StatementFails(a)
    /\ Goto(a, "stamped", "done")
    /\ L!AcquireError(a)
    /\ faults' = faults => lock' = lock
    /\ UNCHANGED <<proc, kind, gone, todo, result, pctx, runs, stale, current,
                   crashes>>

\* resolveType: counts the addresses for an automatic type.
ResolveType(a) ==
    /\ ~CtxDone(a)
    /\ Goto(a, "locked", "typed")
    /\ UNCHANGED <<lockVars, proc, kind, gone, todo, result, pctx, runs, stale,
                   current, faults, crashes>>

\* resolveType fails: the lock is released and there is no row.
ResolveError(a) ==
    /\ StatementFails(a)
    /\ Goto(a, "locked", "release")
    /\ UNCHANGED <<lockVars, proc, kind, gone, todo, result, pctx, runs, stale,
                   current, crashes>>

\* Mutant of BeginRun: the release is deferred by TriggerAsync itself, not
\* by its goroutine.
BeginRunReleases(a) ==
    /\ ~CtxDone(a)
    /\ Goto(a, "typed", "apply")
    /\ runs' = [runs EXCEPT ![a] = "running"]
    /\ \E n \in 0..MaxBatches : todo' = [todo EXCEPT ![a] = n]
    /\ lock' = IF kind[a] = "manual" THEN [lock EXCEPT !.locked = FALSE] ELSE lock
    /\ UNCHANGED <<clock, stamp, proc, kind, gone, result, pctx, stale, current,
                   faults, crashes>>

\* beginRun: the row is created as running, and the body of the run, some
\* number of batches, lies ahead.
BeginRun(a) ==
    /\ ~CtxDone(a)
    /\ Goto(a, "typed", "apply")
    /\ runs' = [runs EXCEPT ![a] = "running"]
    /\ \E n \in 0..MaxBatches : todo' = [todo EXCEPT ![a] = n]
    /\ UNCHANGED <<lockVars, proc, kind, gone, result, pctx, stale, current,
                   faults, crashes>>

\* beginRun fails: the lock is released.  An error of the database may hide
\* a committed row.
BeginRunError(a) ==
    /\ StatementFails(a)
    /\ Goto(a, "typed", "release")
    /\ \/ UNCHANGED runs
       \/ faults' # faults /\ runs' = [runs EXCEPT ![a] = "running"]
    /\ UNCHANGED <<lockVars, proc, kind, gone, todo, result, pctx, stale,
                   current, crashes>>

\* Mutant of ReadBatch: one batch too many.
ReadBatchPastEnd(a) ==
    /\ ~CtxDone(a)
    /\ Goto(a, "apply", "batch")
    /\ current' = current \cup {a}
    /\ UNCHANGED <<lockVars, proc, kind, gone, todo, result, pctx, runs, stale,
                   faults, crashes>>

\* applyBatch reads the stored hashes of the batch.
ReadBatch(a) ==
    /\ ~CtxDone(a)
    /\ todo[a] > 0
    /\ Goto(a, "apply", "batch")
    /\ current' = current \cup {a}
    /\ UNCHANGED <<lockVars, proc, kind, gone, todo, result, pctx, runs, stale,
                   faults, crashes>>

\* applyBatch writes what it found to differ: what others have read is old.
WriteBatch(a) ==
    /\ ~CtxDone(a)
    /\ Goto(a, "batch", "apply")
    /\ todo' = [todo EXCEPT ![a] = @ - 1]
    /\ current' = {}
    /\ UNCHANGED <<lockVars, proc, kind, gone, result, pctx, runs, stale,
                   faults, crashes>>

\* The body ends without error.
ApplyDone(a) ==
    /\ todo[a] = 0
    /\ Goto(a, "apply", "persist")
    /\ result' = [result EXCEPT ![a] = "success"]
    /\ UNCHANGED <<lockVars, proc, kind, gone, todo, pctx, runs, stale, current,
                   faults, crashes>>

\* The body ends with an error: settings, download, unzip, parse, a context
\* that is done or the database.  A chunk of deletions may have been
\* committed before.
ApplyError(a) ==
    /\ \E l \in {"apply", "batch"} : Goto(a, l, "persist")
    /\ result' = [result EXCEPT ![a] = "failed"]
    /\ current' \in {current, {}}
    /\ UNCHANGED <<lockVars, proc, kind, gone, todo, pctx, runs, stale, faults,
                   crashes>>

\* Mutants of PersistContext: always the context of the run, and the lock
\* released before the row is updated.
PersistContextOwn(a) ==
    /\ Goto(a, "persist", "update")
    /\ pctx' = [pctx EXCEPT ![a] = "own"]
    /\ UNCHANGED <<lockVars, proc, kind, gone, todo, result, runs, stale,
                   current, faults, crashes>>

PersistAfterRelease(a) ==
    /\ Goto(a, "persist", "update")
    /\ pctx' = [pctx EXCEPT ![a] = IF CtxDone(a) THEN "fresh" ELSE "own"]
    /\ lock' = [lock EXCEPT !.locked = FALSE, !.holder = NoHolder]
    /\ UNCHANGED <<clock, stamp, proc, kind, gone, todo, result, runs, stale,
                   current, faults, crashes>>

\* persistContext: the context of the run unless it is done by now, in which
\* case a fresh one.
PersistContext(a) ==
    /\ Goto(a, "persist", "update")
    /\ pctx' = [pctx EXCEPT ![a] = IF CtxDone(a) THEN "fresh" ELSE "own"]
    /\ UNCHANGED <<lockVars, proc, kind, gone, todo, result, runs, stale,
                   current, faults, crashes>>

\* runs.Update saves the whole row with its final status.
UpdateRun(a) ==
    /\ pctx[a] = "own" => ~CtxDone(a)
    /\ Goto(a, "update", "release")
    /\ runs' = [runs EXCEPT ![a] = result[a]]
    /\ UNCHANGED <<lockVars, proc, kind, gone, todo, result, pctx, stale,
                   current, faults, crashes>>

\* runs.Update fails and is logged: the row stays as it was.
UpdateRunError(a) ==
    /\ \/ pctx[a] = "own" /\ CtxDone(a) /\ UNCHANGED faults
       \/ Fault
    /\ Goto(a, "update", "release")
    /\ UNCHANGED <<lockVars, proc, kind, gone, todo, result, pctx, runs, stale,
                   current, crashes>>

\* The deferred release, under its own context.
ReleaseLock(a) ==
    /\ Goto(a, "release", "done")
    /\ L!Release(a)
    /\ UNCHANGED <<proc, kind, gone, todo, result, pctx, runs, stale, current,
                   faults, crashes>>

\* The release fails and is logged.
ReleaseLockError(a) ==
    /\ Fault
    /\ Goto(a, "release", "done")
    /\ L!ReleaseError(a)
    /\ UNCHANGED <<proc, kind, gone, todo, result, pctx, runs, stale, current,
                   crashes>>

-----------------------------------------------------------------------------
Process(i) ==
    \/ Start(i) \/ CleanupSave(i) \/ CleanupError(i)
    \/ Terminate(i) \/ CancelAsync(i) \/ StopScheduler(i) \/ Interrupt(i)
    \/ Exit(i) \/ Crash(i)

Attempt(a) ==
    \/ \E k \in EntryPoints : Begin(a, k)
    \/ AcquireLock(a) \/ RefuseLock(a) \/ AcquireError(a)
    \/ ResolveType(a) \/ ResolveError(a)
    \/ BeginRun(a) \/ BeginRunError(a)
    \/ ReadBatch(a) \/ WriteBatch(a) \/ ApplyDone(a) \/ ApplyError(a)
    \/ PersistContext(a) \/ UpdateRun(a) \/ UpdateRunError(a)
    \/ ReleaseLock(a) \/ ReleaseLockError(a)
    \/ ClientGone(a)

Next ==
    \/ \E i \in Instances : Process(i)
    \/ \E a \in Attempts : Attempt(a)
    \/ Tick

Spec == Init /\ [][Next]_vars

\* What a live attempt does on its own: a goroutine with work to do runs.
\* Calls, crashes, signals, disconnects and faults are up to the environment.
Proceed(a) ==
    \/ AcquireLock(a) \/ RefuseLock(a)
    \/ ResolveType(a) \/ BeginRun(a)
    \/ ReadBatch(a) \/ WriteBatch(a) \/ ApplyDone(a) \/ ApplyError(a)
    \/ PersistContext(a) \/ UpdateRun(a)
    \/ ReleaseLock(a)
    \/ /\ CtxDone(a)
       /\ AcquireError(a) \/ ResolveError(a) \/ BeginRunError(a) \/ UpdateRunError(a)

\* A shutdown that has begun goes on; nothing says a process is restarted.
ShutDown(i) == CancelAsync(i) \/ StopScheduler(i) \/ Exit(i)

Fairness ==
    /\ \A a \in Attempts : WF_vars(Proceed(a))
    /\ \A i \in Instances : WF_vars(ShutDown(i))

FairSpec == Spec /\ Fairness

-----------------------------------------------------------------------------
\* Types.
TypeOK ==
    /\ L!TypeOK
    /\ proc \in [Instances ->
            {"down", "cleaning", "up", "draining", "cancelling", "stopping"}]
    /\ pc \in [Attempts -> LiveAt \cup {"idle", "done", "dead"}]
    /\ kind \in [Attempts -> EntryPoints \cup {"none"}]
    /\ gone \subseteq Attempts
    /\ todo \in [Attempts -> Nat]
    /\ result \in [Attempts -> Terminal \cup {"none"}]
    /\ pctx \in [Attempts -> {"none", "own", "fresh"}]
    /\ runs \in [Attempts -> Terminal \cup {"none", "running"}]
    /\ stale \in [Instances -> SUBSET Attempts]
    /\ current \subseteq Attempts
    /\ faults \in Nat
    /\ crashes \in Nat

\* The classification of a batch still holds when the batch is written: no
\* other attempt has written between ExistingHashes and UpsertBatch, which
\* are not in one transaction (the comment of applyBatch).
BatchIsolation == \A a \in Attempts : pc[a] = "batch" => a \in current

\* The engine uses the lock as SyncLock says, and so, in time, it is an
\* implementation of SingleWriter: at most one attempt between its Acquire
\* and its release.
OneWriterAtATime == L!RefinesSingleWriter

\* A row that says running while its attempt is alive goes with a lock held
\* by that attempt: the status settles before the lock is released, so the
\* next caller never finds the lock free and the last run unfinished.
LiveRunHoldsLock ==
    \A a \in Attempts :
        Live(a) /\ runs[a] = "running" => lock.locked /\ lock.holder = a

\* A process that has ended in order leaves no attempt running: neither an
\* upload, nor a goroutine of TriggerAsync, nor a cron job.
ExitLeavesNothingBehind ==
    \A a \in Attempts : proc[InstOf[a]] = "down" => ~Live(a)

\* A process that is up again has settled the rows its dead attempts left
\* running ("避免状态 API 与管理画面长期显示“运行中”", internal/app/wire.go).
RestartSettlesDeadRuns ==
    \A a \in Attempts :
        pc[a] = "dead" /\ runs[a] = "running"
            => proc[InstOf[a]] \in {"down", "cleaning"}

\* A run that says failed is over: its attempt writes no more addresses.
FailedRunIsOver ==
    \A a \in Attempts :
        runs[a] = "failed" => pc[a] \notin {"apply", "batch", "persist", "update"}

\* The rows of a server on its own are a RunLedger: a row is created running,
\* settled once, by its attempt or by the clean-up of a restart, and never
\* rewritten.
RowsFollowLedger == Ledger!Spec

\* With several processes on the database a settled row changes in two ways
\* only, in which two processes meet: another process that starts has read it
\* while it said running, and now saves it as failed; or its own attempt, still
\* at work, saves its success over such a failure.  Neither the clean-up of its
\* own process nor a failure of its own attempt ever does (MarkRunningFailed in
\* internal/store/syncrun_repo.go against Update of the whole row).
SettledRowsChange ==
    [][\A a \in Attempts :
          runs[a] \in Terminal /\ runs'[a] # runs[a] =>
             \/ /\ runs[a] = "success"
                /\ \E i \in Instances \ {InstOf[a]} : proc[i] = "cleaning" /\ a \in stale[i]
             \/ runs[a] = "failed" /\ pc[a] = "update" /\ result[a] = "success"]_vars

\* The rows of a server that has shut down in order are settled ("被 shutdown
\* 取消的运行记录应从 running 收敛为 failed", docs/spec.md).
ShutdownSettlesRuns ==
    \A a \in Attempts :
        proc[InstOf[a]] = "down" /\ pc[a] # "dead" => runs[a] # "running"

\* A run cancelled while it works ends with a settled row, whoever cancelled
\* it, unless its process dies first: that is what the fresh context of
\* persistContext is for.
CancelledRunSettles ==
    \A a \in Attempts :
        (pc[a] \in {"apply", "batch"} /\ CtxDone(a))
            ~> (runs[a] \in Terminal \/ pc[a] = "dead")

\* A shutdown ends, whatever attempts it finds: each stage waits only for
\* attempts that end by themselves or have been cancelled.
ShutdownEnds ==
    \A i \in Instances : proc[i] = "draining" ~> proc[i] = "down"
=============================================================================
