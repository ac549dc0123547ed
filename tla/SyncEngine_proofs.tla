-------------------------- MODULE SyncEngine_proofs --------------------------
(***************************************************************************)
(* Proofs about the engine (SyncEngine), for any number of processes and   *)
(* attempts, any batches, errors and crashes.                              *)
(*                                                                         *)
(* Every step of the engine is a step of the lock or leaves it alone       *)
(* (UsesLock), so what SyncLock_proofs shows of the lock holds here.  The  *)
(* rest is three inductive invariants over that: ProcessInv, about the     *)
(* stages of processes, and RowInv, about the rows of sync_runs, which     *)
(* assume nothing of time, and isolation of batches, which needs attempts  *)
(* that are in time for their lease.  At the end, what an attempt has      *)
(* still to do.                                                            *)
(***************************************************************************)
EXTENDS SyncEngine, TLAPS

P == INSTANCE SyncLock_proofs WITH Sessions <- Attempts, phase <- lockPhase

LEMMA LockAssumptions == P!SessionsAssumption /\ P!TimeAssumption
  BY EngineAssumption DEF P!SessionsAssumption, P!TimeAssumption

-----------------------------------------------------------------------------
(* The engine and the lock. *)

\* Where an attempt is, as the lock sees it.
LEMMA PhaseAt ==
    ASSUME NEW a \in Attempts
    PROVE  /\ lockPhase[a] = "idle" <=> pc[a] = "idle"
           /\ lockPhase[a] = "stamped" <=> pc[a] = "stamped"
           /\ lockPhase[a] = "held" <=> pc[a] \in HeldAt
  BY DEF lockPhase, PhaseOf, HeldAt

\* A step between two places that the lock does not tell apart.
LEMMA SamePhase ==
    ASSUME NEW S, pc \in [Attempts -> S], NEW a \in Attempts, NEW from, NEW to,
           Goto(a, from, to), PhaseOf(from) = PhaseOf(to)
    PROVE  lockPhase' = lockPhase
<1>1. \A b \in Attempts : PhaseOf(pc'[b]) = PhaseOf(pc[b])
  BY DEF Goto
<1> QED
  BY <1>1 DEF lockPhase

LEMMA SameLock ==
    /\ L!Init <=> P!Init
    /\ [L!Next]_(L!vars) <=> [P!Next]_(P!vars)
    /\ L!TypeOK <=> P!TypeOK
    /\ L!TypeOK' <=> P!TypeOK'
    /\ L!InTime <=> P!InTime
  BY DEF L!Init, P!Init, L!TypeOK, P!TypeOK, L!Row, P!Row, L!Phases, P!Phases,
     L!InTime, P!InTime, L!vars, P!vars, L!Next, P!Next,
     L!ReadClock, P!ReadClock, L!Acquire, P!Acquire, L!Refuse, P!Refuse,
     L!AcquireError, P!AcquireError, L!Release, P!Release, L!ReleaseError,
     P!ReleaseError, L!Crash, P!Crash, L!Tick, P!Tick, L!Active, P!Active,
     L!Acquirable, P!Acquirable, L!Stale, P!Stale, L!TakeRow, P!TakeRow,
     L!Now, P!Now

\* Steps that stay away from the row.
LEMMA QuietStep ==
    ASSUME TypeOK, NEW a \in Attempts,
           \/ ResolveType(a) \/ ResolveError(a) \/ BeginRun(a) \/ BeginRunError(a)
           \/ ReadBatch(a) \/ WriteBatch(a) \/ ApplyDone(a) \/ ApplyError(a)
           \/ PersistContext(a) \/ UpdateRun(a) \/ UpdateRunError(a)
           \/ ClientGone(a)
    PROVE  UNCHANGED L!vars
<1>1. UNCHANGED lockVars
  BY DEF ResolveType, ResolveError, BeginRun, BeginRunError, ReadBatch, WriteBatch,
     ApplyDone, ApplyError, PersistContext, UpdateRun, UpdateRunError, ClientGone
<1>2. \/ \E from, to \in HeldAt : Goto(a, from, to)
      \/ UNCHANGED pc
  BY DEF ResolveType, ResolveError, BeginRun, BeginRunError, ReadBatch, WriteBatch,
     ApplyDone, ApplyError, PersistContext, UpdateRun, UpdateRunError, ClientGone,
     HeldAt
<1>3. ASSUME NEW from \in HeldAt, NEW to \in HeldAt
      PROVE  PhaseOf(from) = PhaseOf(to)
  BY <1>3 DEF PhaseOf, HeldAt
<1>4. lockPhase' = lockPhase
  BY <1>2, <1>3, SamePhase DEF TypeOK, lockPhase
<1> QED
  BY <1>1, <1>4 DEF L!vars, lockVars

\* Every step of the engine is a step of the lock, or none.
LEMMA LockStep == TypeOK /\ [Next]_vars => [L!Next]_(L!vars)
<1> SUFFICES ASSUME TypeOK, [Next]_vars
             PROVE  [L!Next]_(L!vars)
    OBVIOUS
<1>1. ASSUME NEW a \in Attempts, NEW k \in EntryPoints, Begin(a, k)
      PROVE  L!Next
  BY <1>1 DEF Begin, L!Next
<1>2. ASSUME NEW a \in Attempts,
             \/ AcquireLock(a) \/ RefuseLock(a) \/ AcquireError(a)
             \/ ReleaseLock(a) \/ ReleaseLockError(a)
      PROVE  L!Next
  BY <1>2 DEF AcquireLock, RefuseLock, AcquireError, ReleaseLock, ReleaseLockError,
     L!Next
<1>3. ASSUME NEW i \in Instances, Crash(i)
      PROVE  [L!Next]_(L!vars)
  <2>1. UNCHANGED lockVars
    BY <1>3 DEF Crash
  <2>2. \A a \in Attempts : L!Active(a) <=> Live(a)
    BY PhaseAt DEF L!Active, Live, LiveAt
  <2>3. \A a \in Attempts :
           lockPhase'[a] = IF InstOf[a] = i /\ Live(a) THEN "ended" ELSE lockPhase[a]
    BY <1>3 DEF Crash, lockPhase, PhaseOf, HeldAt
  <2>4. CASE \E a \in Attempts : InstOf[a] = i /\ L!Active(a)
    <3>1. lockPhase' = [a \in Attempts |->
                           IF InstOf[a] = i /\ L!Active(a) THEN "ended" ELSE lockPhase[a]]
      BY <2>2, <2>3 DEF lockPhase
    <3> QED
      BY <2>1, <2>4, <3>1 DEF L!Crash, L!Next, lockVars
  <2>5. CASE ~\E a \in Attempts : InstOf[a] = i /\ L!Active(a)
    <3>1. lockPhase' = lockPhase
      BY <2>2, <2>3, <2>5 DEF lockPhase
    <3> QED
      BY <2>1, <3>1 DEF L!vars, lockVars
  <2> QED
    BY <2>4, <2>5
<1>4. ASSUME NEW i \in Instances,
             \/ Start(i) \/ CleanupSave(i) \/ CleanupError(i) \/ Terminate(i)
             \/ CancelAsync(i) \/ StopScheduler(i) \/ Interrupt(i) \/ Exit(i)
      PROVE  UNCHANGED L!vars
  BY <1>4 DEF Start, CleanupSave, CleanupError, Terminate, CancelAsync,
     StopScheduler, Interrupt, Exit, L!vars, lockVars, lockPhase
<1>5. CASE Tick
  BY <1>5 DEF Tick, L!Next
<1>6. CASE UNCHANGED vars
  BY <1>6 DEF vars, lockVars, L!vars, lockPhase
<1> QED
  BY <1>1, <1>2, <1>3, <1>4, <1>5, <1>6, QuietStep DEF Next, Process, Attempt

LEMMA TypeInit == Init => TypeOK
<1> SUFFICES ASSUME Init
             PROVE  TypeOK
    OBVIOUS
<1>1. L!TypeOK
  BY LockAssumptions, SameLock, P!TypeInit DEF Init
<1> QED
  BY <1>1 DEF Init, TypeOK, LiveAt

\* An attempt that has read a batch has it still to write, so `todo` does not
\* go below zero.
BatchLeft == \A a \in Attempts : pc[a] = "batch" => todo[a] # 0

\* The part of TypeOK that is not the lock's.
LEMMA EngineTypeStep ==
    ASSUME TypeOK, BatchLeft, [Next]_vars, L!TypeOK'
    PROVE  TypeOK'
<1> USE DEF TypeOK, EntryPoints, Terminal
<1>1. ASSUME NEW i \in Instances, Process(i)
      PROVE  TypeOK'
  <2>1. ASSUME Start(i)
        PROVE  TypeOK'
    BY <2>1 DEF Start
  <2>2. ASSUME CleanupSave(i)
        PROVE  TypeOK'
    BY <2>2 DEF CleanupSave
  <2>3. ASSUME CleanupError(i)
        PROVE  TypeOK'
    BY <2>3 DEF CleanupError, Fault
  <2>4. ASSUME Terminate(i) \/ CancelAsync(i) \/ StopScheduler(i) \/ Interrupt(i) \/ Exit(i)
        PROVE  TypeOK'
    BY <2>4 DEF Terminate, CancelAsync, StopScheduler, Interrupt, Exit
  <2>5. ASSUME Crash(i)
        PROVE  TypeOK'
    BY <2>5 DEF Crash
  <2> QED
    BY <1>1, <2>1, <2>2, <2>3, <2>4, <2>5 DEF Process
<1>2. ASSUME NEW a \in Attempts, Attempt(a)
      PROVE  TypeOK'
  <2> USE DEF Goto, LiveAt, HeldAt
  <2>1. ASSUME NEW k \in EntryPoints, Begin(a, k)
        PROVE  TypeOK'
    BY <2>1, EngineAssumption DEF Begin
  <2>2. ASSUME AcquireLock(a) \/ RefuseLock(a)
        PROVE  TypeOK'
    BY <2>2 DEF AcquireLock, RefuseLock
  <2>3. ASSUME AcquireError(a) \/ ResolveError(a) \/ UpdateRunError(a)
               \/ ReleaseLockError(a)
        PROVE  TypeOK'
    BY <2>3 DEF AcquireError, ResolveError, UpdateRunError, ReleaseLockError,
       StatementFails, Fault
  <2>4. ASSUME ResolveType(a) \/ ReleaseLock(a) \/ ClientGone(a)
        PROVE  TypeOK'
    BY <2>4 DEF ResolveType, ReleaseLock, ClientGone
  <2>5. ASSUME BeginRun(a)
        PROVE  TypeOK'
    <3>1. \A n \in 0..MaxBatches : n \in Nat
      OBVIOUS
    <3> QED
      BY <2>5, <3>1 DEF BeginRun
  <2>6. ASSUME BeginRunError(a)
        PROVE  TypeOK'
    BY <2>6 DEF BeginRunError, StatementFails, Fault
  <2>7. ASSUME ReadBatch(a) \/ ApplyDone(a) \/ ApplyError(a)
        PROVE  TypeOK'
    BY <2>7 DEF ReadBatch, ApplyDone, ApplyError
  <2>8. ASSUME WriteBatch(a)
        PROVE  TypeOK'
    <3>1. todo[a] - 1 \in Nat
      BY <2>8 DEF WriteBatch, BatchLeft
    <3> QED
      BY <2>8, <3>1 DEF WriteBatch
  <2>9. ASSUME PersistContext(a) \/ UpdateRun(a)
        PROVE  TypeOK'
    BY <2>9 DEF PersistContext, UpdateRun
  <2> QED
    BY <1>2, <2>1, <2>2, <2>3, <2>4, <2>5, <2>6, <2>7, <2>8, <2>9 DEF Attempt
<1>3. CASE Tick
  BY <1>3 DEF Tick
<1>4. CASE UNCHANGED vars
  BY <1>4 DEF vars
<1> QED
  BY <1>1, <1>2, <1>3, <1>4 DEF Next

LEMMA TypeStep == TypeOK /\ BatchLeft /\ [Next]_vars => TypeOK'
<1>1. TypeOK /\ [Next]_vars => L!TypeOK'
  BY LockStep, LockAssumptions, SameLock, P!TypeStep DEF TypeOK
<1> QED
  BY <1>1, EngineTypeStep

LEMMA BatchLeftStep == TypeOK /\ BatchLeft /\ [Next]_vars => BatchLeft'
<1> SUFFICES ASSUME TypeOK, BatchLeft, [Next]_vars,
                    NEW b \in Attempts, pc'[b] = "batch"
             PROVE  todo'[b] # 0
    BY DEF BatchLeft
<1> USE DEF TypeOK, BatchLeft
<1>1. ASSUME NEW i \in Instances, Process(i)
      PROVE  todo'[b] # 0
  BY <1>1 DEF Process, Start, CleanupSave, CleanupError, Terminate, CancelAsync,
     StopScheduler, Interrupt, Exit, Crash
<1>2. ASSUME NEW a \in Attempts, Attempt(a)
      PROVE  todo'[b] # 0
  <2> USE DEF Goto
  <2>1. CASE ReadBatch(a)
    BY <2>1 DEF ReadBatch
  <2>2. CASE WriteBatch(a)
    BY <2>2 DEF WriteBatch
  <2>3. CASE BeginRun(a)
    BY <2>3 DEF BeginRun
  <2>4. CASE ApplyError(a)
    BY <2>4 DEF ApplyError
  <2>5. ASSUME NEW k \in EntryPoints, Begin(a, k)
        PROVE  todo'[b] # 0
    BY <2>5 DEF Begin
  <2>6. CASE AcquireLock(a) \/ RefuseLock(a) \/ AcquireError(a)
    BY <2>6 DEF AcquireLock, RefuseLock, AcquireError
  <2>7. CASE \/ ResolveType(a) \/ ResolveError(a) \/ BeginRunError(a)
             \/ ApplyDone(a) \/ PersistContext(a) \/ UpdateRun(a)
             \/ UpdateRunError(a) \/ ReleaseLock(a) \/ ReleaseLockError(a)
             \/ ClientGone(a)
    BY <2>7 DEF ResolveType, ResolveError, BeginRunError, ApplyDone,
       PersistContext, UpdateRun, UpdateRunError, ReleaseLock, ReleaseLockError,
       ClientGone
  <2> QED
    BY <1>2, <2>1, <2>2, <2>3, <2>4, <2>5, <2>6, <2>7 DEF Attempt
<1>3. CASE Tick \/ UNCHANGED vars
  BY <1>3 DEF Tick, vars
<1> QED
  BY <1>1, <1>2, <1>3 DEF Next

\* Type correctness of the engine.
THEOREM TypeCorrect == Spec => []TypeOK
<1>1. Init => TypeOK /\ BatchLeft
  BY TypeInit DEF Init, BatchLeft
<1>2. TypeOK /\ BatchLeft /\ [Next]_vars => (TypeOK /\ BatchLeft)'
  BY TypeStep, BatchLeftStep
<1> QED
  BY <1>1, <1>2, PTL DEF Spec

\* The engine uses the lock as the lock is specified: whatever handlers,
\* goroutines, cron jobs, clean-ups and shutdowns do, the row sees calls of
\* Acquire and of release closures, in that order.
THEOREM UsesLock == Spec => L!Spec
<1>1. Init => L!Init
  BY DEF Init
<1> QED
  BY <1>1, TypeCorrect, LockStep, PTL DEF Spec, L!Spec

-----------------------------------------------------------------------------
(* Processes and the rows of sync_runs: nothing is assumed of time. *)

\* The stages of a shutdown have waited for whom they say: a live attempt
\* came in by an entry point of its process, and by the time asyncCtx is
\* cancelled the uploads have returned, by the time the scheduler's context
\* is, the manual runs too.
Stages ==
    \A a \in Attempts :
        Live(a) =>
            /\ kind[a] \in Serves[InstOf[a]]
            /\ proc[InstOf[a]] \in {"up", "draining", "cancelling", "stopping"}
            /\ proc[InstOf[a]] = "cancelling" => kind[a] # "upload"
            /\ proc[InstOf[a]] = "stopping" => kind[a] \in {"schedule", "batch"}

\* What the dead have left is being settled: a process that is cleaning up
\* has on its list every dead attempt of its own whose row says running.
DeadListed ==
    \A a \in Attempts :
        pc[a] = "dead" /\ runs[a] = "running" =>
            \/ proc[InstOf[a]] = "down"
            \/ proc[InstOf[a]] = "cleaning" /\ a \in stale[InstOf[a]]

ProcessInv == TypeOK /\ Stages /\ DeadListed

LEMMA ProcessInvInit == Init => Stages /\ DeadListed
  BY DEF Init, Stages, DeadListed, Live, LiveAt, HeldAt

\* Steps of an attempt that neither begin it nor change its process.
LEMMA AttemptKeepsStage ==
    ASSUME TypeOK, NEW a \in Attempts, Attempt(a), ~\E k \in EntryPoints : Begin(a, k)
    PROVE  /\ UNCHANGED <<proc, kind, stale>>
           /\ \A b \in Attempts : Live(b)' => Live(b)
           /\ \A b \in Attempts : pc'[b] = "dead" => pc[b] = "dead" /\ runs'[b] = runs[b]
<1> USE DEF TypeOK, Goto, Live, LiveAt, HeldAt
<1>1. CASE AcquireLock(a) \/ RefuseLock(a) \/ AcquireError(a)
  BY <1>1 DEF AcquireLock, RefuseLock, AcquireError
<1>2. CASE ResolveType(a) \/ ResolveError(a) \/ BeginRun(a) \/ BeginRunError(a)
  BY <1>2 DEF ResolveType, ResolveError, BeginRun, BeginRunError
<1>3. CASE ReadBatch(a) \/ WriteBatch(a) \/ ApplyDone(a)
  BY <1>3 DEF ReadBatch, WriteBatch, ApplyDone
<1>4. CASE ApplyError(a)
  BY <1>4 DEF ApplyError
<1>5. CASE PersistContext(a) \/ UpdateRun(a) \/ UpdateRunError(a)
  BY <1>5 DEF PersistContext, UpdateRun, UpdateRunError
<1>6. CASE ReleaseLock(a) \/ ReleaseLockError(a) \/ ClientGone(a)
  BY <1>6 DEF ReleaseLock, ReleaseLockError, ClientGone
<1> QED
  BY <1>1, <1>2, <1>3, <1>4, <1>5, <1>6 DEF Attempt

LEMMA StagesStep == TypeOK /\ Stages /\ [Next]_vars => Stages'
<1> SUFFICES ASSUME TypeOK, Stages, [Next]_vars, NEW b \in Attempts, Live(b)'
             PROVE  /\ kind'[b] \in Serves[InstOf[b]]
                    /\ proc'[InstOf[b]] \in {"up", "draining", "cancelling", "stopping"}
                    /\ proc'[InstOf[b]] = "cancelling" => kind'[b] # "upload"
                    /\ proc'[InstOf[b]] = "stopping" => kind'[b] \in {"schedule", "batch"}
    BY DEF Stages
<1> DEFINE Goal ==
        /\ kind'[b] \in Serves[InstOf[b]]
        /\ proc'[InstOf[b]] \in {"up", "draining", "cancelling", "stopping"}
        /\ proc'[InstOf[b]] = "cancelling" => kind'[b] # "upload"
        /\ proc'[InstOf[b]] = "stopping" => kind'[b] \in {"schedule", "batch"}
<1>0. InstOf[b] \in Instances /\ Serves[InstOf[b]] \subseteq EntryPoints
  BY EngineAssumption
<1>1. ASSUME NEW a \in Attempts, NEW k \in EntryPoints, Begin(a, k)
      PROVE  Goal
  <2> USE DEF TypeOK, Stages, Live
  <2>1. CASE b = a
    <3>1. kind'[b] = k /\ k \in Serves[InstOf[b]]
      BY <1>1, <2>1 DEF Begin, Accepts
    <3>2. CASE k = "batch"
      BY <1>0, <1>1, <2>1, <3>1, <3>2 DEF Begin
    <3>3. CASE k = "schedule"
      BY <1>0, <1>1, <2>1, <3>1, <3>3 DEF Begin, Accepts
    <3>4. CASE k \in {"manual", "upload"}
      BY <1>0, <1>1, <2>1, <3>1, <3>4 DEF Begin, Accepts
    <3> QED
      BY <3>2, <3>3, <3>4 DEF EntryPoints
  <2>2. CASE b # a
    <3>1. Live(b) /\ kind'[b] = kind[b]
      BY <1>1, <2>2 DEF Begin, Goto
    <3>2. \/ proc'[InstOf[b]] = proc[InstOf[b]]
          \/ proc'[InstOf[b]] = "draining"
      BY <1>0, <1>1 DEF Begin
    <3> QED
      BY <3>1, <3>2
  <2> QED
    BY <2>1, <2>2
<1>2. ASSUME NEW a \in Attempts, Attempt(a), ~\E k \in EntryPoints : Begin(a, k)
      PROVE  Goal
  BY <1>2, AttemptKeepsStage DEF Stages
<1>3. ASSUME NEW i \in Instances, Process(i)
      PROVE  Goal
  <2> USE DEF TypeOK, Stages
  <2>1. Live(b) /\ kind' = kind
    BY <1>3 DEF Process, Start, CleanupSave, CleanupError, Terminate, CancelAsync,
       StopScheduler, Interrupt, Exit, Crash, Live, LiveAt, HeldAt
  <2>2. CASE InstOf[b] # i
    <3>1. proc'[InstOf[b]] = proc[InstOf[b]]
      BY <1>0, <1>3, <2>2 DEF Process, Start, CleanupSave, CleanupError, Terminate,
         CancelAsync, StopScheduler, Interrupt, Exit, Crash
    <3> QED
      BY <2>1, <3>1
  <2>3. CASE InstOf[b] = i
    <3>1. CASE Start(i) \/ CleanupSave(i) \/ CleanupError(i)
      BY <2>1, <2>3, <3>1 DEF Start, CleanupSave, CleanupError
    <3>2. CASE Terminate(i)
      BY <2>1, <2>3, <3>2 DEF Terminate
    <3>3. CASE CancelAsync(i)
      BY <2>1, <2>3, <3>3 DEF CancelAsync, LiveOf
    <3>4. CASE StopScheduler(i)
      <4>1. kind[b] # "manual" /\ kind[b] # "upload"
        BY <2>1, <2>3, <3>4 DEF StopScheduler, LiveOf
      <4> QED
        BY <1>0, <2>1, <2>3, <3>4, <4>1 DEF StopScheduler, EntryPoints
    <3>5. CASE Interrupt(i)
      <4>1. kind[b] = "batch"
        BY <2>1, <2>3, <3>5, EngineAssumption DEF Interrupt
      <4> QED
        BY <2>1, <2>3, <3>5, <4>1 DEF Interrupt
    <3>6. CASE Exit(i)
      <4>1. kind[b] \in {"schedule", "batch"}
        BY <2>1, <2>3, <3>6, EngineAssumption DEF Exit
      <4> QED
        BY <2>1, <2>3, <3>6, <4>1 DEF Exit, LiveOf
    <3>7. CASE Crash(i)
      BY <2>3, <3>7 DEF Crash, Live, LiveAt, HeldAt
    <3> QED
      BY <1>3, <3>1, <3>2, <3>3, <3>4, <3>5, <3>6, <3>7 DEF Process
  <2> QED
    BY <2>2, <2>3
<1>4. CASE Tick \/ UNCHANGED vars
  BY <1>4 DEF Tick, vars, Stages, Live
<1> QED
  BY <1>1, <1>2, <1>3, <1>4 DEF Next, Attempt

LEMMA DeadListedStep == TypeOK /\ DeadListed /\ [Next]_vars => DeadListed'
<1> SUFFICES ASSUME TypeOK, DeadListed, [Next]_vars, NEW b \in Attempts,
                    pc'[b] = "dead", runs'[b] = "running"
             PROVE  \/ proc'[InstOf[b]] = "down"
                    \/ proc'[InstOf[b]] = "cleaning" /\ b \in stale'[InstOf[b]]
    BY DEF DeadListed
<1> DEFINE Goal ==
        \/ proc'[InstOf[b]] = "down"
        \/ proc'[InstOf[b]] = "cleaning" /\ b \in stale'[InstOf[b]]
<1>0. InstOf[b] \in Instances
  BY EngineAssumption
<1> USE DEF TypeOK, DeadListed
<1>1. ASSUME NEW a \in Attempts, NEW k \in EntryPoints, Begin(a, k)
      PROVE  Goal
  <2>1. pc[b] = "dead" /\ runs[b] = "running" /\ stale' = stale
    BY <1>1 DEF Begin, Goto
  <2>2. proc'[InstOf[b]] = proc[InstOf[b]]
    BY <1>0, <1>1, <2>1 DEF Begin, Accepts
  <2> QED
    BY <2>1, <2>2
<1>2. ASSUME NEW a \in Attempts, Attempt(a), ~\E k \in EntryPoints : Begin(a, k)
      PROVE  Goal
  BY <1>2, AttemptKeepsStage
<1>3. ASSUME NEW i \in Instances, Process(i)
      PROVE  Goal
  <2>1. CASE Crash(i)
    BY <1>0, <2>1 DEF Crash
  <2>2. CASE Start(i)
    BY <1>0, <2>2 DEF Start
  <2>3. CASE CleanupSave(i)
    BY <1>0, <2>3 DEF CleanupSave
  <2>4. CASE CleanupError(i)
    BY <1>0, <2>4 DEF CleanupError
  <2>5. CASE Terminate(i) \/ CancelAsync(i) \/ StopScheduler(i) \/ Interrupt(i) \/ Exit(i)
    BY <1>0, <2>5 DEF Terminate, CancelAsync, StopScheduler, Interrupt, Exit
  <2> QED
    BY <1>3, <2>1, <2>2, <2>3, <2>4, <2>5 DEF Process
<1>4. CASE Tick \/ UNCHANGED vars
  BY <1>4 DEF Tick, vars
<1> QED
  BY <1>1, <1>2, <1>3, <1>4 DEF Next, Attempt

THEOREM ProcessInvariant == Spec => []ProcessInv
<1>1. ProcessInv /\ TypeOK' /\ [Next]_vars => ProcessInv'
  BY StagesStep, DeadListedStep DEF ProcessInv
<1>2. Init /\ TypeOK => ProcessInv
  BY ProcessInvInit DEF ProcessInv
<1> QED
  BY TypeCorrect, <1>1, <1>2, PTL DEF Spec

\* A process that has ended leaves no attempt running, whichever way its
\* handlers, goroutines and cron jobs fell in with the stages of a shutdown.
THEOREM OrderlyExit == Spec => []ExitLeavesNothingBehind
<1>1. ProcessInv => ExitLeavesNothingBehind
  BY DEF ProcessInv, Stages, ExitLeavesNothingBehind
<1> QED
  BY ProcessInvariant, <1>1, PTL

\* A process that is up again has settled the rows of its dead attempts.
THEOREM RestartSettles == Spec => []RestartSettlesDeadRuns
<1>1. ProcessInv => RestartSettlesDeadRuns
  BY DEF ProcessInv, DeadListed, RestartSettlesDeadRuns
<1> QED
  BY ProcessInvariant, <1>1, PTL

-----------------------------------------------------------------------------
(* In time: at most one attempt at work. *)

LEMMA UsesLockP == Spec => P!Spec
<1>1. (L!Init <=> P!Init) /\ ([L!Next]_(L!vars) <=> [P!Next]_(P!vars))
  BY SameLock
<1> QED
  BY UsesLock, <1>1, PTL DEF L!Spec, P!Spec

\* The engine's use of the lock implements SingleWriter: the attempts between
\* their Acquire and their release are the writers, over crashes, errors and
\* overlapping processes.
THEOREM OneWriter ==
    ASSUME L!InTime
    PROVE  Spec => OneWriterAtATime
<1>1. P!InTime
  BY SameLock
<1>2. P!Spec => P!RefinesSingleWriter
  BY <1>1, LockAssumptions, P!ImplementsSingleWriter
<1>3. L!Holding = P!Holding
  BY DEF L!Holding, P!Holding
<1>4. L!SW!Init <=> P!SW!Init
  BY <1>3 DEF L!SW!Init, P!SW!Init
<1>5. [L!SW!Next]_(L!Holding) <=> [P!SW!Next]_(P!Holding)
  BY DEF L!SW!Next, P!SW!Next, L!SW!Enter, P!SW!Enter, L!SW!Leave, P!SW!Leave,
     L!Holding, P!Holding
<1> QED
  BY UsesLockP, <1>2, <1>4, <1>5, PTL
     DEF OneWriterAtATime, L!RefinesSingleWriter, P!RefinesSingleWriter,
         L!SW!Spec, P!SW!Spec

\* Every attempt that has acquired the lock and not released it has its name
\* in the row.
RowIsHolders ==
    \A a \in Attempts : pc[a] \in HeldAt => lock.locked /\ lock.holder = a

THEOREM RowIsHoldersInTime ==
    ASSUME L!InTime
    PROVE  Spec => []RowIsHolders
<1>1. P!LockInv /\ P!SessionsInTime => RowIsHolders
  <2> SUFFICES ASSUME P!LockInv, P!SessionsInTime,
                      NEW a \in Attempts, pc[a] \in HeldAt
               PROVE  lock.locked /\ lock.holder = a
    BY DEF RowIsHolders
  <2>1. a \in P!Holding
    BY PhaseAt DEF P!Holding
  <2>2. ~P!Overrun(a)
    BY <2>1, SameLock, LockAssumptions, P!InTimeNoOverrun DEF P!LockInv
  <2> QED
    BY <2>1, <2>2 DEF P!LockInv, P!HolderOwnsRow
<1>2. P!Spec => []P!LockInv
  BY LockAssumptions, P!LockInvariant
<1>3. P!Spec => []P!SessionsInTime
  BY LockAssumptions, P!SessionsStayInTime
<1> QED
  BY UsesLockP, <1>1, <1>2, <1>3, PTL

\* The hashes that a batch was classified by are still those of the table
\* when the batch is written: only a holder writes, and the reader holds.
LEMMA BatchIsolationStep ==
    TypeOK /\ RowIsHolders /\ BatchIsolation /\ [Next]_vars => BatchIsolation'
<1> SUFFICES ASSUME TypeOK, RowIsHolders, BatchIsolation, [Next]_vars,
                    NEW b \in Attempts, pc'[b] = "batch"
             PROVE  b \in current'
    BY DEF BatchIsolation
<1> USE DEF TypeOK, BatchIsolation
<1>1. ASSUME NEW i \in Instances, Process(i)
      PROVE  b \in current'
  BY <1>1 DEF Process, Start, CleanupSave, CleanupError, Terminate, CancelAsync,
     StopScheduler, Interrupt, Exit, Crash
<1>2. ASSUME NEW a \in Attempts, Attempt(a)
      PROVE  b \in current'
  <2> USE DEF Goto
  <2>1. CASE ReadBatch(a)
    BY <2>1 DEF ReadBatch
  <2>2. CASE WriteBatch(a)
    BY <2>2 DEF WriteBatch, RowIsHolders, HeldAt
  <2>3. CASE ApplyError(a)
    BY <2>3 DEF ApplyError, RowIsHolders, HeldAt
  <2>4. ASSUME NEW k \in EntryPoints, Begin(a, k)
        PROVE  b \in current'
    BY <2>4 DEF Begin
  <2>5. CASE AcquireLock(a) \/ RefuseLock(a) \/ AcquireError(a)
    BY <2>5 DEF AcquireLock, RefuseLock, AcquireError
  <2>6. CASE \/ ResolveType(a) \/ ResolveError(a) \/ BeginRun(a)
             \/ BeginRunError(a) \/ ApplyDone(a) \/ PersistContext(a)
             \/ UpdateRun(a) \/ UpdateRunError(a) \/ ReleaseLock(a)
             \/ ReleaseLockError(a) \/ ClientGone(a)
    BY <2>6 DEF ResolveType, ResolveError, BeginRun, BeginRunError, ApplyDone,
       PersistContext, UpdateRun, UpdateRunError, ReleaseLock, ReleaseLockError,
       ClientGone
  <2> QED
    BY <1>2, <2>1, <2>2, <2>3, <2>4, <2>5, <2>6 DEF Attempt
<1>3. CASE Tick \/ UNCHANGED vars
  BY <1>3 DEF Tick, vars
<1> QED
  BY <1>1, <1>2, <1>3 DEF Next

\* applyBatch may read and write in two statements, as its comment says,
\* because of the lock.
THEOREM BatchesIsolated ==
    ASSUME L!InTime
    PROVE  Spec => []BatchIsolation
<1>1. Init => BatchIsolation
  BY DEF Init, BatchIsolation
<1> QED
  BY TypeCorrect, RowIsHoldersInTime, BatchIsolationStep, <1>1, PTL DEF Spec

\* A row is there only for an attempt that has the lock or has had it.
RowsBegun ==
    /\ \A a \in Attempts : pc[a] \in {"idle", "stamped"} => runs[a] = "none"
    /\ \A a \in Attempts : pc[a] \in {"persist", "update"} => result[a] \in Terminal
    /\ \A i \in Instances : \A a \in stale[i] : runs[a] # "none"

LEMMA RowsBegunStep == TypeOK /\ RowsBegun /\ [Next]_vars => RowsBegun'
<1> SUFFICES ASSUME TypeOK, RowsBegun, [Next]_vars
             PROVE  RowsBegun'
    OBVIOUS
<1> USE DEF TypeOK, RowsBegun, Terminal
<1>1. ASSUME NEW i \in Instances, Process(i)
      PROVE  RowsBegun'
  <2>1. CASE Start(i)
    BY <2>1 DEF Start
  <2>2. CASE CleanupSave(i)
    BY <2>2 DEF CleanupSave
  <2>3. CASE CleanupError(i)
    BY <2>3 DEF CleanupError
  <2>4. CASE Terminate(i) \/ CancelAsync(i) \/ StopScheduler(i) \/ Interrupt(i) \/ Exit(i)
    BY <2>4 DEF Terminate, CancelAsync, StopScheduler, Interrupt, Exit
  <2>5. CASE Crash(i)
    BY <2>5 DEF Crash
  <2> QED
    BY <1>1, <2>1, <2>2, <2>3, <2>4, <2>5 DEF Process
<1>2. ASSUME NEW a \in Attempts, Attempt(a)
      PROVE  RowsBegun'
  <2> USE DEF Goto
  <2>1. ASSUME NEW k \in EntryPoints, Begin(a, k)
        PROVE  RowsBegun'
    BY <2>1 DEF Begin
  <2>2. CASE AcquireLock(a) \/ RefuseLock(a) \/ AcquireError(a)
    BY <2>2 DEF AcquireLock, RefuseLock, AcquireError
  <2>3. CASE ResolveType(a) \/ ResolveError(a)
    BY <2>3 DEF ResolveType, ResolveError
  <2>4. CASE BeginRun(a)
    BY <2>4 DEF BeginRun
  <2>5. CASE BeginRunError(a)
    BY <2>5 DEF BeginRunError
  <2>6. CASE ReadBatch(a) \/ WriteBatch(a) \/ ApplyDone(a)
    BY <2>6 DEF ReadBatch, WriteBatch, ApplyDone
  <2>7. CASE ApplyError(a)
    BY <2>7 DEF ApplyError
  <2>8. CASE PersistContext(a) \/ UpdateRunError(a)
    BY <2>8 DEF PersistContext, UpdateRunError
  <2>9. CASE UpdateRun(a)
    BY <2>9 DEF UpdateRun
  <2>10. CASE ReleaseLock(a) \/ ReleaseLockError(a) \/ ClientGone(a)
    BY <2>10 DEF ReleaseLock, ReleaseLockError, ClientGone
  <2> QED
    BY <1>2, <2>1, <2>2, <2>3, <2>4, <2>5, <2>6, <2>7, <2>8, <2>9, <2>10
       DEF Attempt
<1>3. CASE Tick \/ UNCHANGED vars
  BY <1>3 DEF Tick, vars
<1> QED
  BY <1>1, <1>2, <1>3 DEF Next

\* A row that says running while its attempt is alive goes with the lock.
THEOREM LiveRunsHold ==
    ASSUME L!InTime
    PROVE  Spec => []LiveRunHoldsLock
<1>1. Init => RowsBegun
  BY DEF Init, RowsBegun
<1>2. RowsBegun /\ RowIsHolders => LiveRunHoldsLock
  BY DEF RowsBegun, RowIsHolders, LiveRunHoldsLock, Live, LiveAt
<1> QED
  BY TypeCorrect, RowIsHoldersInTime, RowsBegunStep, <1>1, <1>2, PTL DEF Spec
-----------------------------------------------------------------------------
(* The rows of sync_runs, and who may write them when. *)

\* Another process than the attempt's own is there to touch its row.
Beside(a) == \E i \in Instances : i # InstOf[a]

\* A row that nobody has settled, unless another process has.
Unsettled(a) == runs[a] = "running" \/ (runs[a] = "failed" /\ Beside(a))

\* Where an attempt is says what its row is, and what a starting process has
\* read of its own rows is still so when it saves them.
RowInv ==
    /\ \A a \in Attempts :
          pc[a] \in {"idle", "stamped", "locked", "typed"} => runs[a] = "none"
    /\ \A a \in Attempts :
          pc[a] \in {"apply", "batch", "persist", "update"} => Unsettled(a)
    /\ \A i \in Instances : stale[i] # {} => proc[i] = "cleaning"
    /\ \A i \in Instances : \A a \in stale[i] :
          runs[a] # "none" /\ (InstOf[a] = i => Unsettled(a))

\* A process that is cleaning up has none of its own attempts alive.
LEMMA CleanersAreIdle ==
    ASSUME ProcessInv, RowInv, NEW i \in Instances, NEW a \in stale[i], InstOf[a] = i
    PROVE  proc[i] = "cleaning" /\ ~Live(a)
<1>1. a \in Attempts
  BY DEF ProcessInv, TypeOK
<1>2. proc[i] = "cleaning"
  BY DEF RowInv
<1> QED
  BY <1>1, <1>2 DEF ProcessInv, Stages

\* An attempt writes no row but its own, and no list of a process.
LEMMA AttemptWritesOwnRow ==
    ASSUME TypeOK, NEW a \in Attempts, Attempt(a)
    PROVE  /\ stale' = stale
           /\ \A b \in Attempts : b # a => pc'[b] = pc[b] /\ runs'[b] = runs[b]
           /\ \A i \in Instances : proc[i] = "cleaning" => proc'[i] = "cleaning"
<1> USE DEF TypeOK, Goto
<1>1. ASSUME NEW k \in EntryPoints, Begin(a, k)
      PROVE  /\ stale' = stale
             /\ \A b \in Attempts : b # a => pc'[b] = pc[b] /\ runs'[b] = runs[b]
             /\ \A i \in Instances : proc[i] = "cleaning" => proc'[i] = "cleaning"
  BY <1>1, EngineAssumption DEF Begin, Accepts
<1>2. CASE AcquireLock(a) \/ RefuseLock(a) \/ AcquireError(a)
  BY <1>2 DEF AcquireLock, RefuseLock, AcquireError
<1>3. CASE ResolveType(a) \/ ResolveError(a) \/ BeginRun(a)
  BY <1>3 DEF ResolveType, ResolveError, BeginRun
<1>4. CASE BeginRunError(a)
  BY <1>4 DEF BeginRunError
<1>5. CASE ReadBatch(a) \/ WriteBatch(a) \/ ApplyDone(a)
  BY <1>5 DEF ReadBatch, WriteBatch, ApplyDone
<1>6. CASE ApplyError(a)
  BY <1>6 DEF ApplyError
<1>7. CASE PersistContext(a) \/ UpdateRun(a) \/ UpdateRunError(a)
  BY <1>7 DEF PersistContext, UpdateRun, UpdateRunError
<1>8. CASE ReleaseLock(a) \/ ReleaseLockError(a) \/ ClientGone(a)
  BY <1>8 DEF ReleaseLock, ReleaseLockError, ClientGone
<1> QED
  BY <1>1, <1>2, <1>3, <1>4, <1>5, <1>6, <1>7, <1>8 DEF Attempt

\* What an attempt does to its own row, and from where.
LEMMA AttemptOnItsRow ==
    ASSUME TypeOK, RowInv, NEW a \in Attempts, Attempt(a)
    PROVE  /\ pc'[a] \in {"idle", "stamped", "locked", "typed"} => runs'[a] = "none"
           /\ pc'[a] \in {"apply", "batch", "persist", "update"} =>
                 (runs'[a] = "running" \/ (runs'[a] = runs[a] /\ Unsettled(a)))
           /\ \/ runs'[a] = runs[a]
              \/ runs[a] = "none" /\ runs'[a] = "running" /\ pc[a] = "typed"
              \/ /\ Unsettled(a) /\ runs'[a] = result[a]
                 /\ pc[a] = "update" /\ pc'[a] = "release"
<1> USE DEF TypeOK, RowInv, Goto
<1> DEFINE Goal ==
        /\ pc'[a] \in {"idle", "stamped", "locked", "typed"} => runs'[a] = "none"
        /\ pc'[a] \in {"apply", "batch", "persist", "update"} =>
              (runs'[a] = "running" \/ (runs'[a] = runs[a] /\ Unsettled(a)))
        /\ \/ runs'[a] = runs[a]
           \/ runs[a] = "none" /\ runs'[a] = "running" /\ pc[a] = "typed"
           \/ /\ Unsettled(a) /\ runs'[a] = result[a]
              /\ pc[a] = "update" /\ pc'[a] = "release"
<1>1. ASSUME NEW k \in EntryPoints, Begin(a, k)
      PROVE  Goal
  BY <1>1 DEF Begin
<1>2. CASE AcquireLock(a) \/ RefuseLock(a) \/ AcquireError(a)
  BY <1>2 DEF AcquireLock, RefuseLock, AcquireError
<1>3. CASE ResolveType(a) \/ ResolveError(a) \/ BeginRun(a)
  BY <1>3 DEF ResolveType, ResolveError, BeginRun
<1>4. CASE BeginRunError(a)
  BY <1>4 DEF BeginRunError
<1>5. CASE ReadBatch(a) \/ WriteBatch(a) \/ ApplyDone(a)
  BY <1>5 DEF ReadBatch, WriteBatch, ApplyDone
<1>6. CASE ApplyError(a)
  BY <1>6 DEF ApplyError
<1>7. CASE PersistContext(a) \/ UpdateRun(a) \/ UpdateRunError(a)
  BY <1>7 DEF PersistContext, UpdateRun, UpdateRunError
<1>8. CASE ReleaseLock(a) \/ ReleaseLockError(a) \/ ClientGone(a)
  BY <1>8 DEF ReleaseLock, ReleaseLockError, ClientGone
<1> QED
  BY <1>1, <1>2, <1>3, <1>4, <1>5, <1>6, <1>7, <1>8 DEF Attempt

LEMMA RowInvStep == ProcessInv /\ RowsBegun /\ RowInv /\ [Next]_vars => RowInv'
<1> SUFFICES ASSUME ProcessInv, RowsBegun, RowInv, [Next]_vars
             PROVE  RowInv'
    OBVIOUS
<1>0. TypeOK
  BY DEF ProcessInv
<1> USE <1>0 DEF TypeOK
<1>1. ASSUME NEW i \in Instances, Process(i)
      PROVE  RowInv'
  <2>1. CASE Start(i)
    BY <2>1 DEF Start, RowInv, Unsettled, Beside
  <2>2. CASE CleanupSave(i)
    <3>1. ASSUME NEW a \in stale[i]
          PROVE  runs'[a] = "failed" /\ runs[a] # "none" /\ (Beside(a) \/ ~Live(a))
      BY <2>2, <3>1, CleanersAreIdle DEF CleanupSave, RowInv, Beside
    <3>2. \A a \in Attempts : a \notin stale[i] => runs'[a] = runs[a]
      BY <2>2 DEF CleanupSave
    <3>3. pc' = pc /\ stale' = [stale EXCEPT ![i] = {}] /\ proc' = [proc EXCEPT ![i] = "up"]
      BY <2>2 DEF CleanupSave
    <3>4. ASSUME NEW j \in Instances, NEW a \in stale'[j]
          PROVE  /\ proc'[j] = "cleaning" /\ runs'[a] # "none"
                 /\ InstOf[a] = j => Unsettled(a)'
      <4>1. j # i /\ a \in stale[j]
        BY <3>3, <3>4
      <4>2. CASE a \in stale[i]
        BY <3>1, <3>3, <4>1, <4>2 DEF RowInv, Unsettled, Beside
      <4>3. CASE a \notin stale[i]
        BY <3>2, <3>3, <4>1, <4>3 DEF RowInv, Unsettled, Beside
      <4> QED
        BY <4>2, <4>3
    <3>5. ASSUME NEW a \in Attempts,
                 pc[a] \in {"apply", "batch", "persist", "update"}
          PROVE  Unsettled(a)'
      BY <3>1, <3>2, <3>5 DEF RowInv, Unsettled, Beside, Live, LiveAt, HeldAt
    <3>6. ASSUME NEW a \in Attempts,
                 pc[a] \in {"idle", "stamped", "locked", "typed"}
          PROVE  runs'[a] = "none"
      BY <3>1, <3>2, <3>6 DEF RowInv
    <3> QED
      BY <3>3, <3>4, <3>5, <3>6 DEF RowInv
  <2>3. CASE CleanupError(i)
    BY <2>3 DEF CleanupError, RowInv, Unsettled, Beside
  <2>4. CASE Terminate(i) \/ CancelAsync(i) \/ StopScheduler(i) \/ Interrupt(i) \/ Exit(i)
    BY <2>4 DEF Terminate, CancelAsync, StopScheduler, Interrupt, Exit, RowInv,
       Unsettled, Beside
  <2>5. CASE Crash(i)
    BY <2>5 DEF Crash, RowInv, Unsettled, Beside
  <2> QED
    BY <1>1, <2>1, <2>2, <2>3, <2>4, <2>5 DEF Process
<1>2. ASSUME NEW a \in Attempts, Attempt(a)
      PROVE  RowInv'
  <2>1. /\ stale' = stale
        /\ \A b \in Attempts : b # a => pc'[b] = pc[b] /\ runs'[b] = runs[b]
        /\ \A i \in Instances : proc[i] = "cleaning" => proc'[i] = "cleaning"
    BY <1>2, AttemptWritesOwnRow
  <2>2. /\ pc'[a] \in {"idle", "stamped", "locked", "typed"} => runs'[a] = "none"
        /\ pc'[a] \in {"apply", "batch", "persist", "update"} =>
              (runs'[a] = "running" \/ (runs'[a] = runs[a] /\ Unsettled(a)))
        /\ \/ runs'[a] = runs[a]
           \/ runs[a] = "none" /\ runs'[a] = "running" /\ pc[a] = "typed"
           \/ /\ Unsettled(a) /\ runs'[a] = result[a]
              /\ pc[a] = "update" /\ pc'[a] = "release"
    BY <1>2, AttemptOnItsRow
  <2>3. ASSUME NEW i \in Instances, a \in stale[i]
        PROVE  runs'[a] # "none" /\ (InstOf[a] = i => Unsettled(a)')
    <3>1. runs[a] # "none" /\ (pc[a] = "update" => result[a] # "none")
      BY <2>3 DEF RowInv, RowsBegun, Terminal
    <3>2. CASE InstOf[a] = i
      <4>1. ~Live(a)
        BY <2>3, <3>2, CleanersAreIdle
      <4>2. runs'[a] = runs[a]
        BY <2>2, <3>1, <4>1 DEF Live, LiveAt, HeldAt
      <4> QED
        BY <2>3, <3>1, <3>2, <4>2 DEF RowInv, Unsettled, Beside
    <3> QED
      BY <2>2, <3>1, <3>2
  <2> QED
    BY <2>1, <2>2, <2>3 DEF RowInv, Unsettled, Beside
<1>3. CASE Tick \/ UNCHANGED vars
  BY <1>3 DEF Tick, vars, RowInv, Unsettled, Beside
<1> QED
  BY <1>1, <1>2, <1>3 DEF Next

THEOREM RowInvariant == Spec => []RowInv
<1>1. Init => RowsBegun /\ RowInv
  BY DEF Init, RowsBegun, RowInv
<1>2. ProcessInv => TypeOK
  BY DEF ProcessInv
<1> QED
  BY ProcessInvariant, RowsBegunStep, RowInvStep, <1>1, <1>2, PTL DEF Spec

\* Who changes a settled row: another process that is cleaning up, or its own
\* attempt after another process has failed it.
LEMMA SettledStep ==
    ASSUME ProcessInv, RowsBegun, RowInv, [Next]_vars,
           NEW a \in Attempts, runs[a] \in Terminal, runs'[a] # runs[a]
    PROVE  \/ /\ runs[a] = "success"
              /\ \E i \in Instances \ {InstOf[a]} : proc[i] = "cleaning" /\ a \in stale[i]
           \/ /\ runs[a] = "failed" /\ pc[a] = "update" /\ result[a] = "success"
              /\ Beside(a)
<1>0. TypeOK
  BY DEF ProcessInv
<1> USE <1>0 DEF TypeOK, Terminal
<1>1. ASSUME NEW i \in Instances, Process(i)
      PROVE  /\ runs[a] = "success"
             /\ \E j \in Instances \ {InstOf[a]} : proc[j] = "cleaning" /\ a \in stale[j]
  <2>1. CleanupSave(i)
    BY <1>1 DEF Process, Start, CleanupError, Terminate, CancelAsync,
       StopScheduler, Interrupt, Exit, Crash
  <2>2. a \in stale[i] /\ runs[a] = "success" /\ proc[i] = "cleaning"
    BY <2>1 DEF CleanupSave
  <2>3. InstOf[a] # i
    BY <2>2 DEF RowInv, Unsettled
  <2> QED
    BY <2>2, <2>3
<1>2. ASSUME NEW b \in Attempts, Attempt(b)
      PROVE  /\ runs[a] = "failed" /\ pc[a] = "update" /\ result[a] = "success"
             /\ Beside(a)
  <2>1. a = b
    BY <1>2, AttemptWritesOwnRow
  <2>2. Unsettled(a) /\ runs'[a] = result[a] /\ pc[a] = "update"
    BY <1>2, <2>1, AttemptOnItsRow
  <2>3. result[a] \in Terminal
    BY <2>2 DEF RowsBegun
  <2> QED
    BY <2>2, <2>3 DEF Unsettled
<1>3. CASE Tick \/ UNCHANGED vars
  BY <1>3 DEF Tick, vars
<1> QED
  BY <1>1, <1>2, <1>3 DEF Next

LEMMA RowFacts == Spec => [](ProcessInv /\ RowsBegun /\ RowInv)
<1>1. Init => RowsBegun
  BY DEF Init, RowsBegun
<1> QED
  BY TypeCorrect, ProcessInvariant, RowInvariant, RowsBegunStep, <1>1, PTL DEF Spec

\* With any number of processes, a settled row changes in two ways only.
THEOREM SettledRows == Spec => SettledRowsChange
<1>1. ProcessInv /\ RowsBegun /\ RowInv /\ [Next]_vars =>
        [\A a \in Attempts :
           runs[a] \in Terminal /\ runs'[a] # runs[a] =>
             \/ /\ runs[a] = "success"
                /\ \E i \in Instances \ {InstOf[a]} : proc[i] = "cleaning" /\ a \in stale[i]
             \/ runs[a] = "failed" /\ pc[a] = "update" /\ result[a] = "success"]_vars
  BY SettledStep
<1> QED
  BY RowFacts, <1>1, PTL DEF Spec, SettledRowsChange

\* One process on the database; it may stop, die and start again.
OneProcess == \A i, j \in Instances : i = j

\* A run of a server on its own that says failed is over.
THEOREM FailedIsOver ==
    ASSUME OneProcess
    PROVE  Spec => []FailedRunIsOver
<1>1. \A a \in Attempts : ~Beside(a)
  BY EngineAssumption DEF OneProcess, Beside
<1>2. RowInv => FailedRunIsOver
  BY <1>1 DEF RowInv, Unsettled, FailedRunIsOver
<1> QED
  BY RowInvariant, <1>2, PTL

\* Each step of a process on its own is a step of the ledger, or none.
LEMMA LedgerStep ==
    ASSUME OneProcess, ProcessInv, TypeOK', RowsBegun, RowInv, [Next]_vars
    PROVE  [Ledger!Next]_runs
<1>0. TypeOK
  BY DEF ProcessInv
<1> USE <1>0 DEF TypeOK
<1>1. \A a \in Attempts : Unsettled(a) => runs[a] = "running"
  BY EngineAssumption DEF OneProcess, Unsettled, Beside
<1>2. ASSUME NEW i \in Instances, Process(i)
      PROVE  [Ledger!Next]_runs
  <2>1. CASE CleanupSave(i)
    <3>1. stale[i] \in SUBSET Attempts
      OBVIOUS
    <3>2. \A a \in stale[i] : runs[a] = "running"
      BY <1>1, EngineAssumption DEF OneProcess, RowInv
    <3>3. Ledger!Sweep(stale[i])
      BY <2>1, <3>2 DEF CleanupSave, Ledger!Sweep
    <3> QED
      BY <3>1, <3>3 DEF Ledger!Next
  <2>2. CASE ~CleanupSave(i)
    BY <1>2, <2>2 DEF Process, Start, CleanupError, Terminate, CancelAsync,
       StopScheduler, Interrupt, Exit, Crash
  <2> QED
    BY <2>1, <2>2
<1>3. ASSUME NEW a \in Attempts, Attempt(a)
      PROVE  [Ledger!Next]_runs
  <2>1. runs' = [runs EXCEPT ![a] = runs'[a]]
    <3>1. \A b \in Attempts : b # a => runs'[b] = runs[b]
      BY <1>3, AttemptWritesOwnRow
    <3> QED
      BY <3>1
  <2>2. CASE runs'[a] = runs[a]
    BY <2>1, <2>2
  <2>3. CASE runs[a] = "none" /\ runs'[a] = "running"
    BY <2>1, <2>3 DEF Ledger!Next, Ledger!Open
  <2>4. CASE Unsettled(a) /\ runs'[a] = result[a] /\ pc[a] = "update"
    <3>1. result[a] \in {"success", "failed"}
      BY <2>4 DEF RowsBegun, Terminal
    <3> QED
      BY <1>1, <2>1, <2>4, <3>1 DEF Ledger!Next, Ledger!Close
  <2> QED
    BY <1>3, <2>2, <2>3, <2>4, AttemptOnItsRow
<1>4. CASE Tick \/ UNCHANGED vars
  BY <1>4 DEF Tick, vars
<1> QED
  BY <1>2, <1>3, <1>4 DEF Next

\* The rows of a server on its own are a RunLedger.
THEOREM LedgerKept ==
    ASSUME OneProcess
    PROVE  Spec => RowsFollowLedger
<1>1. Init => Ledger!Init
  BY DEF Init, Ledger!Init
<1>2. ProcessInv /\ RowsBegun /\ RowInv /\ TypeOK' /\ [Next]_vars => [Ledger!Next]_runs
  BY LedgerStep
<1> QED
  BY RowFacts, TypeCorrect, <1>1, <1>2, PTL DEF Spec, RowsFollowLedger, Ledger!Spec

-----------------------------------------------------------------------------
(* Progress: the part of liveness that is about steps, not about fairness. *)

\* How many steps an attempt may still make, at most: a batch costs two.
StepsLeft(a) ==
    CASE pc[a] = "idle" -> 2 * MaxBatches + 9
      [] pc[a] = "stamped" -> 2 * MaxBatches + 8
      [] pc[a] = "locked" -> 2 * MaxBatches + 7
      [] pc[a] = "typed" -> 2 * MaxBatches + 6
      [] pc[a] = "apply" -> 2 * todo[a] + 5
      [] pc[a] = "batch" -> 2 * todo[a] + 4
      [] pc[a] = "persist" -> 3
      [] pc[a] = "update" -> 2
      [] pc[a] = "release" -> 1
      [] OTHER -> 0

\* A call of the engine never goes back and never goes round in circles: each
\* step of Run, TriggerAsync or UploadFull, with all their errors, and each
\* crash brings it nearer to its end, and nothing else moves it.
AttemptsAdvance ==
    [][\A a \in Attempts :
          pc'[a] # pc[a] \/ todo'[a] # todo[a] => StepsLeft(a)' < StepsLeft(a)]_vars

LEMMA AttemptStepAdvances ==
    ASSUME TypeOK, NEW a \in Attempts, Attempt(a)
    PROVE  /\ StepsLeft(a)' < StepsLeft(a) \/ (pc' = pc /\ todo' = todo)
           /\ \A b \in Attempts : b # a => pc'[b] = pc[b] /\ todo'[b] = todo[b]
<1> USE EngineAssumption DEF TypeOK, Goto, StepsLeft
<1> DEFINE Goal ==
        /\ StepsLeft(a)' < StepsLeft(a) \/ (pc' = pc /\ todo' = todo)
        /\ \A b \in Attempts : b # a => pc'[b] = pc[b] /\ todo'[b] = todo[b]
<1>0. MaxBatches \in Nat /\ todo[a] \in Nat
  OBVIOUS
<1>1. ASSUME NEW k \in EntryPoints, Begin(a, k)
      PROVE  Goal
  BY <1>0, <1>1 DEF Begin
<1>2. CASE AcquireLock(a) \/ RefuseLock(a) \/ AcquireError(a)
  BY <1>0, <1>2 DEF AcquireLock, RefuseLock, AcquireError
<1>3. CASE ResolveType(a) \/ ResolveError(a)
  BY <1>0, <1>3 DEF ResolveType, ResolveError
<1>4. CASE BeginRun(a)
  <2>1. PICK n \in 0..MaxBatches : todo' = [todo EXCEPT ![a] = n]
    BY <1>4 DEF BeginRun
  <2>2. n \in Nat /\ 2 * n + 5 < 2 * MaxBatches + 6
    BY <1>0
  <2> QED
    BY <1>0, <1>4, <2>1, <2>2 DEF BeginRun
<1>5. CASE BeginRunError(a)
  BY <1>0, <1>5 DEF BeginRunError
<1>6. CASE ReadBatch(a) \/ WriteBatch(a) \/ ApplyDone(a)
  BY <1>0, <1>6 DEF ReadBatch, WriteBatch, ApplyDone
<1>7. CASE ApplyError(a)
  BY <1>0, <1>7 DEF ApplyError
<1>8. CASE PersistContext(a) \/ UpdateRun(a) \/ UpdateRunError(a)
  BY <1>0, <1>8 DEF PersistContext, UpdateRun, UpdateRunError
<1>9. CASE ReleaseLock(a) \/ ReleaseLockError(a) \/ ClientGone(a)
  BY <1>0, <1>9 DEF ReleaseLock, ReleaseLockError, ClientGone
<1> QED
  BY <1>1, <1>2, <1>3, <1>4, <1>5, <1>6, <1>7, <1>8, <1>9 DEF Attempt

LEMMA AdvanceStep ==
    ASSUME TypeOK, [Next]_vars, NEW a \in Attempts,
           pc'[a] # pc[a] \/ todo'[a] # todo[a]
    PROVE  StepsLeft(a)' < StepsLeft(a)
<1>1. ASSUME NEW i \in Instances, Process(i)
      PROVE  StepsLeft(a)' < StepsLeft(a)
  <2>1. Crash(i)
    BY <1>1 DEF Process, Start, CleanupSave, CleanupError, Terminate, CancelAsync,
       StopScheduler, Interrupt, Exit
  <2>2. pc'[a] = "dead" /\ Live(a)
    BY <2>1 DEF Crash, TypeOK
  <2>3. MaxBatches \in Nat /\ todo[a] \in Nat
    BY EngineAssumption DEF TypeOK
  <2> QED
    BY <2>2, <2>3 DEF StepsLeft, Live, LiveAt, HeldAt
<1>2. ASSUME NEW b \in Attempts, Attempt(b)
      PROVE  StepsLeft(a)' < StepsLeft(a)
  BY <1>2, AttemptStepAdvances
<1>3. CASE Tick \/ UNCHANGED vars
  BY <1>3 DEF Tick, vars
<1> QED
  BY <1>1, <1>2, <1>3 DEF Next

\* Every call of the engine is finite: what it has left to do is a number, and
\* each of its steps, and no other, makes it smaller.
THEOREM AttemptsAreFinite ==
    Spec => [](\A a \in Attempts : StepsLeft(a) \in Nat) /\ AttemptsAdvance
<1>1. TypeOK => \A a \in Attempts : StepsLeft(a) \in Nat
  BY EngineAssumption DEF TypeOK, StepsLeft
<1>2. TypeOK /\ [Next]_vars =>
        [\A a \in Attempts :
           pc'[a] # pc[a] \/ todo'[a] # todo[a] => StepsLeft(a)' < StepsLeft(a)]_vars
  BY AdvanceStep
<1> QED
  BY TypeCorrect, <1>1, <1>2, PTL DEF Spec, AttemptsAdvance
=============================================================================
