------------------------------ MODULE SyncLock ------------------------------
(***************************************************************************)
(* The single-row lock of internal/store/lock.go.  The row of sync_locks   *)
(* is shared by every process on the database; a session is one call of    *)
(* Acquire together with the release closure it returns, and its holder    *)
(* name is fresh (a uuid per call), so a session stands for its holder.    *)
(*                                                                         *)
(* Time.  acquired_at is written, and compared with, the wall clock of the *)
(* process that calls Acquire: Now(s) is the true time plus the skew of    *)
(* the session's process.  The row is never renewed, so the lock is a      *)
(* lease of TTL: MaxHold bounds how long a session lasts from the reading  *)
(* of its clock to its last statement.  InTime says that sessions are      *)
(* short enough for the lease, which is what the comment on lockTTL takes  *)
(* for granted ("全量同步远快于此阈值"); it is a hypothesis of the          *)
(* theorems and of some runs, and other runs drop it.                      *)
(***************************************************************************)
EXTENDS Naturals

CONSTANTS
    Sessions,     \* one per call of Acquire, in every process
    NoHolder,     \* the empty holder of a free row
    Instances,    \* processes (servers, batch jobs)
    InstOf,       \* the process of each session
    Skew,         \* how far the clock of each process runs ahead
    TTL,          \* lockTTL
    MaxHold,      \* longest life of a session
    MaxClock      \* bound of the model: the true time stops there

ASSUME SessionsAssumption ==
    /\ NoHolder \notin Sessions
    /\ InstOf \in [Sessions -> Instances]
    /\ Skew \in [Instances -> Nat]

ASSUME TimeAssumption ==
    /\ TTL \in Nat
    /\ MaxHold \in Nat
    /\ MaxClock \in Nat

VARIABLES
    clock,        \* true time
    lock,         \* the row: locked, holder, acquired_at
    phase,        \* where each session is
    stamp         \* `now` of each session, read on its own clock

vars == <<clock, lock, phase, stamp>>

Row == [locked : BOOLEAN, holder : Sessions \cup {NoHolder}, acquiredAt : Nat]

Phases == {"idle", "stamped", "held", "ended"}

\* time.Now() in the process of session s.
Now(s) == clock + Skew[InstOf[s]]

\* Even between the two processes whose clocks differ most, no session
\* outlives the lease.
InTime ==
    \A i, j \in Instances : MaxHold + Skew[j] <= TTL + Skew[i]

Active(s) == phase[s] \in {"stamped", "held"}

Holding == {s \in Sessions : phase[s] = "held"}

-----------------------------------------------------------------------------
\* The row exists: inserting it is the first statement of Acquire, does
\* nothing on conflict and writes a free row dated at the epoch.
Init ==
    /\ clock = 0
    /\ lock = [locked |-> FALSE, holder |-> NoHolder, acquiredAt |-> 0]
    /\ phase = [s \in Sessions |-> "idle"]
    /\ stamp = [s \in Sessions |-> 0]

\* Mutants of Stale: the comparison turned round, and no staleness at all.
StaleReversed(now) == lock.acquiredAt < now + TTL
StaleNever(now) == FALSE

\* The row is older than the TTL for a process whose clock shows now.
Stale(now) == lock.acquiredAt + TTL < now

\* The condition of the UPDATE: the row is free, or stale by the clock of
\* the process that asks.
Acquirable(s) == ~lock.locked \/ Stale(stamp[s])

\* The assignments of the UPDATE.
TakeRow(s) ==
    lock' = [locked |-> TRUE, holder |-> s, acquiredAt |-> stamp[s]]

\* Mutant of ReadClock: staleBefore is taken for the time of the session.
ReadClockStaleBefore(s) ==
    /\ phase[s] = "idle"
    /\ phase' = [phase EXCEPT ![s] = "stamped"]
    /\ stamp' = [stamp EXCEPT ![s] = Now(s) - TTL]
    /\ UNCHANGED <<clock, lock>>

\* Acquire reads its clock before it sends the UPDATE.
ReadClock(s) ==
    /\ phase[s] = "idle"
    /\ phase' = [phase EXCEPT ![s] = "stamped"]
    /\ stamp' = [stamp EXCEPT ![s] = Now(s)]
    /\ UNCHANGED <<clock, lock>>

\* Mutant of Acquire: the UPDATE has no condition.
AcquireUnconditional(s) ==
    /\ phase[s] = "stamped"
    /\ TakeRow(s)
    /\ phase' = [phase EXCEPT ![s] = "held"]
    /\ UNCHANGED <<clock, stamp>>

\* The conditional UPDATE, atomic in the database: one row affected.
Acquire(s) ==
    /\ phase[s] = "stamped"
    /\ Acquirable(s)
    /\ TakeRow(s)
    /\ phase' = [phase EXCEPT ![s] = "held"]
    /\ UNCHANGED <<clock, stamp>>

\* No row affected: the caller is told that a sync is running.
Refuse(s) ==
    /\ phase[s] = "stamped"
    /\ ~Acquirable(s)
    /\ phase' = [phase EXCEPT ![s] = "ended"]
    /\ UNCHANGED <<clock, lock, stamp>>

\* A statement of Acquire returns an error.  The caller gets no release
\* closure, whether or not the UPDATE was committed before the connection
\* was lost.
AcquireError(s) ==
    /\ phase[s] = "stamped"
    /\ \/ UNCHANGED lock
       \/ Acquirable(s) /\ TakeRow(s)
    /\ phase' = [phase EXCEPT ![s] = "ended"]
    /\ UNCHANGED <<clock, stamp>>

\* Mutant of Release: the UPDATE has no holder condition.
ReleaseAnyHolder(s) ==
    /\ phase[s] = "held"
    /\ lock' = [lock EXCEPT !.locked = FALSE, !.holder = NoHolder]
    /\ phase' = [phase EXCEPT ![s] = "ended"]
    /\ UNCHANGED <<clock, stamp>>

\* The release closure: it frees the row only if the row still carries its
\* holder, and leaves acquired_at as it is.
Release(s) ==
    /\ phase[s] = "held"
    /\ IF lock.holder = s
       THEN lock' = [lock EXCEPT !.locked = FALSE, !.holder = NoHolder]
       ELSE UNCHANGED lock
    /\ phase' = [phase EXCEPT ![s] = "ended"]
    /\ UNCHANGED <<clock, stamp>>

\* The release closure runs into its own timeout or another database error;
\* callers log it and go on.
ReleaseError(s) ==
    /\ phase[s] = "held"
    /\ phase' = [phase EXCEPT ![s] = "ended"]
    /\ UNCHANGED <<clock, lock, stamp>>

\* The process dies with its sessions; the row stays as it is.
Crash(i) ==
    /\ \E s \in Sessions : InstOf[s] = i /\ Active(s)
    /\ phase' = [s \in Sessions |->
                    IF InstOf[s] = i /\ Active(s) THEN "ended" ELSE phase[s]]
    /\ UNCHANGED <<clock, lock, stamp>>

\* Time passes; no active session is older than MaxHold.
Tick ==
    /\ clock < MaxClock
    /\ \A s \in Sessions : Active(s) => Now(s) < stamp[s] + MaxHold
    /\ clock' = clock + 1
    /\ UNCHANGED <<lock, phase, stamp>>

Next ==
    \/ \E s \in Sessions :
          \/ ReadClock(s)
          \/ Acquire(s)
          \/ Refuse(s)
          \/ AcquireError(s)
          \/ Release(s)
          \/ ReleaseError(s)
    \/ \E i \in Instances : Crash(i)
    \/ Tick

Spec == Init /\ [][Next]_vars

\* Time goes on, and a session that has begun goes on to its end: Acquire is
\* one statement, and the release closure is deferred by every caller.
Fairness ==
    /\ WF_vars(Tick)
    /\ \A s \in Sessions : WF_vars(Acquire(s) \/ Refuse(s) \/ Release(s))

FairSpec == Spec /\ Fairness

-----------------------------------------------------------------------------
\* Types of the row and of the sessions.
TypeOK ==
    /\ clock \in Nat
    /\ lock \in Row
    /\ phase \in [Sessions -> Phases]
    /\ stamp \in [Sessions -> Nat]

\* The session is past its lease on the clock of some process.
Overrun(s) == \E i \in Instances : stamp[s] + TTL < clock + Skew[i]

\* One writer at a time (docs/spec.md, synchronisation, point 6), for as long
\* as the lease allows: whatever crashes, lost answers, slow statements and
\* clock skews happen, two sessions hold the lock together only when one of
\* them has overrun its lease.
ExclusiveWithinLease ==
    \A s, t \in Holding : s # t => Overrun(s) \/ Overrun(t)

\* Without overruns no two sessions hold the lock together.
Exclusive == \A s, t \in Holding : s = t

\* What they rest on: a session within its lease owns the row and dated it,
\* and an active session is no older than MaxHold.
HolderOwnsRow ==
    \A s \in Holding :
        ~Overrun(s) =>
            lock = [locked |-> TRUE, holder |-> s, acquiredAt |-> stamp[s]]

SessionsInTime ==
    \A s \in Sessions :
        Active(s) => stamp[s] <= Now(s) /\ Now(s) <= stamp[s] + MaxHold

\* A locked row passes on in two ways only, even when a session has overrun
\* the lease: its own holder ends and frees it, or a session whose clock is
\* past the lease takes it.  The deferred release of a preempted holder
\* never frees the row of its successor (the comment on `release`).
HandoverOnlyByOwnerOrExpiry ==
    [][ \A s \in Sessions :
          lock.locked /\ lock.holder = s /\ lock' # lock =>
            \/ phase[s] = "held" /\ phase'[s] = "ended" /\ ~lock'.locked
            \/ /\ lock'.locked /\ lock'.holder # s
               /\ lock.acquiredAt + TTL < lock'.acquiredAt ]_vars

\* A lock left behind by a crash, a lost answer or a failed release does not
\* block synchronisation for ever: within the bound of the clock, it becomes
\* acquirable for every process or is taken by a live session.
AbandonedLockExpires ==
    \A s \in Sessions :
        (lock.locked /\ lock.holder = s /\ phase[s] = "ended"
            /\ lock.acquiredAt + TTL < MaxClock)
        ~> (\/ lock.holder # s
            \/ \A t \in Sessions : Stale(Now(t)))

\* The lock implements SingleWriter: the writers are the holding sessions.
SW == INSTANCE SingleWriter WITH writers <- Holding
RefinesSingleWriter == SW!Spec
=============================================================================
