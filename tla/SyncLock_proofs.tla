--------------------------- MODULE SyncLock_proofs ---------------------------
(***************************************************************************)
(* Proofs about the lock row (SyncLock), for any number of sessions and    *)
(* processes, any skews, any TTL and any length of the sessions.           *)
(*                                                                         *)
(* The inductive invariant is LockInv.  ExclusiveWithinLease follows from  *)
(* it with no assumption about time; under InTime no session overruns its  *)
(* lease, and the lock implements SingleWriter.                            *)
(***************************************************************************)
EXTENDS SyncLock, TLAPS

\* No session carries a time that its own clock has not shown yet, and the
\* row names only sessions that have sent their UPDATE.
StampsPast == \A s \in Sessions : stamp[s] <= Now(s)

RowNamesStarted ==
    \A s \in Sessions : lock.holder = s => phase[s] \in {"held", "ended"}

LockInv == TypeOK /\ StampsPast /\ RowNamesStarted /\ HolderOwnsRow

-----------------------------------------------------------------------------
\* Clocks are natural numbers.
LEMMA NowNat ==
    ASSUME clock \in Nat, NEW s \in Sessions
    PROVE  Now(s) \in Nat
  BY SessionsAssumption DEF Now

\* The initial state has the types, and every step keeps them.
LEMMA TypeInit == Init => TypeOK
  BY SessionsAssumption DEF Init, TypeOK, Row, Phases

LEMMA TypeStep == TypeOK /\ [Next]_vars => TypeOK'
<1> SUFFICES ASSUME TypeOK, [Next]_vars
             PROVE  TypeOK'
    OBVIOUS
<1> USE SessionsAssumption DEF TypeOK, Row, Phases
<1>1. ASSUME NEW s \in Sessions, ReadClock(s)
      PROVE  TypeOK'
  <2>1. Now(s) \in Nat
    BY NowNat
  <2> QED
    BY <1>1, <2>1 DEF ReadClock
<1>2. ASSUME NEW s \in Sessions, Acquire(s)
      PROVE  TypeOK'
  BY <1>2 DEF Acquire, TakeRow
<1>3. ASSUME NEW s \in Sessions, Refuse(s)
      PROVE  TypeOK'
  BY <1>3 DEF Refuse
<1>4. ASSUME NEW s \in Sessions, AcquireError(s)
      PROVE  TypeOK'
  <2>1. CASE UNCHANGED lock
    BY <1>4, <2>1 DEF AcquireError
  <2>2. CASE TakeRow(s)
    BY <1>4, <2>2 DEF AcquireError, TakeRow
  <2> QED
    BY <1>4, <2>1, <2>2 DEF AcquireError
<1>5. ASSUME NEW s \in Sessions, Release(s)
      PROVE  TypeOK'
  BY <1>5 DEF Release
<1>6. ASSUME NEW s \in Sessions, ReleaseError(s)
      PROVE  TypeOK'
  BY <1>6 DEF ReleaseError
<1>7. ASSUME NEW i \in Instances, Crash(i)
      PROVE  TypeOK'
  BY <1>7 DEF Crash, Active
<1>8. CASE Tick
  BY <1>8, TimeAssumption DEF Tick
<1>9. CASE UNCHANGED vars
  BY <1>9 DEF vars
<1> QED
  BY <1>1, <1>2, <1>3, <1>4, <1>5, <1>6, <1>7, <1>8, <1>9 DEF Next

\* Type correctness: the row, the sessions and their times keep their types;
\* in particular `now`, and not `now` less the TTL, is what a session writes.
THEOREM TypeCorrect == Spec => []TypeOK
  BY TypeInit, TypeStep, PTL DEF Spec

-----------------------------------------------------------------------------
\* The row changes hands to s when s acquires it, whether or not s is told.
LEMMA TakenFromStale ==
    ASSUME LockInv, NEW s \in Sessions, phase[s] = "stamped", Acquirable(s),
           NEW t \in Holding, ~Overrun(t)
    PROVE  FALSE
<1>1. lock = [locked |-> TRUE, holder |-> t, acquiredAt |-> stamp[t]]
  BY DEF LockInv, HolderOwnsRow
<1>2. stamp[t] + TTL < stamp[s]
  BY <1>1 DEF Acquirable, Stale
<1>3. stamp[s] <= clock + Skew[InstOf[s]]
  BY DEF LockInv, StampsPast, Now
<1>4. InstOf[s] \in Instances
  BY SessionsAssumption
<1>5. /\ clock + Skew[InstOf[s]] \in Nat
      /\ stamp[s] \in Nat
      /\ stamp[t] \in Nat
  BY <1>4, SessionsAssumption DEF LockInv, TypeOK, Holding
<1>6. stamp[t] + TTL < clock + Skew[InstOf[s]]
  BY <1>2, <1>3, <1>5, TimeAssumption
<1> QED
  BY <1>4, <1>6 DEF Overrun

\* A lease that has run out stays so: only time passes.
LEMMA OverrunStays ==
    ASSUME TypeOK, NEW s \in Sessions, Tick, ~Overrun(s)'
    PROVE  ~Overrun(s)
<1> SUFFICES ASSUME NEW i \in Instances, stamp[s] + TTL < clock + Skew[i]
             PROVE  stamp'[s] + TTL < clock' + Skew[i]
  BY DEF Overrun
<1>1. clock' = clock + 1 /\ stamp' = stamp
  BY DEF Tick
<1> QED
  BY <1>1, SessionsAssumption, TimeAssumption DEF TypeOK

LEMMA LockInvInit == Init => LockInv
<1> SUFFICES ASSUME Init
             PROVE  LockInv
    OBVIOUS
<1>1. TypeOK
  BY TypeInit
<1>2. StampsPast
  <2> SUFFICES ASSUME NEW s \in Sessions
               PROVE  stamp[s] <= Now(s)
    BY DEF StampsPast
  <2> QED
    BY <1>1, NowNat DEF Init, TypeOK
<1>3. RowNamesStarted
  BY SessionsAssumption DEF Init, RowNamesStarted
<1>4. HolderOwnsRow
  BY DEF Init, HolderOwnsRow, Holding
<1> QED
  BY <1>1, <1>2, <1>3, <1>4 DEF LockInv

\* Stamps stay in the past: a session reads its clock once, and clocks only
\* go forward.
LEMMA StampsStep == LockInv /\ [Next]_vars => StampsPast'
<1> SUFFICES ASSUME LockInv, [Next]_vars, NEW t \in Sessions
             PROVE  stamp'[t] <= Now(t)'
    BY DEF StampsPast
<1> USE DEF LockInv, TypeOK, StampsPast
<1>0. InstOf[t] \in Instances /\ Skew[InstOf[t]] \in Nat /\ Now(t) \in Nat
  BY SessionsAssumption, NowNat
<1>1. ASSUME NEW s \in Sessions, ReadClock(s)
      PROVE  stamp'[t] <= Now(t)'
  BY <1>0, <1>1 DEF ReadClock, Now
<1>2. CASE UNCHANGED <<clock, stamp>>
  BY <1>2 DEF Now
<1>3. CASE Tick
  BY <1>0, <1>3 DEF Tick, Now
<1> QED
  BY <1>1, <1>2, <1>3 DEF Next, vars, Acquire, Refuse, AcquireError, Release,
     ReleaseError, Crash

\* A session comes into the row by its own UPDATE and does not go back.
LEMMA RowNamesStep == LockInv /\ [Next]_vars => RowNamesStarted'
<1> SUFFICES ASSUME LockInv, [Next]_vars, NEW t \in Sessions, lock'.holder = t
             PROVE  phase'[t] \in {"held", "ended"}
    BY DEF RowNamesStarted
<1> USE SessionsAssumption DEF LockInv, TypeOK, Row, RowNamesStarted
<1>1. ASSUME NEW s \in Sessions, ReadClock(s)
      PROVE  phase'[t] \in {"held", "ended"}
  BY <1>1 DEF ReadClock
<1>2. ASSUME NEW s \in Sessions, Acquire(s)
      PROVE  phase'[t] \in {"held", "ended"}
  BY <1>2 DEF Acquire, TakeRow
<1>3. ASSUME NEW s \in Sessions, Refuse(s) \/ ReleaseError(s)
      PROVE  phase'[t] \in {"held", "ended"}
  BY <1>3 DEF Refuse, ReleaseError
<1>4. ASSUME NEW s \in Sessions, AcquireError(s)
      PROVE  phase'[t] \in {"held", "ended"}
  BY <1>4 DEF AcquireError, TakeRow
<1>5. ASSUME NEW s \in Sessions, Release(s)
      PROVE  phase'[t] \in {"held", "ended"}
  BY <1>5 DEF Release
<1>6. ASSUME NEW i \in Instances, Crash(i)
      PROVE  phase'[t] \in {"held", "ended"}
  BY <1>6 DEF Crash
<1>7. CASE Tick \/ UNCHANGED vars
  BY <1>7 DEF Tick, vars
<1> QED
  BY <1>1, <1>2, <1>3, <1>4, <1>5, <1>6, <1>7 DEF Next

\* The heart of it: a session within its lease keeps the row.  An UPDATE of
\* another session needs a stale row, and a stale row is an overrun lease; a
\* release frees only the row of its own holder.
LEMMA HolderStep == LockInv /\ [Next]_vars => HolderOwnsRow'
<1> SUFFICES ASSUME LockInv, [Next]_vars, NEW t \in Holding', ~Overrun(t)'
             PROVE  lock' = [locked |-> TRUE, holder |-> t, acquiredAt |-> stamp'[t]]
    BY DEF HolderOwnsRow
<1> DEFINE Mine == lock' = [locked |-> TRUE, holder |-> t, acquiredAt |-> stamp'[t]]
<1>t. t \in Sessions /\ phase'[t] = "held"
  BY DEF Holding
<1>o. ASSUME t \in Holding, UNCHANGED <<clock, stamp>>
      PROVE  ~Overrun(t) /\ lock = [locked |-> TRUE, holder |-> t, acquiredAt |-> stamp[t]]
  <2>1. ~Overrun(t)
    BY <1>o DEF Overrun
  <2> QED
    BY <1>o, <2>1 DEF LockInv, HolderOwnsRow
<1>1. ASSUME NEW s \in Sessions, ReadClock(s)
      PROVE  Mine
  <2>1. t \in Holding /\ s # t
    BY <1>1, <1>t DEF ReadClock, Holding, LockInv, TypeOK
  <2>2. stamp'[t] = stamp[t]
    BY <1>1, <1>t, <2>1 DEF ReadClock, LockInv, TypeOK
  <2>3. ~Overrun(t)
    BY <1>1, <2>2 DEF ReadClock, Overrun
  <2> QED
    BY <1>1, <2>1, <2>2, <2>3 DEF ReadClock, LockInv, HolderOwnsRow
<1>2. ASSUME NEW s \in Sessions, Acquire(s)
      PROVE  Mine
  <2>1. CASE s = t
    BY <1>2, <2>1 DEF Acquire, TakeRow
  <2>2. CASE s # t
    <3>1. t \in Holding
      BY <1>2, <1>t, <2>2 DEF Acquire, Holding, LockInv, TypeOK
    <3>2. ~Overrun(t)
      BY <1>2, <1>o, <3>1 DEF Acquire
    <3> QED
      BY <1>2, <3>1, <3>2, TakenFromStale DEF Acquire
  <2> QED
    BY <2>1, <2>2
<1>3. ASSUME NEW s \in Sessions, Refuse(s) \/ ReleaseError(s)
      PROVE  Mine
  <2>1. t \in Holding
    BY <1>3, <1>t DEF Refuse, ReleaseError, Holding, LockInv, TypeOK
  <2> QED
    BY <1>3, <1>o, <2>1 DEF Refuse, ReleaseError
<1>4. ASSUME NEW s \in Sessions, AcquireError(s)
      PROVE  Mine
  <2>1. t \in Holding
    BY <1>4, <1>t DEF AcquireError, Holding, LockInv, TypeOK
  <2>2. ~Overrun(t)
    BY <1>4, <1>o, <2>1 DEF AcquireError
  <2>3. UNCHANGED lock
    BY <1>4, <2>1, <2>2, TakenFromStale DEF AcquireError
  <2> QED
    BY <1>4, <1>o, <2>1, <2>3 DEF AcquireError
<1>5. ASSUME NEW s \in Sessions, Release(s)
      PROVE  Mine
  <2>1. t \in Holding /\ s # t
    BY <1>5, <1>t DEF Release, Holding, LockInv, TypeOK
  <2>2. lock = [locked |-> TRUE, holder |-> t, acquiredAt |-> stamp[t]]
    BY <1>5, <1>o, <2>1 DEF Release
  <2>3. UNCHANGED lock
    BY <1>5, <2>1, <2>2 DEF Release
  <2> QED
    BY <1>5, <2>2, <2>3 DEF Release
<1>6. ASSUME NEW i \in Instances, Crash(i)
      PROVE  Mine
  <2>1. t \in Holding
    BY <1>6, <1>t DEF Crash, Holding
  <2> QED
    BY <1>6, <1>o, <2>1 DEF Crash
<1>7. CASE Tick
  <2>1. t \in Holding
    BY <1>7, <1>t DEF Tick, Holding
  <2>2. ~Overrun(t)
    BY <1>7, <1>t, OverrunStays DEF LockInv
  <2> QED
    BY <1>7, <2>1, <2>2 DEF Tick, LockInv, HolderOwnsRow
<1>8. CASE UNCHANGED vars
  <2>1. t \in Holding
    BY <1>8, <1>t DEF vars, Holding
  <2> QED
    BY <1>8, <1>o, <2>1 DEF vars
<1> QED
  BY <1>1, <1>2, <1>3, <1>4, <1>5, <1>6, <1>7, <1>8 DEF Next

\* LockInv holds in every state of every behaviour.
THEOREM LockInvariant == Spec => []LockInv
<1>1. LockInv /\ [Next]_vars => LockInv'
  BY TypeStep, StampsStep, RowNamesStep, HolderStep DEF LockInv
<1> QED
  BY LockInvInit, <1>1, PTL DEF Spec

\* One writer at a time, for as long as the lease allows (docs/spec.md,
\* synchronisation, point 6): two sessions hold the lock together only when
\* one of them has overrun its lease.  Nothing is assumed of time.
THEOREM ExclusionWithinLease == Spec => []ExclusiveWithinLease
<1>1. LockInv => ExclusiveWithinLease
  BY DEF LockInv, HolderOwnsRow, ExclusiveWithinLease, Holding
<1> QED
  BY LockInvariant, <1>1, PTL

\* The row of a session is freed by the session itself or taken by a later
\* one past the lease: the release of a preempted holder frees nobody's row.
THEOREM Handover == Spec => HandoverOnlyByOwnerOrExpiry
<1> DEFINE Step(s) ==
        lock.locked /\ lock.holder = s /\ lock' # lock =>
            \/ phase[s] = "held" /\ phase'[s] = "ended" /\ ~lock'.locked
            \/ /\ lock'.locked /\ lock'.holder # s
               /\ lock.acquiredAt + TTL < lock'.acquiredAt
<1>1. ASSUME LockInv, Next, NEW s \in Sessions
      PROVE  Step(s)
  <2> SUFFICES ASSUME lock.locked, lock.holder = s, lock' # lock
               PROVE  \/ phase[s] = "held" /\ phase'[s] = "ended" /\ ~lock'.locked
                      \/ /\ lock'.locked /\ lock'.holder # s
                         /\ lock.acquiredAt + TTL < lock'.acquiredAt
    OBVIOUS
  <2>1. ASSUME NEW u \in Sessions, phase[u] = "stamped", Acquirable(u), TakeRow(u)
        PROVE  /\ lock'.locked /\ lock'.holder # s
               /\ lock.acquiredAt + TTL < lock'.acquiredAt
    <3>1. u # s
      BY <1>1, <2>1 DEF LockInv, RowNamesStarted
    <3> QED
      BY <2>1, <3>1 DEF TakeRow, Acquirable, Stale
  <2>2. ASSUME NEW u \in Sessions, Release(u)
        PROVE  phase[s] = "held" /\ phase'[s] = "ended" /\ ~lock'.locked
    <3>1. u = s
      BY <2>2 DEF Release
    <3> QED
      BY <1>1, <2>2, <3>1 DEF Release, LockInv, TypeOK, Row
  <2>3. CASE \E u \in Sessions : Acquire(u) \/ AcquireError(u)
    BY <2>1, <2>3 DEF Acquire, AcquireError
  <2>4. CASE \E u \in Sessions : Release(u)
    BY <2>2, <2>4
  <2> QED
    BY <1>1, <2>3, <2>4 DEF Next, ReadClock, Refuse, ReleaseError, Crash, Tick
<1>2. LockInv /\ [Next]_vars => [\A s \in Sessions : Step(s)]_vars
  BY <1>1
<1> QED
  BY LockInvariant, <1>2, PTL DEF Spec, HandoverOnlyByOwnerOrExpiry

-----------------------------------------------------------------------------
(* In time.  With sessions short enough for the lease, overruns do not     *)
(* happen, and the promise of SingleWriter is kept.                        *)

LEMMA SessionsInTimeInit == Init => SessionsInTime
  BY DEF Init, SessionsInTime, Active

LEMMA SessionsInTimeStep ==
    TypeOK /\ SessionsInTime /\ [Next]_vars => SessionsInTime'
<1> SUFFICES ASSUME TypeOK, SessionsInTime, [Next]_vars,
                    NEW t \in Sessions, Active(t)'
             PROVE  stamp'[t] <= Now(t)' /\ Now(t)' <= stamp'[t] + MaxHold
    BY DEF SessionsInTime
<1> USE DEF TypeOK
<1>0. InstOf[t] \in Instances /\ Skew[InstOf[t]] \in Nat /\ Now(t) \in Nat
  BY SessionsAssumption, NowNat
<1>1. CASE Active(t) /\ UNCHANGED <<clock, stamp>>
  BY <1>1 DEF SessionsInTime, Now
<1>2. ASSUME NEW s \in Sessions, ReadClock(s)
      PROVE  stamp'[t] <= Now(t)' /\ Now(t)' <= stamp'[t] + MaxHold
  <2>1. CASE s = t
    <3>1. stamp'[t] = Now(t) /\ Now(t)' = Now(t)
      BY <1>2, <2>1 DEF ReadClock, Now
    <3> QED
      BY <1>0, <3>1, TimeAssumption
  <2>2. CASE s # t
    <3>1. Active(t) /\ stamp'[t] = stamp[t] /\ clock' = clock
      BY <1>2, <2>2 DEF ReadClock, Active
    <3> QED
      BY <3>1 DEF SessionsInTime, Now
  <2> QED
    BY <2>1, <2>2
<1>3. CASE Tick
  <2>1. Active(t) /\ clock' = clock + 1 /\ stamp' = stamp
    BY <1>3 DEF Tick, Active
  <2>2. stamp[t] <= Now(t) /\ Now(t) < stamp[t] + MaxHold
    BY <1>3, <2>1 DEF Tick, SessionsInTime
  <2>3. Now(t)' = Now(t) + 1
    BY <1>0, <2>1 DEF Now
  <2> QED
    BY <1>0, <2>1, <2>2, <2>3, TimeAssumption
<1>4. ASSUME NEW s \in Sessions,
             Acquire(s) \/ Refuse(s) \/ AcquireError(s) \/ Release(s) \/ ReleaseError(s)
      PROVE  Active(t) /\ UNCHANGED <<clock, stamp>>
  BY <1>4 DEF Acquire, Refuse, AcquireError, Release, ReleaseError, Active
<1>5. ASSUME NEW i \in Instances, Crash(i)
      PROVE  Active(t) /\ UNCHANGED <<clock, stamp>>
  BY <1>5 DEF Crash, Active
<1>6. CASE UNCHANGED vars
  BY <1>1, <1>6 DEF vars, Active
<1> QED
  BY <1>1, <1>2, <1>3, <1>4, <1>5, <1>6 DEF Next

\* A session that is in time has not overrun its lease on any clock.
LEMMA InTimeNoOverrun ==
    ASSUME InTime, TypeOK, SessionsInTime, NEW s \in Holding
    PROVE  ~Overrun(s)
<1> SUFFICES ASSUME NEW i \in Instances
             PROVE  ~(stamp[s] + TTL < clock + Skew[i])
    BY DEF Overrun
<1>1. s \in Sessions /\ Active(s)
  BY DEF Holding, Active
<1>2. InstOf[s] \in Instances
  BY <1>1, SessionsAssumption
<1>3. /\ Skew[i] \in Nat /\ Skew[InstOf[s]] \in Nat
      /\ clock \in Nat /\ stamp[s] \in Nat
  BY <1>1, <1>2, SessionsAssumption DEF TypeOK
<1>4. clock + Skew[InstOf[s]] <= stamp[s] + MaxHold
  BY <1>1 DEF SessionsInTime, Now
<1>5. MaxHold + Skew[i] <= TTL + Skew[InstOf[s]]
  BY <1>2 DEF InTime
<1> QED
  BY <1>3, <1>4, <1>5, TimeAssumption

\* What LockInv and timeliness say together.
LEMMA InTimeExclusive ==
    ASSUME InTime, LockInv, SessionsInTime
    PROVE  Exclusive
  BY InTimeNoOverrun DEF LockInv, HolderOwnsRow, Exclusive, Holding

THEOREM SessionsStayInTime == Spec => []SessionsInTime
  BY TypeCorrect, SessionsInTimeInit, SessionsInTimeStep, PTL DEF Spec

\* A step of the lock is a step of SingleWriter: an Acquire enters, a
\* release, failed or not, leaves, a crash leaves with all sessions of the
\* process.
LEMMA StepRefines ==
    ASSUME LockInv, LockInv', Exclusive', [Next]_vars
    PROVE  [SW!Next]_Holding
<1> USE DEF LockInv, TypeOK, Phases
<1>1. ASSUME NEW s \in Sessions, Acquire(s)
      PROVE  SW!Enter(s)
  <2>1. Holding' = Holding \cup {s} /\ s \notin Holding
    BY <1>1 DEF Acquire, Holding
  <2>2. Holding = {}
    BY <2>1 DEF Exclusive
  <2> QED
    BY <2>1, <2>2 DEF SW!Enter
<1>2. ASSUME NEW s \in Sessions, Release(s) \/ ReleaseError(s)
      PROVE  SW!Leave({s})
  <2>1. Holding' = Holding \ {s} /\ s \in Holding
    BY <1>2 DEF Release, ReleaseError, Holding
  <2> QED
    BY <2>1 DEF SW!Leave
<1>3. ASSUME NEW i \in Instances, Crash(i)
      PROVE  [SW!Next]_Holding
  <2> DEFINE lost == {s \in Holding : InstOf[s] = i}
  <2>1. Holding' = Holding \ lost
    BY <1>3 DEF Crash, Holding, Active
  <2>2. CASE lost = {}
    BY <2>1, <2>2
  <2>3. CASE lost # {}
    <3>1. SW!Leave(lost) /\ lost \in SUBSET Sessions
      BY <2>1, <2>3 DEF SW!Leave, Holding
    <3> QED
      BY <3>1 DEF SW!Next
  <2> QED
    BY <2>2, <2>3
<1>4. ASSUME NEW s \in Sessions, ReadClock(s) \/ Refuse(s) \/ AcquireError(s)
      PROVE  Holding' = Holding
  BY <1>4 DEF ReadClock, Refuse, AcquireError, Holding
<1>5. CASE Tick \/ UNCHANGED vars
  BY <1>5 DEF Tick, vars, Holding
<1>6. ASSUME NEW s \in Sessions, SW!Leave({s}) \/ SW!Enter(s)
      PROVE  SW!Next
  <2>1. {s} \in SUBSET Sessions
    OBVIOUS
  <2> QED
    BY <1>6, <2>1 DEF SW!Next
<1> QED
  BY <1>1, <1>2, <1>3, <1>4, <1>5, <1>6 DEF Next

\* Sessions that are in time for the lease never hold the lock together.
THEOREM Exclusion ==
    ASSUME InTime
    PROVE  Spec => []Exclusive
<1>1. LockInv /\ SessionsInTime => Exclusive
  BY InTimeExclusive
<1> QED
  BY LockInvariant, SessionsStayInTime, <1>1, PTL

\* In time, the lock implements SingleWriter: whatever processes crash and
\* statements fail, one synchronisation at a time is writing.
THEOREM ImplementsSingleWriter ==
    ASSUME InTime
    PROVE  Spec => RefinesSingleWriter
<1>1. Init => SW!Init
  BY DEF Init, SW!Init, Holding
<1>2. LockInv /\ LockInv' /\ Exclusive' /\ [Next]_vars => [SW!Next]_Holding
  BY StepRefines
<1> QED
  BY LockInvariant, Exclusion, <1>1, <1>2, PTL
     DEF Spec, RefinesSingleWriter, SW!Spec
=============================================================================
