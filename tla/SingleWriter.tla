---------------------------- MODULE SingleWriter ----------------------------
(***************************************************************************)
(* What the sync lock promises its callers, with no lock in sight: at any  *)
(* moment at most one synchronisation is writing ("DB 锁保证同一时刻仅一个  *)
(* 同步在写", docs/architecture.md).  A writer leaves when it is done; any  *)
(* set of writers may vanish when their process dies.                      *)
(***************************************************************************)
CONSTANT Sessions

VARIABLE writers

\* Nobody writes before the first synchronisation starts.
Init == writers = {}

\* A session may start writing only while nobody writes.
Enter(s) ==
    /\ writers = {}
    /\ writers' = {s}

\* Sessions stop writing, one by one or with their process.
Leave(S) ==
    /\ S # {}
    /\ S \subseteq writers
    /\ writers' = writers \ S

Next ==
    \/ \E s \in Sessions : Enter(s)
    \/ \E S \in SUBSET Sessions : Leave(S)

Spec == Init /\ [][Next]_writers
=============================================================================
