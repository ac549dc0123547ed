----------------------------- MODULE MCSyncLock -----------------------------
(* Instances of SyncLock for TLC: two processes, three sessions. *)
EXTENDS SyncLock

CONSTANTS s1, s2, s3, p1, p2

MCSessions == {s1, s2, s3}
MCInstances == {p1, p2}
MCInstOf == [s \in MCSessions |-> IF s = s3 THEN p2 ELSE p1]

\* The clock of the second process runs one unit ahead.
MCSkew == [i \in MCInstances |-> IF i = p2 THEN 1 ELSE 0]

=============================================================================
