---------------------------- MODULE MCSyncEngine ----------------------------
(* Instances of SyncEngine for TLC. *)
EXTENDS SyncEngine, FiniteSets, TLC

CONSTANTS a1, a2, a3, srv, job

\* One server, on its own.
OneServer == {srv}
OneServerInstOf == [a \in Attempts |-> srv]
OneServerServes == [i \in OneServer |-> {"schedule", "manual", "upload"}]
ManualServes == [i \in OneServer |-> {"manual"}]
OneServerSkew == [i \in OneServer |-> 0]
AttemptSymmetry == Permutations(Attempts)

\* A server and a batch job on the same database; a3 is the job's.  The
\* clock of the job runs one unit ahead.
ServerAndJob == {srv, job}
ServerAndJobInstOf == [a \in Attempts |-> IF a = a3 THEN job ELSE srv]
ServerAndJobServes ==
    [i \in ServerAndJob |-> IF i = job THEN {"batch"} ELSE {"manual"}]
ServerAndJobSkew == [i \in ServerAndJob |-> IF i = job THEN 1 ELSE 0]
=============================================================================
