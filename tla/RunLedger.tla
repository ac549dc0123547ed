----------------------------- MODULE RunLedger ------------------------------
(***************************************************************************)
(* What the table sync_runs promises those who read it: every run is       *)
(* recorded as running, later and once as what became of it, and that is   *)
(* never rewritten ("每次运行写 sync_runs", docs/architecture.md).  Runs     *)
(* that no process works on any more are recorded as failed together.      *)
(***************************************************************************)
CONSTANT Runs

VARIABLE status

\* No run has been recorded.
Init == status = [r \in Runs |-> "none"]

\* A run is recorded when it begins.
Open(r) ==
    /\ status[r] = "none"
    /\ status' = [status EXCEPT ![r] = "running"]

\* The outcome of a run is recorded when it ends.
Close(r, outcome) ==
    /\ status[r] = "running"
    /\ status' = [status EXCEPT ![r] = outcome]

\* Runs that were left running are recorded as failed, all at once.
Sweep(S) ==
    /\ \A r \in S : status[r] = "running"
    /\ status' = [r \in Runs |-> IF r \in S THEN "failed" ELSE status[r]]

Next ==
    \/ \E r \in Runs : Open(r)
    \/ \E r \in Runs, outcome \in {"success", "failed"} : Close(r, outcome)
    \/ \E S \in SUBSET Runs : Sweep(S)

Spec == Init /\ [][Next]_status
=============================================================================
