------------------------------ MODULE MCTokens ------------------------------
(* Instances of Tokens for TLC: two servers on one database. *)
EXTENDS Tokens, TLC

CONSTANTS t1, t2, t3, r1, r2, p1, p2

MCInstances == {p1, p2}
MCInstOf == [r \in Requests |-> IF r = r2 THEN p2 ELSE p1]

\* The clock of the second server runs one unit ahead.
MCSkew == [i \in MCInstances |-> IF i = p2 THEN 1 ELSE 0]

IdSymmetry == Permutations(Ids)
=============================================================================
