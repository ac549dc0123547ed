---------------------------- MODULE MCSyncApply -----------------------------
(* Instances of SyncApply for TLC: four keys, the towns of two of them       *)
(* matching the regular expression, and two hashes.                          *)
EXTENDS SyncApply

CONSTANTS k1, k2, k3, k4, h1, h2

MCKeys == {k1, k2, k3, k4}
MCHashes == {h1, h2}
R(k, h) == [key |-> k, hash |-> h]
M(add, del) == [add |-> add, del |-> del]

\* Empty, short, and longer than a batch; with no skipped row, one, and
\* as many as are stored at once.
MCFullFiles ==
    {<<>>,
     <<R(k3, h1)>>,
     <<R(k1, h1)>>,
     <<R(k2, h2), R(k1, h1)>>,
     <<R(k1, h2), R(k3, h1), R(k4, h1), R(k2, h1)>>}

\* No file at all; a month of each kind; a rename, a change and a return
\* over two months.
MCWindows ==
    {<<M(NotFound, NotFound), M(NotFound, NotFound)>>,
     <<M(NotFound, <<k1, k2, k3>>), M(<<R(k1, h1)>>, NotFound)>>,
     <<M(<<R(k1, h1), R(k2, h1)>>, NotFound), M(<<R(k1, h2)>>, <<k2>>)>>,
     <<M(<<R(k2, h1)>>, <<k1>>), M(NotFound, NotFound)>>,
     <<M(<<R(k1, h1), R(k3, h2), R(k2, h2)>>, <<k1>>), M(<<>>, <<k1, k3>>)>>}
=============================================================================
