----------------------------- MODULE MCReadPath -----------------------------
(* An instance of ReadPath for TLC: one client beside the synchronisation, three
   addresses of two zipcodes, of which two are stored, in a city that a run may
   rename; queries by zipcode and by a text. *)
EXTENDS ReadPath, TLC

MCZip == [k \in Keys |-> IF k = 3 THEN 2 ELSE 1]

MCStored == [k \in Keys |-> IF k = 3 THEN NoRow ELSE [id |-> k, names |-> "old"]]

MCAddresses0 == {MCStored}

\* A text that occurs in the old name of the city and in the town of 2.
MCFilters == {(Keys \X {"old"}) \cup ({2} \X Names)}

R(k, n) == [key |-> k, names |-> n]

MCBatches ==
    {<<R(1, "old")>>, <<R(1, "new")>>, <<R(3, "old")>>, <<R(3, "old"), R(1, "new")>>}

\* Bounds.  The runs of a behaviour write either addresses or skipped rows, and
\* the client reads what they write; a second run begins, and a second
\* connection is there, only where no address was written.  A walk is followed
\* until its listing has both gained and lost a row: nothing is claimed of it then.
Untouched == nextId = Cardinality(Stored(addresses)) + 1 /\ addresses = MCStored

Bound ==
    /\ skipped' # <<>> => Untouched'
    /\ ~Untouched' => Len(runs') <= 1 /\ maxOpen = 1
    /\ \A c \in Clients :
          /\ ~(client'[c].grown /\ client'[c].shrunk)
          /\ client'[c].kind \in {"addresses", "zipcode"} => skipped' = <<>>
          /\ client'[c].kind \in {"runs", "skipped", "status"} => Untouched'
          /\ client'[c].kind \in {"runs", "status"} => skipped' = <<>>

MCSpec == Init /\ [][Next /\ Bound]_vars /\ Fairness
=============================================================================
