------------------------------ MODULE ReadPath ------------------------------
(***************************************************************************)
(* What the clients of the API read while a synchronisation writes, through *)
(* the pool of connections they share: the queries of addresses            *)
(* (internal/query, internal/store/address_read_repo.go), the status, the  *)
(* history and the skipped rows (internal/server/sync_handlers.go,         *)
(* internal/store/syncrun_repo.go), and the pool of internal/store/store.go *)
(* with its single connection for SQLite.                                  *)
(*                                                                         *)
(* A request is a few statements, each with a connection of its own and no  *)
(* transaction around them; the deadline QUERY_TIMEOUT may end a request   *)
(* anywhere after its token was looked up.  A statement of the synchronisation *)
(* is a transaction: it holds its connection and shows when it commits.    *)
(* The module is about one process, whose runs follow one another.         *)
(***************************************************************************)
EXTENDS Naturals, Sequences, FiniteSets

CONSTANTS
    Clients,    \* clients of the API
    Engine,     \* the synchronisation of the process
    Keys,       \* logical keys (zipcode, jis_code, town, town_kana) of addresses
    Zip,        \* the zipcode of a key
    Names,      \* what the columns that an update overwrites may hold: the
                \* prefecture, the city and their kana
    Addresses0, \* the addresses at first
    Filters,    \* for each query, the rows it matches, as <<key, names>>
    Batches,    \* batches of UpsertBatch, sequences of rows
    Lines,      \* line numbers of skipped rows
    PoolSizes,  \* values of MaxOpenConns
    Limit,      \* page size that a client asks for
    MaxTotal,   \* MAX_TOTAL, the page size of a query by zipcode
    MaxId, MaxRuns, MaxSkipped  \* bounds of the instance

NoRow == [id |-> 0, names |-> "none"]

AddressRow == [id : 0..MaxId, names : Names \cup {"none"}]

ASSUME ReadPathAssumption ==
    /\ Engine \notin Clients
    /\ IsFiniteSet(Clients) /\ IsFiniteSet(Keys)
    /\ Zip \in [Keys -> Nat]
    /\ MaxId \in Nat /\ MaxRuns \in Nat /\ MaxSkipped \in Nat
    /\ Addresses0 \subseteq [Keys -> AddressRow]
    /\ \A t \in Addresses0 :
          LET stored == {k \in Keys : t[k].id # 0}
          IN  /\ Cardinality(stored) <= MaxId
              /\ \A k \in stored : t[k].names \in Names
              /\ \A k \in stored : t[k].id <= Cardinality(stored)
              /\ \A j, k \in stored : t[j].id = t[k].id => j = k
    /\ Filters \subseteq SUBSET (Keys \X Names)
    /\ Batches \subseteq Seq([key : Keys, names : Names])
    /\ Lines \subseteq Nat
    /\ PoolSizes \subseteq Nat \ {0}
    /\ Limit \in Nat \ {0} /\ MaxTotal \in Nat \ {0}

VARIABLES
    boot,       \* the process: down, in the transaction of its clean-up, or up
    maxOpen,    \* MaxOpenConns
    conn,       \* for clients and engine: no connection, waiting for one, or held
    addresses,  \* the row of each key, NoRow for none
    nextId,
    runs,       \* the status of each row of sync_runs, in the order of started_at
    skipped,    \* the rows of sync_skipped_rows, in the order of their ids
    engine,     \* what the synchronisation asks of the database next
    client      \* the requests, and what the clients have read

poolVars == <<maxOpen, conn>>
tables == <<addresses, nextId, runs, skipped>>
vars == <<boot, poolVars, tables, engine, client>>

Actors == Clients \cup {Engine}

Stored(a) == {k \in Keys : a[k].id # 0}

\* buildWhere: the rows of the table that a query matches.  A condition on the
\* zipcode looks at the key alone, one on the prefecture or the city at columns
\* that an update may change, and q at all of them.
Matches(match, a) == {k \in Stored(a) : <<k, a[k].names>> \in match}

-----------------------------------------------------------------------------
(* The pool. *)

Busy == Cardinality({a \in Actors : conn[a] = "held"}) + (IF boot = "tx" THEN 1 ELSE 0)

\* Mutant of Grant: the pool is not limited.
GrantUnlimited(a) ==
    /\ conn[a] = "waiting"
    /\ conn' = [conn EXCEPT ![a] = "held"]
    /\ UNCHANGED <<boot, maxOpen, tables, engine, client>>

\* database/sql gives a free connection to any of those that wait.
Grant(a) ==
    /\ conn[a] = "waiting"
    /\ Busy < maxOpen
    /\ conn' = [conn EXCEPT ![a] = "held"]
    /\ UNCHANGED <<boot, maxOpen, tables, engine, client>>

Release(a) == conn' = [conn EXCEPT ![a] = "none"]

-----------------------------------------------------------------------------
(* Requests. *)

\* Mutant of Plan: the page is read before the count.
PlanPageFirst(kind) ==
    CASE kind \in {"addresses", "zipcode"} -> <<"token", "page", "count">>
      [] kind \in {"runs", "skipped"} -> <<"token", "page">>
      [] OTHER -> <<"token", "total", "running", "last">>

\* Mutant of Plan: the last success is read before the running rows.
PlanLastFirst(kind) ==
    CASE kind \in {"addresses", "zipcode"} -> <<"token", "count", "page">>
      [] kind \in {"runs", "skipped"} -> <<"token", "page">>
      [] OTHER -> <<"token", "total", "last", "running">>

\* The statements of a request.
Plan(kind) ==
    CASE kind \in {"addresses", "zipcode"} -> <<"token", "count", "page">>
      [] kind \in {"runs", "skipped"} -> <<"token", "page">>
      [] OTHER -> <<"token", "total", "running", "last">>

NoRequest == [kind |-> "none", match |-> {}, run |-> 0, left |-> <<>>, total |-> 0,
              page |-> <<>>, running |-> FALSE, last |-> 0, said |-> "nothing",
              begun |-> 0, seen |-> <<>>, start |-> {}, grown |-> FALSE,
              shrunk |-> FALSE, done |-> FALSE]

\* ORDER BY two columns: the i-th element has i - 1 elements before it.
Sorted(S, col) ==
    LET Before(y, x) == \/ col[y][1] < col[x][1]
                        \/ col[y][1] = col[x][1] /\ col[y][2] < col[x][2]
    IN  [i \in 1..Cardinality(S) |->
            CHOOSE x \in S : Cardinality({y \in S : Before(y, x)}) = i - 1]

ByZip == [k \in Keys |-> <<Zip[k], addresses[k].id>>]

ByLine == [i \in 1..Len(skipped) |-> <<skipped[i].line, i>>]

Listing(q) ==
    CASE q.kind = "runs" -> [i \in 1..Len(runs) |-> Len(runs) + 1 - i]
      [] q.kind = "skipped" ->
            Sorted({i \in 1..Len(skipped) : skipped[i].run = q.run}, ByLine)
      [] OTHER -> Sorted(Matches(q.match, addresses), ByZip)

PageSize(q) == IF q.kind = "zipcode" THEN MaxTotal ELSE Limit

\* LIMIT and OFFSET; the offset is what the client has read so far.
Page(q) ==
    LET rows == Listing(q)
        last == Len(q.seen) + PageSize(q)
    IN  SubSeq(rows, Len(q.seen) + 1, IF last < Len(rows) THEN last ELSE Len(rows))

Elements(s) == {s[i] : i \in DOMAIN s}

LatestSuccess ==
    LET succ == {i \in 1..Len(runs) : runs[i] = "success"}
    IN  IF succ = {} THEN 0 ELSE CHOOSE i \in succ : \A j \in succ : j <= i

CountRunning == Cardinality({i \in 1..Len(runs) : runs[i] = "running"})

\* What a request knows after its next statement.
AfterStatement(q) ==
    LET rest == [q EXCEPT !.left = Tail(@)]
    IN  CASE Head(q.left) = "count" -> [rest EXCEPT !.total = Cardinality(Matches(q.match, addresses))]
          [] Head(q.left) = "page" ->
                [rest EXCEPT !.page = Page(q),
                             !.start = IF q.seen = <<>> THEN Elements(Listing(q)) ELSE @]
          [] Head(q.left) = "running" -> [rest EXCEPT !.running = CountRunning > 0]
          [] Head(q.left) = "last" -> [rest EXCEPT !.last = LatestSuccess]
          [] OTHER -> rest

\* The answer, and what the client makes of it: a page that is not full is the
\* last one.
Answer(q) ==
    [q EXCEPT !.left = <<>>, !.page = <<>>, !.total = 0, !.seen = @ \o q.page,
              !.said = IF q.kind = "status" THEN "status"
                       ELSE IF q.total > Len(q.page) THEN "truncated" ELSE "whole",
              !.done = q.kind \in {"zipcode", "status"} \/ Len(q.page) < PageSize(q)]

\* Of nothing no page is read.
Answered(q) == q.left = <<>> \/ (q.left = <<"page">> /\ q.total = 0
                                   /\ q.kind \in {"addresses", "zipcode"})

Asks(c, q) ==
    /\ boot = "up"
    /\ client' = [client EXCEPT ![c] = q]
    /\ conn' = [conn EXCEPT ![c] = "waiting"]
    /\ UNCHANGED <<boot, maxOpen, tables, engine>>

Ask(c, kind, match, run) ==
    /\ client[c].kind = "none"
    /\ Asks(c, [NoRequest EXCEPT !.kind = kind, !.match = match, !.run = run,
                                 !.left = Plan(kind), !.begun = Len(runs)])

\* The next page, or the last one again after a failure.
AskOn(c) ==
    /\ client[c].kind # "none" /\ client[c].left = <<>> /\ ~client[c].done
    /\ Asks(c, [client[c] EXCEPT !.left = Plan(client[c].kind), !.said = "nothing"])

Leave(c) ==
    /\ client[c].kind # "none" /\ client[c].left = <<>>
    /\ client' = [client EXCEPT ![c] = NoRequest]
    /\ UNCHANGED <<boot, poolVars, tables, engine>>

Read(c) ==
    /\ conn[c] = "held"
    /\ LET q == AfterStatement(client[c])
       IN  IF Answered(q)
           THEN client' = [client EXCEPT ![c] = Answer(q)] /\ Release(c)
           ELSE client' = [client EXCEPT ![c] = q] /\ conn' = [conn EXCEPT ![c] = "waiting"]
    /\ UNCHANGED <<boot, maxOpen, tables, engine>>

\* The deadline of the request, a client that goes away, or an error: the
\* statement is aborted or no longer waited for, and no answer is given.
Fails(c) ==
    /\ client[c].left # <<>>
    /\ client' = [client EXCEPT ![c] = [@ EXCEPT !.left = <<>>, !.page = <<>>, !.total = 0]]
    /\ Release(c)
    /\ UNCHANGED <<boot, maxOpen, tables, engine>>

-----------------------------------------------------------------------------
(* The synchronisation. *)

\* history: what a change of the tables means to those who read page by page
Listed(q, a, r, s) ==
    CASE q.kind = "runs" -> 1..Len(r)
      [] q.kind = "skipped" -> {i \in 1..Len(s) : s[i].run = q.run}
      [] OTHER -> Matches(q.match, a)

Noted(q, before, after) ==
    IF q.kind \in {"none", "status"} THEN q
    ELSE [q EXCEPT !.grown = @ \/ ~(after \subseteq before),
                   !.shrunk = @ \/ ~(before \subseteq after)]

Noticed ==
    client' = [c \in Clients |->
        Noted(client[c], Listed(client[c], addresses, runs, skipped),
                         Listed(client[c], addresses', runs', skipped'))]

\* The engine waits for a connection for its next statement.
EngineAsks(what) ==
    /\ boot = "up"
    /\ engine' = what
    /\ conn' = [conn EXCEPT ![Engine] = "waiting"]
    /\ UNCHANGED <<boot, maxOpen, tables, client>>

BeginRun == engine = "idle" /\ Len(runs) < MaxRuns /\ EngineAsks("create")

NextStatement == engine = "running" /\ \E what \in {"write", "finish"} : EngineAsks(what)

\* beginRun: the row is created.
Create ==
    /\ engine = "create" /\ conn[Engine] = "held"
    /\ runs' = Append(runs, "running")
    /\ engine' = "running"
    /\ Release(Engine)
    /\ UNCHANGED <<boot, maxOpen, addresses, nextId, skipped>>
    /\ Noticed

KeysOf(b) == {b[i].key : i \in DOMAIN b}

\* The rows of a batch that are inserted.
New(b) == {i \in DOMAIN b : /\ addresses[b[i].key].id = 0
                            /\ \A j \in 1..(i - 1) : b[j].key # b[i].key}

\* What the last row of a key in a batch gives it.
NamesIn(b, k) ==
    b[CHOOSE i \in DOMAIN b : b[i].key = k /\ \A j \in DOMAIN b : j > i => b[j].key # k].names

\* Mutant of Upsert: rows that are there already are replaced.
UpsertReplaces(b) ==
    /\ nextId + Len(b) <= MaxId + 1
    /\ addresses' = [k \in Keys |->
          IF k \in KeysOf(b)
          THEN [id |-> nextId - 1 + CHOOSE i \in DOMAIN b : b[i].key = k,
                names |-> NamesIn(b, k)]
          ELSE addresses[k]]
    /\ nextId' = nextId + Len(b)
    /\ UNCHANGED <<runs, skipped>>

\* The id of a key after a batch: new keys get the next ids, in their order.
IdAfter(b, k) ==
    IF \E i \in New(b) : b[i].key = k
    THEN nextId + Cardinality({j \in New(b) : \E i \in New(b) : b[i].key = k /\ j < i})
    ELSE addresses[k].id

\* UpsertBatch: rows that are there already keep their id, and get the names of
\* the batch; they may match other queries than before.
Upsert(b) ==
    /\ nextId + Cardinality(New(b)) <= MaxId + 1
    /\ addresses' = [k \in Keys |->
          [id |-> IdAfter(b, k),
           names |-> IF k \in KeysOf(b) THEN NamesIn(b, k) ELSE addresses[k].names]]
    /\ nextId' = nextId + Cardinality(New(b))
    /\ UNCHANGED <<runs, skipped>>

\* DeleteByKeys and DeleteNotIn, a statement of theirs.
Delete(keys) ==
    /\ addresses' = [k \in Keys |-> IF k \in keys THEN NoRow ELSE addresses[k]]
    /\ UNCHANGED <<nextId, runs, skipped>>

\* CreateSkippedRows.
SkipRow(line) ==
    /\ Len(skipped) < MaxSkipped
    /\ skipped' = Append(skipped, [run |-> Len(runs), line |-> line])
    /\ UNCHANGED <<addresses, nextId, runs>>

Write ==
    /\ engine = "write" /\ conn[Engine] = "held"
    /\ \/ \E b \in Batches : Upsert(b) \/ Delete(KeysOf(b))
       \/ \E l \in Lines : SkipRow(l)
    /\ engine' = "running"
    /\ Release(Engine)
    /\ UNCHANGED <<boot, maxOpen>>
    /\ Noticed

\* The outcome of the run is saved.
Finish(status) ==
    /\ engine = "finish" /\ conn[Engine] = "held"
    /\ runs' = [runs EXCEPT ![Len(runs)] = status]
    /\ engine' = "idle"
    /\ Release(Engine)
    /\ UNCHANGED <<boot, maxOpen, addresses, nextId, skipped>>
    /\ Noticed

\* Mutant of StatementFails: a transaction that failed is not rolled back.
StatementFailsOpen ==
    /\ conn[Engine] = "held"
    /\ engine' = "idle"
    /\ UNCHANGED <<boot, poolVars, tables, client>>

\* A statement fails or is cancelled and rolled back.  The run is then saved as
\* failed, unless it is its row that could not be created or saved.
StatementFails ==
    /\ conn[Engine] # "none"
    /\ engine' = IF engine = "write" THEN "running" ELSE "idle"
    /\ Release(Engine)
    /\ UNCHANGED <<boot, maxOpen, tables, client>>

-----------------------------------------------------------------------------
(* The process. *)

Crash ==
    /\ boot # "down"
    /\ boot' = "down"
    /\ conn' = [a \in Actors |-> "none"]
    /\ engine' = "idle"
    /\ client' = [c \in Clients |-> NoRequest]
    /\ UNCHANGED <<maxOpen, tables>>

\* The clean-up of the start-up takes the connection of its transaction...
Start ==
    /\ boot = "down" /\ Busy < maxOpen
    /\ boot' = "tx"
    /\ UNCHANGED <<poolVars, tables, engine, client>>

\* Mutant of CleanUp: the rows are saved through the pool, not the transaction.
CleanUpThroughPool ==
    /\ boot = "tx"
    /\ CountRunning > 0 => Busy < maxOpen
    /\ runs' = [i \in 1..Len(runs) |-> IF runs[i] = "running" THEN "failed" ELSE runs[i]]
    /\ boot' = "up"
    /\ UNCHANGED <<poolVars, addresses, nextId, skipped, engine, client>>

\* ... saves each running row within it, and commits; then requests are served.
CleanUp ==
    /\ boot = "tx"
    /\ runs' = [i \in 1..Len(runs) |-> IF runs[i] = "running" THEN "failed" ELSE runs[i]]
    /\ boot' = "up"
    /\ UNCHANGED <<poolVars, addresses, nextId, skipped, engine, client>>

-----------------------------------------------------------------------------
Init ==
    /\ boot = "down"
    /\ maxOpen \in PoolSizes
    /\ conn = [a \in Actors |-> "none"]
    /\ addresses \in Addresses0
    /\ nextId = Cardinality(Stored(addresses)) + 1
    /\ runs = <<>>
    /\ skipped = <<>>
    /\ engine = "idle"
    /\ client = [c \in Clients |-> NoRequest]

Request(c) ==
    \/ \E match \in Filters : Ask(c, "addresses", match, 0)
    \/ \E z \in {Zip[k] : k \in Keys} :
          Ask(c, "zipcode", {k \in Keys : Zip[k] = z} \X Names, 0)
    \/ Ask(c, "runs", {}, 0)
    \/ \E r \in 1..Len(runs) : Ask(c, "skipped", {}, r)
    \/ Ask(c, "status", {}, 0)
    \/ AskOn(c) \/ Leave(c)

Run ==
    \/ BeginRun \/ NextStatement \/ Create \/ Write \/ StatementFails
    \/ \E status \in {"success", "failed"} : Finish(status)

Next ==
    \/ \E c \in Clients : Request(c) \/ Read(c) \/ Fails(c)
    \/ \E a \in Actors : Grant(a)
    \/ Run \/ Crash \/ Start \/ CleanUp

Spec == Init /\ [][Next]_vars

\* A statement that has its connection comes to an end.
Served(a) ==
    /\ conn[a] = "held"
    /\ IF a = Engine THEN Run ELSE Read(a) \/ Fails(a)

\* The database answers a statement or its deadline ends it, database/sql picks
\* among those that wait at random, and the start-up goes on.
Fairness ==
    /\ \A a \in Actors : SF_vars(Grant(a)) /\ WF_vars(Served(a))
    /\ WF_vars(CleanUp)

FairSpec == Spec /\ Fairness

-----------------------------------------------------------------------------
TypeOK ==
    /\ boot \in {"down", "tx", "up"}
    /\ maxOpen \in PoolSizes
    /\ conn \in [Actors -> {"none", "waiting", "held"}]
    /\ Busy <= maxOpen
    /\ addresses \in [Keys -> AddressRow]
    /\ nextId \in 1..(MaxId + 1)
    /\ runs \in Seq({"running", "success", "failed"})
    /\ skipped \in Seq([run : Nat, line : Lines])
    /\ engine \in {"idle", "create", "running", "write", "finish"}
    /\ \A c \in Clients :
          /\ client[c].kind \in {"none", "addresses", "zipcode", "runs", "skipped", "status"}
          /\ client[c].left = <<>> <=> conn[c] = "none"
    /\ engine \in {"create", "write", "finish"} <=> conn[Engine] # "none"

\* A client that reads a listing page by page, each page a request of its own,
\* misses nothing that was there when it read the first one, unless something
\* left the listing meanwhile, and reads nothing twice, unless something came
\* into it: the pages are cut from a total order in which an address keeps its
\* place while runs update it, and a run its place while it goes on.  What is
\* deleted leaves a listing and what is inserted comes into it; in a query by
\* prefecture, city or q an update does both, for what it renames.
WalkIsExact ==
    \A c \in Clients :
        LET q == client[c]
        IN  q.done /\ q.kind # "status" =>
              /\ ~q.shrunk /\ q.kind # "zipcode" => q.start \subseteq Elements(q.seen)
              /\ ~q.shrunk /\ ~q.grown =>
                    \A i, j \in DOMAIN q.seen : q.seen[i] = q.seen[j] => i = j

\* A status that says nothing is running shows the last success of every run
\* that had begun before it was asked for, though the rows that run and the last
\* success are read one after the other while runs end (syncStatus).
IdleStatusIsCurrent ==
    \A c \in Clients :
        LET q == client[c]
        IN  q.said = "status" /\ ~q.running =>
              \A i \in 1..q.begun : runs[i] = "success" => i <= q.last

\* The first page of a query of addresses, answered without truncation, holds
\* every address that matches at that moment, whatever was deleted, or renamed
\* so that it no longer matches, between the count and the page; only what came
\* to match there, by an insertion or an update, can make it wrong.
UntruncatedIsComplete ==
    [][\A c \in Clients :
          LET q == client[c]
          IN  /\ q.kind \in {"addresses", "zipcode"} /\ q.left # <<>> /\ q.seen = <<>>
              /\ client'[c].said = "whole" /\ ~q.grown
              => Elements(client'[c].seen) = Matches(q.match, addresses)]_vars

\* Every request ends: no connection is lost to the pool, whoever fails.
RequestsEnd == \A c \in Clients : client[c].left # <<>> ~> client[c].left = <<>>

\* The clean-up of the start-up ends, with a single connection too: within a
\* transaction nobody waits for another one.
StartCompletes == boot = "tx" ~> boot # "tx"
=============================================================================
