-------------------------- MODULE RuntimeSettings ---------------------------
(***************************************************************************)
(* The settings that the management page can change while the service      *)
(* runs: internal/settings/service.go over the table of overrides          *)
(* (internal/store/settings_repo.go), as the handlers of                   *)
(* internal/server/settings_handlers.go call it.                           *)
(*                                                                         *)
(* An update validates everything and then writes one key per statement,   *)
(* without a transaction, under a deadline (QUERY_TIMEOUT): the statements *)
(* of concurrent updates and of the runs that read the settings interleave *)
(* (RunInput composes the two).                                            *)
(***************************************************************************)
EXTENDS Naturals, FiniteSets

CONSTANTS
    Requests,   \* requests to /v1/admin/settings handled concurrently
    Updates,    \* bodies of PUT /v1/admin/settings
    Stored0,    \* overrides the table may hold at first, whoever wrote them
    Values,     \* values as sent or stored, valid or not
    Accepted,   \* for each key, the values its validator accepts
    Trim,       \* strings.TrimSpace on Values
    Blank,      \* the empty string
    Default,    \* for each key, the value the environment configures
    Unset,      \* a field that an update does not carry
    Absent,     \* no override stored
    Nobody

Keys == {"download_max_retry", "scrape_full_url", "town_skip_regex"}

\* Update sets the keys in this order.
Rank == [download_max_retry |-> 1, scrape_full_url |-> 2, town_skip_regex |-> 3]

Update == [set : [Keys -> Values \cup {Unset}], reset : SUBSET (Keys \cup {"unknown"})]

ASSUME SettingsAssumption ==
    /\ {Unset, Absent} \cap Values = {}
    /\ Nobody \notin Requests
    /\ Accepted \in [Keys -> SUBSET Values]
    /\ Trim \in [Values -> Values]
    /\ \A v \in Values : Trim[Trim[v]] = Trim[v]
    /\ \A k \in Keys, v \in Values : v \in Accepted[k] <=> Trim[v] \in Accepted[k]
    /\ Blank \in Accepted["town_skip_regex"] \ Accepted["scrape_full_url"]
    /\ Trim[Blank] = Blank
    /\ Default \in [Keys -> Values]
    /\ Updates \subseteq Update
    /\ Stored0 \subseteq [Keys -> Values \cup {Absent}]

VARIABLES
    overrides,  \* the table runtime_settings
    req,        \* the requests at work
    writer,     \* history: for each key, the request at work that wrote it last
    shown       \* history: the value that the last writer of each key was answered

settingsVars == <<overrides, req, writer, shown>>

Empty == [set |-> [k \in Keys |-> Unset], reset |-> {}]

-----------------------------------------------------------------------------
Valid(k, v) == v \in Accepted[k]

\* Mutant of Overridden: any row of the table counts.
OverriddenUnchecked(t, k) == t[k] # Absent

\* resolve: an override counts only if it still validates.
Overridden(t, k) == t[k] # Absent /\ Valid(k, t[k])

Effective(t) == [k \in Keys |-> IF Overridden(t, k) THEN Trim[t[k]] ELSE Default[k]]

\* Mutant of Refused: no value is validated.
RefusedOnlyBoth(u) ==
    "unknown" \in u.reset \/ \E k \in Keys : u.set[k] # Unset /\ k \in u.reset

\* Update refuses unknown keys, a key both set and reset, and invalid values.
Refused(u) ==
    \/ "unknown" \in u.reset
    \/ \E k \in Keys : u.set[k] # Unset /\ (k \in u.reset \/ ~Valid(k, u.set[k]))

\* The keys an update writes.
Touched(u) == {k \in Keys : u.set[k] # Unset} \cup (u.reset \cap Keys)

\* What the statement for key k stores: a blank filter is a deletion.
Stores(u, k) ==
    IF u.set[k] = Unset \/ (k = "town_skip_regex" /\ Trim[u.set[k]] = Blank)
    THEN Absent
    ELSE Trim[u.set[k]]

\* The keys set come first and in order, the keys reset in any order (a map).
IsNext(u, todo, k) ==
    LET sets == {j \in todo : u.set[j] # Unset}
    IN  /\ k \in todo
        /\ sets # {} => k \in sets /\ \A j \in sets : Rank[k] <= Rank[j]

-----------------------------------------------------------------------------
Idle == [pc |-> "idle", in |-> Empty, todo |-> {}]

SettingsInit ==
    /\ overrides \in Stored0
    /\ req = [r \in Requests |-> Idle]
    /\ writer = [k \in Keys |-> Nobody]
    /\ shown = [k \in Keys |-> Unset]

Over(r) == req' = [req EXCEPT ![r] = Idle]

\* A PUT that is refused is answered 400 at once and changes nothing.
Put(r, u) ==
    /\ req[r].pc = "idle"
    /\ req' = IF Refused(u) THEN req
              ELSE [req EXCEPT ![r] = [pc |-> "working", in |-> u, todo |-> Touched(u)]]
    /\ UNCHANGED <<overrides, writer, shown>>

\* A GET answers what the table holds, like an update that writes nothing.
Get(r) == Put(r, Empty)

Unanswered(r) == [k \in Keys |-> IF writer[k] = r THEN Nobody ELSE writer[k]]

Write(r, k) ==
    /\ req[r].pc = "working"
    /\ IsNext(req[r].in, req[r].todo, k)
    /\ overrides' = [overrides EXCEPT ![k] = Stores(req[r].in, k)]
    /\ writer' = [writer EXCEPT ![k] = r]
    /\ shown' = [shown EXCEPT ![k] = Unset]
    /\ req' = [req EXCEPT ![r].todo = @ \ {k}]

\* A statement fails, or the deadline passes while it runs: what it should have
\* done is done or not, and the rest is given up.
WriteFails(r, k) ==
    /\ req[r].pc = "working"
    /\ IsNext(req[r].in, req[r].todo, k)
    /\ \/ /\ overrides' = [overrides EXCEPT ![k] = Stores(req[r].in, k)]
          /\ writer' = [Unanswered(r) EXCEPT ![k] = Nobody]
          /\ shown' = [shown EXCEPT ![k] = Unset]
       \/ writer' = Unanswered(r) /\ UNCHANGED <<overrides, shown>>
    /\ Over(r)

\* The answer is read from the table again, after the last statement.
Answer(r) ==
    /\ req[r].pc = "working" /\ req[r].todo = {}
    /\ Over(r)
    /\ shown' = [k \in Keys |-> IF writer[k] = r THEN Effective(overrides)[k]
                                ELSE shown[k]]
    /\ writer' = Unanswered(r)
    /\ UNCHANGED overrides

AnswerFails(r) ==
    /\ req[r].pc = "working" /\ req[r].todo = {}
    /\ Over(r)
    /\ writer' = Unanswered(r)
    /\ UNCHANGED <<overrides, shown>>

RequestStep(r) ==
    \/ Answer(r) \/ AnswerFails(r)
    \/ \E k \in Keys : Write(r, k) \/ WriteFails(r, k)

SettingsNext ==
    \E r \in Requests : Get(r) \/ (\E u \in Updates : Put(r, u)) \/ RequestStep(r)

-----------------------------------------------------------------------------
SettingsTypeOK ==
    /\ overrides \in [Keys -> Values \cup {Absent}]
    /\ req \in [Requests ->
                  [pc : {"idle", "working"}, in : Update, todo : SUBSET Keys]]
    /\ writer \in [Keys -> Requests \cup {Nobody}]
    /\ shown \in [Keys -> Values \cup {Unset}]

\* What the administrator asked for key k.
Asked(u, k) == IF Stores(u, k) = Absent THEN Default[k] ELSE Stores(u, k)

\* An update that is answered 200 shows, for each key it wrote, the value it
\* asked for, unless another request has written that key since: Update
\* validates, writes statement by statement and reads everything again, while
\* other updates do the same.
AnswerShowsOwnWrites ==
    [][\A k \in Keys :
         shown[k] = Unset /\ shown'[k] # Unset =>
            shown'[k] = Asked(req[writer[k]].in, k)]_settingsVars
=============================================================================
