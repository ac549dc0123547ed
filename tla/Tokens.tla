------------------------------- MODULE Tokens --------------------------------
(***************************************************************************)
(* The access tokens of the HTTP API: internal/auth/service.go and         *)
(* http.go, over internal/store/token_repo.go.  Servers share the table of *)
(* tokens and nothing else; each statement on it is one action, and each   *)
(* server reads its own clock.                                             *)
(*                                                                         *)
(* A request presents a token, is authenticated and authorised, and then   *)
(* reads data, issues a token or revokes one.  The plaintext of an issued  *)
(* token is random, so its hash is as good as its id; the bootstrap token  *)
(* has a plaintext of its own, the same for every server that has it in    *)
(* its environment, under whatever id it was stored.                       *)
(*                                                                         *)
(* Times are in units of which a second has Second; a time.Duration is a   *)
(* signed integer of Half * 2 values.                                      *)
(***************************************************************************)
EXTENDS Integers

CONSTANTS
    Ids,           \* uuids of tokens
    BootHash,      \* the hash of ADMIN_BOOTSTRAP_TOKEN
    Requests,
    Instances,     \* servers
    InstOf,        \* the server of each request
    Boots,         \* servers with ADMIN_BOOTSTRAP_TOKEN in their environment
    Skew,          \* how far the clock of each server runs ahead
    Second, Half,
    Ttls,          \* ttl_seconds of requests to issue: positive, of int64
    None,
    MaxClock,      \* bound of the model: the true time stops there
    MaxFaults      \* bound of the model: database errors

ASSUME TokensAssumption ==
    /\ BootHash \notin Ids /\ None \notin Ids
    /\ InstOf \in [Requests -> Instances]
    /\ Boots \subseteq Instances
    /\ Skew \in [Instances -> Nat]
    /\ Second \in Nat \ {0} /\ Half \in Nat \ {0}
    /\ Ttls \subseteq Nat \ {0}
    /\ None \notin Int
    /\ MaxClock \in Nat /\ MaxFaults \in Nat

VARIABLES
    clock,     \* true time
    tokens,    \* the table: the row of each id, or None
    proc,      \* where each server is in its life
    phase,     \* where each request is
    presented, \* the hash of the token each request presents
    op,        \* what each request wants
    row,       \* the row each request has read
    target,    \* the token each request wants to revoke
    at,        \* when, on the clock of its server
    late,      \* history: requests that came with a token already dead
    faults

vars == <<clock, tokens, proc, phase, presented, op, row, target, at, late, faults>>

Hashes == Ids \cup {BootHash}

TokenRow ==
    [hash : Hashes, scope : {"read", "admin"}, created : Int,
     expires : Int \cup {None}, revoked : Int \cup {None}, used : BOOLEAN]

ASSUME NoneAssumption == None \notin TokenRow

Now(i) == clock + Skew[i]

\* The ids in the table.
Stored == {id \in Ids : tokens[id] # None}

\* Mutant of Wrap: a Duration of any size.
WrapNever(n) == n

\* Arithmetic of time.Duration.
Wrap(n) == ((n + Half) % (2 * Half)) - Half

\* A row as it is created; a ttl of None never expires.
NewRow(hash, scope, now, ttl) ==
    [hash |-> hash, scope |-> scope, created |-> now,
     expires |-> IF ttl = None THEN None ELSE now + Wrap(ttl * Second),
     revoked |-> None, used |-> FALSE]

Expired(t, now) == t.expires # None /\ t.expires <= now

\* Mutant of Active: a revocation takes effect at the time it is dated.
ActiveBeforeRevokedAt(t, now) ==
    /\ t.revoked = None \/ now < t.revoked
    /\ ~Expired(t, now)

\* Token.Active.
Active(t, now) == t.revoked = None /\ ~Expired(t, now)

Satisfies(scope, need) == scope = "admin" \/ scope = need

Need(o) == IF o = "read" THEN "read" ELSE "admin"

Fault ==
    /\ faults < MaxFaults
    /\ faults' = faults + 1

Init ==
    /\ clock = 0
    /\ tokens = [id \in Ids |-> None]
    /\ proc = [i \in Instances |-> "down"]
    /\ phase = [r \in Requests |-> "new"]
    /\ presented = [r \in Requests |-> None]
    /\ op = [r \in Requests |-> "none"]
    /\ row = [r \in Requests |-> None]
    /\ target = [r \in Requests |-> None]
    /\ at = [r \in Requests |-> 0]
    /\ late = {}
    /\ faults = 0

-----------------------------------------------------------------------------
(* Servers. *)

reqVars == <<phase, presented, op, row, target, at, late>>

\* A server without a bootstrap token, or one that finds it in the table,
\* revoked or not, goes on to serve; any other has to create it.
BootRead(i) ==
    /\ proc[i] \in {"down", "failed"}
    /\ proc' = [proc EXCEPT ![i] =
                   IF i \in Boots /\ \A id \in Stored : tokens[id].hash # BootHash
                   THEN "creating" ELSE "up"]
    /\ UNCHANGED <<clock, tokens, reqVars, faults>>

\* Mutants of BootCreate: a table without the unique index, and a conflict
\* that counts as a failure.
BootCreateTwice(i) ==
    /\ proc[i] = "creating"
    /\ proc' = [proc EXCEPT ![i] = "up"]
    /\ \E id \in Ids \ Stored :
          tokens' = [tokens EXCEPT ![id] = NewRow(BootHash, "admin", Now(i), None)]
    /\ UNCHANGED <<clock, reqVars, faults>>

BootCreateFails(i) ==
    /\ proc[i] = "creating"
    /\ \/ /\ \E id \in Stored : tokens[id].hash = BootHash
          /\ proc' = [proc EXCEPT ![i] = "failed"]
          /\ UNCHANGED tokens
       \/ /\ \A id \in Stored : tokens[id].hash # BootHash
          /\ proc' = [proc EXCEPT ![i] = "up"]
          /\ \E id \in Ids \ Stored :
                tokens' = [tokens EXCEPT ![id] = NewRow(BootHash, "admin", Now(i), None)]
    /\ UNCHANGED <<clock, reqVars, faults>>

\* The INSERT: a conflict on the unique index of token_hash means that
\* another server has been here, which is as good.
BootCreate(i) ==
    /\ proc[i] = "creating"
    /\ proc' = [proc EXCEPT ![i] = "up"]
    /\ \/ /\ \E id \in Stored : tokens[id].hash = BootHash
          /\ UNCHANGED tokens
       \/ /\ \A id \in Stored : tokens[id].hash # BootHash
          /\ \E id \in Ids \ Stored :
                tokens' = [tokens EXCEPT ![id] = NewRow(BootHash, "admin", Now(i), None)]
    /\ UNCHANGED <<clock, reqVars, faults>>

\* Either statement fails, and main gives up; the INSERT may be committed.
BootError(i) ==
    /\ Fault
    /\ \/ proc[i] \in {"down", "failed"} /\ i \in Boots /\ UNCHANGED tokens
       \/ proc[i] = "creating" /\ UNCHANGED tokens
       \/ /\ proc[i] = "creating"
          /\ \A id \in Stored : tokens[id].hash # BootHash
          /\ \E id \in Ids \ Stored :
                tokens' = [tokens EXCEPT ![id] = NewRow(BootHash, "admin", Now(i), None)]
    /\ proc' = [proc EXCEPT ![i] = "failed"]
    /\ UNCHANGED <<clock, reqVars>>

\* Phases of a request that has been answered, and of one that has passed
\* authentication.
Answered == {"ok", "notfound", "denied", "forbidden", "failed"}
Passed == {"active", "granted", "revoking", "counting", "ok", "notfound"}

\* A server stops or dies, and what it was doing with it.
Down(i) ==
    /\ proc[i] \in {"creating", "up"}
    /\ proc' = [proc EXCEPT ![i] = "down"]
    /\ phase' = [r \in Requests |->
                    IF InstOf[r] = i /\ phase[r] \notin Answered \cup {"new"}
                    THEN "failed" ELSE phase[r]]
    /\ UNCHANGED <<clock, tokens, presented, op, row, target, at, late, faults>>

-----------------------------------------------------------------------------
(* Requests. *)

Goto(r, from, to) ==
    /\ phase[r] = from
    /\ phase' = [phase EXCEPT ![r] = to]

\* The token with this hash is already revoked, or expired on the clock of
\* server i.
Dead(hash, i) ==
    \E id \in Stored :
        /\ tokens[id].hash = hash
        /\ tokens[id].revoked # None \/ Expired(tokens[id], Now(i))

\* A request arrives, with any token and for anything.
Arrive(r) ==
    /\ proc[InstOf[r]] = "up"
    /\ Goto(r, "new", "arrived")
    /\ \E h \in Hashes :
          /\ presented' = [presented EXCEPT ![r] = h]
          /\ late' = IF Dead(h, InstOf[r]) THEN late \cup {r} ELSE late
    /\ \E o \in {"read", "issue", "revoke"} : op' = [op EXCEPT ![r] = o]
    /\ UNCHANGED <<clock, tokens, proc, row, target, at, faults>>

\* GetByHash finds a row.
ReadToken(r) ==
    /\ Goto(r, "arrived", "found")
    /\ \E id \in Stored :
          /\ tokens[id].hash = presented[r]
          /\ row' = [row EXCEPT ![r] = tokens[id]]
          /\ target' = [target EXCEPT ![r] = id]
    /\ UNCHANGED <<clock, tokens, proc, presented, op, at, late, faults>>

\* GetByHash finds none.
ReadNone(r) ==
    /\ Goto(r, "arrived", "denied")
    /\ \A id \in Stored : tokens[id].hash # presented[r]
    /\ UNCHANGED <<clock, tokens, proc, presented, op, row, target, at, late, faults>>

\* The row that was read is checked against the clock.
Check(r) ==
    /\ Goto(r, "found",
            IF Active(row[r], Now(InstOf[r])) THEN "active" ELSE "denied")
    /\ UNCHANGED <<clock, tokens, proc, presented, op, row, target, at, late, faults>>

\* Mutant of Touch: it saves the whole row that was read.
TouchSaves(r) ==
    /\ Goto(r, "active",
            IF Satisfies(row[r].scope, Need(op[r])) THEN "granted" ELSE "forbidden")
    /\ tokens' = [tokens EXCEPT ![target[r]] = [row[r] EXCEPT !.used = TRUE]]
    /\ UNCHANGED <<clock, proc, presented, op, row, target, at, late, faults>>

\* TouchLastUsed, one column of the row of this id; then the scope is
\* compared with what the route needs.
Touch(r) ==
    /\ Goto(r, "active",
            IF Satisfies(row[r].scope, Need(op[r])) THEN "granted" ELSE "forbidden")
    /\ tokens' = [tokens EXCEPT ![target[r]].used = TRUE]
    /\ UNCHANGED <<clock, proc, presented, op, row, target, at, late, faults>>

\* TouchLastUsed fails, which is ignored.
TouchError(r) ==
    /\ Fault
    /\ Goto(r, "active",
            IF Satisfies(row[r].scope, Need(op[r])) THEN "granted" ELSE "forbidden")
    /\ UNCHANGED <<clock, tokens, proc, presented, op, row, target, at, late>>

\* The data is read; which data does not matter here.
Serve(r) ==
    /\ op[r] = "read"
    /\ Goto(r, "granted", "ok")
    /\ UNCHANGED <<clock, tokens, proc, presented, op, row, target, at, late, faults>>

\* CreateToken and Issue: a fresh id and a fresh plaintext.
Insert(r) ==
    \E id \in Ids \ Stored, scope \in {"read", "admin"}, ttl \in Ttls \cup {None} :
        tokens' = [tokens EXCEPT ![id] = NewRow(id, scope, Now(InstOf[r]), ttl)]

Issue(r) ==
    /\ op[r] = "issue"
    /\ Goto(r, "granted", "ok")
    /\ Insert(r)
    /\ UNCHANGED <<clock, proc, presented, op, row, target, at, late, faults>>

\* Bad input (no name, an unknown scope, a ttl that is not positive) or an
\* error of the database, which may hide a commit.
IssueError(r) ==
    /\ op[r] = "issue"
    /\ Goto(r, "granted", "failed")
    /\ \/ UNCHANGED <<tokens, faults>>
       \/ Fault /\ (UNCHANGED tokens \/ Insert(r))
    /\ UNCHANGED <<clock, proc, presented, op, row, target, at, late>>

\* RevokeToken: the id is one that was handed out, or none of any token;
\* the clock is read before the UPDATE is sent.
Revoke(r) ==
    /\ op[r] = "revoke"
    /\ Goto(r, "granted", "revoking")
    /\ at' = [at EXCEPT ![r] = Now(InstOf[r])]
    /\ \E id \in Stored \cup {None} : target' = [target EXCEPT ![r] = id]
    /\ UNCHANGED <<clock, tokens, proc, presented, op, row, late, faults>>

\* The rows the UPDATE of Revoke affects.
Hits(r) == {id \in Stored : id = target[r] /\ tokens[id].revoked = None}

\* Mutant of RevokeUpdate: a token past its expiry is not worth revoking.
RevokeUpdateUnexpired(r) ==
    /\ phase[r] = "revoking"
    /\ \/ /\ \E id \in Hits(r) :
                /\ ~Expired(tokens[id], at[r])
                /\ tokens' = [tokens EXCEPT ![id].revoked = at[r]]
          /\ Goto(r, "revoking", "ok")
       \/ /\ \A id \in Hits(r) : Expired(tokens[id], at[r])
          /\ Goto(r, "revoking", "counting")
          /\ UNCHANGED tokens
    /\ UNCHANGED <<clock, proc, presented, op, row, target, at, late, faults>>

\* The UPDATE of Revoke: the first revocation counts.
RevokeUpdate(r) ==
    /\ \/ /\ Goto(r, "revoking", "ok")
          /\ \E id \in Hits(r) : tokens' = [tokens EXCEPT ![id].revoked = at[r]]
       \/ /\ Goto(r, "revoking", "counting")
          /\ Hits(r) = {}
          /\ UNCHANGED tokens
    /\ UNCHANGED <<clock, proc, presented, op, row, target, at, late, faults>>

\* Nothing was updated: the COUNT tells a revoked token from an unknown one.
RevokeCount(r) ==
    /\ Goto(r, "counting", IF target[r] \in Stored THEN "ok" ELSE "notfound")
    /\ UNCHANGED <<clock, tokens, proc, presented, op, row, target, at, late, faults>>

\* A statement fails; the UPDATE of Revoke may have been committed.
RequestError(r) ==
    /\ Fault
    /\ \/ /\ \E p \in {"arrived", "granted", "revoking", "counting"} :
                Goto(r, p, "failed")
          /\ UNCHANGED tokens
       \/ /\ Goto(r, "revoking", "failed")
          /\ \E id \in Hits(r) : tokens' = [tokens EXCEPT ![id].revoked = at[r]]
    /\ UNCHANGED <<clock, proc, presented, op, row, target, at, late>>

Tick ==
    /\ clock < MaxClock
    /\ clock' = clock + 1
    /\ UNCHANGED <<tokens, proc, reqVars, faults>>

Server(i) == BootRead(i) \/ BootCreate(i) \/ BootError(i) \/ Down(i)

Request(r) ==
    \/ Arrive(r) \/ ReadToken(r) \/ ReadNone(r) \/ Check(r)
    \/ Touch(r) \/ TouchError(r)
    \/ Serve(r) \/ Issue(r) \/ IssueError(r)
    \/ Revoke(r) \/ RevokeUpdate(r) \/ RevokeCount(r) \/ RequestError(r)

Next ==
    \/ \E i \in Instances : Server(i)
    \/ \E r \in Requests : Request(r)
    \/ Tick

Spec == Init /\ [][Next]_vars

-----------------------------------------------------------------------------
\* Types.  An expiry lies a Duration away from the creation.
TypeOK ==
    /\ clock \in Nat
    /\ tokens \in [Ids -> TokenRow \cup {None}]
    /\ \A id \in Stored :
          tokens[id].expires # None =>
              tokens[id].expires - tokens[id].created \in (-Half)..(Half - 1)
    /\ proc \in [Instances -> {"down", "creating", "up", "failed"}]
    /\ phase \in [Requests -> Answered \cup Passed \cup {"new", "arrived", "found"}]
    /\ presented \in [Requests -> Hashes \cup {None}]
    /\ op \in [Requests -> {"none", "read", "issue", "revoke"}]
    /\ row \in [Requests -> TokenRow \cup {None}]
    /\ target \in [Requests -> Ids \cup {None}]
    /\ at \in [Requests -> Int]
    /\ late \subseteq Requests
    /\ faults \in Nat

\* A token that is revoked, or expired on the clock of the server, lets no
\* request pass that arrives afterwards, at any server and however their
\* clocks differ ("吊销立即生效", RevokeToken in internal/auth/http.go).
DeadTokenNeverPasses == \A r \in late : phase[r] \notin Passed

\* The first revocation of a token stands: no second one, no authentication
\* that was under way and no restart changes it ("首个吊销时间为准", Revoke
\* in internal/store/token_repo.go).
FirstRevocationStands ==
    [][ \A id \in Stored :
          tokens[id].revoked # None =>
              id \in Stored' /\ tokens'[id].revoked = tokens[id].revoked ]_vars

\* A hash belongs to one row, whoever starts or issues at the same time:
\* GetByHash has nothing to choose from.
OneRowPerHash ==
    \A id, other \in Stored : tokens[id].hash = tokens[other].hash => id = other

\* When a revocation is answered with success, its token is revoked, by this
\* request or by another.
RevokeAnswerHolds ==
    \A r \in Requests :
        op[r] = "revoke" /\ phase[r] = "ok" =>
            target[r] \in Stored /\ tokens[target[r]].revoked # None

\* Servers that start together do not get into each other's way: a start
\* fails only by an error of the database, and a server that is up has the
\* bootstrap token in its table (EnsureBootstrap in internal/auth/service.go).
BootstrapSettles ==
    \A i \in Boots :
        /\ proc[i] = "failed" => faults > 0
        /\ proc[i] = "up" => \E id \in Stored : tokens[id].hash = BootHash

\* A token issued for a number of seconds has not expired when it is issued
\* ("过期秒数，必须大于 0", docs/api/v1.md).
IssuedTokenLives ==
    \A id \in Stored :
        tokens[id].expires # None => tokens[id].expires > tokens[id].created
=============================================================================
