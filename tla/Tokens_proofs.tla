---------------------------- MODULE Tokens_proofs ----------------------------
(***************************************************************************)
(* Proofs about the access tokens (Tokens), for any number of tokens,      *)
(* servers and requests, any clocks, any width of a Duration.              *)
(*                                                                         *)
(* Every step changes the table in one of four ways (TableChange), none of *)
(* which takes back a row, its hash, its expiry or its revocation          *)
(* (TableGrows).  The rest follows from that: what was dead stays dead,    *)
(* what was answered stays true.                                           *)
(***************************************************************************)
EXTENDS Tokens, TLAPS

\* A request that has a row in hand names the id it was read under.
RowRead ==
    \A r \in Requests :
        phase[r] \in {"found", "active"} => target[r] \in Stored /\ row[r] # None

\* The hash of an issued token is that of its own plaintext.
HashesNamed == \A id \in Stored : tokens[id].hash \in {id, BootHash}

DeadRow(t, now) == t.revoked # None \/ Expired(t, now)

\* A request that came late is still about to find its token dead, has it
\* dead in hand, or has been turned away.
LateFindsDead ==
    \A r \in late :
        /\ phase[r] \notin Passed \cup {"new"}
        /\ phase[r] = "arrived" => Dead(presented[r], InstOf[r])
        /\ phase[r] = "found" => DeadRow(row[r], Now(InstOf[r]))

TableInv == TypeOK /\ RowRead /\ HashesNamed /\ OneRowPerHash

-----------------------------------------------------------------------------
(* The table. *)

\* What a step may do to the table.
Inserts ==
    \E id \in Ids \ Stored, h \in Hashes, scope \in {"read", "admin"},
       i \in Instances, ttl \in Ttls \cup {None} :
        /\ h \in {id, BootHash}
        /\ h = BootHash => \A other \in Stored : tokens[other].hash # BootHash
        /\ tokens' = [tokens EXCEPT ![id] = NewRow(h, scope, Now(i), ttl)]

Touches == \E id \in Stored : tokens' = [tokens EXCEPT ![id].used = TRUE]

Revokes ==
    \E id \in Stored, t \in Int :
        /\ tokens[id].revoked = None
        /\ tokens' = [tokens EXCEPT ![id].revoked = t]

TableChange == UNCHANGED tokens \/ Inserts \/ Touches \/ Revokes

\* What comes of it: rows stay, with all that matters of them, and at most
\* one row is new, under a hash that no row has.
RowStays(id) ==
    /\ tokens'[id] # None
    /\ tokens'[id].hash = tokens[id].hash
    /\ tokens'[id].expires = tokens[id].expires
    /\ tokens'[id].created = tokens[id].created
    /\ tokens[id].revoked # None => tokens'[id].revoked = tokens[id].revoked

TableGrows ==
    /\ \A id \in Stored : RowStays(id)
    /\ \A id \in Stored' \ Stored :
          /\ tokens'[id].hash \in {id, BootHash}
          /\ tokens'[id].hash = BootHash =>
                \A other \in Stored : tokens[other].hash # BootHash
    /\ \A id, other \in Stored' \ Stored : id = other

LEMMA NowInt ==
    ASSUME clock \in Nat, NEW i \in Instances
    PROVE  Now(i) \in Int
  BY TokensAssumption DEF Now

\* A Duration is in its range, whatever was multiplied.
LEMMA WrapRange ==
    ASSUME NEW n \in Int
    PROVE  Wrap(n) \in Int /\ -Half <= Wrap(n) /\ Wrap(n) <= Half - 1
<1> DEFINE m == (n + Half) % (2 * Half)
<1>1. Half \in Nat /\ Half > 0 /\ 2 * Half \in Nat /\ 2 * Half > 0
  BY TokensAssumption
<1>2. m \in Int /\ 0 <= m /\ m < 2 * Half
  BY <1>1
<1> HIDE DEF m
<1>3. Wrap(n) = m - Half
  BY DEF Wrap, m
<1> QED
  BY <1>1, <1>2, <1>3

\* A new row has the type of a row, and an expiry within a Duration.
LEMMA NewRowType ==
    ASSUME NEW h \in Hashes, NEW scope \in {"read", "admin"}, NEW now \in Int,
           NEW ttl \in Ttls \cup {None}
    PROVE  /\ NewRow(h, scope, now, ttl) \in TokenRow
           /\ NewRow(h, scope, now, ttl) # None
           /\ NewRow(h, scope, now, ttl).hash = h
           /\ NewRow(h, scope, now, ttl).expires # None =>
                 NewRow(h, scope, now, ttl).expires - NewRow(h, scope, now, ttl).created
                     \in (-Half)..(Half - 1)
<1> DEFINE t == NewRow(h, scope, now, ttl)
<1>1. CASE ttl = None
  <2>1. t = [hash |-> h, scope |-> scope, created |-> now, expires |-> None,
             revoked |-> None, used |-> FALSE]
    BY <1>1 DEF NewRow
  <2> HIDE DEF t
  <2>2. t \in TokenRow
    BY <2>1 DEF TokenRow
  <2>3. t.hash = h /\ t.expires = None
    BY <2>1
  <2> QED
    BY <2>2, <2>3, NoneAssumption DEF t
<1>2. CASE ttl # None
  <2>1. ttl * Second \in Int
    BY <1>2, TokensAssumption
  <2> DEFINE d == Wrap(ttl * Second)
  <2>2. d \in Int /\ -Half <= d /\ d <= Half - 1
    BY <2>1, WrapRange
  <2>3. t = [hash |-> h, scope |-> scope, created |-> now, expires |-> now + d,
             revoked |-> None, used |-> FALSE]
    BY <1>2 DEF NewRow
  <2> HIDE DEF d, t
  <2>4. t \in TokenRow
    BY <2>2, <2>3 DEF TokenRow
  <2>5. t.expires - t.created \in (-Half)..(Half - 1)
    BY <2>2, <2>3, TokensAssumption
  <2>6. t.hash = h
    BY <2>3
  <2> QED
    BY <2>4, <2>5, <2>6, NoneAssumption DEF t
<1> QED
  BY <1>1, <1>2

\* Every step is one of the four changes.
LEMMA Changes == TypeOK /\ RowRead /\ [Next]_vars => TableChange
<1> SUFFICES ASSUME TypeOK, RowRead, [Next]_vars
             PROVE  TableChange
    OBVIOUS
<1> DEFINE Boots2(i) == \E id \in Ids \ Stored :
               /\ \A other \in Stored : tokens[other].hash # BootHash
               /\ tokens' = [tokens EXCEPT ![id] = NewRow(BootHash, "admin", Now(i), None)]
<1>1. ASSUME NEW i \in Instances, Boots2(i)
      PROVE  Inserts
  BY <1>1 DEF Inserts, Hashes
<1>2. ASSUME NEW r \in Requests, Insert(r)
      PROVE  Inserts
  <2>1. PICK id \in Ids \ Stored, scope \in {"read", "admin"}, ttl \in Ttls \cup {None} :
          tokens' = [tokens EXCEPT ![id] = NewRow(id, scope, Now(InstOf[r]), ttl)]
    BY <1>2 DEF Insert
  <2>2. InstOf[r] \in Instances /\ id # BootHash /\ id \in Hashes
    BY TokensAssumption DEF Hashes
  <2> QED
    BY <2>1, <2>2 DEF Inserts
<1>3. ASSUME NEW r \in Requests,
             \E id \in Hits(r) : tokens' = [tokens EXCEPT ![id].revoked = at[r]]
      PROVE  Revokes
  BY <1>3 DEF Hits, Revokes, TypeOK
<1>4. ASSUME NEW i \in Instances, Server(i)
      PROVE  TableChange
  <2>1. CASE BootRead(i)
    BY <2>1 DEF BootRead, TableChange
  <2>2. CASE BootCreate(i)
    BY <2>2, <1>1 DEF BootCreate, TableChange
  <2>3. CASE BootError(i)
    BY <2>3, <1>1 DEF BootError, TableChange
  <2>4. CASE Down(i)
    BY <2>4 DEF Down, TableChange
  <2> QED
    BY <1>4, <2>1, <2>2, <2>3, <2>4 DEF Server
<1>5. ASSUME NEW r \in Requests, Request(r)
      PROVE  TableChange
  <2>1. CASE Arrive(r) \/ ReadToken(r) \/ ReadNone(r) \/ Check(r) \/ TouchError(r)
                \/ Serve(r) \/ Revoke(r) \/ RevokeCount(r)
    BY <2>1 DEF Arrive, ReadToken, ReadNone, Check, TouchError, Serve, Revoke,
                RevokeCount, TableChange
  <2>2. CASE Touch(r)
    BY <2>2 DEF Touch, Goto, RowRead, Touches, TableChange
  <2>3. CASE Issue(r)
    BY <2>3, <1>2 DEF Issue, TableChange
  <2>4. CASE IssueError(r)
    BY <2>4, <1>2 DEF IssueError, TableChange
  <2>5. CASE RevokeUpdate(r)
    BY <2>5, <1>3 DEF RevokeUpdate, TableChange
  <2>6. CASE RequestError(r)
    BY <2>6, <1>3 DEF RequestError, TableChange
  <2> QED
    BY <1>5, <2>1, <2>2, <2>3, <2>4, <2>5, <2>6 DEF Request
<1>6. CASE Tick
  BY <1>6 DEF Tick, TableChange
<1>7. CASE UNCHANGED vars
  BY <1>7 DEF vars, TableChange
<1> QED
  BY <1>4, <1>5, <1>6, <1>7 DEF Next

\* What the four changes keep.
LEMMA Grows == TypeOK /\ TableChange => TableGrows
<1> SUFFICES ASSUME TypeOK, TableChange
             PROVE  TableGrows
    OBVIOUS
<1>1. CASE UNCHANGED tokens
  BY <1>1 DEF TableGrows, RowStays, Stored
<1>2. CASE Inserts
  <2>1. PICK id \in Ids \ Stored, h \in Hashes, scope \in {"read", "admin"},
             i \in Instances, ttl \in Ttls \cup {None} :
          /\ h \in {id, BootHash}
          /\ h = BootHash => \A other \in Stored : tokens[other].hash # BootHash
          /\ tokens' = [tokens EXCEPT ![id] = NewRow(h, scope, Now(i), ttl)]
    BY <1>2 DEF Inserts
  <2> DEFINE t == NewRow(h, scope, Now(i), ttl)
  <2>2. t.hash = h /\ t # None
    BY NowInt, NewRowType DEF TypeOK
  <2> HIDE DEF t
  <2>3. tokens' = [tokens EXCEPT ![id] = t]
    BY <2>1 DEF t
  <2>4. \A other \in Ids \ {id} : tokens'[other] = tokens[other]
    BY <2>3 DEF TypeOK
  <2>5. tokens'[id] = t
    BY <2>3 DEF TypeOK
  <2>6. Stored' = Stored \cup {id}
    BY <2>2, <2>4, <2>5 DEF Stored
  <2>7. \A other \in Stored : RowStays(other)
    BY <2>4 DEF RowStays, Stored
  <2> QED
    BY <2>1, <2>2, <2>5, <2>6, <2>7 DEF TableGrows
<1>3. CASE Touches
  <2>1. PICK id \in Stored : tokens' = [tokens EXCEPT ![id].used = TRUE]
    BY <1>3 DEF Touches
  <2>2. tokens[id] \in TokenRow
    BY DEF TypeOK, Stored
  <2>3. tokens'[id] = [tokens[id] EXCEPT !.used = TRUE]
    BY <2>1 DEF TypeOK, Stored
  <2>4. tokens'[id] \in TokenRow
    BY <2>2, <2>3 DEF TokenRow
  <2>5. \A other \in Ids \ {id} : tokens'[other] = tokens[other]
    BY <2>1 DEF TypeOK
  <2>6. RowStays(id)
    BY <2>2, <2>3, <2>4, NoneAssumption DEF RowStays, TokenRow
  <2>7. Stored' = Stored
    BY <2>4, <2>5, NoneAssumption DEF Stored
  <2> QED
    BY <2>5, <2>6, <2>7 DEF TableGrows, RowStays, Stored
<1>4. CASE Revokes
  <2>1. PICK id \in Stored, t \in Int :
          /\ tokens[id].revoked = None
          /\ tokens' = [tokens EXCEPT ![id].revoked = t]
    BY <1>4 DEF Revokes
  <2>2. tokens[id] \in TokenRow
    BY DEF TypeOK, Stored
  <2>3. tokens'[id] = [tokens[id] EXCEPT !.revoked = t]
    BY <2>1 DEF TypeOK, Stored
  <2>4. tokens'[id] \in TokenRow
    BY <2>2, <2>3 DEF TokenRow
  <2>5. \A other \in Ids \ {id} : tokens'[other] = tokens[other]
    BY <2>1 DEF TypeOK
  <2>6. RowStays(id)
    BY <2>1, <2>2, <2>3, <2>4, NoneAssumption DEF RowStays, TokenRow
  <2>7. Stored' = Stored
    BY <2>4, <2>5, NoneAssumption DEF Stored
  <2> QED
    BY <2>5, <2>6, <2>7 DEF TableGrows, RowStays, Stored
<1> QED
  BY <1>1, <1>2, <1>3, <1>4 DEF TableChange
-----------------------------------------------------------------------------
(* Types. *)

LEMMA TypeInit == Init => TypeOK
  BY TokensAssumption DEF Init, TypeOK, Stored, Answered, Passed

\* The table keeps its types.
LEMMA TableType ==
    ASSUME TypeOK, TableChange
    PROVE  /\ tokens' \in [Ids -> TokenRow \cup {None}]
           /\ \A id \in Stored' :
                 tokens'[id].expires # None =>
                     tokens'[id].expires - tokens'[id].created \in (-Half)..(Half - 1)
<1>1. CASE UNCHANGED tokens
  BY <1>1 DEF TypeOK, Stored
<1>2. CASE Inserts
  <2>1. PICK id \in Ids \ Stored, h \in Hashes, scope \in {"read", "admin"},
             i \in Instances, ttl \in Ttls \cup {None} :
          tokens' = [tokens EXCEPT ![id] = NewRow(h, scope, Now(i), ttl)]
    BY <1>2 DEF Inserts
  <2> DEFINE t == NewRow(h, scope, Now(i), ttl)
  <2>2. /\ t \in TokenRow
        /\ t.expires # None => t.expires - t.created \in (-Half)..(Half - 1)
    BY NowInt, NewRowType DEF TypeOK
  <2> HIDE DEF t
  <2>3. tokens' = [tokens EXCEPT ![id] = t]
    BY <2>1 DEF t
  <2> QED
    BY <2>2, <2>3 DEF TypeOK, Stored
<1>3. CASE Touches
  <2>1. PICK id \in Stored : tokens' = [tokens EXCEPT ![id].used = TRUE]
    BY <1>3 DEF Touches
  <2> DEFINE t == [tokens[id] EXCEPT !.used = TRUE]
  <2>2. tokens[id] \in TokenRow
    BY DEF TypeOK, Stored
  <2>3. t \in TokenRow /\ t.expires = tokens[id].expires /\ t.created = tokens[id].created
    BY <2>2 DEF TokenRow
  <2> HIDE DEF t
  <2>4. tokens' = [tokens EXCEPT ![id] = t]
    BY <2>1 DEF TypeOK, Stored, t
  <2> QED
    BY <2>3, <2>4 DEF TypeOK, Stored
<1>4. CASE Revokes
  <2>1. PICK id \in Stored, n \in Int : tokens' = [tokens EXCEPT ![id].revoked = n]
    BY <1>4 DEF Revokes
  <2> DEFINE t == [tokens[id] EXCEPT !.revoked = n]
  <2>2. tokens[id] \in TokenRow
    BY DEF TypeOK, Stored
  <2>3. t \in TokenRow /\ t.expires = tokens[id].expires /\ t.created = tokens[id].created
    BY <2>2 DEF TokenRow
  <2> HIDE DEF t
  <2>4. tokens' = [tokens EXCEPT ![id] = t]
    BY <2>1 DEF TypeOK, Stored, t
  <2> QED
    BY <2>3, <2>4 DEF TypeOK, Stored
<1> QED
  BY <1>1, <1>2, <1>3, <1>4 DEF TableChange

\* The types of all but the table.
Rest ==
    /\ clock \in Nat
    /\ proc \in [Instances -> {"down", "creating", "up", "failed"}]
    /\ phase \in [Requests -> Answered \cup Passed \cup {"new", "arrived", "found"}]
    /\ presented \in [Requests -> Hashes \cup {None}]
    /\ op \in [Requests -> {"none", "read", "issue", "revoke"}]
    /\ row \in [Requests -> TokenRow \cup {None}]
    /\ target \in [Requests -> Ids \cup {None}]
    /\ at \in [Requests -> Int]
    /\ late \subseteq Requests
    /\ faults \in Nat

LEMMA RestStep == TypeOK /\ [Next]_vars => Rest'
<1> SUFFICES ASSUME TypeOK, [Next]_vars
             PROVE  Rest'
    OBVIOUS
<1> USE DEF Rest, Answered, Passed
<1>1. ASSUME NEW i \in Instances, Server(i)
      PROVE  Rest'
  <2>1. CASE BootRead(i)
    BY <2>1 DEF TypeOK, BootRead, reqVars
  <2>2. CASE BootCreate(i)
    BY <2>2 DEF TypeOK, BootCreate, reqVars
  <2>3. CASE BootError(i)
    BY <2>3 DEF TypeOK, BootError, reqVars, Fault
  <2>4. CASE Down(i)
    BY <2>4 DEF TypeOK, Down
  <2> QED
    BY <1>1, <2>1, <2>2, <2>3, <2>4 DEF Server
<1>2. ASSUME NEW r \in Requests, Request(r)
      PROVE  Rest'
  <2>1. CASE Arrive(r)
    BY <2>1 DEF TypeOK, Arrive, Goto
  <2>2. CASE ReadToken(r)
    BY <2>2 DEF TypeOK, ReadToken, Goto, Stored
  <2>3. CASE ReadNone(r) \/ Check(r) \/ Serve(r) \/ RevokeCount(r)
    BY <2>3 DEF TypeOK, ReadNone, Check, Serve, RevokeCount, Goto
  <2>4. CASE Touch(r) \/ TouchError(r)
    BY <2>4 DEF TypeOK, Touch, TouchError, Goto, Fault
  <2>5. CASE Issue(r) \/ IssueError(r)
    BY <2>5 DEF TypeOK, Issue, IssueError, Goto, Fault
  <2>6. CASE Revoke(r)
    <3>1. Now(InstOf[r]) \in Int
      BY NowInt, TokensAssumption DEF TypeOK
    <3> QED
      BY <2>6, <3>1 DEF TypeOK, Revoke, Goto, Stored
  <2>7. CASE RevokeUpdate(r)
    BY <2>7 DEF TypeOK, RevokeUpdate, Goto
  <2>8. CASE RequestError(r)
    BY <2>8 DEF TypeOK, RequestError, Goto, Fault
  <2> QED
    BY <1>2, <2>1, <2>2, <2>3, <2>4, <2>5, <2>6, <2>7, <2>8 DEF Request
<1>3. CASE Tick
  BY <1>3 DEF TypeOK, Tick, reqVars
<1>4. CASE UNCHANGED vars
  BY <1>4 DEF TypeOK, vars
<1> QED
  BY <1>1, <1>2, <1>3, <1>4 DEF Next

LEMMA TypeStep == TypeOK /\ RowRead /\ [Next]_vars => TypeOK'
  BY Changes, TableType, RestStep DEF TypeOK, Rest

\* A row in hand was read under an id that is still in the table.
LEMMA RowReadStep == TypeOK /\ RowRead /\ TableGrows /\ [Next]_vars => RowRead'
<1> SUFFICES ASSUME TypeOK, RowRead, TableGrows, [Next]_vars,
                    NEW q \in Requests, phase'[q] \in {"found", "active"}
             PROVE  target'[q] \in Stored' /\ row'[q] # None
    BY DEF RowRead
<1>1. \A id \in Stored : id \in Stored'
  BY DEF TableGrows, RowStays, Stored
<1>2. ASSUME phase[q] \in {"found", "active"}, target'[q] = target[q], row'[q] = row[q]
      PROVE  target'[q] \in Stored' /\ row'[q] # None
  BY <1>1, <1>2 DEF RowRead
<1>3. ASSUME NEW i \in Instances, Server(i)
      PROVE  target'[q] \in Stored' /\ row'[q] # None
  BY <1>2, <1>3 DEF Server, BootRead, BootCreate, BootError, Down, reqVars, TypeOK
<1>4. ASSUME NEW r \in Requests, Request(r)
      PROVE  target'[q] \in Stored' /\ row'[q] # None
  <2>1. CASE q # r
    BY <1>2, <1>4, <2>1 DEF Request, Arrive, ReadToken, ReadNone, Check, Touch,
       TouchError, Serve, Issue, IssueError, Revoke, RevokeUpdate, RevokeCount,
       RequestError, Goto, TypeOK
  <2>2. CASE q = r
    <3>1. CASE ReadToken(r)
      BY <1>1, <2>2, <3>1 DEF ReadToken, TypeOK, Stored
    <3>2. CASE Check(r)
      BY <1>2, <2>2, <3>2 DEF Check, Goto, TypeOK
    <3>3. CASE ~ReadToken(r) /\ ~Check(r)
      BY <1>4, <2>2, <3>3 DEF Request, Arrive, ReadNone, Touch, TouchError, Serve,
         Issue, IssueError, Revoke, RevokeUpdate, RevokeCount, RequestError, Goto,
         TypeOK
    <3> QED
      BY <3>1, <3>2, <3>3
  <2> QED
    BY <2>1, <2>2
<1>5. CASE Tick
  BY <1>2, <1>5 DEF Tick, reqVars
<1>6. CASE UNCHANGED vars
  BY <1>2, <1>6 DEF vars
<1> QED
  BY <1>3, <1>4, <1>5, <1>6 DEF Next

\* Hashes stay apart.
LEMMA HashesStep ==
    ASSUME HashesNamed, OneRowPerHash, TableGrows
    PROVE  HashesNamed' /\ OneRowPerHash'
<1>1. HashesNamed'
  BY DEF HashesNamed, TableGrows, RowStays, Stored
<1>2. ASSUME NEW id \in Stored', NEW other \in Stored',
             tokens'[id].hash = tokens'[other].hash
      PROVE  id = other
  <2>1. CASE id \in Stored /\ other \in Stored
    BY <1>2, <2>1 DEF OneRowPerHash, TableGrows, RowStays
  <2>2. CASE id \notin Stored /\ other \notin Stored
    BY <2>2 DEF TableGrows
  <2>3. ASSUME NEW old \in Stored, NEW new \in Stored' \ Stored
        PROVE  tokens'[old].hash # tokens'[new].hash
    <3>1. tokens'[old].hash = tokens[old].hash /\ tokens[old].hash \in {old, BootHash}
      BY DEF TableGrows, RowStays, HashesNamed
    <3>2. tokens'[new].hash \in {new, BootHash}
      BY DEF TableGrows
    <3>3. tokens'[new].hash = BootHash => tokens[old].hash # BootHash
      BY DEF TableGrows
    <3>4. old # new /\ old # BootHash /\ new # BootHash
      BY TokensAssumption DEF Stored
    <3> QED
      BY <3>1, <3>2, <3>3, <3>4
  <2> QED
    BY <1>2, <2>1, <2>2, <2>3
<1> QED
  BY <1>1, <1>2 DEF OneRowPerHash

LEMMA TableInvInit == Init => TableInv
  BY TypeInit DEF Init, TableInv, RowRead, HashesNamed, OneRowPerHash, Stored

LEMMA TableInvStep == TableInv /\ [Next]_vars => TableInv' /\ TableGrows
  BY Changes, Grows, TypeStep, RowReadStep, HashesStep DEF TableInv

\* The table is well typed, rows have hashes of their own, and a request
\* that works with a row names a token of the table.
THEOREM TableInvariant == Spec => []TableInv
<1>1. Init => TableInv
  BY TableInvInit
<1>2. TableInv /\ [Next]_vars => TableInv'
  BY TableInvStep
<1> QED
  BY <1>1, <1>2, PTL DEF Spec

\* Type correctness (TypeOK), for any clocks and any width of a Duration.
THEOREM TypeCorrect == Spec => []TypeOK
  BY TableInvariant, PTL DEF TableInv

\* No two rows with one hash (OneRowPerHash), however many servers start or
\* issue at the same time.
THEOREM RowsApart == Spec => []OneRowPerHash
  BY TableInvariant, PTL DEF TableInv

\* The first revocation stands (FirstRevocationStands), against
\* authentications under way, second revocations and restarts.
THEOREM RevocationStands == Spec => FirstRevocationStands
<1> DEFINE Kept ==
        \A id \in Stored :
            tokens[id].revoked # None =>
                id \in Stored' /\ tokens'[id].revoked = tokens[id].revoked
<1>1. TableInv /\ [Next]_vars => [Kept]_vars
  BY TableInvStep DEF TableGrows, RowStays, Stored
<1> QED
  BY <1>1, TableInvariant, PTL DEF Spec, FirstRevocationStands
-----------------------------------------------------------------------------
(* Authentication. *)

LEMMA ClockForward ==
    ASSUME TypeOK, [Next]_vars
    PROVE  clock' \in Nat /\ clock <= clock'
<1>1. clock' = clock \/ clock' = clock + 1
  BY DEF Next, Server, Request, BootRead, BootCreate, BootError, Down, Arrive,
     ReadToken, ReadNone, Check, Touch, TouchError, Serve, Issue, IssueError,
     Revoke, RevokeUpdate, RevokeCount, RequestError, Tick, vars
<1> QED
  BY <1>1 DEF TypeOK

\* What is dead stays dead, in hand and in the table.
LEMMA DeadForward ==
    ASSUME NEW t, NEW u, NEW now \in Int, NEW later \in Int, now <= later,
           t.expires \in Int \cup {None}, u.expires = t.expires,
           t.revoked # None => u.revoked = t.revoked,
           DeadRow(t, now)
    PROVE  DeadRow(u, later)
  BY DEF DeadRow, Expired

LEMMA DeadStays ==
    ASSUME TypeOK, TableGrows, [Next]_vars, NEW h, NEW i \in Instances, Dead(h, i)
    PROVE  Dead(h, i)'
<1>1. PICK id \in Stored : tokens[id].hash = h /\ DeadRow(tokens[id], Now(i))
  BY DEF Dead, DeadRow
<1>2. Now(i) \in Int /\ Now(i)' \in Int /\ Now(i) <= Now(i)'
  BY ClockForward, TokensAssumption DEF Now, TypeOK
<1>3. tokens[id].expires \in Int \cup {None}
  BY DEF TypeOK, Stored, TokenRow
<1>4. RowStays(id) /\ id \in Stored'
  BY DEF TableGrows, RowStays, Stored
<1>5. DeadRow(tokens'[id], Now(i)')
  BY <1>1, <1>2, <1>3, <1>4, DeadForward DEF RowStays
<1> QED
  BY <1>1, <1>4, <1>5 DEF Dead, DeadRow, RowStays

\* A late request that does not move is as late as before.
LEMMA LateWaits ==
    ASSUME TypeOK, TableGrows, LateFindsDead, [Next]_vars,
           NEW r \in late, phase'[r] = phase[r],
           presented'[r] = presented[r], row'[r] = row[r],
           phase[r] = "found" => row[r] # None
    PROVE  /\ phase'[r] \notin Passed \cup {"new"}
           /\ phase'[r] = "arrived" => Dead(presented[r], InstOf[r])'
           /\ phase'[r] = "found" => DeadRow(row'[r], Now(InstOf[r])')
<1>1. r \in Requests /\ InstOf[r] \in Instances
  BY TokensAssumption DEF TypeOK
<1>2. ASSUME phase[r] = "found"
      PROVE  DeadRow(row'[r], Now(InstOf[r])')
  <2>1. DeadRow(row[r], Now(InstOf[r]))
    BY <1>2 DEF LateFindsDead
  <2>2. row[r].expires \in Int \cup {None}
    BY <1>1, <1>2 DEF TypeOK, TokenRow
  <2>3. /\ Now(InstOf[r]) \in Int /\ Now(InstOf[r])' \in Int
        /\ Now(InstOf[r]) <= Now(InstOf[r])'
    BY <1>1, ClockForward, TokensAssumption DEF Now, TypeOK
  <2> QED
    BY <2>1, <2>2, <2>3, DeadForward
<1>3. ASSUME phase[r] = "arrived"
      PROVE  Dead(presented[r], InstOf[r])'
  BY <1>1, <1>3, DeadStays DEF LateFindsDead
<1> QED
  BY <1>2, <1>3 DEF LateFindsDead
LEMMA LateStep == TableInv /\ LateFindsDead /\ [Next]_vars => LateFindsDead'
<1> SUFFICES ASSUME TableInv, LateFindsDead, [Next]_vars, NEW q \in late'
             PROVE  /\ phase'[q] \notin Passed \cup {"new"}
                    /\ phase'[q] = "arrived" => Dead(presented[q], InstOf[q])'
                    /\ phase'[q] = "found" => DeadRow(row'[q], Now(InstOf[q])')
    BY DEF LateFindsDead
<1> DEFINE Goal == /\ phase'[q] \notin Passed \cup {"new"}
                   /\ phase'[q] = "arrived" => Dead(presented[q], InstOf[q])'
                   /\ phase'[q] = "found" => DeadRow(row'[q], Now(InstOf[q])')
<1>1. TypeOK /\ RowRead /\ OneRowPerHash /\ TableGrows
  BY TableInvStep DEF TableInv
<1>2. q \in Requests
  BY <1>1, TypeStep DEF TypeOK
<1>3. ASSUME q \in late, phase'[q] = phase[q], presented'[q] = presented[q],
             row'[q] = row[q]
      PROVE  Goal
  <2>1. phase[q] = "found" => row[q] # None
    BY <1>1, <1>2 DEF RowRead
  <2> QED
    BY <1>1, <1>3, <2>1, LateWaits
<1>4. ASSUME phase'[q] \in Answered \ {"ok", "notfound"}
      PROVE  Goal
  BY <1>4 DEF Answered, Passed
<1>5. ASSUME NEW i \in Instances, Server(i)
      PROVE  Goal
  <2>1. CASE BootRead(i) \/ BootCreate(i) \/ BootError(i)
    BY <1>3, <2>1 DEF BootRead, BootCreate, BootError, reqVars
  <2>2. CASE Down(i)
    <3>1. phase'[q] = phase[q] \/ phase'[q] = "failed"
      BY <1>1, <1>2, <2>2 DEF Down, TypeOK
    <3> QED
      BY <1>3, <1>4, <2>2, <3>1 DEF Down, Answered
  <2> QED
    BY <1>5, <2>1, <2>2 DEF Server
<1>6. ASSUME NEW r \in Requests, Request(r)
      PROVE  Goal
  <2>1. CASE q # r
    BY <1>1, <1>2, <1>3, <1>6, <2>1 DEF Request, Arrive, ReadToken, ReadNone, Check,
       Touch, TouchError, Serve, Issue, IssueError, Revoke, RevokeUpdate,
       RevokeCount, RequestError, Goto, TypeOK
  <2>2. CASE q = r /\ Arrive(r)
    <3>1. presented'[q] \in Hashes /\ (q \notin late => Dead(presented'[q], InstOf[q]))
      BY <1>1, <1>2, <2>2 DEF Arrive, TypeOK
    <3>2. q \notin late
      BY <1>1, <2>2 DEF LateFindsDead, Arrive, Goto
    <3>3. Dead(presented[q], InstOf[q])'
      <4>1. PICK id \in Stored :
              /\ tokens[id].hash = presented'[q]
              /\ tokens[id].revoked # None \/ Expired(tokens[id], Now(InstOf[q]))
        BY <3>1, <3>2 DEF Dead
      <4>2. tokens' = tokens /\ clock' = clock
        BY <2>2 DEF Arrive
      <4> QED
        BY <4>1, <4>2 DEF Dead, Stored, Now, Expired
    <3>4. phase'[q] = "arrived"
      BY <1>1, <2>2 DEF Arrive, Goto, TypeOK
    <3> QED
      BY <3>3, <3>4 DEF Passed
  <2>3. CASE q = r /\ ReadToken(r)
    <3>1. q \in late /\ Dead(presented[q], InstOf[q])
      BY <2>3 DEF ReadToken, Goto, LateFindsDead
    <3>2. PICK id \in Stored :
            tokens[id].hash = presented[q] /\ DeadRow(tokens[id], Now(InstOf[q]))
      BY <3>1 DEF Dead, DeadRow
    <3>3. row'[q] = tokens[id]
      BY <1>1, <1>2, <2>3, <3>2 DEF ReadToken, OneRowPerHash, TypeOK
    <3>4. clock' = clock /\ phase'[q] = "found"
      BY <1>1, <1>2, <2>3 DEF ReadToken, Goto, TypeOK
    <3> QED
      BY <3>2, <3>3, <3>4 DEF Passed, DeadRow, Now, Expired
  <2>4. CASE q = r /\ Check(r)
    <3>1. DeadRow(row[q], Now(InstOf[q]))
      BY <2>4 DEF Check, Goto, LateFindsDead
    <3>2. phase'[q] = "denied"
      BY <1>1, <1>2, <2>4, <3>1 DEF Check, Goto, TypeOK, Active, DeadRow
    <3> QED
      BY <1>4, <3>2 DEF Answered
  <2>5. CASE q = r /\ (ReadNone(r) \/ RequestError(r))
    BY <1>1, <1>2, <1>4, <2>5 DEF ReadNone, RequestError, Goto, TypeOK, Answered
  <2>6. CASE q = r /\ (\/ Touch(r) \/ TouchError(r) \/ Serve(r) \/ Issue(r)
                       \/ IssueError(r) \/ Revoke(r) \/ RevokeUpdate(r)
                       \/ RevokeCount(r))
    <3>1. phase[q] \in Passed
      BY <2>6 DEF Touch, TouchError, Serve, Issue, IssueError, Revoke, RevokeUpdate,
                  RevokeCount, Goto, Passed
    <3>2. late' = late
      BY <2>6 DEF Touch, TouchError, Serve, Issue, IssueError, Revoke, RevokeUpdate,
                  RevokeCount
    <3> QED
      BY <3>1, <3>2 DEF LateFindsDead
  <2> QED
    BY <1>6, <2>1, <2>2, <2>3, <2>4, <2>5, <2>6 DEF Request
<1>7. CASE Tick
  BY <1>3, <1>7 DEF Tick, reqVars
<1>8. CASE UNCHANGED vars
  BY <1>3, <1>8 DEF vars
<1> QED
  BY <1>5, <1>6, <1>7, <1>8 DEF Next

\* A dead token lets no request pass that arrives afterwards
\* (DeadTokenNeverPasses), at any server and whatever its clock says.
THEOREM NoLatePass == Spec => []DeadTokenNeverPasses
<1>1. Init => LateFindsDead
  BY DEF Init, LateFindsDead
<1>2. TableInv /\ LateFindsDead /\ [Next]_vars => LateFindsDead'
  BY LateStep
<1>3. LateFindsDead => DeadTokenNeverPasses
  BY DEF LateFindsDead, DeadTokenNeverPasses
<1> QED
  BY <1>1, <1>2, <1>3, TableInvariant, PTL DEF Spec

-----------------------------------------------------------------------------
(* Revocation and start. *)

\* The row of an answered revocation is in the table and stays revoked; the
\* UPDATE that affects nothing, and the COUNT after it, see tokens that are
\* revoked or unknown.
CountFindsRevoked ==
    \A r \in Requests :
        phase[r] = "counting" /\ target[r] \in Stored => tokens[target[r]].revoked # None

\* The targets of requests are fixed once the revocation has begun: a token
\* that is not in the table is none of any.
TargetKnown ==
    \A r \in Requests :
        phase[r] \in {"revoking", "counting"} => target[r] \in Stored \cup {None}

RevokeInv == TableInv /\ TargetKnown /\ CountFindsRevoked /\ RevokeAnswerHolds

LEMMA RevokeStep == RevokeInv /\ [Next]_vars => RevokeInv'
<1> SUFFICES ASSUME RevokeInv, [Next]_vars
             PROVE  TargetKnown' /\ CountFindsRevoked' /\ RevokeAnswerHolds'
    BY TableInvStep DEF RevokeInv
<1> DEFINE Revoked(r) == target[r] \in Stored /\ tokens[target[r]].revoked # None
           Goal(q) == /\ phase'[q] \in {"revoking", "counting"} =>
                            target'[q] \in Stored' \cup {None}
                      /\ phase'[q] = "counting" /\ target'[q] \in Stored' => Revoked(q)'
                      /\ op'[q] = "revoke" /\ phase'[q] = "ok" => Revoked(q)'
<1> SUFFICES ASSUME NEW q \in Requests
             PROVE  Goal(q)
    BY DEF TargetKnown, CountFindsRevoked, RevokeAnswerHolds
<1>1. TypeOK /\ TableGrows /\ TypeOK'
  BY TableInvStep DEF RevokeInv, TableInv
<1>2. ASSUME NEW id \in Stored
      PROVE  /\ id \in Stored'
             /\ tokens[id].revoked # None => tokens'[id].revoked # None
  BY <1>1 DEF TableGrows, RowStays, Stored
<1>3. None \notin Stored /\ None \notin Stored'
  BY TokensAssumption DEF Stored
<1>4. ASSUME phase'[q] = phase[q], target'[q] = target[q], op'[q] = op[q]
      PROVE  Goal(q)
  BY <1>2, <1>3, <1>4 DEF RevokeInv, TargetKnown, CountFindsRevoked, RevokeAnswerHolds
<1>5. ASSUME phase'[q] \notin {"revoking", "counting", "ok"}
      PROVE  Goal(q)
  BY <1>5
<1>6. ASSUME NEW i \in Instances, Server(i)
      PROVE  Goal(q)
  <2>1. CASE BootRead(i) \/ BootCreate(i) \/ BootError(i)
    BY <1>4, <2>1 DEF BootRead, BootCreate, BootError, reqVars
  <2>2. CASE Down(i)
    <3>1. phase'[q] = phase[q] \/ phase'[q] = "failed"
      BY <1>1, <2>2 DEF Down, TypeOK
    <3> QED
      BY <1>4, <1>5, <2>2, <3>1 DEF Down
  <2> QED
    BY <1>6, <2>1, <2>2 DEF Server
<1>7. ASSUME NEW r \in Requests, Request(r)
      PROVE  Goal(q)
  <2>1. CASE q # r
    <3>1. phase'[q] = phase[q] /\ target'[q] = target[q] /\ op'[q] = op[q]
      BY <1>1, <1>7, <2>1 DEF Request, Arrive, ReadToken, ReadNone, Check, Touch,
         TouchError, Serve, Issue, IssueError, Revoke, RevokeUpdate, RevokeCount,
         RequestError, Goto, TypeOK
    <3> QED
      BY <1>4, <3>1
  <2>2. CASE q = r /\ (\/ Arrive(r) \/ ReadToken(r) \/ ReadNone(r) \/ Check(r)
                       \/ Touch(r) \/ TouchError(r) \/ IssueError(r)
                       \/ RequestError(r))
    BY <1>1, <1>5, <2>2 DEF Arrive, ReadToken, ReadNone, Check, Touch, TouchError,
       IssueError, RequestError, Goto, TypeOK
  <2>3. CASE q = r /\ (Serve(r) \/ Issue(r))
    BY <1>1, <2>3 DEF Serve, Issue, Goto, TypeOK
  <2>4. CASE q = r /\ Revoke(r)
    BY <1>1, <2>4 DEF Revoke, Goto, TypeOK, Stored
  <2>5. CASE q = r /\ RevokeUpdate(r)
    <3>1. CASE Goto(r, "revoking", "ok") /\ \E id \in Hits(r) :
                  tokens' = [tokens EXCEPT ![id].revoked = at[r]]
      <4>1. target[q] \in Stored /\ target'[q] = target[q]
        BY <2>5, <3>1 DEF Hits, RevokeUpdate
      <4>2. tokens'[target[q]] = [tokens[target[q]] EXCEPT !.revoked = at[q]]
        BY <1>1, <2>5, <3>1 DEF Hits, TypeOK
      <4>3. tokens[target[q]] \in TokenRow
        BY <1>1, <4>1 DEF TypeOK, Stored
      <4>4. tokens'[target[q]].revoked = at[q] /\ at[q] # None
        BY <1>1, <4>2, <4>3, TokensAssumption DEF TokenRow, TypeOK
      <4>5. phase'[q] = "ok"
        BY <1>1, <2>5, <3>1 DEF Goto, TypeOK
      <4> QED
        BY <1>2, <4>1, <4>4, <4>5
    <3>2. CASE /\ Goto(r, "revoking", "counting")
               /\ Hits(r) = {}
               /\ UNCHANGED tokens
      <4>1. /\ target'[q] = target[q] /\ tokens' = tokens
            /\ phase[q] = "revoking" /\ phase'[q] = "counting"
        BY <1>1, <2>5, <3>2 DEF Goto, TypeOK, RevokeUpdate
      <4>2. target[q] \in Stored => tokens[target[q]].revoked # None
        BY <2>5, <3>2 DEF Hits
      <4> QED
        BY <4>1, <4>2 DEF RevokeInv, TargetKnown, Stored
    <3> QED
      BY <2>5, <3>1, <3>2 DEF RevokeUpdate
  <2>6. CASE q = r /\ RevokeCount(r)
    <3>1. /\ target'[q] = target[q] /\ tokens' = tokens /\ phase[q] = "counting"
          /\ phase'[q] = IF target[q] \in Stored THEN "ok" ELSE "notfound"
      BY <1>1, <2>6 DEF Goto, TypeOK, RevokeCount
    <3> QED
      BY <3>1 DEF RevokeInv, CountFindsRevoked, Stored
  <2> QED
    BY <1>7, <2>1, <2>2, <2>3, <2>4, <2>5, <2>6 DEF Request
<1>8. CASE Tick
  BY <1>4, <1>8 DEF Tick, reqVars
<1>9. CASE UNCHANGED vars
  BY <1>4, <1>9 DEF vars
<1> QED
  BY <1>6, <1>7, <1>8, <1>9 DEF Next

\* A revocation that was answered with success holds (RevokeAnswerHolds),
\* whichever request carried it out.
THEOREM RevokeHolds == Spec => []RevokeAnswerHolds
<1>1. Init => RevokeInv
  BY TableInvInit DEF Init, RevokeInv, TargetKnown, CountFindsRevoked, RevokeAnswerHolds
<1>2. RevokeInv /\ [Next]_vars => RevokeInv'
  BY RevokeStep
<1>3. RevokeInv => RevokeAnswerHolds
  BY DEF RevokeInv
<1> QED
  BY <1>1, <1>2, <1>3, PTL DEF Spec

LEMMA BootstrapStep ==
    ASSUME TypeOK, TableGrows, BootstrapSettles, [Next]_vars
    PROVE  BootstrapSettles'
<1>1. \A id \in Stored : id \in Stored' /\ tokens'[id].hash = tokens[id].hash
  BY DEF TableGrows, RowStays, Stored
<1>2. faults' \in Nat /\ faults <= faults'
  <2>1. faults' = faults \/ faults' = faults + 1
    BY DEF Next, Server, Request, BootRead, BootCreate, BootError, Down, Arrive,
       ReadToken, ReadNone, Check, Touch, TouchError, Serve, Issue, IssueError,
       Revoke, RevokeUpdate, RevokeCount, RequestError, Tick, vars, Fault
  <2> QED
    BY <2>1 DEF TypeOK
<1>3. ASSUME proc' = proc
      PROVE  BootstrapSettles'
  BY <1>1, <1>2, <1>3 DEF BootstrapSettles, TypeOK
<1>4. ASSUME NEW i \in Instances, Server(i)
      PROVE  BootstrapSettles'
  <2>1. ASSUME NEW j \in Boots, j # i
        PROVE  /\ proc'[j] = "failed" => faults' > 0
               /\ proc'[j] = "up" => \E id \in Stored' : tokens'[id].hash = BootHash
    <3>1. proc'[j] = proc[j]
      BY <1>4, <2>1, TokensAssumption DEF TypeOK, Server, BootRead, BootCreate,
         BootError, Down
    <3> QED
      BY <1>1, <1>2, <3>1 DEF BootstrapSettles, TypeOK
  <2>2. ASSUME i \in Boots, proc'[i] = "failed"
        PROVE  faults' > 0
    BY <1>4, <2>2 DEF TypeOK, Server, BootRead, BootCreate, BootError, Down, Fault
  <2>3. ASSUME i \in Boots, proc'[i] = "up"
        PROVE  \E id \in Stored' : tokens'[id].hash = BootHash
    <3>1. CASE BootRead(i)
      BY <1>1, <2>3, <3>1 DEF TypeOK, BootRead
    <3>2. CASE BootCreate(i) /\ \E id \in Stored : tokens[id].hash = BootHash
      BY <1>1, <3>2
    <3>3. CASE BootCreate(i) /\ \A id \in Stored : tokens[id].hash # BootHash
      <4>1. PICK id \in Ids \ Stored :
              tokens' = [tokens EXCEPT ![id] = NewRow(BootHash, "admin", Now(i), None)]
        BY <3>3 DEF BootCreate
      <4> DEFINE t == NewRow(BootHash, "admin", Now(i), None)
      <4>2. t.hash = BootHash /\ t # None
        BY NowInt, NewRowType DEF TypeOK, Hashes
      <4> HIDE DEF t
      <4>3. tokens'[id] = t
        BY <4>1 DEF TypeOK, t
      <4> QED
        BY <4>2, <4>3 DEF Stored
    <3>4. CASE BootError(i) \/ Down(i)
      BY <2>3, <3>4 DEF TypeOK, BootError, Down
    <3> QED
      BY <1>4, <3>1, <3>2, <3>3, <3>4 DEF Server
  <2> QED
    BY <2>1, <2>2, <2>3 DEF BootstrapSettles
<1>5. ASSUME NEW r \in Requests, Request(r)
      PROVE  proc' = proc
  BY <1>5 DEF Request, Arrive, ReadToken, ReadNone, Check, Touch, TouchError, Serve,
     Issue, IssueError, Revoke, RevokeUpdate, RevokeCount, RequestError
<1> QED
  BY <1>3, <1>4, <1>5 DEF Next, Tick, vars

\* Starting servers do not get into each other's way, and a server that is
\* up has its bootstrap token in the table (BootstrapSettles).
THEOREM BootstrapHolds == Spec => []BootstrapSettles
<1>1. Init => BootstrapSettles
  BY TokensAssumption DEF Init, BootstrapSettles
<1>2. TableInv /\ BootstrapSettles /\ [Next]_vars => BootstrapSettles'
  BY TableInvStep, BootstrapStep DEF TableInv
<1> QED
  BY <1>1, <1>2, TableInvariant, PTL DEF Spec
=============================================================================
