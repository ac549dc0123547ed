--------------------------- MODULE RunInput_proofs ---------------------------
(***************************************************************************)
(* Proofs about what runs work with (RunInput), for any settings, values   *)
(* and validators, any number of administrators, any retries, look-back    *)
(* and dates.                                                              *)
(*                                                                         *)
(* Three invariants, one per part: the settings (SettingsInv), the         *)
(* download (DownloadInv) and the run that joins them (RunInv).  At the    *)
(* end, what a run has still to do (RunsAreFinite).                        *)
(***************************************************************************)
EXTENDS RunInput, TLAPS

\* An update at work was accepted as a whole.
WorkingAccepted ==
    \A r \in Requests :
        req[r].pc = "working" =>
            ~Refused(req[r].in) /\ req[r].todo \subseteq Touched(req[r].in)

\* What the last writer of a key wrote is in the table until it is answered.
WritesStand ==
    \A k \in Keys :
        writer[k] # Nobody =>
            /\ req[writer[k]].pc = "working"
            /\ k \in Touched(req[writer[k]].in)
            /\ overrides[k] = Stores(req[writer[k]].in, k)

\* What was answered last holds until the next write.
ShownHolds == \A k \in Keys : shown[k] \in {Unset, Effective(overrides)[k]}

SettingsInv == SettingsTypeOK /\ WorkingAccepted /\ WritesStand /\ ShownHolds

\* The action of AnswerShowsOwnWrites.
ShowsOwnWrites ==
    \A k \in Keys :
        shown[k] = Unset /\ shown'[k] # Unset =>
            shown'[k] = Asked(req[writer[k]].in, k)

-----------------------------------------------------------------------------
(* Settings. *)

Table == [Keys -> Values \cup {Absent}]

\* resolve answers values that a validator accepts or the environment set.
LEMMA EffectiveValues ==
    ASSUME NEW t \in Table
    PROVE  /\ Effective(t) \in [Keys -> Values]
           /\ \A k \in Keys : Effective(t)[k] \in Accepted[k] \cup {Default[k]}
BY SettingsAssumption DEF Table, Effective, Overridden, Valid

\* resolve looks at each key on its own.
LEMMA EffectiveOfKey ==
    ASSUME NEW t, NEW u, NEW k \in Keys, t[k] = u[k]
    PROVE  Effective(t)[k] = Effective(u)[k]
BY DEF Effective, Overridden

\* What an accepted update stores for a key, resolve reads as what was asked.
LEMMA StoredIsAsked ==
    ASSUME NEW t \in Table, NEW u \in Update, NEW k \in Keys,
           ~Refused(u), k \in Touched(u), t[k] = Stores(u, k)
    PROVE  Effective(t)[k] = Asked(u, k)
<1>1. CASE Stores(u, k) = Absent
  BY <1>1 DEF Effective, Overridden, Asked
<1>2. CASE Stores(u, k) # Absent
  <2>1. u.set[k] # Unset /\ u.set[k] \in Values /\ Stores(u, k) = Trim[u.set[k]]
    BY <1>2 DEF Stores, Update
  <2>2. Valid(k, Stores(u, k))
    BY <2>1, SettingsAssumption DEF Refused, Valid
  <2>3. Trim[Stores(u, k)] = Stores(u, k)
    BY <2>1, SettingsAssumption
  <2> QED
    BY <1>2, <2>2, <2>3 DEF Effective, Overridden, Asked
<1> QED
  BY <1>1, <1>2

LEMMA StoresValue ==
    ASSUME NEW u \in Update, NEW k \in Keys
    PROVE  Stores(u, k) \in Values \cup {Absent}
BY SettingsAssumption DEF Stores, Update

LEMMA EmptyUpdate == Empty \in Update /\ ~Refused(Empty)
<1>1. Empty.set \in [Keys -> Values \cup {Unset}] /\ Empty.reset = {}
  BY DEF Empty
<1> QED
  BY <1>1 DEF Empty, Update, Refused

LEMMA SettingsStart ==
    ASSUME SettingsInit
    PROVE  SettingsInv
<1> USE DEF SettingsInit
<1>1. SettingsTypeOK
  BY EmptyUpdate, SettingsAssumption DEF SettingsTypeOK, Idle
<1>2. WorkingAccepted
  BY DEF WorkingAccepted, Idle
<1>3. WritesStand /\ ShownHolds
  BY DEF WritesStand, ShownHolds
<1> QED
  BY <1>1, <1>2, <1>3 DEF SettingsInv

\* A step of a request or of the client behind it keeps SettingsInv, and its
\* answer shows what was asked.
LEMMA SettingsStep ==
    ASSUME SettingsInv, SettingsNext
    PROVE  SettingsInv' /\ ShowsOwnWrites
<1> USE DEF SettingsInv
<1>1. ASSUME NEW r \in Requests, NEW u \in Update, Put(r, u)
      PROVE  SettingsInv' /\ ShowsOwnWrites
  <2> USE <1>1
  <2>1. UNCHANGED <<overrides, writer, shown>>
    BY DEF Put
  <2>2. CASE Refused(u)
    <3>1. UNCHANGED req
      BY <2>2 DEF Put
    <3> QED
      BY <2>1, <3>1 DEF SettingsTypeOK, WorkingAccepted, WritesStand, ShownHolds,
                        ShowsOwnWrites
  <2>3. CASE ~Refused(u)
    <3>1. /\ req[r].pc = "idle"
          /\ req' = [req EXCEPT ![r] =
                        [pc |-> "working", in |-> u, todo |-> Touched(u)]]
      BY <2>3 DEF Put
    <3>2. Touched(u) \subseteq Keys
      BY DEF Touched
    <3>3. SettingsTypeOK'
      BY <2>1, <3>1, <3>2 DEF SettingsTypeOK
    <3>4. WorkingAccepted'
      BY <2>3, <3>1 DEF SettingsTypeOK, WorkingAccepted
    <3>5. WritesStand'
      BY <2>1, <3>1 DEF SettingsTypeOK, WritesStand
    <3> QED
      BY <2>1, <3>3, <3>4, <3>5 DEF ShownHolds, ShowsOwnWrites
  <2> QED
    BY <2>2, <2>3
<1>2. ASSUME NEW r \in Requests, NEW k \in Keys, Write(r, k)
      PROVE  SettingsInv' /\ ShowsOwnWrites
  <2> USE <1>2
  <2>1. /\ req[r].pc = "working" /\ k \in req[r].todo
        /\ overrides' = [overrides EXCEPT ![k] = Stores(req[r].in, k)]
        /\ writer' = [writer EXCEPT ![k] = r]
        /\ shown' = [shown EXCEPT ![k] = Unset]
        /\ req' = [req EXCEPT ![r].todo = @ \ {k}]
    BY DEF Write, IsNext
  <2>2. req[r].in \in Update /\ k \in Touched(req[r].in)
    BY <2>1 DEF SettingsTypeOK, WorkingAccepted
  <2>3. Stores(req[r].in, k) \in Values \cup {Absent}
    BY <2>2, StoresValue
  <2>4. SettingsTypeOK'
    BY <2>1, <2>3 DEF SettingsTypeOK
  <2>5. WorkingAccepted'
    BY <2>1 DEF SettingsTypeOK, WorkingAccepted
  <2>6. WritesStand'
    BY <2>1, <2>2, SettingsAssumption DEF SettingsTypeOK, WritesStand
  <2>7. ASSUME NEW j \in Keys PROVE shown'[j] \in {Unset, Effective(overrides')[j]}
    <3>1. CASE j = k
      BY <2>1, <3>1 DEF SettingsTypeOK
    <3>2. CASE j # k
      <4>1. shown'[j] = shown[j] /\ overrides'[j] = overrides[j]
        BY <2>1, <3>2 DEF SettingsTypeOK
      <4> QED
        BY <4>1, EffectiveOfKey DEF ShownHolds
    <3> QED
      BY <3>1, <3>2
  <2>8. ShowsOwnWrites
    BY <2>1 DEF SettingsTypeOK, ShowsOwnWrites
  <2> QED
    BY <2>4, <2>5, <2>6, <2>7, <2>8 DEF ShownHolds
<1>3. ASSUME NEW r \in Requests, NEW k \in Keys, WriteFails(r, k)
      PROVE  SettingsInv' /\ ShowsOwnWrites
  <2> USE <1>3
  <2>1. /\ req[r].pc = "working" /\ k \in req[r].todo
        /\ req' = [req EXCEPT ![r] = Idle]
    BY DEF WriteFails, IsNext, Over
  <2>2. req[r].in \in Update /\ k \in Touched(req[r].in)
    BY <2>1 DEF SettingsTypeOK, WorkingAccepted
  <2>3. Stores(req[r].in, k) \in Values \cup {Absent}
    BY <2>2, StoresValue
  <2>4. Idle \in [pc : {"idle", "working"}, in : Update, todo : SUBSET Keys]
    BY EmptyUpdate DEF Idle
  <2>5. WorkingAccepted'
    BY <2>1 DEF SettingsTypeOK, WorkingAccepted, Idle
  <2>6. \A j \in Keys : writer'[j] = Nobody \/ (writer'[j] = writer[j] /\ writer[j] # r)
    BY DEF WriteFails, Unanswered, SettingsTypeOK
  <2>7. writer' \in [Keys -> Requests \cup {Nobody}]
    BY DEF WriteFails, Unanswered, SettingsTypeOK
  <2>8. CASE UNCHANGED <<overrides, shown>>
    <3>1. SettingsTypeOK'
      BY <2>1, <2>4, <2>7, <2>8 DEF SettingsTypeOK
    <3>2. WritesStand'
      BY <2>1, <2>6, <2>8 DEF SettingsTypeOK, WritesStand
    <3> QED
      BY <2>5, <2>8, <3>1, <3>2 DEF ShownHolds, ShowsOwnWrites
  <2>9. CASE /\ overrides' = [overrides EXCEPT ![k] = Stores(req[r].in, k)]
             /\ writer' = [Unanswered(r) EXCEPT ![k] = Nobody]
             /\ shown' = [shown EXCEPT ![k] = Unset]
    <3>1. SettingsTypeOK'
      BY <2>1, <2>3, <2>4, <2>7, <2>9 DEF SettingsTypeOK
    <3>2. writer'[k] = Nobody
      BY <2>9 DEF Unanswered
    <3>3. \A j \in Keys \ {k} : overrides'[j] = overrides[j] /\ shown'[j] = shown[j]
      BY <2>9 DEF SettingsTypeOK
    <3>4. WritesStand'
      BY <2>1, <2>6, <3>2, <3>3 DEF SettingsTypeOK, WritesStand
    <3>5. shown'[k] = Unset
      BY <2>9 DEF SettingsTypeOK
    <3>6. ShownHolds'
      BY <3>3, <3>5, EffectiveOfKey DEF ShownHolds
    <3>7. ShowsOwnWrites
      BY <3>3, <3>5 DEF ShowsOwnWrites
    <3> QED
      BY <2>5, <3>1, <3>4, <3>6, <3>7
  <2> QED
    BY <2>8, <2>9 DEF WriteFails
<1>4. ASSUME NEW r \in Requests, Answer(r)
      PROVE  SettingsInv' /\ ShowsOwnWrites
  <2> USE <1>4
  <2>1. /\ req' = [req EXCEPT ![r] = Idle]
        /\ shown' = [k \in Keys |-> IF writer[k] = r THEN Effective(overrides)[k]
                                    ELSE shown[k]]
        /\ writer' = [k \in Keys |-> IF writer[k] = r THEN Nobody ELSE writer[k]]
        /\ overrides' = overrides
    BY DEF Answer, Over, Unanswered
  <2>2. Effective(overrides) \in [Keys -> Values]
    BY EffectiveValues DEF SettingsTypeOK, Table
  <2>3. SettingsTypeOK'
    BY <2>1, <2>2, EmptyUpdate DEF SettingsTypeOK, Idle
  <2>4. WorkingAccepted'
    BY <2>1 DEF SettingsTypeOK, WorkingAccepted, Idle
  <2>5. WritesStand'
    BY <2>1, SettingsAssumption DEF SettingsTypeOK, WritesStand
  <2>6. ShownHolds'
    BY <2>1 DEF ShownHolds
  <2>7. ASSUME NEW k \in Keys, shown[k] = Unset, shown'[k] # Unset
        PROVE  shown'[k] = Asked(req[writer[k]].in, k)
    <3>1. writer[k] = r /\ shown'[k] = Effective(overrides)[k]
      BY <2>1, <2>7
    <3>2. /\ req[r].pc = "working" /\ req[r].in \in Update
          /\ k \in Touched(req[r].in) /\ overrides[k] = Stores(req[r].in, k)
      BY <3>1, SettingsAssumption DEF SettingsTypeOK, WritesStand
    <3>3. ~Refused(req[r].in)
      BY <3>2 DEF WorkingAccepted
    <3>4. overrides \in Table
      BY DEF SettingsTypeOK, Table
    <3> QED
      BY <3>1, <3>2, <3>3, <3>4, StoredIsAsked
  <2> QED
    BY <2>3, <2>4, <2>5, <2>6, <2>7 DEF ShowsOwnWrites
<1>5. ASSUME NEW r \in Requests, AnswerFails(r)
      PROVE  SettingsInv' /\ ShowsOwnWrites
  <2> USE <1>5
  <2>1. /\ req' = [req EXCEPT ![r] = Idle]
        /\ writer' = [k \in Keys |-> IF writer[k] = r THEN Nobody ELSE writer[k]]
        /\ UNCHANGED <<overrides, shown>>
    BY DEF AnswerFails, Over, Unanswered
  <2>2. SettingsTypeOK'
    BY <2>1, EmptyUpdate DEF SettingsTypeOK, Idle
  <2>3. WorkingAccepted'
    BY <2>1 DEF SettingsTypeOK, WorkingAccepted, Idle
  <2>4. WritesStand'
    BY <2>1, SettingsAssumption DEF SettingsTypeOK, WritesStand
  <2> QED
    BY <2>1, <2>2, <2>3, <2>4 DEF ShownHolds, ShowsOwnWrites
<1>6. Empty \in Update /\ Updates \subseteq Update
  BY EmptyUpdate, SettingsAssumption
<1> QED
  BY <1>1, <1>2, <1>3, <1>4, <1>5, <1>6 DEF SettingsNext, Get, RequestStep

\* Whoever leaves the settings alone keeps SettingsInv.
LEMMA SettingsLeft ==
    ASSUME SettingsInv, UNCHANGED settingsVars
    PROVE  SettingsInv' /\ ShowsOwnWrites
BY DEF settingsVars, SettingsInv, SettingsTypeOK, WorkingAccepted, WritesStand,
       ShownHolds, ShowsOwnWrites

-----------------------------------------------------------------------------
(* The download. *)

\* While a call of Fetch goes on, its log holds one fault for each attempt made.
FetchCounts ==
    LET n == Len(fetch.log)
    IN  /\ fetch.pc = "request" => n = fetch.attempt /\ fetch.attempt <= fetch.limit
        /\ fetch.pc = "backoff" => n = fetch.attempt + 1 /\ fetch.attempt < fetch.limit
        /\ fetch.pc # "off" =>
              fetch.result = "none" /\ \A i \in 1..n : fetch.log[i] = "fault"

DownloadInv == DownloadTypeOK /\ FetchCounts /\ FetchKeepsToPolicy

LEMMA NoFetchInv ==
    ASSUME fetch' = NoFetch, cancelled' \in BOOLEAN, maxRetry' \in Retries
    PROVE  DownloadInv'
<1>1. DownloadTypeOK'
  BY DownloaderAssumption DEF DownloadTypeOK, NoFetch, Results
<1>2. FetchCounts' /\ FetchKeepsToPolicy'
  BY DownloaderAssumption DEF FetchCounts, FetchKeepsToPolicy, NoFetch
<1> QED
  BY <1>1, <1>2 DEF DownloadInv

LEMMA FetchFromInv ==
    ASSUME NEW url \in Urls, FetchFrom(url), maxRetry \in Retries,
           cancelled' \in BOOLEAN, maxRetry' \in Retries
    PROVE  DownloadInv'
<1>1. DownloadTypeOK'
  BY DownloaderAssumption DEF DownloadTypeOK, FetchFrom, Results
<1>2. FetchCounts' /\ FetchKeepsToPolicy'
  BY DownloaderAssumption DEF FetchCounts, FetchKeepsToPolicy, FetchFrom
<1> QED
  BY <1>1, <1>2 DEF DownloadInv

LEMMA AttemptInv ==
    ASSUME DownloadInv, fetch.pc = "request", NEW o \in Final \cup {"fault"},
           AfterAttempt(o), UNCHANGED <<maxRetry, cancelled>>
    PROVE  DownloadInv'
<1> USE DEF DownloadInv
<1> DEFINE n == Len(fetch.log)
           ended == o \in Final \/ fetch.attempt = fetch.limit
<1>1. /\ fetch.log \in Seq(Final \cup {"fault"}) /\ n \in Nat /\ n = fetch.attempt
      /\ fetch.limit \in Nat /\ fetch.attempt \in Nat /\ fetch.attempt <= fetch.limit
      /\ \A i \in 1..n : fetch.log[i] = "fault"
  BY DownloaderAssumption DEF DownloadTypeOK, FetchCounts
<1>2. /\ fetch'.log = Append(fetch.log, o)
      /\ fetch'.pc = (IF ended THEN "off" ELSE "backoff")
      /\ fetch'.result = CASE o = "whole" -> "file"
                           [] o = "garbage" -> "unzip"
                           [] o = "notfound" -> "notfound"
                           [] OTHER -> IF ended THEN "error" ELSE "none"
      /\ fetch'.limit = fetch.limit /\ fetch'.attempt = fetch.attempt
      /\ fetch'.url = fetch.url
      /\ fetch' = [fetch EXCEPT !.log = fetch'.log, !.pc = fetch'.pc,
                                !.result = fetch'.result]
  BY DEF AfterAttempt, DownloadTypeOK
<1>3. /\ fetch'.log \in Seq(Final \cup {"fault"}) /\ Len(fetch'.log) = n + 1
      /\ fetch'.log[n + 1] = o /\ \A i \in 1..n : fetch'.log[i] = fetch.log[i]
  BY <1>1, <1>2
<1>4. o \in {"whole", "garbage", "notfound", "fault"}
  BY DEF Final
<1>5. fetch'.pc \in {"off", "backoff"} /\ fetch'.result \in Results
  BY <1>2, <1>4 DEF Results
<1>6. DownloadTypeOK'
  BY <1>2, <1>3, <1>5 DEF DownloadTypeOK
<1>7. FetchCounts'
  <2>1. fetch'.pc = "backoff" => o = "fault" /\ fetch'.result = "none"
    BY <1>2, <1>4 DEF Final
  <2> QED
    BY <1>1, <1>2, <1>3, <1>5, <2>1 DEF FetchCounts
<1>8. FetchKeepsToPolicy'
  <2>1. \A i \in 1..n : fetch'.log[i] \notin Final
    BY <1>1, <1>3 DEF Final
  <2>2. o \in Final => fetch'.pc = "off"
    BY <1>2
  <2>3. /\ fetch'.result = "file" => o = "whole"
        /\ fetch'.result = "unzip" => o = "garbage"
        /\ fetch'.result = "notfound" => o = "notfound"
        /\ fetch'.result = "error" => o = "fault" /\ fetch.attempt = fetch.limit
        /\ fetch'.result # "cancelled"
    BY <1>2, <1>4 DEF Final
  <2> QED
    BY <1>1, <1>2, <1>3, <2>1, <2>2, <2>3 DEF FetchKeepsToPolicy
<1> QED
  BY <1>6, <1>7, <1>8

\* A step of the download keeps DownloadInv, its retries and its file.
LEMMA DownloadStep ==
    ASSUME DownloadInv, Download
    PROVE  /\ DownloadInv'
           /\ UNCHANGED <<maxRetry, cancelled>>
           /\ fetch'.url = fetch.url /\ fetch'.limit = fetch.limit
<1>1. ASSUME NEW o \in Final \cup {"fault"}, fetch.pc = "request", AfterAttempt(o),
             UNCHANGED <<maxRetry, cancelled>>
      PROVE  /\ DownloadInv'
             /\ fetch'.url = fetch.url /\ fetch'.limit = fetch.limit
  <2>1. DownloadInv'
    BY <1>1, AttemptInv
  <2>2. fetch'.url = fetch.url /\ fetch'.limit = fetch.limit
    BY <1>1 DEF AfterAttempt, DownloadInv, DownloadTypeOK
  <2> QED
    BY <2>1, <2>2
<1>2. CASE Elapses
  <2>1. DownloadTypeOK'
    <3>1. fetch.attempt + 1 \in Nat
      BY DEF DownloadInv, DownloadTypeOK
    <3> QED
      BY <1>2, <3>1 DEF DownloadInv, DownloadTypeOK, Elapses
  <2>2. FetchCounts' /\ FetchKeepsToPolicy'
    BY <1>2, DownloaderAssumption
    DEF DownloadInv, DownloadTypeOK, FetchCounts, FetchKeepsToPolicy, Elapses, Final
  <2>3. /\ UNCHANGED <<maxRetry, cancelled>>
        /\ fetch'.url = fetch.url /\ fetch'.limit = fetch.limit
    BY <1>2 DEF DownloadInv, DownloadTypeOK, Elapses
  <2> QED
    BY <2>1, <2>2, <2>3 DEF DownloadInv
<1>3. CASE WaitCancelled
  <2>1. DownloadTypeOK'
    BY <1>3 DEF DownloadInv, DownloadTypeOK, WaitCancelled, Results
  <2>2. FetchCounts' /\ FetchKeepsToPolicy'
    BY <1>3, DownloaderAssumption
    DEF DownloadInv, DownloadTypeOK, FetchCounts, FetchKeepsToPolicy, WaitCancelled,
        Final
  <2>3. /\ UNCHANGED <<maxRetry, cancelled>>
        /\ fetch'.url = fetch.url /\ fetch'.limit = fetch.limit
    BY <1>3 DEF DownloadInv, DownloadTypeOK, WaitCancelled
  <2> QED
    BY <2>1, <2>2, <2>3 DEF DownloadInv
<1> QED
  BY <1>1, <1>2, <1>3 DEF Download, FetchStep, AttemptEnds, Receives, Final

-----------------------------------------------------------------------------
(* The window of months. *)

\* The month that is k months after the first of year 0.
MonthAt(k) == <<(k \div 12) % 100, (k % 12) + 1>>

Follows(m, n) == n = IF m[2] = 12 THEN <<(m[1] + 1) % 100, 1>> ELSE <<m[1], m[2] + 1>>

LEMMA MonthAtType ==
    ASSUME NEW k \in Int
    PROVE  MonthAt(k) \in Months
<1>1. (k \div 12) % 100 \in 0..99 /\ (k % 12) + 1 \in 1..12
  BY SMT
<1> QED
  BY <1>1 DEF MonthAt, Months

LEMMA MonthAtFollows ==
    ASSUME NEW k \in Int
    PROVE  Follows(MonthAt(k), MonthAt(k + 1))
<1>1. CASE k % 12 = 11
  <2>1. (k + 1) % 12 = 0 /\ (k + 1) \div 12 = (k \div 12) + 1
    BY <1>1
  <2>2. \A q \in Int : ((q % 100) + 1) % 100 = (q + 1) % 100
    BY SMT
  <2>3. k \div 12 \in Int
    BY SMT
  <2> QED
    BY <1>1, <2>1, <2>2, <2>3 DEF MonthAt, Follows
<1>2. CASE k % 12 # 11
  <2>1. (k + 1) % 12 = (k % 12) + 1 /\ (k + 1) \div 12 = k \div 12
    BY <1>2
  <2>2. (k % 12) + 1 # 12 /\ k % 12 \in 0..11
    BY <1>2
  <2> QED
    BY <2>1, <2>2 DEF MonthAt, Follows
<1> QED
  BY <1>1, <1>2

\* Going back from the first of a month, no day runs over.
LEMMA MonthsBackFromFirst ==
    ASSUME NEW now \in Dates, NEW i \in Int
    PROVE  YYMM(MonthsBack(FirstOfMonth(now), i)) = MonthAt(now.y * 12 + now.m - 1 - i)
<1> DEFINE k == now.y * 12 + now.m - 1 - i
<1>1. now \in [y : Nat, m : 1..12, d : 1..31]
  BY RunInputAssumption
<1>2. FirstOfMonth(now) = [y |-> now.y, m |-> now.m, d |-> 1]
  BY <1>1 DEF FirstOfMonth
<1>3. \A y, m : 1 <= DaysIn(y, m)
  BY DEF DaysIn
<1>4. \A y, m : Normal(y, m, 1) = [y |-> y, m |-> m, d |-> 1]
  BY <1>3 DEF Normal
<1>5. MonthsBack(FirstOfMonth(now), i) = Normal(k \div 12, (k % 12) + 1, 1)
  BY <1>2 DEF MonthsBack
<1> QED
  BY <1>4, <1>5 DEF YYMM, MonthAt

\* What MonthsAreConsecutive says of a window.
Consecutive(ms, now) ==
    /\ ms[Len(ms)] = YYMM(now)
    /\ \A i \in 1..(Len(ms) - 1) : Follows(ms[i], ms[i + 1])

LEMMA WindowIsConsecutive ==
    ASSUME NEW now \in Dates, lookback \in Nat \ {0}
    PROVE  /\ MonthsWindow(now) \in Seq(Months)
           /\ Len(MonthsWindow(now)) \in Nat \ {0}
           /\ Consecutive(MonthsWindow(now), now)
<1> DEFINE n == WindowSize
           base == now.y * 12 + now.m - 1 - n
           ms == MonthsWindow(now)
<1>1. n \in Nat \ {0}
  BY DEF WindowSize
<1>2. now.y \in Nat /\ now.m \in 1..12
  BY RunInputAssumption
<1>3. base \in Int
  BY <1>1, <1>2
<1>4. \A i \in 1..n : ms[i] = MonthAt(base + i)
  <2> TAKE i \in 1..n
  <2>1. ms[i] = YYMM(MonthsBack(FirstOfMonth(now), n - i))
    BY DEF MonthsWindow
  <2>2. n - i \in Int
    BY <1>1
  <2>3. ms[i] = MonthAt(now.y * 12 + now.m - 1 - (n - i))
    BY <2>1, <2>2, MonthsBackFromFirst
  <2>4. now.y * 12 + now.m - 1 - (n - i) = base + i
    BY <1>1, <1>2
  <2> QED
    BY <2>3, <2>4
<1>5. ms \in Seq(Months) /\ Len(ms) = n
  <2>1. \A i \in 1..n : YYMM(MonthsBack(FirstOfMonth(now), n - i)) \in Months
    BY <1>1, <1>3, <1>4, MonthAtType DEF MonthsWindow
  <2> QED
    BY <1>1, <2>1 DEF MonthsWindow
<1>6. ms[n] = YYMM(now)
  <2>1. base + n = now.y * 12 + (now.m - 1)
    BY <1>1, <1>2
  <2>2. (now.y * 12 + (now.m - 1)) \div 12 = now.y
    BY <1>2
  <2>3. (now.y * 12 + (now.m - 1)) % 12 = now.m - 1
    BY <1>2
  <2>4. MonthAt(base + n) = <<now.y % 100, now.m>>
    BY <1>2, <2>1, <2>2, <2>3 DEF MonthAt
  <2> QED
    BY <1>1, <1>4, <2>4 DEF YYMM
<1>7. \A i \in 1..(n - 1) : Follows(ms[i], ms[i + 1])
  <2> TAKE i \in 1..(n - 1)
  <2>1. i \in 1..n /\ i + 1 \in 1..n
    BY <1>1
  <2>2. ms[i] = MonthAt(base + i) /\ ms[i + 1] = MonthAt(base + i + 1)
    BY <1>3, <1>4, <2>1
  <2>3. base + i \in Int
    BY <1>3
  <2> QED
    BY <2>2, <2>3, MonthAtFollows
<1> QED
  BY <1>1, <1>5, <1>6, <1>7 DEF Consecutive

-----------------------------------------------------------------------------
(* The run. *)

RunTypeOK ==
    /\ lookback \in Nat \ {0} /\ fallback \in BOOLEAN
    /\ run \in [pc : {"idle", "settings", "source", "add", "del", "full", "apply"},
                type : {"full", "diff", "upload"}, url : Values, filter : Values,
                day : Dates \cup {Unset}, months : Seq(Months), month : Nat,
                got : BOOLEAN, applied : BOOLEAN,
                outcome : {"none", "success", "failed", "badfilter"},
                promise : [Keys -> Values \cup {Unset}]]

\* What was answered before the run read the settings is what it has.
InputHeld ==
    /\ run.promise["download_max_retry"] \in {Unset, maxRetry}
    /\ run.promise["scrape_full_url"] \in {Unset, run.url}
    /\ run.promise["town_skip_regex"] \in {Unset, run.filter}

\* The download under way is the run's.
FetchIsRuns ==
    /\ run.pc \in {"add", "del", "full"} => fetch.limit = maxRetry
    /\ run.pc = "full" => fetch.url = run.url

\* Only values that are accepted or configured.
InputAccepted ==
    /\ run.url \in Accepted["scrape_full_url"] \cup {Default["scrape_full_url"]}
    /\ run.outcome = "badfilter" =>
          Default["town_skip_regex"] \notin Accepted["town_skip_regex"]

\* A differential run is at one of its months, and these are consecutive.
MonthsHeld ==
    /\ run.pc \in {"add", "del"} \/ (run.pc = "apply" /\ run.type = "diff") =>
          run.month \in 1..Len(run.months)
    /\ run.months # <<>> => run.day \in Dates /\ Consecutive(run.months, run.day)

RunInv == RunTypeOK /\ InputHeld /\ FetchIsRuns /\ InputAccepted /\ MonthsHeld

Inv == SettingsInv /\ DownloadInv /\ RunInv

LEMMA ValuesAreValues ==
    /\ Blank \in Values
    /\ \A k \in Keys : Default[k] \in Values /\ Accepted[k] \subseteq Values
BY SettingsAssumption DEF Keys

LEMMA NoRunInv ==
    ASSUME NEW o \in {"none", "success", "failed", "badfilter"},
           run' = [NoRun EXCEPT !.outcome = o],
           o = "badfilter" =>
              Default["town_skip_regex"] \notin Accepted["town_skip_regex"],
           RunTypeOK, UNCHANGED config
    PROVE  RunInv'
<1>1. run' = [pc |-> "idle", type |-> "full", url |-> Default["scrape_full_url"],
              filter |-> Blank, day |-> Unset, months |-> <<>>, month |-> 0,
              got |-> FALSE, applied |-> FALSE, outcome |-> o, promise |-> NoPromise]
  BY DEF NoRun
<1>2. /\ NoPromise \in [Keys -> Values \cup {Unset}]
      /\ \A k \in Keys : NoPromise[k] = Unset
  BY DEF NoPromise
<1>3. RunTypeOK'
  <2>1. Default["scrape_full_url"] \in Values /\ Blank \in Values
    BY ValuesAreValues DEF Keys
  <2>2. <<>> \in Seq(Months)
    OBVIOUS
  <2>3. run' \in [pc : {"idle", "settings", "source", "add", "del", "full", "apply"},
                  type : {"full", "diff", "upload"}, url : Values, filter : Values,
                  day : Dates \cup {Unset}, months : Seq(Months), month : Nat,
                  got : BOOLEAN, applied : BOOLEAN,
                  outcome : {"none", "success", "failed", "badfilter"},
                  promise : [Keys -> Values \cup {Unset}]]
    BY ONLY <1>1, <1>2, <2>1, <2>2, o \in {"none", "success", "failed", "badfilter"}
  <2> QED
    BY <2>3 DEF RunTypeOK, config
<1>4. InputHeld' /\ FetchIsRuns' /\ InputAccepted' /\ MonthsHeld'
  BY <1>1, <1>2 DEF InputHeld, FetchIsRuns, InputAccepted, MonthsHeld, Keys
<1> QED
  BY <1>3, <1>4 DEF RunInv

\* The end of a run.
LEMMA EndsInv ==
    ASSUME Inv, NEW o \in {"success", "failed", "badfilter"}, Ends(o),
           o = "badfilter" =>
              Default["town_skip_regex"] \notin Accepted["town_skip_regex"],
           UNCHANGED config, maxRetry' \in Retries
    PROVE  DownloadInv' /\ RunInv'
<1>1. DownloadInv'
  BY NoFetchInv DEF Ends
<1>2. RunInv'
  BY NoRunInv DEF Ends, Inv, RunInv
<1> QED
  BY <1>1, <1>2

LEMMA AskFullInv ==
    ASSUME Inv, AskFull, UNCHANGED <<config, maxRetry>>
    PROVE  DownloadInv' /\ RunInv'
<1> USE DEF Inv, RunInv
<1>1. run.url \in Urls
  BY RunInputAssumption DEF InputAccepted
<1>2. cancelled' \in BOOLEAN /\ maxRetry \in Retries /\ maxRetry' = maxRetry
  BY DEF AskFull, DownloadInv, DownloadTypeOK
<1>3. FetchFrom(run.url)
  BY DEF AskFull
<1>4. DownloadInv'
  BY <1>1, <1>2, <1>3, FetchFromInv
<1>5. run' = [run EXCEPT !.pc = "full"]
  BY DEF AskFull
<1>6. RunTypeOK'
  BY <1>5 DEF RunTypeOK, config
<1>7. InputHeld' /\ InputAccepted'
  BY <1>5 DEF RunTypeOK, InputHeld, InputAccepted
<1>8. FetchIsRuns'
  BY <1>3, <1>5 DEF RunTypeOK, FetchIsRuns, FetchFrom
<1>9. MonthsHeld'
  BY <1>5 DEF RunTypeOK, MonthsHeld, Consecutive
<1> QED
  BY <1>4, <1>6, <1>7, <1>8, <1>9

\* A month is asked for.
LEMMA AskMonthInv ==
    ASSUME Inv, NEW file \in {"add", "del"}, NEW m \in 1..Len(run'.months),
           FetchFrom(<<file, run'.months[m]>>),
           NEW got \in BOOLEAN, NEW applied \in BOOLEAN,
           run' = [run EXCEPT !.pc = file, !.month = m, !.got = got,
                              !.applied = applied],
           UNCHANGED <<config, maxRetry, cancelled>>
    PROVE  DownloadInv' /\ RunInv'
<1> USE DEF Inv, RunInv
<1>1. run'.months = run.months /\ run.months \in Seq(Months) /\ m \in Nat
  BY DEF RunTypeOK
<1>2. run.months[m] \in Months
  BY <1>1
<1>3. <<file, run'.months[m]>> \in Urls
  BY <1>1, <1>2, RunInputAssumption
<1>4. cancelled' \in BOOLEAN /\ maxRetry \in Retries /\ maxRetry' = maxRetry
  BY DEF DownloadInv, DownloadTypeOK
<1>5. DownloadInv'
  BY <1>3, <1>4, FetchFromInv
<1>6. RunTypeOK'
  BY <1>1 DEF RunTypeOK, config
<1>7. InputHeld' /\ InputAccepted'
  BY DEF RunTypeOK, InputHeld, InputAccepted
<1>8. FetchIsRuns'
  BY DEF RunTypeOK, FetchIsRuns, FetchFrom
<1>9. MonthsHeld'
  BY <1>1 DEF RunTypeOK, MonthsHeld, Consecutive
<1> QED
  BY <1>5, <1>6, <1>7, <1>8, <1>9

LEMMA NextMonthInv ==
    ASSUME Inv, NEW applied \in BOOLEAN, NextMonth(applied),
           run.month \in 1..Len(run.months), UNCHANGED <<config, maxRetry>>
    PROVE  DownloadInv' /\ RunInv'
<1>1. CASE run.month < Len(run.months)
  <2>1. /\ AskMonth(run.month + 1, run.months)
        /\ run' = [run EXCEPT !.pc = "add", !.month = run.month + 1, !.got = FALSE,
                              !.applied = applied]
    BY <1>1 DEF NextMonth
  <2>2. run'.months = run.months /\ run.months \in Seq(Months)
    BY <2>1 DEF Inv, RunInv, RunTypeOK
  <2>3. run.month + 1 \in 1..Len(run'.months)
    BY <1>1, <2>2
  <2>4. /\ FetchFrom(<<"add", run'.months[run.month + 1]>>)
        /\ UNCHANGED cancelled
    BY <2>1, <2>2 DEF AskMonth
  <2> QED
    BY <2>1, <2>3, <2>4, AskMonthInv
<1>2. CASE ~(run.month < Len(run.months))
  <2>1. Ends("success") \/ AskFull \/ Ends("failed")
    BY <1>2 DEF NextMonth
  <2>2. maxRetry' \in Retries
    BY DEF Inv, DownloadInv, DownloadTypeOK
  <2> QED
    BY <2>1, <2>2, EndsInv, AskFullInv
<1> QED
  BY <1>1, <1>2

\* The files of the run are there.
LEMMA AppliesInv ==
    ASSUME Inv, Applies, run.pc \in {"del", "full"}, UNCHANGED <<config, maxRetry>>
    PROVE  DownloadInv' /\ RunInv'
<1> USE DEF Inv, RunInv
<1>1. DownloadInv'
  BY NoFetchInv DEF Applies, DownloadInv, DownloadTypeOK
<1>2. /\ run' = [run EXCEPT !.pc = "apply", !.type = run'.type]
      /\ run'.type \in {"full", "diff", "upload"}
      /\ run.pc = "full" => run'.type = "full"
  BY DEF Applies, RunTypeOK
<1>3. RunTypeOK'
  BY <1>2 DEF RunTypeOK, config
<1>4. InputHeld' /\ InputAccepted'
  BY <1>2 DEF RunTypeOK, InputHeld, InputAccepted
<1>5. FetchIsRuns'
  BY <1>2 DEF RunTypeOK, FetchIsRuns
<1>6. MonthsHeld'
  BY <1>2 DEF RunTypeOK, MonthsHeld, Consecutive
<1> QED
  BY <1>1, <1>3, <1>4, <1>5, <1>6

LEMMA WithSettingsInv ==
    ASSUME Inv, run.pc = "settings", NEW url \in Values, NEW filter \in Values,
           NEW promise \in [Keys -> Values \cup {Unset}],
           WithSettings(url, filter, promise), UNCHANGED config, maxRetry' \in Retries,
           url \in Accepted["scrape_full_url"] \cup {Default["scrape_full_url"]},
           filter \in Accepted["town_skip_regex"] \cup {Default["town_skip_regex"]},
           promise["download_max_retry"] \in {Unset, maxRetry'},
           promise["scrape_full_url"] \in {Unset, url},
           promise["town_skip_regex"] \in {Unset, filter}
    PROVE  DownloadInv' /\ RunInv'
<1> USE DEF Inv, RunInv
<1>1. CASE filter \notin Accepted["town_skip_regex"]
  BY <1>1, EndsInv DEF WithSettings
<1>2. CASE filter \in Accepted["town_skip_regex"]
  <2>1. /\ run' = [run EXCEPT !.url = url, !.filter = filter, !.promise = promise,
                              !.pc = IF run.type = "upload" THEN "apply" ELSE "source"]
        /\ UNCHANGED <<cancelled, fetch>>
    BY <1>2 DEF WithSettings
  <2>2. DownloadInv'
    BY <2>1 DEF DownloadInv, DownloadTypeOK, FetchCounts, FetchKeepsToPolicy
  <2>3. /\ run'.pc \in {"apply", "source"}
        /\ run'.pc = "apply" => run'.type = "upload"
        /\ run'.url = url /\ run'.filter = filter /\ run'.promise = promise
        /\ run'.outcome = run.outcome /\ run'.months = run.months /\ run'.day = run.day
    BY <2>1 DEF RunTypeOK
  <2>4. RunTypeOK'
    BY <2>1 DEF RunTypeOK, config
  <2>5. InputHeld' /\ InputAccepted' /\ FetchIsRuns' /\ MonthsHeld'
    BY <2>3 DEF InputHeld, InputAccepted, FetchIsRuns, MonthsHeld, Consecutive
  <2> QED
    BY <2>2, <2>4, <2>5
<1> QED
  BY <1>1, <1>2

\* A step of the run keeps the invariants of the download and of the run.
LEMMA RunStepInv ==
    ASSUME Inv, RunStep
    PROVE  DownloadInv' /\ RunInv'
<1> USE DEF Inv, RunInv
<1>1. maxRetry \in Retries /\ cancelled \in BOOLEAN
  BY DEF DownloadInv, DownloadTypeOK
<1>2. CASE UploadRefused \/ FetchFailed \/ ApplyFails
  <2>1. Ends("failed") /\ UNCHANGED <<config, maxRetry>>
    BY <1>2 DEF UploadRefused, FetchFailed, ApplyFails
  <2> QED
    BY <1>1, <2>1, EndsInv
<1>3. CASE ResolveSettings
  <2> DEFINE eff == Effective(overrides)
  <2>1. /\ run.pc = "settings" /\ maxRetry' = eff["download_max_retry"]
        /\ WithSettings(eff["scrape_full_url"], eff["town_skip_regex"], shown)
        /\ UNCHANGED config
    BY <1>3 DEF ResolveSettings
  <2>2. /\ shown \in [Keys -> Values \cup {Unset}]
        /\ \A k \in Keys : shown[k] \in {Unset, eff[k]}
    BY DEF SettingsInv, SettingsTypeOK, ShownHolds
  <2>3. /\ eff \in [Keys -> Values]
        /\ \A k \in Keys : eff[k] \in Accepted[k] \cup {Default[k]}
    BY EffectiveValues DEF SettingsInv, SettingsTypeOK, Table
  <2>4. maxRetry' \in Retries
    BY <2>1, <2>3, RunInputAssumption DEF Keys
  <2> QED
    BY <2>1, <2>2, <2>3, <2>4, WithSettingsInv DEF Keys
<1>4. CASE ResolveFails
  <2>1. /\ run.pc = "settings" /\ UNCHANGED <<config, maxRetry>>
        /\ WithSettings(Default["scrape_full_url"], Blank, NoPromise)
    BY <1>4 DEF ResolveFails
  <2>2. /\ NoPromise \in [Keys -> Values \cup {Unset}]
        /\ \A k \in Keys : NoPromise[k] = Unset
    BY DEF NoPromise
  <2>3. /\ Blank \in Values /\ Blank \in Accepted["town_skip_regex"]
        /\ Default["scrape_full_url"] \in Values
    BY ValuesAreValues, SettingsAssumption DEF Keys
  <2> QED
    BY <1>1, <2>1, <2>2, <2>3, WithSettingsInv DEF Keys
<1>5. CASE StartFull
  BY <1>5, AskFullInv DEF StartFull, config
<1>6. ASSUME NEW now \in Dates, StartDiff(now) PROVE DownloadInv' /\ RunInv'
  <2> DEFINE ms == MonthsWindow(now)
  <2>1. /\ ms \in Seq(Months) /\ Len(ms) \in Nat \ {0} /\ Consecutive(ms, now)
    BY WindowIsConsecutive DEF RunTypeOK
  <2>2. /\ run' = [run EXCEPT !.pc = "add", !.day = now, !.months = ms, !.month = 1]
        /\ FetchFrom(<<"add", ms[1]>>)
        /\ UNCHANGED <<config, maxRetry, cancelled>>
    BY <1>6 DEF StartDiff, AskMonth
  <2> HIDE DEF ms
  <2>3. ms[1] \in Months
    BY <2>1
  <2>4. <<"add", ms[1]>> \in Urls
    BY <2>3, RunInputAssumption
  <2>5. DownloadInv'
    BY <1>1, <2>2, <2>4, FetchFromInv
  <2>6. RunTypeOK'
    BY <2>1, <2>2 DEF RunTypeOK, config
  <2>7. InputHeld' /\ InputAccepted'
    BY <2>2 DEF RunTypeOK, InputHeld, InputAccepted
  <2>8. FetchIsRuns'
    BY <2>2 DEF RunTypeOK, FetchIsRuns, FetchFrom
  <2>9. MonthsHeld'
    BY <2>1, <2>2 DEF RunTypeOK, MonthsHeld, Consecutive
  <2> QED
    BY <2>5, <2>6, <2>7, <2>8, <2>9
<1>7. CASE AddArrives
  <2>1. /\ run.pc = "add" /\ run.month \in 1..Len(run.months)
        /\ run' = [run EXCEPT !.pc = "del", !.got = (fetch.result = "file")]
        /\ FetchFrom(<<"del", run.months[run.month]>>)
        /\ UNCHANGED <<config, maxRetry, cancelled>>
    BY <1>7 DEF AddArrives, MonthsHeld
  <2>2. /\ run' = [run EXCEPT !.pc = "del", !.month = run.month,
                              !.got = (fetch.result = "file"), !.applied = run.applied]
        /\ run'.months = run.months /\ run.applied \in BOOLEAN
    BY <2>1 DEF RunTypeOK
  <2> QED
    BY <2>1, <2>2, AskMonthInv
<1>8. CASE DelArrives
  <2>1. run.month \in 1..Len(run.months) /\ run.applied \in BOOLEAN
    BY <1>8 DEF DelArrives, MonthsHeld, RunTypeOK
  <2>2. CASE Applies
    BY <1>8, <2>2, AppliesInv DEF DelArrives, config
  <2>3. CASE NextMonth(run.applied)
    BY <1>8, <2>1, <2>3, NextMonthInv DEF DelArrives, config
  <2> QED
    BY <1>8, <2>2, <2>3 DEF DelArrives
<1>9. CASE FullArrives
  BY <1>9, AppliesInv DEF FullArrives, config
<1>10. CASE Applied
  <2>1. UNCHANGED <<config, maxRetry>>
    BY <1>10 DEF Applied, config
  <2>2. CASE run.type = "diff"
    <3>1. run.month \in 1..Len(run.months) /\ NextMonth(TRUE)
      BY <1>10, <2>2 DEF Applied, MonthsHeld
    <3> QED
      BY <2>1, <3>1, NextMonthInv
  <2>3. CASE run.type # "diff"
    BY <1>1, <1>10, <2>1, <2>3, EndsInv DEF Applied
  <2> QED
    BY <2>2, <2>3
<1> QED
  BY <1>2, <1>3, <1>4, <1>5, <1>6, <1>7, <1>8, <1>9, <1>10 DEF RunStep
-----------------------------------------------------------------------------
(* The specification. *)

LEMMA InvStart ==
    ASSUME RunInputInit
    PROVE  Inv
<1>1. SettingsInv
  BY SettingsStart DEF RunInputInit
<1>2. fetch = NoFetch /\ cancelled \in BOOLEAN /\ maxRetry \in Retries
  BY DownloaderAssumption DEF RunInputInit, DownloadInit
<1>3. DownloadTypeOK
  BY <1>2, DownloaderAssumption DEF DownloadTypeOK, NoFetch, Results
<1>4. FetchCounts /\ FetchKeepsToPolicy
  BY <1>2, DownloaderAssumption DEF FetchCounts, FetchKeepsToPolicy, NoFetch
<1>5. run = [pc |-> "idle", type |-> "full", url |-> Default["scrape_full_url"],
             filter |-> Blank, day |-> Unset, months |-> <<>>, month |-> 0,
             got |-> FALSE, applied |-> FALSE, outcome |-> "none",
             promise |-> NoPromise]
  BY DEF RunInputInit, NoRun
<1>6. /\ NoPromise \in [Keys -> Values \cup {Unset}]
      /\ \A k \in Keys : NoPromise[k] = Unset
  BY DEF NoPromise
<1>7. Default["scrape_full_url"] \in Values /\ Blank \in Values
  BY ValuesAreValues DEF Keys
<1>8. run \in [pc : {"idle", "settings", "source", "add", "del", "full", "apply"},
               type : {"full", "diff", "upload"}, url : Values, filter : Values,
               day : Dates \cup {Unset}, months : Seq(Months), month : Nat,
               got : BOOLEAN, applied : BOOLEAN,
               outcome : {"none", "success", "failed", "badfilter"},
               promise : [Keys -> Values \cup {Unset}]]
  BY ONLY <1>5, <1>6, <1>7
<1>9. RunTypeOK
  <2>1. PICK months \in Lookbacks : lookback = EngineLookback(months)
    BY DEF RunInputInit
  <2>2. months \in Int
    BY RunInputAssumption
  <2>3. lookback \in Nat \ {0}
    BY <2>1, <2>2 DEF EngineLookback
  <2>4. fallback \in BOOLEAN
    BY DEF RunInputInit
  <2> QED
    BY <1>8, <2>3, <2>4 DEF RunTypeOK
<1>10. InputHeld /\ FetchIsRuns /\ InputAccepted /\ MonthsHeld
  BY <1>5, <1>6 DEF InputHeld, FetchIsRuns, InputAccepted, MonthsHeld, Keys
<1> QED
  BY <1>1, <1>3, <1>4, <1>9, <1>10 DEF Inv, DownloadInv, RunInv

LEMMA InvStep ==
    ASSUME Inv, [Next]_vars
    PROVE  Inv' /\ [ShowsOwnWrites]_settingsVars
<1> USE DEF Inv
<1>1. ASSUME NEW type \in {"full", "diff", "upload"}, BeginRun(type)
      PROVE  Inv' /\ ShowsOwnWrites
  <2>1. /\ run' = [NoRun EXCEPT !.pc = "settings", !.type = type]
        /\ UNCHANGED <<settingsVars, config, downloadVars>>
    BY <1>1 DEF BeginRun
  <2>2. SettingsInv' /\ ShowsOwnWrites
    BY <2>1, SettingsLeft
  <2>3. DownloadInv'
    BY <2>1 DEF downloadVars, DownloadInv, DownloadTypeOK, FetchCounts,
                FetchKeepsToPolicy
  <2>4. run' = [pc |-> "settings", type |-> type, url |-> Default["scrape_full_url"],
                filter |-> Blank, day |-> Unset, months |-> <<>>, month |-> 0,
                got |-> FALSE, applied |-> FALSE, outcome |-> "none",
                promise |-> NoPromise]
    BY <2>1 DEF NoRun
  <2>5. /\ NoPromise \in [Keys -> Values \cup {Unset}]
        /\ \A k \in Keys : NoPromise[k] = Unset
    BY DEF NoPromise
  <2>6. Default["scrape_full_url"] \in Values /\ Blank \in Values
    BY ValuesAreValues DEF Keys
  <2>7. run' \in [pc : {"idle", "settings", "source", "add", "del", "full", "apply"},
                  type : {"full", "diff", "upload"}, url : Values, filter : Values,
                  day : Dates \cup {Unset}, months : Seq(Months), month : Nat,
                  got : BOOLEAN, applied : BOOLEAN,
                  outcome : {"none", "success", "failed", "badfilter"},
                  promise : [Keys -> Values \cup {Unset}]]
    BY ONLY <2>4, <2>5, <2>6, type \in {"full", "diff", "upload"}
  <2>8. RunTypeOK'
    BY <2>1, <2>7 DEF RunInv, RunTypeOK, config
  <2>9. InputHeld' /\ FetchIsRuns' /\ InputAccepted' /\ MonthsHeld'
    BY <2>4, <2>5 DEF InputHeld, FetchIsRuns, InputAccepted, MonthsHeld, Keys
  <2> QED
    BY <2>2, <2>3, <2>8, <2>9 DEF RunInv
<1>2. CASE RunStep
  <2>1. UNCHANGED settingsVars
    BY <1>2 DEF RunStep, UploadRefused, ResolveSettings, ResolveFails, StartFull,
                StartDiff, AddArrives, DelArrives, FullArrives, FetchFailed, Applied,
                ApplyFails
  <2> QED
    BY <1>2, <2>1, SettingsLeft, RunStepInv
<1>3. CASE Download
  <2>1. UNCHANGED <<settingsVars, config, run>>
    BY <1>3 DEF Download
  <2>2. /\ DownloadInv' /\ UNCHANGED maxRetry
        /\ fetch'.url = fetch.url /\ fetch'.limit = fetch.limit
    BY <1>3, DownloadStep
  <2>3. RunInv'
    BY <2>1, <2>2 DEF RunInv, RunTypeOK, InputHeld, FetchIsRuns, InputAccepted,
                      MonthsHeld, Consecutive, config
  <2> QED
    BY <2>1, <2>2, <2>3, SettingsLeft
<1>4. CASE Cancel
  <2>1. UNCHANGED <<settingsVars, config, maxRetry, fetch, run>> /\ cancelled' = TRUE
    BY <1>4 DEF Cancel
  <2>2. DownloadInv'
    BY <2>1 DEF DownloadInv, DownloadTypeOK, FetchCounts, FetchKeepsToPolicy
  <2>3. RunInv'
    BY <2>1 DEF RunInv, RunTypeOK, InputHeld, FetchIsRuns, InputAccepted,
                MonthsHeld, Consecutive, config
  <2> QED
    BY <2>1, <2>2, <2>3, SettingsLeft
<1>5. ASSUME SettingsInv' /\ ShowsOwnWrites, UNCHANGED <<downloadVars, config, run>>
      PROVE  Inv' /\ ShowsOwnWrites
  <2>1. DownloadInv'
    BY <1>5 DEF downloadVars, DownloadInv, DownloadTypeOK, FetchCounts,
                FetchKeepsToPolicy
  <2>2. RunInv'
    BY <1>5 DEF downloadVars, RunInv, RunTypeOK, InputHeld, FetchIsRuns,
                InputAccepted, MonthsHeld, Consecutive, config
  <2> QED
    BY <1>5, <2>1, <2>2
<1>6. CASE Settings
  BY <1>5, <1>6, SettingsStep DEF Settings
<1>7. CASE UNCHANGED vars
  BY <1>5, <1>7, SettingsLeft DEF vars
<1> QED
  BY <1>1, <1>2, <1>3, <1>4, <1>6, <1>7 DEF Next

\* The settings, the download and the run keep their invariants.
THEOREM InvHolds == Spec => []Inv
BY InvStart, InvStep, PTL DEF Spec

\* The types of RunInput, RuntimeSettings and Downloader: above all, every
\* file asked for is one that may be configured or a month of the calendar.
THEOREM TypeCorrect == Spec => []TypeOK
<1>1. Inv => TypeOK
  BY DEF Inv, SettingsInv, DownloadInv, RunInv, RunTypeOK, TypeOK
<1> QED
  BY <1>1, InvHolds, PTL

\* A run that could read the settings works with what was answered before it did.
THEOREM AnsweredIsUsed == Spec => []RunUsesAnsweredSettings
<1>1. Inv => RunUsesAnsweredSettings
  BY DEF Inv, RunInv, InputHeld, FetchIsRuns, RunUsesAnsweredSettings
<1> QED
  BY <1>1, InvHolds, PTL

\* A value that no validator accepts reaches a run only from the environment.
THEOREM DirtyRowsStayOut == Spec => []DirtyRowsNeverReachRun
<1>1. Inv => DirtyRowsNeverReachRun
  BY DEF Inv, RunInv, InputAccepted, FetchIsRuns, DirtyRowsNeverReachRun
<1> QED
  BY <1>1, InvHolds, PTL

\* Fetch keeps to its number of attempts and to what it retries, with any
\* number of retries and whatever the publisher does.
THEOREM FetchPolicy == Spec => []FetchKeepsToPolicy
<1>1. Inv => FetchKeepsToPolicy
  BY DEF Inv, DownloadInv
<1> QED
  BY <1>1, InvHolds, PTL

\* The months of a differential run are consecutive, for any look-back and day.
THEOREM ConsecutiveMonths == Spec => []MonthsAreConsecutive
<1>1. Inv => MonthsAreConsecutive
  BY DEF Inv, RunInv, MonthsHeld, Consecutive, Follows, MonthsAreConsecutive
<1> QED
  BY <1>1, InvHolds, PTL

\* The answer to an update shows what it asked for, whatever other updates do.
THEOREM AnswersAreTrue == Spec => AnswerShowsOwnWrites
<1>1. Inv /\ [Next]_vars => [ShowsOwnWrites]_settingsVars
  BY InvStep
<1>2. Spec => [][ShowsOwnWrites]_settingsVars
  BY <1>1, InvHolds, PTL DEF Spec
<1> QED
  BY <1>2 DEF AnswerShowsOwnWrites, ShowsOwnWrites
-----------------------------------------------------------------------------
(* Progress. *)

\* What a run has still to do, at most: three steps for each month to come, and
\* two for the full file instead.
Ahead == 3 * (Len(run.months) - run.month) + 2

RunLeft ==
    CASE run.pc = "settings" -> 3 * WindowSize + 4
      [] run.pc = "source" -> 3 * WindowSize + 3
      [] run.pc = "add" -> Ahead + 3
      [] run.pc = "del" -> Ahead + 2
      [] run.pc = "full" -> 2
      [] run.pc = "apply" -> IF run.type = "diff" THEN Ahead + 1 ELSE 1
      [] OTHER -> 0

\* What a call of Fetch has still to do, at most: an attempt, and for each retry
\* a wait and an attempt.
FetchLeft ==
    CASE fetch.pc = "request" -> 2 * (fetch.limit - fetch.attempt) + 1
      [] fetch.pc = "backoff" -> 2 * (fetch.limit - fetch.attempt)
      [] OTHER -> 0

Closer == RunLeft' < RunLeft \/ (RunLeft' = RunLeft /\ FetchLeft' < FetchLeft)

\* A run that is under way comes closer to its end with each of its steps and
\* each step of its downloads.
RunsAdvance == [][run.pc # "idle" => Closer]_<<run, fetch>>

LEMMA WindowSizeNat ==
    ASSUME RunTypeOK
    PROVE  WindowSize \in Nat \ {0}
BY DEF RunTypeOK, WindowSize

LEMMA FetchLeftNat ==
    ASSUME DownloadInv
    PROVE  FetchLeft \in Nat
<1>1. fetch.limit \in Nat /\ fetch.attempt \in Nat
  BY DownloaderAssumption DEF DownloadInv, DownloadTypeOK
<1>2. /\ fetch.pc = "request" => fetch.attempt <= fetch.limit
      /\ fetch.pc = "backoff" => fetch.attempt < fetch.limit
  BY DEF DownloadInv, FetchCounts
<1> QED
  BY <1>1, <1>2 DEF FetchLeft

LEMMA RunLeftNat ==
    ASSUME RunInv
    PROVE  RunLeft \in Nat
<1>1. WindowSize \in Nat
  BY WindowSizeNat DEF RunInv
<1>2. run.pc \in {"idle", "settings", "source", "add", "del", "full", "apply"}
  BY DEF RunInv, RunTypeOK
<1>3. run.pc \in {"add", "del"} \/ (run.pc = "apply" /\ run.type = "diff") => Ahead \in Nat
  <2>1. Len(run.months) \in Nat /\ run.month \in Nat
    BY DEF RunInv, RunTypeOK
  <2> QED
    BY <2>1 DEF RunInv, MonthsHeld, Ahead
<1> QED
  BY <1>1, <1>2, <1>3 DEF RunLeft

\* A step of the download is an attempt that is over, or a wait.
LEMMA DownloadAdvances ==
    ASSUME Inv, Download
    PROVE  Closer
<1>1. /\ fetch.limit \in Nat /\ fetch.attempt \in Nat
      /\ fetch.pc = "request" => fetch.attempt <= fetch.limit
      /\ fetch.pc = "backoff" => fetch.attempt < fetch.limit
  BY DownloaderAssumption DEF Inv, DownloadInv, DownloadTypeOK, FetchCounts
<1>2. UNCHANGED <<run, lookback>>
  BY DEF Download, config
<1>3. RunLeft' = RunLeft
  BY <1>2 DEF RunLeft, Ahead, WindowSize
<1>4. ASSUME NEW o, fetch.pc = "request", AfterAttempt(o)
      PROVE  FetchLeft' < FetchLeft
  <2>1. /\ fetch'.limit = fetch.limit /\ fetch'.attempt = fetch.attempt
        /\ fetch'.pc \in {"off", "backoff"}
    BY <1>4 DEF AfterAttempt, Inv, DownloadInv, DownloadTypeOK
  <2> QED
    BY <1>1, <1>4, <2>1 DEF FetchLeft
<1>5. CASE Elapses
  <2>1. /\ fetch.pc = "backoff" /\ fetch'.pc = "request" /\ fetch'.limit = fetch.limit
        /\ fetch'.attempt = fetch.attempt + 1
    BY <1>5 DEF Elapses, Inv, DownloadInv, DownloadTypeOK
  <2> QED
    BY <1>1, <1>3, <2>1 DEF FetchLeft, Closer
<1>6. CASE WaitCancelled
  <2>1. fetch.pc = "backoff" /\ fetch'.pc = "off"
    BY <1>6 DEF WaitCancelled, Inv, DownloadInv, DownloadTypeOK
  <2> QED
    BY <1>1, <1>3, <2>1 DEF FetchLeft, Closer
<1> QED
  BY <1>3, <1>4, <1>5, <1>6 DEF Download, FetchStep, AttemptEnds, Receives, Closer

\* The end of a run, and the full file, are ahead of every other place.
LEMMA EndsAhead ==
    ASSUME RunInv, run.pc # "idle"
    PROVE  /\ RunLeft > 0
           /\ run.pc \notin {"full", "apply"} => RunLeft > 2
           /\ run.pc = "apply" /\ run.type = "diff" => RunLeft > 2
<1>1. WindowSize \in Nat \ {0}
  BY WindowSizeNat DEF RunInv
<1>2. run.pc \in {"settings", "source", "add", "del", "full", "apply"}
  BY DEF RunInv, RunTypeOK
<1>3. run.pc \in {"add", "del"} \/ (run.pc = "apply" /\ run.type = "diff") =>
          Ahead \in Nat /\ Ahead >= 2
  <2>1. Len(run.months) \in Nat /\ run.month \in Nat
    BY DEF RunInv, RunTypeOK
  <2> QED
    BY <2>1 DEF RunInv, MonthsHeld, Ahead
<1> QED
  BY <1>1, <1>2, <1>3 DEF RunLeft

\* The next month, the end or the full file: each is closer than what is ahead.
LEMMA NextMonthAdvances ==
    ASSUME RunInv, NEW applied, NextMonth(applied), run.month \in 1..Len(run.months)
    PROVE  RunLeft' \in Nat /\ RunLeft' <= Ahead
<1>1. Len(run.months) \in Nat /\ run.month \in Nat
  BY DEF RunInv, RunTypeOK
<1>2. Ahead \in Nat /\ Ahead >= 2
  BY <1>1 DEF Ahead
<1>3. CASE run.month < Len(run.months)
  <2>1. /\ run'.pc = "add" /\ run'.month = run.month + 1 /\ run'.months = run.months
    BY <1>3 DEF NextMonth, RunInv, RunTypeOK
  <2>2. RunLeft' = 3 * (Len(run.months) - (run.month + 1)) + 2 + 3
    BY <2>1 DEF RunLeft, Ahead
  <2>3. \A l, m \in Nat : m < l =>
            /\ 3 * (l - (m + 1)) + 2 + 3 = 3 * (l - m) + 2
            /\ 3 * (l - m) + 2 \in Nat
    BY SMT
  <2> QED
    BY <1>1, <1>3, <2>2, <2>3, SMTT(30) DEF Ahead
<1>4. CASE ~(run.month < Len(run.months))
  <2>1. run'.pc \in {"idle", "full"}
    BY <1>4 DEF NextMonth, Ends, AskFull, NoRun, RunInv, RunTypeOK
  <2> QED
    BY <1>2, <2>1 DEF RunLeft
<1> QED
  BY <1>3, <1>4

LEMMA RunStepAdvances ==
    ASSUME Inv, RunStep
    PROVE  RunLeft' < RunLeft
<1> USE DEF Inv
<1>1. RunLeft \in Nat /\ WindowSize \in Nat \ {0} /\ RunTypeOK
  BY RunLeftNat, WindowSizeNat DEF RunInv
<1>2. WindowSize' = WindowSize
  <2>1. UNCHANGED config
    <3>1. CASE UploadRefused \/ ResolveSettings \/ ResolveFails \/ StartFull
      BY <3>1 DEF UploadRefused, ResolveSettings, ResolveFails, StartFull
    <3>2. CASE AddArrives \/ DelArrives \/ FullArrives \/ FetchFailed \/ Applied \/ ApplyFails
      BY <3>2 DEF AddArrives, DelArrives, FullArrives, FetchFailed, Applied, ApplyFails
    <3>3. ASSUME NEW now \in Dates, StartDiff(now) PROVE UNCHANGED config
      BY <3>3 DEF StartDiff
    <3> QED
      BY <3>1, <3>2, <3>3 DEF RunStep
  <2> QED
    BY <2>1 DEF config, WindowSize
<1>3. ASSUME NEW o, Ends(o), run.pc # "idle" PROVE RunLeft' < RunLeft
  <2>1. run'.pc = "idle"
    BY <1>3 DEF Ends, NoRun
  <2>2. RunLeft' = 0
    BY <2>1 DEF RunLeft
  <2> QED
    BY <1>1, <1>3, <2>2, EndsAhead
<1>4. CASE UploadRefused \/ FetchFailed \/ ApplyFails
  BY <1>3, <1>4 DEF UploadRefused, FetchFailed, ApplyFails
<1>5. ASSUME NEW url, NEW filter, NEW promise, run.pc = "settings",
             WithSettings(url, filter, promise)
      PROVE  RunLeft' < RunLeft
  <2>1. Ends("badfilter") \/ run'.pc = "source"
        \/ (run'.pc = "apply" /\ run'.type = "upload")
    BY <1>1, <1>5 DEF WithSettings, RunTypeOK
  <2>2. CASE Ends("badfilter")
    BY <1>3, <1>5, <2>2
  <2>3. CASE run'.pc = "source"
    BY <1>1, <1>2, <1>5, <2>3 DEF RunLeft
  <2>4. CASE run'.pc = "apply" /\ run'.type = "upload"
    BY <1>1, <1>5, <2>4 DEF RunLeft
  <2> QED
    BY <2>1, <2>2, <2>3, <2>4
<1>6. CASE ResolveSettings \/ ResolveFails
  BY <1>5, <1>6 DEF ResolveSettings, ResolveFails
<1>7. CASE StartFull
  <2>1. run.pc = "source" /\ run'.pc = "full"
    BY <1>1, <1>7 DEF StartFull, AskFull, RunTypeOK
  <2> QED
    BY <1>1, <2>1 DEF RunLeft
<1>8. ASSUME NEW now \in Dates, StartDiff(now) PROVE RunLeft' < RunLeft
  <2> DEFINE ms == MonthsWindow(now)
  <2>1. Len(ms) = WindowSize
    BY <1>1 DEF MonthsWindow
  <2>2. /\ run.pc = "source" /\ run'.pc = "add" /\ run'.months = ms /\ run'.month = 1
    BY <1>1, <1>8 DEF StartDiff, RunTypeOK
  <2> HIDE DEF ms
  <2>3. RunLeft' = 3 * (WindowSize - 1) + 2 + 3
    BY <2>1, <2>2 DEF RunLeft, Ahead
  <2>4. RunLeft = 3 * WindowSize + 3
    BY <2>2 DEF RunLeft
  <2> QED
    BY <1>1, <2>3, <2>4
<1>9. ASSUME run.pc \in {"add", "del"} \/ (run.pc = "apply" /\ run.type = "diff")
      PROVE  Ahead \in Nat /\ Ahead >= 2 /\ run.month \in 1..Len(run.months)
  <2>1. Len(run.months) \in Nat /\ run.month \in Nat /\ run.month \in 1..Len(run.months)
    BY <1>9 DEF RunInv, RunTypeOK, MonthsHeld
  <2> QED
    BY <2>1 DEF Ahead
<1>10. CASE AddArrives
  <2>1. /\ run.pc = "add" /\ run'.pc = "del" /\ run'.months = run.months
        /\ run'.month = run.month
    BY <1>1, <1>10 DEF AddArrives, RunTypeOK
  <2>2. Ahead' = Ahead /\ Ahead \in Nat
    BY <1>9, <2>1 DEF Ahead
  <2> QED
    BY <2>1, <2>2 DEF RunLeft
<1>11. CASE DelArrives
  <2>1. run.pc = "del" /\ RunLeft = Ahead + 2
    BY <1>11 DEF DelArrives, RunLeft
  <2>2. CASE Applies
    <3>1. run'.pc = "apply" /\ run'.months = run.months /\ run'.month = run.month
      BY <1>1, <2>2 DEF Applies, RunTypeOK
    <3>2. Ahead' = Ahead
      BY <3>1 DEF Ahead
    <3>3. RunLeft' \in {Ahead + 1, 1}
      BY <3>1, <3>2 DEF RunLeft
    <3> QED
      BY <1>9, <2>1, <3>3
  <2>3. CASE NextMonth(run.applied)
    <3>1. RunLeft' \in Nat /\ RunLeft' <= Ahead
      BY <1>9, <2>1, <2>3, NextMonthAdvances
    <3> QED
      BY <1>1, <1>9, <2>1, <3>1
  <2> QED
    BY <1>11, <2>2, <2>3 DEF DelArrives
<1>12. CASE FullArrives
  <2>1. run.pc = "full" /\ run'.pc = "apply" /\ run'.type = "full"
    BY <1>1, <1>12 DEF FullArrives, Applies, RunTypeOK
  <2> QED
    BY <2>1 DEF RunLeft
<1>13. CASE Applied
  <2>1. CASE run.type = "diff"
    <3>1. /\ run.pc = "apply" /\ NextMonth(TRUE) /\ RunLeft = Ahead + 1
      BY <1>13, <2>1 DEF Applied, RunLeft
    <3>2. RunLeft' \in Nat /\ RunLeft' <= Ahead
      BY <1>9, <2>1, <3>1, NextMonthAdvances
    <3> QED
      BY <1>1, <1>9, <2>1, <3>1, <3>2
  <2>2. CASE run.type # "diff"
    BY <1>3, <1>13, <2>2 DEF Applied
  <2> QED
    BY <2>1, <2>2
<1> QED
  BY <1>4, <1>6, <1>7, <1>8, <1>10, <1>11, <1>12, <1>13 DEF RunStep

\* A run takes finitely many steps, and its downloads do, whatever the window,
\* the retries, the publisher and the administrators: each step leaves less of
\* the run to do, or as much of the run and less of its download.  What is left
\* to RunEnds is that the steps are taken.
THEOREM RunsAreFinite ==
    Spec => [](RunLeft \in Nat /\ FetchLeft \in Nat) /\ RunsAdvance
<1>1. Inv => RunLeft \in Nat /\ FetchLeft \in Nat
  BY RunLeftNat, FetchLeftNat DEF Inv
<1>2. Inv /\ [Next]_vars => [run.pc # "idle" => Closer]_<<run, fetch>>
  <2> SUFFICES ASSUME Inv, Next, run.pc # "idle", ~UNCHANGED <<run, fetch>>
               PROVE  Closer
    BY DEF vars, downloadVars
  <2>1. CASE RunStep
    BY <2>1, RunStepAdvances DEF Closer
  <2>2. CASE Download
    BY <2>2, DownloadAdvances
  <2>3. CASE Cancel \/ Settings
    BY <2>3 DEF Cancel, Settings, downloadVars
  <2>4. ASSUME NEW type \in {"full", "diff", "upload"}, BeginRun(type) PROVE FALSE
    BY <2>4 DEF BeginRun
  <2> QED
    BY <2>1, <2>2, <2>3, <2>4 DEF Next
<1> QED
  BY <1>1, <1>2, InvHolds, PTL DEF Spec, RunsAdvance
=============================================================================
