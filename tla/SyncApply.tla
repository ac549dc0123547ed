----------------------------- MODULE SyncApply ------------------------------
(***************************************************************************)
(* The body of a run: runFull, runDiff and UploadFull of                   *)
(* internal/sync/engine.go, the applier (internal/sync/applier.go) and the *)
(* statements it sends (internal/store/address_repo.go).  One run at a     *)
(* time works on the table of addresses, which is what the lock is for     *)
(* (SyncLock); runs follow one another, and any statement, download or row *)
(* may fail.                                                               *)
(*                                                                         *)
(* A row of a file is a key (zipcode, jis_code, town, town_kana) and a     *)
(* hash, which stands for the rest of the address.  The town is part of    *)
(* the key, so the rows that town_skip_regex matches are the rows of the   *)
(* keys in SkipKeys.  db maps each key to its stored hash or to Absent.    *)
(***************************************************************************)
EXTENDS Naturals, Sequences, FiniteSets

CONSTANTS
    Keys, Hashes, Absent,
    SkipKeys,      \* keys whose town the regular expression matches
    FullFiles,     \* contents a full file may have
    Windows,       \* contents the months of the look-back window may have
    NotFound,      \* a file that is not published (404)
    BatchSize,     \* SYNC_BATCH_SIZE
    DeleteChunk,   \* addressKeyDeleteChunk
    SkipChunk,     \* skipped rows stored at once (1000 in the code)
    MinRows,       \* SYNC_FULL_MIN_ROWS
    MaxRuns        \* bound of the model: runs that follow one another

Row == [key : Keys, hash : Hashes]

\* In a file each key has one row (docs/spec.md, section 2: rows that share
\* zipcode, jis_code and town differ in town_kana).
UniqueKeys(file) == \A i, j \in DOMAIN file : file[i].key = file[j].key => i = j

ASSUME ApplyAssumption ==
    /\ IsFiniteSet(Keys) /\ Absent \notin Hashes
    /\ SkipKeys \subseteq Keys
    /\ FullFiles \subseteq Seq(Row)
    /\ \A f \in FullFiles : UniqueKeys(f)
    /\ \A w \in Windows :
          /\ w \in Seq([add : Seq(Row) \cup {NotFound},
                       del : Seq(Keys) \cup {NotFound}])
          /\ \A i \in DOMAIN w : w[i].add # NotFound => UniqueKeys(w[i].add)
    /\ {BatchSize, DeleteChunk, SkipChunk} \subseteq Nat \ {0}
    /\ MinRows \in Nat /\ MaxRuns \in Nat

VARIABLES
    prune,      \* SYNC_FULL_PRUNE
    fallback,   \* SYNC_DIFF_FALLBACK_FULL
    db,         \* the table of addresses
    full,       \* the published full file
    window,     \* the published files of each month, oldest first
    pc,         \* where the run is
    type,       \* run.Type
    month,      \* the month runDiff works on
    applied,    \* months applied so far
    input,      \* rows of the open file still to parse
    delKeys,    \* keys still to delete
    batch,      \* rows parsed and not yet applied
    seen,       \* keys of the full file, for the pruning
    res,        \* ApplyResult of the file or month at work
    agg,        \* sum over the months applied
    skipBuf,    \* skipped rows not yet stored
    skipStored, \* rows of the run in sync_skipped_rows
    base,       \* history: the table when the run began
    due,        \* history: what the files opened so far should make of it
    last,       \* the row of sync_runs the last run left
    nruns

vars == <<prune, fallback, db, full, window, pc, type, month, applied, input,
          delKeys, batch, seen, res, agg, skipBuf, skipStored, base, due, last,
          nruns>>

\* What the configuration and the publisher have set.
sources == <<prune, fallback, full, window>>

Zero == [added |-> 0, updated |-> 0, deleted |-> 0, skipped |-> 0, total |-> 0]

Plus(r, s) ==
    [added |-> r.added + s.added, updated |-> r.updated + s.updated,
     deleted |-> r.deleted + s.deleted, skipped |-> r.skipped + s.skipped,
     total |-> r.total + s.total]

Stored(d) == {k \in Keys : d[k] # Absent}

-----------------------------------------------------------------------------
(* What a run promises, in one step: the table after a whole file. *)

KeysOf(file) == {file[i].key : i \in DOMAIN file}

\* The keys of a file that the regular expression lets through.
Listed(file) == KeysOf(file) \ SkipKeys

\* The table d with the rows of a file.
With(d, file) ==
    [k \in Keys |-> IF k \in Listed(file)
                    THEN (CHOOSE r \in {file[i] : i \in DOMAIN file} :
                              r.key = k).hash
                    ELSE d[k]]

Without(d, ks) == [k \in Keys |-> IF k \in ks THEN Absent ELSE d[k]]

FullResult(d, file) ==
    IF prune THEN Without(With(d, file), Keys \ Listed(file)) ELSE With(d, file)

\* One month: the abolished keys go, then the new rows come.
MonthResult(d, m) ==
    LET e == IF m.del = NotFound THEN d
             ELSE Without(d, {m.del[i] : i \in DOMAIN m.del})
    IN  IF m.add = NotFound THEN e ELSE With(e, m.add)

\* The months of a window, oldest first.
WindowResult(d, w) ==
    LET upTo[n \in 0..Len(w)] ==
            IF n = 0 THEN d ELSE MonthResult(upTo[n - 1], w[n])
    IN  upTo[Len(w)]

-----------------------------------------------------------------------------
Init ==
    /\ prune \in BOOLEAN
    /\ fallback \in BOOLEAN
    /\ db \in [Keys -> Hashes \cup {Absent}]
    /\ full \in FullFiles
    /\ window \in Windows
    /\ pc = "idle"
    /\ type = "none"
    /\ month = 0
    /\ applied = 0
    /\ input = <<>>
    /\ delKeys = <<>>
    /\ batch = <<>>
    /\ seen = {}
    /\ res = Zero
    /\ agg = Zero
    /\ skipBuf = 0
    /\ skipStored = 0
    /\ base = db
    /\ due = db
    /\ last = [status |-> "none", type |-> "none", counts |-> Zero]
    /\ nruns = 0

\* resolveType: an automatic run is full on an empty table.
Resolve(req) ==
    IF req = "auto"
    THEN IF Stored(db) = {} THEN "full" ELSE "diff"
    ELSE req

\* A run begins: the type is resolved and the row created.
StartRun(req) ==
    /\ pc = "idle"
    /\ nruns < MaxRuns
    /\ nruns' = nruns + 1
    /\ type' = Resolve(req)
    /\ pc' = IF type' = "full" THEN "download" ELSE "month"
    /\ month' = 1
    /\ applied' = 0
    /\ seen' = {}
    /\ res' = Zero
    /\ agg' = Zero
    /\ skipBuf' = 0
    /\ skipStored' = 0
    /\ base' = db
    /\ due' = db
    /\ last' = [status |-> "running", type |-> type', counts |-> Zero]
    /\ UNCHANGED <<db, sources, input, delKeys, batch>>

\* execute writes the row at the end of the run.
End(status, counts) ==
    /\ pc' = "idle"
    /\ last' = [status |-> status, type |-> type, counts |-> counts]
    /\ input' = <<>>
    /\ delKeys' = <<>>
    /\ batch' = <<>>

\* runFull, or executeUpload: the file is open and the applier begins.
OpenFull ==
    /\ pc = "download"
    /\ pc' = "rows"
    /\ input' = full
    /\ due' = FullResult(base, full)
    /\ UNCHANGED <<db, sources, type, month, applied, delKeys, batch, seen, res,
                   agg, skipBuf, skipStored, base, last, nruns>>

\* runDiff: both files of the month are fetched; the month is passed over
\* when neither is published.
OpenMonth ==
    /\ pc = "month"
    /\ month <= Len(window)
    /\ due' = MonthResult(due, window[month])
    /\ LET m == window[month] IN
         IF m.add = NotFound /\ m.del = NotFound
         THEN /\ month' = month + 1
              /\ UNCHANGED <<pc, input, delKeys, res>>
         ELSE /\ pc' = IF m.del = NotFound THEN "rows" ELSE "delete"
              /\ input' = IF m.add = NotFound THEN <<>> ELSE m.add
              /\ delKeys' = IF m.del = NotFound THEN <<>> ELSE m.del
              /\ res' = [Zero EXCEPT !.total = Len(delKeys')]
              /\ UNCHANGED month
    /\ UNCHANGED <<db, sources, type, applied, batch, seen, agg, skipBuf,
                   skipStored, base, last, nruns>>

\* Mutant of DeleteSome: the count is the size of the chunk, not the number
\* of rows the statement reports.
DeleteSomeCountsKeys ==
    /\ pc = "delete"
    /\ delKeys # <<>>
    /\ LET n == IF Len(delKeys) < DeleteChunk THEN Len(delKeys) ELSE DeleteChunk
       IN  /\ db' = Without(db, {delKeys[i] : i \in 1..n})
           /\ delKeys' = SubSeq(delKeys, n + 1, Len(delKeys))
           /\ res' = [res EXCEPT !.deleted = @ + n]
    /\ UNCHANGED <<sources, pc, type, month, applied, input, batch, seen, agg,
                   skipBuf, skipStored, base, due, last, nruns>>

\* DeleteByKeys: one chunk, committed on its own.
DeleteSome ==
    /\ pc = "delete"
    /\ delKeys # <<>>
    /\ LET n == IF Len(delKeys) < DeleteChunk THEN Len(delKeys) ELSE DeleteChunk
           chunk == {delKeys[i] : i \in 1..n}
       IN  /\ db' = Without(db, chunk)
           /\ delKeys' = SubSeq(delKeys, n + 1, Len(delKeys))
           /\ res' = [res EXCEPT !.deleted = @ + Cardinality(chunk \cap Stored(db))]
    /\ UNCHANGED <<sources, pc, type, month, applied, input, batch, seen, agg,
                   skipBuf, skipStored, base, due, last, nruns>>

\* The add file is next.
DeleteDone ==
    /\ pc = "delete"
    /\ delKeys = <<>>
    /\ pc' = "rows"
    /\ UNCHANGED <<db, sources, type, month, applied, input, delKeys, batch,
                   seen,
                   res, agg, skipBuf, skipStored, base, due, last, nruns>>

\* Mutant of ParseRow: the batch is flushed one row too late.
ParseRowLateFlush ==
    /\ pc = "rows"
    /\ input # <<>>
    /\ LET r == Head(input) IN
         IF r.key \in SkipKeys
         THEN /\ res' = [res EXCEPT !.skipped = @ + 1]
              /\ skipBuf' = skipBuf + 1
              /\ UNCHANGED <<batch, seen, pc, skipStored>>
         ELSE /\ batch' = Append(batch, r)
              /\ seen' = IF type = "full" /\ prune THEN seen \cup {r.key} ELSE seen
              /\ pc' = IF Len(batch') > BatchSize THEN "flush" ELSE pc
              /\ UNCHANGED <<skipBuf, skipStored, res>>
    /\ input' = Tail(input)
    /\ UNCHANGED <<db, sources, type, month, applied, delKeys, agg, base, due,
                   last,
                   nruns>>

\* Mutant of ParseRow: a row that matches is counted as skipped and goes into
\* the batch all the same.
ParseRowKeepsSkipped ==
    /\ pc = "rows"
    /\ input # <<>>
    /\ batch' = Append(batch, Head(input))
    /\ pc' = IF Len(batch') >= BatchSize THEN "flush" ELSE pc
    /\ IF Head(input).key \in SkipKeys
       THEN /\ res' = [res EXCEPT !.skipped = @ + 1]
            /\ skipStored' = skipStored + 1
            /\ UNCHANGED seen
       ELSE /\ seen' = IF type = "full" /\ prune THEN seen \cup {Head(input).key}
                      ELSE seen
            /\ UNCHANGED <<res, skipStored>>
    /\ input' = Tail(input)
    /\ UNCHANGED <<db, sources, type, month, applied, delKeys, agg, skipBuf, base,
                   due, last, nruns>>

\* parseStreamWithOptions: a row whose town matches is skipped, any other
\* goes into the batch, which is flushed when it is full.
ParseRow ==
    /\ pc = "rows"
    /\ input # <<>>
    /\ LET r == Head(input) IN
         IF r.key \in SkipKeys
         THEN /\ res' = [res EXCEPT !.skipped = @ + 1]
              /\ IF skipBuf + 1 >= SkipChunk
                 THEN skipBuf' = 0 /\ skipStored' = skipStored + skipBuf + 1
                 ELSE skipBuf' = skipBuf + 1 /\ UNCHANGED skipStored
              /\ UNCHANGED <<batch, seen, pc>>
         ELSE /\ batch' = Append(batch, r)
              /\ seen' = IF type = "full" /\ prune THEN seen \cup {r.key} ELSE seen
              /\ pc' = IF Len(batch') >= BatchSize THEN "flush" ELSE pc
              /\ UNCHANGED <<skipBuf, skipStored, res>>
    /\ input' = Tail(input)
    /\ UNCHANGED <<db, sources, type, month, applied, delKeys, agg, base, due,
                   last,
                   nruns>>

\* Mutant of Changed: the unchanged rows are written, and counted, too.
ChangedAll == DOMAIN batch

\* applyBatch: the stored hashes of the batch are read once, each row is
\* classified against them, and the changed rows are written in order in one
\* transaction, so that of two rows with one key the later stays.
Changed == {i \in DOMAIN batch : db[batch[i].key] # batch[i].hash}
New == {i \in DOMAIN batch : db[batch[i].key] = Absent}

ChangedAt(k) == {i \in Changed : batch[i].key = k}

ApplyBatch ==
    /\ db' = [k \in Keys |->
                 IF ChangedAt(k) = {} THEN db[k]
                 ELSE batch[CHOOSE i \in ChangedAt(k) :
                                \A j \in ChangedAt(k) : j <= i].hash]
    /\ res' = [res EXCEPT !.added = @ + Cardinality(New),
                          !.updated = @ + Cardinality(Changed \ New)]
    /\ batch' = <<>>

\* A full batch is flushed while the file is being parsed.
FlushFull ==
    /\ pc = "flush"
    /\ ApplyBatch
    /\ pc' = "rows"
    /\ UNCHANGED <<sources, type, month, applied, input, delKeys, seen, agg,
                   skipBuf, skipStored, base, due, last, nruns>>

\* The end of the file: what is left of the skipped rows is stored.
StoreSkipped ==
    /\ pc = "rows"
    /\ input = <<>>
    /\ pc' = "flushLast"
    /\ skipStored' = skipStored + skipBuf
    /\ skipBuf' = 0
    /\ UNCHANGED <<db, sources, type, month, applied, input, delKeys, batch,
                   seen,
                   res, agg, base, due, last, nruns>>

\* The last batch of a month: runDiff adds its counts up and goes on.
FlushMonth ==
    /\ pc = "flushLast"
    /\ type = "diff"
    /\ ApplyBatch
    /\ LET m == window[month]
           n == IF m.add = NotFound THEN 0 ELSE Len(m.add)
       IN  agg' = Plus(agg, [res' EXCEPT !.total = @ + n])
    /\ applied' = applied + 1
    /\ month' = month + 1
    /\ pc' = "month"
    /\ UNCHANGED <<sources, type, input, delKeys, seen, skipBuf, skipStored,
                   base, due,
                   last, nruns>>

\* Mutant of FlushFile: what the last flush finds in the batch is dropped.
FlushFileDropsRest ==
    /\ pc = "flushLast"
    /\ type = "full"
    /\ batch' = <<>>
    /\ pc' = "counted"
    /\ UNCHANGED <<db, sources, type, month, applied, input, delKeys, seen, res,
                   agg, skipBuf, skipStored, base, due, last, nruns>>

\* The last batch of a full file: the pruning is next.
FlushFile ==
    /\ pc = "flushLast"
    /\ type = "full"
    /\ ApplyBatch
    /\ pc' = "counted"
    /\ UNCHANGED <<sources, type, month, applied, input, delKeys, seen, agg,
                   skipBuf, skipStored, base, due, last, nruns>>

\* All rows of the file count, the skipped ones too.  Too few of them fail
\* the run and nothing is pruned.
Counted == [res EXCEPT !.total = Len(full)]

\* Mutant of EndFull: the pruning does not ask how long the file was.
EndFullAnyLength ==
    /\ pc = "counted"
    /\ IF ~prune THEN End("success", Counted)
       ELSE pc' = "prune" /\ UNCHANGED <<last, input, delKeys, batch>>
    /\ res' = Counted
    /\ UNCHANGED <<db, sources, type, month, applied, seen, agg, skipBuf,
                   skipStored, base, due, nruns>>

EndFull ==
    /\ pc = "counted"
    /\ IF ~prune THEN End("success", Counted)
       ELSE IF Len(full) < MinRows THEN End("failed", Counted)
       ELSE /\ pc' = "prune"
            /\ UNCHANGED <<last, input, delKeys, batch>>
    /\ res' = Counted
    /\ UNCHANGED <<db, sources, type, month, applied, seen, agg, skipBuf,
                   skipStored, base, due, nruns>>

\* DeleteNotIn works through the stored keys in the order of their ids, which
\* is any order, and deletes those the file has not listed.
StaleKeys == Stored(db) \ seen

PruneSome ==
    /\ pc = "prune"
    /\ \E k \in StaleKeys : db' = Without(db, {k})
    /\ res' = [res EXCEPT !.deleted = @ + 1]
    /\ UNCHANGED <<sources, pc, type, month, applied, input, delKeys, batch,
                   seen,
                   agg, skipBuf, skipStored, base, due, last, nruns>>

PruneDone ==
    /\ pc = "prune"
    /\ StaleKeys = {}
    /\ End("success", res)
    /\ UNCHANGED <<db, sources, type, month, applied, seen, res, agg, skipBuf,
                   skipStored, base, due, nruns>>

\* runDiff is through its window: with no month applied it falls back to a
\* full run, if it may.
EndDiff ==
    /\ pc = "month"
    /\ month > Len(window)
    /\ IF applied > 0 THEN End("success", agg) /\ UNCHANGED <<type, res>>
       ELSE IF ~fallback THEN End("failed", agg) /\ UNCHANGED <<type, res>>
       ELSE /\ type' = "full"
            /\ pc' = "download"
            /\ res' = Zero
            /\ UNCHANGED <<last, input, delKeys, batch>>
    /\ UNCHANGED <<db, sources, month, applied, seen, agg, skipBuf, skipStored,
                   base, due, nruns>>

\* A download, a row or a statement fails, and the run with it.  A full run
\* reports what it has applied, without its deletions; a diff reports the
\* months before the one that failed.  A parse that fails still stores its
\* skipped rows, if the database lets it.
RunError ==
    /\ pc \in {"download", "month", "delete", "rows", "flush", "flushLast",
              "prune"}
    /\ pc = "month" => month <= Len(window)
    /\ End("failed", IF type = "full" THEN [res EXCEPT !.deleted = 0] ELSE agg)
    /\ \/ UNCHANGED skipStored
       \/ pc \in {"rows", "flush"} /\ skipStored' = skipStored + skipBuf
    /\ UNCHANGED <<db, sources, type, month, applied, seen, res, agg, skipBuf,
                   base, due, nruns>>

\* A full chunk of skipped rows cannot be stored.  The parse ends there, and
\* its last flush tries the same rows once more.
StoreChunkError ==
    /\ pc = "rows"
    /\ input # <<>>
    /\ Head(input).key \in SkipKeys
    /\ skipBuf + 1 >= SkipChunk
    /\ res' = [res EXCEPT !.skipped = @ + 1]
    /\ End("failed", IF type = "full" THEN [res' EXCEPT !.deleted = 0] ELSE agg)
    /\ skipStored' \in {skipStored, skipStored + skipBuf + 1}
    /\ UNCHANGED <<db, sources, type, month, applied, seen, agg, skipBuf,
                   base, due,
                   nruns>>

Next ==
    \/ \E req \in {"auto", "full", "diff"} : StartRun(req)
    \/ OpenFull \/ OpenMonth \/ DeleteSome \/ DeleteDone
    \/ ParseRow \/ FlushFull \/ StoreSkipped \/ FlushMonth \/ FlushFile
    \/ EndFull \/ PruneSome \/ PruneDone \/ EndDiff
    \/ RunError \/ StoreChunkError

Spec == Init /\ [][Next]_vars

-----------------------------------------------------------------------------
Counts == [added : Nat, updated : Nat, deleted : Nat, skipped : Nat, total : Nat]

\* Types.
TypeOK ==
    /\ prune \in BOOLEAN
    /\ fallback \in BOOLEAN
    /\ db \in [Keys -> Hashes \cup {Absent}]
    /\ full \in FullFiles
    /\ window \in Windows
    /\ pc \in {"idle", "download", "month", "delete", "rows", "flush",
               "flushLast", "counted", "prune"}
    /\ type \in {"none", "full", "diff"}
    /\ month \in Nat
    /\ applied \in Nat
    /\ input \in Seq(Row)
    /\ delKeys \in Seq(Keys)
    /\ batch \in Seq(Row) /\ Len(batch) <= BatchSize
    /\ seen \subseteq Keys
    /\ res \in Counts
    /\ agg \in Counts
    /\ skipBuf \in Nat /\ skipBuf < SkipChunk
    /\ skipStored \in Nat
    /\ base \in [Keys -> Hashes \cup {Absent}]
    /\ due \in [Keys -> Hashes \cup {Absent}]
    /\ last \in [status : {"none", "running", "success", "failed"},
                 type : {"none", "full", "diff"}, counts : Counts]
    /\ nruns \in Nat

Succeeded == pc = "idle" /\ last.status = "success"

\* A run that says success has done to the table what its files say, however
\* its rows fell into batches and chunks: the whole file for a full run, the
\* months in order, deletions first, for a diff.
SuccessMatchesFiles == Succeeded => db = due

\* The counts of a successful run account for the size of the table, and
\* rows_skipped for the rows of the run in sync_skipped_rows.
SuccessCountsBalance ==
    Succeeded =>
        /\ Cardinality(Stored(db)) + last.counts.deleted
              = Cardinality(Stored(base)) + last.counts.added
        /\ last.counts.skipped = skipStored

\* At no moment of a full run, failed or not, is an address missing that was
\* there before, unless the file was read whole, was long enough and does
\* not list the address: a truncated download deletes nothing.
FullRunKeepsListed ==
    type = "full" =>
        \A k \in Stored(base) :
            \/ k \in Stored(db)
            \/ /\ prune /\ Len(full) >= MinRows
               /\ k \notin Listed(full)
               /\ input = <<>>

\* A full run over a table that already is what its file says writes nothing
\* and counts nothing ("同一文件重复执行结果一致（计数稳定）",
\* docs/architecture.md 5.3).
FullRerunIsQuiet ==
    type = "full" /\ FullResult(base, full) = base =>
        /\ db = base
        /\ res.added = 0 /\ res.updated = 0 /\ res.deleted = 0

\* Whether the file of a month abolishes a key.
Abolished(k, m) ==
    /\ window[m].del # NotFound
    /\ \E i \in DOMAIN window[m].del : window[m].del[i] = k

\* No step of a run, one that fails later included, makes an address anything
\* but what the files opened so far make of it; only in a month an abolished
\* address may first go that the new rows bring back.  A row the filter matches
\* is never written, whatever batch it falls next to.
WritesFollowFiles ==
    [][\A k \in Keys :
          db'[k] # db[k] =>
              \/ db'[k] = due[k]
              \/ pc = "delete" /\ db'[k] = Absent /\ Abolished(k, month)]_vars

\* A diff over a window that the table already reflects leaves the table as
\* it is once it is over ("重复覆盖近几个月零副作用", docs/spec.md,
\* synchronisation, point 4), the failed one too ("不破坏既有数据", point 7).
DiffRerunKeepsTable ==
    pc = "idle" /\ last.type = "diff" /\ WindowResult(base, window) = base
        => db = base
=============================================================================
