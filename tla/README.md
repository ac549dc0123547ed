# A TLA+ development for JapanDigitalPostService

JapanDigitalPostService downloads the postal-code files of Japan Post, keeps a
table of addresses in step with them and answers queries over HTTP. This
directory holds TLA+ models of the program, the configurations with which TLC
checks them, and proofs checked by TLAPS. Paths below are relative to `src/`.

1. [The system](#1-the-system): its parts, their state, how they interact
2. [The modules](#2-the-modules): what models what, and how
3. [The runs](#3-the-runs): what TLC checks, with which bounds and fairness
4. [Disagreements](#4-disagreements-between-code-and-documents)
5. [The proofs](#5-the-proofs)
6. [What is not modelled](#6-what-is-not-modelled)
7. [The plan](#7-the-plan)

## 1. The system

A deployment is one database (SQLite, MySQL or PostgreSQL) and any number of
processes on it: servers (`cmd/server`: HTTP API, cron scheduler, management
page) and batch jobs (`cmd/batch`: one synchronisation, then exit). Nothing but
the database is shared between processes.

| Part | State | Operations | Hard about it | Correct when |
|---|---|---|---|---|
| Sync lock, `internal/store/lock.go` | the row of `sync_locks`: locked, holder, acquired_at | `Acquire`, the release closure | a lease of `lockTTL` (2 h) that nothing renews; clocks of several hosts; crashes; lost answers; a late release | two holders only past the lease; nobody frees another's lock; what is left behind expires |
| Engine, run lifecycle, `internal/sync/engine.go` | rows of `sync_runs`, `asyncCtx`, `asyncWG` | `Run`, `TriggerAsync`, `UploadFull`, `beginRun`, `execute`, `persistContext`, `Shutdown` | goroutines that outlive requests; contexts cancelled between check and use; errors at every statement | one writer; the row settles before the lock is freed and stays settled; cancelled runs settle |
| Process lifecycle, `cmd/server/main.go`, `cmd/batch/main.go`, `internal/sync/scheduler.go`, `internal/app/wire.go` | signal and shutdown contexts, scheduler | clean-up at start, signal, staged shutdown, crash | order of the stages; a job that fires during the shutdown; a restart beside live processes | nothing is left behind; dead runs are settled; live ones are let be; shutdowns end |
| Run bodies and applier, `internal/sync/engine.go`, `applier.go`, `internal/store/address_repo.go` | the tables `addresses` and `sync_skipped_rows`, the batch, the counts | `runFull`, `runDiff`, `executeUpload`, `applyBatch`, `DeleteByKeys`, `DeleteNotIn`, `flushSkipped` | batches and chunks committed one by one; failures in between; last partial batch; truncated files | the table is what the files say; counts add up; failures do no harm; a rerun is quiet |
| Downloader and parser, `internal/sync/downloader.go`, `parser.go` | the retries (an atomic of the fetcher, set by each run) | `Fetch`, `fetchOnce`, `SetMaxRetry`, `ParseStream` | retries against cancellation; which errors are retried; a publisher that never answers | at most N+1 attempts, nothing asked again after a final answer; a run ends |
| Runtime settings, `internal/settings`, `internal/store/settings_repo.go`, `internal/server/settings_handlers.go` | rows of `runtime_settings` | `Update`, `ResolveSyncSettings`, the engine's `resolveRuntime` | several keys written one by one; read while they change; rows nobody validated; fallbacks | an answer shows what was asked; a run works with what was answered, and never with an invalid value |
| Tokens, `internal/auth`, `internal/store/token_repo.go` | rows of `tokens` | issue, authenticate and touch, revoke, bootstrap | revocation against authentication; two starts; an overflow of the TTL | a revoked or expired token passes nobody; a revocation stands; one bootstrap token |
| Queries, status, history, `internal/query`, `internal/store/address_read_repo.go`, `internal/server/sync_handlers.go` | none of their own | `Search`, `GetByZipcode`, `CountAll`, `syncStatus`, `syncRuns`, `syncSkippedRows` | several statements, and pages asked for one by one, read while a run writes | what may be stale is bounded; a walk over pages misses nothing that stays |
| Connection pool, `internal/store/store.go` | connections taken and waited for | `configurePool`; every statement | one connection with SQLite; who waits for whom | every request ends; the start-up does |
| Router, middleware, payload encryption, configuration, migrations | none that changes | plumbing | - | - |
| Management page, `web/src/App.tsx` | token, status, runs, error | loading, triggers | answers that arrive late (`load` discards them by its generation) | what is shown belongs to the current token |

How they meet: an HTTP trigger, an upload, a cron job or a batch job calls the
engine; the engine takes the lock, creates a run row, applies batches, updates
the row, releases the lock. `main` starts by marking leftover running rows as
failed and ends by stopping, in this order, the HTTP server, the engine and the
scheduler. `PROJECT.json` lists the hazards of all this under `hazards`, each at
its line and with the properties that would notice it.

## 2. The modules

| Module | Models | State |
|---|---|---|
| `SingleWriter` | what the lock promises: at most one writer (abstract) | `writers` |
| `SyncLock` | `lock.go`, statement by statement | `clock`, `lock`, `phase`, `stamp` |
| `RunLedger` | what `sync_runs` promises those who read it (abstract) | `status` |
| `SyncEngine` | the engine's attempts in their processes, over `SyncLock` | lock row, `proc`, `pc`, `kind`, `gone`, `todo`, `result`, `pctx`, `runs`, `stale`, `current` |
| `SyncApply` | what one run does to the table | `db`, the files, `pc`, `batch`, `seen`, `res`, `agg`, skipped rows, `last`; histories `base`, `due` |
| `Tokens` | the access tokens: requests on several servers, statement by statement | `clock`, `tokens`, `proc`, `phase`, `presented`, `op`, `row`, `target`, `at`, `late` |
| `RuntimeSettings` | the settings service and its table, statement by statement | `overrides`, `req`, `writer`, `shown` |
| `Downloader` | one call of `Fetch` at a time | `maxRetry`, `cancelled`, `fetch` |
| `RunInput` | what a run works with: composes `RuntimeSettings` and `Downloader` | theirs and `lookback`, `fallback`, `run` |
| `ReadPath` | clients that read while a run writes, through the pool | `boot`, `maxOpen`, `conn`, `addresses`, `nextId`, `runs`, `skipped`, `engine`, `client` |
| `SyncLock_proofs`, `SyncEngine_proofs`, `Tokens_proofs`, `SyncApply_proofs`, `RunInput_proofs`, `ReadPath_proofs` | theorems | |
| `MC*` | instances for TLC | |

**SyncLock.** A session is one call of `Acquire` and its release closure; its
holder is a fresh uuid, so the session stands for it. `ReadClock` is `Acquire`
up to `now := time.Now()`, and the conditional `UPDATE` comes later as one
atomic statement: `Acquire` (one row affected), `Refuse` (none) or
`AcquireError`, where a lost connection may hide a commit. `Release` is the
`UPDATE` with the holder in its condition. Each process has its own clock,
`Skew` ahead of the true time. `Tick` keeps sessions no longer than `MaxHold`;
`InTime` says that this is within the lease for every pair of clocks.

**SyncEngine.** An attempt is one call of `Run`, `TriggerAsync` or
`UploadFull`, and stands also for its row in `sync_runs`. `pc` follows the
code:

    idle -Begin-> stamped -AcquireLock-> locked -ResolveType-> typed
      -BeginRun-> apply <-ReadBatch/WriteBatch-> batch
    apply -ApplyDone/ApplyError-> persist -PersistContext-> update
      -UpdateRun/UpdateRunError-> release -ReleaseLock-> done

with an error action beside each statement. `CtxDone` tells when the context of
an attempt is cancelled: `asyncCtx` for triggers, the scheduler's for cron jobs,
the signal's for batch jobs, the request's for uploads. `persistContext` is a
step of its own, because the context it returns is used by the next statement.
A process is `down`, `cleaning` (between the read and the saves of
`MarkRunningFailed`), `up`, `draining` (`srv.Shutdown`), `cancelling`
(`engine.Shutdown`) or `stopping` (the deferred `sch.Stop`). `L` is `SyncLock`
with `phase` computed from `pc`; every step on the row is a step of that module.
A batch is its two statements; `current` remembers whether another attempt has
written in between.

**RunLedger.** What `SyncRunRepository` is for, seen by those who read the rows: a
run is opened as running (`Create`), closed once with its outcome (`Update`), or
swept with others that were left running (`MarkRunningFailed`, one transaction). Its
`status` is `runs` of `SyncEngine`. The engine does not check any of this when it
writes: `Update` saves the whole row whatever it says by then, so that it keeps the
ledger only by the order of its steps.

**SyncApply.** One run at a time (that is what the lock is for), runs one after
another. A row of a file is a key and a hash; `db` maps keys to hashes. The
actions are the statements: opening a file or a month, one chunk of
`DeleteByKeys`, one parsed row, one `applyBatch`, the last flush, the minimum of
rows, one deletion of `DeleteNotIn`, `RunError` at every point where the code
returns an error, and `StoreChunkError` where it has a chunk of skipped rows in
hand and tries to store it once more. `FullResult` and `MonthResult` say in one
step what a file or a month should make of the table; the history variable `due`
adds them up as files are opened. `DeleteNotIn` removes ids in chunks of 500, each
committed on its own; the model removes them one at a time in any order, which
has every cut between chunks among its behaviours.

**Tokens.** A request follows `RequireScope` and the handler behind it:

    new -Arrive-> arrived -ReadToken-> found -Check-> active -Touch-> granted
    granted -Serve/Issue-> ok
    granted -Revoke-> revoking -RevokeUpdate-> ok
                      revoking -RevokeUpdate-> counting -RevokeCount-> ok, notfound

with `ReadNone`, a failed `Check`, a scope that does not suffice and the errors
of each statement leading to an answer of their own. `row` is what `GetByHash`
returned: it is checked and touched later, when the table may have changed. A
server is `down`, `creating` (between the two statements of `EnsureBootstrap`),
`up` or `failed`. An issued token has a random plaintext, so its hash is taken to
be its id; `BootHash` is the hash of the bootstrap token. `Wrap` is the
arithmetic of `time.Duration`, with `2 * Half` values. `late` is history: the
requests whose token was already dead when they arrived. Prefixes, names and the
listing of tokens are left out.

**RuntimeSettings.** A request is working from its validation to its answer;
`in` is its body, `todo` the keys it has yet to write, one statement each. `Put`
is the validation, which refuses the whole body or nothing; `Write` is a `Set`
or a `Delete`; `WriteFails` is an error or the deadline, after which the
statement may have been done all the same; `Answer` is `resolve` once more over
the table. `Get` is an update that writes nothing. `overrides` may hold
anything at first (an older version or a hand may have written it). `Effective`
is `resolve`. `writer` and `shown` are history: who wrote a key last, and what
that writer was told.

**Downloader.** `fetch` is the call: `request` while an attempt is under way,
`backoff` while the loop waits, `off` when it has returned. `log` keeps the
outcomes of its attempts. `Receives` is any answer of the publisher,
`AttemptEnds` the timeout of the attempt, `Elapses` and `WaitCancelled` the two
arms of the `select`. A zip without a CSV is final in the code (`openZipCSV` is
outside the loop), a body shorter than announced is retried.

**RunInput.** `run.pc` follows a run: `settings` (before `resolveRuntime`),
`source`, `add` and `del` (the two downloads of a month), `full`, `apply`. What
is done with the files is `SyncApply`'s; here it succeeds or fails. `maxRetry`
is the fetcher's and outlives the run, `promise` is history: what the page had
answered when the run read the settings. `MonthsBack` is `AddDate` of Go, with
its normalisation of days past the end of a month.

**ReadPath.** A request is a list of statements, `left`; each waits for a
connection (`conn`), gets one (`Grant`), and is done when it is given back
(`Read`). The deadline, a disconnect or an error ends it anywhere (`Fails`). The
token's `SELECT` and its touch are one statement here (`Tokens` separates them).
A statement of a run is a transaction and shows when it commits. The ids of
addresses are what the order of pages depends on: `Upsert` gives new rows the
next ids and leaves those of known rows, but gives them the `names` of the batch:
the prefecture, the city and their kana, which `UpsertBatch` overwrites. A query is
the set of pairs of key and names that it matches (`Matches` is `buildWhere`). A
query by zipcode looks at the key alone, so no update changes what it lists; one by
prefecture, by city or by `q` may gain and lose rows through an update, as when a
city is renamed under its `jis_code`. The runs of
the one process follow one another, and their `started_at` is taken to be
strictly increasing. A client walks on until a page is not full and asks for the
same page again after a failure; `start`, `grown` and `shrunk` are history: what
was listed when the first page was read, and whether the listing has gained or
lost anything since the walk began.

Each definition that models code is listed with its lines under `map` in
`PROJECT.json`. Beside some definitions stand faulty versions of them, marked
"Mutant"; nothing uses them. They are what `mutants` refers to: with one put in
place of the definition, the named run finds the named property violated.

## 3. The runs

`tlc -workers 2 -config X.cfg M` in this directory. `RunInput.cfg` and
`ReadPath.cfg` check for deadlocks too; the other `.cfg` switch that off,
because those models stop when all attempts, runs or the clock are used up,
which is a bound of the models and not of the program.

| Run | Configuration | Checks |
|---|---|---|
| `lock` | `SyncLock.cfg`, 22,673 states | `TypeOK`, `ExclusiveWithinLease`, `HandoverOnlyByOwnerOrExpiry`, `AbandonedLockExpires` |
| `engine_one_server` | `EngineOneServer.cfg`, 2.3 M states | `TypeOK`, `LiveRunHoldsLock`, `ExitLeavesNothingBehind`, `FailedRunIsOver`, `RowsFollowLedger` |
| `engine_two_processes` | `EngineTwoProcesses.cfg`, 2.7 M states | `BatchIsolation`, `RestartSettlesDeadRuns`, `OneWriterAtATime`, `SettledRowsChange` |
| `engine_fair` | `EngineFair.cfg`, 33 k states | `CancelledRunSettles`, `ShutdownEnds` |
| `apply` | `Apply.cfg`, 536 k states | `TypeOK`, `SuccessMatchesFiles`, `SuccessCountsBalance`, `FullRunKeepsListed`, `FullRerunIsQuiet`, `WritesFollowFiles` |
| `tokens` | `Tokens.cfg`, 740 k states | `TypeOK`, `DeadTokenNeverPasses`, `OneRowPerHash`, `RevokeAnswerHolds`, `BootstrapSettles`, `FirstRevocationStands` |
| `run_input` | `RunInput.cfg`, 332 k states | `TypeOK`, `RunUsesAnsweredSettings`, `DirtyRowsNeverReachRun`, `FetchKeepsToPolicy`, `MonthsAreConsecutive`, `AnswerShowsOwnWrites`, `RunEnds` |
| `reads` | `ReadPath.cfg`, 132 k states | `TypeOK`, `WalkIsExact`, `IdleStatusIsCurrent`, `UntruncatedIsComplete`, `RequestsEnd`, `StartCompletes` |
| `engine_job_start`, `engine_shutdown`, `apply_rerun`, `tokens_ttl` | see section 4 | one claim of the documents each, violated |

**Bounds.**

- `lock`: three sessions on two processes whose clocks differ by one; `TTL = 2`
  and `MaxHold = 4`, so sessions do overrun their lease (`InTime` is false) and
  a holder can be preempted, end late, and find a third session's row.
  `MaxClock = 5` leaves room for two leases in a row.
- `engine_one_server`: two attempts of any kind on one server, one database
  error, one crash, `MaxClock = 2` with `TTL = 1` so that the lock of a dead
  attempt expires and is taken by the other. Two attempts suffice for one to run
  beside, after or instead of the other, and one error per behaviour keeps the
  causes apart. The attempts are interchangeable (`SYMMETRY`), and no liveness
  is checked there.
- `engine_two_processes`: a server and a batch job whose clock is one unit ahead,
  `TTL = 2`, `MaxHold = 1`: the tightest values within `InTime`.
- `MaxBatches = 1`: one pair of read and write is what another attempt can cut in
  two; the order of many batches is the subject of `SyncApply`.
- `apply`: four keys, two of which the skip filter matches, two hashes, every
  initial table, five full files (empty, only a skipped row, shorter than a
  batch, equal to a batch, longer) and five windows (nothing published, only
  deletions, additions after deletions, a change and a removal, a month with
  deletions of what it also adds), batches and deletion chunks of two, skip
  chunks of two (one file fills a chunk, others leave a rest), `MinRows = 1`, two
  runs in a row of every type with and without pruning and fallback.
- `tokens`: two servers, both with the bootstrap token, one clock a unit ahead of
  the other; one request on each, for anything, with any token; three ids
  (interchangeable), so that a bootstrap token can be joined by two issued ones;
  seconds of one unit and Durations of eight values, so that of the ttls one and
  five the second wraps; two ticks, so that the first expires; one database error.
  Two requests suffice: every property speaks of one token and one request, and
  what disturbs them is one other request or a start.

- `run_input`: two administrators with four bodies (three keys at once, with
  blanks around a value; a blank filter beside a reset; one that is refused; a key
  both set and reset), a table that holds an invalid address and an invalid
  filter, retries 0 and 1, a look-back of zero (which `NewEngine` makes three) and of
  one month, 31 March (a month whose predecessor is shorter) and 30 January 2000 (two
  years in one window, years that wrap at 100 in the names of files). `Bound` in
  `MCRunInput` lets both administrators work only until a run has read its
  settings, one beside its downloads, and none beside a cancelled run or a window
  of several months: a run reads the table once, so that is where the
  interleavings matter.
- `reads`: one client, three addresses of which one is missing at first, two of
  them with the same zipcode, pages of one row, queries by zipcode and by a text
  that occurs in the old name of a city and in one town, four batches (a row
  renamed, and named as before; an insertion, alone and before a renaming; what a
  batch holds may be deleted too), ids up to four so that one row can
  be deleted and inserted again, two runs, two skipped rows, one connection or
  two. A second client would only take a connection, which the run does already.
  `Bound` in `MCReadPath` lets runs write what the client reads, gives a second
  run or a second connection only where no address is written, and follows a walk
  until its listing has both gained and lost a row, of which nothing is claimed.

**Fairness.** Safety is checked without it (`AbandonedLockExpires` aside). `SyncLock`'s `Fairness` lets
time pass and lets a session that has begun end: `Acquire` is one statement and
every caller defers the release. `SyncEngine`'s is weak fairness of `Proceed`
(a live attempt runs: it is a goroutine with work to do, and its statements end)
and of `ShutDown` (`main` goes on once what it waits for is there). `Proceed`
includes the failure of a statement whose context is done, and no other error.
`RunInput`'s is weak fairness of the steps of the run and of the timers of
`Fetch`; the publisher owes nothing. `MCSpec` makes it strong for the run's steps,
because `Bound` may hold a step back while an administrator is at work, and lets
administrators' requests end. `ReadPath`'s is weak fairness of a statement that has
its connection (the database answers it, or the deadline of its context ends it)
and of the clean-up, and strong fairness of `Grant`: `database/sql` gives a free
connection to one of those that wait, chosen at random, so nobody who waits again
and again is passed over for ever. Nothing is assumed of triggers, signals, crashes, disconnects, errors or of
anybody restarting a process. `AbandonedLockExpires` is bounded by `MaxClock`
and says so in its premise.

**What they show.** With sessions that end within the lease there is one writer
at a time across processes, crashes, lost answers and skewed clocks, and no batch
is written over a table that has changed since it was classified; without that
assumption, two holders coexist only past the lease and a late release never
frees a successor's row. One server on its own settles its rows before its lock
is free, never writes under a row that says failed, leaves nothing running when
it exits, settles the rows of its dead runs when it is up again, and settles every
row once and for good (`RowsFollowLedger`). With several processes a settled row can
be rewritten, in two ways only: a process that starts saves what it has read of
another's row, and the owner saves its success over such a failure
(`SettledRowsChange`). Cancelled
runs get a settled row unless the process dies, provided the database does not
err. Batches, chunks, deletions and the last flush add up to the files, whatever
the sizes; a truncated file deletes nothing; and no single write, of a run that fails
later either, makes an address anything but what the files opened so far ask for,
save that an address which a month abolishes and brings back is gone in between
(`WritesFollowFiles`). A revoked or expired token passes no
request that arrives afterwards, on any server; one that was authenticated before
goes on, and its late touch does not undo the revocation. Servers that start
together agree on one bootstrap token. What an administrator was answered is what
the next run that can read the settings works with, whatever others change
meanwhile, and invalid rows reach no run. A run ends with a publisher that never
answers, so that the lock is held for a bounded time. Pages read one by one are
exact as long as no row comes into the listing or leaves it: an update that leaves
the names alone does not move a row, because the upsert keeps its id. When a row
came in, by an insertion or because it was renamed into a query by prefecture, city
or `q`, a row may be read twice; when one left, by a deletion or a renaming, one may
be missed. For a query by zipcode only insertions and deletions do that. An answer
that is not truncated is complete unless a row came to match between its two
statements, again by an insertion or by a renaming. A
status that says idle is not older than the runs it knows of, because the running
rows are read before the last success. One connection suffices: no statement waits
for another of its own goroutine.

## 4. Disagreements between code and documents

- `engine_job_start`: every process that starts marks *every* running row as
  failed. A batch job that starts while a server on the same database is
  synchronising marks the server's live run as failed; that run goes on, and its
  own `Update` overwrites the row at the end. The comment in
  `internal/app/wire.go:49` says the rows are those of the previous process.
- `engine_shutdown`: `persistContext` checks the context and returns it; when
  `engine.Shutdown` cancels it before `runs.Update`, the update fails, is
  logged, and the row says running until some process starts.
  `docs/spec.md:93` says that cancelled runs settle as failed. The run has no
  crash and no database error. (`CancelledRunSettles` is what does hold: a run
  cancelled *before* that check settles.)
- `apply_rerun`: `docs/spec.md:127` says applying the window again has no side
  effects and `docs/spec.md:132` that failed runs do not damage existing data. A
  rerun starts from the oldest month; if that month deletes (or carries an older
  state of) an address that a later month brings back, a run that fails in
  between leaves the table without it (or with the older state). The next
  successful run repairs it.
- `tokens_ttl`: `CreateToken` multiplies `ttl_seconds` by a second in an `int64` of
  nanoseconds. From about 292 years on the product wraps, and a token can be
  issued that has expired already. `docs/api/v1.md:608` gives no upper bound.

## 5. The proofs

`tlapm M.tla` checks each of `SyncLock_proofs`, `SyncEngine_proofs`,
`SyncApply_proofs`, `Tokens_proofs`, `RunInput_proofs` and `ReadPath_proofs`. They
hold for any set of sessions or attempts, processes, clock skews, TTL, batches,
errors and crashes, any files, windows, filters and sizes of batches and chunks, any
settings and number of retries, any clients, addresses and page sizes. The
assumptions on constants say what kinds of values they are (`SessionsAssumption`,
`TimeAssumption`, `TokensAssumption`, `NoneAssumption`, `DownloaderAssumption`,
`RunInputAssumption`); that a process which makes a batch job's call makes no other
(`EngineAssumption`); that a blank `town_skip_regex` is accepted and a blank
`scrape_full_url` is not (`SettingsAssumption`); that there are finitely many keys
and each occurs once in a file (`ApplyAssumption`); and that the ids of the addresses
at first are distinct and no larger than their number (`ReadPathAssumption`).

**SyncLock_proofs.** The inductive invariant is `LockInv`: types; `StampsPast`
(nobody carries a time its clock has not shown); `RowNamesStarted` (the row names
only sessions past their `UPDATE`, so a session about to take the row is not
already in it); and `HolderOwnsRow` (a session within its lease owns the row and
dated it). Exclusion alone is not inductive: that a second session cannot take the
row follows only from whose row it is and when it was dated. The step that
matters is taking a locked row: its date is then more than a TTL behind the
taker's clock, so its holder, if it still holds, has overrun (`TakenFromStale`).
From `LockInv`: `ExclusionWithinLease` and `Handover`, with nothing assumed of
time. With `SessionsInTime`, inductive by the guard of `Tick`, and the hypothesis
`InTime`, no session overruns, hence `Exclusion`, and each step is an `Enter`, a
`Leave` or a stutter of `SingleWriter` (`ImplementsSingleWriter`).

**SyncEngine_proofs.** `UsesLock`: each step of the engine is a step of
`SyncLock` under the mapping or leaves the row alone. The proofs about the lock
then apply through `P == INSTANCE SyncLock_proofs`. `ProcessInv` adds to the types
`Stages` (which attempts may live in which stage of a shutdown) and `DeadListed`
(a row that a dead attempt left running is on the list of the process that is
cleaning up); `OrderlyExit` and `RestartSettles` follow. `TypeCorrect` itself needs
`BatchLeft` (an attempt that has read a batch has one left to write), or `todo`
might fall below zero.

`RowInv` says of each attempt what its row is: none before `beginRun`, unsettled (`Unsettled`) from there
to `Update`, where unsettled means running, or failed if there is another process
beside its own that may have marked it; and that what a starting process has read of
its own rows is still so when it saves them. That is inductive because a process
cleans up before any of its attempts live (`CleanersAreIdle`). From it `SettledRows`,
for any number of processes; and, where one process uses the database
(`OneProcess`: `\A i, j \in Instances : i = j`, the deployment with SQLite, in which a
process may die and start again any number of times), `FailedIsOver` and
`LedgerKept`, each step a step of `RunLedger` or a stutter. The hypothesis cannot be
dropped: with a second process both are false, as `engine_job_start` shows of the
first. `AttemptsAreFinite` is the part of liveness that is about steps: `StepsLeft`
counts what an attempt has still to do, and every step of the attempt, an error
or a crash included, makes it smaller while no other attempt's changes it. What is left to
fairness is that steps are taken.

Under `L!InTime`: `OneWriter`; `RowIsHoldersInTime` (an
attempt from its `Acquire` to its release has its name in the row);
`BatchesIsolated`, an induction whose step uses that a writer is alone; and
`LiveRunsHold`, which needs `RowsBegun` (a row that says running belongs to an
attempt that has gone past `beginRun`).

**SyncApply_proofs.** None of the properties is inductive: what the table should
be is known only at the end. `Inv` says what holds on the way. `Phases`: what is
empty where. `DistinctPending`: no two rows still to be applied share a key, so a
batch has one effect per key and makes the table longer by what it counts as added
(`Applied`). `FullBody`: every row of a full file that is kept is to come, in the
batch or in the table, and `seen` lists exactly what has been kept so far, on which
the safety of the pruning rests (`ListedStay`). `DueBody`: within a month, `due` is
the rows to come, nothing for the keys still to be deleted, and the table elsewhere,
so at the end it is the table (`RunIsItsFiles`). `Balance`: the counts so far account
for the table at every step (`CountsAddUp`). `RerunIsQuiet` follows from `FullBody`:
over its own result every batch finds its hashes. `WritesAreDue` is about every write
and not only the end: a batch and a pruning write what `FullBody` or `DueBody` says is
due, and what is still to be deleted in a month is what its file abolishes
(`DelFromMonth`, inductive beside `Inv`).

**Tokens_proofs.** Every step leaves the table alone, inserts a row, touches one
or revokes one (`TableChange`), and none of these takes back a row, its hash, its
expiry or its revocation (`TableGrows`). `TableInv` is inductive: types;
`RowRead` (a request with a row in hand names a token of the table);
`HashesNamed` (a row has its own hash or the bootstrap token's), which is why a
fresh id brings a fresh hash; and `OneRowPerHash`. `FirstRevocationStands` is a
part of `TableGrows`. `DeadTokenNeverPasses` is not inductive; `LateFindsDead`
follows the request: its token is dead in the table until it reads it, the row it
has read is dead until it checks it, and since clocks do not run back
(`DeadForward`) it is turned away. `OneRowPerHash` makes the row it reads the one
that was dead. `RevokeHolds` needs that a request that counts zero rows found its
target revoked if it is in the table (`CountFindsRevoked`).

**RunInput_proofs.** Three invariants, one per part. `SettingsInv`: an update at
work was accepted as a whole, what the last writer of a key wrote is in the table
until it is answered (`WritesStand`), and what was answered last holds until the
next write (`ShownHolds`), which is what `AnsweredIsUsed` needs at the step where a
run reads the settings. `DownloadInv` follows `Fetch` from attempt to attempt: what
has been tried, and that nothing but a retryable failure is behind an attempt that
is followed by another (`FetchPolicy`). `RunInv` joins them: the months asked for so
far are those before the one that is next (`ConsecutiveMonths`), and a file asked for
came from a setting that a validator has accepted or from the environment
(`DirtyRowsStayOut`). `RunsAreFinite`: what a run and its download have still to do
(`RunLeft`, `FetchLeft`, ordered lexicographically) are naturals, and each step of
either makes them smaller, so retries, months and a cancellation cannot keep a run
busy for ever.

**ReadPath_proofs.** First the order of a listing, with no state: an element of a
finite set has as its rank the number of those before it, the ranks are exactly the
positions (`RankReaches`, by counting), so sorting lists each element once
(`SortedIsListing`) and what is added only pushes the rest back (`SortedMoves`).
`Inv` then says that ids tell addresses apart and lie below the next one, that the
row of the run at work is the last one and says running, and of each request what
its statements told it: `Walking`, that what was there at the start has been read or
is still ahead, while nothing left the listing, and that what was read is the front
of the listing, while nothing came into it either; `Counted`, that no more matches
than was counted, unless something came to match; `IdleSeen`, that the runs that had begun
are over once nothing was found running. A write keeps these
(`WriteKeepsRequest`), as a stored address keeps its id, rows of runs and skipped
rows come at the end, and a run that is over stays as it is (`TablesMove`).
`Walk`, `IdleStatus` and `Untruncated` follow, and `TypeCorrect` with the limit of
the pool. `PoolIsServed` states the absence of deadlock for any size of the pool:
whoever waits finds a connection free, or somebody at work with one; the two stages
of the start-up have no one beside them. `RequestsAreFinite` adds that each step of a
request brings it nearer to its end and nobody else's takes it back.

**Only model-checked.** The liveness properties: `AbandonedLockExpires`,
`CancelledRunSettles`, `ShutdownEnds`, `RunEnds`, `RequestsEnd` and `StartCompletes`.
Fairness and `ENABLED` are out of the provers' reach; of attempts, runs and requests
the measures above are proved, so that what TLC alone shows is that fairness lets
their steps be taken. Not proved because they are false (section 4):
`DiffRerunKeepsTable`, `ShutdownSettlesRuns`, `IssuedTokenLives`, and
`FailedRunIsOver` with several processes. `WindowResult`, the recursive
function over a window that it is stated with, is used by no theorem: what it
computes for every window needs induction over data with an operator as parameter,
which the installed provers cannot instantiate. `SuccessMatchesFiles` is stated with
`due`, which takes one month at a time.

## 6. What is not modelled

- `InTime` is not something the code enforces: nothing renews the lease and no
  write checks it.
- A *crash* stands for a kill and for the `os.Exit` after a shutdown timeout.
  The engine's `Shutdown` that gives up on its timeout without `os.Exit` does
  not occur: `main` exits.
- Which files are downloaded, unzipped and parsed, and the URLs and checksums a
  run records, are data; a download is a step that succeeds, finds nothing or
  fails.
- `SyncApply` takes a statement as atomic. `UpsertBatch` is one transaction in
  the code; `ExistingHashes` and `UpsertBatch` are merged there because
  `SyncEngine` shows that nobody comes in between.
- A key occurs once in a file (`docs/spec.md`, section 2). Files with repeated
  keys are outside `SyncApply`.
- `Tokens` leaves out `List`, which reads and redacts, and `MemoryStore`, which
  only tests use. An operator who sets `ADMIN_BOOTSTRAP_TOKEN` to an issued token
  is outside it.
- `RunInput` and `ReadPath` are about one process. Another process on the database
  changes settings and addresses in the same ways, but its runs would not follow
  those of the first in `ReadPath`'s history without the lock, which is
  `SyncEngine`'s subject.
- The management page: its state is that of a browser tab and nothing relies on
  it. Its requests are those of `Tokens`, `RuntimeSettings`, `ReadPath` and
  `SyncEngine`.
- `Store.Open` with its retries, before which nothing runs, and the sample rows
  (`SeedSampleIfEmpty`), a development aid that is off by default.
- Validation of query parameters, patterns of `LIKE`, regular expressions: data.
  `Accepted` and `Filters` stand for what they let through, and the columns that an
  update overwrites are one value, `names`, of which a pattern accepts some.
- Routing, JSON, logging, payload encryption, configuration, migrations: they
  change no state, or only at start-up and outside the program's own logic.

## 7. The plan

| | Module | Content | Runs and theorems |
|---|---|---|---|
| 1 | `SingleWriter`, `SyncLock` | done | checked, proved |
| 2 | `SyncEngine` over `SyncLock`, implementing `RunLedger` | done | checked, proved but for liveness; progress proved |
| 3 | `SyncApply` | done | checked, proved |
| 4 | this inventory, the hazards | done | |
| 5 | `RuntimeSettings`, `Downloader`, composed by `RunInput` | done | checked, proved but for liveness; progress proved |
| 6 | `Tokens` | done | checked, proved; a run for the overflow |
| 7 | `ReadPath` | done | checked, proved but for liveness; progress proved |
| 8 | start-up | seeding of sample rows against a live run of another process: only if the option is ever used outside development | |

Noted while modelling, without a run of its own:

- When the settings cannot be read (`engine.go:338`), the run goes on with the
  static URL, as the comment above it (`engine.go:331`) and
  `docs/architecture.md:225` say, but with no filter, even where
  `SYNC_TOWN_SKIP_REGEX` configures one, and with the retries that the run before
  has left in the fetcher. `RunInput` models it (`ResolveFails`).
- A blank `town_skip_regex` deletes the override (`settings/service.go:201`), and
  with it the filter of the environment, if there is one, comes back: with a
  filter in the environment the page cannot switch filtering off.
- A status that says idle may show a total of addresses that predates the run it
  shows as last, since the total is read first (`sync_handlers.go:120`).
