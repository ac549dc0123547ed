------------------------------ MODULE RunInput ------------------------------
(***************************************************************************)
(* What a run works with: resolveRuntime, applyOptions, monthsWindow and   *)
(* the downloads of execute, runFull, runDiff and executeUpload            *)
(* (internal/sync/engine.go).  The module composes the settings that       *)
(* administrators change (RuntimeSettings) with the fetcher of a process   *)
(* (Downloader); the runs of the process follow one another, which is what *)
(* the lock is for.  What a run does to the addresses is SyncApply's.      *)
(***************************************************************************)
EXTENDS RuntimeSettings, Downloader, Integers

CONSTANTS
    Dates,      \* days on which a run may begin, as [y, m, d]
    Lookbacks   \* values of SYNC_DIFF_LOOKBACK_MONTHS

Months == (0..99) \X (1..12)

ASSUME RunInputAssumption ==
    /\ Dates \subseteq [y : Nat, m : 1..12, d : 1..31]
    /\ Lookbacks \subseteq Int
    /\ Accepted["scrape_full_url"] \cup {Default["scrape_full_url"]} \subseteq Urls
    /\ {"add", "del"} \X Months \subseteq Urls
    /\ Accepted["download_max_retry"] \cup {Default["download_max_retry"]} = Retries
    /\ Default["download_max_retry"] = EnvRetry
    /\ NoUrl \notin Urls

VARIABLES
    lookback,   \* DiffLookbackMonths of the engine
    fallback,   \* SYNC_DIFF_FALLBACK_FULL
    run         \* the run of the process

\* What the environment has set.
config == <<lookback, fallback>>

vars == <<settingsVars, downloadVars, config, run>>

-----------------------------------------------------------------------------
(* Dates. *)

Leap(y) == y % 4 = 0 /\ (y % 100 # 0 \/ y % 400 = 0)

DaysIn(y, m) == CASE m = 2 -> IF Leap(y) THEN 29 ELSE 28
                  [] m \in {4, 6, 9, 11} -> 30
                  [] OTHER -> 31

\* time.Date: a day past the end of the month runs over into the next one.
Normal(y, m, d) ==
    IF d <= DaysIn(y, m) THEN [y |-> y, m |-> m, d |-> d]
    ELSE [y |-> IF m = 12 THEN y + 1 ELSE y, m |-> (m % 12) + 1, d |-> d - DaysIn(y, m)]

\* Mutant of MonthsBack: months counted from zero.
MonthsBackFromZero(t, i) ==
    LET k == t.y * 12 + t.m - 1 - i
    IN  Normal(k \div 12, k % 12, t.d)

\* Time.AddDate(0, -i, 0)
MonthsBack(t, i) ==
    LET k == t.y * 12 + t.m - 1 - i
    IN  Normal(k \div 12, (k % 12) + 1, t.d)

YYMM(t) == <<t.y % 100, t.m>>

\* Mutant of FirstOfMonth: the months are counted from the day itself.
SameDay(t) == t

FirstOfMonth(t) == [t EXCEPT !.d = 1]

WindowSize == IF lookback <= 0 THEN 1 ELSE lookback

MonthsWindow(now) ==
    [i \in 1..WindowSize |-> YYMM(MonthsBack(FirstOfMonth(now), WindowSize - i))]

-----------------------------------------------------------------------------
\* NewEngine: what is not positive counts as three months.
EngineLookback(months) == IF months <= 0 THEN 3 ELSE months

NoPromise == [k \in Keys |-> Unset]

NoRun == [pc |-> "idle", type |-> "full", url |-> Default["scrape_full_url"],
          filter |-> Blank, day |-> Unset, months |-> <<>>, month |-> 0,
          got |-> FALSE, applied |-> FALSE, outcome |-> "none", promise |-> NoPromise]

RunInputInit ==
    /\ SettingsInit
    /\ DownloadInit
    /\ \E months \in Lookbacks : lookback = EngineLookback(months)
    /\ fallback \in BOOLEAN
    /\ run = NoRun

\* The run is over, and with it its context and its files.
Ends(outcome) ==
    /\ run' = [NoRun EXCEPT !.outcome = outcome]
    /\ fetch' = NoFetch
    /\ cancelled' = FALSE

\* Its files are at hand, and what they hold is applied.
Applies ==
    /\ run' = [run EXCEPT !.pc = "apply",
                          !.type = IF run.pc = "full" THEN "full" ELSE @]
    /\ fetch' = NoFetch
    /\ UNCHANGED cancelled

BeginRun(type) ==
    /\ run.pc = "idle"
    /\ run' = [NoRun EXCEPT !.pc = "settings", !.type = type]
    /\ UNCHANGED <<settingsVars, config, downloadVars>>

\* uploadCSV refuses the file before the settings are read.
UploadRefused ==
    /\ run.pc = "settings" /\ run.type = "upload"
    /\ Ends("failed")
    /\ UNCHANGED <<settingsVars, config, maxRetry>>

\* resolveRuntime has answered, and the filter is compiled.
WithSettings(url, filter, promise) ==
    IF filter \in Accepted["town_skip_regex"]
    THEN /\ run' = [run EXCEPT !.url = url, !.filter = filter, !.promise = promise,
                               !.pc = IF run.type = "upload" THEN "apply" ELSE "source"]
         /\ UNCHANGED <<cancelled, fetch>>
    ELSE Ends("badfilter")

ResolveSettings ==
    /\ run.pc = "settings" /\ ~cancelled
    /\ LET eff == Effective(overrides)
       IN  /\ maxRetry' = eff["download_max_retry"]
           /\ WithSettings(eff["scrape_full_url"], eff["town_skip_regex"], shown)
    /\ UNCHANGED <<settingsVars, config>>

\* The settings cannot be read: the run goes on with the static URL and no
\* filter, and with the retries that the fetcher was left with.
ResolveFails ==
    /\ run.pc = "settings"
    /\ WithSettings(Default["scrape_full_url"], Blank, NoPromise)
    /\ UNCHANGED <<settingsVars, config, maxRetry>>

\* Mutant of AskFull: the address is resolved again when the file is asked for.
AskFullResolvedAgain ==
    /\ FetchFrom(Effective(overrides)["scrape_full_url"])
    /\ run' = [run EXCEPT !.pc = "full"]
    /\ UNCHANGED cancelled

\* The full file, at once or for want of any month.
AskFull ==
    /\ FetchFrom(run.url)
    /\ run' = [run EXCEPT !.pc = "full"]
    /\ UNCHANGED cancelled

AskMonth(m, ms) == FetchFrom(<<"add", ms[m]>>) /\ UNCHANGED cancelled

StartFull ==
    /\ run.pc = "source" /\ run.type = "full"
    /\ AskFull
    /\ UNCHANGED <<settingsVars, config, maxRetry>>

StartDiff(now) ==
    /\ run.pc = "source" /\ run.type = "diff"
    /\ run' = [run EXCEPT !.pc = "add", !.day = now, !.months = MonthsWindow(now),
                          !.month = 1]
    /\ AskMonth(1, MonthsWindow(now))
    /\ UNCHANGED <<settingsVars, config, maxRetry>>

\* After a month: the next one, the end, or the full file instead.
NextMonth(applied) ==
    IF run.month < Len(run.months)
    THEN /\ AskMonth(run.month + 1, run.months)
         /\ run' = [run EXCEPT !.pc = "add", !.month = @ + 1, !.got = FALSE,
                               !.applied = applied]
    ELSE IF applied THEN Ends("success")
    ELSE IF fallback THEN AskFull
    ELSE Ends("failed")

Fetched == fetch.pc = "off" /\ fetch.result \in {"file", "notfound"}

AddArrives ==
    /\ run.pc = "add" /\ Fetched
    /\ run' = [run EXCEPT !.pc = "del", !.got = (fetch.result = "file")]
    /\ FetchFrom(<<"del", run.months[run.month]>>)
    /\ UNCHANGED <<settingsVars, config, maxRetry, cancelled>>

\* A month with neither file is not published, and is skipped.
DelArrives ==
    /\ run.pc = "del" /\ Fetched
    /\ IF run.got \/ fetch.result = "file" THEN Applies ELSE NextMonth(run.applied)
    /\ UNCHANGED <<settingsVars, config, maxRetry>>

FullArrives ==
    /\ run.pc = "full" /\ fetch.pc = "off" /\ fetch.result = "file"
    /\ Applies
    /\ UNCHANGED <<settingsVars, config, maxRetry>>

\* A full file that is not there is a failure, as is anything but a 404.
FetchFailed ==
    /\ run.pc \in {"add", "del", "full"} /\ fetch.pc = "off"
    /\ fetch.result # "file"
    /\ fetch.result = "notfound" => run.pc = "full"
    /\ Ends("failed")
    /\ UNCHANGED <<settingsVars, config, maxRetry>>

Applied ==
    /\ run.pc = "apply" /\ ~cancelled
    /\ IF run.type = "diff" THEN NextMonth(TRUE) ELSE Ends("success")
    /\ UNCHANGED <<settingsVars, config, maxRetry>>

ApplyFails ==
    /\ run.pc = "apply"
    /\ Ends("failed")
    /\ UNCHANGED <<settingsVars, config, maxRetry>>

\* A signal, a shutdown or the disconnect of an uploading client.
Cancel ==
    /\ run.pc # "idle" /\ ~cancelled
    /\ cancelled' = TRUE
    /\ UNCHANGED <<settingsVars, config, maxRetry, fetch, run>>

Download ==
    /\ FetchStep \/ \E o \in Final \cup {"fault"} : Receives(o)
    /\ UNCHANGED <<settingsVars, config, run>>

Settings == SettingsNext /\ UNCHANGED <<downloadVars, config, run>>

RunStep ==
    \/ UploadRefused \/ ResolveSettings \/ ResolveFails \/ StartFull
    \/ \E now \in Dates : StartDiff(now)
    \/ AddArrives \/ DelArrives \/ FullArrives \/ FetchFailed
    \/ Applied \/ ApplyFails

Next ==
    \/ \E type \in {"full", "diff", "upload"} : BeginRun(type)
    \/ RunStep \/ Download \/ Cancel \/ Settings

Spec == RunInputInit /\ [][Next]_vars

\* The process and its timers go on; nobody makes the publisher answer.
FairSpec ==
    /\ Spec
    /\ WF_vars(RunStep)
    /\ WF_vars(FetchStep /\ UNCHANGED <<settingsVars, config, run>>)

-----------------------------------------------------------------------------
TypeOK ==
    /\ SettingsTypeOK
    /\ DownloadTypeOK
    /\ lookback \in Nat \ {0} /\ fallback \in BOOLEAN
    /\ run \in [pc : {"idle", "settings", "source", "add", "del", "full", "apply"},
                type : {"full", "diff", "upload"}, url : Values, filter : Values,
                day : Dates \cup {Unset}, months : Seq(Months), month : Nat,
                got : BOOLEAN, applied : BOOLEAN,
                outcome : {"none", "success", "failed", "badfilter"},
                promise : [Keys -> Values \cup {Unset}]]

\* What the page has answered to the last administrator who changed a setting
\* is what a run that could read the settings afterwards works with, to its
\* end: the retries of each of its downloads, its filter, and the address of
\* the full file, be it asked for after all the months.  Neither a value
\* resolved for an earlier run nor an update that came later shows.
RunUsesAnsweredSettings ==
    /\ run.promise["town_skip_regex"] \in {Unset, run.filter}
    /\ run.pc \in {"add", "del", "full"} =>
          run.promise["download_max_retry"] \in {Unset, fetch.limit}
    /\ run.pc = "full" => run.promise["scrape_full_url"] \in {Unset, fetch.url}

\* Rows of the table that no validator would accept never reach a run: it asks
\* for the full file only where the environment or an accepted override says,
\* and its filter fails to compile only if the environment's does.
DirtyRowsNeverReachRun ==
    /\ run.pc = "full" =>
          fetch.url \in Accepted["scrape_full_url"] \cup {Default["scrape_full_url"]}
    /\ run.outcome = "badfilter" =>
          Default["town_skip_regex"] \notin Accepted["town_skip_regex"]

\* The months of a differential run follow one another without a gap or a
\* repetition and end with the current one, on any day of any month
\* (monthsWindow; the comment above it tells of the 31st).
MonthsAreConsecutive ==
    LET next(m) == IF m[2] = 12 THEN <<(m[1] + 1) % 100, 1>> ELSE <<m[1], m[2] + 1>>
        n == Len(run.months)
    IN  run.months # <<>> =>
            /\ run.months[n] = YYMM(run.day)
            /\ \A i \in 1..(n - 1) : run.months[i + 1] = next(run.months[i])

\* Every run ends, even if the publisher never answers: each attempt has its
\* timeout and the retries are counted.
RunEnds == run.pc # "idle" ~> run.pc = "idle"
=============================================================================
