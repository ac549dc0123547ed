----------------------------- MODULE Downloader -----------------------------
(***************************************************************************)
(* The download of one file: HTTPFetcher.Fetch and fetchOnce of            *)
(* internal/sync/downloader.go.  The fetcher belongs to a process and is   *)
(* shared by its runs; the number of retries is an atomic that each run    *)
(* sets from the settings and that Fetch reads once, at its start.         *)
(*                                                                         *)
(* The publisher may answer anything, or never.  What an attempt meets is  *)
(* whole (a zip with a CSV, of the announced length), garbage (received,   *)
(* but no zip or no CSV in it), notfound (404) or fault: another status, a *)
(* connection that breaks, a body shorter than announced, the timeout of   *)
(* the attempt, or a context that is already cancelled.                    *)
(***************************************************************************)
EXTENDS Naturals, Sequences

CONSTANTS
    Urls,       \* what may be asked of the publisher
    NoUrl,
    Retries,    \* numbers of retries that may be configured
    EnvRetry    \* DOWNLOAD_MAX_RETRY

ASSUME DownloaderAssumption == Retries \subseteq Nat /\ EnvRetry \in Retries

VARIABLES
    maxRetry,   \* HTTPFetcher.maxRetry
    cancelled,  \* the context of the run is done
    fetch       \* the call of Fetch, or the last one

downloadVars == <<maxRetry, cancelled, fetch>>

Final == {"whole", "garbage", "notfound"}

Results == {"none", "file", "unzip", "notfound", "error", "cancelled"}

-----------------------------------------------------------------------------
NoFetch == [pc |-> "off", url |-> NoUrl, limit |-> EnvRetry, attempt |-> 0,
            log |-> <<>>, result |-> "none"]

DownloadInit ==
    /\ maxRetry = EnvRetry
    /\ cancelled = FALSE
    /\ fetch = NoFetch

\* Fetch is called: the retries are those of this moment.
FetchFrom(url) ==
    fetch' = [pc |-> "request", url |-> url, limit |-> maxRetry, attempt |-> 0,
              log |-> <<>>, result |-> "none"]

\* Mutant of AfterAttempt: one retry too many.
AfterAttemptOnceMore(outcome) ==
    LET ended == outcome \in Final \/ fetch.attempt > fetch.limit
        verdict == CASE outcome = "whole" -> "file"
                     [] outcome = "garbage" -> "unzip"
                     [] outcome = "notfound" -> "notfound"
                     [] OTHER -> IF ended THEN "error" ELSE "none"
    IN  fetch' = [fetch EXCEPT !.log = Append(@, outcome), !.result = verdict,
                               !.pc = IF ended THEN "off" ELSE "backoff"]

\* What the loop of Fetch does with the outcome of an attempt.
AfterAttempt(outcome) ==
    LET ended == outcome \in Final \/ fetch.attempt = fetch.limit
        verdict == CASE outcome = "whole" -> "file"
                     [] outcome = "garbage" -> "unzip"
                     [] outcome = "notfound" -> "notfound"
                     [] OTHER -> IF ended THEN "error" ELSE "none"
    IN  fetch' = [fetch EXCEPT !.log = Append(@, outcome), !.result = verdict,
                               !.pc = IF ended THEN "off" ELSE "backoff"]

\* The publisher answers, one way or another.
Receives(outcome) ==
    /\ fetch.pc = "request"
    /\ cancelled => outcome = "fault"
    /\ AfterAttempt(outcome)
    /\ UNCHANGED <<maxRetry, cancelled>>

\* The timeout of the attempt ends an attempt that nobody answers, and so does
\* the context of the run.
AttemptEnds ==
    /\ fetch.pc = "request"
    /\ AfterAttempt("fault")
    /\ UNCHANGED <<maxRetry, cancelled>>

\* The wait before a retry is over.  A timer that fires together with the
\* cancellation may win the select; the attempt then fails at once.
Elapses ==
    /\ fetch.pc = "backoff"
    /\ fetch' = [fetch EXCEPT !.pc = "request", !.attempt = @ + 1]
    /\ UNCHANGED <<maxRetry, cancelled>>

WaitCancelled ==
    /\ fetch.pc = "backoff" /\ cancelled
    /\ fetch' = [fetch EXCEPT !.pc = "off", !.result = "cancelled"]
    /\ UNCHANGED <<maxRetry, cancelled>>

\* Mutant of FetchStep: an attempt has no timeout.
FetchStepUntimed == Elapses \/ WaitCancelled

FetchStep == AttemptEnds \/ Elapses \/ WaitCancelled

-----------------------------------------------------------------------------
DownloadTypeOK ==
    /\ maxRetry \in Retries
    /\ cancelled \in BOOLEAN
    /\ fetch \in [pc : {"off", "request", "backoff"}, url : Urls \cup {NoUrl},
                  limit : Retries, attempt : Nat,
                  log : Seq(Final \cup {"fault"}), result : Results]

\* What Fetch promises of a call, whatever the publisher answers: one attempt
\* and at most as many retries as were configured when it began; nothing is
\* asked again after an answer that settles the matter (a whole file, a 404, an
\* archive that cannot be read); it gives up on faults only when every retry
\* has been made, or when the run is cancelled.
FetchKeepsToPolicy ==
    LET n == Len(fetch.log)
    IN  /\ n <= fetch.limit + 1
        /\ \A i \in 1..n : fetch.log[i] \in Final => i = n /\ fetch.pc = "off"
        /\ fetch.result = "file" => fetch.log[n] = "whole"
        /\ fetch.result = "unzip" => fetch.log[n] = "garbage"
        /\ fetch.result = "notfound" => fetch.log[n] = "notfound"
        /\ fetch.result = "error" => fetch.log[n] = "fault" /\ n = fetch.limit + 1
        /\ fetch.result = "cancelled" => cancelled
=============================================================================
