----------------------------- MODULE MCRunInput -----------------------------
(* An instance of RunInput for TLC: two administrators, a table that may hold a
   row nobody validated, and days at the ends of months. *)
EXTENDS RunInput, TLC

CONSTANTS r1, r2, envUrl, newUrl, newUrlSp, badUrl, filter, badFilter

MCValues == {0, 1, 11, envUrl, newUrl, newUrlSp, badUrl, filter, badFilter, Blank}

MCAccepted ==
    [download_max_retry |-> {0, 1},
     scrape_full_url    |-> {envUrl, newUrl, newUrlSp},
     town_skip_regex    |-> {filter, Blank}]

MCTrim == [v \in MCValues |-> IF v = newUrlSp THEN newUrl ELSE v]

MCDefault ==
    [download_max_retry |-> 1, scrape_full_url |-> envUrl, town_skip_regex |-> Blank]

MCStored0 ==
    {[download_max_retry |-> Absent, scrape_full_url |-> badUrl,
      town_skip_regex |-> badFilter]}

Sets(retry, url, rx) ==
    [download_max_retry |-> retry, scrape_full_url |-> url, town_skip_regex |-> rx]

MCUpdates ==
    {[set |-> Sets(0, newUrlSp, filter), reset |-> {}],
     [set |-> Sets(Unset, Unset, Blank), reset |-> {"scrape_full_url"}],
     [set |-> Sets(0, badUrl, Unset), reset |-> {}],
     [set |-> Sets(0, Unset, Unset), reset |-> {"download_max_retry"}]}

MCUrls == {envUrl, newUrl, newUrlSp, badUrl} \cup ({"add", "del"} \X Months)

MCDates == {[y |-> 2026, m |-> 3, d |-> 31], [y |-> 2000, m |-> 1, d |-> 30]}

\* Bounds.  Two administrators are at work at a time only while no run is past
\* its settings, one beside its downloads, and none beside a cancelled run or
\* where the window has several months: the settings have no bearing there.
Working == {r \in Requests : req'[r].pc = "working"}

Bound ==
    /\ run'.pc \notin {"idle", "settings"} => Working \subseteq {r1}
    /\ cancelled' \/ lookback > 1 => Working = {}

MCSpec ==
    /\ RunInputInit /\ (lookback > 1 \/ fallback)
    /\ [][Next /\ Bound]_vars
    /\ SF_vars(RunStep /\ Bound)
    /\ WF_vars(FetchStep /\ UNCHANGED <<settingsVars, config, run>>)
    /\ \A r \in Requests : WF_vars(RequestStep(r) /\ UNCHANGED <<downloadVars, config, run>>)
=============================================================================
