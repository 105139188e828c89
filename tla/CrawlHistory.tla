---------------------------- MODULE CrawlHistory ----------------------------
(***************************************************************************)
(* Crawl with a history: how many attempts at each URL have failed since   *)
(* its last success, answers of 429 not counted.                           *)
(***************************************************************************)
EXTENDS MCCrawl

VARIABLE failures

historyVars == <<vars, failures>>

HInit == Init /\ failures = [u \in Urls |-> 0]

HNext == \/ Failing /\ failures' = [failures EXCEPT ![row.url] = Bump(@)]
         \/ MarkDone /\ failures' = [failures EXCEPT ![row.url] = 0]
         \/ Elsewhere /\ UNCHANGED failures

HSpec == HInit /\ [][HNext]_historyVars

\* The comment on 429 in _process ("429 is a pause, not a dead URL"): a URL is given
\* up for errors only after MAX_RETRIES failures that were not answers of 429.
PausesAreNotFailures ==
    [][Failing /\ status'[row.url] = "skipped" => failures'[row.url] = MaxRetries]_historyVars
=============================================================================
