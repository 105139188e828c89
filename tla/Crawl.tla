-------------------------------- MODULE Crawl --------------------------------
(***************************************************************************)
(* The crawler process over its SQLite file (tables frontier, downloads    *)
(* and observations), the content-addressed lake (raw files, manifests)    *)
(* and the stream cia.fetched, with the scheduler's jobs recrawl_stale and *)
(* frontier_seed running beside it in a process of their own.              *)
(*                                                                         *)
(* Every SQLite transaction, file replacement and publication is a step,   *)
(* so the crawler may crash, raise or be overtaken between any two.        *)
(*                                                                         *)
(* Data abstracted: a body is a model value standing for its SHA-256; its  *)
(* links are LinksOf[body] (empty unless it is HTML).  Time is two facts:  *)
(* which retry delays have run out (due) and which downloads are younger   *)
(* than RECRAWL_AFTER_HOURS (fresh).  A final_url is its url.  Rows of the *)
(* same depth are tried in any order (the code: in rowid order).           *)
(***************************************************************************)
EXTENDS Naturals

CONSTANTS Urls,         \* canonical URLs
          Seeds,        \* SEED_URLS
          Sitemap,      \* URLs the sitemaps of the allowed hosts list
          InScope,      \* URLs that pass is_allowed_host and archive_url_allowed
          Disallowed,   \* URLs that a robots.txt disallows
          Legacy,       \* URLs downloaded before the observations table existed
          Bodies,       \* contents of responses
          LinksOf,      \* the canonical links of a body
          NoUrl, NoBody,
          MaxDepth,     \* settings.max_depth
          MaxRetries,   \* settings.max_retries
          May,          \* what may happen beside the plain course, see Happenings
          MaxCaptures,  \* bound on the number of responses with a body
          MaxCrashes    \* bound on the number of crashes

Happenings == {"ratelimit", "server_error", "rejected", "exception", "publish_late",
               "robots", "low_disk", "crash", "jobs"}

ASSUME UrlAssumption == /\ Seeds \subseteq Urls
                        /\ Sitemap \subseteq Urls
                        /\ Legacy \subseteq Urls
                        /\ LinksOf \in [Bodies -> SUBSET Urls]
                        /\ NoUrl \notin Urls
                        /\ NoBody \notin Bodies

ASSUME BoundAssumption == /\ MaxDepth \in Nat
                          /\ MaxRetries \in Nat \ {0}
                          /\ MaxCaptures \in Nat
                          /\ MaxCrashes \in Nat
                          /\ May \subseteq Happenings

VARIABLES
  \* table frontier
  status,      \* "absent" when the URL has no row
  depth,
  tries,       \* counted up to MaxRetries: only tries < MaxRetries is ever asked
  due,         \* URLs whose next_attempt has come
  \* table downloads
  downloads,   \* body and fetched_at of the row
  fresh,       \* URLs whose fetched_at is within RECRAWL_AFTER_HOURS
  \* table observations
  captured,    \* number of rows that log a response with a body
  bare,        \* URLs with a row of status 304 that names no bytes
  \* lake and stream
  raw,         \* bodies whose raw file is in place
  manifest,    \* the sources a body's manifest lists
  events,      \* captures published to cia.fetched
  \* the crawler process
  pc,          \* where the crawler stands in run and _process
  row,         \* the row it works on, as read by Frontier.next
  body,        \* the body it has committed
  pending,     \* URLs it has still to add to the frontier
  robotsDown,  \* robots.txt could not be fetched when this process started
  \* bookkeeping
  clock,       \* fetched_at of the newest capture
  crashes

frontier == <<status, depth, tries, due>>
observations == <<captured, bare>>
lake == <<raw, manifest>>
crawler == <<pc, row, body, pending, robotsDown>>
vars == <<frontier, downloads, fresh, observations, lake, events, crawler,
          clock, crashes>>

Capture == [url : Urls, body : Bodies, at : 0..MaxCaptures]

\* Places from which _process still owes the frontier row an outcome.
Working == {"check", "fetch", "manifest", "save", "publish", "failed", "mark"}

NoRow == [url |-> NoUrl, depth |-> 0, tries |-> 0]
-----------------------------------------------------------------------------
HasDownload(u) == downloads[u].body # NoBody

\* The downloads row of u as a capture.
CaptureOf(u) == [url |-> u, body |-> downloads[u].body, at |-> downloads[u].at]

Downloaded == {CaptureOf(u) : u \in {v \in Urls : HasDownload(v)}}

\* The capture the crawler has in hand.
InHand == [url |-> row.url, body |-> body, at |-> clock]

Bump(n) == IF n < MaxRetries THEN n + 1 ELSE MaxRetries

\* Mutant: INSERT OR REPLACE.
FrontierAddReplace(u, d) ==
    /\ status' = [status EXCEPT ![u] = "queued"]
    /\ depth' = [depth EXCEPT ![u] = d]
    /\ tries' = [tries EXCEPT ![u] = 0]
    /\ due' = due \cup {u}

\* INSERT OR IGNORE of a queued row.
FrontierAdd(u, d) ==
    IF status[u] = "absent"
    THEN /\ status' = [status EXCEPT ![u] = "queued"]
         /\ depth' = [depth EXCEPT ![u] = d]
         /\ due' = due \cup {u}
         /\ UNCHANGED tries
    ELSE UNCHANGED frontier

\* Mutant: no NOT EXISTS.
BackfillAll ==
    /\ captured' = [c \in Capture |-> IF c \in Downloaded THEN captured[c] + 1 ELSE captured[c]]
    /\ UNCHANGED bare

\* Opening a Frontier copies downloads into the log where it has no such row.
Backfill ==
    /\ captured' = [c \in Capture |->
                      IF c \in Downloaded /\ captured[c] = 0 THEN 1 ELSE captured[c]]
    /\ UNCHANGED bare

StaleDone == {u \in Urls : status[u] = "done" /\ HasDownload(u) /\ u \notin fresh}

FrontierRequeueStale ==
    /\ status' = [u \in Urls |-> IF u \in StaleDone THEN "queued" ELSE status[u]]
    /\ due' = due \cup StaleDone
    /\ UNCHANGED <<depth, tries>>

FrontierSkip(u) == /\ status' = [status EXCEPT ![u] = "skipped"]
                   /\ UNCHANGED <<depth, tries, due>>

\* Mutant: the attempt is counted a second time.
FrontierRetryTwice(u, n) == /\ status' = [status EXCEPT ![u] = "queued"]
                            /\ tries' = [tries EXCEPT ![u] = n + 1]
                            /\ due' = due \ {u}
                            /\ UNCHANGED depth

FrontierRetry(u, n) == /\ status' = [status EXCEPT ![u] = "queued"]
                       /\ tries' = [tries EXCEPT ![u] = n]
                       /\ due' = due \ {u}
                       /\ UNCHANGED depth

\* The row is settled or given back: the crawler returns to its loop.
BackToLoop == /\ pc' = "loop"
              /\ row' = NoRow
              /\ body' = NoBody
              /\ pending' = {}
              /\ UNCHANGED robotsDown

GoTo(place) == /\ pc' = place
               /\ UNCHANGED <<row, body, pending, robotsDown>>
-----------------------------------------------------------------------------
\* A database from before the log holds downloads of its legacy URLs; the scope
\* and MAX_DEPTH may have been wider then.
Init ==
    /\ \E old \in [Legacy -> Bodies] :
         /\ downloads = [u \in Urls |-> [body |-> IF u \in Legacy THEN old[u] ELSE NoBody,
                                         at |-> 0]]
         /\ raw = {old[u] : u \in Legacy}
         /\ manifest = [b \in Bodies |-> {u \in Legacy : old[u] = b}]
    /\ status = [u \in Urls |-> IF u \in Legacy THEN "done" ELSE "absent"]
    /\ depth \in [Urls -> {0, MaxDepth + 1}]
    /\ \A u \in Urls \ Legacy : depth[u] = 0
    /\ tries = [u \in Urls |-> 0]
    /\ due = {}
    /\ fresh = {} /\ bare = {} /\ events = {}
    /\ captured = [c \in Capture |-> 0]
    /\ pc = "down" /\ row = NoRow /\ body = NoBody /\ pending = {}
    /\ robotsDown = FALSE
    /\ clock = 0 /\ crashes = 0

\* The process starts: opens the Frontier, loads every robots.txt (one that
\* cannot be fetched denies its host for the life of the process, and its
\* sitemaps are not known) and turns to the seeds.
Start ==
    /\ pc = "down"
    /\ Backfill
    /\ robotsDown' \in IF "robots" \in May THEN BOOLEAN ELSE {FALSE}
    /\ pending' = InScope \cap (IF robotsDown' THEN Seeds ELSE Seeds \cup Sitemap)
    /\ pc' = "seed"
    /\ row' = NoRow /\ body' = NoBody
    /\ UNCHANGED <<frontier, downloads, fresh, lake, events, clock, crashes>>

\* seed_sitemaps and the link loop add one URL per transaction.
AddPending(u) ==
    /\ pc \in {"seed", "links"}
    /\ u \in pending
    /\ FrontierAdd(u, IF pc = "seed" THEN 0 ELSE row.depth + 1)
    /\ pending' = pending \ {u}
    /\ UNCHANGED <<pc, row, body, robotsDown, downloads, fresh, observations,
                   lake, events, clock, crashes>>

\* Nothing is left to add, or the rest of a page or of the sitemaps raised.
EndAdding ==
    /\ pc \in {"seed", "links"}
    /\ \/ pending = {}
       \/ "exception" \in May /\ (pc = "links" \/ pending \cap Seeds = {})
    /\ BackToLoop
    /\ UNCHANGED <<frontier, downloads, fresh, observations, lake, events,
                   clock, crashes>>

Ready == {u \in Urls : status[u] = "queued" /\ u \in due}

\* Frontier.next: a due row of the least depth.
Pick(u) ==
    /\ pc = "loop"
    /\ u \in Ready
    /\ \A v \in Ready : depth[u] <= depth[v]
    /\ pc' = "check"
    /\ row' = [url |-> u, depth |-> depth[u], tries |-> Bump(tries[u])]
    /\ UNCHANGED <<body, pending, robotsDown, frontier, downloads, fresh,
                   observations, lake, events, clock, crashes>>

\* Nothing is due: requeue what is stale.
RequeueWhenIdle ==
    /\ pc = "loop"
    /\ Ready = {}
    /\ StaleDone # {}
    /\ FrontierRequeueStale
    /\ UNCHANGED <<downloads, fresh, observations, lake, events, crawler, clock,
                   crashes>>

\* Nothing is due or stale: the crawler sleeps a minute and asks again.
Sleep == /\ pc = "loop"
         /\ Ready = {}
         /\ StaleDone = {}
         /\ UNCHANGED vars

Denied(u) == u \in Disallowed \/ robotsDown

SkipUnchecked ==
    /\ pc = "check"
    /\ \/ row.depth > MaxDepth
       \/ row.url \notin InScope
       \/ Denied(row.url)
    /\ FrontierSkip(row.url)
    /\ BackToLoop
    /\ UNCHANGED <<downloads, fresh, observations, lake, events, clock, crashes>>

Admitted == /\ pc = "check"
            /\ row.depth <= MaxDepth
            /\ row.url \in InScope
            /\ ~Denied(row.url)

PauseOnLowDisk ==
    /\ Admitted
    /\ "low_disk" \in May
    /\ BackToLoop
    /\ UNCHANGED <<frontier, downloads, fresh, observations, lake, events, clock,
                   crashes>>

\* The downloads row is younger than RECRAWL_AFTER_HOURS: nothing to do.
DoneWhileFresh ==
    /\ Admitted
    /\ HasDownload(row.url)
    /\ row.url \in fresh
    /\ status' = [status EXCEPT ![row.url] = "done"]
    /\ BackToLoop
    /\ UNCHANGED <<depth, tries, due, downloads, fresh, observations, lake,
                   events, clock, crashes>>

\* The request is sent, conditional when there is a downloads row.
Request ==
    /\ Admitted
    /\ ~(HasDownload(row.url) /\ row.url \in fresh)
    /\ GoTo("fetch")
    /\ UNCHANGED <<frontier, downloads, fresh, observations, lake, events, clock,
                   crashes>>
-----------------------------------------------------------------------------
\* Mutant: nothing is noted of a URL that has no downloads row.
NoteStoredOnly(u) == UNCHANGED bare

\* note_not_modified copies final_url and bytes from the downloads row; without
\* one its row names none.
NoteNotModified(u) == bare' = IF HasDownload(u) THEN bare ELSE bare \cup {u}

\* 304, whether or not the request was conditional: one more row in the log;
\* fetched_at of the downloads row stays.
NotModified ==
    /\ pc = "fetch"
    /\ NoteNotModified(row.url)
    /\ GoTo("mark")
    /\ UNCHANGED <<captured, frontier, downloads, fresh, lake, events, clock,
                   crashes>>

\* 429 is always retried.
RateLimited ==
    /\ pc = "fetch"
    /\ "ratelimit" \in May
    /\ FrontierRetry(row.url, row.tries)
    /\ BackToLoop
    /\ UNCHANGED <<downloads, fresh, observations, lake, events, clock, crashes>>

\* Mutant: no budget.
RetryForever == FrontierRetry(row.url, row.tries)

RetryOrSkip == IF row.tries < MaxRetries
               THEN FrontierRetry(row.url, row.tries)
               ELSE FrontierSkip(row.url)

\* 408, 425 and 5xx are retried while the budget lasts.
ServerError ==
    /\ pc = "fetch"
    /\ "server_error" \in May
    /\ RetryOrSkip
    /\ BackToLoop
    /\ UNCHANGED <<downloads, fresh, observations, lake, events, clock, crashes>>

\* Any other status of 400 or more, a redirect out of the allowed hosts, a
\* body over max_file_bytes.
Rejected ==
    /\ pc = "fetch"
    /\ "rejected" \in May
    /\ FrontierSkip(row.url)
    /\ BackToLoop
    /\ UNCHANGED <<downloads, fresh, observations, lake, events, clock, crashes>>

\* The body has streamed to a temporary file and is put in place.
CommitBody(b) ==
    /\ pc = "fetch"
    /\ clock < MaxCaptures
    /\ raw' = raw \cup {b}
    /\ body' = b
    /\ clock' = clock + 1
    /\ pc' = "manifest"
    /\ UNCHANGED <<row, pending, robotsDown, manifest, frontier, downloads, fresh,
                   observations, events, crashes>>

\* Mutant: the sources of the previous manifest are dropped.
OnlyThisSource(b, u) == {u}

\* write_manifest keeps the sources the manifest already lists.  It drops those of a manifest
\* that it cannot read; os.replace leaves none half written, and a disk that spoils what is on
\* it is below these steps.
MergedSources(b, u) == manifest[b] \cup {u}

WriteManifest ==
    /\ pc = "manifest"
    /\ manifest' = [manifest EXCEPT ![body] = MergedSources(body, row.url)]
    /\ GoTo("save")
    /\ UNCHANGED <<raw, frontier, downloads, fresh, observations, events, clock,
                   crashes>>

\* Mutant: the transaction forgets the log.
AppendNothing(c) == UNCHANGED captured

AppendObservation(c) == captured' = [captured EXCEPT ![c] = @ + 1]

\* downloads and observations change in one transaction.
SaveDownload ==
    /\ pc = "save"
    /\ downloads' = [downloads EXCEPT ![row.url] = [body |-> body, at |-> clock]]
    /\ AppendObservation(InHand)
    /\ fresh' = fresh \cup {row.url}
    /\ GoTo("publish")
    /\ UNCHANGED <<bare, frontier, lake, events, clock, crashes>>

\* Mutant: a refused publication is swallowed.
PublishSwallowed ==
    /\ pc = "publish"
    /\ GoTo("mark")
    /\ UNCHANGED <<frontier, downloads, fresh, observations, lake, events, clock,
                   crashes>>

Publish ==
    /\ pc = "publish"
    /\ events' = events \cup {InHand}
    /\ GoTo("mark")
    /\ UNCHANGED <<frontier, downloads, fresh, observations, lake, clock, crashes>>

\* The stream stores the event but its acknowledgement is lost.
PublishLate ==
    /\ pc = "publish"
    /\ "publish_late" \in May
    /\ events' = events \cup {InHand}
    /\ GoTo("failed")
    /\ UNCHANGED <<frontier, downloads, fresh, observations, lake, clock, crashes>>

\* Mutant: the deepest level but one is not expanded.
FollowsLinksShort == body # NoBody /\ row.depth + 1 < MaxDepth

FollowsLinks == body # NoBody /\ row.depth < MaxDepth

\* The row is done; the links of a page it has just published come next.
MarkDone ==
    /\ pc = "mark"
    /\ status' = [status EXCEPT ![row.url] = "done"]
    /\ IF FollowsLinks
       THEN /\ pc' = "links"
            /\ pending' = LinksOf[body] \cap InScope
            /\ UNCHANGED <<row, body, robotsDown>>
       ELSE BackToLoop
    /\ UNCHANGED <<depth, tries, due, downloads, fresh, observations, lake, events,
                   clock, crashes>>

\* Whatever raises inside the try block: no connection, no disk, a locked
\* database, a publication refused.
Raise ==
    /\ \/ pc \in {"fetch", "manifest", "save", "publish", "mark"} /\ "exception" \in May
       \/ pc = "failed"
    /\ RetryOrSkip
    /\ BackToLoop
    /\ UNCHANGED <<downloads, fresh, observations, lake, events, clock, crashes>>

Crash ==
    /\ pc # "down"
    /\ "crash" \in May
    /\ crashes < MaxCrashes
    /\ crashes' = crashes + 1
    /\ pc' = "down"
    /\ row' = NoRow /\ body' = NoBody /\ pending' = {}
    /\ robotsDown' = FALSE
    /\ UNCHANGED <<frontier, downloads, fresh, observations, lake, events, clock>>
-----------------------------------------------------------------------------
\* The scheduler's process.  A job opens a Frontier of its own.
JobRecrawlStale ==
    /\ "jobs" \in May
    /\ Backfill
    /\ FrontierRequeueStale
    /\ UNCHANGED <<downloads, fresh, lake, events, crawler, clock, crashes>>

\* One turn of the loop of job_frontier_seed.
JobFrontierSeed(u) ==
    /\ "jobs" \in May
    /\ u \in Seeds \cap InScope
    /\ Backfill
    /\ FrontierAdd(u, 0)
    /\ UNCHANGED <<downloads, fresh, lake, events, crawler, clock, crashes>>

\* RECRAWL_AFTER_HOURS pass after the last download of u.
Age(u) ==
    /\ u \in fresh
    /\ fresh' = fresh \ {u}
    /\ UNCHANGED <<frontier, downloads, observations, lake, events, crawler,
                   clock, crashes>>

\* The retry delay of u runs out.
BecomeDue(u) ==
    /\ status[u] = "queued"
    /\ u \notin due
    /\ due' = due \cup {u}
    /\ UNCHANGED <<status, depth, tries, downloads, fresh, observations, lake,
                   events, crawler, clock, crashes>>

Settle == SkipUnchecked \/ DoneWhileFresh \/ Request

Failing == ServerError \/ Raise

Answer == NotModified \/ RateLimited \/ Rejected \/ \E b \in Bodies : CommitBody(b)

Keep == WriteManifest \/ SaveDownload \/ Publish \/ PublishLate

Adding == EndAdding \/ \E u \in Urls : AddPending(u)

Loop == Sleep \/ RequeueWhenIdle \/ \E u \in Urls : Pick(u)

Jobs == JobRecrawlStale \/ \E u \in Urls : JobFrontierSeed(u)

Clocks == \E u \in Urls : Age(u) \/ BecomeDue(u)

Elsewhere == \/ Start \/ Adding \/ Loop \/ Settle \/ PauseOnLowDisk \/ Answer \/ Keep
             \/ Crash \/ Jobs \/ Clocks

Next == Failing \/ MarkDone \/ Elsewhere

Spec == Init /\ [][Next]_vars

\* The event loop keeps running the crawler (WF).  A disk is not full each time
\* a given row is picked (SF on Settle), and a site that is asked again and again
\* gives now and then an answer other than 429 (SF on Verdict).  Delays run out.
Verdict(u) ==
    row.url = u /\ (NotModified \/ Rejected \/ Failing \/ \E b \in Bodies : CommitBody(b))

Fairness == /\ WF_vars(Start) /\ WF_vars(Adding) /\ WF_vars(Loop) /\ WF_vars(Keep)
            /\ WF_vars(Answer) /\ WF_vars(MarkDone)
            /\ \A u \in Urls : /\ SF_vars(row.url = u /\ Settle)
                              /\ SF_vars(Verdict(u))
                              /\ WF_vars(BecomeDue(u))

FairSpec == Spec /\ Fairness
-----------------------------------------------------------------------------
Log == INSTANCE CaptureLog WITH
         Times <- 0..MaxCaptures, store <- raw, latest <- Downloaded,
         log <- {c \in Capture : captured[c] > 0}, announced <- events

TypeOK ==
    /\ status \in [Urls -> {"absent", "queued", "done", "skipped"}]
    /\ depth \in [Urls -> 0..MaxDepth + 1]
    /\ tries \in [Urls -> 0..MaxRetries]
    /\ due \subseteq Urls
    /\ downloads \in [Urls -> [body : Bodies \cup {NoBody}, at : 0..MaxCaptures]]
    /\ fresh \subseteq Urls /\ bare \subseteq Urls
    /\ captured \in [Capture -> Nat]
    /\ raw \subseteq Bodies
    /\ manifest \in [Bodies -> SUBSET Urls]
    /\ events \subseteq Capture
    /\ pc \in Working \cup {"down", "seed", "loop", "links"}
    /\ row \in [url : Urls \cup {NoUrl}, depth : 0..MaxDepth + 1, tries : 0..MaxRetries]
    /\ body \in Bodies \cup {NoBody}
    /\ pending \subseteq Urls
    /\ robotsDown \in BOOLEAN
    /\ clock \in 0..MaxCaptures
    /\ crashes \in 0..MaxCrashes

\* A downloads row never points at bytes or provenance that are not there: raw
\* file and manifest come first, whatever fails in between (storage.py, save_download).
BytesBeforeRows ==
    \A u \in Urls : HasDownload(u) => /\ downloads[u].body \in raw
                                    /\ u \in manifest[downloads[u].body]

\* While _process holds a row across its awaits, no other process changes it: the
\* status, depth and tries it will act on are still those of the table.
RowIsStable ==
    pc \in Working => /\ status[row.url] = "queued"
                      /\ depth[row.url] = row.depth
                      /\ Bump(tries[row.url]) = row.tries

\* The log holds each capture once: none twice, however often backfill_observations
\* runs and in whichever process, and none of the current ones missing once the
\* crawler has opened the database.
CapturesLoggedOnce ==
    /\ \A c \in Capture : captured[c] <= 1
    /\ pc # "down" => \A c \in Downloaded : captured[c] = 1

\* An event on cia.fetched names bytes in the lake, a manifest that lists its URL
\* and a capture of the log, also when the crawler dies right after publishing.
EventsAreBacked ==
    \A e \in events : captured[e] = 1 /\ e.body \in raw /\ e.url \in manifest[e.body]

\* A row is done only when its URL has a downloads row, which requeue_stale joins on
\* to crawl it again; the one exception, the log tells of: the site answered 304
\* before it ever served bytes, and such a row stays done for good.
DoneIsAccounted == \A u \in Urls : status[u] = "done" => HasDownload(u) \/ u \in bare

\* Steps of the crawler and of the jobs keep the promise of the capture log.
ImplementsCaptureLog == Log!Spec

\* A row is done only when the event of its current capture was published, as the
\* comment in _process says ("Stay queued until search accepts the event").
DoneMeansPublished ==
    \A u \in Urls : status[u] = "done" /\ downloads[u].at > 0 => CaptureOf(u) \in events

\* Every link in scope of a page done above MaxDepth has a frontier row, once the
\* crawler has left that page.
LinksFollowed ==
    \A u \in Urls :
        /\ status[u] = "done" /\ downloads[u].at > 0 /\ depth[u] < MaxDepth
        /\ ~(pc = "links" /\ row.url = u)
        => \A v \in LinksOf[downloads[u].body] \cap InScope : status[v] # "absent"

\* Every queued URL is settled: no retry loop, delay or shallower row keeps it
\* waiting for ever.
QueuedSettles == \A u \in Urls : status[u] = "queued" ~> status[u] \in {"done", "skipped"}

-----------------------------------------------------------------------------
(* What CrawlProofs adds to these to make them inductive. *)

\* What the crawler's own variables hold at each place.
HandTyped ==
    /\ pc \in Working \cup {"links"} => row.url \in Urls
    /\ pc \in {"down", "seed", "loop", "check", "fetch"} => body = NoBody
    /\ pc \in {"manifest", "save", "publish", "failed", "links"} => body \in Bodies
    /\ pc = "links" => row.depth < MaxDepth

\* Whatever the crawler is about to mark done has a downloads row or a bare 304, and
\* what it is about to publish is its downloads row.
HandStored ==
    /\ pc = "mark" => HasDownload(row.url) \/ row.url \in bare
    /\ pc \in {"publish", "failed"} => downloads[row.url] = [body |-> body, at |-> clock]

\* No row carries a time later than the clock, and a capture not yet saved has a
\* time of its own.
TimesOrdered ==
    /\ \A c \in Capture : captured[c] > 0 => c.at <= clock
    /\ \A u \in Urls : downloads[u].at <= clock
    /\ pc \in {"manifest", "save"} =>
         /\ \A c \in Capture : captured[c] > 0 => c.at < clock
         /\ \A u \in Urls : downloads[u].at < clock

\* Every capture of the log, and the one in hand, has its bytes and its manifest.
LoggedIsBacked ==
    /\ \A c \in Capture : captured[c] > 0 => c.body \in raw /\ c.url \in manifest[c.body]
    /\ pc \in {"manifest", "save"} => body \in raw
    /\ pc = "save" => row.url \in manifest[body]

\* A page under the log whose links are still to be added.
Unfollowed(u) == row.url = u /\ (pc \in {"publish", "links"} \/ (pc = "mark" /\ body # NoBody))

\* Where the crawler neither raises nor crashes: a page captured above MaxDepth has a frontier
\* row for each link, but the one in hand, whose links are those of the body in hand.
LinksHeld ==
    /\ pc # "failed"
    /\ \A u \in Urls : downloads[u].at > 0 =>
          /\ HasDownload(u) /\ status[u] # "absent"
          /\ depth[u] < MaxDepth /\ ~Unfollowed(u) =>
                \A v \in LinksOf[downloads[u].body] \cap InScope : status[v] # "absent"
    /\ \A u \in Urls : Unfollowed(u) => downloads[u].body = body
    /\ pc = "links" => \A v \in LinksOf[body] \cap InScope : status[v] # "absent" \/ v \in pending
=============================================================================
