# cia-brain: models, checks and proofs

cia-brain crawls public archives into a content-addressed lake, extracts the text, and
serves it from search and a graph. Its processes share files, SQLite tables, a NATS
stream and Postgres, without a transaction that spans any two of them. This directory models
what those processes do to what they share, checks it with TLC on small instances and proves
the main invariants with TLAPS for all of them. Line numbers are those of `src/cia_brain/`.

## The system

| Part | State it keeps | Operations | Correct when |
|---|---|---|---|
| Frontier and crawl loop (`crawler.py`) | tables frontier, downloads; the row in hand | next, add, mark_done, mark_skip, retry, save_download, requeue_stale; `_process` | every queued URL settles; done means stored (or not modified) and published; links of a page are followed |
| Capture log (`history.py`) | table observations | append, backfill | each capture is logged once |
| Raw lake (`storage.py`) | raw files, manifests | commit, write_manifest | a row never points at missing bytes |
| Robots, throttle, redirects (`crawler.py`, `backoff.py`) | rules per host, times of last requests | load, can_fetch, wait, block | rules as published; requests spaced |
| Bus (`bus.py`, NATS) | streams cia.fetched, cia.extracted | publish, consume_forever | no event acknowledged before its effect |
| Extractor (`extract.py`, `worker_extractor.py`) | normalized records, their temporary files | normalize_document | a record tells of a real capture |
| Search rows and replay (`indexer.py`, `worker_indexer.py`) | documents, chunks | index_normalized, index_missing, rebuild | whatever was published becomes searchable; the current capture is the latest |
| Search vectors (`indexer.py`, `embedding.py`) | index in memory, vectors.usearch, vector-meta.json | embed, flush, `_persist_index`, load | a hit shows the text it was found for; bounded loss; models apart |
| Search reader (`search.py`) | a cached index | search, list_documents, latest_sha | answers agree with the rows |
| Knowledge graph (`graph.py`) | documents, mentions, edges | ingest, shortest_path, queries | one active capture of a URL, the latest |
| Jobs (`jobs.py`) | none of their own | recrawl, seed, compact, replay, rebuild, health | do not disturb the workers |
| Scheduler (`scheduler.py`) | due times, scheduler.json | hydrate, execute, run_forever | no run lost, no job twice at once |
| Accounts (`auth.py`, `auth_routes.py`) | users, api_keys in Postgres | register, login, keys | one first administrator; revoked keys stop |
| Rate limits (`ratelimit.py`, `middleware.py`) | buckets in Postgres, in memory | check_rate_limit | no more than the limit in a window |
| Account database (`db.py`) | pool, breaker | db_conn, _mark_failed | does not stay open or shut for ever |
| Supervisor (`prod.py`) | child processes | start, poll, signal | a dead child ends all |
| API, agent, CLI, pages, DAG | none | read and format; trigger jobs | - |

How they interact. The crawler writes bytes, manifest and row, then publishes to cia.fetched.
The extractor turns the bytes into a record, ingests it into the graph if that is enabled, and
publishes to cia.extracted. The indexer commits rows and chunks and adds vectors to an index
in its memory. The scheduler runs jobs in its own process over the same files and tables, as the
API and the command line may; both record results in one scheduler.json. The searcher, in the
API's process, reads rows and a copy of the vectors. Before any route the middleware asks
Postgres, or its own memory while Postgres is away, who sends the request and whether it may
pass. The supervisor starts all processes and ends them together.

What makes it hard:

- Every arrow crosses two stores, so a crash, an exception or a refused publication between
  two writes leaves one without the other, and the next visit must repair it.
- The stream delivers at least once and out of order after a failure, so every handler is
  run again on state that has moved on.
- Several processes write the same file names and tables (temporary files of records,
  vectors.usearch, scheduler.json, the frontier, graph.sqlite), and checks are made before the
  transaction that acts on them: a newer capture, a first user, the current chunk of a URL.
- The same question has two stores for an answer while one is away (rate limits).
- Vectors live in memory and reach the disk later than the rows they belong to.

## The modules

| Module | Models | Composed of |
|---|---|---|
| `CaptureLog` | what the crawler promises: store, log, latest captures, announcements | - |
| `Crawl` | the crawler over frontier, downloads, observations and lake, with the jobs beside it | refines `CaptureLog` |
| `CrawlHistory` | Crawl with a count of failures that were not 429 | extends `MCCrawl` |
| `Pipeline` | stream, extractor, indexer, replay and replay job | the crawler is `CaptureLog` |
| `VectorIndex` | search stores, their files, the searcher | - |
| `SearchReader` | search() SELECT by SELECT, listings | extends `Pipeline` |
| `ActiveGraph` | what the graph promises to queries: who speaks for a URL | - |
| `KnowledgeGraph` | ingest by the extractor, replay_index and graph_rebuild | refines `ActiveGraph` |
| `Robots` | how robots.txt is read, and what such a file means | - |
| `Fetching` | robots.txt, turns of a host, redirects, pauses | extends `Robots` |
| `Supervisor` | prod.main: deaths, signals, exit status | - |
| `JobScheduler` | the scheduler and the API's job routes over scheduler.json | extends `Supervisor` |
| `AccountDatabase` | the breaker of db.py | - |
| `RateLimit` | windows in Postgres and in memory | extends `AccountDatabase` |
| `Accounts` | users, keys, sessions and the handlers of their routes | extends `AccountDatabase` |
| `Gateway` | the middleware: authenticate, minute, day, handler | extends `RateLimit`, `Accounts` |
| `MC...` | constants of an instance | extend the module they name |
| `CrawlProofs`, `PipelineProofs`, `VectorIndexProofs`, `KnowledgeGraphProofs`, `SearchReaderProofs`, `FetchingProofs`, `GatewayProofs`, `JobSchedulerProofs` | theorems | extend the module they name; `SearchReaderProofs` extends `PipelineProofs` too |

`Crawl`. One action per SQLite transaction, file replacement or publication of `_process`, in
the order of the code, so any of them may be the last before a crash. `pc` is the place in
`_process`; `row` is the frontier row it has read, which the code holds across awaits. `Failing`
is the `except` branch with its retry or skip. `JobRecrawlStale` and `JobFrontierSeed` run in
the scheduler's process and open a Frontier of their own, which backfills the log. Time is two
facts: a retry delay has run out (`due`) and a download is younger than RECRAWL_AFTER_HOURS
(`fresh`). Any request may be answered with 304, also one that sent no validators: the code marks
the row done all the same (560), and `bare` holds the URLs of which nothing was stored then.
A body stands for its SHA-256, and its links are a constant. What may happen beside
the plain course is a constant `May`, so that a run names the environment it assumes.

`Pipeline`. The crawler takes the actions of `CaptureLog`, which `Crawl` is proved to
implement. A handler is a sequence of steps (open the temporary file, replace, publish or
commit, acknowledge). `redeliver` holds messages that come back at any later time; messages
that never failed come in order. The indexer starts with `index_missing`, as worker_indexer
does, and the job runs the same replay beside it. Two writers of one temporary file may leave
a file that is no record (`Garbled`); its reader raises.

`SearchReader`. It adds a reader to the workers of `Pipeline`. Each SELECT of search() is an
action: by hash, by words, by vector, latest_sha per hit, the hydration of rows; a listing is one.
A chunk is a body and a number; its id is new each time its document is indexed, as AUTOINCREMENT
makes it, so a chunk ranked and then replaced is found missing. `candidate_k` and `top_k` count
chunks, as the code does: documents with several compete for the window with all of them. `calm` holds the URLs none of whose rows was
written since the reader asked: of those, and no others, an answer can be held to its word.

`VectorIndex`. `store[p]` is a SearchStore: its index (`mem`), the counters `since` and
`uncompacted`, the dirty flag, and its place in index_normalized, `_persist_index` or a loop.
Opening is by role: the indexer's start, the replay job, the compaction job, `cli rebuild`.
`_persist_index` is four steps, since a searcher or another store may see each. A vector is the
chunk id it is filed under, the document it embeds and the model that made it. EMBEDDING_MODEL may
be set to any model at any time, also back to an earlier one whose files are still there. `shared`
records whether two stores were ever open at once: the code has no lock between processes, so two
stores overwrite each other's files. `torn` records whether a store died between the index and the
meta file (indexer.py:180, 182) while the meta file named another model: the old name then stands
over the new index. Properties that cannot hold after either say so.

`KnowledgeGraph`. An ingest is two steps, as in the code: the SELECT for a newer capture runs in
autocommit, the UPDATE opens the transaction. A rebuild lists the records, sorted by their time
of change, and reads each when its turn comes. A replay normalizes again what its list says is
missing, under the manifest's first source, and ingests that, whatever the extractor has done since.
`slips` records whether ingests overlapped, a message came back late or a replay ingested. `ActiveGraph` sees the active rows only.

`Fetching`. One coroutine runs every fetch, so `pc` is the place in one fetch while `since` and
`hold` (HostThrottle) are kept for each host. A request is sent where `pc` becomes "answer". The
first request takes its turn before checked_get, every redirect after its own checks; between the
turn and the request the address is looked up and the connection made, which takes time (`Tick`).
A pause is what the code computes of status and Retry-After (`Refused`); a final status pauses
nothing. A delay is what `float()` makes of Crawl-delay: a number, one beyond `Longest` (inf) or none
(nan). `Robots`
states what a robots.txt means without collecting groups, and `HopsAuthorized` judges by that;
`Reading` is the parser's state after each line, a recursive function over the lines of a text.
Whether an address is public is any answer, so a refusal is always possible.

`JobScheduler`. `hand[w]` is the job a writer runs or records, with what it has loaded and the
descriptor it has open: write_text truncates, fills and leaves a name that os.replace moves, and
three actions keep that apart since another writer may move the file between them. A writer that
finds the name gone raises; in the API that is a 500, in the scheduler it ends the process, and
the supervisor ends the service. `Restart` is the platform's.

`Gateway`. `req[r]` is the request in slot `r`, from "auth" through "minute" and "day" to the
stage of its handler; each transaction of a handler is an action. The middleware calls the
database from the event loop, so at most one request of a process is in it, while handlers run
in threads. `counts[s]` is the table of a store: Postgres, or the memory of one process. Every
use of the database may fail instead, before or after its statement took effect.

## What each run shows

| Run | Instance | Shows |
|---|---|---|
| `crawl_faults` | 2 URLs that link to each other, one downloaded before the log existed; 2 bodies; 2 captures; 2 tries; 1 crash; every failure; jobs | bytes and provenance before rows; the row in hand is stable; each capture logged once; events backed; done means stored, or a 304 with nothing stored; refinement of `CaptureLog` |
| `crawl_sites` | a third URL, out of scope, in the sitemap; all failures of sites and disk; no crash, no job | done means published; links followed; every queued URL settles |
| `crawl_unpublished` | crash and exceptions | **violated**: done without ever being published |
| `crawl_pauses` | 429 and 5xx | **violated**: pauses use up the budget of failures |
| `pipeline_faults` | 2 URLs with one body, any 2 faults of four kinds, any half-written files, replay job | rows are backed by captures; nothing lost |
| `pipeline_live` | 2 captures of a URL, any 2 faults of four kinds, any half-written files, replay job | what is published becomes searchable, unless its record stays spoilt |
| `search_reader` | a URL that changes and may change back and another, 3 captures, no fault; documents of 1 and 2 chunks; 4 candidates, 4 shown | manifests, records and rows agree; the current capture is the latest; an answer shows a URL once, and of a URL whose rows stand still the current capture with every chunk that matches |
| `vectors` | 2 documents of 1 and 2 chunks, 2 stores, 2 models that change and return, 4 chunk ids, 2 faults | hits tell their text; save lag bounded; models apart; nothing saved is dropped; nothing forgotten without failures |
| `graph` | a feed that changes and may change back and a page, 3 captures, 3 record writes; two of overlap, redelivery and replay in any combination | one active capture; with none of these it is the latest; refinement of `ActiveGraph` |
| `fetching` | 4 URLs on 3 hosts, one not configured; robots.txt of up to 3 lines and 8 longer ones, with delays that are endless or no number; 3 hops | requests authorized by the meaning of robots.txt, spaced, not during a pause; every fetch ends but for an endless delay |
| `scheduler` | 2 jobs, 2 writers, 1 death or signal with restart, 1 API run | exact counts but for overlaps and losses; failures only by overlap; no run too soon; due jobs run; a death ends the service with its status |
| `gateway` | 2 processes, 2 requests at a time, 4 in all, 2 people, 1 key, 1 database failure | limits of each store kept; one administrator but for a race; only administrators run jobs |

The two violations are disagreements between the code and its own comments; `PROJECT.json`
quotes each. They are properties the code should be changed to keep, or statements that should
be weakened:

- `save_download` makes a row fresh before `publish_json`, and a fresh row is marked done
  (547-550): after a failed publication nothing publishes it again. The bytes do come to
  search when the next replay finds them, under the manifest's first source.
- A 429 stores its attempt in the same column as a failure (573).

Where a property holds under a condition, the condition marks what the code does not
guarantee: without it a behaviour of the code breaks the property.

- `documents` has one row per SHA-256, and a second URL that serves the same bytes overwrites its
  URL (indexer.py:207): the first URL has lost its current capture. `CurrentIsLatest`, `OnePerUrl`,
  and `CurrentActive` speak of URLs with bytes of their own (`OwnBytes`), and `AnswerTellsCurrent`
  owes every current capture only if all URLs have them and the answer has room for the chunks of
  each (`RoomForAll`): a long document crowds others out of the window and of `top_k` (search.py:149, 283).
- A 304 to a request without validators leaves a done row with no download (crawler.py:560), which
  requeue_stale never finds again (`DoneIsAccounted`: `bare`).
- Two writers of one temporary file may leave a record that cannot be read (extract.py:222); if nothing
  writes it again its body is not searchable (`EventuallySearchable`: `Garbled` for ever).
- A Crawl-delay of nan switches delay and pauses of its host off, one of inf makes the crawler sleep for
  ever with the lock in hand (crawler.py:309, 421): `Spaced`, `BlockedIsQuiet` (a delay that is a number) and
  `FetchEnds` (`Stuck`).
- The turn of a host is taken before the address is looked up and the connection made, so two requests may
  come closer than the delay; a third may not (`Spaced`). The request for robots.txt takes no turn and
  heeds no pause (crawler.py:371); both properties are of pages and sitemaps.
- Retry-After on the last try, with a status that is not retried, or from a sitemap is not kept
  (crawler.py:569, 486), although block() is documented to serve when "the origin sends 429 or
  Retry-After" (406); `BlockedIsQuiet` speaks of 429 and of statuses that are tried again.
- A store that dies between the index and the meta file leaves the old model's name over the new index
  (indexer.py:180, 182); once EMBEDDING_MODEL returns to that name the next store mixes the two
  (`NeverMixed`: `torn`).
- A store of another model than the meta file's begins empty, and its first save replaces the index
  (`SavedSurvive`: a store whose model is the one named).
- `ingest` checks before its transaction begins (graph.py:432), so with a rebuild beside the
  extractor, or with a replay, which ingests the first source of a manifest from a list made before, an
  older revision may stay active (`CurrentActive`: no slips).
- Two first registrations may both become administrators (`OneAdmin`: `raced`).
- Two recordings at once may lose a count, put back an old entry, garble the file or end the
  scheduler (`CountsAreRuns`, `NotTooSoon`, `OnlyOverlapFails`: "overlap").
- The compaction job flushes a store that it has opened a moment ago (jobs.py:43), not the
  indexer's; `SaveLagBounded` counts what the indexer has at risk all the same.
- After a redirect a pause is kept for the host asked first (crawler.py:572); `BlockedIsQuiet`
  speaks of pauses that a host asks for itself.

### Bounds

Every bound is a constant: `MaxCaptures`, `MaxRetries`, `MaxDepth`, `MaxCrashes` (Crawl),
`MaxCaptures`, `MaxFaults` (Pipeline), `MaxId`, `Models`, `PersistEvery`, `CompactEvery`,
`MaxFaults` (VectorIndex), `MaxCaptures`, `MaxWrites`, `MaxSlips` (KnowledgeGraph), `MostChunks`,
`Window`, `TopK` (the code's numbers, made small, in SearchReader), `MaxHops`, `MaxRetryAfter` (likewise) and `Longest`
(Fetching), `MaxClock`, `MaxTriggers`, `MaxDeaths` (JobScheduler), `MaxClock`, `MaxKeys`,
`MaxFaults`, `MaxRequests` (Gateway).

Two captures are enough for a URL to be captured again, for two URLs to serve one body, and for
one capture to fail while the other is in flight; three let a URL change and change back.
Two tries give a first failure and a last. One crash may fall between any two steps,
and the restart is a full one; two faults in Pipeline let a failure meet the redelivery of
another. Four ids let a document of two chunks be indexed twice, so that old vectors are deleted and
the save counter reaches `PersistEvery`, or each document once and the small one again. Two faults let a
store die within a save and the next one before it has saved. Change and return need two models.
Two slips of three kinds let any two meet. The run `graph` is symmetric in the two bodies of the feed,
which nothing tells apart. Four candidates are as many as the chunks of two URLs, so that the window has
room for all current ones and not for all there are. Three hops let a redirect lead away and back and end the chain;
`Longest` is no shorter than any delay of the instance that ends, so that a counter which stops there has
passed them all, and the endless one is above it. A clock of two units lets a job come due again after a restart. Four requests
let two people register, one of them log in or be disabled, and one act; the clock of `Gateway`
passes two days of two minutes, so that windows of both kinds end and tables are pruned. In that
run `AccountsAtZero` explores accounts at the first minute only and the limits with anonymous
readers only: neither part reads the other's variables. The theorems below have no bound.

Runs that turn deadlock checking off stop where the bound on captures, ids, writes, time or
requests is reached and nothing is left to do. The runs of Crawl and of Fetching check it: the
crawler's loop always goes on, if only to sleep, and time passes.

### Fairness

`Crawl!FairSpec`: weak fairness of the crawler's own steps, for one process runs them in a loop.
Strong fairness for each URL of the step that leaves the low-disk check, for a disk is not full
each time that row is picked; and of an answer other than 429, for a site does not answer 429
for ever. Delays run out. Jobs and crashes are absent from that run: a row may then settle only
as long as nothing requeues it, and a process that always crashes settles nothing.

`Pipeline!FairSpec`: weak fairness of saving and publishing what has been fetched, of the
extractor and of the indexer (each a process that goes on). No fairness of fetching or of jobs,
and faults are bounded by `MaxFaults`, which excludes a message whose handler always raises:
the code redelivers such a message every 30 seconds for ever.

`Fetching!FairSpec`: weak fairness of each step of the coroutine, which nothing else can disable
for ever, of an answer or its timeout, and of time.

`JobScheduler!FairSpec`: weak fairness of the loop, of each due job, of each writer (jobs end) and
of the supervisor, whose deadline in `_stop` kills who does not end. No fairness of triggers,
deaths, signals, the platform's restart or the clock.

## What is proved

All theorems are of the form `Spec => []Inv` or `Spec => Property`, for any sets and bounds that the
named assumptions allow. The assumptions only say that constants are of their kinds, that there are
finitely many URLs (`ReaderAssumption`) and that `None` and the like are no records. Where a
theorem holds only if something does not go wrong, it says so as `May \cap {...} = {}`, and TLC
finds a counterexample without that condition.

**CrawlProofs.** The invariant comes in layers, each using those below it.
`Typed` adds to `TypeOK` what the crawler holds at each place. `RowStable`: the row in hand is
that of the table, for jobs change only done rows and absent ones. `DoneAccounted` needs `HandStored`:
what is about to be marked done has a downloads row or was answered with a bare 304. `LoggedOnce` needs `TimesOrdered`: no row
carries a time later than the clock, so a capture not yet saved is new to the log and a backfill cannot
log it too. `BytesFirst` and `EventsBacked` need `LoggedIsBacked`, since the log outlives the
downloads row. `Implements`: from these, every step of `Crawl` is a step of `CaptureLog` or leaves
its variables alone; the bookkeeping of the crawler stutters. `DonePublished`: where the process
neither crashes nor raises, `DoneMeansPublished` holds, even if acknowledgements are lost; the run
`crawl_unpublished` shows that the assumption is needed. `LinksAdded`, if none are lost either:
`LinksHeld`: of a captured page above `MaxDepth` only the one in hand lacks rows for its links
(`Unfollowed`), and while it adds them those it lacks are still listed.

**PipelineProofs.** `TypeCorrect` with the places of each process and records filed under their own
body. `RowsBacked`: everything a process holds or a file contains tells of a capture in the log
or a manifest, and those only grow. `EventsNotLost`: what a worker is about to
acknowledge has come past it (`AcksAreEarned`), and what has come past stays past.

`Agreement`, where no publication is lost, no worker crashes and no job replays, but handlers
raise and messages come back at any time. `OneWriter`: nobody shares the temporary file, so what is
moved into place is the record in hand. `RecordsList`: what a manifest lists and a record
does not is on its way to the extractor (`Coming`). `RowsFollow`: a record that differs from its row is
named in the indexer's stream or about to be. With the stream empty nothing is on its way.

`LatestIsCurrent`, without failures (a file that two write cannot come up then, so "garble" is
allowed). `TimesApart`: different captures bear different times. `HandledInTurn`: what waits is younger
than what is in hand, and that than the record it replaces; a logged capture waits, is in hand or is no
younger than the record of its body. `LatestIsLast`: `latest` holds of each URL the youngest capture
in the log. The row being the record (`RowsFollow`), the youngest row of a URL tells its last capture.

**SearchReaderProofs.** The reader's steps change nothing of the workers' and theirs nothing of the
reader's, so the invariants of `PipelineProofs` hold beside it (`LakeBeside`), with every fault allowed. `ItemsAreRead`:
what an answer holds are rows as they were at some SELECT, one per body. `OneOfEachUrl`: of two
items of a URL `_prefer_latest` leaves the one latest_sha named, which a commit in between may change only
together with the row (`OneLeft`). `CurrentIsTold`: `CalmIsKnown` says for each place in search() what
the reader knows of a URL whose rows have stood still since it asked; that no chunk of the current
capture is cut off follows by counting (`CutIsAll`): the chunks of current captures map one to one into
URLs times 1..`MostChunks`, and there is room for so many.

**VectorIndexProofs.** `VectorsHonest`: wherever a vector lies, in the memory of any store, in the
file, a temporary file or the searcher's cache, its id is not above the AUTOINCREMENT counter, so it is
never given to another document's chunk. This holds with any number of stores at once.
`ModelsApart`: with one store after another (`OneAtATime`) and none torn, all that a store has in memory or
puts on the disk is of the model it was opened with, and the meta file is right about the index but
between the two writes of a save (`ModelsNamed`); so a returned name finds vectors of its own.
The rest is of a store alone. `LagBounded`: `Counted` holds the counter below `PersistEvery` but for
the save that this brings, and `Orderly` and `Flagged` say at each step of a save what the files hold and
whether the dirty flag is up. `SavesLoseNothing`: `FileKept`, a store whose model the meta file names has
every document of the file, so a save replaces the file by no less. `NoneIsForgotten`: without failures
and before any change of model (`FirstModel`), a store has every document but for what is in hand (`NoneForgotten`), and where
no flag is up the file has, as the next store will load it (`AllLoaded`).

**KnowledgeGraphProofs.** `OneCaptureActive`: a row is written active only in the transaction that
retires the others of its URL, and a row that changes its URL leaves the old one.

`GraphImplemented`: every step is a step of `ActiveGraph`; an ingest speaks for its URL, or
falls because a newer capture does. `LatestIsActive`: while nothing slips (`Undisturbed`) there is one
ingest at a time, of the record as it is (`OneAtATime`), what is handled is older than what is
pending (`HandledInTurn`), and of the rows of a URL the active one is always the latest
(`ActiveIsLatest`), which a rebuild that replays an older one finds and leaves so. The first two
hold with replays as with anything else; the last is without.

**FetchingProofs.** `Behind`: the turn of a host is never older than its last request but one, and a block
covers the pause that is told. `InTurn`: what the turn found, that the last request but one lies the delay
back and no pause is left, still holds when the request is sent, however long after: time only helps, and
nobody else sends meanwhile. `RequestsSpaced` and `PausesKept` read both off the two steps that send.

`ParserKeepsMeaning`: for every text, of any length, `CanFetch` of what the parser has collected is
`Permits`, which collects nothing. `ReadSoFar` says what the parser holds after n lines: the
closed groups are blocks of agent lines and their directives, the open one is the last block, and each
agent line is in one of them. The library's induction theorems cannot be used here; instead the
least line where `ReadSoFar` fails is named by well-foundedness of < (`LeastOf`), and the step
from the line before refutes it. That a group's score and a text's longest rule exist is shown the same
way (`GreatestLine`). `PermittedHops`: the rules of a host are those of the text it served, and
a place from which a request follows is reached only past them (`Obedient`).

**JobSchedulerProofs.** `Solo`: as long as no two writers have recorded at once, the one that
records has the copy to itself and has loaded what the file still says; `FailuresAreOverlaps`
follows. `Past` and `Apart`: no entry is of the future, and what is due is due by the last run
that was recorded; `IntervalsKept`. `Bounded` holds with any overlaps: no table that may become
the file counts more runs than have ended less those still to be loaded. `Exact`: without slips
one run at most is missing, the one in hand; with `Bounded`, `CountsKept`.

**GatewayProofs.** `Typed` with `Known`: whoever acts in a handler is registered, and the stamp of
a check is of this minute or the last. `Counted`: no store lets through more than it counts, nor
counts more than its limit, and what it has pruned is of a day that is over; `LimitsHold`.
`FirstIsAdmin`: while nobody has raced, a request about to insert the first user is alone and
nobody is registered; `FirstIsOnlyAdmin`. `JobsByAdmins`: the bootstrap clause of require_admin
finds no administrator only after one was disabled; `JobsNeedAdmins`.

Model-checked only: liveness, which the provers do not do (`QueuedSettles`, `EventuallySearchable`,
`FetchEnds`, `DueJobsRun`, `ServiceEnds`), and the two properties that are violated. Every other
property that a run checks is stated by a theorem.

## What is not modelled

- Failures below a step: a SQLite statement that raises inside a transaction, a disk that
  fills while an index is saved, a lock that times out after vectors were removed, a manifest that
  cannot be read, whose earlier sources write_manifest then drops (storage.py:122-123).
- In `KnowledgeGraph` the text of a digest, so that mentions and edges follow their row; bytes
  that two URLs share (`Pipeline` has them); two rebuilds at once.
- Conversions: matching of patterns, formats, entity recognition, embedding values, citations,
  scores; passwords and tokens.
- In `Fetching` the requests for robots.txt itself, which are one step, with what it redirects to.
- In `Gateway` a session's expiry is a refusal that may come at any time; the bucket of raw files,
  which differs in its numbers; AUTH_REQUIRED on. Opening of the pool and the schema (migrate.py).
- In `Supervisor` the start of the children, before the signal handlers stand.
- Readers that change nothing and promise little: `shortest_path` reads neighbours in one SELECT
  each and answers with a path of no one graph; `version_chain`, `document`, facets and stats;
  `chunk_text`, a pure function that tests/test_chunking.py covers.
- The parts marked so in `PROJECT.json` (`components`), each with its reason.

## Plan

1. `GraphPath`, extending `KnowledgeGraph`: shortest_path read by read beside ingests; property: a
   path is simple, and shortest when the graph stands still.
2. `chunk_text` (progress, coverage) and `version_chain` as functions against a reference.
