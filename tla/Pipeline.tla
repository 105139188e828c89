------------------------------ MODULE Pipeline ------------------------------
(***************************************************************************)
(* From a capture to a row of search: the crawler, known here only by the  *)
(* promise it keeps (CaptureLog), the stream of cia.fetched and            *)
(* cia.extracted, the extractor and the indexer that consume it, and       *)
(* index_missing, the replay over the lake that the indexer runs when it   *)
(* starts and that a job may run beside it at any time.                    *)
(*                                                                         *)
(* The stream delivers at least once: a message stays until it is          *)
(* acknowledged, a nak, a crash or an expired acknowledgement wait brings  *)
(* it back later, out of order.                                            *)
(*                                                                         *)
(* Data abstracted: a body stands for its SHA-256 and its text; a record   *)
(* (normalized file, row of documents) keeps what tells captures apart.    *)
(* requested_url is url.  Copies of one message waiting together count as  *)
(* one, for a handler that runs again reads the same files.                *)
(***************************************************************************)
EXTENDS Naturals

CONSTANTS Urls, Bodies,
          Serves,        \* the bodies each URL may serve
          None, Garbled, \* no record; a file two writers wrote over each other
          May,           \* what may go wrong, see Happenings
          MaxCaptures,   \* bound on the number of captures
          MaxFaults      \* bound on the number of faults

Happenings == {"unpublished", "exception", "late", "garble", "crash", "replay_job"}

Times == 1..MaxCaptures
Capture == [url : Urls, body : Bodies, at : Times]
Record == [url : Urls, body : Bodies, at : Times, urls : SUBSET Urls]

ASSUME PipelineAssumption == /\ None # Garbled /\ {None, Garbled} \cap (Record \cup Capture) = {}
                             /\ Serves \in [Urls -> SUBSET Bodies]
                             /\ MaxCaptures \in Nat
                             /\ MaxFaults \in Nat
                             /\ May \subseteq Happenings

VARIABLES
  \* the crawler
  store, log, latest, announced,
  sources,     \* the captures a body's manifest lists, one per URL
  crawling,    \* the capture it has stored and not yet published
  clock,       \* fetched_at of the newest capture
  \* the stream
  fetched,     \* messages of cia.fetched not yet handed out
  redeliver,   \* messages of cia.fetched to be handed out again
  extracted,   \* bodies named by messages of cia.extracted
  \* files and tables
  tmp,         \* what the temporary file of a body's record holds
  normalized,  \* the record of a body in the lake
  documents,   \* the row of a body in search.sqlite
  \* the processes
  pc, hand,    \* where each stands, and the record it works on
  todo,        \* bodies a replay has still to go through
  faults

crawler == <<store, log, latest, announced, sources, crawling, clock>>
stream == <<fetched, redeliver, extracted>>
files == <<tmp, normalized>>
vars == <<crawler, stream, files, documents, pc, hand, todo, faults>>

Log == INSTANCE CaptureLog

Workers == {"extractor", "indexer", "scheduler"}
Replayers == {"indexer", "scheduler"}

PayloadOf(r) == [url |-> r.url, body |-> r.body, at |-> r.at]

\* A stream, like a manifest, is in the order of the captures.
Earliest(S) == {c \in S : \A d \in S : c.at <= d.at}
-----------------------------------------------------------------------------
Init ==
    /\ store = {} /\ latest = {} /\ announced = {} /\ Log!Init
    /\ sources = [b \in Bodies |-> {}]
    /\ crawling = None
    /\ clock = 0
    /\ fetched = {} /\ redeliver = {} /\ extracted = {}
    /\ tmp = [b \in Bodies |-> None]
    /\ normalized = [b \in Bodies |-> None]
    /\ documents = [b \in Bodies |-> None]
    /\ pc = [p \in Workers |-> "idle"]
    /\ hand = [p \in Workers |-> None]
    /\ todo = [p \in Workers |-> {}]
    /\ faults = 0

Fault(kind) == kind \in May /\ faults < MaxFaults /\ faults' = faults + 1

Goto(p, place) == pc' = [pc EXCEPT ![p] = place]
Holding(p, r) == hand' = [hand EXCEPT ![p] = r]
-----------------------------------------------------------------------------
(* The crawler: bytes and manifest, then the log, then the stream. *)

\* A manifest keeps the first capture of each URL; of one that cannot be read nothing is kept,
\* which a failing disk alone brings about.
SourcesWith(c) == IF \E d \in sources[c.body] : d.url = c.url
                  THEN sources[c.body]
                  ELSE sources[c.body] \cup {c}

Fetch(u, b) ==
    /\ crawling = None
    /\ clock < MaxCaptures
    /\ b \in Serves[u]
    /\ LET c == [url |-> u, body |-> b, at |-> clock + 1]
       IN  /\ Log!Store(b)
           /\ sources' = [sources EXCEPT ![b] = SourcesWith(c)]
           /\ crawling' = c
           /\ clock' = clock + 1
    /\ UNCHANGED <<stream, files, documents, pc, hand, todo, faults>>

SaveDownload ==
    /\ crawling # None
    /\ Log!Record(crawling)
    /\ UNCHANGED <<sources, crawling, clock, stream, files, documents, pc, hand, todo, faults>>

Publish ==
    /\ crawling # None
    /\ Log!Announce(crawling)
    /\ fetched' = fetched \cup {crawling}
    /\ crawling' = None
    /\ UNCHANGED <<sources, clock, redeliver, extracted, files, documents, pc, hand, todo, faults>>

\* The crawler dies with the capture in hand, or its publication fails for good.
Unpublished ==
    /\ crawling # None
    /\ Fault("unpublished")
    /\ crawling' = None
    /\ UNCHANGED <<store, log, latest, announced, sources, clock, stream, files, documents,
                   pc, hand, todo>>
-----------------------------------------------------------------------------
(* normalize_document, in the extractor and in a replay. *)

\* Mutant: every record claims the newest fetch.
RecordNow(c) == [url |-> c.url, body |-> c.body, at |-> clock,
                 urls |-> {d.url : d \in sources[c.body]}]

RecordOf(c) == [url |-> c.url, body |-> c.body, at |-> c.at,
                urls |-> {d.url : d \in sources[c.body]}]

\* The next message in order, or one that has come back.
Delivered == redeliver \cup Earliest(fetched)

Take(c) ==
    /\ pc["extractor"] = "idle"
    /\ c \in Delivered
    /\ Holding("extractor", RecordOf(c))
    /\ Goto("extractor", "open")
    /\ fetched' = fetched \ {c}
    /\ redeliver' = redeliver \ {c}
    /\ UNCHANGED <<crawler, extracted, files, documents, todo, faults>>

\* The other processes that have the same temporary file open.
OtherWriters(p) == {q \in Workers \ {p} : pc[q] = "replace" /\ hand[q].body = hand[p].body}

\* gzip.open truncates the temporary file; two writers at once share it.
Open(p) ==
    /\ pc[p] = "open"
    /\ \E r \in {hand[p]} \cup (IF OtherWriters(p) # {} /\ "garble" \in May
                               THEN {Garbled} ELSE {}) :
          tmp' = [tmp EXCEPT ![hand[p].body] = r]
    /\ Goto(p, "replace")
    /\ UNCHANGED <<crawler, stream, normalized, documents, hand, todo, faults>>

AfterRecord(p) == IF p = "extractor" THEN "publish" ELSE "extracting"

Replace(p) ==
    /\ pc[p] = "replace"
    /\ LET b == hand[p].body
       IN  /\ tmp[b] # None
           /\ normalized' = [normalized EXCEPT ![b] = tmp[b]]
           /\ tmp' = [tmp EXCEPT ![b] = None]
    /\ Goto(p, AfterRecord(p))
    /\ UNCHANGED <<crawler, stream, documents, hand, todo, faults>>

\* Mutant: the message is acknowledged all the same.
NakFetchedAcks == UNCHANGED redeliver

\* The handler of the extractor failed: the message is given back.
NakFetched == redeliver' = redeliver \cup {PayloadOf(hand["extractor"])}

\* What a failed normalize_document leads to: a nak, or the next item of a replay.
GiveUp(p) ==
    IF p = "extractor"
    THEN NakFetched /\ Goto(p, "idle") /\ UNCHANGED extracted
    ELSE UNCHANGED <<redeliver, extracted>> /\ Goto(p, "extracting")

\* The temporary file is gone: the other writer has moved it into place, and what
\* this one wrote since may have spoilt it.
ReplaceMissing(p) ==
    /\ pc[p] = "replace"
    /\ LET b == hand[p].body
       IN  /\ tmp[b] = None
           /\ \E r \in {normalized[b]} \cup (IF "garble" \in May THEN {Garbled} ELSE {}) :
                 normalized' = [normalized EXCEPT ![b] = r]
    /\ GiveUp(p)
    /\ Holding(p, None)
    /\ UNCHANGED <<crawler, fetched, tmp, documents, todo, faults>>

PublishExtracted ==
    /\ pc["extractor"] = "publish"
    /\ extracted' = extracted \cup {hand["extractor"].body}
    /\ Goto("extractor", "ack")
    /\ UNCHANGED <<crawler, fetched, redeliver, files, documents, hand, todo, faults>>

AckFetched ==
    /\ pc["extractor"] = "ack"
    /\ Goto("extractor", "idle")
    /\ Holding("extractor", None)
    /\ UNCHANGED <<crawler, stream, files, documents, todo, faults>>
-----------------------------------------------------------------------------
(* index_normalized, in the consumer of cia.extracted and in a replay. *)

\* Mutant: any file will do.
Exists(b) == normalized[b] # None

\* A file that two writers spoilt is no gzip of a record: reading it raises.
Readable(b) == normalized[b] \in Record

\* While its file cannot be read, a message comes back again and again.
HandleExtracted(b) ==
    /\ pc["indexer"] = "idle"
    /\ b \in extracted
    /\ Readable(b)
    /\ extracted' = extracted \ {b}
    /\ Holding("indexer", normalized[b])
    /\ Goto("indexer", "handle")
    /\ UNCHANGED <<crawler, fetched, redeliver, files, documents, todo, faults>>

\* Mutant: INSERT OR IGNORE instead of the UPDATE.
RowKept(r) == IF documents[r.body] = None
              THEN [documents EXCEPT ![r.body] = r] ELSE documents

\* One transaction replaces the row and the chunks of a body.
RowOf(r) == [documents EXCEPT ![r.body] = r]

AfterCommit(p) == IF pc[p] = "handle" THEN "ack" ELSE "indexing"

Commit(p) ==
    /\ pc[p] \in {"handle", "index"}
    /\ documents' = RowOf(hand[p])
    /\ Goto(p, AfterCommit(p))
    /\ UNCHANGED <<crawler, stream, files, hand, todo, faults>>

AckExtracted ==
    /\ pc["indexer"] = "ack"
    /\ Goto("indexer", "idle")
    /\ Holding("indexer", None)
    /\ UNCHANGED <<crawler, stream, files, documents, todo, faults>>
-----------------------------------------------------------------------------
(* index_missing. *)

\* Bodies with a raw file and a manifest and no record.
PendingRaw == {b \in store : sources[b] # {} /\ normalized[b] = None}

\* Bodies with a record and no row.
MissingRows == {b \in Bodies : normalized[b] # None /\ documents[b] = None}

StartReplay(p) ==
    /\ \/ p = "indexer" /\ pc[p] = "down"
       \/ p = "scheduler" /\ pc[p] = "idle" /\ "replay_job" \in May
    /\ todo' = [todo EXCEPT ![p] = PendingRaw]
    /\ Goto(p, "extracting")
    /\ UNCHANGED <<crawler, stream, files, documents, hand, faults>>

\* The payload of a replay is the first source the manifest lists.
ReplayRaw(p, b) ==
    /\ pc[p] = "extracting"
    /\ b \in todo[p]
    /\ todo' = [todo EXCEPT ![p] = @ \ {b}]
    /\ \E c \in Earliest(sources[b]) : Holding(p, RecordOf(c))
    /\ Goto(p, "open")
    /\ UNCHANGED <<crawler, stream, files, documents, faults>>

ListMissing(p) ==
    /\ pc[p] = "extracting"
    /\ todo[p] = {}
    /\ todo' = [todo EXCEPT ![p] = MissingRows]
    /\ Goto(p, "indexing")
    /\ UNCHANGED <<crawler, stream, files, documents, hand, faults>>

ReplayRecord(p, b) ==
    /\ pc[p] = "indexing"
    /\ b \in todo[p]
    /\ todo' = [todo EXCEPT ![p] = @ \ {b}]
    /\ IF Readable(b)
       THEN Holding(p, normalized[b]) /\ Goto(p, "index")
       ELSE UNCHANGED <<hand, pc>>
    /\ UNCHANGED <<crawler, stream, files, documents, faults>>

EndReplay(p) ==
    /\ pc[p] = "indexing"
    /\ todo[p] = {}
    /\ Holding(p, None)
    /\ Goto(p, "idle")
    /\ UNCHANGED <<crawler, stream, files, documents, todo, faults>>
-----------------------------------------------------------------------------
(* Faults. *)

\* A handler or an item of a replay raises: a parse, a lock, a disk, the embedder.
Raise(p) ==
    /\ Fault("exception")
    /\ \/ /\ pc[p] \in {"open", "replace", "publish"}
          /\ GiveUp(p)
       \/ /\ pc[p] \in {"handle", "ack"} /\ p = "indexer"
          /\ extracted' = extracted \cup {hand[p].body}
          /\ Goto(p, "idle")
          /\ UNCHANGED redeliver
       \/ /\ pc[p] = "index"
          /\ Goto(p, "indexing")
          /\ UNCHANGED <<redeliver, extracted>>
    /\ Holding(p, None)
    /\ UNCHANGED <<crawler, fetched, files, documents, todo>>

\* The acknowledgement wait of a message runs out while it is handled or waits
\* behind another in the client: the server hands it out once more.
AckWaitExpires ==
    /\ Fault("late")
    /\ \/ \E c \in fetched :
             redeliver' = redeliver \cup {c} /\ UNCHANGED extracted
       \/ /\ pc["extractor"] # "idle"
          /\ redeliver' = redeliver \cup {PayloadOf(hand["extractor"])}
          /\ UNCHANGED extracted
       \/ /\ pc["indexer"] \in {"handle", "ack"}
          /\ extracted' = extracted \cup {hand["indexer"].body}
          /\ UNCHANGED redeliver
    /\ UNCHANGED <<crawler, fetched, files, documents, pc, hand, todo>>

\* What the extractor had taken into its client, in order, comes back later.
CrashExtractor ==
    /\ Fault("crash")
    /\ \E t \in 0..MaxCaptures :
          LET taken == {c \in fetched : c.at <= t}
              inHand == IF pc["extractor"] = "idle"
                        THEN {} ELSE {PayloadOf(hand["extractor"])}
          IN  /\ redeliver' = redeliver \cup inHand \cup taken
              /\ fetched' = fetched \ taken
    /\ Goto("extractor", "idle")
    /\ Holding("extractor", None)
    /\ UNCHANGED <<crawler, extracted, files, documents, todo>>

CrashReplayer(p) ==
    /\ Fault("crash")
    /\ Goto(p, IF p = "indexer" THEN "down" ELSE "idle")
    /\ extracted' = IF pc[p] \in {"handle", "ack"}
                    THEN extracted \cup {hand[p].body} ELSE extracted
    /\ Holding(p, None)
    /\ todo' = [todo EXCEPT ![p] = {}]
    /\ UNCHANGED <<crawler, fetched, redeliver, files, documents>>
-----------------------------------------------------------------------------
CrawlerStep == SaveDownload \/ Publish \/ (\E u \in Urls, b \in Bodies : Fetch(u, b))

RecordStep(p) == Open(p) \/ Replace(p) \/ ReplaceMissing(p)

ExtractorStep == \/ \E c \in Capture : Take(c)
                 \/ RecordStep("extractor")
                 \/ PublishExtracted
                 \/ AckFetched

ReplayStep(p) == \/ \E b \in Bodies : ReplayRaw(p, b) \/ ReplayRecord(p, b)
                 \/ ListMissing(p)
                 \/ EndReplay(p)
                 \/ RecordStep(p)
                 \/ Commit(p)

IndexerStep == \/ StartReplay("indexer")
               \/ ReplayStep("indexer")
               \/ \E b \in Bodies : HandleExtracted(b)
               \/ AckExtracted

FaultStep == \/ Unpublished
             \/ AckWaitExpires
             \/ CrashExtractor
             \/ \E p \in Workers : Raise(p)
             \/ \E p \in Replayers : CrashReplayer(p)

Next == \/ CrawlerStep
        \/ ExtractorStep
        \/ IndexerStep
        \/ StartReplay("scheduler") \/ ReplayStep("scheduler")
        \/ FaultStep

Spec == Init /\ [][Next]_vars

\* Every process that runs goes on, and the crawler finishes what it has in hand;
\* that it fetches, and that jobs are triggered, is left open.
FairSpec == /\ Spec
            /\ WF_vars(SaveDownload \/ Publish)
            /\ WF_vars(ExtractorStep)
            /\ WF_vars(IndexerStep)
-----------------------------------------------------------------------------
TypeOK ==
    /\ store \subseteq Bodies
    /\ log \subseteq Capture
    /\ latest \subseteq Capture
    /\ announced \subseteq Capture
    /\ sources \in [Bodies -> SUBSET Capture]
    /\ crawling \in Capture \cup {None}
    /\ clock \in 0..MaxCaptures
    /\ fetched \subseteq Capture
    /\ redeliver \subseteq Capture
    /\ extracted \subseteq Bodies
    /\ tmp \in [Bodies -> Record \cup {None, Garbled}]
    /\ normalized \in [Bodies -> Record \cup {None, Garbled}]
    /\ documents \in [Bodies -> Record \cup {None}]
    /\ pc \in [Workers -> {"idle", "open", "replace", "publish", "ack", "handle", "index",
                           "down", "extracting", "indexing"}]
    /\ hand \in [Workers -> Record \cup {None}]
    /\ todo \in [Workers -> SUBSET Bodies]
    /\ faults \in 0..MaxFaults

\* A row of search was fetched as it says: its bytes and record are in the lake and
\* its URL and time are those of a capture the log or the manifest holds.
RowsAreBacked ==
    \A b \in Bodies : documents[b] # None =>
        /\ b \in store
        /\ normalized[b] # None
        /\ PayloadOf(documents[b]) \in log \cup sources[b]

\* A body has come past the extractor: to the stream of the indexer, into its
\* hands or into search.
Past(b) == \/ b \in extracted
           \/ pc["indexer"] \in {"handle", "ack"} /\ hand["indexer"].body = b
           \/ documents[b] # None

\* No event is acknowledged before its effect is durable: a published capture waits
\* in the stream, is in the extractor's hands, or its body has come past it
\* (worker_extractor publishes before the ack, worker_indexer commits before it).
NothingLost ==
    \A c \in announced :
        \/ c \in fetched \cup redeliver
        \/ pc["extractor"] # "idle" /\ PayloadOf(hand["extractor"]) = c
        \/ Past(c.body)

\* The body of every published capture becomes searchable, whatever fails on the way,
\* unless two writers of one temporary file have left for good a record that cannot be
\* read: index_missing passes over it, and a message about it is never handled.
EventuallySearchable ==
    \A b \in Bodies : (\E c \in announced : c.body = b) ~> \/ documents[b] # None
                                                       \/ [](normalized[b] = Garbled)

\* All that was captured has been handled.
Settled == /\ crawling = None
           /\ fetched = {} /\ redeliver = {} /\ extracted = {}
           /\ \A p \in Workers : pc[p] = "idle"

\* Once the stream is empty search, lake and manifests agree: the row of a body is
\* its record, and the record lists every URL the manifest knows.
SettledAgree ==
    Settled => \A b \in store : /\ documents[b] = normalized[b]
                                /\ documents[b] # None
                                /\ documents[b].urls = {c.url : c \in sources[b]}

\* search.latest_sha: of the rows of a URL the one fetched last.
CurrentBodies(u) ==
    LET rows == {b \in Bodies : documents[b] # None /\ documents[b].url = u}
    IN  {b \in rows : \A d \in rows : documents[d].at <= documents[b].at}

\* No other URL serves what u serves: its rows are its own.
OwnBytes(u) == \A v \in Urls \ {u} : Serves[u] \cap Serves[v] = {}

\* Search lists "the current capture of each URL" (README): once all is handled,
\* what counts as current for a URL is what was last captured there.
CurrentIsLatest ==
    Settled => \A c \in latest : OwnBytes(c.url) => CurrentBodies(c.url) = {c.body}
-----------------------------------------------------------------------------
(* What PipelineProofs adds to these to make them inductive. *)

AtWork == {"open", "replace", "publish", "ack", "handle", "index"}

\* The places of each process, and the record it holds there.
PlacesTyped ==
    /\ pc["extractor"] \in {"idle", "open", "replace", "publish", "ack"}
    /\ pc["indexer"] \notin {"publish"}
    /\ pc["scheduler"] \in {"idle", "open", "replace", "index", "extracting", "indexing"}
    /\ \A p \in Workers : pc[p] \in AtWork => hand[p] \in Record

\* A record is filed under its own body.
Keyed == \A b \in Bodies : /\ tmp[b] \in Record => tmp[b].body = b
                           /\ normalized[b] \in Record => normalized[b].body = b
                           /\ \A c \in sources[b] : c.body = b

\* What a worker is about to acknowledge has come as far as it should.
AcksAreEarned ==
    /\ pc["extractor"] = "ack" => Past(hand["extractor"].body)
    /\ pc["indexer"] = "ack" => documents[hand["indexer"].body] # None

\* A record tells of a capture of the log or of the manifest.
Tells(r) == r.body \in store /\ PayloadOf(r) \in log \cup sources[r.body]

RecordsAreBacked ==
    /\ announced \cup fetched \cup redeliver \subseteq log
    /\ \A c \in log : c.body \in store
    /\ pc["extractor"] # "idle" => PayloadOf(hand["extractor"]) \in log
    /\ \A b \in Bodies : /\ sources[b] # {} => b \in store
                         /\ tmp[b] \in Record => Tells(tmp[b])
                         /\ normalized[b] \in Record => Tells(normalized[b])
    /\ \A p \in Workers :
         /\ pc[p] \in AtWork => Tells(hand[p])
         /\ pc[p] \in {"handle", "index"} => normalized[hand[p].body] # None

(* Where nothing replays and no publication fails for good. *)

\* Only the extractor writes records, and its temporary file is its own.
OneWriter == /\ pc["scheduler"] = "idle"
             /\ pc["indexer"] \in {"idle", "handle", "ack"}
             /\ pc["extractor"] = "replace" => tmp[hand["extractor"].body] = hand["extractor"]

\* A capture of the body is still to be taken by the extractor.
Awaited(b) == \/ crawling # None /\ crawling.body = b
              \/ \E c \in fetched \cup redeliver : c.body = b

AtExtractor(b, places) == pc["extractor"] \in places /\ hand["extractor"].body = b

Listed(r) == r.urls = {d.url : d \in sources[r.body]}

\* A record lists what its manifest lists, or another record is to come.
RecordsList ==
    /\ \A b \in store : \/ Awaited(b) \/ AtExtractor(b, {"open", "replace"})
                        \/ normalized[b] \in Record /\ Listed(normalized[b])
    /\ pc["extractor"] \in {"open", "replace"} => \/ Awaited(hand["extractor"].body)
                                                 \/ Listed(hand["extractor"])

\* The indexer will hear of the body again.
Coming(b) == \/ b \in extracted
             \/ Awaited(b)
             \/ AtExtractor(b, {"open", "replace", "publish"})

\* The row of a body is its record, or becomes it.
RowsFollow ==
    \A b \in store :
        \/ Coming(b)
        \/ IF pc["indexer"] = "handle" /\ hand["indexer"].body = b
           THEN hand["indexer"] = normalized[b] ELSE documents[b] = normalized[b]

(* Whatever fails: each capture has a time of its own, and latest is the last of each URL. *)

Captured == log \cup (UNION {sources[b] : b \in Bodies}) \cup ({crawling} \ {None})

TimesApart == /\ \A c \in Captured : c.body \in Serves[c.url] /\ c.at <= clock
              /\ \A c, d \in Captured : c.at = d.at => c = d
              /\ crawling # None => crawling.at = clock

LatestIsLast == latest \subseteq log /\ \A l \in latest, c \in log : c.url = l.url => c.at <= l.at

(* Where nothing fails: captures are handled in their order. *)

\* Older than all that the extractor has still to take.
Before(t) == /\ \A c \in fetched : t < c.at
             /\ crawling # None => t < crawling.at

HandledInTurn ==
    /\ redeliver = {}
    /\ crawling \notin fetched
    /\ pc["extractor"] # "idle" => Before(hand["extractor"].at)
    /\ \A b \in Bodies : normalized[b] # None =>
          /\ PayloadOf(normalized[b]) \in log
          /\ Before(normalized[b].at)
          /\ pc["extractor"] \in {"open", "replace"} => normalized[b].at < hand["extractor"].at
    /\ \A c \in log :
          \/ c \in fetched \/ c = crawling
          \/ pc["extractor"] \in {"open", "replace"} /\ PayloadOf(hand["extractor"]) = c
          \/ normalized[c.body] # None /\ c.at <= normalized[c.body].at

=============================================================================
