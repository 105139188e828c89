--------------------------- MODULE KnowledgeGraph ---------------------------
(***************************************************************************)
(* The documents of graph.sqlite and who writes them: the extractor, which *)
(* ingests each record it has put into the lake, replay_index, which does  *)
(* so for captures that have no record, and graph_rebuild, which replays   *)
(* the lake.  An ingest looks for a newer capture of its URL and then, in  *)
(* a transaction of its own, retires the others and writes its row;        *)
(* queries follow the edges of active rows only.                           *)
(*                                                                         *)
(* Data abstracted: a digest stands for the text and so for the mentions   *)
(* and edges drawn from it, which the transaction replaces with the row.   *)
(* GRAPH_ENABLED is read when a process starts.                            *)
(***************************************************************************)
EXTENDS Naturals, FiniteSets

CONSTANTS Urls, Docs,
          Serves,       \* the digests each URL may serve
          None,
          May,          \* what may go wrong, see Slips
          MaxSlips,     \* bound on how many of these do in one behaviour
          MaxCaptures,  \* bound on the number of captures
          MaxWrites     \* bound on the number of records written

\* A rebuild beside the extractor; a message that comes back after later ones; a replay of
\* captures without a record.
Slips == {"overlap", "redeliver", "replay"}

Times == 1..MaxCaptures
Capture == [url : Urls, doc : Docs, at : Times]
Record == [url : Urls, doc : Docs, at : Times, mtime : 1..MaxWrites]
Row == [url : Urls, at : Times, active : BOOLEAN]

ASSUME GraphAssumption == /\ Serves \in [Urls -> SUBSET Docs]
                          /\ None \notin Record \cup Row
                          /\ May \subseteq Slips
                          /\ MaxCaptures \in Nat
                          /\ MaxWrites \in Nat

VARIABLES
  log,      \* the captures made
  pending,  \* captures the extractor has not acknowledged
  record,   \* the normalized file of a digest
  writes,   \* how many have been written
  rows,     \* the documents table, keyed by digest
  pc,       \* where each ingestor stands
  hand,     \* the record it ingests
  claim,    \* whether it found no newer capture
  paths,    \* the files a rebuild has still to replay
  enabled,  \* GRAPH_ENABLED
  slips     \* what has gone wrong

vars == <<log, pending, record, writes, rows, pc, hand, claim, paths, enabled, slips>>

Ingestors == {"extractor", "replay", "rebuild"}

Goto(p, place) == pc' = [pc EXCEPT ![p] = place]
Leave(p) == /\ Goto(p, "idle")
            /\ hand' = [hand EXCEPT ![p] = None]
            /\ claim' = [claim EXCEPT ![p] = FALSE]

Slip(kind) == /\ kind \in May
              /\ Cardinality(slips \cup {kind}) <= MaxSlips
              /\ slips' = slips \cup {kind}
-----------------------------------------------------------------------------
Init ==
    /\ log = {} /\ pending = {}
    /\ record = [d \in Docs |-> None] /\ writes = 0
    /\ rows = [d \in Docs |-> None]
    /\ pc = [p \in Ingestors |-> "idle"]
    /\ hand = [p \in Ingestors |-> None]
    /\ claim = [p \in Ingestors |-> FALSE]
    /\ paths = {}
    /\ enabled \in BOOLEAN
    /\ slips = {}

\* The times of captures are those of one clock.
Now == Cardinality(log)

Fetch(u, d) ==
    /\ Now < MaxCaptures
    /\ d \in Serves[u]
    /\ LET c == [url |-> u, doc |-> d, at |-> Now + 1]
       IN  log' = log \cup {c} /\ pending' = pending \cup {c}
    /\ UNCHANGED <<record, writes, rows, pc, hand, claim, paths, enabled, slips>>
-----------------------------------------------------------------------------
(* The extractor. *)

\* Mutant: the file's time is taken before it is put in place.
StampedBefore(c) == [url |-> c.url, doc |-> c.doc, at |-> c.at, mtime |-> writes]

\* A file's time of change tells only which was written before which.
RecordOf(c) == [url |-> c.url, doc |-> c.doc, at |-> c.at, mtime |-> writes + 1]

\* The stream hands out its messages in order until one has to come back.
InOrder(c) == "redeliver" \in slips \/ \A e \in pending : c.at <= e.at

\* A handler that begins while a rebuild runs overlaps with it.
Beside(p) == IF \E q \in Ingestors \ {p} : pc[q] # "idle"
             THEN Slip("overlap") ELSE UNCHANGED slips

Normalize(c) ==
    /\ pc["extractor"] = "idle"
    /\ c \in pending
    /\ InOrder(c)
    /\ writes < MaxWrites
    /\ record' = [record EXCEPT ![c.doc] = RecordOf(c)]
    /\ writes' = writes + 1
    /\ hand' = [hand EXCEPT !["extractor"] = RecordOf(c)]
    /\ Goto("extractor", IF enabled THEN "look" ELSE "ack")
    /\ Beside("extractor")
    /\ UNCHANGED <<log, pending, rows, claim, paths, enabled>>

PayloadOf(r) == [url |-> r.url, doc |-> r.doc, at |-> r.at]

Ack ==
    /\ pc["extractor"] = "ack"
    /\ pending' = pending \ {PayloadOf(hand["extractor"])}
    /\ Leave("extractor")
    /\ UNCHANGED <<log, record, writes, rows, paths, enabled, slips>>

\* The wait for an acknowledgement runs out: what was handled comes back.
Redeliver(c) ==
    /\ Slip("redeliver")
    /\ c \in log
    /\ record[c.doc] # None
    /\ pending' = pending \cup {c}
    /\ UNCHANGED <<log, record, writes, rows, pc, hand, claim, paths, enabled>>

\* The extractor dies or its handler raises: what it has in hand stays pending.
FailExtractor ==
    /\ Slip("redeliver")
    /\ pc["extractor"] # "idle"
    /\ Leave("extractor")
    /\ UNCHANGED <<log, pending, record, writes, rows, paths, enabled>>
-----------------------------------------------------------------------------
(* index_missing, of a starting indexer or of the job replay_index. *)

\* A digest that had no record when it was listed, as the first source of its manifest tells
\* it; the extractor may have been there since.
NormalizeMissing(c) ==
    /\ Slip("replay")
    /\ pc["replay"] = "idle"
    /\ c \in log
    /\ \A e \in log : e.doc = c.doc => c.at <= e.at
    /\ writes < MaxWrites
    /\ record' = [record EXCEPT ![c.doc] = RecordOf(c)]
    /\ writes' = writes + 1
    /\ hand' = [hand EXCEPT !["replay"] = RecordOf(c)]
    /\ Goto("replay", IF enabled THEN "look" ELSE "next")
    /\ UNCHANGED <<log, pending, rows, claim, paths, enabled>>

\* It has done a digest, or dies over it; an exception is logged and the next one taken.
LeaveMissing ==
    /\ pc["replay"] # "idle"
    /\ Leave("replay")
    /\ UNCHANGED <<log, pending, record, writes, rows, paths, enabled, slips>>
-----------------------------------------------------------------------------
(* KnowledgeGraph.ingest, by any of them. *)

\* Mutant: the times are not compared.
AnyOther(r) == \E d \in Docs \ {r.doc} : rows[d] # None /\ rows[d].url = r.url

Newer(r) == \E d \in Docs \ {r.doc} :
               rows[d] # None /\ rows[d].url = r.url /\ rows[d].at > r.at

\* The SELECT, before the transaction that the UPDATE or INSERT opens.
Look(p) ==
    /\ pc[p] = "look"
    /\ claim' = [claim EXCEPT ![p] = ~Newer(hand[p])]
    /\ Goto(p, "write")
    /\ UNCHANGED <<log, pending, record, writes, rows, hand, paths, enabled, slips>>

\* Mutant: the other captures stay active.
NoneRetired(r) == rows

\* UPDATE documents SET active=0 WHERE url=? AND sha<>?
Retired(r) == [d \in Docs |-> IF rows[d] # None /\ d # r.doc /\ rows[d].url = r.url
                              THEN [rows[d] EXCEPT !.active = FALSE] ELSE rows[d]]

AfterIngest(p) == IF p = "extractor" THEN "ack" ELSE "next"

\* Mutant: an older capture retires the others as well.
WriteOverAll(p) ==
    /\ pc[p] = "write"
    /\ LET r == hand[p]
       IN  rows' = [Retired(r) EXCEPT ![r.doc] = [url |-> r.url, at |-> r.at, active |-> claim[p]]]
    /\ claim' = [claim EXCEPT ![p] = FALSE]
    /\ Goto(p, AfterIngest(p))
    /\ UNCHANGED <<log, pending, record, writes, hand, paths, enabled, slips>>

Write(p) ==
    /\ pc[p] = "write"
    /\ LET r == hand[p]
           others == IF claim[p] THEN Retired(r) ELSE rows
       IN  rows' = [others EXCEPT ![r.doc] = [url |-> r.url, at |-> r.at, active |-> claim[p]]]
    /\ claim' = [claim EXCEPT ![p] = FALSE]
    /\ Goto(p, AfterIngest(p))
    /\ UNCHANGED <<log, pending, record, writes, hand, paths, enabled, slips>>
-----------------------------------------------------------------------------
(* graph_rebuild. *)

Lake == {record[d] : d \in {e \in Docs : record[e] # None}}

\* The files are listed and sorted by the time of their last change.
Rebuild ==
    /\ pc["rebuild"] = "idle"
    /\ Lake # {}
    /\ paths' = Lake
    /\ Goto("rebuild", "next")
    /\ Beside("rebuild")
    /\ UNCHANGED <<log, pending, record, writes, rows, hand, claim, enabled>>

\* A path is opened when its turn comes, and read as it is by then.
Replay(r) ==
    /\ pc["rebuild"] = "next"
    /\ r \in paths
    /\ \A s \in paths : r.mtime <= s.mtime
    /\ paths' = paths \ {r}
    /\ hand' = [hand EXCEPT !["rebuild"] = record[r.doc]]
    /\ Goto("rebuild", "look")
    /\ UNCHANGED <<log, pending, record, writes, rows, claim, enabled, slips>>

Rebuilt ==
    /\ pc["rebuild"] = "next"
    /\ paths = {}
    /\ Leave("rebuild")
    /\ UNCHANGED <<log, pending, record, writes, rows, paths, enabled, slips>>

\* The operator sets GRAPH_ENABLED and restarts the workers.
Enable ==
    /\ ~enabled
    /\ pc["extractor"] = "idle"
    /\ enabled' = TRUE
    /\ UNCHANGED <<log, pending, record, writes, rows, pc, hand, claim, paths, slips>>

\* A rebuild may die anywhere; what it had not replayed stays as it was.
StopRebuild ==
    /\ pc["rebuild"] # "idle"
    /\ Leave("rebuild")
    /\ paths' = {}
    /\ UNCHANGED <<log, pending, record, writes, rows, enabled, slips>>
-----------------------------------------------------------------------------
Next == \/ \E u \in Urls, d \in Docs : Fetch(u, d)
        \/ \E c \in Capture : Normalize(c) \/ Redeliver(c)
        \/ Ack \/ FailExtractor
        \/ (\E c \in Capture : NormalizeMissing(c)) \/ LeaveMissing
        \/ \E p \in Ingestors : Look(p) \/ Write(p)
        \/ \E r \in Record : Replay(r)
        \/ Rebuild \/ Rebuilt \/ StopRebuild \/ Enable

Spec == Init /\ [][Next]_vars
-----------------------------------------------------------------------------
TypeOK ==
    /\ log \subseteq Capture
    /\ pending \subseteq Capture
    /\ record \in [Docs -> Record \cup {None}]
    /\ writes \in 0..MaxWrites
    /\ rows \in [Docs -> Row \cup {None}]
    /\ pc \in [Ingestors -> {"idle", "next", "look", "write", "ack"}]
    /\ hand \in [Ingestors -> Record \cup {None}]
    /\ claim \in [Ingestors -> BOOLEAN]
    /\ paths \subseteq Record
    /\ enabled \in BOOLEAN
    /\ slips \subseteq Slips

ActiveAt(u) == {d \in Docs : rows[d] # None /\ rows[d].url = u /\ rows[d].active}

\* However ingests interleave, queries never count two captures of one URL: the UPDATE and
\* the INSERT are one transaction, and a digest has one row.
OneActive == \A u \in Urls : \A d, e \in ActiveAt(u) : d = e

\* The captures that speak for a URL, and those about to be written.
Speaking == {<<rows[d].url, d>> : d \in {e \in Docs : rows[e] # None /\ rows[e].active}}
Ingested == {hand[p].doc : p \in {q \in Ingestors : pc[q] = "write"}}

Graph == INSTANCE ActiveGraph WITH active <- Speaking, ingested <- Ingested

\* Ingests, rebuilds and redeliveries together are the graph that queries rely on: a capture
\* that turns out to be superseded never silences the one that speaks for its URL.
ImplementsActiveGraph == Graph!Spec

\* All captures are handled, and the graph tells what the records tell.
Settled == /\ pending = {}
           /\ \A p \in Ingestors : pc[p] = "idle"
           /\ \A d \in Docs : record[d] # None =>
                 rows[d] # None /\ rows[d].url = record[d].url /\ rows[d].at = record[d].at

LatestAt(u) == {c \in log : c.url = u /\ \A e \in log : e.url = u => e.at <= c.at}

\* No other URL serves the bytes of this one: a digest has one record and one row, whose URL is
\* that of its last capture.
OwnBytes(u) == \A v \in Urls \ {u} : Serves[u] \cap Serves[v] = {}

NewestActive == \A u \in Urls : OwnBytes(u) => ActiveAt(u) = {c.doc : c \in LatestAt(u)}

\* Captures handled in order, by one ingest at a time and none by a replay, leave the latest
\* capture of each URL active, also where it changed back; a rebuild beside no other does not
\* disturb that.
CurrentActive == Settled /\ slips = {} => NewestActive
-----------------------------------------------------------------------------
(* What KnowledgeGraphProofs adds to these to make them inductive. *)

\* Every record, row and ingest tells a capture, and captures are told apart by their times.
TellCaptures ==
    /\ \A c \in log : c.at <= Now /\ c.doc \in Serves[c.url]
    /\ \A c, e \in log : c.at = e.at => c = e
    /\ pending \subseteq log
    /\ \A d \in Docs : record[d] # None => PayloadOf(record[d]) \in log
    /\ \A d \in Docs : rows[d] # None => [url |-> rows[d].url, doc |-> d, at |-> rows[d].at] \in log
    /\ \A p \in Ingestors : pc[p] \in {"look", "write", "ack"} => PayloadOf(hand[p]) \in log
    /\ pc["extractor"] # "next"

\* One ingest at a time and no replay, of the record as it is, and of the oldest capture still
\* pending.
OneAtATime ==
    /\ pc["replay"] = "idle"
    /\ \A p, q \in Ingestors : p # q => pc[p] = "idle" \/ pc[q] = "idle"
    /\ \A p \in Ingestors : pc[p] \in {"look", "write", "ack"} => hand[p] = record[hand[p].doc]
    /\ \A p \in Ingestors : pc[p] = "write" => (claim[p] <=> ~Newer(hand[p]))
    /\ pc["extractor"] # "idle" =>
          /\ PayloadOf(hand["extractor"]) \in pending
          /\ \A e \in pending : hand["extractor"].at <= e.at

\* What is handled is older than what is pending, and its record no older than itself.
HandledInTurn ==
    /\ \A c \in log \ pending : /\ \A e \in pending : c.at < e.at
                                /\ record[c.doc] # None /\ c.at <= record[c.doc].at
    /\ \A d \in Docs : record[d] # None /\ PayloadOf(record[d]) \in pending =>
                          pc["extractor"] # "idle" /\ hand["extractor"] = record[d]
    /\ \A d \in Docs : rows[d] # None => record[d] # None /\ rows[d].at <= record[d].at

\* The active row of a URL is the latest of its rows.
ActiveIsLatest ==
    \A u \in Urls : OwnBytes(u) =>
        \A d \in Docs : rows[d] # None /\ rows[d].url = u =>
            (rows[d].active <=> \A e \in Docs : rows[e] # None /\ rows[e].url = u
                                                   => rows[e].at <= rows[d].at)

Undisturbed == TellCaptures /\ (slips = {} => OneAtATime /\ HandledInTurn /\ ActiveIsLatest)
=============================================================================
