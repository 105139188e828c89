--------------------------- MODULE PipelineProofs ---------------------------
(***************************************************************************)
(* The invariants of Pipeline, proved for every set of URLs and bodies,    *)
(* every bound and everything that May go wrong, the garbled file and the  *)
(* replay beside the workers included.  Three layers: types and places,    *)
(* then the lake behind every record, then what acknowledgements rest on.  *)
(* Two more where less goes wrong: what manifest, record and row have in   *)
(* common while nothing replays, and the order of captures while nothing   *)
(* fails.                                                                  *)
(***************************************************************************)
EXTENDS Pipeline, TLAPS

Typed == TypeOK /\ PlacesTyped /\ Keyed

\* A record made from a capture is that capture's and lists URLs.
LEMMA RecordOfCapture ==
    ASSUME Typed, NEW c \in Capture
    PROVE  /\ RecordOf(c) \in Record
           /\ PayloadOf(RecordOf(c)) = c
           /\ RecordOf(c).body = c.body
<1>1. {d.url : d \in sources[c.body]} \subseteq Urls
  BY DEF Typed, TypeOK, Capture
<1>2. RecordOf(c) \in Record
  BY <1>1 DEF RecordOf, Record, Capture
<1>3. PayloadOf(RecordOf(c)) = c
  BY DEF RecordOf, PayloadOf, Capture
<1> QED BY <1>2, <1>3 DEF RecordOf

\* What a worker gives back to the stream is a message.
LEMMA PayloadIsCapture == \A r \in Record : PayloadOf(r) \in Capture
BY DEF PayloadOf, Record, Capture

\* Moving one process to a place leaves the others where they are.
LEMMA GotoOnly ==
    ASSUME TypeOK, NEW p \in Workers, NEW place, Goto(p, place)
    PROVE  /\ pc'[p] = place
           /\ \A q \in Workers \ {p} : pc'[q] = pc[q]
           /\ DOMAIN pc' = Workers
BY DEF TypeOK, Goto

LEMMA InitTyped == Init => Typed
BY PipelineAssumption DEF Init, Typed, TypeOK, PlacesTyped, Keyed, Log!Init, Workers, AtWork

LEMMA TypedStep == Typed /\ [Next]_vars => Typed'
<1> SUFFICES ASSUME Typed, [Next]_vars PROVE Typed'
    OBVIOUS
<1> USE PipelineAssumption
<1>0. TypeOK /\ PlacesTyped /\ Keyed
  BY DEF Typed
<1>1. CASE UNCHANGED vars
  BY <1>0, <1>1 DEF Typed, TypeOK, PlacesTyped, Keyed, vars, crawler, stream, files
<1>2. ASSUME NEW u \in Urls, NEW b \in Bodies, Fetch(u, b) PROVE Typed'
  <2> DEFINE c == [url |-> u, body |-> b, at |-> clock + 1]
  <2>1. c \in Capture /\ clock' \in 0..MaxCaptures
    BY <1>0, <1>2 DEF Fetch, TypeOK, Capture, Times
  <2>2. sources' \in [Bodies -> SUBSET Capture] /\ \A d \in Bodies : \A e \in sources'[d] : e.body = d
    BY <1>0, <1>2, <2>1 DEF Fetch, SourcesWith, TypeOK, Keyed
  <2>3. store' \subseteq Bodies /\ UNCHANGED <<log, latest, announced>>
    BY <1>0, <1>2 DEF Fetch, Log!Store, TypeOK
  <2>4. crawling' \in Capture
    BY <1>2, <2>1 DEF Fetch
  <2> QED BY <1>0, <1>2, <2>1, <2>2, <2>3, <2>4
          DEF Typed, TypeOK, PlacesTyped, Keyed, Fetch, stream, files
<1>3. CASE SaveDownload
  <2>1. crawling \in Capture
    BY <1>0, <1>3 DEF SaveDownload, TypeOK
  <2> QED BY <1>0, <1>3, <2>1
          DEF Typed, TypeOK, PlacesTyped, Keyed, SaveDownload, Log!Record, stream, files
<1>4. CASE Publish
  <2>1. crawling \in Capture
    BY <1>0, <1>4 DEF Publish, TypeOK
  <2> QED BY <1>0, <1>4, <2>1
          DEF Typed, TypeOK, PlacesTyped, Keyed, Publish, Log!Announce, stream, files
<1>5. CASE Unpublished
  BY <1>0, <1>5 DEF Typed, TypeOK, PlacesTyped, Keyed, Unpublished, Fault, stream, files
<1>6. ASSUME NEW c \in Capture, Take(c) PROVE Typed'
  BY <1>0, <1>6, RecordOfCapture
     DEF Typed, TypeOK, PlacesTyped, Keyed, Take, Goto, Holding, crawler, files, Workers, AtWork
<1>7. ASSUME NEW p \in Workers, Open(p) PROVE Typed'
  <2>1. hand[p] \in Record
    BY <1>0, <1>7 DEF Open, PlacesTyped, AtWork
  <2>2. PICK r \in {hand[p], Garbled} : tmp' = [tmp EXCEPT ![hand[p].body] = r]
    BY <1>7 DEF Open
  <2>3. tmp' \in [Bodies -> Record \cup {None, Garbled}]
        /\ \A b \in Bodies : tmp'[b] \in Record => tmp'[b].body = b
    BY <1>0, <2>1, <2>2 DEF TypeOK, Keyed, Record
  <2> QED BY <1>0, <1>7, <2>1, <2>3
          DEF Typed, TypeOK, PlacesTyped, Keyed, Open, Goto, crawler, stream, Workers, AtWork
<1>8. ASSUME NEW p \in Workers, Replace(p) PROVE Typed'
  <2>1. hand[p] \in Record
    BY <1>0, <1>8 DEF Replace, PlacesTyped, AtWork
  <2>2. hand[p].body \in Bodies
    BY <2>1 DEF Record
  <2> QED BY <1>0, <1>8, <2>1, <2>2
          DEF Typed, TypeOK, PlacesTyped, Keyed, Replace, Goto, AfterRecord, crawler, stream,
              Workers, AtWork
<1>9. ASSUME NEW p \in Workers, ReplaceMissing(p) PROVE Typed'
  <2>1. hand[p] \in Record /\ PayloadOf(hand[p]) \in Capture /\ hand[p].body \in Bodies
    BY <1>0, <1>9, PayloadIsCapture DEF ReplaceMissing, PlacesTyped, AtWork, Record
  <2>2. PICK r \in {normalized[hand[p].body], Garbled} :
            normalized' = [normalized EXCEPT ![hand[p].body] = r]
    BY <1>9 DEF ReplaceMissing
  <2>3. normalized' \in [Bodies -> Record \cup {None, Garbled}]
        /\ \A b \in Bodies : normalized'[b] \in Record => normalized'[b].body = b
    BY <1>0, <2>1, <2>2 DEF TypeOK, Keyed
  <2>4. CASE p = "extractor"
    BY <1>0, <1>9, <2>1, <2>3, <2>4
       DEF Typed, TypeOK, PlacesTyped, Keyed, ReplaceMissing, GiveUp, NakFetched, Goto, Holding,
           crawler, Workers, AtWork
  <2>5. CASE p # "extractor"
    BY <1>0, <1>9, <2>1, <2>3, <2>5
       DEF Typed, TypeOK, PlacesTyped, Keyed, ReplaceMissing, GiveUp, Goto, Holding,
           crawler, Workers, AtWork
  <2> QED BY <2>4, <2>5
<1>10. CASE PublishExtracted
  <2>1. hand["extractor"] \in Record /\ hand["extractor"].body \in Bodies
    BY <1>0, <1>10 DEF PublishExtracted, PlacesTyped, AtWork, Record, Workers
  <2> QED BY <1>0, <1>10, <2>1
          DEF Typed, TypeOK, PlacesTyped, Keyed, PublishExtracted, Goto, crawler, files, Workers,
              AtWork
<1>11. CASE AckFetched
  BY <1>0, <1>11 DEF Typed, TypeOK, PlacesTyped, Keyed, AckFetched, Goto, Holding, crawler, stream,
                     files, Workers, AtWork
<1>12. ASSUME NEW b \in Bodies, HandleExtracted(b) PROVE Typed'
  BY <1>0, <1>12 DEF Typed, TypeOK, PlacesTyped, Keyed, HandleExtracted, Readable, Goto, Holding,
                     crawler, files, Workers, AtWork
<1>13. ASSUME NEW p \in Workers, Commit(p) PROVE Typed'
  <2>1. hand[p] \in Record /\ hand[p].body \in Bodies
    BY <1>0, <1>13 DEF Commit, PlacesTyped, AtWork, Record
  <2> QED BY <1>0, <1>13, <2>1
          DEF Typed, TypeOK, PlacesTyped, Keyed, Commit, RowOf, AfterCommit, Goto, crawler, stream,
              files, Workers, AtWork
<1>14. CASE AckExtracted
  BY <1>0, <1>14 DEF Typed, TypeOK, PlacesTyped, Keyed, AckExtracted, Goto, Holding, crawler,
                     stream, files, Workers, AtWork
<1>15. ASSUME NEW p \in Replayers, StartReplay(p) PROVE Typed'
  BY <1>0, <1>15 DEF Typed, TypeOK, PlacesTyped, Keyed, StartReplay, PendingRaw, Goto, crawler,
                     stream, files, Workers, Replayers, AtWork
<1>16. ASSUME NEW p \in Replayers, NEW b \in Bodies, ReplayRaw(p, b) PROVE Typed'
  <2>1. PICK c \in Earliest(sources[b]) : Holding(p, RecordOf(c))
    BY <1>16 DEF ReplayRaw
  <2>2. c \in Capture
    BY <1>0, <2>1 DEF Earliest, TypeOK
  <2>3. RecordOf(c) \in Record
    BY <2>2, RecordOfCapture
  <2> QED BY <1>0, <1>16, <2>1, <2>3
          DEF Typed, TypeOK, PlacesTyped, Keyed, ReplayRaw, Goto, Holding, crawler, stream, files,
              Workers, Replayers, AtWork
<1>17. ASSUME NEW p \in Replayers, ListMissing(p) PROVE Typed'
  BY <1>0, <1>17 DEF Typed, TypeOK, PlacesTyped, Keyed, ListMissing, MissingRows, Goto, crawler,
                     stream, files, Workers, Replayers, AtWork
<1>18. ASSUME NEW p \in Replayers, NEW b \in Bodies, ReplayRecord(p, b) PROVE Typed'
  BY <1>0, <1>18 DEF Typed, TypeOK, PlacesTyped, Keyed, ReplayRecord, Readable, Goto, Holding,
                     crawler, stream, files, Workers, Replayers, AtWork
<1>19. ASSUME NEW p \in Replayers, EndReplay(p) PROVE Typed'
  BY <1>0, <1>19 DEF Typed, TypeOK, PlacesTyped, Keyed, EndReplay, Goto, Holding, crawler, stream,
                     files, Workers, Replayers, AtWork
<1>20. ASSUME NEW p \in Workers, Raise(p) PROVE Typed'
  <2>1. hand[p] \in Record /\ PayloadOf(hand[p]) \in Capture /\ hand[p].body \in Bodies
    BY <1>0, <1>20, PayloadIsCapture DEF Raise, PlacesTyped, AtWork, Record
  <2>2. redeliver' \subseteq Capture /\ extracted' \subseteq Bodies
    BY <1>0, <1>20, <2>1 DEF Raise, GiveUp, NakFetched, TypeOK
  <2>3. \/ p = "extractor" /\ Goto(p, "idle")
        \/ p \in Replayers /\ Goto(p, "extracting")
        \/ p = "indexer" /\ Goto(p, "idle")
        \/ p \in Replayers /\ Goto(p, "indexing")
    BY <1>0, <1>20 DEF Raise, GiveUp, PlacesTyped, Workers, Replayers
  <2>4. faults' \in 0..MaxFaults
    BY <1>0, <1>20 DEF Raise, Fault, TypeOK
  <2>5. Holding(p, None) /\ UNCHANGED <<crawler, fetched, files, documents, todo>>
    BY <1>20 DEF Raise
  <2> QED BY <1>0, <2>2, <2>3, <2>4, <2>5
          DEF Typed, TypeOK, PlacesTyped, Keyed, Goto, Holding, crawler, files, Workers, Replayers,
              AtWork
<1>21. CASE AckWaitExpires
  <2>1. pc["extractor"] # "idle" => PayloadOf(hand["extractor"]) \in Capture
    BY <1>0, PayloadIsCapture DEF PlacesTyped, AtWork, Workers
  <2>2. pc["indexer"] \in {"handle", "ack"} => hand["indexer"].body \in Bodies
    BY <1>0 DEF PlacesTyped, AtWork, Workers, Record
  <2> QED BY <1>0, <1>21, <2>1, <2>2
          DEF Typed, TypeOK, PlacesTyped, Keyed, AckWaitExpires, Fault, crawler, files
<1>22. CASE CrashExtractor
  <2>1. pc["extractor"] # "idle" => PayloadOf(hand["extractor"]) \in Capture
    BY <1>0, PayloadIsCapture DEF PlacesTyped, AtWork, Workers
  <2>2. redeliver' \subseteq Capture /\ fetched' \subseteq Capture /\ faults' \in 0..MaxFaults
    BY <1>0, <1>22, <2>1 DEF CrashExtractor, Fault, TypeOK
  <2> QED BY <1>0, <1>22, <2>2
          DEF Typed, TypeOK, PlacesTyped, Keyed, CrashExtractor, Goto, Holding, crawler, files,
              Workers, AtWork
<1>23. ASSUME NEW p \in Replayers, CrashReplayer(p) PROVE Typed'
  <2>1. pc[p] \in {"handle", "ack"} => hand[p].body \in Bodies
    BY <1>0 DEF PlacesTyped, AtWork, Workers, Replayers, Record
  <2> QED BY <1>0, <1>23, <2>1
          DEF Typed, TypeOK, PlacesTyped, Keyed, CrashReplayer, Fault, Goto, Holding, crawler,
              files, Workers, Replayers, AtWork
<1> QED BY <1>1, <1>2, <1>3, <1>4, <1>5, <1>6, <1>7, <1>8, <1>9, <1>10, <1>11, <1>12, <1>13, <1>14,
           <1>15, <1>16, <1>17, <1>18, <1>19, <1>20, <1>21, <1>22, <1>23
        DEF Next, CrawlerStep, ExtractorStep, IndexerStep, ReplayStep, RecordStep, FaultStep,
            Workers, Replayers

\* Every variable keeps its type, every process its places, and every record is
\* filed under its own body.
THEOREM TypeCorrect == Spec => []TypeOK
<1>1. Typed => TypeOK
  BY DEF Typed
<1> QED BY <1>1, InitTyped, TypedStep, PTL DEF Spec
-----------------------------------------------------------------------------
(* The lake behind every record. *)

Backed == RecordsAreBacked /\ RowsAreBacked

\* Steps that leave what the crawler wrote as it is.
WorkerStep == \/ ExtractorStep \/ IndexerStep
              \/ StartReplay("scheduler") \/ ReplayStep("scheduler")
              \/ AckWaitExpires \/ CrashExtractor
              \/ \E p \in Workers : Raise(p)
              \/ \E p \in Replayers : CrashReplayer(p)

LEMMA WorkersOnlyRead == WorkerStep => UNCHANGED crawler
BY DEF WorkerStep, ExtractorStep, IndexerStep, ReplayStep, RecordStep, Take, Open, Replace,
       ReplaceMissing, PublishExtracted, AckFetched, HandleExtracted, Commit, AckExtracted,
       StartReplay, ReplayRaw, ListMissing, ReplayRecord, EndReplay, AckWaitExpires,
       CrashExtractor, Raise, CrashReplayer

\* Store, log and manifests only grow, so what a record tells stays true.
LEMMA LakeGrows ==
    ASSUME Typed, [Next]_vars
    PROVE  /\ store \subseteq store' /\ log \subseteq log'
           /\ \A b \in Bodies : sources[b] \subseteq sources'[b]
<1>1. CASE UNCHANGED vars
  BY <1>1 DEF vars, crawler
<1>2. ASSUME NEW u \in Urls, NEW b \in Bodies, Fetch(u, b)
      PROVE  /\ store \subseteq store' /\ UNCHANGED log
             /\ \A d \in Bodies : sources[d] \subseteq sources'[d]
  BY <1>2 DEF Fetch, Log!Store, SourcesWith, Typed, TypeOK
<1>3. CASE SaveDownload
  BY <1>3 DEF SaveDownload, Log!Record
<1>4. CASE Publish \/ Unpublished
  BY <1>4 DEF Publish, Unpublished, Log!Announce
<1>5. CASE WorkerStep
  BY <1>5, WorkersOnlyRead DEF crawler
<1> QED BY <1>1, <1>2, <1>3, <1>4, <1>5 DEF Next, CrawlerStep, FaultStep, WorkerStep

LEMMA TellsStays ==
    ASSUME Typed, [Next]_vars, NEW r \in Record, Tells(r)
    PROVE  r.body \in store' /\ PayloadOf(r) \in log' \cup sources'[r.body]
BY LakeGrows DEF Tells, Record

\* A record once in place is replaced by another, never taken away; a row as well.
LEMMA RecordsStay ==
    ASSUME Typed, [Next]_vars, NEW b \in Bodies
    PROVE  /\ normalized[b] # None => normalized'[b] # None
           /\ documents[b] # None => documents'[b] # None
<1> USE PipelineAssumption
<1>1. ASSUME NEW p \in Workers, Replace(p)
      PROVE  UNCHANGED documents /\ (normalized[b] # None => normalized'[b] # None)
  BY <1>1 DEF Replace, Typed, TypeOK
<1>2. ASSUME NEW p \in Workers, ReplaceMissing(p)
      PROVE  UNCHANGED documents /\ (normalized[b] # None => normalized'[b] # None)
  BY <1>2 DEF ReplaceMissing, Typed, TypeOK
<1>3. ASSUME NEW p \in Workers, Commit(p)
      PROVE  UNCHANGED normalized /\ (documents[b] # None => documents'[b] # None)
  <2>1. hand[p] # None
    BY <1>3 DEF Commit, Typed, PlacesTyped, AtWork
  <2> QED BY <1>3, <2>1 DEF Commit, RowOf, Typed, TypeOK, files
<1>4. CASE CrawlerStep \/ FaultStep \/ UNCHANGED vars
  BY <1>4 DEF CrawlerStep, FaultStep, Fetch, SaveDownload, Publish, Unpublished, AckWaitExpires,
              CrashExtractor, Raise, CrashReplayer, vars, files
<1>5. ASSUME NEW p \in Workers, NEW c, NEW d,
             \/ Take(c) \/ Open(p) \/ PublishExtracted \/ AckFetched \/ HandleExtracted(d)
             \/ AckExtracted \/ StartReplay(p) \/ ReplayRaw(p, d) \/ ListMissing(p)
             \/ ReplayRecord(p, d) \/ EndReplay(p)
      PROVE  UNCHANGED <<normalized, documents>>
  BY <1>5 DEF Take, Open, PublishExtracted, AckFetched, HandleExtracted, AckExtracted,
              StartReplay, ReplayRaw, ListMissing, ReplayRecord, EndReplay, files
<1> QED BY <1>1, <1>2, <1>3, <1>4, <1>5
        DEF Next, ExtractorStep, IndexerStep, ReplayStep, RecordStep, Workers

LEMMA InitBacked == Init => Backed
BY PipelineAssumption
   DEF Init, Backed, RecordsAreBacked, RowsAreBacked, Log!Init, Workers, AtWork

\* The crawler's steps.
LEMMA CrawlerBacked ==
    ASSUME Typed, RecordsAreBacked,
           \/ \E u \in Urls, b \in Bodies : Fetch(u, b)
           \/ SaveDownload \/ Publish \/ Unpublished \/ UNCHANGED vars
    PROVE  RecordsAreBacked'
<1>0. UNCHANGED <<tmp, normalized, pc, hand>> /\ [Next]_vars
  BY DEF Fetch, SaveDownload, Publish, Unpublished, vars, files, Next, CrawlerStep, FaultStep
<1>1. \A r \in Record : Tells(r) => r.body \in store'
                                   /\ PayloadOf(r) \in log' \cup sources'[r.body]
  BY <1>0, TellsStays
<1>2. /\ announced' \cup fetched' \cup redeliver' \subseteq log'
      /\ \A c \in log' : c.body \in store'
      /\ \A b \in Bodies : sources'[b] # {} => b \in store'
  <2>1. ASSUME NEW u \in Urls, NEW b \in Bodies, Fetch(u, b) PROVE <1>2!1 /\ <1>2!2 /\ <1>2!3
    BY <2>1 DEF Fetch, Log!Store, RecordsAreBacked, Typed, TypeOK, stream
  <2>2. CASE SaveDownload
    BY <2>2 DEF SaveDownload, Log!Record, RecordsAreBacked, stream
  <2>3. CASE Publish
    BY <2>3 DEF Publish, Log!Announce, RecordsAreBacked
  <2>4. CASE Unpublished \/ UNCHANGED vars
    BY <2>4 DEF Unpublished, RecordsAreBacked, vars, crawler, stream
  <2> QED BY <2>1, <2>2, <2>3, <2>4
<1>3. \A p \in Workers : pc[p] \in AtWork => hand[p] \in Record
  BY DEF Typed, PlacesTyped
<1>4. log \subseteq log'
  BY <1>0, LakeGrows
<1> QED BY <1>0, <1>1, <1>2, <1>3, <1>4 DEF RecordsAreBacked, Tells

LEMMA WorkerBacked == Typed /\ RecordsAreBacked /\ WorkerStep => RecordsAreBacked'
<1> SUFFICES ASSUME Typed, RecordsAreBacked, WorkerStep PROVE RecordsAreBacked'
    OBVIOUS
<1> USE PipelineAssumption
<1>0. TypeOK /\ PlacesTyped /\ Keyed
  BY DEF Typed
<1>a. UNCHANGED crawler
  BY WorkersOnlyRead
<1>1. ASSUME NEW c \in Capture, Take(c) PROVE RecordsAreBacked'
  <2>1. c \in log /\ c.body \in store
    BY <1>1 DEF Take, Delivered, Earliest, RecordsAreBacked
  <2>2. Tells(RecordOf(c)) /\ PayloadOf(RecordOf(c)) \in log
    BY <2>1, RecordOfCapture DEF Tells
  <2> QED BY <1>0, <1>1, <1>a, <2>2
          DEF RecordsAreBacked, Take, Goto, Holding, TypeOK, Tells, crawler, files, AtWork, Workers
<1>2. ASSUME NEW p \in Workers, Open(p) PROVE RecordsAreBacked'
  BY <1>0, <1>2, <1>a DEF RecordsAreBacked, Open, Goto, TypeOK, PlacesTyped, Tells, crawler, stream,
                          AtWork
<1>3. ASSUME NEW p \in Workers, Replace(p) PROVE RecordsAreBacked'
  BY <1>0, <1>3, <1>a DEF RecordsAreBacked, Replace, AfterRecord, Goto, TypeOK, Tells, crawler,
                          stream, AtWork
<1>4. ASSUME NEW p \in Workers, ReplaceMissing(p) PROVE RecordsAreBacked'
  BY <1>0, <1>4, <1>a DEF RecordsAreBacked, ReplaceMissing, GiveUp, NakFetched, Goto, Holding, TypeOK,
                          Tells, crawler, AtWork, Workers
<1>5. CASE PublishExtracted
  BY <1>0, <1>5, <1>a DEF RecordsAreBacked, PublishExtracted, Goto, TypeOK, Tells, crawler, files,
                          AtWork
<1>6. CASE AckFetched \/ AckExtracted
  BY <1>0, <1>6, <1>a DEF RecordsAreBacked, AckFetched, AckExtracted, Goto, Holding, TypeOK, Tells,
                          crawler, stream, files, AtWork, Workers
<1>7. ASSUME NEW b \in Bodies, HandleExtracted(b) PROVE RecordsAreBacked'
  BY <1>0, <1>7, <1>a DEF RecordsAreBacked, HandleExtracted, Readable, Goto, Holding, TypeOK, Keyed,
                          Tells, crawler, files, AtWork, Workers
<1>8. ASSUME NEW p \in Workers, Commit(p) PROVE RecordsAreBacked'
  BY <1>0, <1>8, <1>a DEF RecordsAreBacked, Commit, AfterCommit, Goto, TypeOK, Tells, crawler, stream,
                          files, AtWork
<1>9. ASSUME NEW p \in Replayers, StartReplay(p) \/ ListMissing(p) \/ EndReplay(p)
      PROVE  RecordsAreBacked'
  BY <1>0, <1>9, <1>a DEF RecordsAreBacked, StartReplay, ListMissing, EndReplay, Goto, Holding,
                          TypeOK, Tells, crawler, stream, files, AtWork, Workers, Replayers
<1>10. ASSUME NEW p \in Replayers, NEW b \in Bodies, ReplayRaw(p, b) PROVE RecordsAreBacked'
  <2>1. PICK c \in sources[b] : Holding(p, RecordOf(c))
    BY <1>10 DEF ReplayRaw, Earliest
  <2>2. c \in Capture /\ c.body = b /\ b \in store
    BY <1>0, <2>1 DEF TypeOK, Keyed, RecordsAreBacked
  <2>3. Tells(RecordOf(c))
    BY <2>1, <2>2, RecordOfCapture DEF Tells
  <2> QED BY <1>0, <1>10, <1>a, <2>1, <2>3
          DEF RecordsAreBacked, ReplayRaw, Goto, Holding, TypeOK, Tells, crawler, stream, files,
              AtWork, Workers, Replayers
<1>11. ASSUME NEW p \in Replayers, NEW b \in Bodies, ReplayRecord(p, b) PROVE RecordsAreBacked'
  BY <1>0, <1>11, <1>a DEF RecordsAreBacked, ReplayRecord, Readable, Goto, Holding, TypeOK, Keyed,
                           Tells, crawler, stream, files, AtWork, Workers, Replayers
<1>12. ASSUME NEW p \in Workers, Raise(p) PROVE RecordsAreBacked'
  <2>1. redeliver' \subseteq log /\ fetched' = fetched
    BY <1>0, <1>12 DEF Raise, GiveUp, NakFetched, RecordsAreBacked
  <2>2. Goto(p, "idle") \/ (p # "extractor" /\ (Goto(p, "extracting") \/ Goto(p, "indexing")))
    BY <1>0, <1>12 DEF Raise, GiveUp, PlacesTyped
  <2>3. Holding(p, None) /\ UNCHANGED <<crawler, files>>
    BY <1>12 DEF Raise
  <2> QED BY <1>0, <2>1, <2>2, <2>3
          DEF RecordsAreBacked, Goto, Holding, TypeOK, Tells, crawler, files, AtWork, Workers
<1>13. CASE AckWaitExpires
  BY <1>0, <1>13, <1>a DEF RecordsAreBacked, AckWaitExpires, Tells, crawler, files
<1>14. CASE CrashExtractor
  <2>1. redeliver' \subseteq log /\ fetched' \subseteq log
    BY <1>0, <1>14 DEF CrashExtractor, RecordsAreBacked
  <2> QED BY <1>0, <1>14, <2>1
          DEF RecordsAreBacked, CrashExtractor, Goto, Holding, TypeOK, Tells, crawler, files, AtWork
<1>15. ASSUME NEW p \in Replayers, CrashReplayer(p) PROVE RecordsAreBacked'
  BY <1>0, <1>15, <1>a DEF RecordsAreBacked, CrashReplayer, Goto, Holding, TypeOK, Tells, crawler,
                           files, AtWork, Workers, Replayers
<1> QED BY <1>1, <1>2, <1>3, <1>4, <1>5, <1>6, <1>7, <1>8, <1>9, <1>10, <1>11, <1>12, <1>13, <1>14,
           <1>15
        DEF WorkerStep, ExtractorStep, IndexerStep, ReplayStep, RecordStep, Workers, Replayers

\* A row is written from a record in hand, and what it tells stays true.
LEMMA RowsStep == Typed /\ Backed /\ [Next]_vars => RowsAreBacked'
<1> SUFFICES ASSUME Typed, Backed, [Next]_vars, NEW b \in Bodies, documents'[b] # None
             PROVE  /\ b \in store'
                    /\ normalized'[b] # None
                    /\ PayloadOf(documents'[b]) \in log' \cup sources'[b]
    BY DEF RowsAreBacked
<1>1. CASE documents'[b] = documents[b]
  BY <1>1, LakeGrows, RecordsStay DEF Backed, RowsAreBacked
<1>2. ASSUME NEW p \in Workers, Commit(p), documents'[b] # documents[b]
      PROVE  /\ b \in store' /\ normalized'[b] # None
             /\ PayloadOf(documents'[b]) \in log' \cup sources'[b]
  <2>1. hand[p] \in Record /\ Tells(hand[p]) /\ normalized[hand[p].body] # None
    BY <1>2 DEF Commit, Typed, PlacesTyped, Backed, RecordsAreBacked, AtWork
  <2>2. b = hand[p].body /\ documents'[b] = hand[p]
    BY <1>2 DEF Commit, RowOf, Typed, TypeOK
  <2> QED BY <2>1, <2>2, TellsStays, RecordsStay
<1>3. CASE \A p \in Workers : ~Commit(p)
  <2>1. UNCHANGED documents
    BY <1>3 DEF Next, CrawlerStep, FaultStep, ExtractorStep, IndexerStep, ReplayStep, RecordStep,
                Workers, Fetch, SaveDownload, Publish, Unpublished, AckWaitExpires, CrashExtractor,
                Raise, CrashReplayer, Take, Open, Replace, ReplaceMissing, PublishExtracted,
                AckFetched, HandleExtracted, AckExtracted, StartReplay, ReplayRaw, ListMissing,
                ReplayRecord, EndReplay, vars
  <2> QED BY <1>1, <2>1
<1> QED BY <1>1, <1>2, <1>3

LEMMA BackedStep == Typed /\ Backed /\ [Next]_vars => Backed'
BY CrawlerBacked, WorkerBacked, RowsStep
   DEF Backed, Next, CrawlerStep, FaultStep, WorkerStep

\* Whatever replays, redeliveries and spoilt files do, a row of search tells of a
\* capture that was made, and its bytes and its record are in the lake.
THEOREM RowsBacked == Spec => []RowsAreBacked
<1>1. Typed /\ Backed /\ [Next]_vars => Typed' /\ Backed'
  BY TypedStep, BackedStep
<1>2. Backed => RowsAreBacked
  BY DEF Backed
<1> QED BY <1>1, <1>2, InitTyped, InitBacked, PTL DEF Spec
-----------------------------------------------------------------------------
(* What acknowledgements rest on. *)

Earned == AcksAreEarned /\ NothingLost

LEMMA InitEarned == Init => Earned
BY DEF Init, Earned, AcksAreEarned, NothingLost, Workers

\* Whatever happens, a body that came past the extractor stays past it.
LEMMA PastStays ==
    ASSUME Typed, AcksAreEarned, [Next]_vars, NEW b \in Bodies, Past(b)
    PROVE  Past(b)'
<1> USE PipelineAssumption
<1>0. TypeOK /\ PlacesTyped /\ Keyed
  BY DEF Typed
<1>1. documents[b] # None => documents'[b] # None
  BY RecordsStay
<1>2. CASE CrawlerStep \/ Unpublished \/ UNCHANGED vars
  BY <1>1, <1>2 DEF Past, CrawlerStep, Fetch, SaveDownload, Publish, Unpublished, vars, stream
<1>3. ASSUME NEW c \in Capture, Take(c) PROVE Past(b)'
  BY <1>0, <1>1, <1>3 DEF Past, Take, Goto, Holding, TypeOK, Workers
<1>4. ASSUME NEW p \in Workers, RecordStep(p) PROVE Past(b)'
  BY <1>0, <1>1, <1>4 DEF Past, RecordStep, Open, Replace, ReplaceMissing, GiveUp, Goto, Holding,
                          AfterRecord, TypeOK, stream, Workers
<1>5. CASE PublishExtracted \/ AckFetched
  BY <1>0, <1>1, <1>5 DEF Past, PublishExtracted, AckFetched, Goto, Holding, TypeOK, stream, Workers
<1>6. ASSUME NEW d \in Bodies, HandleExtracted(d) PROVE Past(b)'
  BY <1>0, <1>1, <1>6 DEF Past, HandleExtracted, Readable, Goto, Holding, TypeOK, Keyed, Workers
<1>7. ASSUME NEW p \in Workers, Commit(p) PROVE Past(b)'
  BY <1>0, <1>1, <1>7 DEF Past, Commit, AfterCommit, Goto, TypeOK, stream, Workers
<1>8. CASE AckExtracted
  BY <1>0, <1>1, <1>8 DEF Past, AckExtracted, AcksAreEarned, Goto, Holding, TypeOK, stream, Workers
<1>9. ASSUME NEW p \in Replayers, NEW d \in Bodies,
             StartReplay(p) \/ ReplayRaw(p, d) \/ ListMissing(p) \/ ReplayRecord(p, d)
             \/ EndReplay(p)
      PROVE  Past(b)'
  BY <1>0, <1>1, <1>9 DEF Past, StartReplay, ReplayRaw, ListMissing, ReplayRecord, EndReplay, Goto,
                          Holding, TypeOK, stream, Workers, Replayers
<1>10. ASSUME NEW p \in Workers, Raise(p) PROVE Past(b)'
  BY <1>0, <1>1, <1>10 DEF Past, Raise, GiveUp, Goto, Holding, TypeOK, Workers
<1>11. CASE AckWaitExpires \/ CrashExtractor
  BY <1>0, <1>1, <1>11 DEF Past, AckWaitExpires, CrashExtractor, Goto, Holding, TypeOK, Workers
<1>12. ASSUME NEW p \in Replayers, CrashReplayer(p) PROVE Past(b)'
  BY <1>0, <1>1, <1>12 DEF Past, CrashReplayer, Goto, Holding, TypeOK, Workers, Replayers
<1> QED BY <1>2, <1>3, <1>4, <1>5, <1>6, <1>7, <1>8, <1>9, <1>10, <1>11, <1>12
        DEF Next, ExtractorStep, IndexerStep, ReplayStep, FaultStep, Workers, Replayers

\* A worker comes to its acknowledgement by publishing or committing, only.
LEMMA AckAfterEffect ==
    ASSUME Typed, [Next]_vars
    PROVE  /\ pc'["extractor"] = "ack" =>
                \/ pc["extractor"] = "ack" /\ hand'["extractor"] = hand["extractor"]
                \/ PublishExtracted
           /\ pc'["indexer"] = "ack" =>
                \/ pc["indexer"] = "ack" /\ hand'["indexer"] = hand["indexer"]
                \/ Commit("indexer")
<1>0. TypeOK /\ PlacesTyped
  BY DEF Typed
<1>1. CASE CrawlerStep \/ Unpublished \/ UNCHANGED vars \/ AckWaitExpires
  BY <1>1 DEF CrawlerStep, Fetch, SaveDownload, Publish, Unpublished, AckWaitExpires, vars
<1>2. CASE CrashExtractor \/ AckFetched \/ AckExtracted \/ (\E c \in Capture : Take(c))
           \/ (\E d \in Bodies : HandleExtracted(d))
  BY <1>0, <1>2 DEF CrashExtractor, AckFetched, AckExtracted, Take, HandleExtracted, Goto, Holding,
                    TypeOK, Workers
<1>3. ASSUME NEW p \in Workers, RecordStep(p) \/ Raise(p)
      PROVE  /\ pc'["extractor"] = "ack" => pc["extractor"] = "ack"
                                            /\ hand'["extractor"] = hand["extractor"]
             /\ pc'["indexer"] = "ack" => pc["indexer"] = "ack"
                                          /\ hand'["indexer"] = hand["indexer"]
  BY <1>0, <1>3 DEF RecordStep, Raise, Open, Replace, ReplaceMissing, GiveUp, Goto, Holding,
                    AfterRecord, TypeOK, Workers
<1>4. ASSUME NEW p \in Replayers, NEW d,
             StartReplay(p) \/ ReplayRaw(p, d) \/ ListMissing(p) \/ ReplayRecord(p, d)
             \/ EndReplay(p) \/ CrashReplayer(p)
      PROVE  /\ pc'["extractor"] = "ack" => pc["extractor"] = "ack"
                                            /\ hand'["extractor"] = hand["extractor"]
             /\ pc'["indexer"] = "ack" => pc["indexer"] = "ack"
                                          /\ hand'["indexer"] = hand["indexer"]
  BY <1>0, <1>4 DEF StartReplay, ReplayRaw, ListMissing, ReplayRecord, EndReplay, CrashReplayer,
                    Goto, Holding, TypeOK, Workers, Replayers
<1>5. ASSUME NEW p \in Replayers, Commit(p), p # "indexer" PROVE pc'["indexer"] = pc["indexer"]
                                                     /\ pc'["extractor"] = pc["extractor"]
                                                     /\ UNCHANGED hand
  BY <1>0, <1>5 DEF Commit, Goto, TypeOK, Workers, Replayers
<1>6. CASE Commit("indexer")
  BY <1>0, <1>6 DEF Commit, Goto, TypeOK, Workers
<1>7. CASE PublishExtracted
  BY <1>0, <1>7 DEF PublishExtracted, Goto, TypeOK, Workers
<1> QED BY <1>1, <1>2, <1>3, <1>4, <1>5, <1>6, <1>7
        DEF Next, ExtractorStep, IndexerStep, ReplayStep, FaultStep, Workers, Replayers

\* A message leaves the stream for the extractor's hands, and these only for the
\* stream or past the extractor.
LEMMA MessageKept ==
    ASSUME Typed, AcksAreEarned, [Next]_vars, NEW c \in Capture,
           \/ c \in fetched \cup redeliver
           \/ pc["extractor"] # "idle" /\ PayloadOf(hand["extractor"]) = c
    PROVE  \/ c \in fetched' \cup redeliver'
           \/ pc'["extractor"] # "idle" /\ PayloadOf(hand'["extractor"]) = c
           \/ Past(c.body)'
<1>0. TypeOK /\ PlacesTyped
  BY DEF Typed
<1>1. CASE CrawlerStep \/ Unpublished \/ UNCHANGED vars \/ AckWaitExpires
  BY <1>1 DEF CrawlerStep, Fetch, SaveDownload, Publish, Unpublished, AckWaitExpires, vars, stream
<1>2. ASSUME NEW d \in Capture, Take(d)
      PROVE  \/ c \in fetched' \cup redeliver'
             \/ pc'["extractor"] # "idle" /\ PayloadOf(hand'["extractor"]) = c
  BY <1>0, <1>2, RecordOfCapture DEF Take, Goto, Holding, TypeOK, Workers
<1>3. CASE PublishExtracted \/ RecordStep("extractor")
  BY <1>0, <1>3 DEF PublishExtracted, RecordStep, Open, Replace, ReplaceMissing, GiveUp, NakFetched,
                    AfterRecord, Goto, Holding, TypeOK, stream, Workers
<1>4. CASE AckFetched
  <2>1. CASE c \in fetched \cup redeliver
    BY <1>4, <2>1 DEF AckFetched, stream
  <2>2. CASE PayloadOf(hand["extractor"]) = c
    <3>1. c.body \in Bodies /\ c.body = hand["extractor"].body
      BY <2>2 DEF PayloadOf, Capture
    <3>2. Past(c.body)
      BY <1>4, <3>1 DEF AckFetched, AcksAreEarned
    <3> QED BY <3>1, <3>2, PastStays
  <2> QED BY <2>1, <2>2
<1>5. ASSUME NEW p \in Workers, Raise(p)
      PROVE  \/ c \in fetched' \cup redeliver'
             \/ pc'["extractor"] # "idle" /\ PayloadOf(hand'["extractor"]) = c
  BY <1>0, <1>5 DEF Raise, GiveUp, NakFetched, Goto, Holding, TypeOK, PlacesTyped, Workers
<1>6. CASE CrashExtractor
  BY <1>0, <1>6 DEF CrashExtractor
<1>7. ASSUME NEW p \in Replayers, NEW d,
             \/ StartReplay(p) \/ ReplayRaw(p, d) \/ ListMissing(p) \/ ReplayRecord(p, d)
             \/ EndReplay(p) \/ CrashReplayer(p) \/ RecordStep(p) \/ Commit(p)
             \/ HandleExtracted(d) \/ AckExtracted
      PROVE  /\ UNCHANGED <<fetched, redeliver>>
             /\ pc'["extractor"] = pc["extractor"] /\ hand'["extractor"] = hand["extractor"]
  BY <1>0, <1>7 DEF StartReplay, ReplayRaw, ListMissing, ReplayRecord, EndReplay, CrashReplayer,
                    RecordStep, Open, Replace, ReplaceMissing, GiveUp, Commit, HandleExtracted,
                    AckExtracted, Goto, Holding, TypeOK, stream, Workers, Replayers
<1> QED BY <1>1, <1>2, <1>3, <1>4, <1>5, <1>6, <1>7
        DEF Next, ExtractorStep, IndexerStep, ReplayStep, FaultStep, Workers, Replayers

LEMMA EarnedStep == Typed /\ Earned /\ [Next]_vars => Earned'
<1> SUFFICES ASSUME Typed, AcksAreEarned, NothingLost, [Next]_vars
             PROVE  AcksAreEarned' /\ NothingLost'
    BY DEF Earned
<1>0. TypeOK /\ PlacesTyped
  BY DEF Typed
<1>1. ASSUME NEW b \in Bodies, Past(b) PROVE Past(b)'
  BY <1>1, PastStays
<1>2. ASSUME pc'["extractor"] = "ack", NEW b \in Bodies, b = hand'["extractor"].body
      PROVE  Past(b)'
  <2>1. CASE pc["extractor"] = "ack" /\ hand'["extractor"] = hand["extractor"]
    BY <1>1, <1>2, <2>1 DEF AcksAreEarned
  <2>2. CASE PublishExtracted
    BY <1>2, <2>2 DEF PublishExtracted, Past
  <2> QED BY <1>2, <2>1, <2>2, AckAfterEffect
<1>3. ASSUME pc'["indexer"] = "ack" PROVE documents'[hand'["indexer"].body] # None
  <2>1. CASE pc["indexer"] = "ack" /\ hand'["indexer"] = hand["indexer"]
    <3>1. hand["indexer"].body \in Bodies /\ documents[hand["indexer"].body] # None
      BY <1>0, <2>1 DEF PlacesTyped, AtWork, Workers, Record, AcksAreEarned
    <3> QED BY <2>1, <3>1, RecordsStay
  <2>2. CASE Commit("indexer")
    <3>1. hand["indexer"] \in Record /\ hand["indexer"].body \in Bodies
      BY <1>0, <2>2 DEF Commit, PlacesTyped, AtWork, Workers, Record
    <3> QED BY <1>0, <2>2, <3>1, PipelineAssumption DEF Commit, RowOf, TypeOK
  <2> QED BY <1>3, <2>1, <2>2, AckAfterEffect
<1>4. AcksAreEarned'
  <2>1. pc'["extractor"] = "ack" => hand'["extractor"].body \in Bodies
    BY TypedStep DEF Typed, PlacesTyped, AtWork, Workers, Record
  <2> QED BY <1>2, <1>3, <2>1 DEF AcksAreEarned, Past
<1>5. ASSUME NEW c \in Capture, c \in announced'
      PROVE  \/ c \in fetched' \cup redeliver'
             \/ pc'["extractor"] # "idle" /\ PayloadOf(hand'["extractor"]) = c
             \/ Past(c.body)'
  <2>1. CASE c \in announced
    <3>1. c.body \in Bodies
      BY DEF Capture
    <3> QED BY <1>1, <2>1, <3>1, MessageKept DEF NothingLost
  <2>2. CASE c \notin announced
    <3>1. Publish
      BY <1>5, <2>2, WorkersOnlyRead
         DEF Next, CrawlerStep, FaultStep, WorkerStep, Fetch, SaveDownload, Unpublished, Log!Store,
             Log!Record, vars, crawler
    <3> QED BY <1>5, <2>2, <3>1 DEF Publish, Log!Announce
  <2> QED BY <2>1, <2>2
<1>6. announced' \subseteq Capture
  BY TypedStep DEF Typed, TypeOK
<1> QED BY <1>4, <1>5, <1>6 DEF NothingLost, Past

\* No event is acknowledged before its effect is durable, through crashes, naks and
\* redeliveries of any number.
THEOREM EventsNotLost == Spec => []NothingLost
<1>1. Typed /\ Earned /\ [Next]_vars => Typed' /\ Earned'
  BY TypedStep, EarnedStep
<1>2. Earned => NothingLost
  BY DEF Earned
<1> QED BY <1>1, <1>2, InitTyped, InitEarned, PTL DEF Spec
-----------------------------------------------------------------------------
(* What search comes to, where nothing replays and no publication fails for good. *)

NoReplay == May \cap {"unpublished", "crash", "replay_job"} = {}

\* Then these are the steps there are.
LEMMA QuietSteps ==
    ASSUME NoReplay, Typed, OneWriter, [Next]_vars
    PROVE  \/ UNCHANGED vars
           \/ (\E u \in Urls, b \in Bodies : Fetch(u, b)) \/ SaveDownload \/ Publish
           \/ (\E c \in Capture : Take(c)) \/ Open("extractor") \/ Replace("extractor")
           \/ PublishExtracted \/ AckFetched
           \/ (\E b \in Bodies : HandleExtracted(b)) \/ Commit("indexer") \/ AckExtracted
           \/ Raise("extractor") \/ Raise("indexer") \/ AckWaitExpires
<1>0. /\ pc["scheduler"] = "idle" /\ pc["indexer"] \in {"idle", "handle", "ack"}
      /\ pc["extractor"] = "replace" => tmp[hand["extractor"].body] # None
  BY PipelineAssumption DEF Typed, PlacesTyped, OneWriter, AtWork, Workers
<1>1. ~Unpublished /\ ~CrashExtractor /\ \A p \in Replayers : ~CrashReplayer(p)
  BY DEF NoReplay, Unpublished, CrashExtractor, CrashReplayer, Fault
<1>2. ~StartReplay("scheduler") /\ ~StartReplay("indexer")
  BY <1>0 DEF NoReplay, StartReplay
<1>3. ~ReplayStep("scheduler") /\ ~Raise("scheduler")
  BY <1>0 DEF ReplayStep, ReplayRaw, ReplayRecord, ListMissing, EndReplay, RecordStep, Open,
              Replace, ReplaceMissing, Commit, Raise
<1>4. ReplayStep("indexer") => Commit("indexer")
  BY <1>0 DEF ReplayStep, ReplayRaw, ReplayRecord, ListMissing, EndReplay, RecordStep, Open,
              Replace, ReplaceMissing
<1>5. ~ReplaceMissing("extractor")
  BY <1>0 DEF ReplaceMissing
<1> QED BY <1>1, <1>2, <1>3, <1>4, <1>5
        DEF Next, CrawlerStep, ExtractorStep, IndexerStep, RecordStep, FaultStep, Workers

\* No other worker has the extractor's temporary file open.
LEMMA OpenPlain ==
    ASSUME Typed, OneWriter, Open("extractor")
    PROVE  tmp' = [tmp EXCEPT ![hand["extractor"].body] = hand["extractor"]]
BY DEF Open, OtherWriters, OneWriter, Workers

\* What a worker that fails gives back, and where it stands then.
LEMMA RaiseGivesBack ==
    ASSUME Typed, OneWriter, NEW p \in {"extractor", "indexer"}, Raise(p)
    PROVE  /\ Goto(p, "idle")
           /\ p = "extractor" => /\ pc[p] \in {"open", "replace", "publish"}
                                 /\ redeliver' = redeliver \cup {PayloadOf(hand[p])}
                                 /\ UNCHANGED extracted
           /\ p = "indexer" => /\ pc[p] \in {"handle", "ack"}
                               /\ extracted' = extracted \cup {hand[p].body}
                               /\ UNCHANGED redeliver
           /\ Holding(p, None)
           /\ UNCHANGED <<crawler, fetched, files, documents, todo>>
BY DEF Raise, GiveUp, NakFetched, OneWriter, Typed, PlacesTyped

LEMMA OneWriterStep == NoReplay /\ Typed /\ OneWriter /\ [Next]_vars => OneWriter'
<1> SUFFICES ASSUME NoReplay, Typed, OneWriter, [Next]_vars PROVE OneWriter'
    OBVIOUS
<1>0. TypeOK /\ PlacesTyped
  BY DEF Typed
<1>1. CASE \/ UNCHANGED vars \/ SaveDownload \/ Publish \/ AckWaitExpires
           \/ \E u \in Urls, b \in Bodies : Fetch(u, b)
  BY <1>1 DEF OneWriter, vars, files, SaveDownload, Publish, AckWaitExpires, Fetch
<1>2. CASE Open("extractor")
  <2>1. hand["extractor"] \in Record /\ hand["extractor"].body \in Bodies
    BY <1>0, <1>2 DEF Open, PlacesTyped, AtWork, Workers, Record
  <2> QED BY <1>0, <1>2, <2>1, OpenPlain DEF OneWriter, Open, Goto, TypeOK, Workers
<1>3. CASE \/ (\E c \in Capture : Take(c)) \/ Replace("extractor") \/ PublishExtracted
           \/ AckFetched
  BY <1>0, <1>3 DEF OneWriter, Take, Replace, AfterRecord, PublishExtracted, AckFetched, Goto,
                    Holding, TypeOK, Workers
<1>4. CASE (\E b \in Bodies : HandleExtracted(b)) \/ Commit("indexer") \/ AckExtracted
  BY <1>0, <1>4 DEF OneWriter, HandleExtracted, Commit, AfterCommit, AckExtracted, Goto, Holding,
                    TypeOK, files, Workers
<1>5. ASSUME NEW p \in {"extractor", "indexer"}, Raise(p) PROVE OneWriter'
  BY <1>0, <1>5, RaiseGivesBack DEF OneWriter, Goto, Holding, TypeOK, files, Workers
<1> QED BY <1>1, <1>2, <1>3, <1>4, <1>5, QuietSteps


\* A body awaits the extractor until a capture of it is taken.
LEMMA AwaitedStays ==
    ASSUME NoReplay, Typed, OneWriter, [Next]_vars, NEW b \in Bodies, Awaited(b)
    PROVE  Awaited(b)' \/ \E c \in Capture : Take(c) /\ c.body = b
<1>1. CASE UNCHANGED vars \/ SaveDownload \/ Publish \/ AckWaitExpires
           \/ PublishExtracted \/ AckFetched \/ Open("extractor") \/ Replace("extractor")
  BY <1>1 DEF Awaited, vars, crawler, stream, SaveDownload, Publish, AckWaitExpires,
              PublishExtracted, AckFetched, Open, Replace
<1>2. CASE (\E u \in Urls, d \in Bodies : Fetch(u, d)) \/ \E c \in Capture : Take(c)
  BY <1>2 DEF Awaited, crawler, stream, Fetch, Take
<1>3. CASE (\E d \in Bodies : HandleExtracted(d)) \/ Commit("indexer") \/ AckExtracted
  BY <1>3 DEF Awaited, crawler, stream, HandleExtracted, Commit, AckExtracted
<1>4. ASSUME NEW p \in {"extractor", "indexer"}, Raise(p) PROVE Awaited(b)'
  BY <1>4, RaiseGivesBack DEF Awaited, crawler
<1> QED BY <1>1, <1>2, <1>3, <1>4, QuietSteps

LEMMA RecordsListStep == NoReplay /\ Typed /\ OneWriter /\ RecordsList /\ [Next]_vars => RecordsList'
<1> SUFFICES ASSUME NoReplay, Typed, OneWriter, RecordsList, [Next]_vars PROVE RecordsList'
    OBVIOUS
<1>0. TypeOK /\ PlacesTyped /\ Keyed /\ store \subseteq Bodies
  BY DEF Typed, TypeOK
<1>a. pc["extractor"] # "idle" => hand["extractor"] \in Record /\ hand["extractor"].body \in Bodies
  BY <1>0 DEF PlacesTyped, AtWork, Workers, Record
<1>b. ASSUME NEW b \in Bodies, Awaited(b) PROVE Awaited(b)' \/ \E c \in Capture : Take(c) /\ c.body = b
  BY <1>b, AwaitedStays
<1>1. ASSUME UNCHANGED <<store, sources, normalized, hand, pc>>, ~\E c \in Capture : Take(c)
      PROVE  RecordsList'
  BY <1>0, <1>1, <1>a, <1>b DEF RecordsList, AtExtractor, Listed
<1>2. CASE UNCHANGED vars \/ SaveDownload \/ Publish \/ AckWaitExpires
  <2>1. UNCHANGED <<store, sources, normalized, hand, pc>>
    BY <1>2 DEF vars, crawler, files, SaveDownload, Publish, AckWaitExpires, Log!Record, Log!Announce
  <2>2. ~\E c \in Capture : Take(c)
    BY <1>0, <2>1 DEF Take, Goto, TypeOK, Workers
  <2> QED BY <1>1, <2>1, <2>2
<1>3. ASSUME NEW u \in Urls, NEW d \in Bodies, Fetch(u, d) PROVE RecordsList'
  <2>0. crawling' \in Capture
    BY <1>0, <1>3, PipelineAssumption DEF Fetch, TypeOK, Capture, Times
  <2>1. /\ Awaited(d)' /\ \A b \in Bodies : Awaited(b) => Awaited(b)'
        /\ \A b \in Bodies \ {d} : sources'[b] = sources[b]
    BY <1>0, <1>3, <2>0, PipelineAssumption DEF Fetch, Awaited, stream, TypeOK
  <2>2. store' = store \cup {d} /\ UNCHANGED <<normalized, hand, pc>>
    BY <1>3 DEF Fetch, Log!Store, files
  <2>3. ASSUME NEW b \in store'
        PROVE  \/ Awaited(b)' \/ AtExtractor(b, {"open", "replace"})'
               \/ (normalized[b] \in Record /\ Listed(normalized[b]))'
    <3>1. CASE b = d
      BY <2>1, <3>1
    <3>2. CASE b # d
      BY <1>0, <2>1, <2>2, <3>2 DEF RecordsList, AtExtractor, Listed, Keyed
    <3> QED BY <3>1, <3>2
  <2>4. pc["extractor"] \in {"open", "replace"} => \/ Awaited(hand["extractor"].body)'
                                                   \/ Listed(hand["extractor"])'
    BY <1>a, <2>1, <2>2 DEF RecordsList, Listed
  <2> QED BY <2>2, <2>3, <2>4 DEF RecordsList, Awaited, Listed
<1>4. ASSUME NEW c \in Capture, Take(c) PROVE RecordsList'
  <2>1. /\ hand'["extractor"] = RecordOf(c) /\ pc'["extractor"] = "open"
        /\ UNCHANGED <<crawler, files>>
        /\ pc["extractor"] = "idle"
    BY <1>0, <1>4 DEF Take, Goto, Holding, TypeOK, Workers
  <2>2. hand'["extractor"].body = c.body /\ Listed(hand["extractor"])'
    BY <2>1 DEF RecordOf, Listed, crawler
  <2>3. \A b \in Bodies \ {c.body} : Awaited(b) => Awaited(b)'
    BY <1>4 DEF Awaited, Take, crawler
  <2> QED BY <1>0, <2>1, <2>2, <2>3 DEF RecordsList, AtExtractor, Listed, crawler, files
<1>5. CASE Open("extractor")
  <2>1. UNCHANGED <<store, sources, normalized, hand>> /\ pc'["extractor"] = "replace"
        /\ pc["extractor"] = "open"
    BY <1>0, <1>5 DEF Open, Goto, crawler, TypeOK, Workers
  <2>2. \A b \in Bodies : Awaited(b) => Awaited(b)'
    BY <1>5 DEF Awaited, Open, crawler, stream
  <2> QED BY <1>0, <1>a, <2>1, <2>2 DEF RecordsList, AtExtractor, Listed
<1>6. CASE Replace("extractor")
  <2>1. /\ UNCHANGED <<store, sources, hand>> /\ pc'["extractor"] = "publish"
        /\ normalized' = [normalized EXCEPT ![hand["extractor"].body] = hand["extractor"]]
        /\ pc["extractor"] = "replace"
    BY <1>0, <1>6 DEF Replace, OneWriter, AfterRecord, Goto, crawler, TypeOK, Workers
  <2>2. \A b \in Bodies : Awaited(b) => Awaited(b)'
    BY <1>6 DEF Awaited, Replace, crawler, stream
  <2> QED BY <1>0, <1>a, <2>1, <2>2 DEF RecordsList, AtExtractor, Listed, TypeOK
<1>7. CASE PublishExtracted \/ AckFetched
  <2>1. /\ UNCHANGED <<store, sources, normalized>>
        /\ pc'["extractor"] \notin {"open", "replace"} /\ pc["extractor"] \notin {"open", "replace"}
    BY <1>0, <1>7 DEF PublishExtracted, AckFetched, Goto, crawler, files, TypeOK, Workers
  <2>2. \A b \in Bodies : Awaited(b) => Awaited(b)'
    BY <1>7 DEF Awaited, PublishExtracted, AckFetched, crawler, stream
  <2> QED BY <1>0, <2>1, <2>2 DEF RecordsList, AtExtractor, Listed
<1>8. CASE (\E d \in Bodies : HandleExtracted(d)) \/ Commit("indexer") \/ AckExtracted
           \/ Raise("indexer")
  <2>1. /\ UNCHANGED <<store, sources, normalized, crawling, fetched, redeliver>>
        /\ pc'["extractor"] = pc["extractor"] /\ hand'["extractor"] = hand["extractor"]
    BY <1>0, <1>8, RaiseGivesBack
       DEF HandleExtracted, Commit, AckExtracted, Goto, Holding, crawler, stream, files, TypeOK,
           Workers
  <2> QED BY <1>0, <2>1 DEF RecordsList, AtExtractor, Listed, Awaited
<1>9. CASE Raise("extractor")
  <2>1. /\ UNCHANGED <<store, sources, normalized, crawling, fetched>>
        /\ pc'["extractor"] = "idle" /\ pc["extractor"] # "idle"
        /\ redeliver' = redeliver \cup {PayloadOf(hand["extractor"])}
    BY <1>0, <1>9, RaiseGivesBack DEF Goto, crawler, files, TypeOK, Workers
  <2>2. \A b \in Bodies : Awaited(b) => Awaited(b)'
    BY <2>1 DEF Awaited
  <2>a. PayloadOf(hand["extractor"]).body = hand["extractor"].body
    BY DEF PayloadOf
  <2>3. \A b \in Bodies : AtExtractor(b, {"open", "replace"}) => Awaited(b)'
    BY <2>1, <2>a DEF AtExtractor, Awaited
  <2> QED BY <1>0, <2>1, <2>2, <2>3 DEF RecordsList, AtExtractor, Listed
<1> QED BY <1>2, <1>3, <1>4, <1>5, <1>6, <1>7, <1>8, <1>9, QuietSteps

LEMMA RowsFollowStep ==
    NoReplay /\ Typed /\ OneWriter /\ RecordsList /\ RowsFollow /\ [Next]_vars => RowsFollow'
<1> SUFFICES ASSUME NoReplay, Typed, OneWriter, RowsFollow, [Next]_vars,
                    NEW b \in store', ~Coming(b)'
             PROVE  IF pc'["indexer"] = "handle" /\ hand'["indexer"].body = b
                    THEN hand'["indexer"] = normalized'[b] ELSE documents'[b] = normalized'[b]
    BY DEF RowsFollow, Coming, Awaited, AtExtractor
<1>0. TypeOK /\ PlacesTyped /\ Keyed /\ b \in Bodies
  BY TypedStep DEF Typed, TypeOK
<1>a. pc["extractor"] # "idle" => hand["extractor"] \in Record /\ hand["extractor"].body \in Bodies
  BY <1>0 DEF PlacesTyped, AtWork, Workers, Record
<1>b. Awaited(b) => \E c \in Capture : Take(c) /\ c.body = b
  BY <1>0, AwaitedStays DEF Coming
<1>1. ASSUME NEW u \in Urls, NEW d \in Bodies, Fetch(u, d)
      PROVE  /\ b \in store /\ ~Coming(b)
             /\ UNCHANGED <<normalized, documents, hand, pc>>
  <2>0. crawling' \in Capture /\ crawling'.body = d
    BY <1>0, <1>1, PipelineAssumption DEF Fetch, TypeOK, Capture, Times
  <2>1. /\ Awaited(d)' /\ store' = store \cup {d}
        /\ UNCHANGED <<normalized, documents, hand, pc, extracted>>
    BY <1>1, <2>0, PipelineAssumption DEF Fetch, Log!Store, Awaited, files, stream
  <2>2. ~Awaited(b)
    BY <1>0, <1>1, <1>b DEF Fetch, Take, crawler, TypeOK
  <2> QED BY <1>0, <2>1, <2>2 DEF Coming, AtExtractor
<1>2. CASE UNCHANGED vars \/ SaveDownload \/ Publish \/ AckWaitExpires
  <2>1. /\ UNCHANGED <<store, normalized, documents, hand, pc>> /\ extracted \subseteq extracted'
    BY <1>2 DEF vars, crawler, files, stream, SaveDownload, Publish, AckWaitExpires, Log!Record,
                Log!Announce
  <2>2. ~Awaited(b)
    BY <1>0, <1>b, <2>1 DEF Take, Goto, TypeOK, Workers
  <2> QED BY <2>1, <2>2 DEF RowsFollow, Coming, AtExtractor
<1>3. ASSUME NEW c \in Capture, Take(c)
      PROVE  /\ b \in store /\ ~Coming(b)
             /\ UNCHANGED <<normalized, documents>>
             /\ pc'["indexer"] = pc["indexer"] /\ hand'["indexer"] = hand["indexer"]
  <2>1. /\ hand'["extractor"].body = c.body /\ pc'["extractor"] = "open" /\ pc["extractor"] = "idle"
        /\ UNCHANGED <<store, normalized, documents, extracted, crawling>>
        /\ pc'["indexer"] = pc["indexer"] /\ hand'["indexer"] = hand["indexer"]
        /\ fetched' = fetched \ {c} /\ redeliver' = redeliver \ {c}
    BY <1>0, <1>3 DEF Take, RecordOf, Goto, Holding, TypeOK, Workers, crawler, files
  <2>2. c.body # b /\ ~Awaited(b)
    BY <2>1 DEF Coming, AtExtractor, Awaited
  <2> QED BY <2>1, <2>2 DEF Coming, AtExtractor
<1>4. CASE Open("extractor") \/ PublishExtracted
  <2>1. /\ UNCHANGED <<store, normalized, documents, hand>> /\ extracted \subseteq extracted'
        /\ pc'["indexer"] = pc["indexer"]
        /\ pc["extractor"] \in {"open", "publish"}
        /\ hand["extractor"].body = b => Coming(b)'
    BY <1>0, <1>4 DEF Open, PublishExtracted, Goto, crawler, files, stream, Coming, AtExtractor,
                      TypeOK, Workers
  <2>2. ~Awaited(b)
    BY <1>b, <2>1 DEF Take, Typed, PlacesTyped
  <2> QED BY <2>1, <2>2 DEF RowsFollow, Coming, AtExtractor
<1>5. CASE Replace("extractor")
  <2>1. /\ UNCHANGED <<store, documents, hand, extracted>>
        /\ pc'["indexer"] = pc["indexer"] /\ pc'["extractor"] = "publish"
        /\ pc["extractor"] = "replace"
        /\ \A d \in Bodies \ {hand["extractor"].body} : normalized'[d] = normalized[d]
    BY <1>0, <1>5 DEF Replace, AfterRecord, Goto, crawler, stream, TypeOK, Workers
  <2>2. ~Awaited(b) /\ hand["extractor"].body # b
    BY <1>b, <2>1 DEF Take, Coming, AtExtractor
  <2> QED BY <1>0, <2>1, <2>2 DEF RowsFollow, Coming, AtExtractor
<1>6. CASE AckFetched
  <2>1. /\ UNCHANGED <<store, normalized, documents, extracted>>
        /\ pc'["indexer"] = pc["indexer"] /\ hand'["indexer"] = hand["indexer"]
        /\ pc["extractor"] = "ack"
    BY <1>0, <1>6 DEF AckFetched, Goto, Holding, crawler, stream, files, TypeOK, Workers
  <2>2. ~Awaited(b)
    BY <1>b, <2>1 DEF Take
  <2> QED BY <2>1, <2>2 DEF RowsFollow, Coming, AtExtractor
<1>7. CASE Raise("extractor")
  <2>1. /\ UNCHANGED <<store, normalized, documents, extracted>>
        /\ pc'["indexer"] = pc["indexer"] /\ hand'["indexer"] = hand["indexer"]
        /\ pc["extractor"] # "idle"
        /\ redeliver' = redeliver \cup {PayloadOf(hand["extractor"])}
    BY <1>0, <1>7, RaiseGivesBack DEF Goto, Holding, crawler, files, TypeOK, Workers
  <2>a. PayloadOf(hand["extractor"]).body = hand["extractor"].body
    BY DEF PayloadOf
  <2>2. ~Awaited(b) /\ hand["extractor"].body # b
    BY <1>b, <2>1, <2>a DEF Take, Coming, Awaited
  <2> QED BY <2>1, <2>2 DEF RowsFollow, Coming, AtExtractor
<1>8. ASSUME NEW d \in Bodies, HandleExtracted(d)
      PROVE  IF pc'["indexer"] = "handle" /\ hand'["indexer"].body = b
             THEN hand'["indexer"] = normalized'[b] ELSE documents'[b] = normalized'[b]
  <2>1. /\ UNCHANGED <<store, normalized, documents, crawling, fetched, redeliver>>
        /\ pc'["extractor"] = pc["extractor"] /\ hand'["extractor"] = hand["extractor"]
        /\ hand'["indexer"] = normalized[d] /\ normalized[d].body = d
        /\ pc["indexer"] = "idle" /\ pc'["indexer"] = "handle"
        /\ extracted' = extracted \ {d}
    BY <1>0, <1>8 DEF HandleExtracted, Readable, Goto, Holding, crawler, files, TypeOK, Keyed, Workers
  <2>2. b # d => ~Coming(b)
    BY <2>1 DEF Coming, AtExtractor, Awaited
  <2> QED BY <2>1, <2>2 DEF RowsFollow
<1>9. CASE Commit("indexer")
  <2>1. /\ UNCHANGED <<store, normalized, crawling, fetched, redeliver, extracted, hand>>
        /\ pc'["extractor"] = pc["extractor"]
        /\ pc["indexer"] = "handle" /\ pc'["indexer"] = "ack"
        /\ documents' = [documents EXCEPT ![hand["indexer"].body] = hand["indexer"]]
    BY <1>0, <1>9 DEF Commit, OneWriter, RowOf, AfterCommit, Goto, crawler, stream, files, TypeOK,
                      Workers
  <2>2. ~Coming(b)
    BY <2>1 DEF Coming, AtExtractor, Awaited
  <2> QED BY <1>0, <2>1, <2>2 DEF RowsFollow, TypeOK
<1>10. CASE AckExtracted
  <2>1. /\ UNCHANGED <<store, normalized, documents, crawling, fetched, redeliver, extracted>>
        /\ pc'["extractor"] = pc["extractor"] /\ hand'["extractor"] = hand["extractor"]
        /\ pc["indexer"] = "ack" /\ pc'["indexer"] = "idle"
    BY <1>0, <1>10 DEF AckExtracted, Goto, Holding, crawler, stream, files, TypeOK, Workers
  <2> QED BY <2>1 DEF RowsFollow, Coming, AtExtractor, Awaited
<1>11. CASE Raise("indexer")
  <2>1. /\ UNCHANGED <<store, normalized, documents, crawling, fetched, redeliver>>
        /\ pc'["extractor"] = pc["extractor"] /\ hand'["extractor"] = hand["extractor"]
        /\ pc["indexer"] \in {"handle", "ack"} /\ pc'["indexer"] = "idle"
        /\ extracted' = extracted \cup {hand["indexer"].body}
    BY <1>0, <1>11, RaiseGivesBack DEF Goto, Holding, crawler, files, TypeOK, Workers
  <2>2. ~Coming(b) /\ hand["indexer"].body # b
    BY <2>1 DEF Coming, AtExtractor, Awaited
  <2> QED BY <2>1, <2>2 DEF RowsFollow
<1>12. CASE \/ \E u \in Urls, d \in Bodies : Fetch(u, d)
            \/ \E c \in Capture : Take(c)
  BY <1>1, <1>3, <1>12 DEF RowsFollow
<1> QED BY <1>2, <1>4, <1>5, <1>6, <1>7, <1>8, <1>9, <1>10, <1>11, <1>12, QuietSteps

InAgreement == OneWriter /\ RecordsList /\ RowsFollow

LEMMA InitInAgreement == Init => InAgreement
BY DEF Init, InAgreement, OneWriter, RecordsList, RowsFollow, Workers

LEMMA SettledInAgreement == Typed /\ InAgreement => SettledAgree
BY PipelineAssumption
   DEF Typed, TypeOK, InAgreement, OneWriter, RecordsList, RowsFollow, SettledAgree, Settled,
       Coming, Awaited, AtExtractor, Listed, Keyed, Workers

\* As long as nothing replays and no publication fails for good, however often a handler
\* raises or a message comes back while it is handled: once the stream is empty the row of
\* a body is its record, and the record lists every URL its manifest knows.
THEOREM Agreement ==
    ASSUME May \cap {"unpublished", "crash", "replay_job"} = {}
    PROVE  Spec => []SettledAgree
<1>1. Typed /\ InAgreement /\ [Next]_vars => Typed' /\ InAgreement'
  BY TypedStep, OneWriterStep, RecordsListStep, RowsFollowStep DEF InAgreement, NoReplay
<1> QED BY <1>1, InitTyped, InitInAgreement, SettledInAgreement, PTL DEF Spec

-----------------------------------------------------------------------------
(* The order of captures, whatever fails. *)

OrderKept == TimesApart /\ LatestIsLast

LEMMA InitOrderKept == Init => OrderKept
BY DEF Init, OrderKept, TimesApart, LatestIsLast, Captured, Log!Init

LEMMA InUnion ==
    ASSUME NEW S, NEW f, NEW c
    PROVE  c \in UNION {f[b] : b \in S} <=> \E b \in S : c \in f[b]
<1>1. ASSUME c \in UNION {f[b] : b \in S} PROVE \E b \in S : c \in f[b]
  <2>1. PICK T \in {f[b] : b \in S} : c \in T
    BY <1>1
  <2> QED BY <2>1
<1>2. ASSUME NEW b \in S, c \in f[b] PROVE c \in UNION {f[d] : d \in S}
  <2>1. f[b] \in {f[d] : d \in S}
    OBVIOUS
  <2> QED BY <1>2, <2>1
<1> QED BY <1>1, <1>2

LEMMA InCaptured ==
    \A c : c \in Captured <=> \/ c \in log
                              \/ \E b \in Bodies : c \in sources[b]
                              \/ crawling # None /\ c = crawling
<1> DEFINE U == UNION {sources[b] : b \in Bodies}
<1>1. \A c : c \in U <=> \E b \in Bodies : c \in sources[b]
  BY InUnion
<1>2. Captured = (log \cup U) \cup ({crawling} \ {None})
  BY DEF Captured
<1> HIDE DEF U
<1> QED BY <1>1, <1>2

LEMMA CapturedTyped == Typed => Captured \subseteq Capture
BY InCaptured DEF Typed, TypeOK

LEMMA OrderKeptStep == Typed /\ OrderKept /\ [Next]_vars => OrderKept'
<1> SUFFICES ASSUME Typed, OrderKept, [Next]_vars PROVE OrderKept'
    OBVIOUS
<1>0. TypeOK /\ TimesApart /\ LatestIsLast /\ Captured \subseteq Capture /\ clock \in Nat
  BY CapturedTyped DEF Typed, TypeOK, OrderKept
<1>1. CASE UNCHANGED crawler
  BY <1>0, <1>1 DEF OrderKept, TimesApart, LatestIsLast, Captured, crawler
<1>2. ASSUME NEW u \in Urls, NEW b \in Bodies, Fetch(u, b) PROVE OrderKept'
  <2> DEFINE new == [url |-> u, body |-> b, at |-> clock + 1]
  <2>1. /\ crawling' = new /\ clock' = clock + 1 /\ UNCHANGED <<log, latest>>
        /\ b \in Serves[u]
        /\ \A d \in Bodies : sources'[d] \subseteq sources[d] \cup {new}
    BY <1>0, <1>2 DEF Fetch, Log!Store, SourcesWith, TypeOK
  <2>a. \A c : c \in Captured' <=> \/ c \in log'
                                   \/ \E d \in Bodies : c \in sources'[d]
                                   \/ crawling' # None /\ c = crawling'
    <3> DEFINE U == UNION {sources'[d] : d \in Bodies}
    <3>1. \A c : c \in U <=> \E d \in Bodies : c \in sources'[d]
      BY InUnion
    <3>2. Captured' = (log' \cup U) \cup ({crawling'} \ {None})
      BY DEF Captured
    <3> HIDE DEF U
    <3> QED BY <3>1, <3>2
  <2>2. Captured' \subseteq Captured \cup {new}
    BY <2>1, <2>a, InCaptured
  <2>3. \A c \in Captured : c.at <= clock /\ c.at \in Nat
    BY <1>0 DEF TimesApart, Capture, Times
  <2>4. TimesApart'
    <3>1. \A c \in Captured' : c.body \in Serves[c.url] /\ c.at <= clock'
      BY <1>0, <2>1, <2>2, <2>3 DEF TimesApart
    <3>2. \A c, d \in Captured' : c.at = d.at => c = d
      BY <1>0, <2>2, <2>3 DEF TimesApart
    <3> QED BY <2>1, <3>1, <3>2 DEF TimesApart
  <2> QED BY <1>0, <2>1, <2>4 DEF OrderKept, LatestIsLast
<1>3. CASE SaveDownload
  <2>1. /\ crawling \in Captured /\ crawling.at = clock /\ log \subseteq Captured
        /\ log' = log \cup {crawling} /\ UNCHANGED <<sources, crawling, clock>>
        /\ latest' = {d \in latest : d.url # crawling.url} \cup {crawling}
    BY <1>0, <1>3, InCaptured DEF SaveDownload, Log!Record, TimesApart
  <2>2. Captured' = Captured
    BY <2>1 DEF Captured
  <2>3. LatestIsLast'
    BY <1>0, <2>1 DEF LatestIsLast, TimesApart
  <2> QED BY <1>0, <2>1, <2>2, <2>3 DEF OrderKept, TimesApart
<1>4. CASE Publish \/ Unpublished
  <2>1. Captured' \subseteq Captured /\ UNCHANGED <<log, latest, clock>> /\ crawling' = None
    BY <1>4 DEF Publish, Unpublished, Log!Announce, Captured
  <2> QED BY <1>0, <2>1 DEF OrderKept, TimesApart, LatestIsLast
<1> QED BY <1>1, <1>2, <1>3, <1>4, WorkersOnlyRead
        DEF Next, CrawlerStep, FaultStep, WorkerStep, vars
-----------------------------------------------------------------------------
(* The current capture, where besides nothing fails. *)

NoFault == May \subseteq {"garble"}

LEMMA InTurnSteps ==
    ASSUME NoFault, Typed, OneWriter, [Next]_vars
    PROVE  \/ UNCHANGED vars
           \/ (\E u \in Urls, b \in Bodies : Fetch(u, b)) \/ SaveDownload \/ Publish
           \/ (\E c \in Capture : Take(c)) \/ Open("extractor") \/ Replace("extractor")
           \/ PublishExtracted \/ AckFetched
           \/ (\E b \in Bodies : HandleExtracted(b)) \/ Commit("indexer") \/ AckExtracted
<1>1. NoReplay
  BY DEF NoReplay, NoFault
<1>2. ~AckWaitExpires /\ \A p \in Workers : ~Raise(p)
  BY DEF NoFault, AckWaitExpires, Raise, Fault
<1> QED BY <1>1, <1>2, QuietSteps DEF Workers

LEMMA HandledInTurnStep ==
    /\ NoFault /\ Typed /\ RecordsAreBacked /\ OneWriter /\ OrderKept /\ HandledInTurn
    /\ [Next]_vars
    => HandledInTurn'
<1> SUFFICES ASSUME NoFault, Typed, RecordsAreBacked, OneWriter, TimesApart, HandledInTurn,
                    [Next]_vars
             PROVE  HandledInTurn'
    BY DEF OrderKept
<1>0. /\ TypeOK /\ PlacesTyped /\ Keyed /\ clock \in Nat
      /\ fetched \subseteq log /\ log \subseteq Captured /\ Captured \subseteq Capture
      /\ \A c \in Capture : c.at \in Nat
      /\ None \notin Capture /\ Garbled \notin Capture
  BY CapturedTyped, PipelineAssumption
     DEF Typed, TypeOK, RecordsAreBacked, Captured, Capture, Times
<1>a. pc["extractor"] # "idle" => /\ hand["extractor"] \in Record
                                  /\ hand["extractor"].body \in Bodies
                                  /\ hand["extractor"].at \in Nat
                                  /\ PayloadOf(hand["extractor"]) \in log
                                  /\ PayloadOf(hand["extractor"]).at = hand["extractor"].at
                                  /\ PayloadOf(hand["extractor"]).body = hand["extractor"].body
  BY <1>0 DEF PlacesTyped, AtWork, Workers, Record, Times, RecordsAreBacked, PayloadOf
<1>b. \A b \in Bodies : normalized[b] # None =>
          /\ PayloadOf(normalized[b]).at = normalized[b].at
          /\ normalized[b].at \in Nat /\ normalized[b].at <= clock
  BY <1>0 DEF HandledInTurn, PayloadOf, TimesApart
<1>1. CASE UNCHANGED <<crawler, fetched, redeliver, normalized>>
           /\ pc'["extractor"] = pc["extractor"] /\ hand'["extractor"] = hand["extractor"]
  BY <1>1 DEF HandledInTurn, Before, crawler
<1>2. CASE UNCHANGED vars \/ (\E b \in Bodies : HandleExtracted(b)) \/ Commit("indexer")
           \/ AckExtracted
  BY <1>0, <1>1, <1>2 DEF HandleExtracted, Commit, AckExtracted, Goto, Holding, TypeOK, vars, stream,
                          files, Workers
<1>3. ASSUME NEW u \in Urls, NEW b \in Bodies, Fetch(u, b) PROVE HandledInTurn'
  <2>1. /\ crawling = None /\ crawling'.at = clock + 1
        /\ UNCHANGED <<log, fetched, redeliver, normalized, pc, hand>>
    BY <1>3 DEF Fetch, Log!Store, stream, files
  <2>2. \A c \in log : c.at <= clock
    BY <1>0 DEF TimesApart
  <2>3. ASSUME NEW t \in Nat, t <= clock, Before(t) PROVE Before(t)'
    BY <1>0, <2>1, <2>3 DEF Before
  <2>4. pc["extractor"] # "idle" => hand["extractor"].at <= clock
    BY <1>a, <2>2
  <2>5. crawling' \notin fetched
    BY <1>0, <2>1, <2>2
  <2> QED BY <1>0, <1>a, <1>b, <2>1, <2>3, <2>4, <2>5 DEF HandledInTurn, Before
<1>4. CASE SaveDownload
  <2>1. /\ UNCHANGED <<crawling, fetched, redeliver, normalized, pc, hand>>
        /\ log' = log \cup {crawling}
    BY <1>4 DEF SaveDownload, Log!Record, stream, files
  <2> QED BY <2>1 DEF HandledInTurn, Before
<1>5. CASE Publish
  <2>1. /\ UNCHANGED <<log, redeliver, normalized, pc, hand>>
        /\ fetched' = fetched \cup {crawling} /\ crawling' = None /\ crawling # None
    BY <1>5 DEF Publish, Log!Announce, files
  <2>2. \A t : Before(t) => Before(t)'
    BY <2>1 DEF Before
  <2>3. None \notin fetched'
    BY <1>0, <2>1
  <2> QED BY <2>1, <2>2, <2>3 DEF HandledInTurn, Before
<1>6. ASSUME NEW c \in Capture, Take(c) PROVE HandledInTurn'
  <2>1. /\ hand'["extractor"] = RecordOf(c) /\ pc'["extractor"] = "open" /\ pc["extractor"] = "idle"
        /\ fetched' = fetched \ {c} /\ redeliver' = {}
        /\ UNCHANGED <<log, crawling, clock, normalized>>
    BY <1>0, <1>6 DEF Take, Goto, Holding, TypeOK, Workers, crawler, files, HandledInTurn
  <2>2. RecordOf(c).at = c.at /\ PayloadOf(RecordOf(c)) = c
    BY RecordOfCapture DEF RecordOf
  <2>3. c \in fetched /\ \A d \in fetched : c.at <= d.at
    BY <1>6 DEF Take, Delivered, Earliest, HandledInTurn
  <2>4. \A d \in fetched \ {c} : c.at < d.at
    BY <1>0, <2>3 DEF TimesApart
  <2>5. crawling # None => c.at < crawling.at
    <3>1. crawling # None => crawling \in Captured /\ crawling.at = clock /\ crawling # c
      BY <1>0, <2>3, InCaptured DEF TimesApart, HandledInTurn
    <3> QED BY <1>0, <2>3, <3>1 DEF TimesApart
  <2>6. Before(hand["extractor"].at)'
    BY <2>1, <2>2, <2>4, <2>5 DEF Before
  <2>7. \A b \in Bodies : normalized[b] # None => Before(normalized[b].at)' /\ normalized[b].at < c.at
    BY <2>1, <2>3 DEF HandledInTurn, Before
  <2> QED BY <2>1, <2>2, <2>6, <2>7 DEF HandledInTurn, Before
<1>7. CASE Open("extractor")
  <2>1. /\ UNCHANGED <<crawler, fetched, redeliver, normalized, hand>>
        /\ pc["extractor"] = "open" /\ pc'["extractor"] = "replace"
    BY <1>0, <1>7 DEF Open, Goto, stream, TypeOK, Workers
  <2> QED BY <2>1 DEF HandledInTurn, Before, crawler
<1>8. CASE Replace("extractor")
  <2> DEFINE r == hand["extractor"]
  <2>1. /\ UNCHANGED <<log, crawling, clock, fetched, redeliver, hand>>
        /\ pc["extractor"] = "replace" /\ pc'["extractor"] = "publish"
        /\ normalized' = [normalized EXCEPT ![r.body] = r]
    BY <1>0, <1>8 DEF Replace, OneWriter, AfterRecord, Goto, crawler, stream, TypeOK, Workers
  <2>2. r \in Record /\ r # None /\ PayloadOf(r) \in log /\ Before(r.at)
    BY <1>a, <2>1, PipelineAssumption DEF HandledInTurn
  <2>3. normalized'[r.body] = r /\ \A b \in Bodies \ {r.body} : normalized'[b] = normalized[b]
    BY <1>0, <1>a, <2>1 DEF TypeOK
  <2>4. ASSUME NEW b \in Bodies, normalized'[b] # None
        PROVE  PayloadOf(normalized'[b]) \in log /\ Before(normalized'[b].at)
    BY <2>2, <2>3, <2>4 DEF HandledInTurn
  <2>5. ASSUME NEW c \in log, c \notin fetched, c # crawling
        PROVE  normalized'[c.body] # None /\ c.at <= normalized'[c.body].at
    <3>1. c.body \in Bodies /\ c.at \in Nat
      BY <1>0 DEF Capture
    <3>2. CASE PayloadOf(r) = c
      BY <1>a, <2>1, <2>2, <2>3, <3>1, <3>2
    <3>3. CASE PayloadOf(r) # c
      <4>1. normalized[c.body] # None /\ c.at <= normalized[c.body].at
            /\ normalized[c.body].at < r.at
        BY <2>1, <2>5, <3>1, <3>3 DEF HandledInTurn
      <4>2. CASE c.body = r.body
        BY <1>a, <1>b, <2>1, <2>2, <2>3, <3>1, <4>1, <4>2
      <4>3. CASE c.body # r.body
        BY <2>3, <3>1, <4>1, <4>3
      <4> QED BY <4>2, <4>3
    <3> QED BY <3>2, <3>3
  <2>6. crawling \notin fetched /\ redeliver = {}
    BY DEF HandledInTurn
  <2> QED BY <2>1, <2>2, <2>4, <2>5, <2>6 DEF HandledInTurn, Before
<1>9. CASE PublishExtracted \/ AckFetched
  <2>1. /\ UNCHANGED <<crawler, fetched, redeliver, normalized>>
        /\ pc["extractor"] \in {"publish", "ack"} /\ pc'["extractor"] \in {"ack", "idle"}
        /\ pc'["extractor"] # "idle" => hand'["extractor"] = hand["extractor"]
    BY <1>0, <1>9 DEF PublishExtracted, AckFetched, Goto, Holding, stream, files, TypeOK, Workers
  <2> QED BY <2>1 DEF HandledInTurn, Before, crawler
<1> QED BY <1>2, <1>3, <1>4, <1>5, <1>6, <1>7, <1>8, <1>9, InTurnSteps

LEMMA InitHandledInTurn == Init => HandledInTurn
BY DEF Init, HandledInTurn, Before, Log!Init, Workers

\* Once all is handled, the row of a URL's last capture is the newest of its rows.
LEMMA SettledCurrent ==
    ASSUME Typed, Backed, InAgreement, OrderKept, HandledInTurn
    PROVE  CurrentIsLatest
<1> SUFFICES ASSUME Settled, NEW l \in latest, OwnBytes(l.url)
             PROVE  CurrentBodies(l.url) = {l.body}
    BY DEF CurrentIsLatest
<1>0. /\ TypeOK /\ log \subseteq Captured /\ log \subseteq Capture
      /\ TimesApart /\ LatestIsLast /\ SettledAgree
      /\ l \in log
  BY SettledInAgreement DEF Typed, TypeOK, Captured, OrderKept, LatestIsLast
<1>1. \A c \in log : normalized[c.body] # None /\ c.at <= normalized[c.body].at
  BY <1>0, PipelineAssumption DEF HandledInTurn, Settled, Workers
<1>2. ASSUME NEW b \in Bodies, documents[b] # None
      PROVE  documents[b] = normalized[b] /\ PayloadOf(documents[b]) \in log
             /\ documents[b].body = b
  <2>1. b \in store /\ documents[b] = normalized[b] /\ normalized[b] # None
    BY <1>0, <1>2 DEF Backed, RowsAreBacked, SettledAgree
  <2>2. documents[b] \in Record
    BY <1>0, <1>2 DEF TypeOK
  <2> QED BY <2>1, <2>2 DEF HandledInTurn, Typed, Keyed
<1>3. l.body \in Bodies /\ l.at \in Nat /\ l.body \in store /\ l.url \in Urls
  BY <1>0 DEF Capture, Times, Backed, RecordsAreBacked
<1>4. documents[l.body] # None /\ documents[l.body] = normalized[l.body]
  BY <1>0, <1>1, <1>3 DEF SettledAgree
<1>5. ASSUME NEW b \in Bodies, documents[b] # None, documents[b].url = l.url
      PROVE  documents[b].at <= l.at /\ documents[b].at \in Nat
             /\ (documents[b].at = l.at => b = l.body)
  <2> DEFINE c == PayloadOf(documents[b])
  <2>1. c \in log /\ c.url = l.url /\ c.at = documents[b].at /\ c.body = b
    BY <1>2, <1>5 DEF PayloadOf
  <2> QED BY <1>0, <2>1 DEF LatestIsLast, TimesApart, Capture, Times
<1>6. documents[l.body].url = l.url
  <2> DEFINE c == PayloadOf(documents[l.body])
  <2>1. c \in log /\ c.body = l.body /\ c.url = documents[l.body].url
    BY <1>2, <1>3, <1>4 DEF PayloadOf
  <2>2. l.body \in Serves[c.url] /\ l.body \in Serves[l.url] /\ c.url \in Urls
    BY <1>0, <2>1 DEF TimesApart, Capture
  <2> QED BY <2>1, <2>2 DEF OwnBytes
<1>7. documents[l.body].at = l.at
  BY <1>0, <1>1, <1>3, <1>4, <1>5, <1>6
<1> QED BY <1>3, <1>4, <1>5, <1>6, <1>7 DEF CurrentBodies

\* As long as nothing fails and nothing replays: once all is handled, what search holds
\* to be current of a URL with bytes of its own is what was last captured there.
THEOREM LatestIsCurrent ==
    ASSUME May \subseteq {"garble"}
    PROVE  Spec => []CurrentIsLatest
<1> DEFINE I == Typed /\ Backed /\ InAgreement /\ OrderKept /\ HandledInTurn
<1>1. Init => I
  BY InitTyped, InitBacked, InitInAgreement, InitOrderKept, InitHandledInTurn
<1>2. I /\ [Next]_vars => I'
  BY TypedStep, BackedStep, OneWriterStep, RecordsListStep, RowsFollowStep, OrderKeptStep,
     HandledInTurnStep
     DEF InAgreement, NoReplay, NoFault, Backed
<1>3. I => CurrentIsLatest
  BY SettledCurrent
<1> QED BY <1>1, <1>2, <1>3, PTL DEF Spec

=============================================================================
