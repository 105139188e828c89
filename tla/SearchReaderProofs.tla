------------------------- MODULE SearchReaderProofs -------------------------
(***************************************************************************)
(* What an answer of search promises, for any URLs, bodies, queries and    *)
(* windows, and whatever fails or is replayed in the workers beside it:    *)
(* their invariants, proved in PipelineProofs, hold beside the reader too. *)
(***************************************************************************)
EXTENDS SearchReader, PipelineProofs, FiniteSetTheorems, WellFoundedInduction

\* A nonempty set of bounded numbers has a greatest.
LEMMA LeastOf ==
    ASSUME NEW S \in SUBSET Nat, S # {}
    PROVE  \E n \in S : \A m \in S : n <= m
<1> DEFINE R == OpToRel(<, Nat)
<1>1. IsWellFoundedOn(R, Nat)
  BY NatLessThanWellFounded
<1>2. \A m, n \in Nat : m < n => <<m, n>> \in R
  BY DEF OpToRel
<1> HIDE DEF R
<1>3. PICK n \in S : \A m \in S : ~(<<m, n>> \in R)
  BY <1>1, WFMin, Zenon
<1>4. ASSUME NEW m \in S PROVE n <= m
  <2>1. ~(m < n)
    BY <1>2, <1>3, Zenon
  <2> QED BY <2>1
<1> QED BY <1>4

LEMMA GreatestOf ==
    ASSUME NEW N \in Nat, NEW S \in SUBSET (0..N), S # {}
    PROVE  \E n \in S : \A m \in S : m <= n
<1> DEFINE T == {N - n : n \in S}
<1>1. T \in SUBSET Nat /\ T # {}
  <2>1. \A n \in S : N - n \in Nat
    OBVIOUS
  <2> QED BY <2>1
<1>2. PICK t \in T : \A m \in T : t <= m
  BY <1>1, LeastOf
<1>3. PICK n \in S : t = N - n
  OBVIOUS
<1>4. \A m \in S : m <= n
  BY <1>2, <1>3
<1> QED BY <1>4

\* A limit leaves a part, and all where each URL has no more than MostChunks.
LEMMA CutIsPart == \A S, n : \A T \in Cut(S, n) : T \subseteq S
BY DEF Cut, kSubset

LEMMA CutIsAll ==
    ASSUME NEW S, NEW f \in [S -> Urls \X (1..MostChunks)], \A s, t \in S : f[s] = f[t] => s = t,
           NEW n \in Nat, Cardinality(Urls) * MostChunks <= n
    PROVE  Cut(S, n) = {S}
<1>1. IsFiniteSet(1..MostChunks) /\ Cardinality(1..MostChunks) = MostChunks
  BY FS_Interval, ReaderAssumption
<1>2. /\ IsFiniteSet(Urls \X (1..MostChunks))
      /\ Cardinality(Urls \X (1..MostChunks)) = Cardinality(Urls) * MostChunks
  BY <1>1, FS_Product, ReaderAssumption
<1>3. f \in Injection(S, Urls \X (1..MostChunks))
  BY DEF Injection, IsInjective
<1> DEFINE Room == Urls \X (1..MostChunks)
<1> HIDE DEF Room
<1>a. Injection(S, Room) # {} /\ IsFiniteSet(Room)
  BY <1>2, <1>3 DEF Room
<1>b. IsFiniteSet(S) /\ Cardinality(S) <= Cardinality(Room)
  BY <1>a, FS_Injection
<1>4. IsFiniteSet(S) /\ Cardinality(S) <= Cardinality(Urls) * MostChunks
  BY <1>2, <1>b DEF Room
<1>5. Cardinality(S) \in Nat /\ Cardinality(Urls) * MostChunks \in Nat
  BY <1>2, <1>4, FS_CardinalityType
<1> QED BY <1>4, <1>5 DEF Cut

\* A chunk is one of a body's.
LEMMA ChunkFacts ==
    ASSUME NEW c \in Chunks
    PROVE  /\ c.body \in Bodies /\ c.part \in 1..MostChunks
           /\ c = [body |-> c.body, part |-> c.part]
BY ReaderAssumption DEF Chunks, Chunk
-----------------------------------------------------------------------------
(* The workers beside the reader. *)

\* A row is written under the body of its record.
RowsKeyed == \A b \in Bodies : documents[b] # None => documents[b].body = b

Lake == Typed /\ Backed /\ OrderKept /\ RowsKeyed

LEMMA RowsChangeByCommit ==
    ASSUME Typed, [Next]_vars, NEW b \in Bodies, documents'[b] # documents[b]
    PROVE  \E p \in Replayers : Commit(p) /\ hand[p].body = b /\ documents'[b] = hand[p]
<1>1. PICK p \in Workers : Commit(p)
  BY DEF Next, CrawlerStep, FaultStep, ExtractorStep, IndexerStep, ReplayStep, RecordStep,
         Workers, Fetch, SaveDownload, Publish, Unpublished, AckWaitExpires, CrashExtractor,
         Raise, CrashReplayer, Take, Open, Replace, ReplaceMissing, PublishExtracted,
         AckFetched, HandleExtracted, AckExtracted, StartReplay, ReplayRaw, ListMissing,
         ReplayRecord, EndReplay, vars
<1>2. p \in Replayers
  BY <1>1 DEF Commit, Typed, PlacesTyped, Workers, Replayers
<1>3. hand[p] \in Record
  BY <1>1 DEF Commit, Typed, PlacesTyped, AtWork
<1> QED BY <1>1, <1>2, <1>3 DEF Commit, RowOf, Typed, TypeOK

LEMMA InitLake == Init => Lake
BY InitTyped, InitBacked, InitOrderKept DEF Init, Lake, RowsKeyed

LEMMA LakeStep == Lake /\ [Next]_vars => Lake'
<1> SUFFICES ASSUME Lake, [Next]_vars PROVE RowsKeyed'
    BY TypedStep, BackedStep, OrderKeptStep DEF Lake
<1> QED BY RowsChangeByCommit DEF Lake, RowsKeyed

\* A row is a record of a capture, and no two rows are of one.
LEMMA RowFacts ==
    ASSUME Lake, NEW b \in Rows
    PROVE  /\ b \in Bodies /\ documents[b] \in Record
           /\ documents[b].url \in Urls /\ documents[b].at \in 1..MaxCaptures
           /\ b \in Serves[documents[b].url]
           /\ PayloadOf(documents[b]) \in Captured
<1>1. b \in Bodies /\ documents[b] \in Record /\ documents[b].body = b
  BY DEF Rows, Lake, Typed, TypeOK, RowsKeyed
<1>2. PayloadOf(documents[b]) \in log \cup sources[b]
  BY <1>1 DEF Rows, Lake, Backed, RowsAreBacked
<1>3. PayloadOf(documents[b]) \in Captured
  BY <1>1, <1>2, InCaptured
<1> QED BY <1>1, <1>3 DEF Record, Times, PayloadOf, Lake, OrderKept, TimesApart

LEMMA RowsApart ==
    ASSUME Lake, NEW b \in Rows, NEW d \in Rows, documents[b].at = documents[d].at
    PROVE  b = d
<1>1. PayloadOf(documents[b]) = PayloadOf(documents[d])
  BY RowFacts DEF PayloadOf, Lake, OrderKept, TimesApart
<1> QED BY <1>1 DEF PayloadOf, Lake, RowsKeyed, Rows

\* Among any captures each URL has one that is latest.
LEMMA LatestOnce ==
    ASSUME Lake, NEW S, NEW b \in LatestAmong(S), NEW d \in LatestAmong(S),
           documents[b].url = documents[d].url
    PROVE  b = d
<1>1. b \in Rows \cap S /\ d \in Rows \cap S
      /\ documents[b].at <= documents[d].at /\ documents[d].at <= documents[b].at
  BY DEF LatestAmong
<1>2. documents[b].at \in Nat /\ documents[d].at \in Nat
  BY <1>1, RowFacts, PipelineAssumption
<1> QED BY <1>1, <1>2, RowsApart

LEMMA LatestThere ==
    ASSUME Lake, NEW S, NEW b \in Rows \cap S
    PROVE  \E d \in LatestAmong(S) : documents[d].url = documents[b].url
<1> DEFINE Same == {d \in Rows \cap S : documents[d].url = documents[b].url}
           T == {documents[d].at : d \in Same}
<1>1. T \in SUBSET (0..MaxCaptures) /\ T # {} /\ MaxCaptures \in Nat
  <2>1. \A d \in Same : documents[d].at \in 0..MaxCaptures
    BY RowFacts, PipelineAssumption
  <2>2. b \in Same
    OBVIOUS
  <2> QED BY <2>1, <2>2, PipelineAssumption
<1>2. PICK t \in T : \A m \in T : m <= t
  BY <1>1, GreatestOf
<1>3. PICK d \in Same : documents[d].at = t
  OBVIOUS
<1>4. \A e \in Same : documents[e].at <= documents[d].at
  BY <1>2, <1>3
<1>5. d \in LatestAmong(S)
  BY <1>3, <1>4 DEF LatestAmong
<1> QED BY <1>3, <1>5

LEMMA CurrentAreLatest ==
    ASSUME NEW u PROVE CurrentBodies(u) = {b \in LatestRows : documents[b].url = u}
BY DEF CurrentBodies, LatestRows, LatestAmong, Rows

\* Who alone serves a body owns its row.
LEMMA OwnRow ==
    ASSUME Lake, NEW b \in Rows, NEW u \in Urls, OwnBytes(u), b \in Serves[u]
    PROVE  documents[b].url = u
BY RowFacts DEF OwnBytes
-----------------------------------------------------------------------------
(* The steps of the reader, and of the workers as it sees them. *)

SelectStep == Lexical \/ Semantic \/ LatestChunkIds \/ Hydrate \/ PreferLatest \/ MarkCurrent

LEMMA ReaderSteps ==
    ASSUME [ReaderNext]_readerVars
    PROVE  \/ UNCHANGED readerVars \/ WorkersMove
           \/ (\E q \in Queries : Ask(q) \/ ListDocuments(q)) \/ SelectStep \/ Done
BY DEF ReaderNext, SelectStep

\* The reader writes nothing that workers read.
LEMMA ReaderOnlyReads ==
    ASSUME [ReaderNext]_readerVars
    PROVE  [Next]_vars /\ (WorkersMove \/ UNCHANGED <<vars, issued>>)
BY DEF ReaderNext, readerVars, WorkersMove, Ask, ListDocuments, Lexical, Semantic,
       LatestChunkIds, Hydrate, PreferLatest, MarkCurrent, Done

LEMMA LakeBeside == Lake /\ [ReaderNext]_readerVars => Lake'
BY LakeStep, ReaderOnlyReads

LEMMA InitReaderTyped == ReaderInit => ReaderTyped
BY ReaderAssumption DEF ReaderInit, ReaderTyped, Selects

\* An item is read from a row.
LEMMA ItemTyped ==
    ASSUME Lake
    PROVE  /\ \A c \in ChunksAmong(Rows) : ItemOf(c) \in Item
           /\ \A b \in Rows : ItemOf(Whole(b)) \in Item
<1>1. ASSUME NEW c \in ChunksAmong(Rows) PROVE ItemOf(c) \in Item
  <2>1. c \in Chunks /\ c.body \in Rows
    BY DEF ChunksAmong
  <2>2. c \in [body : Bodies, part : 0..MostChunks]
    BY <2>1, ChunkFacts, ReaderAssumption
  <2> QED BY <2>1, <2>2, RowFacts DEF ItemOf, Item
<1>2. ASSUME NEW b \in Rows PROVE ItemOf(Whole(b)) \in Item
  <2>1. Whole(b) \in [body : Bodies, part : 0..MostChunks] /\ Whole(b).body = b
    BY ReaderAssumption DEF Whole, Chunk, Rows
  <2> QED BY <2>1, RowFacts DEF ItemOf, Item
<1> QED BY <1>1, <1>2

LEMMA ReaderTypedStep == Lake /\ ReaderTyped /\ [ReaderNext]_readerVars => ReaderTyped'
<1> SUFFICES ASSUME Lake, ReaderTyped, [ReaderNext]_readerVars PROVE ReaderTyped'
    OBVIOUS
<1>1. CASE UNCHANGED readerVars
  BY <1>1 DEF ReaderTyped, readerVars, reader
<1>2. CASE WorkersMove
  <2>1. issued' \in [Bodies -> Nat]
    BY <1>2 DEF WorkersMove, ReaderTyped
  <2>2. calm' \subseteq calm /\ UNCHANGED <<at, query, items>>
    BY <1>2 DEF WorkersMove, reader
  <2> QED BY <2>1, <2>2 DEF ReaderTyped
<1>3. ASSUME NEW q \in Queries, Ask(q) PROVE ReaderTyped'
  BY <1>3, ReaderAssumption DEF ReaderTyped, Ask, Selects
<1>4. ASSUME NEW q \in Queries, ListDocuments(q) PROVE ReaderTyped'
  <2> DEFINE newest == LatestAmong(q.filter)
             shown == {[ItemOf(Whole(b)) EXCEPT !.current = b \in newest] :
                         b \in IF q.history THEN Rows \cap q.filter ELSE newest}
  <2>1. shown \subseteq Item
    <3>1. ASSUME NEW b \in Rows, NEW c \in BOOLEAN 
           PROVE  [ItemOf(Whole(b)) EXCEPT !.current = c] \in Item
      BY <3>1, ItemTyped DEF Item
    <3>2. \A b : (b \in newest) \in BOOLEAN
      OBVIOUS
    <3>3. newest \subseteq Rows
      BY DEF LatestAmong
    <3> HIDE DEF newest
    <3> QED BY <3>1, <3>2, <3>3
  <2>2. items' \subseteq shown
    BY <1>4, CutIsPart DEF ListDocuments
  <2>3. items' \subseteq Item
    BY <2>1, <2>2
  <2>4. query' \in Query /\ at' = "answered" /\ calm' = Urls /\ UNCHANGED issued
    BY <1>4, ReaderAssumption DEF ListDocuments
  <2> QED BY <2>3, <2>4 DEF ReaderTyped, Selects
<1>5. CASE Lexical \/ Semantic \/ LatestChunkIds
  BY <1>5 DEF ReaderTyped, Lexical, Semantic, LatestChunkIds, Selects
<1>6. CASE Hydrate
  <2>1. items' \subseteq Item
    BY <1>6, ItemTyped DEF Hydrate, ChunksAmong
  <2> QED BY <1>6, <2>1 DEF ReaderTyped, Hydrate, Selects
<1>7. CASE PreferLatest
  BY <1>7 DEF ReaderTyped, PreferLatest, Selects
<1>8. CASE MarkCurrent
  <2>1. {[i EXCEPT !.current = IsLatest(i)] : i \in items} \subseteq Item
    BY DEF ReaderTyped, Item, IsLatest
  <2>2. items' \subseteq Item
    BY <1>8, <2>1, CutIsPart DEF MarkCurrent
  <2> QED BY <1>8, <2>2 DEF ReaderTyped, MarkCurrent, Selects
<1>9. CASE Done
  BY <1>9 DEF ReaderTyped, Done, Selects
<1> QED BY <1>1, <1>2, <1>3, <1>4, <1>5, <1>6, <1>7, <1>8, <1>9, ReaderSteps DEF SelectStep
-----------------------------------------------------------------------------
(* One document of a URL. *)

\* Whatever the workers do, a row stays.
LEMMA RowsStay == Lake /\ [ReaderNext]_readerVars => Rows \subseteq Rows'
BY RecordsStay, ReaderOnlyReads DEF Rows, Lake

LEMMA ItemsAreReadStep ==
    Lake /\ ReaderTyped /\ ItemsAreRead /\ [ReaderNext]_readerVars => ItemsAreRead'
<1> SUFFICES ASSUME Lake, ReaderTyped, ItemsAreRead, [ReaderNext]_readerVars,
                    at' \in {"prefer", "mark"}, NEW i \in items'
             PROVE  /\ ~i.current /\ i.chunk \in ChunksAmong(Rows)'
                    /\ i.chunk.body \in Serves[i.url]
    BY DEF ItemsAreRead
<1>1. CASE UNCHANGED <<at, items>> \/ PreferLatest
  BY <1>1, RowsStay DEF ItemsAreRead, PreferLatest, ChunksAmong
<1>2. CASE Hydrate
  BY <1>2, RowsStay, RowFacts DEF Hydrate, ItemOf, ChunksAmong
<1> QED BY <1>1, <1>2, ReaderSteps
        DEF SelectStep, readerVars, reader, WorkersMove, Ask, ListDocuments, Lexical, Semantic,
            LatestChunkIds, MarkCurrent, Done

\* Of two items of a URL that shares no bytes no more than one is of a latest row.
LEMMA LatestAreOne ==
    ASSUME Lake, NEW i \in Item, NEW j \in Item, i.url = j.url, OwnBytes(i.url),
           i.chunk.body \in Rows, i.chunk.body \in Serves[i.url], IsLatest(i), IsLatest(j)
    PROVE  i.chunk.body = j.chunk.body
<1>1. documents[i.chunk.body].url = i.url
  BY OwnRow DEF Item
<1>2. PICK d \in LatestAmong(Bodies) : documents[d].url = i.url
  <2>1. i.chunk.body \in Rows \cap Bodies
    BY DEF Rows
  <2> QED BY <1>1, <2>1, LatestThere
<1>3. d \in {b \in LatestRows : documents[b].url = i.url}
  BY <1>2 DEF LatestRows
<1>4. i.chunk.body \in {b \in LatestRows : documents[b].url = i.url}
      /\ j.chunk.body \in {b \in LatestRows : documents[b].url = i.url}
  BY <1>3 DEF IsLatest
<1> QED BY <1>4, LatestOnce DEF LatestRows

LEMMA OneLeftStep ==
    /\ Lake /\ ReaderTyped /\ ItemsAreRead /\ OneLeft /\ [ReaderNext]_readerVars
    => OneLeft'
<1> SUFFICES ASSUME Lake, ReaderTyped, ItemsAreRead, OneLeft, [ReaderNext]_readerVars,
                    at' = "mark", Ordinary', NEW i \in items', NEW j \in items',
                    i.url = j.url, OwnBytes(i.url)
             PROVE  i.chunk.body = j.chunk.body
    BY DEF OneLeft
<1>1. CASE UNCHANGED <<at, query, items>>
  BY <1>1 DEF OneLeft, Ordinary
<1>2. CASE PreferLatest
  <2>1. i \in items /\ j \in items /\ IsLatest(i) /\ IsLatest(j) /\ at = "prefer"
    BY <1>2 DEF PreferLatest
  <2> QED BY <2>1, LatestAreOne DEF ItemsAreRead, ReaderTyped, ChunksAmong
<1> QED BY <1>1, <1>2, ReaderSteps
        DEF SelectStep, readerVars, reader, WorkersMove, Ask, ListDocuments, Lexical, Semantic,
            LatestChunkIds, Hydrate, MarkCurrent, Done, Ordinary

LEMMA OnePerUrlStep ==
    /\ Lake /\ ReaderTyped /\ ItemsAreRead /\ OneLeft /\ OnePerUrl /\ [ReaderNext]_readerVars
    => OnePerUrl'
<1> SUFFICES ASSUME Lake, ReaderTyped, ItemsAreRead, OneLeft, OnePerUrl,
                    [ReaderNext]_readerVars, at' = "answered",
                    NEW i \in items', NEW j \in items', i.url = j.url, OwnBytes(i.url),
                    query'.history => i.current /\ j.current
             PROVE  i.chunk.body = j.chunk.body
    BY DEF OnePerUrl
<1>1. CASE UNCHANGED <<at, query, items>>
  BY <1>1 DEF OnePerUrl
<1>2. CASE MarkCurrent
  <2>1. at = "mark" /\ query' = query
        /\ items' \subseteq {[k EXCEPT !.current = IsLatest(k)] : k \in items}
    BY <1>2, CutIsPart DEF MarkCurrent
  <2>2. PICK k \in items : i = [k EXCEPT !.current = IsLatest(k)]
    BY <2>1
  <2>3. PICK l \in items : j = [l EXCEPT !.current = IsLatest(l)]
    BY <2>1
  <2>4. /\ k \in Item /\ l \in Item
        /\ i.url = k.url /\ i.chunk = k.chunk /\ i.current = IsLatest(k)
        /\ j.url = l.url /\ j.chunk = l.chunk /\ j.current = IsLatest(l)
    BY <2>2, <2>3 DEF ReaderTyped, Item
  <2>5. CASE ~query.history
    BY <2>1, <2>4, <2>5 DEF OneLeft, Ordinary
  <2>6. CASE query.history
    BY <2>1, <2>4, <2>6, LatestAreOne DEF ItemsAreRead, ChunksAmong
  <2> QED BY <2>5, <2>6
<1>3. ASSUME NEW q \in Queries, ListDocuments(q) PROVE i.chunk.body = j.chunk.body
  <2> DEFINE newest == LatestAmong(q.filter)
             from == IF q.history THEN Rows \cap q.filter ELSE newest
  <2>1. query' = q
        /\ items' \subseteq {[ItemOf(Whole(b)) EXCEPT !.current = b \in newest] : b \in from}
    BY <1>3, CutIsPart DEF ListDocuments
  <2>2. PICK b \in from : i = [ItemOf(Whole(b)) EXCEPT !.current = b \in newest]
    BY <2>1
  <2>3. PICK d \in from : j = [ItemOf(Whole(d)) EXCEPT !.current = d \in newest]
    BY <2>1
  <2>4. /\ i.chunk.body = b /\ i.url = documents[b].url /\ i.current = (b \in newest)
        /\ j.chunk.body = d /\ j.url = documents[d].url /\ j.current = (d \in newest)
    BY <2>2, <2>3 DEF ItemOf, Whole, Chunk
  <2>5. b \in newest /\ d \in newest
    BY <2>1, <2>4
  <2> QED BY <2>4, <2>5, LatestOnce
<1> QED BY <1>1, <1>2, <1>3, ReaderSteps
        DEF SelectStep, readerVars, reader, WorkersMove, Ask, Lexical, Semantic,
            LatestChunkIds, Hydrate, PreferLatest, Done

OneEach == ReaderTyped /\ ItemsAreRead /\ OneLeft /\ OnePerUrl

LEMMA InitOneEach == ReaderInit => Lake /\ OneEach
BY InitLake, InitReaderTyped DEF ReaderInit, OneEach, ItemsAreRead, OneLeft, OnePerUrl

LEMMA OneEachStep == Lake /\ OneEach /\ [ReaderNext]_readerVars => Lake' /\ OneEach'
BY LakeBeside, ReaderTypedStep, ItemsAreReadStep, OneLeftStep, OnePerUrlStep DEF OneEach

\* Whatever is committed between the SELECTs of a search, whatever failed before or is
\* replayed meanwhile: an ordinary answer shows one document of a URL with bytes of its
\* own, and any answer marks one of its captures as current.
THEOREM OneOfEachUrl == ReaderSpec => []OnePerUrl
<1>1. OneEach => OnePerUrl
  BY DEF OneEach
<1> QED BY <1>1, InitOneEach, OneEachStep, PTL DEF ReaderSpec

-----------------------------------------------------------------------------
(* URLs whose rows stand still. *)

\* A step of the workers that leaves a URL calm leaves its rows and their chunks.
LEMMA CalmRows ==
    ASSUME Lake, WorkersMove, NEW u \in calm', NEW b \in Bodies
    PROVE  /\ u \in calm
           /\ (b \in Rows /\ documents[b].url = u) <=> (b \in Rows' /\ documents'[b].url = u)
           /\ b \in Rows /\ documents[b].url = u => /\ documents'[b] = documents[b]
                                                    /\ issued'[b] = issued[b]
<1>1. /\ u \in calm
      /\ \A d \in Indexing : documents'[d].url # u /\ (d \in Rows => documents[d].url # u)
  BY DEF WorkersMove
<1>2. CASE b \in Indexing
  BY <1>1, <1>2
<1>3. CASE b \notin Indexing
  <2>1. documents'[b] = documents[b]
    BY <1>3, RowsChangeByCommit DEF WorkersMove, Indexing, Lake
  <2>2. issued'[b] = issued[b]
    BY <1>3 DEF WorkersMove
  <2> QED BY <1>1, <2>1, <2>2 DEF Rows
<1> QED BY <1>2, <1>3

LEMMA CalmStands ==
    ASSUME Lake, NEW u \in calm',
           WorkersMove \/ (UNCHANGED <<vars, issued>> /\ u \in calm)
    PROVE  /\ u \in calm
           /\ CurrentBodies(u)' = CurrentBodies(u)
           /\ \A c : c.body \in CurrentBodies(u) => IdOf(c)' = IdOf(c)
           /\ \A b \in Rows : documents[b].url = u => documents'[b].url = u
<1>1. CASE UNCHANGED <<vars, issued>> /\ u \in calm
  BY <1>1 DEF vars, CurrentBodies, IdOf
<1>2. CASE WorkersMove
  <2>1. u \in calm
    BY <1>2 DEF WorkersMove
  <2>2. \A b \in Bodies : documents[b] # None /\ documents[b].url = u
                            <=> documents'[b] # None /\ documents'[b].url = u
    BY <1>2, CalmRows DEF Rows
  <2>3. \A b \in Bodies : documents[b] # None /\ documents[b].url = u
                            => documents'[b] = documents[b] /\ issued'[b] = issued[b]
    BY <1>2, CalmRows DEF Rows
  <2>4. {b \in Bodies : documents'[b] # None /\ documents'[b].url = u}
        = {b \in Bodies : documents[b] # None /\ documents[b].url = u}
    BY <2>2
  <2>5. CurrentBodies(u)' = CurrentBodies(u)
    BY <2>3, <2>4 DEF CurrentBodies
  <2>6. \A b \in CurrentBodies(u) : issued'[b] = issued[b]
    BY <2>3 DEF CurrentBodies
  <2> QED BY <2>1, <2>3, <2>5, <2>6 DEF IdOf, Rows
<1> QED BY <1>1, <1>2

\* An item that is still of its URL is marked if it is of the current capture.
LEMMA MarkedIsCurrent ==
    ASSUME Lake, NEW i \in Item, i.chunk.body \in Rows, documents[i.chunk.body].url = i.url
    PROVE  IsLatest(i) <=> i.chunk.body \in CurrentBodies(i.url)
<1> DEFINE rows == {b \in LatestRows : documents[b].url = i.url}
<1>1. i.chunk.body \in Rows \cap Bodies
  BY DEF Rows
<1>2. PICK d \in LatestAmong(Bodies) : documents[d].url = i.url
  BY <1>1, LatestThere
<1>3. d \in rows
  BY <1>2 DEF LatestRows
<1>4. rows = CurrentBodies(i.url)
  BY CurrentAreLatest
<1> QED BY <1>3, <1>4 DEF IsLatest

\* Each URL has one current capture, so a window with room for all is not cut.
LEMMA LatestAreNotCut ==
    ASSUME Lake, NEW S, NEW T \in SUBSET ChunksAmong(LatestAmong(S)), NEW n \in Nat,
           Cardinality(Urls) * MostChunks <= n
    PROVE  Cut(T, n) = {T}
<1> DEFINE f == [c \in T |-> <<documents[c.body].url, c.part>>]
<1>1. \A c \in T : c \in Chunks /\ c.body \in LatestAmong(S) /\ c.body \in Rows
  BY DEF ChunksAmong, LatestAmong
<1>2. f \in [T -> Urls \X (1..MostChunks)]
  BY <1>1, RowFacts, ChunkFacts
<1>3. \A c, d \in T : f[c] = f[d] => c = d
  <2> SUFFICES ASSUME NEW c \in T, NEW d \in T, documents[c.body].url = documents[d.body].url,
                      c.part = d.part
               PROVE  c = d
      OBVIOUS
  <2>1. c.body = d.body
    BY <1>1, LatestOnce
  <2> QED BY <1>1, <2>1, ChunkFacts
<1> HIDE DEF f
<1> QED BY <1>2, <1>3, CutIsAll

LEMMA CalmIsKnownStep ==
    /\ Lake /\ ReaderTyped /\ ItemsAreRead /\ CalmIsKnown /\ [ReaderNext]_readerVars
    => CalmIsKnown'
<1> SUFFICES ASSUME Lake, ReaderTyped, ItemsAreRead, CalmIsKnown, [ReaderNext]_readerVars,
                    at' \in {"semantic", "latest", "hydrate", "prefer", "mark"},
                    NEW u \in calm'
             PROVE  /\ at' \in {"semantic", "latest", "hydrate"} /\ Ordinary' /\ RoomForAll =>
                          \A c \in query'.words : c.body \in CurrentBodies(u)'
                                                  => IdOf(c)' \in lexical'
                    /\ at' \in {"prefer", "mark"} =>
                          \A i \in items' : i.url = u => documents'[i.chunk.body].url = u
                    /\ at' \in {"prefer", "mark"} /\ Ordinary' /\ RoomForAll =>
                          Owed(u)' \subseteq Shown(u)'
                    /\ at' = "mark" /\ Ordinary' =>
                          \A i \in items' : i.url = u => i.chunk.body \in CurrentBodies(u)'
    BY DEF CalmIsKnown, RoomForAll
<1>0. WorkersMove \/ (UNCHANGED <<vars, issued>> /\ u \in calm)
  <2>1. WorkersMove \/ UNCHANGED <<vars, issued>>
    BY ReaderOnlyReads
  <2>2. WorkersMove \/ u \in calm
    BY ReaderSteps
       DEF SelectStep, readerVars, Ask, ListDocuments, Lexical, Semantic, LatestChunkIds,
           Hydrate, PreferLatest, MarkCurrent, Done
  <2> QED BY <2>1, <2>2
<1>a. /\ u \in calm /\ u \in Urls
      /\ CurrentBodies(u)' = CurrentBodies(u)
      /\ \A c : c.body \in CurrentBodies(u) => IdOf(c)' = IdOf(c)
      /\ \A b \in Rows : documents[b].url = u => documents'[b].url = u
  BY <1>0, CalmStands DEF ReaderTyped
<1>1. CASE UNCHANGED reader
  <2>1. Owed(u)' = Owed(u) /\ Shown(u)' = Shown(u)
    BY <1>1, <1>a DEF Owed, Shown, reader
  <2>2. at \in {"prefer", "mark"} => \A i \in items : i.chunk.body \in Rows
    BY DEF ItemsAreRead, ChunksAmong
  <2> QED BY <1>1, <1>a, <2>1, <2>2 DEF CalmIsKnown, Ordinary, reader
<1>2. CASE Lexical
  <2>1. at' = "semantic" /\ query' = query
    BY <1>2 DEF Lexical
  <2>2. ASSUME Ordinary, RoomForAll, NEW c \in query.words, c.body \in CurrentBodies(u)
        PROVE  IdOf(c) \in lexical'
    <3> DEFINE T == query.words \cap ChunksAmong(LatestRows)
    <3>1. query.words \subseteq Chunks
      BY DEF ReaderTyped, Query
    <3>2. T \in SUBSET ChunksAmong(LatestAmong(Bodies)) /\ c \in T
      BY <2>2, <3>1, CurrentAreLatest DEF LatestRows, ChunksAmong
    <3>3. Window \in Nat /\ Cardinality(Urls) * MostChunks <= Window
      <4>1. Cardinality(Urls) * MostChunks \in Nat
        BY ReaderAssumption, FS_CardinalityType
      <4> QED BY <2>2, <4>1, ReaderAssumption DEF RoomForAll
    <3>4. Cut(T, Window) = {T}
      BY <3>2, <3>3, LatestAreNotCut
    <3>5. lexical' = {IdOf(d) : d \in T}
      BY <1>2, <2>2, <3>4 DEF Lexical, Ordinary
    <3> QED BY <3>2, <3>5
  <2>3. \A c \in query'.words : c.body \in CurrentBodies(u)' /\ IdOf(c) \in lexical'
                                => IdOf(c)' \in lexical'
    BY <1>a
  <2> QED BY <1>a, <2>1, <2>2, <2>3 DEF Ordinary
<1>3. CASE Semantic \/ LatestChunkIds
  <2>1. /\ at \in {"semantic", "latest"} /\ at' \in {"latest", "hydrate"}
        /\ UNCHANGED <<query, lexical>>
    BY <1>3 DEF Semantic, LatestChunkIds
  <2> QED BY <1>a, <2>1 DEF CalmIsKnown, Ordinary
<1>4. CASE Hydrate
  <2> DEFINE from == {d \in ChunksAmong(Rows \cap query.filter) : IdOf(d) \in lexical \cup semantic}
  <2>1. /\ at = "hydrate" /\ query' = query /\ UNCHANGED documents
        /\ items' = {ItemOf(c) : c \in from}
        /\ at' \in {"prefer", "mark"} /\ (at' = "mark" => ~Ordinary)
    BY <1>4 DEF Hydrate, vars, Ordinary
  <2>2. \A i \in items' : i.url = u => documents[i.chunk.body].url = u
    BY <2>1 DEF ItemOf
  <2>3. ASSUME Ordinary, RoomForAll, NEW c \in Owed(u)
        PROVE  c \in Shown(u)'
    <3>1. query.op = "search" /\ query.words \subseteq Chunks
      BY <2>1 DEF ReaderTyped, Query, Selects
    <3>2. c \in query.words /\ c.body \in CurrentBodies(u) /\ c.body \in query.filter
      BY <2>3, <3>1 DEF Owed
    <3>3. c.body \in Rows /\ documents[c.body].url = u /\ IdOf(c) \in lexical
      BY <1>a, <2>1, <2>3, <3>2 DEF CurrentBodies, Rows, CalmIsKnown
    <3>4. ItemOf(c) \in items'
      BY <2>1, <3>1, <3>2, <3>3 DEF ChunksAmong
    <3>5. ItemOf(c).url = u /\ ItemOf(c).chunk = c
      BY <3>3 DEF ItemOf
    <3> QED BY <3>4, <3>5 DEF Shown
  <2>4. Owed(u)' = Owed(u)
    BY <1>a, <2>1 DEF Owed
  <2> QED BY <2>1, <2>2, <2>3, <2>4 DEF Ordinary
<1>5. CASE PreferLatest
  <2>1. /\ at = "prefer" /\ at' = "mark" /\ query' = query /\ UNCHANGED documents
        /\ items' = {i \in items : IsLatest(i)}
    BY <1>5 DEF PreferLatest, vars
  <2>2. \A i \in items : i.url = u => /\ documents[i.chunk.body].url = u
                                      /\ IsLatest(i) <=> i.chunk.body \in CurrentBodies(u)
    BY <1>a, <2>1, MarkedIsCurrent DEF CalmIsKnown, ItemsAreRead, ReaderTyped, ChunksAmong
  <2>3. Owed(u)' = Owed(u)
    BY <1>a, <2>1 DEF Owed
  <2>4. \A c \in Owed(u) : c.body \in CurrentBodies(u)
    BY <2>1 DEF Owed, ReaderTyped, Selects
  <2>5. ASSUME Ordinary, RoomForAll, NEW c \in Owed(u)
        PROVE  c \in Shown(u)'
    <3>1. PICK i \in items : i.chunk = c /\ i.url = u
      BY <1>a, <2>1, <2>5 DEF CalmIsKnown, Shown
    <3>2. i \in items'
      BY <2>1, <2>2, <2>4, <2>5, <3>1
    <3> QED BY <3>1, <3>2 DEF Shown
  <2> QED BY <1>a, <2>1, <2>2, <2>3, <2>5 DEF Ordinary
<1> QED BY <1>1, <1>2, <1>3, <1>4, <1>5, ReaderSteps
        DEF SelectStep, readerVars, WorkersMove, Ask, ListDocuments, MarkCurrent, Done

\* AnswerTellsCurrent, item by item.
Told(u) ==
    query.op = "search" \/ CurrentBodies(u) \subseteq query.filter =>
        /\ \A i \in items : i.url = u /\ i.current => i.chunk.body \in CurrentBodies(u)
        /\ Ordinary => \A i \in items : i.url = u => i.current
        /\ Ordinary /\ RoomForAll => Owed(u) \subseteq Shown(u)

AllTold == at = "answered" => \A u \in calm : Told(u)

LEMMA AllToldTells == AllTold => AnswerTellsCurrent
<1> SUFFICES ASSUME AllTold, at = "answered", NEW u \in calm,
                    query.op = "search" \/ CurrentBodies(u) \subseteq query.filter
             PROVE  /\ {i.chunk.body : i \in {j \in items : j.url = u /\ j.current}}
                          \subseteq CurrentBodies(u)
                    /\ ~query.history =>
                          {c.body : c \in Shown(u)}
                            = {i.chunk.body : i \in {j \in items : j.url = u /\ j.current}}
                    /\ ~query.history /\ RoomForAll => Owed(u) \subseteq Shown(u)
    BY DEF AnswerTellsCurrent
<1>1. Told(u)
  BY DEF AllTold
<1>2. {c.body : c \in Shown(u)} = {i.chunk.body : i \in {j \in items : j.url = u}}
  BY DEF Shown
<1>3. ~query.history => {j \in items : j.url = u} = {j \in items : j.url = u /\ j.current}
  BY <1>1 DEF Told, Ordinary
<1> QED BY <1>1, <1>2, <1>3 DEF Told, Ordinary

LEMMA MarkTells ==
    ASSUME Lake, ReaderTyped, ItemsAreRead, OneLeft, CalmIsKnown, MarkCurrent, NEW u \in calm
    PROVE  Told(u)'
<1> DEFINE all == {[i EXCEPT !.current = IsLatest(i)] : i \in items}
<1>1. /\ at = "mark" /\ query' = query /\ UNCHANGED documents
      /\ items' \in Cut(all, TopK)
  BY DEF MarkCurrent, vars
<1>2. CurrentBodies(u)' = CurrentBodies(u) /\ Owed(u)' = Owed(u)
  BY <1>1 DEF CurrentBodies, Owed
<1>3. ASSUME NEW k \in all
      PROVE  \E i \in items : /\ i \in Item /\ k = [i EXCEPT !.current = IsLatest(i)]
                              /\ k.url = i.url /\ k.chunk = i.chunk /\ k.current = IsLatest(i)
  BY DEF ReaderTyped, Item
<1>4. \A i \in items : i.url = u => (IsLatest(i) <=> i.chunk.body \in CurrentBodies(u))
  BY <1>1, MarkedIsCurrent DEF CalmIsKnown, ItemsAreRead, ReaderTyped, ChunksAmong
<1>5. items' \subseteq all
  BY <1>1, CutIsPart
<1>6. \A k \in items' : k.url = u /\ k.current => k.chunk.body \in CurrentBodies(u)
  BY <1>3, <1>4, <1>5
<1>7. Ordinary => \A k \in items' : k.url = u => k.current
  BY <1>1, <1>3, <1>4, <1>5 DEF CalmIsKnown
<1>8. ASSUME Ordinary, RoomForAll PROVE Owed(u) \subseteq Shown(u)'
  <2> DEFINE f == [k \in all |-> <<k.url, k.chunk.part>>]
  <2>1. \A i \in items : i.chunk \in Chunks /\ i.url \in Urls /\ i.current = FALSE
    BY <1>1 DEF ItemsAreRead, ChunksAmong, ReaderTyped, Item
  <2>2. f \in [all -> Urls \X (1..MostChunks)]
    BY <1>3, <2>1, ChunkFacts
  <2>3. \A i, j \in items : i.url = j.url /\ i.chunk.part = j.chunk.part => i = j
    <3> SUFFICES ASSUME NEW i \in items, NEW j \in items, i.url = j.url,
                        i.chunk.part = j.chunk.part
                 PROVE  i = j
        OBVIOUS
    <3>1. i.chunk.body = j.chunk.body
      BY <1>1, <1>8, <2>1 DEF OneLeft, RoomForAll
    <3>2. i.chunk = j.chunk
      BY <2>1, <3>1, ChunkFacts
    <3> QED BY <2>1, <3>2 DEF ReaderTyped, Item
  <2>4. \A k, l \in all : f[k] = f[l] => k = l
    <3> SUFFICES ASSUME NEW k \in all, NEW l \in all, k.url = l.url,
                        k.chunk.part = l.chunk.part
                 PROVE  k = l
        OBVIOUS
    <3>1. PICK i \in items : /\ k = [i EXCEPT !.current = IsLatest(i)]
                             /\ k.url = i.url /\ k.chunk = i.chunk
      BY <1>3
    <3>2. PICK j \in items : /\ l = [j EXCEPT !.current = IsLatest(j)]
                             /\ l.url = j.url /\ l.chunk = j.chunk
      BY <1>3
    <3> QED BY <2>3, <3>1, <3>2
  <2>5. TopK \in Nat /\ Cardinality(Urls) * MostChunks <= TopK
    BY <1>8, ReaderAssumption DEF RoomForAll
  <2> HIDE DEF f, all
  <2>6. items' = all
    <3>1. Cut(all, TopK) = {all}
      BY <2>2, <2>4, <2>5, CutIsAll
    <3> QED BY <1>1, <3>1
  <2>7. ASSUME NEW c \in Owed(u) PROVE c \in Shown(u)'
    <3>1. PICK i \in items : i.chunk = c /\ i.url = u
      BY <1>1, <1>8, <2>7 DEF CalmIsKnown, Shown
    <3>2. [i EXCEPT !.current = IsLatest(i)] \in all
      BY DEF all
    <3>3. /\ [i EXCEPT !.current = IsLatest(i)].chunk = c
          /\ [i EXCEPT !.current = IsLatest(i)].url = u
      BY <3>1 DEF ReaderTyped, Item
    <3> QED BY <2>6, <3>2, <3>3 DEF Shown
  <2> QED BY <2>7
<1> QED BY <1>1, <1>2, <1>6, <1>7, <1>8 DEF Told, Ordinary, RoomForAll

LEMMA ListTells ==
    ASSUME Lake, NEW q \in Queries, ListDocuments(q), NEW u \in Urls
    PROVE  Told(u)'
<1> DEFINE newest == LatestAmong(q.filter)
           from == IF q.history THEN Rows \cap q.filter ELSE newest
           Entry(b) == [ItemOf(Whole(b)) EXCEPT !.current = b \in newest]
           all == {Entry(b) : b \in from}
<1>1. query' = q /\ q.op = "list" /\ UNCHANGED documents /\ items' \in Cut(all, TopK)
  BY DEF ListDocuments, vars
<1>2. CurrentBodies(u)' = CurrentBodies(u)
  BY <1>1 DEF CurrentBodies
<1> SUFFICES ASSUME CurrentBodies(u) \subseteq q.filter PROVE Told(u)'
    BY <1>1, <1>2 DEF Told
<1>3. \A b : /\ Entry(b).chunk = Whole(b) /\ Whole(b).body = b
             /\ Entry(b).url = documents[b].url
             /\ Entry(b).current = (b \in newest)
  BY DEF ItemOf, Whole, Chunk
<1>4. ASSUME NEW b \in newest, documents[b].url = u PROVE b \in CurrentBodies(u)
  <2>1. b \in Rows \cap q.filter /\ b \in Rows \cap Bodies
    BY DEF LatestAmong, Rows
  <2>2. PICK d \in LatestAmong(Bodies) : documents[d].url = u
    BY <1>4, <2>1, LatestThere
  <2>3. d \in CurrentBodies(u)
    BY <2>2, CurrentAreLatest DEF LatestRows
  <2>4. d \in Rows \cap q.filter
    BY <2>2, <2>3 DEF LatestAmong
  <2>5. documents[b].at <= documents[d].at /\ documents[d].at <= documents[b].at
    BY <1>4, <2>1, <2>2, <2>4 DEF LatestAmong
  <2>6. b = d
    BY <2>1, <2>4, <2>5, RowFacts, RowsApart, PipelineAssumption
  <2> QED BY <2>3, <2>6
<1>5. ASSUME NEW b \in CurrentBodies(u) PROVE b \in newest /\ documents[b].url = u
  BY <1>5 DEF CurrentBodies, LatestAmong, Rows
<1>6. items' \subseteq all
  BY <1>1, CutIsPart
<1> HIDE DEF newest, Entry
<1>7. ASSUME NEW i \in items', i.url = u, i.current PROVE i.chunk.body \in CurrentBodies(u)
  <2>1. PICK b \in from : i = Entry(b)
    BY <1>6
  <2>2. i.chunk.body = b /\ documents[b].url = u /\ b \in newest
    BY <1>3, <1>7, <2>1
  <2> QED BY <1>4, <2>2
<1>8. ~q.history => \A i \in items' : i.url = u => i.current
  BY <1>3, <1>6
<1>9. ASSUME ~q.history, RoomForAll PROVE Owed(u)' \subseteq Shown(u)'
  <2> DEFINE f == [i \in all |-> <<i.url, 1>>]
  <2>1. f \in [all -> Urls \X (1..MostChunks)]
    <3>1. \A i \in all : i.url \in Urls
      BY <1>3, <1>9, RowFacts DEF newest, LatestAmong
    <3> QED BY <3>1, ReaderAssumption
  <2>2. \A i, j \in all : f[i] = f[j] => i = j
    BY <1>3, <1>9, LatestOnce DEF newest
  <2>3. TopK \in Nat /\ Cardinality(Urls) * MostChunks <= TopK
    BY <1>9, ReaderAssumption DEF RoomForAll
  <2> HIDE DEF f, all
  <2>4. items' = all
    <3>1. Cut(all, TopK) = {all}
      BY <2>1, <2>2, <2>3, CutIsAll
    <3> QED BY <1>1, <3>1
  <2>5. ASSUME NEW b \in CurrentBodies(u) PROVE Whole(b) \in Shown(u)'
    <3>1. Entry(b) \in all /\ Entry(b).url = u /\ Entry(b).chunk = Whole(b)
      BY <1>3, <1>5, <1>9, <2>5 DEF all
    <3> QED BY <2>4, <3>1 DEF Shown
  <2>6. Owed(u)' \subseteq {Whole(b) : b \in CurrentBodies(u)}
    BY <1>1, <1>2 DEF Owed
  <2> QED BY <2>5, <2>6
<1>10. query'.history = q.history
  BY <1>1
<1> QED BY <1>1, <1>2, <1>7, <1>8, <1>9, <1>10 DEF Told, Ordinary, RoomForAll

LEMMA AllToldStep ==
    /\ Lake /\ ReaderTyped /\ ItemsAreRead /\ OneLeft /\ CalmIsKnown /\ AllTold
    /\ [ReaderNext]_readerVars
    => AllTold'
<1> SUFFICES ASSUME Lake, ReaderTyped, ItemsAreRead, OneLeft, CalmIsKnown, AllTold,
                    [ReaderNext]_readerVars, at' = "answered", NEW u \in calm'
             PROVE  Told(u)'
    BY DEF AllTold
<1>1. CASE UNCHANGED reader
  <2>a. WorkersMove \/ UNCHANGED <<vars, issued>>
    BY ReaderOnlyReads
  <2>b. WorkersMove \/ u \in calm
    BY <1>1, ReaderSteps
       DEF SelectStep, readerVars, reader, Ask, ListDocuments, Lexical, Semantic, LatestChunkIds,
           Hydrate, PreferLatest, MarkCurrent, Done
  <2>1. WorkersMove \/ (UNCHANGED <<vars, issued>> /\ u \in calm)
    BY <2>a, <2>b
  <2>2. u \in calm /\ CurrentBodies(u)' = CurrentBodies(u)
    BY <2>1, CalmStands
  <2> QED BY <1>1, <2>2 DEF AllTold, Told, Owed, Shown, Ordinary, RoomForAll, reader
<1>2. CASE MarkCurrent
  BY <1>2, MarkTells DEF MarkCurrent
<1>3. ASSUME NEW q \in Queries, ListDocuments(q) PROVE Told(u)'
  BY <1>3, ListTells DEF ListDocuments
<1> QED BY <1>1, <1>2, <1>3, ReaderSteps
        DEF SelectStep, readerVars, WorkersMove, Ask, Lexical, Semantic, LatestChunkIds, Hydrate,
            PreferLatest, Done

\* Of a URL whose rows stand still while a search runs, whatever the workers commit for
\* others, fail at or replay: an answer marks no older capture as current, an ordinary one
\* shows none, and it shows the current one if that qualifies and there is room for all.
THEOREM CurrentIsTold == ReaderSpec => []AnswerTellsCurrent
<1>1. ReaderInit => CalmIsKnown /\ AllTold
  BY DEF ReaderInit, CalmIsKnown, AllTold
<1>2. /\ Lake /\ OneEach /\ CalmIsKnown /\ AllTold /\ [ReaderNext]_readerVars
      => CalmIsKnown' /\ AllTold'
  BY CalmIsKnownStep, AllToldStep DEF OneEach
<1> QED BY <1>1, <1>2, InitOneEach, OneEachStep, AllToldTells, PTL DEF ReaderSpec

=============================================================================
