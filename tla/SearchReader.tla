---------------------------- MODULE SearchReader ----------------------------
(***************************************************************************)
(* A reader of search.sqlite beside the workers of Pipeline: one query or  *)
(* listing at a time, in an API thread.  search() is six SELECTs and the   *)
(* vector index, and documents are committed between any two of them; a    *)
(* listing is one SELECT.                                                  *)
(*                                                                         *)
(* Data abstracted: a chunk is a body and a number, and its id is new each *)
(* time the document is indexed; scores and order are left out, so a LIMIT *)
(* or a cut to top_k keeps any chunks that are that many.                  *)
(***************************************************************************)
EXTENDS Pipeline, FiniteSetsExt

CONSTANTS Queries,     \* what is asked, see Query
          ChunksOf,    \* the number of chunks a body is cut into
          MostChunks,  \* the bound of these
          Window,      \* candidate_k
          TopK         \* top_k, of an answer and of a page

Chunk(b, n) == [body |-> b, part |-> n]
Chunks == UNION {{Chunk(b, n) : n \in 1..ChunksOf[b]} : b \in Bodies}

\* The chunks that match the words and the bodies that pass the filters; history also
\* for a query by hash.
Query == [op : {"search", "list"}, words : SUBSET Chunks, filter : SUBSET Bodies,
          history : BOOLEAN]

ASSUME ReaderAssumption == /\ MostChunks \in Nat \ {0}
                           /\ ChunksOf \in [Bodies -> 0..MostChunks]
                           /\ Queries \subseteq Query
                           /\ Window \in Nat /\ TopK \in Nat /\ TopK <= Window
                           /\ IsFiniteSet(Urls)

VARIABLES
  issued,     \* how often a body was indexed: the newest ids of its chunks
  at,         \* the SELECT the reader is at
  query,
  lexical, semantic,  \* the chunk ids ranked so far
  items,      \* the chunks hydrated, or the documents listed
  calm        \* URLs none of whose rows was written since the reader asked

reader == <<at, query, lexical, semantic, items>>
readerVars == <<vars, reader, issued, calm>>

Rows == {b \in Bodies : documents[b] # None}
ChunksAmong(S) == {c \in Chunks : c.body \in S}
IdOf(c) == [chunk |-> c, no |-> issued[c.body]]
Issued == UNION {{[chunk |-> c, no |-> n] : n \in 1..issued[c.body]} : c \in Chunks}

\* The rows of latest captures among those that pass a filter.
LatestAmong(S) ==
    {b \in Rows \cap S :
        \A d \in Rows \cap S : documents[d].url = documents[b].url
                                => documents[d].at <= documents[b].at}
LatestRows == LatestAmong(Bodies)

\* What a LIMIT of n leaves of S.
Cut(S, n) == IF Cardinality(S) <= n THEN {S} ELSE kSubset(n, S)
-----------------------------------------------------------------------------
ReaderInit ==
    /\ Init
    /\ issued = [b \in Bodies |-> 0]
    /\ at = "idle"
    /\ query \in Queries
    /\ lexical = {} /\ semantic = {} /\ items = {}
    /\ calm = {}

Ask(q) ==
    /\ at = "idle"
    /\ q.op = "search"
    /\ query' = q
    /\ at' = "lexical"
    /\ lexical' = {} /\ semantic' = {} /\ items' = {}
    /\ calm' = Urls
    /\ UNCHANGED <<vars, issued>>

\* Mutant: the window is cut among all captures.
LexicalCutFirst ==
    /\ at = "lexical"
    /\ \E S \in Cut(query.words \cap ChunksAmong(Rows), Window) :
          lexical' = {IdOf(c) : c \in S \cap ChunksAmong(IF query.history THEN Rows
                                                                        ELSE LatestRows)}
    /\ at' = "semantic"
    /\ UNCHANGED <<vars, issued, query, semantic, items, calm>>

\* Current captures are selected before the window is cut.
Lexical ==
    /\ at = "lexical"
    /\ \E S \in Cut(query.words \cap ChunksAmong(IF query.history THEN Rows ELSE LatestRows),
                    Window) :
          lexical' = {IdOf(c) : c \in S}
    /\ at' = "semantic"
    /\ UNCHANGED <<vars, issued, query, semantic, items, calm>>

\* The vectors of an index file saved at some time, or none at all: ids of chunks
\* since deleted among them.
Semantic ==
    /\ at = "semantic"
    /\ \E S \in SUBSET Issued :
          /\ Cardinality(S) <= (IF query.history THEN 4 * Window ELSE Window)
          /\ semantic' = S
    /\ at' = IF query.history THEN "hydrate" ELSE "latest"
    /\ UNCHANGED <<vars, issued, query, lexical, items, calm>>

LatestChunkIds ==
    /\ at = "latest"
    /\ semantic' = semantic \cap {IdOf(c) : c \in ChunksAmong(LatestRows)}
    /\ at' = "hydrate"
    /\ UNCHANGED <<vars, issued, query, lexical, items, calm>>

ItemOf(c) == [chunk |-> c, url |-> documents[c.body].url, current |-> FALSE]

\* Chunks that are gone are dropped, then what the filters refuse.
Hydrate ==
    /\ at = "hydrate"
    /\ items' = {ItemOf(c) : c \in {d \in ChunksAmong(Rows \cap query.filter) :
                                      IdOf(d) \in lexical \cup semantic}}
    /\ at' = IF query.history THEN "mark" ELSE "prefer"
    /\ UNCHANGED <<vars, issued, query, lexical, semantic, calm>>

\* A URL that has no row any more speaks for whatever it is asked about.
IsLatest(i) == LET rows == {b \in LatestRows : documents[b].url = i.url}
               IN  rows = {} \/ i.chunk.body \in rows

\* Mutant: what was current when it was ranked is.
PreferRanked ==
    /\ at = "prefer"
    /\ at' = "mark"
    /\ UNCHANGED <<vars, issued, query, lexical, semantic, items, calm>>

PreferLatest ==
    /\ at = "prefer"
    /\ items' = {i \in items : IsLatest(i)}
    /\ at' = "mark"
    /\ UNCHANGED <<vars, issued, query, lexical, semantic, calm>>

MarkCurrent ==
    /\ at = "mark"
    /\ items' \in Cut({[i EXCEPT !.current = IsLatest(i)] : i \in items}, TopK)
    /\ at' = "answered"
    /\ UNCHANGED <<vars, issued, query, lexical, semantic, calm>>

\* A document as list_documents shows it.
Whole(b) == Chunk(b, 0)

\* list_documents: the filter is part of the window over which captures are ranked.
ListDocuments(q) ==
    /\ at = "idle"
    /\ q.op = "list"
    /\ query' = q
    /\ LET newest == LatestAmong(q.filter)
       IN  items' \in Cut({[ItemOf(Whole(b)) EXCEPT !.current = b \in newest] :
                             b \in IF q.history THEN Rows \cap q.filter ELSE newest}, TopK)
    /\ at' = "answered"
    /\ lexical' = {} /\ semantic' = {}
    /\ calm' = Urls
    /\ UNCHANGED <<vars, issued>>

Done ==
    /\ at = "answered"
    /\ at' = "idle"
    /\ lexical' = {} /\ semantic' = {} /\ items' = {}
    /\ calm' = {}
    /\ UNCHANGED <<vars, issued, query>>
-----------------------------------------------------------------------------
\* The bodies this step indexes.
Indexing == {hand[p].body : p \in {q \in Replayers : Commit(q)}}

\* A step of the workers; chunks get new ids when their document is indexed.
WorkersMove ==
    /\ Next
    /\ issued' = [b \in Bodies |-> IF b \in Indexing THEN issued[b] + 1 ELSE issued[b]]
    /\ calm' = {u \in calm : \A b \in Indexing : documents'[b].url # u
                                 /\ (b \in Rows => documents[b].url # u)}
    /\ UNCHANGED reader

ReaderNext == \/ WorkersMove
              \/ \E q \in Queries : Ask(q) \/ ListDocuments(q)
              \/ Lexical \/ Semantic \/ LatestChunkIds
              \/ Hydrate \/ PreferLatest \/ MarkCurrent
              \/ Done

ReaderSpec == ReaderInit /\ [][ReaderNext]_readerVars
-----------------------------------------------------------------------------
\* Whatever is committed between the SELECTs of a search, an ordinary answer shows chunks
\* of one document of a URL, and any answer marks one of its captures as current.  A URL
\* that shares bytes may lose its row to the other while the search runs.
OnePerUrl ==
    at = "answered" =>
        \A i, j \in items :
            /\ i.url = j.url /\ OwnBytes(i.url)
            /\ query.history => i.current /\ j.current
            => i.chunk.body = j.chunk.body

\* What an ordinary answer owes of a URL: the chunks of its current capture that match, or
\* the document, where it passes the filters.
Owed(u) == LET due == CurrentBodies(u) \cap query.filter
           IN  IF query.op = "search" THEN {c \in query.words : c.body \in due}
                                      ELSE {Whole(b) : b \in due}
Shown(u) == {i.chunk : i \in {j \in items : j.url = u}}

\* No URL takes another's row, and there is room for each, however many chunks its current
\* capture has: candidate_k and top_k count chunks.
RoomForAll == Cardinality(Urls) * MostChunks <= TopK /\ \A u \in Urls : OwnBytes(u)

\* Of a URL whose rows stand still while a search runs, an ordinary answer shows the current
\* capture, every chunk of it that matches, if it passes and the chunks of all current
\* captures have room, and nothing else, however many chunks of older captures match and
\* whatever the vectors say; a listing does where the current capture passes its filter, and
\* history shows older ones but marks none of them.
AnswerTellsCurrent ==
    at = "answered" =>
        \A u \in calm :
            LET shown == {c.body : c \in Shown(u)}
                marked == {i.chunk.body : i \in {j \in items : j.url = u /\ j.current}}
                asked == query.op = "search" \/ CurrentBodies(u) \subseteq query.filter
            IN  asked => /\ marked \subseteq CurrentBodies(u)
                         /\ ~query.history => shown = marked
                         /\ ~query.history /\ RoomForAll => Owed(u) \subseteq Shown(u)
-----------------------------------------------------------------------------
(* What SearchReaderProofs adds to these to make them inductive. *)

Selects == {"lexical", "semantic", "latest", "hydrate", "prefer", "mark"}
Item == [chunk : [body : Bodies, part : 0..MostChunks], url : Urls, current : BOOLEAN]

ReaderTyped ==
    /\ issued \in [Bodies -> Nat]
    /\ at \in Selects \cup {"idle", "answered"}
    /\ query \in Query
    /\ items \subseteq Item
    /\ calm \subseteq Urls
    /\ at \in Selects => query.op = "search"
    /\ at = "prefer" => ~query.history

\* Before it is marked an item is as it was read from a row, which is still there.
ItemsAreRead ==
    at \in {"prefer", "mark"} => \A i \in items : /\ ~i.current
                                                  /\ i.chunk \in ChunksAmong(Rows)
                                                  /\ i.chunk.body \in Serves[i.url]

Ordinary == ~query.history

\* PreferLatest leaves one document of a URL.
OneLeft ==
    at = "mark" /\ Ordinary =>
        \A i, j \in items : i.url = j.url /\ OwnBytes(i.url) => i.chunk.body = j.chunk.body

\* Of a URL whose rows stand still, what was ranked and what was read are still so.
CalmIsKnown ==
    \A u \in calm :
        /\ at \in {"semantic", "latest", "hydrate"} /\ Ordinary /\ RoomForAll =>
              \A c \in query.words : c.body \in CurrentBodies(u) => IdOf(c) \in lexical
        /\ at \in {"prefer", "mark"} =>
              \A i \in items : i.url = u => documents[i.chunk.body].url = u
        /\ at \in {"prefer", "mark"} /\ Ordinary /\ RoomForAll => Owed(u) \subseteq Shown(u)
        /\ at = "mark" /\ Ordinary =>
              \A i \in items : i.url = u => i.chunk.body \in CurrentBodies(u)
=============================================================================
