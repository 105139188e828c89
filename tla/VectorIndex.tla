---------------------------- MODULE VectorIndex ----------------------------
(***************************************************************************)
(* The two halves of search: rows and chunks that search.sqlite commits at *)
(* once, and vectors that live in the memory of a SearchStore and reach    *)
(* vectors.usearch later; and the searcher that reads both.                *)
(*                                                                         *)
(* A SearchStore is opened by the indexer, by the replay and compaction    *)
(* jobs and by "cli rebuild".  Each has an index of its own in memory; all *)
(* share vectors.usearch, its temporary file and vector-meta.json.         *)
(*                                                                         *)
(* Data abstracted: a document is a digest with so many chunks; a vector   *)
(* is the chunk id it is filed under, the document whose text it embeds    *)
(* and the model that made it.  Chunks are embedded one at a time.         *)
(***************************************************************************)
EXTENDS Integers, FiniteSets

CONSTANTS Stores,        \* the SearchStores that may be open at once
          Roles,         \* what each store may be opened for
          Docs,
          ChunksOf,      \* how many chunks each document has
          PersistEvery,  \* VECTOR_PERSIST_EVERY
          CompactEvery,  \* PARQUET_COMPACT_EVERY
          Models,        \* the embedding models are 1..Models, the first in use is 1
          MaxId,         \* bound on the chunk ids given out
          MaxFaults      \* bound on crashes and failed embeddings together

Ids == 1..MaxId
Vector == [id : Ids, doc : Docs, model : 1..Models]
Openings == {"start", "replay", "compact", "rebuild"}

ASSUME VectorAssumption == /\ Roles \in [Stores -> SUBSET Openings]
                           /\ ChunksOf \in [Docs -> Nat]
                           /\ PersistEvery \in Nat \ {0}
                           /\ CompactEvery \in Nat \ {0}
                           /\ Models \in Nat \ {0}
                           /\ MaxId \in Nat
                           /\ MaxFaults \in Nat

VARIABLES
  \* search.sqlite
  rows, chunks,  \* the documents, and the chunk ids of each
  lastId,        \* the AUTOINCREMENT counter of chunks
  \* the files
  file,          \* vectors.usearch; absent or unreadable it counts as empty
  tmp,           \* its temporary file: a set of one index, or of none
  meta,          \* the model vector-meta.json names, 0 if it cannot be read
  \* the processes
  store,         \* each SearchStore, see Store
  asking, cache, \* the searcher's model, and the index it has loaded
  model,         \* the model .env names
  faults,
  \* history
  shared,        \* whether two stores have ever been open at once
  torn,          \* whether one has died between the index and the meta file of a save,
                 \* while the meta file named another model
  changed        \* whether the model was ever changed

sqlite == <<rows, chunks, lastId>>
files == <<file, tmp, meta>>
searcher == <<asking, cache>>
history == <<shared, torn, changed>>
vars == <<sqlite, files, store, searcher, model, faults, history>>

Places == {"down", "compact", "clear", "unlink", "next", "idle", "embed", "count", "save",
           "swap", "meta", "write", "compacted", "stop"}
Returns == {"down", "count", "next", "compacted", "stop"}

\* The roles are the openings, and "serve" for an indexer past its startup replay.
Store == [at : Places,
          role : Openings \cup {"serve"},
          after : Returns,           \* where it goes after a save
          mem : SUBSET Vector,       \* its index
          using : 1..Models,         \* the model it embeds with
          todo : SUBSET Vector,      \* what the document in hand still needs
          queue : SUBSET Docs,       \* what a replay or rebuild has left
          counted : BOOLEAN,         \* whether a replay has indexed any
          since : Nat, dirty : BOOLEAN,  \* _docs_since_persist, _dirty_vectors
          uncompacted : Nat]         \* _docs_since_compact

Down == [at |-> "down", role |-> "start", after |-> "down", mem |-> {}, using |-> 1,
         todo |-> {}, queue |-> {}, counted |-> FALSE, since |-> 0, dirty |-> FALSE,
         uncompacted |-> 0]

At(p, place) == store[p].at = place
Becomes(p, s) == store' = [store EXCEPT ![p] = s]
-----------------------------------------------------------------------------
Init ==
    /\ rows = {} /\ chunks = [d \in Docs |-> {}] /\ lastId = 0
    /\ file = {} /\ tmp = {} /\ meta = 0
    /\ store = [p \in Stores |-> Down]
    /\ asking = 1 /\ cache = {}
    /\ model = 1 /\ faults = 0
    /\ shared = FALSE /\ torn = FALSE /\ changed = FALSE
-----------------------------------------------------------------------------
(* SearchStore.__init__, and what each opener does first. *)

\* Mutant: the meta file is not compared.
LoadAny(m) == file

\* Mutant: a store starts with an empty index.
LoadNothing(m) == {}

Load(m) == IF meta = m THEN file ELSE {}

FirstPlace(r) == CASE r = "rebuild" -> "clear"
                   [] r = "compact" -> "compact"
                   [] OTHER -> "next"

\* index_missing lists the documents without a row.
Missing(r) == IF r \in {"start", "replay"} THEN Docs \ rows ELSE {}

Open(p, r) ==
    /\ At(p, "down")
    /\ r \in Roles[p]
    /\ Becomes(p, [Down EXCEPT !.at = FirstPlace(r), !.role = r, !.using = model,
                               !.mem = Load(model), !.queue = Missing(r)])
    /\ shared' = (shared \/ \E q \in Stores \ {p} : ~At(q, "down"))
    /\ UNCHANGED <<sqlite, files, searcher, model, faults, torn, changed>>

\* job_parquet_compact: flush, in a store that was opened a moment ago, then Parquet.
Compact(p) ==
    /\ At(p, "compact")
    /\ Becomes(p, Down)
    /\ UNCHANGED <<sqlite, files, searcher, model, faults, history>>

\* rebuild: the tables are emptied and the index is new, then the file goes.
Clear(p) ==
    /\ At(p, "clear")
    /\ rows' = {} /\ chunks' = [d \in Docs |-> {}]
    /\ Becomes(p, [store[p] EXCEPT !.at = "unlink", !.mem = {}])
    /\ UNCHANGED <<lastId, files, searcher, model, faults, history>>

Unlink(p) ==
    /\ At(p, "unlink")
    /\ file' = {}
    /\ Becomes(p, [store[p] EXCEPT !.at = "next", !.queue = Docs])
    /\ UNCHANGED <<sqlite, tmp, meta, searcher, model, faults, history>>
-----------------------------------------------------------------------------
(* index_normalized. *)

\* Mutant: without AUTOINCREMENT the ids start again above those in use.
ReusedIds(d) == LET inUse == UNION {chunks[e] : e \in Docs \ {d}}
                    top == CHOOSE n \in 0..MaxId : /\ \A i \in inUse : i <= n
                                                   /\ n = 0 \/ n \in inUse
                IN  top + 1 .. top + ChunksOf[d]

\* Mutant: the first id is the counter itself.
IdsFromCounter(d) == lastId .. lastId + ChunksOf[d] - 1

FreshIds(d) == lastId + 1 .. lastId + ChunksOf[d]

\* Where a store goes between documents.
Between(s) == IF s.role = "serve" THEN "idle" ELSE "next"

\* An event may name any document, again and again; a loop goes through its own.
Wanted(p) == CASE At(p, "idle") -> Docs
               [] At(p, "next") -> store[p].queue
               [] OTHER -> {}

\* Old vectors leave the index, one transaction replaces row and chunks.
IndexDoc(p, d) ==
    /\ d \in Wanted(p)
    /\ lastId + ChunksOf[d] <= MaxId
    /\ rows' = rows \cup {d}
    /\ chunks' = [chunks EXCEPT ![d] = FreshIds(d)]
    /\ lastId' = lastId + ChunksOf[d]
    /\ Becomes(p, [store[p] EXCEPT
         !.at = IF ChunksOf[d] = 0 THEN "count" ELSE "embed",
         !.mem = {v \in @ : v.id \notin chunks[d]},
         !.todo = {[id |-> i, doc |-> d, model |-> store[p].using] : i \in FreshIds(d)},
         !.queue = @ \ {d}])
    /\ UNCHANGED <<files, searcher, model, faults, history>>

\* The chunks get their vectors in order.
NextVector(s) == {v \in s.todo : \A w \in s.todo : v.id <= w.id}

Embed(p) ==
    /\ At(p, "embed")
    /\ \E v \in NextVector(store[p]) :
          /\ store[p].todo # {v}
          /\ Becomes(p, [store[p] EXCEPT !.mem = @ \cup {v}, !.todo = @ \ {v}])
    /\ UNCHANGED <<sqlite, files, searcher, model, faults, history>>

\* Mutant: the count of documents since the last save is not kept.
TallyLost(s) == [s EXCEPT !.dirty = TRUE]

Tally(s) == [s EXCEPT !.dirty = TRUE, !.since = @ + 1]

\* A save ends at the place it was asked for.
SaveThen(s, place) == [s EXCEPT !.at = "save", !.after = place]

\* After the last vector of a document the index may be due for a save.
EmbedLast(p) ==
    /\ At(p, "embed")
    /\ \E v \in store[p].todo :
          LET s == Tally([store[p] EXCEPT !.mem = @ \cup {v}, !.todo = {}])
          IN  /\ store[p].todo = {v}
              /\ Becomes(p, IF s.since >= PersistEvery
                            THEN SaveThen(s, "count") ELSE [s EXCEPT !.at = "count"])
    /\ UNCHANGED <<sqlite, files, searcher, model, faults, history>>

\* A document is indexed; in the indexer it may be the one that brings a flush.
Count(p) ==
    /\ At(p, "count")
    /\ LET n == store[p].uncompacted + 1
           due == store[p].role = "serve" /\ n >= CompactEvery
           s == [store[p] EXCEPT !.counted = TRUE]
       IN  Becomes(p, IF due /\ s.dirty
                      THEN SaveThen(s, "compacted")
                      ELSE [s EXCEPT !.at = Between(s), !.uncompacted = IF due THEN 0 ELSE n])
    /\ UNCHANGED <<sqlite, files, searcher, model, faults, history>>

Compacted(p) ==
    /\ At(p, "compacted")
    /\ Becomes(p, [store[p] EXCEPT !.at = "idle", !.uncompacted = 0])
    /\ UNCHANGED <<sqlite, files, searcher, model, faults, history>>

\* The end of a replay or rebuild flushes what it has indexed.
FlushLoop(p) ==
    /\ At(p, "next")
    /\ store[p].queue = {}
    /\ store[p].dirty
    /\ store[p].counted \/ store[p].role = "rebuild"
    /\ Becomes(p, SaveThen(store[p], "next"))
    /\ UNCHANGED <<sqlite, files, searcher, model, faults, history>>

\* After it the indexer serves, and a job or rebuild is over.
LeaveLoop(s) == IF s.role = "start" THEN [s EXCEPT !.at = "idle", !.role = "serve"] ELSE Down

EndLoop(p) ==
    /\ At(p, "next")
    /\ store[p].queue = {}
    /\ store[p].dirty => ~store[p].counted /\ store[p].role # "rebuild"
    /\ Becomes(p, LeaveLoop(store[p]))
    /\ UNCHANGED <<sqlite, files, searcher, model, faults, history>>

\* Mutant: the consumer leaves without the flush.
StopUnsaved(s) == Down

\* The consumer fails: main_async flushes on its way out.
Leaving(s) == IF s.dirty THEN SaveThen(s, "stop") ELSE Down

Stop(p) ==
    /\ At(p, "idle")
    /\ Becomes(p, Leaving(store[p]))
    /\ UNCHANGED <<sqlite, files, searcher, model, faults, history>>

Stopped(p) ==
    /\ At(p, "stop")
    /\ Becomes(p, Down)
    /\ UNCHANGED <<sqlite, files, searcher, model, faults, history>>
-----------------------------------------------------------------------------
(* _persist_index: temporary file, os.replace, then the meta file. *)

\* Two that write the same temporary file at once may leave nothing that can be read.
Spoilt(p) == IF \E q \in Stores \ {p} : At(q, "swap") THEN {{}} ELSE {}

Save(p) ==
    /\ At(p, "save")
    /\ \E f \in {store[p].mem} \cup Spoilt(p) : tmp' = {f}
    /\ Becomes(p, [store[p] EXCEPT !.at = "swap"])
    /\ UNCHANGED <<sqlite, file, meta, searcher, model, faults, history>>

Swap(p) ==
    /\ At(p, "swap")
    /\ file' \in tmp
    /\ tmp' = {}
    /\ Becomes(p, [store[p] EXCEPT !.at = "meta"])
    /\ UNCHANGED <<sqlite, meta, searcher, model, faults, history>>

\* write_text truncates the meta file, then fills it.
TruncateMeta(p) ==
    /\ At(p, "meta")
    /\ meta' = 0
    /\ Becomes(p, [store[p] EXCEPT !.at = "write"])
    /\ UNCHANGED <<sqlite, file, tmp, searcher, model, faults, history>>

WriteMeta(p) ==
    /\ At(p, "write")
    /\ meta' = store[p].using
    /\ Becomes(p, [store[p] EXCEPT !.at = store[p].after, !.since = 0, !.dirty = FALSE])
    /\ UNCHANGED <<sqlite, file, tmp, searcher, model, faults, history>>
-----------------------------------------------------------------------------
(* Failures. *)

\* Embedding fails: a nak, the next item of index_missing, or the end of rebuild.
EmbedFails(p) ==
    /\ At(p, "embed")
    /\ faults < MaxFaults
    /\ faults' = faults + 1
    /\ Becomes(p, IF store[p].role = "rebuild" THEN Down
                  ELSE [store[p] EXCEPT !.at = Between(store[p]), !.todo = {}])
    /\ UNCHANGED <<sqlite, files, searcher, model, history>>

\* A save that raises ends a document, a loop or the process.
AfterFailedSave(s) ==
    CASE s.after = "stop" \/ s.role = "rebuild" -> Down
      [] s.after = "next" -> LeaveLoop(s)
      [] OTHER -> [s EXCEPT !.at = Between(s)]

\* Another store has moved the shared temporary file away.
SwapFails(p) ==
    /\ At(p, "swap")
    /\ tmp = {}
    /\ Becomes(p, AfterFailedSave(store[p]))
    /\ UNCHANGED <<sqlite, files, searcher, model, faults, history>>

Crash(p) ==
    /\ ~At(p, "down")
    /\ faults < MaxFaults
    /\ faults' = faults + 1
    /\ Becomes(p, Down)
    /\ torn' = (torn \/ (At(p, "meta") /\ meta \notin {0, store[p].using}))
    /\ UNCHANGED <<sqlite, files, searcher, model, shared, changed>>
-----------------------------------------------------------------------------
(* The searcher, and the operator. *)

\* A change of vectors.usearch makes the searcher load it, unless the models differ.
LoadIndex ==
    /\ meta = asking
    /\ cache' = file
    /\ UNCHANGED <<sqlite, files, store, asking, model, faults, history>>

\* The API restarts with the model of the day.
RestartSearcher ==
    /\ asking' = model
    /\ cache' = {}
    /\ UNCHANGED <<sqlite, files, store, model, faults, history>>

\* EMBEDDING_MODEL is set to another name, be it one that was in use before.
ChangeModel ==
    /\ model' \in 1..Models \ {model}
    /\ changed' = TRUE
    /\ UNCHANGED <<sqlite, files, store, searcher, faults, shared, torn>>
-----------------------------------------------------------------------------
StoreStep(p) ==
    \/ \E r \in Openings : Open(p, r)
    \/ Compact(p) \/ Clear(p) \/ Unlink(p)
    \/ \E d \in Docs : IndexDoc(p, d)
    \/ Embed(p) \/ EmbedLast(p) \/ Count(p) \/ Compacted(p)
    \/ FlushLoop(p) \/ EndLoop(p) \/ Stop(p) \/ Stopped(p)
    \/ Save(p) \/ Swap(p) \/ TruncateMeta(p) \/ WriteMeta(p)
    \/ EmbedFails(p) \/ SwapFails(p) \/ Crash(p)

Next == \/ \E p \in Stores : StoreStep(p)
        \/ LoadIndex \/ RestartSearcher \/ ChangeModel

Spec == Init /\ [][Next]_vars
-----------------------------------------------------------------------------
TypeOK ==
    /\ rows \subseteq Docs
    /\ chunks \in [Docs -> SUBSET Ids]
    /\ lastId \in 0..MaxId
    /\ file \subseteq Vector
    /\ tmp \subseteq SUBSET Vector
    /\ meta \in 0..Models
    /\ store \in [Stores -> Store]
    /\ asking \in 1..Models
    /\ cache \subseteq Vector
    /\ model \in 1..Models
    /\ shared \in BOOLEAN /\ torn \in BOOLEAN /\ changed \in BOOLEAN
    /\ faults \in 0..MaxFaults

\* The indexes a search or a save may come from.
Indexes == {store[p].mem : p \in Stores} \cup tmp \cup {file, cache}

\* A vector whose id is that of a chunk embeds the text of that chunk, however old the index
\* it comes from and whoever wrote it: _hydrate looks the id up in the chunks of today.
VectorsTellTheirText ==
    \A index \in Indexes : \A v \in index : \A d \in Docs :
        v.id \in chunks[d] => v.doc = d

Embedded(index, d) == chunks[d] \subseteq {v.id : v \in index}

\* VECTOR_PERSIST_EVERY bounds what a crash can cost: the documents whose vectors are in
\* memory alone are no more than the store has counted since it last saved.
AtRisk(p) == {d \in rows : Embedded(store[p].mem, d) /\ ~Embedded(file, d)}

SaveLagBounded ==
    ~shared => \A p \in Stores : ~At(p, "down") =>
                  /\ Cardinality(AtRisk(p)) <= store[p].since
                  /\ store[p].since <= PersistEvery

\* README, "Never mix vectors generated by different embedding models in one index": the
\* check of the model in _load_or_new_index keeps a store from adding to another's, however
\* the operator changes the model and returns to it.  It cannot where the meta file is wrong:
\* a save replaces the index first, and one that dies then leaves the old name over it.
NeverMixed ==
    ~shared /\ ~torn => /\ \A p \in Stores : \A v \in store[p].mem : v.model = store[p].using
                        /\ \A v, w \in file : v.model = w.model

\* While a store of the model that the meta file names is open, a save drops no document
\* from the disk that is still in search as it was.  A store of another model does: it has
\* begun with an empty index, and its first save replaces all.
SavedSurvive ==
    [][~shared' /\ (\A p \in Stores : At(p, "down") \/ store[p].using = meta) =>
         \A d \in rows : Embedded(file, d) /\ chunks'[d] = chunks[d] => Embedded(file, d)']_vars

\* As long as nothing fails and the model stays, every document of search has its vectors
\* once its handler is done: orderly stops, replays, rebuilds and restarts forget none.
NothingForgotten ==
    faults = 0 /\ ~changed /\ ~shared =>
        \A p \in Stores : At(p, "idle") => \A d \in rows : Embedded(store[p].mem, d)

-----------------------------------------------------------------------------
(* What VectorIndexProofs adds to these to make them inductive. *)

\* Ids are not given out twice: no vector is filed above the counter.
Honest(index) == \A v \in index : /\ v.id <= lastId
                                  /\ \A d \in Docs : v.id \in chunks[d] => v.doc = d

AllHonest == /\ \A p \in Stores : Honest(store[p].mem) /\ Honest(store[p].todo)
             /\ \A f \in tmp : Honest(f)
             /\ Honest(file) /\ Honest(cache)
             /\ \A d \in Docs : chunks[d] \subseteq 1..lastId

MadeBy(m, index) == \A v \in index : v.model = m

OneAtATime == ~shared => \A p, q \in Stores : p # q => At(p, "down") \/ At(q, "down")

\* A store alone: all that it has is of its model, and so is what it puts on the disk; the
\* meta file is right about the index but for the time between the two writes of a save.
ModelsNamed ==
    ~shared /\ ~torn =>
        /\ \A p \in Stores : /\ MadeBy(store[p].using, store[p].mem)
                             /\ MadeBy(store[p].using, store[p].todo)
                             /\ At(p, "swap") => \A f \in tmp : MadeBy(store[p].using, f)
                             /\ store[p].at \in {"meta", "write"}
                                    => MadeBy(store[p].using, file)
        /\ meta # 0 => MadeBy(meta, file) \/ \E p \in Stores : At(p, "meta")
        /\ \A v, w \in file : v.model = w.model

\* All is of the first model until the model is changed.
FirstModel == ~changed => model = 1 /\ \A p \in Stores : store[p].using = 1

\* A store alone: what its document in hand still needs is not yet in its index, and at each
\* step of a save the files hold what the step before has put there.
Orderly(s) ==
    /\ s.at # "embed" => s.todo = {}
    /\ \A v \in s.todo : v.id \in chunks[v.doc] /\ \A w \in s.mem : w.id # v.id
    /\ \A v, w \in s.todo : v.doc = w.doc /\ (v.id = w.id => v = w)
    /\ s.at = "swap" => tmp = {s.mem}
    /\ s.at \in {"meta", "write"} => file = s.mem
    /\ s.at = "unlink" => rows = {} /\ s.mem = {}

\* The counter stays below PERSIST_EVERY but for the time of the save that this brings.
Saving == {"save", "swap", "meta", "write"}
Counted(s) == s.since <= PersistEvery /\ (s.at \notin Saving => s.since < PersistEvery)

\* The dirty flag: up through every save, down where the index is as the file has it, and
\* in a loop up only where its end flushes.
Flagged(s) ==
    /\ s.at \in Saving => s.dirty
    /\ s.at \in {"compact", "clear", "unlink", "compacted", "stop"} => ~s.dirty
    /\ s.dirty /\ (s.at = "next" \/ (s.at \in {"idle", "embed"} /\ s.role # "serve"))
           => s.counted \/ s.role = "rebuild"

StoresOrderly == ~shared => \A p \in Stores : ~At(p, "down") =>
                              Orderly(store[p]) /\ Counted(store[p]) /\ Flagged(store[p])

\* The index of a store that began with the file has the documents the file has.
FileKept == ~shared => \A p \in Stores : ~At(p, "down") /\ meta = store[p].using =>
                \A d \in rows : Embedded(file, d) => Embedded(store[p].mem, d)

\* Without a failure: a document is in the index but for what is in hand, and in the file as a
\* store of the first model would load it wherever no store has news of its own.
AllLoaded == \A d \in rows : Embedded(Load(1), d)

NoneForgotten ==
    faults = 0 /\ ~changed /\ ~shared =>
        /\ \A p \in Stores : ~At(p, "down") =>
              /\ \A d \in rows : Embedded(store[p].mem \cup store[p].todo, d)
              /\ ~store[p].dirty /\ ~At(p, "embed") => AllLoaded
        /\ (\A p \in Stores : At(p, "down")) => AllLoaded
=============================================================================
