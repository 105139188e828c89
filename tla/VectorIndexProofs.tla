-------------------------- MODULE VectorIndexProofs --------------------------
(***************************************************************************)
(* The invariants of VectorIndex, for any number of stores, documents and  *)
(* models and any failures: types; that every vector tells the text of the *)
(* chunk it is filed under, however stores and files overwrite each other; *)
(* that one store after another keeps the vectors of models apart, is at   *)
(* risk of no more documents than it counts and loses none that it saved;  *)
(* and that without failures no row's vectors are forgotten.               *)
(***************************************************************************)
EXTENDS VectorIndex, FiniteSetTheorems, TLAPS

LEMMA DownTyped == Down \in Store
BY VectorAssumption DEF Down, Store, Places, Returns, Openings, Vector

LEMMA BecomesTyped ==
    ASSUME store \in [Stores -> Store], NEW p \in Stores, NEW s \in Store, Becomes(p, s)
    PROVE  store' \in [Stores -> Store]
BY DEF Becomes

LEMMA InitTyped == Init => TypeOK
<1> SUFFICES ASSUME Init PROVE TypeOK
    OBVIOUS
<1>1. store \in [Stores -> Store]
  BY DownTyped DEF Init
<1>2. chunks \in [Docs -> SUBSET Ids] /\ rows \subseteq Docs /\ lastId \in 0..MaxId
  BY VectorAssumption DEF Init
<1>3. meta \in 0..Models /\ asking \in 1..Models /\ model \in 1..Models /\ faults \in 0..MaxFaults
  BY VectorAssumption DEF Init
<1>4. file \subseteq Vector /\ tmp \subseteq SUBSET Vector /\ cache \subseteq Vector
  BY DEF Init
<1> QED BY <1>1, <1>2, <1>3, <1>4 DEF Init, TypeOK

LEMMA SaveThenTyped ==
    ASSUME NEW s \in Store, NEW place \in Returns
    PROVE  SaveThen(s, place) \in Store
BY DEF SaveThen, Store, Places

LEMMA LeaveLoopTyped ==
    ASSUME NEW s \in Store
    PROVE  LeaveLoop(s) \in Store
<1>1. [s EXCEPT !.at = "idle", !.role = "serve"] \in Store
  BY DEF Store, Places
<1> QED BY <1>1, DownTyped DEF LeaveLoop

LEMMA TallyTyped ==
    ASSUME NEW s \in Store
    PROVE  Tally(s) \in Store
<1>1. s.since + 1 \in Nat /\ TRUE \in BOOLEAN
  BY DEF Store
<1>2. [s EXCEPT !.dirty = TRUE] \in Store
  BY DEF Store
<1>3. Tally(s) = [[s EXCEPT !.dirty = TRUE] EXCEPT !.since = s.since + 1]
  BY DEF Tally, Store
<1> QED BY <1>1, <1>2, <1>3 DEF Store

LEMMA BetweenPlace ==
    ASSUME NEW s
    PROVE  Between(s) \in Places
BY DEF Between, Places

\* One operation of one store keeps the types.
LEMMA StoreStepTyped ==
    ASSUME TypeOK, NEW p \in Stores, StoreStep(p)
    PROVE  TypeOK'
<1> USE VectorAssumption
<1>0. store[p] \in Store /\ store \in [Stores -> Store]
  BY DEF TypeOK
<1>1. ASSUME NEW r \in Openings, Open(p, r) PROVE TypeOK'
  <2>1. [Down EXCEPT !.at = FirstPlace(r), !.role = r, !.using = model,
                     !.mem = Load(model), !.queue = Missing(r)] \in Store
    BY DownTyped DEF TypeOK, Store, Places, FirstPlace, Load, Missing
  <2>2. store' \in [Stores -> Store]
    BY <1>0, <1>1, <2>1, BecomesTyped DEF Open
  <2> QED BY <1>1, <2>2 DEF TypeOK, Open, sqlite, files, searcher, history
<1>2. CASE Compact(p)
  BY <1>0, <1>2, DownTyped, BecomesTyped DEF TypeOK, Compact, sqlite, files, searcher, history
<1>3. CASE Clear(p)
  <2>1. [store[p] EXCEPT !.at = "unlink", !.mem = {}] \in Store
    BY <1>0 DEF Store, Places
  <2> QED BY <1>0, <1>3, <2>1, BecomesTyped DEF TypeOK, Clear, files, searcher, history
<1>4. CASE Unlink(p)
  <2>1. [store[p] EXCEPT !.at = "next", !.queue = Docs] \in Store
    BY <1>0 DEF Store, Places
  <2> QED BY <1>0, <1>4, <2>1, BecomesTyped DEF TypeOK, Unlink, sqlite, searcher, history
<1>5. ASSUME NEW d \in Docs, IndexDoc(p, d) PROVE TypeOK'
  <2>1. FreshIds(d) \subseteq Ids /\ lastId + ChunksOf[d] \in 0..MaxId
    BY <1>5 DEF TypeOK, IndexDoc, FreshIds, Ids
  <2>2. {[id |-> i, doc |-> d, model |-> store[p].using] : i \in FreshIds(d)} \subseteq Vector
    BY <1>0, <2>1 DEF Vector, Store
  <2>3. [store[p] EXCEPT
           !.at = IF ChunksOf[d] = 0 THEN "count" ELSE "embed",
           !.mem = {v \in @ : v.id \notin chunks[d]},
           !.todo = {[id |-> i, doc |-> d, model |-> store[p].using] : i \in FreshIds(d)},
           !.queue = @ \ {d}] \in Store
    BY <1>0, <2>2 DEF Store, Places
  <2>4. store' \in [Stores -> Store]
    BY <1>0, <1>5, <2>3, BecomesTyped DEF IndexDoc
  <2> QED BY <1>5, <2>1, <2>4 DEF TypeOK, IndexDoc, files, searcher, history
<1>6. CASE Embed(p)
  <2>1. PICK v \in NextVector(store[p]) :
           Becomes(p, [store[p] EXCEPT !.mem = @ \cup {v}, !.todo = @ \ {v}])
    BY <1>6 DEF Embed
  <2>2. [store[p] EXCEPT !.mem = @ \cup {v}, !.todo = @ \ {v}] \in Store
    BY <1>0 DEF NextVector, Store
  <2> QED BY <1>0, <1>6, <2>1, <2>2, BecomesTyped DEF TypeOK, Embed, sqlite, files, searcher, history
<1>7. CASE EmbedLast(p)
  <2> DEFINE s(v) == Tally([store[p] EXCEPT !.mem = @ \cup {v}, !.todo = {}])
  <2>1. PICK v \in store[p].todo :
           Becomes(p, IF s(v).since >= PersistEvery
                      THEN SaveThen(s(v), "count") ELSE [s(v) EXCEPT !.at = "count"])
    BY <1>7 DEF EmbedLast
  <2>2. s(v) \in Store
    <3>1. [store[p] EXCEPT !.mem = @ \cup {v}, !.todo = {}] \in Store
      BY <1>0 DEF Store
    <3> QED BY <3>1, TallyTyped
  <2>3. SaveThen(s(v), "count") \in Store /\ [s(v) EXCEPT !.at = "count"] \in Store
    <3>1. "count" \in Places /\ "count" \in Returns
      BY DEF Places, Returns
    <3> HIDE DEF s
    <3> QED BY <2>2, <3>1, SaveThenTyped DEF Store
  <2> HIDE DEF s
  <2>4. store' \in [Stores -> Store]
    BY <1>0, <2>1, <2>3, BecomesTyped
  <2> QED BY <1>7, <2>4 DEF TypeOK, EmbedLast, sqlite, files, searcher, history
<1>8. CASE Count(p)
  <2> DEFINE n == store[p].uncompacted + 1
             due == store[p].role = "serve" /\ n >= CompactEvery
             s == [store[p] EXCEPT !.counted = TRUE]
  <2>1. s \in Store /\ "compacted" \in Returns /\ n \in Nat
    <3>1. s \in Store
      BY <1>0 DEF Store
    <3>2. "compacted" \in Returns
      BY DEF Returns
    <3>3. n \in Nat
      BY <1>0 DEF Store
    <3> QED BY <3>1, <3>2, <3>3
  <2> HIDE DEF s, n, due
  <2>2. SaveThen(s, "compacted") \in Store
    BY <2>1, SaveThenTyped
  <2>3. [s EXCEPT !.at = Between(s), !.uncompacted = IF due THEN 0 ELSE n] \in Store
    BY <2>1, BetweenPlace DEF Store
  <2>4. store' \in [Stores -> Store]
    BY <1>0, <1>8, <2>2, <2>3, BecomesTyped DEF Count, s, n, due
  <2> QED BY <1>8, <2>4 DEF TypeOK, Count, sqlite, files, searcher, history
<1>9. CASE Compacted(p)
  <2>1. [store[p] EXCEPT !.at = "idle", !.uncompacted = 0] \in Store
    BY <1>0 DEF Store, Places
  <2> QED BY <1>0, <1>9, <2>1, BecomesTyped DEF TypeOK, Compacted, sqlite, files, searcher, history
<1>10. CASE FlushLoop(p)
  <2>1. SaveThen(store[p], "next") \in Store
    BY <1>0, SaveThenTyped DEF Returns
  <2> QED BY <1>0, <1>10, <2>1, BecomesTyped DEF TypeOK, FlushLoop, sqlite, files, searcher, history
<1>11. CASE EndLoop(p)
  BY <1>0, <1>11, LeaveLoopTyped, BecomesTyped DEF TypeOK, EndLoop, sqlite, files, searcher, history
<1>12. CASE Stop(p)
  <2>1. Leaving(store[p]) \in Store
    BY <1>0, SaveThenTyped, DownTyped DEF Leaving, Returns
  <2> QED BY <1>0, <1>12, <2>1, BecomesTyped DEF TypeOK, Stop, sqlite, files, searcher, history
<1>13. CASE Stopped(p)
  BY <1>0, <1>13, DownTyped, BecomesTyped DEF TypeOK, Stopped, sqlite, files, searcher, history
<1>14. CASE Save(p)
  <2>1. [store[p] EXCEPT !.at = "swap"] \in Store
    BY <1>0 DEF Store, Places
  <2>2. tmp' \subseteq SUBSET Vector
    BY <1>0, <1>14 DEF Save, Spoilt, Store
  <2> QED BY <1>0, <1>14, <2>1, <2>2, BecomesTyped DEF TypeOK, Save, sqlite, searcher, history
<1>15. CASE Swap(p)
  <2>1. [store[p] EXCEPT !.at = "meta"] \in Store
    BY <1>0 DEF Store, Places
  <2> QED BY <1>0, <1>15, <2>1, BecomesTyped DEF TypeOK, Swap, sqlite, searcher, history
<1>16. CASE TruncateMeta(p)
  <2>1. [store[p] EXCEPT !.at = "write"] \in Store
    BY <1>0 DEF Store, Places
  <2> QED BY <1>0, <1>16, <2>1, BecomesTyped DEF TypeOK, TruncateMeta, sqlite, searcher, history
<1>17. CASE WriteMeta(p)
  <2>1. [store[p] EXCEPT !.at = store[p].after, !.since = 0, !.dirty = FALSE] \in Store
    BY <1>0 DEF Store, Places, Returns
  <2>2. store[p].using \in 0..Models
    BY <1>0 DEF Store
  <2> QED BY <1>0, <1>17, <2>1, <2>2, BecomesTyped DEF TypeOK, WriteMeta, sqlite, searcher, history
<1>18. CASE EmbedFails(p)
  <2>1. [store[p] EXCEPT !.at = Between(store[p]), !.todo = {}] \in Store
    BY <1>0, BetweenPlace DEF Store
  <2>2. store' \in [Stores -> Store]
    BY <1>0, <1>18, <2>1, DownTyped, BecomesTyped DEF EmbedFails
  <2> QED BY <1>18, <2>2 DEF TypeOK, EmbedFails, sqlite, files, searcher, history
<1>19. CASE SwapFails(p)
  <2>1. [store[p] EXCEPT !.at = Between(store[p])] \in Store
    BY <1>0, BetweenPlace DEF Store
  <2>2. AfterFailedSave(store[p]) \in Store
    BY <1>0, <2>1, DownTyped, LeaveLoopTyped DEF AfterFailedSave
  <2> QED BY <1>0, <1>19, <2>2, BecomesTyped DEF TypeOK, SwapFails, sqlite, files, searcher, history
<1>20. CASE Crash(p)
  BY <1>0, <1>20, DownTyped, BecomesTyped DEF TypeOK, Crash, sqlite, files, searcher, history
<1> QED BY <1>1, <1>2, <1>3, <1>4, <1>5, <1>6, <1>7, <1>8, <1>9, <1>10, <1>11, <1>12, <1>13,
           <1>14, <1>15, <1>16, <1>17, <1>18, <1>19, <1>20 DEF StoreStep

\* Every variable of VectorIndex keeps its type.
THEOREM TypeCorrect == Spec => []TypeOK
<1>1. TypeOK /\ [Next]_vars => TypeOK'
  <2> SUFFICES ASSUME TypeOK, [Next]_vars PROVE TypeOK'
    OBVIOUS
  <2>1. ASSUME NEW p \in Stores, StoreStep(p) PROVE TypeOK'
    BY <2>1, StoreStepTyped
  <2>2. CASE LoadIndex
    BY <2>2 DEF TypeOK, LoadIndex, sqlite, files, history
  <2>3. CASE RestartSearcher
    BY <2>3 DEF TypeOK, RestartSearcher, sqlite, files, history
  <2>4. CASE ChangeModel
    BY <2>4, VectorAssumption DEF TypeOK, ChangeModel, sqlite, files, searcher, history
  <2>5. CASE UNCHANGED vars
    BY <2>5 DEF TypeOK, vars, sqlite, files, searcher, history
  <2> QED BY <2>1, <2>2, <2>3, <2>4, <2>5 DEF Next
<1> QED BY <1>1, InitTyped, PTL DEF Spec
-----------------------------------------------------------------------------
(* No vector tells another chunk's text. *)

\* What an operation other than IndexDoc makes of a store, it takes from what is there.
LEMMA StoreHonest ==
    ASSUME TypeOK, AllHonest, NEW p \in Stores, NEW s, Becomes(p, s),
           Honest(s.mem), Honest(s.todo), chunks' = chunks, lastId' = lastId,
           \A f \in tmp' : f \in tmp \/ f = {} \/ f = store[p].mem,
           file' = file \/ file' \in tmp, cache' = cache
    PROVE  AllHonest'
<1>1. \A q \in Stores : store'[q] = IF q = p THEN s ELSE store[q]
  BY DEF TypeOK, Becomes
<1>2. \A q \in Stores : (Honest(store[q].mem) /\ Honest(store[q].todo))'
  BY <1>1 DEF AllHonest, Honest
<1>3. \A f \in tmp' : \A v \in f : /\ v.id <= lastId
                                   /\ \A d \in Docs : v.id \in chunks[d] => v.doc = d
  BY DEF AllHonest, Honest
<1>4. \A v \in file' : v.id <= lastId /\ \A d \in Docs : v.id \in chunks[d] => v.doc = d
  BY DEF AllHonest, Honest
<1>5. \A v \in cache' : v.id <= lastId /\ \A d \in Docs : v.id \in chunks[d] => v.doc = d
  BY DEF AllHonest, Honest
<1>6. (\A f \in tmp : Honest(f))' /\ Honest(file)' /\ Honest(cache)'
  BY <1>3, <1>4, <1>5 DEF Honest
<1>7. \A d \in Docs : chunks'[d] \subseteq 1..lastId'
  BY DEF AllHonest
<1> QED BY <1>2, <1>6, <1>7 DEF AllHonest

\* Emptying the tables leaves no chunk to lie about.
LEMMA ClearHonest ==
    ASSUME TypeOK, AllHonest, NEW p \in Stores, Clear(p)
    PROVE  AllHonest'
<1>1. \A d \in Docs : chunks'[d] = {}
  BY DEF Clear
<1>2. \A q \in Stores : store'[q].mem \in {{}, store[q].mem} /\ store'[q].todo = store[q].todo
  BY DEF TypeOK, Clear, Becomes, Store
<1>3. UNCHANGED <<lastId, file, tmp, cache>>
  BY DEF Clear, files, searcher, history
<1>4. \A q \in Stores : (Honest(store[q].mem) /\ Honest(store[q].todo))'
  BY <1>1, <1>2, <1>3 DEF AllHonest, Honest
<1>5. ((\A f \in tmp : Honest(f)) /\ Honest(file) /\ Honest(cache))'
  BY <1>1, <1>3 DEF AllHonest, Honest
<1> QED BY <1>1, <1>4, <1>5 DEF AllHonest

\* New chunks take ids that no vector has.
LEMMA IndexDocHonest ==
    ASSUME TypeOK, AllHonest, NEW p \in Stores, NEW d \in Docs, IndexDoc(p, d)
    PROVE  AllHonest'
<1> DEFINE fresh == FreshIds(d)
           new == {[id |-> i, doc |-> d, model |-> store[p].using] : i \in fresh}
<1>1. /\ lastId \in Nat /\ ChunksOf[d] \in Nat
      /\ lastId' = lastId + ChunksOf[d]
      /\ fresh = lastId + 1 .. lastId'
  <2>1. lastId \in Nat /\ ChunksOf[d] \in Nat
    BY VectorAssumption DEF TypeOK
  <2>2. lastId' = lastId + ChunksOf[d]
    BY DEF IndexDoc
  <2> QED BY <2>1, <2>2 DEF FreshIds
<1>2. \A e \in Docs : chunks'[e] = IF e = d THEN fresh ELSE chunks[e]
  BY DEF TypeOK, IndexDoc
<1>3. UNCHANGED <<file, tmp, cache>>
  BY DEF IndexDoc, files, searcher, history
<1>4. \A q \in Stores : /\ store'[q].mem \subseteq store[q].mem
                        /\ store'[q].todo = IF q = p THEN new ELSE store[q].todo
  BY DEF TypeOK, IndexDoc, Becomes, Store
<1>5. \A i \in fresh : i > lastId /\ i <= lastId'
  BY <1>1
<1>6. ASSUME NEW v, v.id \in Nat, v.id <= lastId,
             \A e \in Docs : v.id \in chunks[e] => v.doc = e
      PROVE  v.id <= lastId' /\ \A e \in Docs : v.id \in chunks'[e] => v.doc = e
  BY <1>1, <1>2, <1>5, <1>6
<1>7. \A v \in new : v.id <= lastId' /\ \A e \in Docs : v.id \in chunks'[e] => v.doc = e
  <2> SUFFICES ASSUME NEW i \in fresh, NEW e \in Docs, i \in chunks'[e]
               PROVE  i <= lastId' /\ e = d
    BY <1>5
  <2> QED BY <1>1, <1>2, <1>5 DEF AllHonest
<1>8. \A v \in Vector : v.id \in Nat
  BY DEF Vector, Ids
<1>9. \A q \in Stores : store[q].mem \subseteq Vector /\ store[q].todo \subseteq Vector
  BY DEF TypeOK, Store
<1> HIDE DEF fresh, new
<1>10. ASSUME NEW q \in Stores PROVE (Honest(store[q].mem) /\ Honest(store[q].todo))'
  <2>1. \A v \in store[q].mem \cup store[q].todo :
           v.id <= lastId' /\ \A e \in Docs : v.id \in chunks'[e] => v.doc = e
    BY <1>6, <1>8, <1>9 DEF AllHonest, Honest
  <2>2. \A v \in store'[q].mem \cup store'[q].todo :
           v.id <= lastId' /\ \A e \in Docs : v.id \in chunks'[e] => v.doc = e
    BY <1>4, <1>7, <2>1
  <2> QED BY <2>2 DEF Honest
<1>11. ((\A f \in tmp : Honest(f)) /\ Honest(file) /\ Honest(cache))'
  BY <1>3, <1>6, <1>8 DEF AllHonest, Honest, TypeOK
<1>12. \A e \in Docs : chunks'[e] \subseteq 1..lastId'
  BY <1>1, <1>2 DEF AllHonest, fresh
<1> QED BY <1>10, <1>11, <1>12 DEF AllHonest

LEMMA StoreStepHonest ==
    ASSUME TypeOK, AllHonest, NEW p \in Stores, StoreStep(p)
    PROVE  AllHonest'
<1> USE DEF sqlite, files, searcher, history
<1>0. /\ Honest({}) /\ Honest(Down.mem) /\ Honest(Down.todo)
      /\ Honest(store[p].mem) /\ Honest(store[p].todo)
      /\ store[p] \in Store
  BY DEF Honest, Down, AllHonest, TypeOK
<1>1. ASSUME NEW r \in Openings, Open(p, r) PROVE AllHonest'
  <2> DEFINE s == [Down EXCEPT !.at = FirstPlace(r), !.role = r, !.using = model,
                               !.mem = Load(model), !.queue = Missing(r)]
  <2>1. Honest(s.mem) /\ Honest(s.todo)
    BY <1>0 DEF Load, AllHonest, Down
  <2>2. Becomes(p, s)
    BY <1>1 DEF Open
  <2> HIDE DEF s
  <2> QED BY <1>1, <2>1, <2>2, StoreHonest DEF Open
<1>2. CASE Compact(p)
  BY <1>0, <1>2, StoreHonest DEF Compact
<1>3. CASE Clear(p)
  BY <1>3, ClearHonest
<1>4. CASE Unlink(p)
  <2> DEFINE s == [store[p] EXCEPT !.at = "next", !.queue = Docs]
  <2>1. s.mem = store[p].mem /\ s.todo = store[p].todo
    BY <1>0 DEF Store
  <2>2. Becomes(p, s) /\ file' = {} /\ UNCHANGED <<chunks, lastId, tmp, cache>>
    BY <1>4 DEF Unlink
  <2> HIDE DEF s
  <2>3. \A q \in Stores : store'[q] = IF q = p THEN s ELSE store[q]
    BY <2>2 DEF Becomes, TypeOK
  <2> QED BY <1>0, <2>1, <2>2, <2>3 DEF AllHonest, Honest
<1>5. ASSUME NEW d \in Docs, IndexDoc(p, d) PROVE AllHonest'
  BY <1>5, IndexDocHonest
<1>6. CASE Embed(p)
  <2>1. PICK v \in NextVector(store[p]) :
           Becomes(p, [store[p] EXCEPT !.mem = @ \cup {v}, !.todo = @ \ {v}])
    BY <1>6 DEF Embed
  <2> DEFINE s == [store[p] EXCEPT !.mem = @ \cup {v}, !.todo = @ \ {v}]
  <2>2. s.mem = store[p].mem \cup {v} /\ s.todo = store[p].todo \ {v}
    BY <1>0 DEF Store
  <2> HIDE DEF s
  <2>3. Honest(s.mem) /\ Honest(s.todo)
    BY <1>0, <2>2 DEF Honest, NextVector
  <2> QED BY <1>6, <2>1, <2>3, StoreHonest DEF Embed, s
<1>7. CASE EmbedLast(p)
  <2> DEFINE t(v) == Tally([store[p] EXCEPT !.mem = @ \cup {v}, !.todo = {}])
             s(v) == IF t(v).since >= PersistEvery
                     THEN SaveThen(t(v), "count") ELSE [t(v) EXCEPT !.at = "count"]
  <2>1. PICK v \in store[p].todo : Becomes(p, s(v))
    BY <1>7 DEF EmbedLast
  <2>2. s(v).mem = store[p].mem \cup {v} /\ s(v).todo = {}
    BY <1>0 DEF Store, Tally, SaveThen
  <2> HIDE DEF s
  <2>3. Honest(s(v).mem) /\ Honest(s(v).todo)
    BY <1>0, <2>2 DEF Honest
  <2> QED BY <1>7, <2>1, <2>3, StoreHonest DEF EmbedLast
<1>8. ASSUME NEW s, Becomes(p, s),
             s = Down \/ (s.mem = store[p].mem /\ s.todo \in {{}, store[p].todo}),
             UNCHANGED <<chunks, lastId, cache>>,
             \A f \in tmp' : f \in tmp \/ f = {} \/ f = store[p].mem,
             file' = file \/ file' \in tmp
      PROVE  AllHonest'
  BY <1>0, <1>8, StoreHonest
<1>9. CASE Count(p)
  <2> DEFINE n == store[p].uncompacted + 1
             due == store[p].role = "serve" /\ n >= CompactEvery
             t == [store[p] EXCEPT !.counted = TRUE]
             s == IF due /\ t.dirty
                  THEN SaveThen(t, "compacted")
                  ELSE [t EXCEPT !.at = Between(t), !.uncompacted = IF due THEN 0 ELSE n]
  <2>1. s.mem = store[p].mem /\ s.todo = store[p].todo
    BY <1>0 DEF Store, SaveThen
  <2>2. Becomes(p, s)
    BY <1>9 DEF Count
  <2> HIDE DEF s
  <2> QED BY <1>8, <1>9, <2>1, <2>2 DEF Count
<1>10. CASE Compacted(p)
  BY <1>0, <1>8, <1>10 DEF Compacted, Store
<1>11. CASE FlushLoop(p)
  BY <1>0, <1>8, <1>11 DEF FlushLoop, SaveThen, Store
<1>12. CASE EndLoop(p)
  BY <1>0, <1>8, <1>12 DEF EndLoop, LeaveLoop, Store
<1>13. CASE Stop(p)
  BY <1>0, <1>8, <1>13 DEF Stop, Leaving, SaveThen, Store
<1>14. CASE Stopped(p)
  BY <1>8, <1>14 DEF Stopped
<1>15. CASE Save(p)
  BY <1>0, <1>8, <1>15 DEF Save, Spoilt, Store
<1>16. CASE Swap(p)
  BY <1>0, <1>8, <1>16 DEF Swap, Store
<1>17. CASE TruncateMeta(p)
  BY <1>0, <1>8, <1>17 DEF TruncateMeta, Store
<1>18. CASE WriteMeta(p)
  BY <1>0, <1>8, <1>18 DEF WriteMeta, Store
<1>19. CASE EmbedFails(p)
  BY <1>0, <1>8, <1>19 DEF EmbedFails, Store
<1>20. CASE SwapFails(p)
  BY <1>0, <1>8, <1>20 DEF SwapFails, AfterFailedSave, LeaveLoop, Store
<1>21. CASE Crash(p)
  BY <1>8, <1>21 DEF Crash
<1> QED BY <1>1, <1>2, <1>3, <1>4, <1>5, <1>6, <1>7, <1>9, <1>10, <1>11, <1>12, <1>13, <1>14,
           <1>15, <1>16, <1>17, <1>18, <1>19, <1>20, <1>21 DEF StoreStep

LEMMA HonestNext == TypeOK /\ AllHonest /\ [Next]_vars => AllHonest'
<1> SUFFICES ASSUME TypeOK, AllHonest, [Next]_vars PROVE AllHonest'
  OBVIOUS
<1>1. ASSUME NEW p \in Stores, StoreStep(p) PROVE AllHonest'
  BY <1>1, StoreStepHonest
<1>2. CASE LoadIndex
  BY <1>2 DEF AllHonest, Honest, LoadIndex, sqlite, files, history
<1>3. CASE RestartSearcher
  BY <1>3 DEF AllHonest, Honest, RestartSearcher, sqlite, files, history
<1>4. CASE ChangeModel
  BY <1>4 DEF AllHonest, Honest, ChangeModel, sqlite, files, searcher, history
<1>5. CASE UNCHANGED vars
  BY <1>5 DEF AllHonest, Honest, vars, sqlite, files, searcher, history
<1> QED BY <1>1, <1>2, <1>3, <1>4, <1>5 DEF Next

LEMMA AlwaysHonest == Spec => []AllHonest
<1>1. Init => AllHonest
  BY DEF Init, AllHonest, Honest, Down
<1> QED BY <1>1, HonestNext, TypeCorrect, PTL DEF Spec

\* Whatever stores are open at once and whoever overwrites whom, a hit of the searcher is
\* shown with the text it was found for.
THEOREM VectorsHonest == Spec => []VectorsTellTheirText
<1>1. AllHonest => VectorsTellTheirText
  BY DEF AllHonest, Honest, VectorsTellTheirText, Indexes
<1> QED BY <1>1, AlwaysHonest, PTL
-----------------------------------------------------------------------------
(* One store after another. *)

\* While no two stores were ever open, the one that takes a step has the files to itself.
LEMMA Alone ==
    ASSUME TypeOK, OneAtATime, NEW p \in Stores, StoreStep(p), ~shared'
    PROVE  /\ ~shared
           /\ \A q \in Stores \ {p} : At(q, "down") /\ At(q, "down")'
           /\ store[p] \in Store /\ store'[p] \in Store
<1>1. store[p] \in Store /\ store'[p] \in Store
  BY StoreStepTyped DEF TypeOK
<1>2. ~shared /\ (At(p, "down") => \A q \in Stores \ {p} : At(q, "down"))
  <2>1. CASE \E r \in Openings : Open(p, r)
    BY <2>1 DEF Open
  <2>2. CASE ~\E r \in Openings : Open(p, r)
    <3>1. ~At(p, "down") /\ shared' = shared
      BY <2>2 DEF StoreStep, Compact, Clear, Unlink, IndexDoc, Wanted, Embed, EmbedLast, Count,
                  Compacted, FlushLoop, EndLoop, Stop, Stopped, Save, Swap, TruncateMeta,
                  WriteMeta, EmbedFails, SwapFails, Crash, At, history
    <3> QED BY <3>1
  <2> QED BY <2>1, <2>2
<1>3. \A q \in Stores \ {p} : At(q, "down")
  BY <1>2 DEF OneAtATime
<1>4. \A q \in Stores \ {p} : store'[q] = store[q]
  BY DEF StoreStep, Open, Compact, Clear, Unlink, IndexDoc, Embed, EmbedLast, Count, Compacted,
         FlushLoop, EndLoop, Stop, Stopped, Save, Swap, TruncateMeta, WriteMeta, EmbedFails,
         SwapFails, Crash, Becomes, TypeOK
<1> QED BY <1>1, <1>2, <1>3, <1>4 DEF At

\* The searcher and the operator touch neither stores nor what they have on the disk.
LEMMA OthersOutside ==
    ASSUME [Next]_vars, ~\E p \in Stores : StoreStep(p)
    PROVE  UNCHANGED <<rows, chunks, lastId, file, tmp, meta, store, shared, torn, faults>>
BY DEF Next, LoadIndex, RestartSearcher, ChangeModel, vars, sqlite, files, history

LEMMA AlwaysAlone == Spec => []OneAtATime
<1>1. Init => OneAtATime
  BY DEF Init, OneAtATime, At, Down
<1>2. TypeOK /\ OneAtATime /\ [Next]_vars => OneAtATime'
  <2> SUFFICES ASSUME TypeOK, OneAtATime, [Next]_vars PROVE OneAtATime'
    OBVIOUS
  <2>1. CASE \E p \in Stores : StoreStep(p)
    BY <2>1, Alone DEF OneAtATime
  <2>2. CASE ~\E p \in Stores : StoreStep(p)
    BY <2>2, OthersOutside DEF OneAtATime, At
  <2> QED BY <2>1, <2>2
<1> QED BY <1>1, <1>2, TypeCorrect, PTL DEF Spec
-----------------------------------------------------------------------------
(* The vectors of two models stay apart as long as the meta file can be believed. *)

\* What the step of a store that is alone must leave behind.
LEMMA AloneKeepsNames ==
    ASSUME TypeOK, ModelsNamed, NEW p \in Stores, NEW s \in Store, Becomes(p, s),
           ~shared, ~torn, \A q \in Stores \ {p} : At(q, "down"),
           MadeBy(s.using, s.mem), MadeBy(s.using, s.todo),
           s.at = "swap" => \A f \in tmp' : MadeBy(s.using, f),
           s.at \in {"meta", "write"} => MadeBy(s.using, file'),
           meta' # 0 => MadeBy(meta', file') \/ s.at = "meta",
           \A v, w \in file' : v.model = w.model
    PROVE  ModelsNamed'
<1>1. \A q \in Stores : store'[q] = IF q = p THEN s ELSE store[q]
  BY DEF TypeOK, Becomes
<1>2. \A q \in Stores \ {p} : store'[q].at = "down" /\ store'[q] = store[q]
  BY <1>1 DEF At
<1>3. store'[p] = s
  BY <1>1
<1>4. ASSUME NEW q \in Stores
      PROVE  (/\ MadeBy(store[q].using, store[q].mem)
              /\ MadeBy(store[q].using, store[q].todo)
              /\ At(q, "swap") => \A f \in tmp : MadeBy(store[q].using, f)
              /\ store[q].at \in {"meta", "write"} => MadeBy(store[q].using, file))'
  <2>1. CASE q = p
    BY <1>3, <2>1 DEF At, MadeBy
  <2>2. CASE q # p
    BY <1>2, <2>2 DEF ModelsNamed, At, MadeBy
  <2> QED BY <2>1, <2>2
<1>5. (meta # 0 => MadeBy(meta, file) \/ \E q \in Stores : At(q, "meta"))'
  BY <1>3 DEF At, MadeBy
<1> QED BY <1>4, <1>5 DEF ModelsNamed

LEMMA StoreStepNamed ==
    ASSUME TypeOK, OneAtATime, ModelsNamed, NEW p \in Stores, StoreStep(p)
    PROVE  ModelsNamed'
<1> SUFFICES ASSUME ~shared', ~torn' PROVE ModelsNamed'
  BY DEF ModelsNamed
<1>t. store[p] \in Store /\ Down \in Store /\ store \in [Stores -> Store]
  BY DownTyped DEF TypeOK
<1>v. store' \in [Stores -> Store]
  BY StoreStepTyped DEF TypeOK
<1>a. /\ ~shared /\ ~torn /\ \A q \in Stores \ {p} : At(q, "down")
      /\ MadeBy(store[p].using, store[p].mem) /\ MadeBy(store[p].using, store[p].todo)
  <2>1. ~shared /\ \A q \in Stores \ {p} : At(q, "down")
    BY Alone
  <2>2. ~torn
    BY DEF StoreStep, Open, Compact, Clear, Unlink, IndexDoc, Embed, EmbedLast, Count, Compacted,
           FlushLoop, EndLoop, Stop, Stopped, Save, Swap, TruncateMeta, WriteMeta, EmbedFails,
           SwapFails, Crash, history
  <2> QED BY <2>1, <2>2 DEF ModelsNamed
<1>d. MadeBy(Down.using, Down.mem) /\ MadeBy(Down.using, Down.todo) /\ Down.at = "down"
  BY DEF MadeBy, Down
<1>f. \A v, w \in file : v.model = w.model
  BY <1>a DEF ModelsNamed
<1>g. ~At(p, "meta") \/ meta \in {0, store[p].using} => (meta # 0 => MadeBy(meta, file))
  <2>1. \A q \in Stores \ {p} : ~At(q, "meta")
    BY <1>a DEF At
  <2> QED BY <1>a, <2>1 DEF ModelsNamed, At
<1> USE DEF sqlite, files, searcher, history
\* A step that leaves the files alone and stays away from a save, or goes down.
<1>1. ASSUME NEW s \in Store, Becomes(p, s), UNCHANGED <<file, meta>>,
             ~At(p, "meta") \/ meta \in {0, store[p].using},
             s = Down \/ /\ s.using = store[p].using
                         /\ MadeBy(s.using, s.mem) /\ MadeBy(s.using, s.todo)
                         /\ s.at \notin {"swap", "meta", "write"}
      PROVE  ModelsNamed'
  BY <1>1, <1>a, <1>d, <1>f, <1>g, AloneKeepsNames
<1>2. ASSUME NEW r \in Openings, Open(p, r) PROVE ModelsNamed'
  <2> DEFINE s == [Down EXCEPT !.at = FirstPlace(r), !.role = r, !.using = model,
                               !.mem = Load(model), !.queue = Missing(r)]
  <2>1. Becomes(p, s) /\ ~At(p, "meta")
    BY <1>2 DEF Open, At
  <2>2. /\ s.using = model /\ s.mem = Load(model) /\ s.todo = {}
        /\ s.at \notin {"swap", "meta", "write"}
    BY DEF Down, FirstPlace
  <2>3. s \in Store
    <3>1. store'[p] = s
      BY <1>t, <2>1 DEF Becomes
    <3> QED BY <1>v, <3>1
  <2>4. MadeBy(model, Load(model))
    <3>1. CASE meta = model
      <4>1. meta # 0
        BY <3>1 DEF TypeOK
      <4> QED BY <1>g, <2>1, <3>1, <4>1 DEF Load
    <3>2. CASE meta # model
      BY <3>2 DEF MadeBy, Load
    <3> QED BY <3>1, <3>2
  <2>5. MadeBy(model, {})
    BY DEF MadeBy
  <2>6. UNCHANGED <<file, meta, tmp>>
    BY <1>2 DEF Open
  <2> HIDE DEF s
  <2> QED BY <1>a, <1>f, <1>g, <2>1, <2>2, <2>3, <2>4, <2>5, <2>6, AloneKeepsNames
<1>3. CASE Save(p)
  <2> DEFINE s == [store[p] EXCEPT !.at = "swap"]
  <2>1. s \in Store /\ s.using = store[p].using /\ s.mem = store[p].mem
        /\ s.todo = store[p].todo /\ s.at = "swap"
    BY <1>t DEF Store, Places
  <2>2. \A f \in tmp' : f = store[p].mem \/ f = {}
    BY <1>3 DEF Save, Spoilt
  <2>3. \A f \in tmp' : MadeBy(store[p].using, f)
    BY <1>a, <2>2 DEF MadeBy
  <2>4. Becomes(p, s) /\ UNCHANGED <<file, meta>> /\ ~At(p, "meta")
    BY <1>3 DEF Save, At
  <2> HIDE DEF s
  <2> QED BY <1>a, <1>f, <1>g, <2>1, <2>3, <2>4, AloneKeepsNames
<1>4. CASE Swap(p)
  <2> DEFINE s == [store[p] EXCEPT !.at = "meta"]
  <2>1. s \in Store /\ s.using = store[p].using /\ s.mem = store[p].mem
        /\ s.todo = store[p].todo /\ s.at = "meta"
    BY <1>t DEF Store, Places
  <2>2. Becomes(p, s) /\ file' \in tmp
    BY <1>4 DEF Swap, At
  <2>3. MadeBy(store[p].using, file')
    BY <1>4, <1>a, <2>2 DEF Swap, ModelsNamed
  <2>4. \A v, w \in file' : v.model = w.model
    BY <2>3 DEF MadeBy
  <2> HIDE DEF s
  <2> QED BY <1>a, <2>1, <2>2, <2>3, <2>4, AloneKeepsNames
<1>5. CASE TruncateMeta(p)
  <2> DEFINE s == [store[p] EXCEPT !.at = "write"]
  <2>1. s \in Store /\ s.using = store[p].using /\ s.mem = store[p].mem
        /\ s.todo = store[p].todo /\ s.at = "write"
    BY <1>t DEF Store, Places
  <2>2. /\ Becomes(p, s) /\ UNCHANGED <<file, tmp>> /\ meta' = 0
        /\ MadeBy(store[p].using, file)
    BY <1>5, <1>a DEF TruncateMeta, At, ModelsNamed
  <2> HIDE DEF s
  <2> QED BY <1>a, <1>f, <2>1, <2>2, AloneKeepsNames
<1>6. CASE WriteMeta(p)
  <2> DEFINE s == [store[p] EXCEPT !.at = store[p].after, !.since = 0, !.dirty = FALSE]
  <2>1. /\ s.using = store[p].using /\ s.mem = store[p].mem /\ s.todo = store[p].todo
        /\ s.at \notin {"swap", "meta", "write"}
    BY <1>t DEF Store, Returns
  <2>2. s \in Store
    BY <1>t DEF Store, Places, Returns
  <2>3. /\ Becomes(p, s) /\ UNCHANGED <<file, tmp>>
        /\ meta' = store[p].using /\ MadeBy(store[p].using, file)
    BY <1>6, <1>a DEF WriteMeta, At, ModelsNamed
  <2>4. MadeBy(meta', file')
    BY <2>3
  <2> HIDE DEF s
  <2> QED BY <1>a, <1>f, <2>1, <2>2, <2>3, <2>4, AloneKeepsNames
<1>7. CASE Compact(p)
  BY <1>7, <1>t, <1>1 DEF Compact, At
<1>8. CASE Clear(p)
  <2> DEFINE s == [store[p] EXCEPT !.at = "unlink", !.mem = {}]
  <2>1. s \in Store /\ s.using = store[p].using /\ s.mem = {} /\ s.todo = store[p].todo
        /\ s.at = "unlink"
    BY <1>t DEF Store, Places
  <2>2. Becomes(p, s) /\ UNCHANGED <<file, meta>> /\ ~At(p, "meta")
    BY <1>8 DEF Clear, At
  <2>3. MadeBy(s.using, s.mem)
    BY <2>1 DEF MadeBy
  <2> HIDE DEF s
  <2> QED BY <1>1, <1>a, <2>1, <2>2, <2>3
<1>9. CASE Unlink(p)
  <2> DEFINE s == [store[p] EXCEPT !.at = "next", !.queue = Docs]
  <2>1. s \in Store /\ s.using = store[p].using /\ s.mem = store[p].mem
        /\ s.todo = store[p].todo /\ s.at = "next"
    BY <1>t DEF Store, Places
  <2>2. Becomes(p, s) /\ file' = {} /\ MadeBy(meta', file')
    BY <1>9 DEF Unlink, At, MadeBy
  <2> HIDE DEF s
  <2> QED BY <1>a, <2>1, <2>2, AloneKeepsNames
<1>10. ASSUME NEW d \in Docs, IndexDoc(p, d) PROVE ModelsNamed'
  <2>1. ~At(p, "meta") /\ UNCHANGED <<file, meta>>
    BY <1>10 DEF IndexDoc, Wanted, At
  <2>2. PICK s : Becomes(p, s) /\ s = [store[p] EXCEPT
           !.at = IF ChunksOf[d] = 0 THEN "count" ELSE "embed",
           !.mem = {v \in @ : v.id \notin chunks[d]},
           !.todo = {[id |-> i, doc |-> d, model |-> store[p].using] : i \in FreshIds(d)},
           !.queue = @ \ {d}]
    BY <1>10 DEF IndexDoc
  <2>3. /\ s.using = store[p].using /\ s.mem \subseteq store[p].mem
        /\ s.todo = {[id |-> i, doc |-> d, model |-> store[p].using] : i \in FreshIds(d)}
        /\ s.at \notin {"swap", "meta", "write"}
    BY <1>t, <2>2 DEF Store
  <2>4. MadeBy(s.using, s.mem) /\ MadeBy(s.using, s.todo)
    BY <1>a, <2>3 DEF MadeBy
  <2>5. s \in Store
    BY <1>t, <1>v, <2>2 DEF Becomes
  <2> QED BY <1>1, <2>1, <2>2, <2>3, <2>4, <2>5
<1>11. CASE Embed(p)
  <2>1. PICK v, s : v \in NextVector(store[p]) /\ Becomes(p, s)
                    /\ s = [store[p] EXCEPT !.mem = @ \cup {v}, !.todo = @ \ {v}]
    BY <1>11 DEF Embed
  <2>2. s.using = store[p].using /\ s.mem = store[p].mem \cup {v} /\ s.todo \subseteq store[p].todo
        /\ s.at = "embed"
    BY <1>t, <1>11, <2>1 DEF Store, Embed, At
  <2>3. MadeBy(s.using, s.mem) /\ MadeBy(s.using, s.todo)
    BY <1>a, <2>1, <2>2 DEF MadeBy, NextVector
  <2>4. s \in Store
    BY <1>t, <1>v, <2>1 DEF Becomes
  <2>5. ~At(p, "meta") /\ UNCHANGED <<file, meta>>
    BY <1>11 DEF Embed, At
  <2> QED BY <1>1, <2>1, <2>2, <2>3, <2>4, <2>5
<1>12. CASE EmbedLast(p)
  <2> DEFINE t(v) == Tally([store[p] EXCEPT !.mem = @ \cup {v}, !.todo = {}])
  <2>1. PICK v, s : v \in store[p].todo /\ Becomes(p, s)
             /\ s = IF t(v).since >= PersistEvery
                    THEN SaveThen(t(v), "count") ELSE [t(v) EXCEPT !.at = "count"]
    BY <1>12 DEF EmbedLast
  <2>2. s.using = store[p].using /\ s.mem = store[p].mem \cup {v} /\ s.todo = {}
        /\ s.at \in {"save", "count"}
    BY <1>t, <2>1 DEF Store, Tally, SaveThen
  <2>3. MadeBy(s.using, s.mem) /\ MadeBy(s.using, s.todo)
    BY <1>a, <2>1, <2>2 DEF MadeBy
  <2>4. s \in Store
    BY <1>t, <1>v, <2>1 DEF Becomes
  <2>5. ~At(p, "meta") /\ UNCHANGED <<file, meta>>
    BY <1>12 DEF EmbedLast, At
  <2> QED BY <1>1, <2>1, <2>2, <2>3, <2>4, <2>5
<1>13. ASSUME NEW s, Becomes(p, s), UNCHANGED <<file, meta>>,
              ~At(p, "meta") \/ meta \in {0, store[p].using},
              s = Down \/ /\ s.using = store[p].using /\ s.mem = store[p].mem
                          /\ s.todo \in {{}, store[p].todo}
                          /\ s.at \notin {"swap", "meta", "write"}
       PROVE  ModelsNamed'
  <2>1. s \in Store
    BY <1>t, <1>v, <1>13 DEF Becomes
  <2>2. MadeBy(s.using, {})
    BY DEF MadeBy
  <2> QED BY <1>1, <1>13, <1>a, <2>1, <2>2
<1>14. CASE Count(p)
  <2> DEFINE n == store[p].uncompacted + 1
             due == store[p].role = "serve" /\ n >= CompactEvery
             t == [store[p] EXCEPT !.counted = TRUE]
             s == IF due /\ t.dirty
                  THEN SaveThen(t, "compacted")
                  ELSE [t EXCEPT !.at = Between(t), !.uncompacted = IF due THEN 0 ELSE n]
  <2>1. s.using = store[p].using /\ s.mem = store[p].mem /\ s.todo = store[p].todo
        /\ s.at \in {"save", "idle", "next"}
    BY <1>t DEF Store, SaveThen, Between
  <2>2. Becomes(p, s) /\ ~At(p, "meta") /\ UNCHANGED <<file, meta>>
    BY <1>14 DEF Count, At
  <2> HIDE DEF s
  <2> QED BY <1>13, <2>1, <2>2
<1>15. CASE Compacted(p)
  BY <1>t, <1>13, <1>15 DEF Compacted, Store, At
<1>16. CASE FlushLoop(p)
  BY <1>t, <1>13, <1>16 DEF FlushLoop, SaveThen, Store, At
<1>17. CASE EndLoop(p)
  BY <1>t, <1>13, <1>17 DEF EndLoop, LeaveLoop, Store, At
<1>18. CASE Stop(p)
  BY <1>t, <1>13, <1>18 DEF Stop, Leaving, SaveThen, Store, At
<1>19. CASE Stopped(p)
  BY <1>13, <1>19 DEF Stopped, At
<1>20. CASE EmbedFails(p)
  BY <1>t, <1>13, <1>20 DEF EmbedFails, Between, Store, At
<1>21. CASE SwapFails(p)
  BY <1>t, <1>13, <1>21 DEF SwapFails, AfterFailedSave, LeaveLoop, Between, Store, At
<1>22. CASE Crash(p)
  BY <1>13, <1>22 DEF Crash, At
<1> QED BY <1>2, <1>3, <1>4, <1>5, <1>6, <1>7, <1>8, <1>9, <1>10, <1>11, <1>12, <1>14, <1>15,
           <1>16, <1>17, <1>18, <1>19, <1>20, <1>21, <1>22 DEF StoreStep

LEMMA AlwaysNamed == Spec => []ModelsNamed
<1>1. Init => ModelsNamed
  BY DEF Init, ModelsNamed, At, MadeBy, Down
<1>2. TypeOK /\ OneAtATime /\ ModelsNamed /\ [Next]_vars => ModelsNamed'
  <2> SUFFICES ASSUME TypeOK, OneAtATime, ModelsNamed, [Next]_vars PROVE ModelsNamed'
    OBVIOUS
  <2>1. CASE \E p \in Stores : StoreStep(p)
    BY <2>1, StoreStepNamed
  <2>2. CASE ~\E p \in Stores : StoreStep(p)
    BY <2>2, OthersOutside DEF ModelsNamed, MadeBy, At
  <2> QED BY <2>1, <2>2
<1> QED BY <1>1, <1>2, TypeCorrect, AlwaysAlone, PTL DEF Spec

\* As long as one store follows another, and none has died between the index and the meta
\* file of a save that began under another model's name, none adds vectors of one model to
\* an index of another: whatever models are set and set again, and wherever else a store dies.
THEOREM ModelsApart == Spec => []NeverMixed
<1>1. ModelsNamed => NeverMixed
  BY DEF ModelsNamed, NeverMixed, MadeBy
<1> QED BY <1>1, AlwaysNamed, PTL
-----------------------------------------------------------------------------
(* One store after another: what is between its index, the file and the rows. *)

\* A new chunk has an id that no vector of an honest index has.
LEMMA FreshIsNew ==
    ASSUME TypeOK, AllHonest, NEW p \in Stores, NEW d \in Docs, NEW i \in FreshIds(d)
    PROVE  /\ i > lastId
           /\ \A v \in store[p].mem \cup file : v.id # i
<1>1. i > lastId /\ lastId \in Nat
  BY VectorAssumption DEF FreshIds, TypeOK
<1>2. \A v \in store[p].mem \cup file : v.id <= lastId /\ v.id \in Nat
  BY DEF AllHonest, Honest, TypeOK, Store, Vector, Ids
<1> QED BY <1>1, <1>2

LEMMA OrderlyStep ==
    ASSUME TypeOK, AllHonest, OneAtATime, StoresOrderly, NEW p \in Stores, StoreStep(p)
    PROVE  StoresOrderly'
<1> DEFINE Same(s) == /\ s.dirty = store[p].dirty /\ s.counted = store[p].counted
                      /\ s.role = store[p].role
<1> DEFINE Fine(s) == Orderly(s) /\ Counted(s) /\ Flagged(s)
<1> SUFFICES ASSUME ~shared', ~At(p, "down")' PROVE Fine(store[p])'
  BY Alone DEF StoresOrderly
<1>a. /\ ~shared /\ \A q \in Stores \ {p} : At(q, "down")
      /\ store[p] \in Store /\ store \in [Stores -> Store]
  BY Alone DEF TypeOK
<1>b. ~At(p, "down") => Fine(store[p])
  BY <1>a DEF StoresOrderly
<1>c. PersistEvery \in Nat \ {0}
  BY VectorAssumption
<1> USE DEF Orderly, Counted, Flagged, Saving, At, sqlite, files, searcher, history
<1>1. ASSUME NEW r \in Openings, Open(p, r) PROVE Fine(store[p])'
  <2>1. store'[p] = [Down EXCEPT !.at = FirstPlace(r), !.role = r, !.using = model,
                                 !.mem = Load(model), !.queue = Missing(r)]
    BY <1>1, <1>a DEF Open, Becomes
  <2> QED BY <2>1, <1>c DEF Down, FirstPlace
<1>2. CASE Compact(p) \/ Stopped(p) \/ Crash(p)
  BY <1>2, <1>a DEF Compact, Stopped, Crash, Becomes, Down
<1>3. CASE Clear(p)
  BY <1>3, <1>a, <1>b, <1>c DEF Clear, Becomes, Store
<1>4. CASE Unlink(p)
  BY <1>4, <1>a, <1>b, <1>c DEF Unlink, Becomes, Store
<1>5. ASSUME NEW d \in Docs, IndexDoc(p, d) PROVE Fine(store[p])'
  <2>1. /\ store'[p].at = IF ChunksOf[d] = 0 THEN "count" ELSE "embed"
        /\ store'[p].mem \subseteq store[p].mem
        /\ store'[p].todo = {[id |-> i, doc |-> d, model |-> store[p].using] : i \in FreshIds(d)}
        /\ store'[p].since = store[p].since /\ Same(store'[p])
    BY <1>5, <1>a DEF IndexDoc, Becomes, Store
  <2>2. chunks'[d] = FreshIds(d)
    BY <1>5 DEF IndexDoc, TypeOK
  <2>3. store[p].at \in {"idle", "next"}
    BY <1>5 DEF IndexDoc, Wanted
  <2>4. ChunksOf[d] = 0 => FreshIds(d) = {}
    BY VectorAssumption DEF FreshIds, TypeOK
  <2>5. \A i \in FreshIds(d) : \A w \in store'[p].mem : w.id # i
    BY <2>1, FreshIsNew
  <2> QED BY <1>b, <1>c, <2>1, <2>2, <2>3, <2>4, <2>5
<1>6. CASE Embed(p)
  <2>1. PICK v \in store[p].todo :
           Becomes(p, [store[p] EXCEPT !.mem = @ \cup {v}, !.todo = @ \ {v}])
    BY <1>6 DEF Embed, NextVector
  <2>2. /\ store'[p].at = "embed" /\ store'[p].mem = store[p].mem \cup {v}
        /\ store'[p].todo = store[p].todo \ {v} /\ store'[p].since = store[p].since
        /\ Same(store'[p])
    BY <1>6, <1>a, <2>1 DEF Embed, Becomes, Store
  <2> QED BY <1>6, <1>b, <1>c, <2>2 DEF Embed
<1>7. CASE EmbedLast(p)
  <2>1. PICK v \in store[p].todo :
          LET s == Tally([store[p] EXCEPT !.mem = @ \cup {v}, !.todo = {}])
          IN  Becomes(p, IF s.since >= PersistEvery
                         THEN SaveThen(s, "count") ELSE [s EXCEPT !.at = "count"])
    BY <1>7 DEF EmbedLast
  <2> DEFINE s == Tally([store[p] EXCEPT !.mem = @ \cup {v}, !.todo = {}])
  <2>2. s.since = store[p].since + 1 /\ s.todo = {} /\ s.dirty
    BY <1>a DEF Tally, Store
  <2>3. /\ store'[p].at = IF s.since >= PersistEvery THEN "save" ELSE "count"
        /\ store'[p].since = s.since /\ store'[p].todo = {} /\ store'[p].dirty
    BY <1>a, <2>1, <2>2 DEF Becomes, Tally, SaveThen, Store
  <2>4. store[p].since < PersistEvery /\ store[p].since \in Nat
    BY <1>7, <1>a, <1>b DEF EmbedLast, Store
  <2> QED BY <1>c, <2>2, <2>3, <2>4
<1>8. CASE Count(p)
  <2>1. /\ store'[p].at \in {"save", "idle", "next"}
        /\ store'[p].todo = {} /\ store'[p].since = store[p].since
        /\ store'[p].at = "save" => store'[p].dirty
        /\ store'[p].at = "next" => store'[p].counted
        /\ store'[p].at = "idle" => store'[p].role = "serve"
    BY <1>8, <1>a, <1>b DEF Count, Becomes, SaveThen, Between, Store
  <2> QED BY <1>8, <1>b, <1>c, <2>1 DEF Count
<1>9. CASE Compacted(p)
  BY <1>9, <1>a, <1>b, <1>c DEF Compacted, Becomes, Store
<1>10. CASE FlushLoop(p)
  BY <1>10, <1>a, <1>b, <1>c DEF FlushLoop, SaveThen, Becomes, Store
<1>11. CASE EndLoop(p)
  BY <1>11, <1>a, <1>b, <1>c DEF EndLoop, LeaveLoop, Becomes, Store, Down
<1>12. CASE Stop(p)
  BY <1>12, <1>a, <1>b, <1>c DEF Stop, Leaving, SaveThen, Becomes, Store, Down
<1>13. CASE Save(p)
  <2>1. tmp' = {store[p].mem}
    BY <1>13, <1>a DEF Save, Spoilt
  <2> QED BY <1>13, <1>a, <1>b, <1>c, <2>1 DEF Save, Becomes, Store
<1>14. CASE Swap(p)
  BY <1>14, <1>a, <1>b, <1>c DEF Swap, Becomes, Store
<1>15. CASE TruncateMeta(p)
  BY <1>15, <1>a, <1>b, <1>c DEF TruncateMeta, Becomes, Store
<1>16. CASE WriteMeta(p)
  <2>1. /\ store'[p].at = store[p].after /\ store'[p].since = 0 /\ ~store'[p].dirty
        /\ store'[p].todo = store[p].todo /\ store'[p].mem = store[p].mem
        /\ store[p].after \notin Saving \cup {"embed", "unlink"}
    BY <1>16, <1>a DEF WriteMeta, Becomes, Store, Returns
  <2> QED BY <1>16, <1>b, <1>c, <2>1 DEF WriteMeta
<1>17. CASE EmbedFails(p)
  BY <1>17, <1>a, <1>b, <1>c DEF EmbedFails, Between, Becomes, Store, Down
<1>18. CASE SwapFails(p)
  BY <1>18, <1>a, <1>b DEF SwapFails
<1> QED BY <1>1, <1>2, <1>3, <1>4, <1>5, <1>6, <1>7, <1>8, <1>9, <1>10, <1>11, <1>12, <1>13,
           <1>14, <1>15, <1>16, <1>17, <1>18 DEF StoreStep

LEMMA InitOrderly == Init => StoresOrderly
BY DEF Init, StoresOrderly, At, Down

LEMMA OrderlyNext ==
    TypeOK /\ AllHonest /\ OneAtATime /\ StoresOrderly /\ [Next]_vars => StoresOrderly'
<1> SUFFICES ASSUME TypeOK, AllHonest, OneAtATime, StoresOrderly, [Next]_vars
             PROVE  StoresOrderly'
    OBVIOUS
<1>1. CASE \E p \in Stores : StoreStep(p)
  BY <1>1, OrderlyStep
<1>2. CASE ~\E p \in Stores : StoreStep(p)
  BY <1>2, OthersOutside DEF StoresOrderly, Orderly, Counted, Flagged, At
<1> QED BY <1>1, <1>2

\* All that the three theorems below rest on.
Ordered == TypeOK /\ AllHonest /\ OneAtATime /\ StoresOrderly

LEMMA AlwaysOrdered == Spec => []Ordered
BY TypeCorrect, AlwaysHonest, AlwaysAlone, InitOrderly, OrderlyNext, PTL DEF Spec, Ordered

\* A vector that is added completes no document but its own.
LEMMA GainsOne ==
    ASSUME Ordered, NEW p \in Stores, NEW v \in store[p].todo, NEW d \in Docs, d # v.doc,
           Embedded(store[p].mem \cup {v}, d)
    PROVE  Embedded(store[p].mem, d)
<1>1. v.id \notin chunks[d]
  BY DEF Ordered, AllHonest, Honest
<1> QED BY <1>1 DEF Embedded

\* What IndexDoc takes out of an index are vectors of the document it indexes.
LEMMA KeepsOthers ==
    ASSUME Ordered, NEW p \in Stores, NEW d \in Docs, NEW e \in Docs, e # d
    PROVE  Embedded({v \in store[p].mem : v.id \notin chunks[d]}, e)
                <=> Embedded(store[p].mem, e)
<1>1. \A v \in store[p].mem : v.id \in chunks[e] => v.id \notin chunks[d]
  BY DEF Ordered, AllHonest, Honest
<1> QED BY <1>1 DEF Embedded

\* The documents that only the memory of p has are no more than it has counted.
LagKept(p) == IsFiniteSet(AtRisk(p)) /\ Cardinality(AtRisk(p)) <= store[p].since

LagsKept == ~shared => \A p \in Stores : ~At(p, "down") => LagKept(p)

LEMMA NoRisk ==
    ASSUME NEW p, AtRisk(p)' = {}, store'[p].since \in Nat
    PROVE  LagKept(p)'
BY FS_EmptySet DEF LagKept

LEMMA RiskShrinks ==
    ASSUME Ordered, NEW p \in Stores, LagKept(p), AtRisk(p)' \subseteq AtRisk(p),
           store'[p].since = store[p].since
    PROVE  LagKept(p)'
<1>1. IsFiniteSet(AtRisk(p)') /\ Cardinality(AtRisk(p)') <= Cardinality(AtRisk(p))
  BY FS_Subset DEF LagKept
<1>2. Cardinality(AtRisk(p)') \in Nat /\ Cardinality(AtRisk(p)) \in Nat
  BY <1>1, FS_CardinalityType DEF LagKept
<1>3. store[p].since \in Nat
  BY DEF Ordered, TypeOK, Store
<1> QED BY <1>1, <1>2, <1>3 DEF LagKept

\* A step that leaves the index, the file and the rows as they are.
LEMMA NothingMoves ==
    ASSUME Ordered, NEW p \in Stores, LagKept(p), UNCHANGED <<rows, chunks, file>>,
           store'[p].mem = store[p].mem, store'[p].since = store[p].since
    PROVE  LagKept(p)'
BY RiskShrinks DEF AtRisk, Embedded

LEMMA IndexDocRisk ==
    ASSUME Ordered, NEW p \in Stores, LagKept(p), NEW d \in Docs, IndexDoc(p, d)
    PROVE  LagKept(p)'
<1> USE DEF files, searcher, history
<1>1. /\ store'[p].mem = {v \in store[p].mem : v.id \notin chunks[d]}
      /\ store'[p].since = store[p].since
  BY DEF IndexDoc, Becomes, Ordered, TypeOK, Store
<1>2. chunks'[d] = FreshIds(d) /\ (\A e \in Docs \ {d} : chunks'[e] = chunks[e])
      /\ rows' = rows \cup {d} /\ file' = file
  BY DEF IndexDoc, Ordered, TypeOK
<1>3. ASSUME NEW e \in AtRisk(p)' PROVE e \in AtRisk(p)
  <2>1. e \in rows' /\ Embedded(store[p].mem, e)' /\ ~Embedded(file, e)' /\ e \in Docs
    BY <1>2 DEF AtRisk, Ordered, TypeOK
  <2>2. CASE e = d
    <3>1. PICK i \in FreshIds(d) : TRUE
      BY <1>2, <2>1, <2>2 DEF Embedded
    <3>2. \A v \in store[p].mem : v.id # i
      BY <3>1, FreshIsNew DEF Ordered
    <3> QED BY <1>1, <1>2, <2>1, <2>2, <3>2 DEF Embedded
  <2>3. CASE e # d
    <3>1. Embedded(store[p].mem, e) /\ ~Embedded(file, e)
      BY <1>1, <1>2, <2>1, <2>3 DEF Embedded
    <3> QED BY <1>2, <2>1, <2>3, <3>1 DEF AtRisk
  <2> QED BY <2>2, <2>3
<1> QED BY <1>1, <1>3, RiskShrinks

LEMMA EmbedRisk ==
    ASSUME Ordered, NEW p \in Stores, LagKept(p), Embed(p), Orderly(store[p])
    PROVE  LagKept(p)'
<1> USE DEF sqlite, files, searcher, history
<1>1. PICK v \in store[p].todo :
         /\ store[p].todo # {v}
         /\ Becomes(p, [store[p] EXCEPT !.mem = @ \cup {v}, !.todo = @ \ {v}])
  BY DEF Embed, NextVector
<1>2. store'[p].mem = store[p].mem \cup {v} /\ store'[p].since = store[p].since
  BY <1>1 DEF Becomes, Ordered, TypeOK, Store
<1>3. UNCHANGED <<rows, chunks, file>>
  BY DEF Embed
<1>4. PICK w \in store[p].todo : w # v
  BY <1>1
<1>5. w.doc = v.doc /\ w.id \in chunks[v.doc] /\ \A x \in store[p].mem \cup {v} : x.id # w.id
  BY <1>4 DEF Orderly
<1>6. ASSUME NEW e \in AtRisk(p)' PROVE e \in AtRisk(p)
  <2>1. e \in rows /\ e \in Docs /\ Embedded(store[p].mem \cup {v}, e) /\ ~Embedded(file, e)
    BY <1>2, <1>3 DEF AtRisk, Ordered, TypeOK, Embedded
  <2>2. e # v.doc
    BY <1>5, <2>1 DEF Embedded
  <2> QED BY <2>1, <2>2, GainsOne DEF AtRisk
<1> QED BY <1>2, <1>6, RiskShrinks

LEMMA EmbedLastRisk ==
    ASSUME Ordered, NEW p \in Stores, LagKept(p), EmbedLast(p)
    PROVE  LagKept(p)'
<1> USE DEF sqlite, files, searcher, history
<1>1. PICK v \in store[p].todo :
        LET s == Tally([store[p] EXCEPT !.mem = @ \cup {v}, !.todo = {}])
        IN  Becomes(p, IF s.since >= PersistEvery
                       THEN SaveThen(s, "count") ELSE [s EXCEPT !.at = "count"])
  BY DEF EmbedLast
<1>2. store'[p].mem = store[p].mem \cup {v} /\ store'[p].since = store[p].since + 1
  BY <1>1 DEF Becomes, Tally, SaveThen, Ordered, TypeOK, Store
<1>3. UNCHANGED <<rows, chunks, file>>
  BY DEF EmbedLast
<1>4. ASSUME NEW e \in AtRisk(p)' PROVE e \in AtRisk(p) \cup {v.doc}
  <2>1. e \in rows /\ e \in Docs /\ Embedded(store[p].mem \cup {v}, e) /\ ~Embedded(file, e)
    BY <1>2, <1>3 DEF AtRisk, Ordered, TypeOK, Embedded
  <2> QED BY <2>1, GainsOne DEF AtRisk
<1> DEFINE wider == AtRisk(p) \cup {v.doc}
<1>5. IsFiniteSet(wider) /\ Cardinality(wider) <= Cardinality(AtRisk(p)) + 1
  <2>1. IsFiniteSet(AtRisk(p)) /\ Cardinality(AtRisk(p)) \in Nat
    BY FS_CardinalityType DEF LagKept
  <2> QED BY <2>1, FS_AddElement
<1>6. IsFiniteSet(AtRisk(p)') /\ Cardinality(AtRisk(p)') <= Cardinality(wider)
  BY <1>4, <1>5, FS_Subset
<1>7. /\ Cardinality(AtRisk(p)') \in Nat /\ Cardinality(wider) \in Nat
      /\ Cardinality(AtRisk(p)) \in Nat /\ store[p].since \in Nat
  BY <1>5, <1>6, FS_CardinalityType DEF LagKept, Ordered, TypeOK, Store
<1> HIDE DEF wider
<1> QED BY <1>2, <1>5, <1>6, <1>7 DEF LagKept

LEMMA LagStep ==
    ASSUME Ordered, LagsKept, NEW p \in Stores, StoreStep(p)
    PROVE  LagsKept'
<1> SUFFICES ASSUME ~shared', ~At(p, "down")' PROVE LagKept(p)'
  BY Alone DEF LagsKept, Ordered
<1>a. /\ ~shared /\ store[p] \in Store /\ store'[p] \in Store /\ store \in [Stores -> Store]
  BY Alone DEF TypeOK, Ordered
<1>b. ~At(p, "down") => LagKept(p) /\ Orderly(store[p])
  BY <1>a DEF LagsKept, StoresOrderly, Ordered
<1>n. store'[p].since \in Nat
  BY <1>a DEF Store
<1> USE DEF At, sqlite, files, searcher, history
<1>1. ASSUME NEW r \in Openings, Open(p, r) PROVE LagKept(p)'
  <2>1. store'[p].mem \in {{}, file} /\ UNCHANGED <<rows, chunks, file>>
    BY <1>1, <1>a DEF Open, Becomes, Load, Down
  <2>2. AtRisk(p)' = {}
    BY <2>1 DEF AtRisk, Embedded
  <2> QED BY <1>n, <2>2, NoRisk
<1>2. CASE Compact(p) \/ Stopped(p) \/ Crash(p)
  BY <1>2, <1>a DEF Compact, Stopped, Crash, Becomes, Down
<1>3. CASE Clear(p)
  <2>1. AtRisk(p)' = {}
    BY <1>3 DEF Clear, AtRisk
  <2> QED BY <1>n, <2>1, NoRisk
<1>4. CASE Unlink(p)
  <2>1. rows' = {}
    BY <1>4, <1>b DEF Unlink, Orderly
  <2>2. AtRisk(p)' = {}
    BY <2>1 DEF AtRisk
  <2> QED BY <1>n, <2>2, NoRisk
<1>5. ASSUME NEW d \in Docs, IndexDoc(p, d) PROVE LagKept(p)'
  BY <1>5, <1>b, IndexDocRisk DEF IndexDoc, Wanted
<1>6. CASE Embed(p)
  BY <1>6, <1>b, EmbedRisk DEF Embed
<1>7. CASE EmbedLast(p)
  BY <1>7, <1>b, EmbedLastRisk DEF EmbedLast
<1>8. CASE Count(p)
  <2>1. store'[p].mem = store[p].mem /\ store'[p].since = store[p].since
    BY <1>8, <1>a DEF Count, Becomes, SaveThen, Store
  <2> QED BY <1>8, <1>b, <2>1, NothingMoves DEF Count
<1>9. CASE Compacted(p)
  <2>1. store'[p].mem = store[p].mem /\ store'[p].since = store[p].since
    BY <1>9, <1>a DEF Compacted, Becomes, Store
  <2> QED BY <1>9, <1>b, <2>1, NothingMoves DEF Compacted
<1>10. CASE FlushLoop(p) \/ EndLoop(p) \/ Stop(p)
  <2>1. store'[p].mem = store[p].mem /\ store'[p].since = store[p].since
    <3>1. CASE FlushLoop(p)
      BY <3>1, <1>a DEF FlushLoop, SaveThen, Becomes, Store
    <3>2. CASE EndLoop(p)
      BY <3>2, <1>a DEF EndLoop, LeaveLoop, Becomes, Store, Down
    <3>3. CASE Stop(p)
      BY <3>3, <1>a DEF Stop, Leaving, SaveThen, Becomes, Store, Down
    <3> QED BY <1>10, <3>1, <3>2, <3>3
  <2> QED BY <1>10, <1>b, <2>1, NothingMoves DEF FlushLoop, EndLoop, Stop
<1>11. CASE Save(p) \/ TruncateMeta(p)
  <2>1. store'[p].mem = store[p].mem /\ store'[p].since = store[p].since
    BY <1>11, <1>a DEF Save, TruncateMeta, Becomes, Store
  <2> QED BY <1>11, <1>b, <2>1, NothingMoves DEF Save, TruncateMeta
<1>12. CASE Swap(p)
  <2>1. file' = store[p].mem /\ store'[p].mem = store[p].mem
    BY <1>12, <1>a, <1>b DEF Swap, Orderly, Becomes, Store
  <2>2. AtRisk(p)' = {}
    BY <2>1 DEF AtRisk, Embedded
  <2> QED BY <1>n, <2>2, NoRisk
<1>13. CASE WriteMeta(p)
  <2>1. file' = store[p].mem /\ store'[p].mem = store[p].mem
    BY <1>13, <1>a, <1>b DEF WriteMeta, Orderly, Becomes, Store
  <2>2. AtRisk(p)' = {}
    BY <2>1 DEF AtRisk, Embedded
  <2> QED BY <1>n, <2>2, NoRisk
<1>14. CASE EmbedFails(p)
  <2>1. store'[p].mem = store[p].mem /\ store'[p].since = store[p].since
    BY <1>14, <1>a DEF EmbedFails, Becomes, Store, Down
  <2> QED BY <1>14, <1>b, <2>1, NothingMoves DEF EmbedFails
<1>15. CASE SwapFails(p)
  BY <1>15, <1>b DEF SwapFails, Orderly
<1> QED BY <1>1, <1>2, <1>3, <1>4, <1>5, <1>6, <1>7, <1>8, <1>9, <1>10, <1>11, <1>12, <1>13,
           <1>14, <1>15 DEF StoreStep

\* With one store after another, a crash costs no more documents than VECTOR_PERSIST_EVERY.
THEOREM LagBounded == Spec => []SaveLagBounded
<1>1. Init => LagsKept
  BY DEF Init, LagsKept, At, Down
<1>2. Ordered /\ LagsKept /\ [Next]_vars => LagsKept'
  <2> SUFFICES ASSUME Ordered, LagsKept, [Next]_vars PROVE LagsKept'
    OBVIOUS
  <2>1. CASE \E p \in Stores : StoreStep(p)
    BY <2>1, LagStep
  <2>2. CASE ~\E p \in Stores : StoreStep(p)
    BY <2>2, OthersOutside DEF LagsKept, LagKept, AtRisk, Embedded, At
  <2> QED BY <2>1, <2>2
<1>3. Ordered /\ LagsKept => SaveLagBounded
  BY DEF Ordered, StoresOrderly, Counted, LagsKept, LagKept, SaveLagBounded
<1> QED BY <1>1, <1>2, <1>3, AlwaysOrdered, PTL DEF Spec
-----------------------------------------------------------------------------
(* What the file has, a store that began with it has too. *)

\* Indexing gives a document new chunks, so the file no longer has it, unless it has none.
LEMMA IndexDocMoves ==
    ASSUME Ordered, NEW p \in Stores, NEW d \in Docs, IndexDoc(p, d)
    PROVE  /\ store'[p].mem = {v \in store[p].mem : v.id \notin chunks[d]}
           /\ chunks'[d] = FreshIds(d) /\ \A e \in Docs \ {d} : chunks'[e] = chunks[e]
           /\ rows' = rows \cup {d} /\ UNCHANGED <<file, meta, model, shared, faults>>
           /\ Embedded(file, d)' => chunks'[d] = {}
<1>1. store'[p].mem = {v \in store[p].mem : v.id \notin chunks[d]}
  BY DEF IndexDoc, Becomes, Ordered, TypeOK, Store
<1>2. /\ chunks'[d] = FreshIds(d) /\ \A e \in Docs \ {d} : chunks'[e] = chunks[e]
      /\ rows' = rows \cup {d} /\ UNCHANGED <<file, meta, model, shared, faults>>
  BY DEF IndexDoc, files, history, Ordered, TypeOK
<1>3. \A i \in FreshIds(d) : \A v \in file : v.id # i
  BY FreshIsNew DEF Ordered
<1> QED BY <1>1, <1>2, <1>3 DEF Embedded

\* A step that leaves rows, file and meta alone and takes nothing from the index.
LEMMA FileKeptStands ==
    ASSUME NEW p,
           meta = store[p].using =>
              \A d \in rows : Embedded(file, d) => Embedded(store[p].mem, d),
           UNCHANGED <<rows, chunks, file, meta>>,
           store'[p].using = store[p].using, store[p].mem \subseteq store'[p].mem
    PROVE  (meta = store[p].using =>
              \A d \in rows : Embedded(file, d) => Embedded(store[p].mem, d))'
BY DEF Embedded

LEMMA FileKeptStep ==
    ASSUME Ordered, FileKept, NEW p \in Stores, StoreStep(p)
    PROVE  FileKept'
<1> DEFINE Has == meta = store[p].using =>
                    \A d \in rows : Embedded(file, d) => Embedded(store[p].mem, d)
<1> SUFFICES ASSUME ~shared', ~At(p, "down")' PROVE Has'
  BY Alone DEF FileKept, Ordered
<1>a. /\ ~shared /\ store[p] \in Store /\ store'[p] \in Store /\ store \in [Stores -> Store]
  BY Alone DEF TypeOK, Ordered
<1>b. ~At(p, "down") => Has /\ Orderly(store[p])
  BY <1>a DEF FileKept, StoresOrderly, Ordered
<1> USE DEF At, sqlite, files, searcher, history
<1>1. ASSUME NEW r \in Openings, Open(p, r) PROVE Has'
  <2>1. /\ store'[p].mem = Load(model) /\ store'[p].using = model
        /\ UNCHANGED <<rows, chunks, file, meta>>
    BY <1>1, <1>a DEF Open, Becomes, Down
  <2> QED BY <2>1 DEF Load, Embedded
<1>2. CASE Compact(p) \/ Stopped(p) \/ Crash(p)
  BY <1>2, <1>a DEF Compact, Stopped, Crash, Becomes, Down
<1>3. CASE Clear(p)
  BY <1>3 DEF Clear
<1>4. CASE Unlink(p)
  BY <1>4, <1>b DEF Unlink, Orderly
<1>5. ASSUME NEW d \in Docs, IndexDoc(p, d) PROVE Has'
  <2>1. store'[p].using = store[p].using
    BY <1>5, <1>a DEF IndexDoc, Becomes, Store
  <2>2. ASSUME meta = store[p].using, NEW e \in rows', Embedded(file, e)'
        PROVE  Embedded(store[p].mem, e)'
    <3>1. CASE e = d
      BY <1>5, <2>2, <3>1, IndexDocMoves DEF Embedded
    <3>2. CASE e # d
      <4>1. e \in Docs /\ e \in rows /\ Embedded(file, e)
        BY <1>5, <2>2, <3>2, IndexDocMoves DEF Embedded, Ordered, TypeOK
      <4>2. Embedded(store[p].mem, e)
        BY <1>5, <1>b, <2>2, <4>1 DEF IndexDoc, Wanted
      <4> QED BY <1>5, <3>2, <4>1, <4>2, IndexDocMoves, KeepsOthers DEF Embedded
    <3> QED BY <3>1, <3>2
  <2>3. meta' = meta
    BY <1>5 DEF IndexDoc
  <2> QED BY <2>1, <2>2, <2>3
<1>6. CASE Embed(p) \/ EmbedLast(p) \/ Count(p) \/ Compacted(p) \/ FlushLoop(p) \/ Stop(p)
           \/ Save(p) \/ EmbedFails(p)
  <2>1. ~At(p, "down") /\ UNCHANGED <<rows, chunks, file, meta>>
    BY <1>6 DEF Embed, EmbedLast, Count, Compacted, FlushLoop, Stop, Save, EmbedFails
  <2>2. store'[p].using = store[p].using /\ store[p].mem \subseteq store'[p].mem
    <3>1. CASE Embed(p)
      BY <3>1, <1>a DEF Embed, Becomes, Store
    <3>2. CASE EmbedLast(p)
      BY <3>2, <1>a DEF EmbedLast, Tally, SaveThen, Becomes, Store
    <3>3. CASE Count(p)
      BY <3>3, <1>a DEF Count, SaveThen, Becomes, Store
    <3>4. CASE Compacted(p)
      BY <3>4, <1>a DEF Compacted, Becomes, Store
    <3>7. CASE FlushLoop(p)
      BY <3>7, <1>a DEF FlushLoop, SaveThen, Becomes, Store
    <3>8. CASE Save(p)
      BY <3>8, <1>a DEF Save, Becomes, Store
    <3>5. CASE Stop(p)
      BY <3>5, <1>a DEF Stop, Leaving, SaveThen, Becomes, Store, Down
    <3>6. CASE EmbedFails(p)
      BY <3>6, <1>a DEF EmbedFails, Becomes, Store, Down
    <3> QED BY <1>6, <3>1, <3>2, <3>3, <3>4, <3>5, <3>6, <3>7, <3>8
  <2> QED BY <1>b, <2>1, <2>2, FileKeptStands
<1>7. CASE EndLoop(p)
  <2>1. store'[p].using = store[p].using /\ store[p].mem \subseteq store'[p].mem
    BY <1>7, <1>a DEF EndLoop, LeaveLoop, Becomes, Store, Down
  <2> QED BY <1>7, <1>b, <2>1, FileKeptStands DEF EndLoop
<1>8. CASE Swap(p) \/ TruncateMeta(p) \/ WriteMeta(p)
  <2>1. file' = store[p].mem /\ store'[p].mem = store[p].mem
    <3>1. CASE Swap(p)
      BY <3>1, <1>a, <1>b DEF Swap, Orderly, Becomes, Store
    <3>2. CASE TruncateMeta(p)
      BY <3>2, <1>a, <1>b DEF TruncateMeta, Orderly, Becomes, Store
    <3>3. CASE WriteMeta(p)
      BY <3>3, <1>a, <1>b DEF WriteMeta, Orderly, Becomes, Store
    <3> QED BY <1>8, <3>1, <3>2, <3>3
  <2> QED BY <2>1 DEF Embedded
<1>9. CASE SwapFails(p)
  BY <1>9, <1>b DEF SwapFails, Orderly
<1> QED BY <1>1, <1>2, <1>3, <1>4, <1>5, <1>6, <1>7, <1>8, <1>9 DEF StoreStep

LEMMA AlwaysFileKept == Spec => []FileKept
<1>1. Init => FileKept
  BY DEF Init, FileKept, At, Down
<1>2. Ordered /\ FileKept /\ [Next]_vars => FileKept'
  <2> SUFFICES ASSUME Ordered, FileKept, [Next]_vars PROVE FileKept'
    OBVIOUS
  <2>1. CASE \E p \in Stores : StoreStep(p)
    BY <2>1, FileKeptStep
  <2>2. CASE ~\E p \in Stores : StoreStep(p)
    BY <2>2, OthersOutside DEF FileKept, Embedded, At
  <2> QED BY <2>1, <2>2
<1> QED BY <1>1, <1>2, AlwaysOrdered, PTL DEF Spec

\* Only a swap and the unlinking of a rebuild change the file.
LEMMA FileMoves ==
    ASSUME NEW p \in Stores, StoreStep(p), ~Swap(p), ~Unlink(p)
    PROVE  file' = file
BY DEF StoreStep, Open, Compact, Clear, IndexDoc, Embed, EmbedLast, Count, Compacted, FlushLoop,
       EndLoop, Stop, Stopped, Save, TruncateMeta, WriteMeta, EmbedFails, SwapFails, Crash, files

\* While a store of the model that the meta file names is open, whatever model is set, no save
\* and no rebuild takes from the disk a document that search still has as it was.
THEOREM SavesLoseNothing == Spec => SavedSurvive
<1> DEFINE Survives == ~shared' /\ (\A p \in Stores : At(p, "down") \/ store[p].using = meta) =>
                         \A d \in rows : Embedded(file, d) /\ chunks'[d] = chunks[d]
                                         => Embedded(file, d)'
<1>1. Ordered /\ FileKept /\ [Next]_vars => Survives
  <2> SUFFICES ASSUME Ordered, FileKept, [Next]_vars, ~shared',
                      \A p \in Stores : At(p, "down") \/ store[p].using = meta,
                      NEW d \in rows, Embedded(file, d), chunks'[d] = chunks[d]
               PROVE  Embedded(file, d)'
    OBVIOUS
  <2>1. CASE file' = file
    BY <2>1 DEF Embedded
  <2>2. ASSUME NEW p \in Stores, StoreStep(p), Swap(p) \/ Unlink(p) PROVE Embedded(file, d)'
    <3>1. ~shared /\ ~At(p, "down") /\ store[p] \in Store
      BY <2>2, Alone DEF Ordered, Swap, Unlink, At
    <3>2. Orderly(store[p])
      BY <3>1 DEF Ordered, StoresOrderly
    <3>3. Swap(p)
      BY <2>2, <3>2 DEF Unlink, Orderly, At
    <3>4. file' = store[p].mem
      BY <3>2, <3>3 DEF Swap, Orderly, At
    <3>5. meta = store[p].using
      BY <3>1
    <3>6. Embedded(store[p].mem, d)
      BY <3>1, <3>5 DEF FileKept
    <3> QED BY <3>4, <3>6 DEF Embedded
  <2>3. CASE \E p \in Stores : StoreStep(p)
    BY <2>1, <2>2, <2>3, FileMoves
  <2>4. CASE ~\E p \in Stores : StoreStep(p)
    BY <2>1, <2>4, OthersOutside
  <2> QED BY <2>3, <2>4
<1>2. Spec => []Ordered /\ []FileKept /\ [][Next]_vars
  BY AlwaysOrdered, AlwaysFileKept, PTL DEF Spec
<1>3. Spec => [][Survives]_vars
  BY <1>1, <1>2, PTL
<1> QED BY <1>3, PTL DEF SavedSurvive
-----------------------------------------------------------------------------
(* Without a failure no document is forgotten. *)

\* What the store p has of the rows, the document in hand included.
HasAll(p) == \A d \in rows : Embedded(store[p].mem \cup store[p].todo, d)

LEMMA HasAllStands ==
    ASSUME NEW p, HasAll(p), UNCHANGED <<rows, chunks>>,
           store[p].mem \cup store[p].todo \subseteq store'[p].mem \cup store'[p].todo
    PROVE  HasAll(p)'
BY DEF HasAll, Embedded

LEMMA LoadedStands ==
    ASSUME AllLoaded, UNCHANGED <<rows, chunks, file, meta>>
    PROVE  AllLoaded'
BY DEF AllLoaded, Load, Embedded

\* A store keeps the model it was opened with.
LEMMA UsingStays ==
    ASSUME TypeOK, NEW p \in Stores, StoreStep(p)
    PROVE  \A q \in Stores : store'[q].using \in {store[q].using, model, 1}
<1>0. store[p] \in Store /\ store \in [Stores -> Store]
  BY DEF TypeOK
<1> USE DEF Becomes
<1>1. CASE \E r \in Openings : Open(p, r)
  BY <1>0, <1>1 DEF Open, Down
<1>2. CASE Compact(p) \/ Stopped(p) \/ Crash(p)
  BY <1>0, <1>2 DEF Compact, Stopped, Crash, Down
<1>3. CASE Clear(p)
  BY <1>0, <1>3 DEF Clear, Store
<1>14. CASE Unlink(p)
  BY <1>0, <1>14 DEF Unlink, Store
<1>15. CASE Compacted(p)
  BY <1>0, <1>15 DEF Compacted, Store
<1>4. CASE \E d \in Docs : IndexDoc(p, d)
  BY <1>0, <1>4 DEF IndexDoc, Store
<1>5. CASE Embed(p)
  BY <1>0, <1>5 DEF Embed, Store
<1>6. CASE EmbedLast(p)
  BY <1>0, <1>6 DEF EmbedLast, Tally, SaveThen, Store
<1>7. CASE Count(p)
  BY <1>0, <1>7 DEF Count, SaveThen, Store
<1>8. CASE FlushLoop(p)
  BY <1>0, <1>8 DEF FlushLoop, SaveThen, Store
<1>9. CASE EndLoop(p)
  BY <1>0, <1>9 DEF EndLoop, LeaveLoop, Store, Down
<1>10. CASE Stop(p)
  BY <1>0, <1>10 DEF Stop, Leaving, SaveThen, Store, Down
<1>11. CASE Save(p) \/ Swap(p) \/ TruncateMeta(p)
  BY <1>0, <1>11 DEF Save, Swap, TruncateMeta, Store
<1>16. CASE WriteMeta(p)
  BY <1>0, <1>16 DEF WriteMeta, Store
<1>12. CASE EmbedFails(p)
  BY <1>0, <1>12 DEF EmbedFails, Store, Down
<1>13. CASE SwapFails(p)
  BY <1>0, <1>13 DEF SwapFails, AfterFailedSave, LeaveLoop, Store, Down
<1> QED BY <1>1, <1>2, <1>3, <1>4, <1>5, <1>6, <1>7, <1>8, <1>9, <1>10, <1>11, <1>12, <1>13,
           <1>14, <1>15, <1>16 DEF StoreStep

\* Until the operator changes the model, every store is of the first.
LEMMA AlwaysFirst == Spec => []FirstModel
<1>1. Init => FirstModel
  BY DEF Init, FirstModel, Down
<1>2. TypeOK /\ FirstModel /\ [Next]_vars => FirstModel'
  <2> SUFFICES ASSUME TypeOK, FirstModel, [Next]_vars, ~changed' PROVE FirstModel'
    BY DEF FirstModel
  <2>1. ASSUME NEW p \in Stores, StoreStep(p) PROVE FirstModel'
    <3>1. changed' = changed
      BY <2>1 DEF StoreStep, Open, Compact, Clear, Unlink, IndexDoc, Embed, EmbedLast, Count,
           Compacted, FlushLoop, EndLoop, Stop, Stopped, Save, Swap, TruncateMeta, WriteMeta,
           EmbedFails, SwapFails, Crash, history
    <3>3. model' = model
      BY <2>1 DEF StoreStep, Open, Compact, Clear, Unlink, IndexDoc, Embed, EmbedLast, Count,
           Compacted, FlushLoop, EndLoop, Stop, Stopped, Save, Swap, TruncateMeta, WriteMeta,
           EmbedFails, SwapFails, Crash
    <3>2. \A q \in Stores : store'[q].using \in {store[q].using, model, 1}
      BY <2>1, UsingStays
    <3> QED BY <3>1, <3>2, <3>3 DEF FirstModel
  <2>2. CASE LoadIndex \/ RestartSearcher \/ UNCHANGED vars
    BY <2>2 DEF LoadIndex, RestartSearcher, vars, history, FirstModel
  <2>3. ~ChangeModel
    BY DEF ChangeModel
  <2> QED BY <2>1, <2>2, <2>3 DEF Next
<1> QED BY <1>1, <1>2, TypeCorrect, PTL DEF Spec

LEMMA NoneForgottenStep ==
    ASSUME Ordered, FirstModel, NoneForgotten, NEW p \in Stores, StoreStep(p)
    PROVE  NoneForgotten'
<1> DEFINE Held == HasAll(p) /\ (~store[p].dirty /\ ~At(p, "embed") => AllLoaded)
<1> SUFFICES ASSUME faults' = 0, ~changed', ~shared'
             PROVE  IF At(p, "down")' THEN AllLoaded' ELSE Held'
  BY Alone DEF NoneForgotten, HasAll, Ordered
<1>a. /\ ~shared /\ store[p] \in Store /\ store'[p] \in Store /\ store \in [Stores -> Store]
      /\ \A q \in Stores \ {p} : At(q, "down")
  BY Alone DEF TypeOK, Ordered
<1>b. ~changed /\ model = 1 /\ faults = 0 /\ ~Crash(p) /\ ~EmbedFails(p)
  <2>0. ~changed
    BY DEF StoreStep, Open, Compact, Clear, Unlink, IndexDoc, Embed, EmbedLast, Count,
           Compacted, FlushLoop, EndLoop, Stop, Stopped, Save, Swap, TruncateMeta, WriteMeta,
           EmbedFails, SwapFails, Crash, history
  <2>1. model = 1
    BY <2>0 DEF FirstModel
  <2>2. faults \in Nat
    BY VectorAssumption DEF Ordered, TypeOK
  <2>3. ~Crash(p) /\ ~EmbedFails(p)
    BY <2>2 DEF Crash, EmbedFails
  <2>4. faults = 0
    BY <2>3 DEF StoreStep, Open, Compact, Clear, Unlink, IndexDoc, Embed, EmbedLast, Count,
                Compacted, FlushLoop, EndLoop, Stop, Stopped, Save, Swap, TruncateMeta,
                WriteMeta, SwapFails
  <2> QED BY <2>0, <2>1, <2>3, <2>4
<1>c. IF At(p, "down") THEN AllLoaded ELSE Held /\ Orderly(store[p]) /\ Flagged(store[p])
  BY <1>a, <1>b DEF NoneForgotten, HasAll, StoresOrderly, Ordered
<1>d. store[p].using = 1
  BY <1>b DEF FirstModel
<1> USE DEF At, sqlite, files, searcher, history, Flagged, Saving
<1>1. ASSUME NEW r \in Openings, Open(p, r) PROVE AllLoaded' /\ HasAll(p)'
  <2>1. /\ store'[p].mem = Load(1) /\ AllLoaded /\ UNCHANGED <<rows, chunks, file, meta>>
    BY <1>1, <1>a, <1>b, <1>c DEF Open, Becomes, Down
  <2> QED BY <2>1 DEF AllLoaded, HasAll, Load, Embedded
<1>2. CASE Compact(p) \/ Stopped(p)
  <2>1. AllLoaded /\ store'[p] = Down /\ UNCHANGED <<rows, chunks, file, meta>>
    BY <1>2, <1>a, <1>c DEF Compact, Stopped, Becomes
  <2> QED BY <2>1, LoadedStands DEF Down
<1>3. CASE Clear(p)
  <2>1. rows' = {} /\ store'[p].at = "unlink"
    BY <1>3, <1>a DEF Clear, Becomes, Store
  <2> QED BY <2>1 DEF HasAll, AllLoaded
<1>4. CASE Unlink(p)
  <2>1. rows' = {} /\ store'[p].at = "next"
    BY <1>4, <1>a, <1>c DEF Unlink, Orderly, Becomes, Store
  <2> QED BY <2>1 DEF HasAll, AllLoaded
<1>5. ASSUME NEW d \in Docs, IndexDoc(p, d) PROVE Held' /\ ~At(p, "down")'
  <2>1. /\ store'[p].todo = {[id |-> i, doc |-> d, model |-> store[p].using] : i \in FreshIds(d)}
        /\ store'[p].at = (IF ChunksOf[d] = 0 THEN "count" ELSE "embed")
        /\ store'[p].dirty = store[p].dirty
    BY <1>5, <1>a DEF IndexDoc, Becomes, Store
  <2>2. store[p].at \in {"idle", "next"} /\ store[p].todo = {}
    BY <1>5, <1>c DEF IndexDoc, Wanted, Orderly
  <2>3. ASSUME NEW e \in rows' PROVE Embedded(store[p].mem \cup store[p].todo, e)'
    <3>1. CASE e = d
      <4>1. chunks'[d] = FreshIds(d)
        BY <1>5, IndexDocMoves
      <4>2. ASSUME NEW i \in FreshIds(d) PROVE i \in {v.id : v \in store'[p].todo}
        <5> DEFINE w == [id |-> i, doc |-> d, model |-> store[p].using]
        <5>1. w \in store'[p].todo /\ w.id = i
          BY <2>1
        <5> QED BY <5>1
      <4> QED BY <3>1, <4>1, <4>2 DEF Embedded
    <3>2. CASE e # d
      <4>1. e \in Docs /\ e \in rows /\ chunks'[e] = chunks[e]
        BY <1>5, <3>2, IndexDocMoves DEF Ordered, TypeOK
      <4>2. Embedded(store[p].mem, e)
        BY <1>c, <2>2, <4>1 DEF HasAll, Embedded
      <4> QED BY <1>5, <3>2, <4>1, <4>2, IndexDocMoves, KeepsOthers DEF Embedded
    <3> QED BY <3>1, <3>2
  <2>4. ASSUME ~store'[p].dirty, ~At(p, "embed")', NEW e \in rows'
        PROVE  Embedded(Load(1), e)'
    <3>1. FreshIds(d) = {}
      BY <2>1, <2>4, VectorAssumption DEF FreshIds, Ordered, TypeOK
    <3>2. CASE e = d
      BY <1>5, <3>1, <3>2, IndexDocMoves DEF Embedded
    <3>3. CASE e # d
      <4>1. e \in rows /\ chunks'[e] = chunks[e]
        BY <1>5, <3>3, IndexDocMoves DEF Ordered, TypeOK
      <4>2. Embedded(Load(1), e)
        BY <1>c, <2>1, <2>2, <2>4, <4>1 DEF AllLoaded
      <4> QED BY <1>5, <4>1, <4>2, IndexDocMoves DEF Embedded, Load
    <3> QED BY <3>2, <3>3
  <2> QED BY <2>1, <2>3, <2>4 DEF HasAll, AllLoaded
<1>6. CASE Embed(p)
  <2>1. /\ store'[p].at = "embed"
        /\ store[p].mem \cup store[p].todo \subseteq store'[p].mem \cup store'[p].todo
    <3>1. PICK v \in store[p].todo :
             Becomes(p, [store[p] EXCEPT !.mem = @ \cup {v}, !.todo = @ \ {v}])
      BY <1>6 DEF Embed, NextVector
    <3> QED BY <1>6, <1>a, <3>1 DEF Embed, Becomes, Store
  <2>2. HasAll(p)'
    BY <1>6, <1>c, <2>1, HasAllStands DEF Embed
  <2> QED BY <2>1, <2>2
<1>7. CASE EmbedLast(p)
  <2>1. PICK v \in store[p].todo :
          /\ store[p].todo = {v}
          /\ LET s == Tally([store[p] EXCEPT !.mem = @ \cup {v}, !.todo = {}])
             IN  Becomes(p, IF s.since >= PersistEvery
                            THEN SaveThen(s, "count") ELSE [s EXCEPT !.at = "count"])
    BY <1>7 DEF EmbedLast
  <2>2. /\ store'[p].mem = store[p].mem \cup {v} /\ store'[p].dirty
        /\ store'[p].at \in {"save", "count"}
    BY <1>a, <2>1 DEF Becomes, Tally, SaveThen, Store
  <2>3. HasAll(p)'
    BY <1>7, <1>c, <2>1, <2>2, HasAllStands DEF EmbedLast
  <2> QED BY <2>2, <2>3
<1>8. ASSUME UNCHANGED <<rows, chunks, file, meta>>, ~At(p, "down"), ~At(p, "embed"),
             IF At(p, "down")' THEN ~store[p].dirty
             ELSE /\ store'[p].mem = store[p].mem /\ store'[p].todo = store[p].todo
                  /\ store'[p].dirty = store[p].dirty
      PROVE  IF At(p, "down")' THEN AllLoaded' ELSE Held'
  BY <1>8, <1>c, LoadedStands, HasAllStands
<1>9. CASE Count(p)
  BY <1>9, <1>8, <1>a DEF Count, SaveThen, Between, Becomes, Store
<1>10. CASE Compacted(p)
  BY <1>10, <1>8, <1>a DEF Compacted, Becomes, Store
<1>11. CASE FlushLoop(p)
  BY <1>11, <1>8, <1>a DEF FlushLoop, SaveThen, Becomes, Store
<1>12. CASE EndLoop(p)
  <2>1. ~store[p].dirty
    BY <1>12, <1>c DEF EndLoop
  <2> QED BY <1>12, <1>8, <1>a, <2>1 DEF EndLoop, LeaveLoop, Becomes, Store, Down
<1>13. CASE Stop(p)
  BY <1>13, <1>8, <1>a DEF Stop, Leaving, SaveThen, Becomes, Store, Down
<1>14. CASE Save(p)
  BY <1>14, <1>8, <1>a DEF Save, Becomes, Store
<1>15. CASE Swap(p) \/ TruncateMeta(p)
  <2>1. /\ UNCHANGED <<rows, chunks>> /\ store'[p].mem = store[p].mem
        /\ store'[p].todo = store[p].todo /\ store'[p].dirty /\ store'[p].at # "down"
    <3>1. CASE Swap(p)
      BY <3>1, <1>a, <1>c DEF Swap, Becomes, Store
    <3>2. CASE TruncateMeta(p)
      BY <3>2, <1>a, <1>c DEF TruncateMeta, Becomes, Store
    <3> QED BY <1>15, <3>1, <3>2
  <2>2. HasAll(p)'
    BY <1>15, <1>c, <2>1, HasAllStands DEF Swap, TruncateMeta
  <2> QED BY <2>1, <2>2
<1>16. CASE WriteMeta(p)
  <2>1. /\ UNCHANGED <<rows, chunks, file>> /\ meta' = 1 /\ file = store[p].mem
        /\ store'[p].mem = store[p].mem /\ store'[p].todo = {} /\ store[p].todo = {}
    BY <1>16, <1>a, <1>c, <1>d DEF WriteMeta, Orderly, Becomes, Store
  <2>2. HasAll(p)
    BY <1>16, <1>c DEF WriteMeta
  <2> QED BY <2>1, <2>2 DEF HasAll, AllLoaded, Load, Embedded
<1>17. CASE SwapFails(p)
  BY <1>17, <1>c DEF SwapFails, Orderly
<1> QED BY <1>b, <1>1, <1>2, <1>3, <1>4, <1>5, <1>6, <1>7, <1>9, <1>10, <1>11, <1>12, <1>13,
           <1>14, <1>15, <1>16, <1>17 DEF StoreStep

\* Without a failure and with one model, an indexer that has nothing in hand has the vectors
\* of every document of search, through any number of restarts, replays and rebuilds.
THEOREM NoneIsForgotten == Spec => []NothingForgotten
<1>1. Init => NoneForgotten
  BY DEF Init, NoneForgotten, AllLoaded, At, Down
<1>2. Ordered /\ FirstModel /\ NoneForgotten /\ [Next]_vars => NoneForgotten'
  <2> SUFFICES ASSUME Ordered, FirstModel, NoneForgotten, [Next]_vars PROVE NoneForgotten'
    OBVIOUS
  <2>1. CASE \E p \in Stores : StoreStep(p)
    BY <2>1, NoneForgottenStep
  <2>2. CASE ~\E p \in Stores : StoreStep(p)
    <3>1. UNCHANGED <<rows, chunks, file, meta, store, shared, faults>>
      BY <2>2, OthersOutside
    <3>2. ~changed' => ~changed
      BY <2>2 DEF Next, LoadIndex, RestartSearcher, ChangeModel, vars, history
    <3> QED BY <3>1, <3>2 DEF NoneForgotten, AllLoaded, Load, Embedded, At
  <2> QED BY <2>1, <2>2
<1>3. Ordered /\ NoneForgotten => NothingForgotten
  BY DEF Ordered, StoresOrderly, Orderly, NoneForgotten, NothingForgotten, Embedded, At
<1> QED BY <1>1, <1>2, <1>3, AlwaysOrdered, AlwaysFirst, PTL DEF Spec
=============================================================================
