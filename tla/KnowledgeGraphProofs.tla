------------------------ MODULE KnowledgeGraphProofs ------------------------
(***************************************************************************)
(* For any URLs, digests and number of captures: the graph never counts    *)
(* two captures of a URL, whoever ingests and whatever comes back; all its *)
(* steps are steps of ActiveGraph; and where ingests are handled in turn,  *)
(* the capture that counts is the latest.                                  *)
(***************************************************************************)
EXTENDS KnowledgeGraph, FiniteSetTheorems, TLAPS

\* Who ingests has a record in hand, a record is filed under its digest, and a rebuild
\* lists only files there are.
Handed == /\ \A p \in Ingestors : pc[p] \in {"look", "write", "ack"} => hand[p] # None
          /\ \A d \in Docs : record[d] # None => record[d].doc = d
          /\ \A r \in paths : record[r.doc] # None

\* Now counts the captures.
Typed == TypeOK /\ Handed /\ IsFiniteSet(log)

LEMMA InitTyped == Init => Typed
  BY GraphAssumption, FS_EmptySet DEF Init, Typed, TypeOK, Handed, Ingestors, Slips

LEMMA RecordTyped ==
  ASSUME NEW c \in Capture, writes \in 0..MaxWrites, writes < MaxWrites
  PROVE  /\ RecordOf(c) \in Record /\ RecordOf(c) # None
         /\ writes + 1 \in 0..MaxWrites
  BY GraphAssumption DEF RecordOf, Record, Capture

LEMMA RetiredTyped ==
  ASSUME rows \in [Docs -> Row \cup {None}], NEW r \in Record
  PROVE  Retired(r) \in [Docs -> Row \cup {None}]
  BY DEF Retired, Row

LEMMA WriteTyped ==
  ASSUME Typed, NEW p \in Ingestors, Write(p)
  PROVE  rows' \in [Docs -> Row \cup {None}]
<1>1. hand[p] \in Record
  BY DEF Typed, TypeOK, Handed, Write
<1>2. [url |-> hand[p].url, at |-> hand[p].at, active |-> claim[p]] \in Row
  <2>1. hand[p].url \in Urls /\ hand[p].at \in Times
    BY <1>1 DEF Record
  <2>2. claim[p] \in BOOLEAN
    BY DEF Typed, TypeOK
  <2>3. QED  BY <2>1, <2>2 DEF Row
<1>3. hand[p].doc \in Docs
  BY <1>1 DEF Record
<1>4. Retired(hand[p]) \in [Docs -> Row \cup {None}]
  BY <1>1, RetiredTyped DEF Typed, TypeOK
<1>5. QED
  BY <1>2, <1>3, <1>4 DEF Write, Typed, TypeOK

LEMMA LeaveTyped ==
  ASSUME Typed, NEW p \in Ingestors, Leave(p)
  PROVE  /\ pc' \in [Ingestors -> {"idle", "next", "look", "write", "ack"}]
         /\ hand' \in [Ingestors -> Record \cup {None}]
         /\ claim' \in [Ingestors -> BOOLEAN]
         /\ \A q \in Ingestors : pc'[q] \in {"look", "write", "ack"} => hand'[q] # None
<1>1. pc' \in [Ingestors -> {"idle", "next", "look", "write", "ack"}]
  BY DEF Leave, Goto, Typed, TypeOK
<1>2. hand' \in [Ingestors -> Record \cup {None}]
  BY DEF Leave, Typed, TypeOK
<1>3. claim' \in [Ingestors -> BOOLEAN]
  BY DEF Leave, Typed, TypeOK
<1>4. \A q \in Ingestors : pc'[q] \in {"look", "write", "ack"} => hand'[q] # None
  BY DEF Leave, Goto, Typed, TypeOK, Handed
<1>5. QED
  BY <1>1, <1>2, <1>3, <1>4

LEMMA StepTyped == Typed /\ [Next]_vars => Typed'
<1>. SUFFICES ASSUME Typed, [Next]_vars PROVE Typed'
  OBVIOUS
<1>. USE DEF Typed, Ingestors
<1>1. ASSUME NEW u \in Urls, NEW d \in Docs, Fetch(u, d) PROVE Typed'
  <2>. DEFINE c == [url |-> u, doc |-> d, at |-> Now + 1]
  <2>1. Now \in Nat
    BY FS_CardinalityType DEF Now
  <2>2. c \in Capture
    BY <1>1, <2>1, GraphAssumption DEF Fetch, Capture, Times
  <2>3. IsFiniteSet(log \cup {c})
    BY FS_AddElement
  <2>4. /\ log' = log \cup {c} /\ pending' = pending \cup {c}
        /\ UNCHANGED <<record, writes, rows, pc, hand, claim, paths, enabled, slips>>
    BY <1>1 DEF Fetch
  <2>. HIDE DEF c
  <2>5. TypeOK' /\ Handed'
    BY <2>2, <2>4 DEF TypeOK, Handed
  <2>6. QED  BY <2>3, <2>4, <2>5
<1>2. ASSUME NEW c \in Capture, Normalize(c) PROVE Typed'
  <2>1. /\ RecordOf(c) \in Record /\ RecordOf(c) # None
        /\ writes + 1 \in 0..MaxWrites
    BY <1>2, RecordTyped DEF Normalize, TypeOK
  <2>2. slips' \subseteq Slips
    BY <1>2, GraphAssumption DEF Normalize, Beside, Slip, TypeOK, Slips
  <2>3. c.doc \in Docs
    BY DEF Capture
  <2>4. TypeOK'
    BY <1>2, <2>1, <2>2, <2>3 DEF Normalize, TypeOK, Goto
  <2>5. Handed'
    BY <1>2, <2>1, <2>3 DEF Normalize, TypeOK, Handed, Goto, Record, RecordOf
  <2>6. QED  BY <1>2, <2>4, <2>5 DEF Normalize
<1>3. ASSUME NEW c \in Capture, Redeliver(c) PROVE Typed'
  <2>1. slips' \subseteq Slips
    BY <1>3, GraphAssumption DEF Redeliver, Slip, TypeOK, Slips
  <2>2. QED  BY <1>3, <2>1 DEF Redeliver, TypeOK, Handed
<1>4. ASSUME Ack \/ FailExtractor PROVE Typed'
  <2>1. slips' \subseteq Slips
    BY <1>4, GraphAssumption DEF Ack, FailExtractor, Slip, TypeOK, Slips
  <2>2. Leave("extractor") /\ pending' \subseteq Capture
        /\ UNCHANGED <<log, record, writes, rows, paths, enabled>>
    BY <1>4 DEF Ack, FailExtractor, TypeOK
  <2>3. QED  BY <2>1, <2>2, LeaveTyped DEF TypeOK, Handed
<1>5. ASSUME NEW p \in Ingestors, Look(p) PROVE Typed'
  BY <1>5 DEF Look, Goto, TypeOK, Handed
<1>6. ASSUME NEW p \in Ingestors, Write(p) PROVE Typed'
  <2>1. rows' \in [Docs -> Row \cup {None}]
    BY <1>6, WriteTyped
  <2>2. QED  BY <1>6, <2>1 DEF Write, Goto, AfterIngest, TypeOK, Handed
<1>7. CASE Rebuild
  <2>1. Lake \subseteq Record /\ \A r \in Lake : record[r.doc] # None
    BY GraphAssumption DEF Lake, TypeOK, Handed
  <2>2. slips' \subseteq Slips
    BY <1>7, GraphAssumption DEF Rebuild, Beside, Slip, TypeOK, Slips
  <2>3. QED  BY <1>7, <2>1, <2>2 DEF Rebuild, Goto, TypeOK, Handed
<1>8. ASSUME NEW r \in Record, Replay(r) PROVE Typed'
  <2>1. record[r.doc] \in Record /\ record[r.doc] # None
    BY <1>8 DEF Replay, TypeOK, Handed, Record
  <2>2. QED  BY <1>8, <2>1 DEF Replay, Goto, TypeOK, Handed
<1>9. CASE Rebuilt \/ StopRebuild
  <2>1. /\ Leave("rebuild") /\ paths' \subseteq paths
        /\ UNCHANGED <<log, pending, record, writes, rows, enabled, slips>>
    BY <1>9 DEF Rebuilt, StopRebuild
  <2>2. QED  BY <2>1, LeaveTyped DEF TypeOK, Handed
<1>10. CASE Enable
  BY <1>10 DEF Enable, TypeOK, Handed
<1>11. CASE UNCHANGED vars
  BY <1>11 DEF vars, TypeOK, Handed
<1>12. ASSUME NEW c \in Capture, NormalizeMissing(c) PROVE Typed'
  <2>1. /\ RecordOf(c) \in Record /\ RecordOf(c) # None
        /\ writes + 1 \in 0..MaxWrites
    BY <1>12, RecordTyped DEF NormalizeMissing, TypeOK
  <2>2. slips' \subseteq Slips
    BY <1>12, GraphAssumption DEF NormalizeMissing, Slip, TypeOK, Slips
  <2>3. c.doc \in Docs
    BY DEF Capture
  <2>4. TypeOK'
    BY <1>12, <2>1, <2>2, <2>3 DEF NormalizeMissing, TypeOK, Goto
  <2>5. Handed'
    BY <1>12, <2>1, <2>3 DEF NormalizeMissing, TypeOK, Handed, Goto, Record, RecordOf
  <2>6. QED  BY <1>12, <2>4, <2>5 DEF NormalizeMissing
<1>13. CASE LeaveMissing
  <2>1. Leave("replay") /\ UNCHANGED <<log, pending, record, writes, rows, paths, enabled, slips>>
    BY <1>13 DEF LeaveMissing
  <2>2. QED  BY <2>1, LeaveTyped DEF TypeOK, Handed
<1>14. QED
  BY <1>1, <1>2, <1>3, <1>4, <1>5, <1>6, <1>7, <1>8, <1>9, <1>10, <1>11, <1>12, <1>13 DEF Next

LEMMA AlwaysTyped == Spec => []Typed
  BY InitTyped, StepTyped, PTL DEF Spec

\* The records, rows and places of the model are what they are meant to be, whoever ingests.
THEOREM TypeCorrect == Spec => []TypeOK
  BY AlwaysTyped, PTL DEF Typed
-----------------------------------------------------------------------------
\* A row written by an ingest that found a newer capture is not active; one written
\* by an ingest that found none has retired the others in the same transaction.
LEMMA WriteKeepsOneActive ==
  ASSUME Typed, OneActive, NEW p \in Ingestors, Write(p)
  PROVE  OneActive'
<1>. DEFINE r == hand[p]
            row == [url |-> r.url, at |-> r.at, active |-> claim[p]]
<1>1. r \in Record /\ r.doc \in Docs
  BY DEF Typed, TypeOK, Handed, Write, Record
<1>2. row # None
  <2>1. claim[p] \in BOOLEAN
    BY DEF Typed, TypeOK
  <2>2. row \in Row
    BY <1>1, <2>1 DEF Row, Record
  <2>3. QED  BY <2>2, GraphAssumption
<1>3. rows' = [(IF claim[p] THEN Retired(r) ELSE rows) EXCEPT ![r.doc] = row]
  BY DEF Write
<1>4. rows \in [Docs -> Row \cup {None}]
  BY DEF Typed, TypeOK
<1>5. SUFFICES ASSUME NEW u \in Urls, NEW d \in ActiveAt(u)', NEW e \in ActiveAt(u)'
               PROVE  d = e
  BY DEF OneActive
<1>6. CASE claim[p]
  <2>1. rows' = [Retired(r) EXCEPT ![r.doc] = row]
    BY <1>3, <1>6
  <2>2. rows'[r.doc] = row /\ \A c \in Docs \ {r.doc} : rows'[c] = Retired(r)[c]
    BY <1>1, <1>4, <2>1, RetiredTyped
  <2>3. ASSUME NEW c \in ActiveAt(u)', c # r.doc
        PROVE  c \in ActiveAt(u) /\ u # r.url
    BY <1>4, <2>2, <2>3, GraphAssumption DEF ActiveAt, Retired, Row
  <2>4. r.doc \in ActiveAt(u)' => u = r.url
    BY <2>2 DEF ActiveAt
  <2>5. QED  BY <2>3, <2>4 DEF OneActive
<1>7. CASE ~claim[p]
  <2>1. rows' = [rows EXCEPT ![r.doc] = row]
    BY <1>3, <1>7
  <2>2. row.active = claim[p]
    OBVIOUS
  <2>3. ActiveAt(u)' \subseteq ActiveAt(u)
    BY <1>1, <1>4, <1>7, <2>1, <2>2 DEF ActiveAt
  <2>4. QED  BY <2>3 DEF OneActive
<1>8. QED
  BY <1>6, <1>7

LEMMA OthersLeaveRows ==
  ASSUME [Next]_vars, ~\E p \in Ingestors : Write(p)
  PROVE  UNCHANGED rows
  BY DEF Next, vars, Fetch, Normalize, NormalizeMissing, LeaveMissing, Redeliver, Ack,
         FailExtractor, Look, Rebuild, Replay, Rebuilt, StopRebuild, Enable

\* At most one capture of a URL is active, however the ingests of the extractor and of a
\* rebuild interleave, whatever is redelivered and wherever either of them dies.
THEOREM OneCaptureActive == Spec => []OneActive
<1>1. Init => OneActive
  BY DEF Init, OneActive, ActiveAt
<1>2. Typed /\ OneActive /\ [Next]_vars => OneActive'
  <2>1. SUFFICES ASSUME Typed, OneActive, [Next]_vars PROVE OneActive'
    OBVIOUS
  <2>2. CASE \E p \in Ingestors : Write(p)
    BY <2>1, <2>2, WriteKeepsOneActive
  <2>3. CASE ~\E p \in Ingestors : Write(p)
    BY <2>1, <2>3, OthersLeaveRows DEF OneActive, ActiveAt
  <2>4. QED  BY <2>2, <2>3
<1>3. QED
  BY <1>1, <1>2, AlwaysTyped, PTL DEF Spec
-----------------------------------------------------------------------------
\* The ingest that claims its URL makes its capture speak for it, the other only lets its
\* own capture fall.
LEMMA WriteSpeaks ==
  ASSUME Typed, NEW p \in Ingestors, Write(p)
  PROVE  Graph!Ingest
<1>. DEFINE r == hand[p]
            row == [url |-> r.url, at |-> r.at, active |-> claim[p]]
            kept == {s \in Speaking : s[2] # r.doc}
<1>1. r \in Record /\ r.doc \in Docs /\ r.url \in Urls /\ r.doc \in Ingested
  BY DEF Typed, TypeOK, Handed, Write, Record, Ingested
<1>2. row # None /\ row.url = r.url /\ row.active = claim[p]
  <2>1. claim[p] \in BOOLEAN
    BY DEF Typed, TypeOK
  <2>2. row \in Row
    BY <1>1, <2>1 DEF Row, Record
  <2>3. QED  BY <2>2, GraphAssumption
<1>3. rows \in [Docs -> Row \cup {None}]
  BY DEF Typed, TypeOK
<1>4. CASE claim[p]
  <2>1. rows' = [Retired(r) EXCEPT ![r.doc] = row]
    BY <1>4 DEF Write
  <2>2. rows'[r.doc] = row /\ \A d \in Docs \ {r.doc} : rows'[d] = Retired(r)[d]
    BY <1>1, <1>3, <2>1, RetiredTyped
  <2>3. ASSUME NEW d \in Docs \ {r.doc}
        PROVE  /\ rows'[d] # None <=> rows[d] # None
               /\ rows[d] # None =>
                     /\ rows'[d].url = rows[d].url
                     /\ rows'[d].active <=> rows[d].active /\ rows[d].url # r.url
    <3>. DEFINE old == rows[d]
    <3>1. rows'[d] = IF old # None /\ old.url = r.url THEN [old EXCEPT !.active = FALSE] ELSE old
      BY <2>2 DEF Retired
    <3>2. CASE old = None
      BY <3>1, <3>2
    <3>3. CASE old # None /\ old.url = r.url
      <4>1. old \in Row
        BY <1>3, <3>3
      <4>2. rows'[d] = [url |-> old.url, at |-> old.at, active |-> FALSE]
        BY <3>1, <3>3, <4>1 DEF Row
      <4>3. rows'[d] \in Row
        BY <4>1, <4>2 DEF Row
      <4>4. rows'[d] # None
        BY <4>3, GraphAssumption
      <4>5. QED  BY <3>3, <4>2, <4>4
    <3>4. CASE old # None /\ old.url # r.url
      BY <3>1, <3>4
    <3>5. QED  BY <3>2, <3>3, <3>4
  <2>4. Speaking' = {s \in kept : s[1] # r.url} \cup {<<r.url, r.doc>>}
    <3>1. ASSUME NEW s \in Speaking' PROVE s \in {t \in kept : t[1] # r.url} \cup {<<r.url, r.doc>>}
      <4>1. PICK d \in Docs : s = <<rows'[d].url, d>> /\ rows'[d] # None /\ rows'[d].active
        BY <3>1 DEF Speaking
      <4>2. CASE d = r.doc
        BY <4>1, <4>2, <2>2, <1>2
      <4>3. CASE d # r.doc
        BY <4>1, <4>3, <2>3 DEF Speaking
      <4>4. QED  BY <4>2, <4>3
    <3>2. ASSUME NEW s \in kept, s[1] # r.url PROVE s \in Speaking'
      <4>1. PICK d \in Docs : s = <<rows[d].url, d>> /\ rows[d] # None /\ rows[d].active
        BY DEF Speaking
      <4>2. d # r.doc /\ rows[d].url # r.url
        BY <3>2, <4>1
      <4>3. QED  BY <4>1, <4>2, <2>3 DEF Speaking
    <3>3. <<r.url, r.doc>> \in Speaking'
      BY <1>1, <1>2, <1>4, <2>2 DEF Speaking
    <3>4. QED  BY <3>1, <3>2, <3>3
  <2>5. Graph!Speak(r.url, r.doc)
    BY <2>4 DEF Graph!Speak, Graph!Without
  <2>6. QED  BY <1>1, <2>5 DEF Graph!Ingest
<1>5. CASE ~claim[p]
  <2>1. rows' = [rows EXCEPT ![r.doc] = row]
    BY <1>5 DEF Write
  <2>2. rows'[r.doc] = row /\ \A d \in Docs \ {r.doc} : rows'[d] = rows[d]
    BY <1>1, <1>3, <2>1
  <2>3. Speaking' = kept
    <3>1. ASSUME NEW s \in Speaking' PROVE s \in kept
      <4>1. PICK d \in Docs : s = <<rows'[d].url, d>> /\ rows'[d] # None /\ rows'[d].active
        BY <3>1 DEF Speaking
      <4>2. d # r.doc
        BY <4>1, <2>2, <1>2, <1>5
      <4>3. QED  BY <4>1, <4>2, <2>2 DEF Speaking
    <3>2. ASSUME NEW s \in kept PROVE s \in Speaking'
      <4>1. PICK d \in Docs : s = <<rows[d].url, d>> /\ rows[d] # None /\ rows[d].active
        BY DEF Speaking
      <4>2. d # r.doc
        BY <4>1
      <4>3. QED  BY <4>1, <4>2, <2>2 DEF Speaking
    <3>3. QED  BY <3>1, <3>2
  <2>4. Graph!Fall(r.doc)
    BY <2>3 DEF Graph!Fall, Graph!Without
  <2>5. QED  BY <1>1, <2>4 DEF Graph!Ingest
<1>6. QED
  BY <1>4, <1>5

\* Extractor, rebuild, redelivery and deaths together are the graph its readers rely on: only
\* the capture being ingested takes a place or loses its own.
THEOREM GraphImplemented == Spec => ImplementsActiveGraph
<1>1. Init => Graph!Init
  BY DEF Init, Graph!Init, Speaking, Ingested, Ingestors
<1>2. Typed /\ Typed' /\ [Next]_vars => [Graph!Next]_<<Speaking, Ingested>>
  <2>1. SUFFICES ASSUME Typed, Typed', [Next]_vars PROVE Graph!Next
    OBVIOUS
  <2>2. Ingested' \subseteq Docs
    BY <2>1 DEF Typed, TypeOK, Handed, Ingested, Record
  <2>3. CASE \E p \in Ingestors : Write(p)
    BY <2>1, <2>2, <2>3, WriteSpeaks DEF Graph!Next
  <2>4. CASE ~\E p \in Ingestors : Write(p)
    BY <2>1, <2>2, <2>4, OthersLeaveRows DEF Graph!Next, Speaking
  <2>5. QED  BY <2>3, <2>4
<1>3. QED
  BY <1>1, <1>2, AlwaysTyped, PTL DEF Spec, ImplementsActiveGraph, Graph!Spec
-----------------------------------------------------------------------------
(* Captures handled in turn leave the latest of each URL active. *)

\* The clock counts the captures.
LEMMA FetchCounts ==
  ASSUME Typed, TellCaptures, NEW u \in Urls, NEW d \in Docs, Fetch(u, d)
  PROVE  LET c == [url |-> u, doc |-> d, at |-> Now + 1]
         IN  /\ log' = log \cup {c} /\ pending' = pending \cup {c}
             /\ c \in Capture /\ d \in Serves[u]
             /\ Now \in Nat /\ Now' = Now + 1
             /\ \A e \in log : e.at < c.at /\ e.at \in Nat
<1>. DEFINE c == [url |-> u, doc |-> d, at |-> Now + 1]
<1>1. /\ log' = log \cup {c} /\ pending' = pending \cup {c}
      /\ Now < MaxCaptures /\ d \in Serves[u]
  BY DEF Fetch
<1>2. IsFiniteSet(log) /\ Now \in Nat
  BY FS_CardinalityType DEF Typed, Now
<1>3. \A e \in log : e.at <= Now /\ e.at \in Nat
  BY DEF TellCaptures, Typed, TypeOK, Capture, Times
<1>4. c.at = Now + 1
  OBVIOUS
<1>5. c \notin log
  BY <1>2, <1>3, <1>4
<1>6. Cardinality(log \cup {c}) = Cardinality(log) + 1
  BY <1>2, <1>5, FS_AddElement
<1>7. c \in Capture
  BY <1>1, <1>2, GraphAssumption DEF Capture, Times
<1>8. QED
  BY <1>1, <1>2, <1>3, <1>4, <1>6, <1>7 DEF Now

LEMMA FetchTells ==
  ASSUME Typed, TellCaptures, NEW u \in Urls, NEW d \in Docs, Fetch(u, d)
  PROVE  TellCaptures'
<1>. DEFINE c == [url |-> u, doc |-> d, at |-> Now + 1]
<1>1. /\ log' = log \cup {c} /\ pending' = pending \cup {c}
      /\ d \in Serves[u] /\ Now \in Nat /\ Now' = Now + 1
      /\ \A e \in log : e.at < c.at /\ e.at \in Nat
  BY FetchCounts
<1>2. c.url = u /\ c.doc = d /\ c.at = Now + 1
  OBVIOUS
<1>3. UNCHANGED <<record, rows, pc, hand>>
  BY DEF Fetch
<1>. HIDE DEF c
<1>4. \A e \in log' : e.at <= Now' /\ e.doc \in Serves[e.url]
  BY <1>1, <1>2 DEF TellCaptures
<1>5. \A e, f \in log' : e.at = f.at => e = f
  BY <1>1 DEF TellCaptures
<1>6. QED
  BY <1>1, <1>3, <1>4, <1>5 DEF TellCaptures, PayloadOf

LEMMA WriteTells ==
  ASSUME Typed, NEW p \in Ingestors, Write(p)
  PROVE  LET r == hand[p]
         IN  /\ r \in Record /\ r.doc \in Docs
             /\ rows'[r.doc] = [url |-> r.url, at |-> r.at, active |-> claim[p]]
             /\ rows'[r.doc] # None
             /\ \A d \in Docs \ {r.doc} :
                   /\ rows'[d] = None <=> rows[d] = None
                   /\ rows[d] # None =>
                        /\ rows'[d].url = rows[d].url /\ rows'[d].at = rows[d].at
                        /\ rows'[d].active <=>
                              rows[d].active /\ ~(claim[p] /\ rows[d].url = r.url)
<1>. DEFINE r == hand[p]
            row == [url |-> r.url, at |-> r.at, active |-> claim[p]]
<1>1. r \in Record /\ r.doc \in Docs
  BY DEF Typed, TypeOK, Handed, Write, Record
<1>2. row # None
  <2>1. claim[p] \in BOOLEAN /\ r.url \in Urls /\ r.at \in Times
    BY <1>1 DEF Typed, TypeOK, Record
  <2>2. row \in Row
    BY <2>1 DEF Row
  <2>3. QED  BY <2>2, GraphAssumption
<1>3. rows \in [Docs -> Row \cup {None}]
  BY DEF Typed, TypeOK
<1>4. rows' = [(IF claim[p] THEN Retired(r) ELSE rows) EXCEPT ![r.doc] = row]
  BY DEF Write
<1>5. Retired(r) \in [Docs -> Row \cup {None}]
  BY <1>1, <1>3, RetiredTyped
<1>6. rows'[r.doc] = row
  BY <1>1, <1>3, <1>4, <1>5
<1>7. ASSUME NEW d \in Docs \ {r.doc}
      PROVE  /\ rows'[d] = None <=> rows[d] = None
             /\ rows[d] # None =>
                  /\ rows'[d].url = rows[d].url /\ rows'[d].at = rows[d].at
                  /\ rows'[d].active <=> rows[d].active /\ ~(claim[p] /\ rows[d].url = r.url)
  <2>1. rows'[d] = IF claim[p] THEN Retired(r)[d] ELSE rows[d]
    BY <1>1, <1>3, <1>4, <1>5
  <2>2. CASE claim[p] /\ rows[d] # None /\ rows[d].url = r.url
    <3>. DEFINE old == rows[d]
    <3>1. old \in Row
      BY <1>3, <2>2
    <3>2. rows'[d] = [url |-> old.url, at |-> old.at, active |-> FALSE]
      BY <2>1, <2>2, <3>1 DEF Retired, Row
    <3>3. rows'[d] \in Row
      BY <3>1, <3>2 DEF Row
    <3>4. rows'[d] # None
      BY <3>3, GraphAssumption
    <3>5. QED  BY <2>2, <3>2, <3>4
  <2>3. CASE ~(claim[p] /\ rows[d] # None /\ rows[d].url = r.url)
    <3>1. rows'[d] = rows[d]
      BY <2>1, <2>3 DEF Retired
    <3>2. QED  BY <2>3, <3>1
  <2>4. QED  BY <2>2, <2>3
<1>8. QED
  BY <1>1, <1>2, <1>6, <1>7

LEMMA StepTells == Typed /\ TellCaptures /\ [Next]_vars => TellCaptures'
<1>. SUFFICES ASSUME Typed, TellCaptures, [Next]_vars PROVE TellCaptures'
  OBVIOUS
<1>. USE DEF Ingestors
<1>1. ASSUME NEW u \in Urls, NEW d \in Docs, Fetch(u, d) PROVE TellCaptures'
  BY <1>1, FetchTells
<1>2. ASSUME NEW c \in Capture, Normalize(c) PROVE TellCaptures'
  <2>1. PayloadOf(RecordOf(c)) = c /\ c \in log
    BY <1>2 DEF PayloadOf, RecordOf, Capture, Normalize, TellCaptures
  <2>2. /\ record' = [record EXCEPT ![c.doc] = RecordOf(c)]
        /\ hand' = [hand EXCEPT !["extractor"] = RecordOf(c)]
        /\ pc' \in {[pc EXCEPT !["extractor"] = "look"], [pc EXCEPT !["extractor"] = "ack"]}
        /\ UNCHANGED <<log, pending, rows>>
    BY <1>2 DEF Normalize, Goto
  <2>3. \A d \in Docs : record'[d] # None => PayloadOf(record'[d]) \in log
    BY <2>1, <2>2 DEF TellCaptures, Typed, TypeOK
  <2>4. \A p \in Ingestors : pc'[p] \in {"look", "write", "ack"} => PayloadOf(hand'[p]) \in log
    BY <2>1, <2>2 DEF TellCaptures, Typed, TypeOK
  <2>5. pc'["extractor"] # "next"
    BY <2>2 DEF Typed, TypeOK
  <2>6. QED  BY <2>2, <2>3, <2>4, <2>5 DEF TellCaptures, Now, PayloadOf
<1>3. ASSUME NEW c \in Capture, Redeliver(c) PROVE TellCaptures'
  BY <1>3 DEF Redeliver, TellCaptures, Now, PayloadOf
<1>4. ASSUME NEW p \in Ingestors, Leave(p), pending' \subseteq pending,
             UNCHANGED <<log, record, rows>>
      PROVE  TellCaptures'
  BY <1>4 DEF Leave, Goto, TellCaptures, Now, PayloadOf, Typed, TypeOK
<1>5. CASE Ack \/ FailExtractor \/ Rebuilt \/ StopRebuild \/ LeaveMissing
  BY <1>4, <1>5 DEF Ack, FailExtractor, Rebuilt, StopRebuild, LeaveMissing
<1>6. ASSUME NEW p \in Ingestors, Look(p) PROVE TellCaptures'
  BY <1>6 DEF Look, Goto, TellCaptures, Now, PayloadOf, Typed, TypeOK
<1>7. ASSUME NEW p \in Ingestors, Write(p) PROVE TellCaptures'
  <2>1. /\ UNCHANGED <<log, pending, record, hand>>
        /\ pc' = [pc EXCEPT ![p] = AfterIngest(p)] /\ pc[p] = "write"
    BY <1>7 DEF Write, Goto
  <2>2. PayloadOf(hand[p]) \in log
    BY <2>1 DEF TellCaptures
  <2>3. ASSUME NEW d \in Docs, rows'[d] # None
        PROVE  [url |-> rows'[d].url, doc |-> d, at |-> rows'[d].at] \in log
    <3>1. CASE d = hand[p].doc
      <4>1. rows'[d].url = hand[p].url /\ rows'[d].at = hand[p].at
        BY <1>7, <3>1, WriteTells
      <4>2. QED  BY <2>2, <3>1, <4>1 DEF PayloadOf
    <3>2. CASE d # hand[p].doc
      <4>1. rows[d] # None /\ rows'[d].url = rows[d].url /\ rows'[d].at = rows[d].at
        BY <1>7, <2>3, <3>2, WriteTells
      <4>2. QED  BY <4>1 DEF TellCaptures
    <3>3. QED  BY <3>1, <3>2
  <2>4. /\ \A q \in Ingestors : pc'[q] \in {"look", "write", "ack"} => PayloadOf(hand[q]) \in log
        /\ pc'["extractor"] # "next"
    BY <2>1 DEF TellCaptures, AfterIngest, Typed, TypeOK
  <2>5. QED  BY <2>1, <2>3, <2>4 DEF TellCaptures, Now, PayloadOf
<1>8. CASE Rebuild \/ Enable
  BY <1>8 DEF Rebuild, Enable, Goto, TellCaptures, Now, PayloadOf, Typed, TypeOK
<1>9. ASSUME NEW r \in Record, Replay(r) PROVE TellCaptures'
  <2>1. r.doc \in Docs /\ record[r.doc] # None
    BY <1>9 DEF Replay, Typed, Handed, Record
  <2>2. QED  BY <1>9, <2>1 DEF Replay, Goto, TellCaptures, Now, PayloadOf, Typed, TypeOK
<1>10. CASE UNCHANGED vars
  BY <1>10 DEF vars, TellCaptures, Now, PayloadOf
<1>11. ASSUME NEW c \in Capture, NormalizeMissing(c) PROVE TellCaptures'
  <2>1. PayloadOf(RecordOf(c)) = c /\ c \in log
    BY <1>11 DEF PayloadOf, RecordOf, Capture, NormalizeMissing
  <2>2. /\ record' = [record EXCEPT ![c.doc] = RecordOf(c)]
        /\ hand' = [hand EXCEPT !["replay"] = RecordOf(c)]
        /\ pc' \in {[pc EXCEPT !["replay"] = "look"], [pc EXCEPT !["replay"] = "next"]}
        /\ UNCHANGED <<log, pending, rows>>
    BY <1>11 DEF NormalizeMissing, Goto
  <2>3. \A d \in Docs : record'[d] # None => PayloadOf(record'[d]) \in log
    BY <2>1, <2>2 DEF TellCaptures, Typed, TypeOK
  <2>4. \A p \in Ingestors : pc'[p] \in {"look", "write", "ack"} => PayloadOf(hand'[p]) \in log
    BY <2>1, <2>2 DEF TellCaptures, Typed, TypeOK
  <2>5. pc'["extractor"] # "next"
    BY <2>2 DEF TellCaptures, Typed, TypeOK
  <2>6. QED  BY <2>2, <2>3, <2>4, <2>5 DEF TellCaptures, Now, PayloadOf
<1>12. QED
  BY <1>1, <1>2, <1>3, <1>5, <1>6, <1>7, <1>8, <1>9, <1>10, <1>11 DEF Next

Calm == Typed /\ TellCaptures /\ OneAtATime /\ HandledInTurn /\ ActiveIsLatest

\* As long as nothing has slipped, nothing does.
LEMMA NoSlip ==
  ASSUME [Next]_vars, slips' = {}
  PROVE  /\ slips = {}
         /\ \A c \in Capture : ~Redeliver(c) /\ ~NormalizeMissing(c)
         /\ ~FailExtractor
<1>1. (\A c \in Capture : ~Redeliver(c) /\ ~NormalizeMissing(c)) /\ ~FailExtractor
  BY DEF Redeliver, NormalizeMissing, FailExtractor, Slip
<1>2. CASE \E c \in Capture : Normalize(c)
  BY <1>1, <1>2 DEF Normalize, Beside, Slip
<1>3. CASE Rebuild
  BY <1>1, <1>3 DEF Rebuild, Beside, Slip
<1>4. CASE ~Rebuild /\ ~\E c \in Capture : Normalize(c)
  BY <1>1, <1>4 DEF Next, vars, Fetch, Ack, Look, Write, Replay, Rebuilt, StopRebuild, Enable,
                         LeaveMissing
<1>5. QED
  BY <1>1, <1>2, <1>3, <1>4

\* Who begins beside nobody finds the other idle.
LEMMA BesideNone ==
  ASSUME NEW p \in Ingestors, Beside(p), slips' = {}
  PROVE  \A q \in Ingestors \ {p} : pc[q] = "idle"
BY DEF Beside, Slip

LEMMA OneAtATimeStep ==
  ASSUME Calm, [Next]_vars, slips' = {}
  PROVE  OneAtATime'
<1>. USE DEF Calm, Ingestors
<1>a. /\ pc \in [Ingestors -> {"idle", "next", "look", "write", "ack"}]
      /\ hand \in [Ingestors -> Record \cup {None}]
      /\ claim \in [Ingestors -> BOOLEAN]
      /\ record \in [Docs -> Record \cup {None}]
  BY DEF Typed, TypeOK
<1>b. /\ slips = {} /\ (\A c \in Capture : ~Redeliver(c) /\ ~NormalizeMissing(c))
      /\ ~FailExtractor /\ ~LeaveMissing
  BY NoSlip DEF LeaveMissing, OneAtATime
<1>1. ASSUME NEW u \in Urls, NEW d \in Docs, Fetch(u, d) PROVE OneAtATime'
  <2>. DEFINE c == [url |-> u, doc |-> d, at |-> Now + 1]
  <2>1. pending' = pending \cup {c} /\ \A e \in log : e.at < c.at /\ e.at \in Nat
    BY <1>1, FetchCounts
  <2>2. c.at \in Nat
    <3>1. Now \in Nat
      BY FS_CardinalityType DEF Now, Typed
    <3>2. QED  BY <3>1
  <2>. HIDE DEF c
  <2>3. pc["extractor"] # "idle" => \A e \in pending' : hand["extractor"].at <= e.at
    <3>1. SUFFICES ASSUME pc["extractor"] # "idle" PROVE hand["extractor"].at <= c.at
      BY <2>1 DEF OneAtATime
    <3>2. PayloadOf(hand["extractor"]) \in log
      BY <3>1 DEF OneAtATime, TellCaptures
    <3>3. PayloadOf(hand["extractor"]).at = hand["extractor"].at
      BY DEF PayloadOf
    <3>4. QED  BY <2>1, <2>2, <3>2, <3>3
  <2>4. UNCHANGED <<record, rows, pc, hand, claim>>
    BY <1>1 DEF Fetch
  <2>5. QED  BY <2>1, <2>3, <2>4 DEF OneAtATime, Newer
<1>2. ASSUME NEW c \in Capture, Normalize(c) PROVE OneAtATime'
  <2>1. pc["rebuild"] = "idle" /\ pc["replay"] = "idle"
    BY <1>2, BesideNone DEF Normalize
  <2>2. PayloadOf(RecordOf(c)) = c /\ RecordOf(c).at = c.at /\ RecordOf(c).doc = c.doc
        /\ c.doc \in Docs
    BY DEF PayloadOf, RecordOf, Capture
  <2>3. c \in pending /\ \A e \in pending : c.at <= e.at
    BY <1>2, <1>b DEF Normalize, InOrder
  <2>4. /\ record'[c.doc] = RecordOf(c) /\ hand'["extractor"] = RecordOf(c)
        /\ pc'["extractor"] \in {"look", "ack"}
        /\ pc'["rebuild"] = "idle" /\ pc'["replay"] = "idle"
        /\ pending' = pending
    BY <1>2, <1>a, <2>1, <2>2 DEF Normalize, Goto
  <2>5. QED  BY <2>2, <2>3, <2>4 DEF OneAtATime
<1>3. CASE Ack \/ Rebuilt \/ StopRebuild
  <2>1. PICK p \in Ingestors : Leave(p) /\ UNCHANGED <<record, rows>>
                               /\ (pending' = pending \/ p = "extractor")
    BY <1>3 DEF Ack, Rebuilt, StopRebuild
  <2>2. /\ pc' = [pc EXCEPT ![p] = "idle"]
        /\ \A q \in Ingestors \ {p} : hand'[q] = hand[q] /\ claim'[q] = claim[q]
    BY <1>a, <2>1 DEF Leave, Goto
  <2>3. QED  BY <1>a, <2>1, <2>2 DEF OneAtATime, Newer
<1>4. ASSUME NEW p \in Ingestors, Look(p) PROVE OneAtATime'
  <2>1. /\ claim' = [claim EXCEPT ![p] = ~Newer(hand[p])]
        /\ pc' = [pc EXCEPT ![p] = "write"] /\ pc[p] = "look"
        /\ UNCHANGED <<pending, record, rows, hand>>
    BY <1>4 DEF Look, Goto
  <2>2. \A q \in Ingestors : pc'[q] = "write" => (claim'[q] <=> ~Newer(hand[q])')
    BY <1>a, <2>1 DEF OneAtATime, Newer
  <2>3. QED  BY <1>a, <2>1, <2>2 DEF OneAtATime
<1>5. ASSUME NEW p \in Ingestors, Write(p) PROVE OneAtATime'
  <2>1. /\ pc' = [pc EXCEPT ![p] = AfterIngest(p)] /\ pc[p] = "write"
        /\ UNCHANGED <<pending, record, hand>>
    BY <1>5 DEF Write, Goto
  <2>2. AfterIngest(p) \in {"ack", "next"}
    BY DEF AfterIngest
  <2>3. \A q \in Ingestors : pc'[q] # "write"
    BY <1>a, <2>1, <2>2 DEF OneAtATime
  <2>4. QED  BY <1>a, <2>1, <2>2, <2>3 DEF OneAtATime
<1>6. CASE Rebuild
  <2>1. pc["extractor"] = "idle"
    BY <1>6, BesideNone DEF Rebuild
  <2>2. pc' = [pc EXCEPT !["rebuild"] = "next"]
    BY <1>6 DEF Rebuild, Goto
  <2>3. QED  BY <1>a, <2>1, <2>2 DEF OneAtATime
<1>7. ASSUME NEW r \in Record, Replay(r) PROVE OneAtATime'
  <2>1. /\ pc' = [pc EXCEPT !["rebuild"] = "look"] /\ pc["rebuild"] = "next"
        /\ hand' = [hand EXCEPT !["rebuild"] = record[r.doc]]
        /\ UNCHANGED <<pending, record, rows, claim>>
    BY <1>7 DEF Replay, Goto
  <2>2. record[r.doc].doc = r.doc
    BY <1>7 DEF Replay, Typed, Handed, Record
  <2>3. pc["extractor"] = "idle"
    BY <2>1 DEF OneAtATime
  <2>4. QED  BY <1>a, <2>1, <2>2, <2>3 DEF OneAtATime
<1>8. CASE Enable \/ UNCHANGED vars
  BY <1>8 DEF Enable, vars, OneAtATime, Newer
<1>9. QED
  BY <1>b, <1>1, <1>2, <1>3, <1>4, <1>5, <1>6, <1>7, <1>8 DEF Next

\* A step that changes nothing of what HandledInTurn is about.
LEMMA HandledStands ==
  ASSUME HandledInTurn, UNCHANGED <<log, pending, record, rows>>,
         pc["extractor"] # "idle" =>
            pc'["extractor"] # "idle" /\ hand'["extractor"] = hand["extractor"]
  PROVE  HandledInTurn'
BY DEF HandledInTurn

LEMMA HandledInTurnStep ==
  ASSUME Calm, [Next]_vars, slips' = {}
  PROVE  HandledInTurn'
<1>. USE DEF Calm, Ingestors
<1>a. /\ pc \in [Ingestors -> {"idle", "next", "look", "write", "ack"}]
      /\ hand \in [Ingestors -> Record \cup {None}]
      /\ record \in [Docs -> Record \cup {None}]
      /\ rows \in [Docs -> Row \cup {None}]
  BY DEF Typed, TypeOK
<1>b. /\ slips = {} /\ (\A c \in Capture : ~Redeliver(c) /\ ~NormalizeMissing(c))
      /\ ~FailExtractor /\ ~LeaveMissing
  BY NoSlip DEF LeaveMissing, OneAtATime
<1>c. /\ \A c \in log : c.at \in Nat /\ c.doc \in Docs
      /\ \A d \in Docs : /\ record[d] # None => record[d].at \in Nat
                         /\ rows[d] # None => rows[d].at \in Nat
  <2>1. \A c \in log : c.at \in Nat /\ c.doc \in Docs
    BY DEF Typed, TypeOK, Capture, Times
  <2>2. \A d \in Docs : /\ record[d] # None => record[d].at \in Nat
                        /\ rows[d] # None => rows[d].at \in Nat
    BY <1>a DEF Record, Row, Times
  <2>3. QED  BY <2>1, <2>2
<1>1. ASSUME NEW u \in Urls, NEW d \in Docs, Fetch(u, d) PROVE HandledInTurn'
  <2>. DEFINE c == [url |-> u, doc |-> d, at |-> Now + 1]
  <2>1. /\ log' = log \cup {c} /\ pending' = pending \cup {c}
        /\ \A e \in log : e.at < c.at
    BY <1>1, FetchCounts
  <2>2. c.at \in Nat
    <3>1. Now \in Nat
      BY FS_CardinalityType DEF Now, Typed
    <3>2. QED  BY <3>1
  <2>3. UNCHANGED <<record, rows, pc, hand>>
    BY <1>1 DEF Fetch
  <2>. HIDE DEF c
  <2>4. c \notin log
    BY <2>1, <2>2
  <2>5. log' \ pending' = log \ pending
    BY <2>1, <2>4
  <2>6. \A e \in log \ pending : /\ \A f \in pending' : e.at < f.at
                                 /\ record[e.doc] # None /\ e.at <= record[e.doc].at
    BY <2>1 DEF HandledInTurn
  <2>7. \A e \in Docs : record[e] # None /\ PayloadOf(record[e]) \in pending'
                          => PayloadOf(record[e]) \in pending
    BY <2>1, <2>4 DEF TellCaptures
  <2>8. QED  BY <2>3, <2>5, <2>6, <2>7 DEF HandledInTurn, PayloadOf
<1>2. ASSUME NEW c \in Capture, Normalize(c) PROVE HandledInTurn'
  <2>1. /\ PayloadOf(RecordOf(c)) = c /\ RecordOf(c).at = c.at /\ c.doc \in Docs
        /\ RecordOf(c) # None
    BY <1>2, RecordTyped DEF PayloadOf, RecordOf, Capture, Normalize, Typed, TypeOK
  <2>2. /\ record'[c.doc] = RecordOf(c) /\ \A d \in Docs \ {c.doc} : record'[d] = record[d]
        /\ hand'["extractor"] = RecordOf(c) /\ pc'["extractor"] # "idle"
        /\ UNCHANGED <<log, pending, rows>>
    BY <1>2, <1>a, <2>1 DEF Normalize, Goto
  <2>3. c \in pending /\ c \in log /\ pc["extractor"] = "idle"
    BY <1>2 DEF Normalize, TellCaptures
  <2>4. \A d \in Docs : record[d] # None => PayloadOf(record[d]) \in log \ pending
    BY <2>3 DEF HandledInTurn, TellCaptures
  <2>5. ASSUME NEW e \in log \ pending
        PROVE  /\ \A f \in pending : e.at < f.at
               /\ record'[e.doc] # None /\ e.at <= record'[e.doc].at
    <3>1. e.doc \in Docs /\ e.at < c.at /\ e.at \in Nat /\ c.at \in Nat
      BY <1>c, <2>3 DEF HandledInTurn
    <3>2. CASE e.doc = c.doc
      BY <2>1, <2>2, <3>1, <3>2 DEF HandledInTurn
    <3>3. CASE e.doc # c.doc
      BY <2>2, <3>1, <3>3 DEF HandledInTurn
    <3>4. QED  BY <3>2, <3>3
  <2>6. ASSUME NEW d \in Docs, rows[d] # None
        PROVE  record'[d] # None /\ rows[d].at <= record'[d].at
    <3>1. record[d] # None /\ rows[d].at <= record[d].at
      BY <2>6 DEF HandledInTurn
    <3>2. CASE d = c.doc
      <4>1. record[d].at < c.at
        BY <2>3, <2>4, <3>1 DEF HandledInTurn, PayloadOf
      <4>2. rows[d].at \in Nat /\ record[d].at \in Nat /\ c.at \in Nat
        BY <1>c, <2>3, <2>6, <3>1
      <4>3. QED  BY <2>1, <2>2, <3>1, <3>2, <4>1, <4>2
    <3>3. CASE d # c.doc
      BY <2>2, <3>1, <3>3
    <3>4. QED  BY <3>2, <3>3
  <2>7. ASSUME NEW d \in Docs, record'[d] # None, PayloadOf(record'[d]) \in pending
        PROVE  pc'["extractor"] # "idle" /\ hand'["extractor"] = record'[d]
    BY <2>2, <2>4, <2>7
  <2>8. QED  BY <2>2, <2>5, <2>6, <2>7 DEF HandledInTurn, PayloadOf
<1>3. CASE Ack
  <2>. DEFINE c == PayloadOf(hand["extractor"])
  <2>1. /\ pending' = pending \ {c} /\ pc["extractor"] = "ack"
        /\ UNCHANGED <<log, record, rows>>
    BY <1>3 DEF Ack
  <2>2. /\ c \in pending /\ c \in log /\ \A e \in pending : hand["extractor"].at <= e.at
        /\ hand["extractor"] # None /\ hand["extractor"] = record[hand["extractor"].doc]
    BY <2>1 DEF OneAtATime, TellCaptures, Typed, Handed
  <2>3. c.at = hand["extractor"].at /\ c.doc = hand["extractor"].doc
    BY DEF PayloadOf
  <2>. HIDE DEF c
  <2>4. \A f \in pending' : c.at < f.at
    <3>1. ASSUME NEW f \in pending' PROVE c.at < f.at
      <4>1. f \in log /\ f \in pending /\ f # c
        BY <2>1 DEF TellCaptures
      <4>2. c.at # f.at /\ c.at <= f.at
        BY <2>2, <2>3, <4>1 DEF TellCaptures
      <4>3. QED  BY <1>c, <2>2, <4>1, <4>2
    <3>2. QED  BY <3>1
  <2>5. record[c.doc] # None /\ c.at <= record[c.doc].at
    BY <1>c, <2>2, <2>3
  <2>6. \A e \in log \ pending' : /\ \A f \in pending' : e.at < f.at
                                  /\ record[e.doc] # None /\ e.at <= record[e.doc].at
    BY <2>1, <2>4, <2>5 DEF HandledInTurn
  <2>7. \A d \in Docs : record[d] # None => PayloadOf(record[d]) \notin pending'
    BY <2>1 DEF HandledInTurn, c
  <2>8. QED  BY <2>1, <2>6, <2>7 DEF HandledInTurn, PayloadOf
<1>4. ASSUME NEW p \in Ingestors, Look(p) PROVE HandledInTurn'
  BY <1>4, <1>a, HandledStands DEF Look, Goto
<1>5. ASSUME NEW p \in Ingestors, Write(p) PROVE HandledInTurn'
  <2>1. /\ UNCHANGED <<log, pending, record, hand>>
        /\ pc' = [pc EXCEPT ![p] = AfterIngest(p)] /\ pc[p] = "write"
    BY <1>5 DEF Write, Goto
  <2>2. pc["extractor"] # "idle" => pc'["extractor"] # "idle"
    BY <1>a, <2>1 DEF AfterIngest
  <2>3. ASSUME NEW d \in Docs, rows'[d] # None
        PROVE  record[d] # None /\ rows'[d].at <= record[d].at
    <3>1. CASE d = hand[p].doc
      <4>1. hand[p] = record[d] /\ hand[p] # None
        BY <2>1, <3>1 DEF OneAtATime, Typed, Handed
      <4>2. rows'[d].at = hand[p].at
        BY <1>5, <3>1, WriteTells
      <4>3. QED  BY <1>c, <4>1, <4>2
    <3>2. CASE d # hand[p].doc
      <4>1. rows[d] # None /\ rows'[d].at = rows[d].at
        BY <1>5, <2>3, <3>2, WriteTells
      <4>2. QED  BY <4>1 DEF HandledInTurn
    <3>3. QED  BY <3>1, <3>2
  <2>4. QED  BY <2>1, <2>2, <2>3 DEF HandledInTurn
<1>6. CASE Rebuild \/ Rebuilt \/ StopRebuild \/ Enable \/ UNCHANGED vars
  BY <1>6, <1>a, HandledStands DEF Rebuild, Rebuilt, StopRebuild, Leave, Enable, Goto, vars
<1>7. ASSUME NEW r \in Record, Replay(r) PROVE HandledInTurn'
  BY <1>7, <1>a, HandledStands DEF Replay, Goto
<1>8. QED
  BY <1>b, <1>1, <1>2, <1>3, <1>4, <1>5, <1>6, <1>7 DEF Next

\* An ingest that finds no newer row writes the latest of its URL; one that finds one does not.
LEMMA WriteKeepsLatest ==
  ASSUME Calm, NEW p \in Ingestors, Write(p)
  PROVE  ActiveIsLatest'
<1>. DEFINE r == hand[p]
<1>a. rows \in [Docs -> Row \cup {None}] /\ pc[p] = "write"
  BY DEF Calm, Typed, TypeOK, Write
<1>b. /\ r \in Record /\ r.doc \in Docs /\ r.url \in Urls /\ r.at \in Nat
      /\ rows'[r.doc] = [url |-> r.url, at |-> r.at, active |-> claim[p]]
      /\ rows'[r.doc] # None
  BY WriteTells DEF Calm, Record, Times
<1>c. \A d \in Docs \ {r.doc} :
         /\ rows'[d] = None <=> rows[d] = None
         /\ rows[d] # None =>
              /\ rows'[d].url = rows[d].url /\ rows'[d].at = rows[d].at
              /\ rows'[d].active <=> rows[d].active /\ ~(claim[p] /\ rows[d].url = r.url)
  BY WriteTells DEF Calm
<1>d. /\ r = record[r.doc]
      /\ claim[p] <=> ~Newer(r)
      /\ PayloadOf(r) \in log /\ r.doc \in Serves[r.url]
  BY <1>a DEF Calm, OneAtATime, TellCaptures, PayloadOf
<1>e. \A d \in Docs : rows[d] # None =>
         /\ rows[d].at \in Nat /\ rows[d].url \in Urls
         /\ d \in Serves[rows[d].url]
         /\ d # r.doc => rows[d].at # r.at
  <2>1. SUFFICES ASSUME NEW d \in Docs, rows[d] # None
                 PROVE  /\ rows[d].at \in Nat /\ rows[d].url \in Urls
                        /\ d \in Serves[rows[d].url]
                        /\ d # r.doc => rows[d].at # r.at
    OBVIOUS
  <2>. DEFINE c == [url |-> rows[d].url, doc |-> d, at |-> rows[d].at]
  <2>2. c \in log /\ c.url = rows[d].url /\ c.doc = d /\ c.at = rows[d].at
    BY <2>1 DEF Calm, TellCaptures
  <2>3. rows[d].at \in Nat /\ rows[d].url \in Urls
    BY <1>a, <2>1 DEF Row, Times
  <2>4. PayloadOf(r).at = r.at /\ PayloadOf(r).doc = r.doc
    BY DEF PayloadOf
  <2>. HIDE DEF c
  <2>5. d \in Serves[rows[d].url] /\ (d # r.doc => rows[d].at # r.at)
    BY <1>d, <2>2, <2>4 DEF Calm, TellCaptures
  <2>6. QED  BY <2>3, <2>5
<1>f. rows[r.doc] # None => rows[r.doc].at <= r.at
  BY <1>b, <1>d DEF Calm, HandledInTurn
<1>1. SUFFICES ASSUME NEW u \in Urls, OwnBytes(u), NEW d \in Docs, rows'[d] # None, rows'[d].url = u
               PROVE  rows'[d].active <=> \A e \in Docs : rows'[e] # None /\ rows'[e].url = u
                                                            => rows'[e].at <= rows'[d].at
  BY DEF ActiveIsLatest, OwnBytes
<1>2. \A e \in Docs : rows[e] # None /\ rows[e].url = u =>
         (rows[e].active <=> \A f \in Docs : rows[f] # None /\ rows[f].url = u
                                                => rows[f].at <= rows[e].at)
  BY <1>1 DEF Calm, ActiveIsLatest
<1>3. rows[r.doc] # None /\ u \in {r.url, rows[r.doc].url} => rows[r.doc].url = r.url
  BY <1>1, <1>b, <1>d, <1>e DEF OwnBytes
<1>4. CASE u # r.url
  <2>1. d # r.doc /\ rows[d] # None /\ rows[d].url = u /\ rows'[d].at = rows[d].at
        /\ (rows'[d].active <=> rows[d].active)
    BY <1>1, <1>4, <1>b, <1>c
  <2>2. \A e \in Docs : rows'[e] # None /\ rows'[e].url = u
                           <=> rows[e] # None /\ rows[e].url = u
    BY <1>3, <1>4, <1>b, <1>c
  <2>3. \A e \in Docs : rows[e] # None /\ rows[e].url = u => rows'[e].at = rows[e].at
    BY <1>3, <1>4, <1>c
  <2>4. QED  BY <1>2, <2>1, <2>2, <2>3
<1>5. CASE u = r.url /\ claim[p]
  <2>1. \A e \in Docs \ {r.doc} : rows[e] # None /\ rows[e].url = u => rows[e].at < r.at
    <3>1. \A e \in Docs \ {r.doc} : rows[e] # None /\ rows[e].url = u => ~(rows[e].at > r.at)
      BY <1>5, <1>d DEF Newer
    <3>2. QED  BY <3>1, <1>b, <1>e
  <2>2. CASE d = r.doc
    <3>1. \A e \in Docs : rows'[e] # None /\ rows'[e].url = u => rows'[e].at <= r.at
      BY <2>1, <1>b, <1>c, <1>e
    <3>2. rows'[d].active /\ rows'[d].at = r.at
      BY <2>2, <1>5, <1>b
    <3>3. QED  BY <3>1, <3>2
  <2>3. CASE d # r.doc
    <3>1. ~rows'[d].active /\ rows'[d].at < r.at
      BY <1>1, <1>5, <2>1, <2>3, <1>c
    <3>2. rows'[r.doc].url = u /\ rows'[r.doc].at = r.at /\ rows'[d].at \in Nat
      BY <1>1, <1>5, <2>3, <1>b, <1>c, <1>e
    <3>3. QED  BY <3>1, <3>2, <1>b
  <2>4. QED  BY <2>2, <2>3
<1>6. CASE u = r.url /\ ~claim[p]
  <2>1. PICK n \in Docs \ {r.doc} : rows[n] # None /\ rows[n].url = u /\ rows[n].at > r.at
    BY <1>6, <1>d DEF Newer
  <2>2. rows'[n] # None /\ rows'[n].url = u /\ rows'[n].at = rows[n].at /\ rows[n].at \in Nat
    BY <2>1, <1>c, <1>e
  <2>3. CASE d = r.doc
    <3>1. ~rows'[d].active /\ rows'[d].at = r.at
      BY <2>3, <1>6, <1>b
    <3>2. QED  BY <2>1, <2>2, <3>1, <1>b
  <2>4. CASE d # r.doc
    <3>1. /\ rows[d] # None /\ rows[d].url = u /\ rows'[d].at = rows[d].at
          /\ rows'[d].active <=> rows[d].active
      BY <1>1, <1>6, <2>4, <1>c
    <3>2. ASSUME \A e \in Docs : rows[e] # None /\ rows[e].url = u => rows[e].at <= rows[d].at,
                 NEW e \in Docs, rows'[e] # None, rows'[e].url = u
          PROVE  rows'[e].at <= rows[d].at
      <4>1. CASE e = r.doc
        <5>1. rows[n].at <= rows[d].at
          BY <2>1, <3>2
        <5>2. QED  BY <4>1, <5>1, <2>1, <1>b, <1>e, <3>1
      <4>2. CASE e # r.doc
        BY <3>2, <4>2, <1>c
      <4>3. QED  BY <4>1, <4>2
    <3>3. ASSUME \A e \in Docs : rows'[e] # None /\ rows'[e].url = u => rows'[e].at <= rows[d].at,
                 NEW e \in Docs, rows[e] # None, rows[e].url = u
          PROVE  rows[e].at <= rows[d].at
      <4>1. CASE e = r.doc
        <5>1. rows[e].at <= r.at /\ r.at <= rows[d].at
          BY <4>1, <3>3, <1>6, <1>b, <1>f
        <5>2. QED  BY <5>1, <1>b, <1>e, <3>1, <3>3
      <4>2. CASE e # r.doc
        BY <3>3, <4>2, <1>c
      <4>3. QED  BY <4>1, <4>2
    <3>4. QED  BY <1>2, <3>1, <3>2, <3>3
  <2>5. QED  BY <2>3, <2>4
<1>7. QED
  BY <1>4, <1>5, <1>6

LEMMA AlwaysUndisturbed == Spec => []Undisturbed
<1>1. Init => Undisturbed
  BY DEF Init, Undisturbed, TellCaptures, OneAtATime, HandledInTurn, ActiveIsLatest, Ingestors
<1>2. Typed /\ Undisturbed /\ [Next]_vars => Undisturbed'
  <2>1. SUFFICES ASSUME Typed, Undisturbed, [Next]_vars PROVE Undisturbed'
    OBVIOUS
  <2>2. TellCaptures'
    BY <2>1, StepTells DEF Undisturbed
  <2>3. ASSUME slips' = {} PROVE (OneAtATime /\ HandledInTurn /\ ActiveIsLatest)'
    <3>1. Calm
      BY <2>1, <2>3, NoSlip DEF Undisturbed, Calm
    <3>2. OneAtATime' /\ HandledInTurn'
      BY <2>1, <2>3, <3>1, OneAtATimeStep, HandledInTurnStep
    <3>3. CASE \E p \in Ingestors : Write(p)
      BY <3>1, <3>2, <3>3, WriteKeepsLatest
    <3>4. CASE ~\E p \in Ingestors : Write(p)
      BY <2>1, <3>1, <3>2, <3>4, OthersLeaveRows DEF Calm, ActiveIsLatest, OwnBytes
    <3>5. QED  BY <3>2, <3>3, <3>4
  <2>4. QED  BY <2>2, <2>3 DEF Undisturbed
<1>3. QED
  BY <1>1, <1>2, AlwaysTyped, PTL DEF Spec

\* Without overlap and redelivery: once the graph tells what the records tell, the active row of
\* a URL whose bytes are its own is that of its latest capture, whatever it served before and
\* however often graph_rebuild ran, or died, in between.
THEOREM LatestIsActive == Spec => []CurrentActive
<1>1. Typed /\ Undisturbed => CurrentActive
  <2>1. SUFFICES ASSUME Typed, Undisturbed, Settled, slips = {}, NEW u \in Urls, OwnBytes(u)
                 PROVE  ActiveAt(u) = {c.doc : c \in LatestAt(u)}
    BY DEF CurrentActive, NewestActive
  <2>2. \A c \in log : c.url = u =>
           /\ c.doc \in Docs /\ rows[c.doc] # None /\ rows[c.doc].url = u
           /\ c.at <= rows[c.doc].at /\ c.at \in Nat
    <3>1. SUFFICES ASSUME NEW c \in log, c.url = u
                   PROVE  /\ c.doc \in Docs /\ rows[c.doc] # None /\ rows[c.doc].url = u
                          /\ c.at <= rows[c.doc].at /\ c.at \in Nat
      OBVIOUS
    <3>2. c.doc \in Docs /\ c.at \in Nat /\ c.doc \in Serves[u]
      BY <2>1, <3>1 DEF Typed, TypeOK, Capture, Times, Undisturbed, TellCaptures
    <3>3. record[c.doc] # None /\ c.at <= record[c.doc].at
      BY <2>1, <3>1 DEF Settled, Undisturbed, HandledInTurn
    <3>4. rows[c.doc] # None /\ rows[c.doc].url = record[c.doc].url
          /\ rows[c.doc].at = record[c.doc].at
      BY <2>1, <3>2, <3>3 DEF Settled
    <3>5. record[c.doc].url \in Urls /\ record[c.doc].doc = c.doc
      BY <2>1, <3>2, <3>3 DEF Typed, TypeOK, Handed, Record
    <3>6. c.doc \in Serves[record[c.doc].url]
      BY <2>1, <3>2, <3>3, <3>5 DEF Undisturbed, TellCaptures, PayloadOf
    <3>7. record[c.doc].url = u
      BY <2>1, <3>2, <3>5, <3>6 DEF OwnBytes
    <3>8. QED  BY <3>2, <3>3, <3>4, <3>7
  <2>3. \A d \in Docs : rows[d] # None =>
           /\ [url |-> rows[d].url, doc |-> d, at |-> rows[d].at] \in log
           /\ rows[d].at \in Nat
    BY <2>1 DEF Undisturbed, TellCaptures, Typed, TypeOK, Row, Times
  <2>4. \A d \in Docs : rows[d] # None /\ rows[d].url = u =>
           (rows[d].active <=> \A e \in Docs : rows[e] # None /\ rows[e].url = u
                                                  => rows[e].at <= rows[d].at)
    BY <2>1 DEF Undisturbed, ActiveIsLatest
  <2>5. ASSUME NEW d \in ActiveAt(u) PROVE \E c \in LatestAt(u) : c.doc = d
    <3>. DEFINE c == [url |-> rows[d].url, doc |-> d, at |-> rows[d].at]
    <3>1. d \in Docs /\ rows[d] # None /\ rows[d].url = u /\ rows[d].active
      BY DEF ActiveAt
    <3>2. c \in log /\ c.url = u /\ c.at = rows[d].at /\ c.doc = d
      BY <2>3, <3>1
    <3>3. ASSUME NEW e \in log, e.url = u PROVE e.at <= rows[d].at
      <4>1. rows[e.doc].at <= rows[d].at /\ e.at <= rows[e.doc].at
        BY <2>2, <2>4, <3>1, <3>3
      <4>2. rows[e.doc].at \in Nat /\ rows[d].at \in Nat /\ e.at \in Nat
        BY <2>2, <2>3, <3>1, <3>3
      <4>3. QED  BY <4>1, <4>2
    <3>. HIDE DEF c
    <3>4. QED  BY <3>2, <3>3 DEF LatestAt
  <2>6. ASSUME NEW c \in LatestAt(u) PROVE c.doc \in ActiveAt(u)
    <3>1. c \in log /\ c.url = u /\ \A e \in log : e.url = u => e.at <= c.at
      BY DEF LatestAt
    <3>2. /\ c.doc \in Docs /\ rows[c.doc] # None /\ rows[c.doc].url = u
          /\ c.at <= rows[c.doc].at /\ c.at \in Nat
      BY <2>2, <3>1
    <3>3. ASSUME NEW e \in Docs, rows[e] # None, rows[e].url = u
          PROVE  rows[e].at <= rows[c.doc].at
      <4>. DEFINE f == [url |-> rows[e].url, doc |-> e, at |-> rows[e].at]
      <4>1. f \in log /\ f.url = u /\ f.at = rows[e].at
        BY <2>3, <3>3
      <4>. HIDE DEF f
      <4>2. f.at <= c.at
        BY <3>1, <4>1
      <4>3. rows[e].at \in Nat /\ rows[c.doc].at \in Nat
        BY <2>3, <3>2, <3>3
      <4>4. QED  BY <3>2, <4>1, <4>2, <4>3
    <3>4. QED  BY <2>4, <3>2, <3>3 DEF ActiveAt
  <2>7. QED  BY <2>5, <2>6
<1>2. QED
  BY <1>1, AlwaysTyped, AlwaysUndisturbed, PTL
=============================================================================
