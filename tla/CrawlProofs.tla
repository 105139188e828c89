----------------------------- MODULE CrawlProofs -----------------------------
(***************************************************************************)
(* The invariants of Crawl, proved for every set of URLs and bodies, every *)
(* bound and everything that May happen.  They are proved in layers, each  *)
(* using those below it: types, then what the crawler holds at each place, *)
(* then the frontier row it holds, then the log and its times, then the    *)
(* lake; at last, for processes that do not fail, events and links.        *)
(***************************************************************************)
EXTENDS Crawl, TLAPS

Typed == TypeOK /\ HandTyped

\* The operators on the frontier table keep its types.
LEMMA FrontierTypes ==
    ASSUME TypeOK, NEW u \in Urls, NEW d \in 0..MaxDepth + 1, NEW n \in 0..MaxRetries,
           FrontierAdd(u, d) \/ FrontierSkip(u) \/ FrontierRetry(u, n)
    PROVE  /\ status' \in [Urls -> {"absent", "queued", "done", "skipped"}]
           /\ depth' \in [Urls -> 0..MaxDepth + 1]
           /\ tries' \in [Urls -> 0..MaxRetries]
           /\ due' \subseteq Urls
<1>1. CASE FrontierAdd(u, d)
  BY <1>1 DEF TypeOK, FrontierAdd, frontier
<1>2. CASE FrontierSkip(u)
  BY <1>2 DEF TypeOK, FrontierSkip
<1>3. CASE FrontierRetry(u, n)
  BY <1>3 DEF TypeOK, FrontierRetry
<1> QED BY <1>1, <1>2, <1>3

LEMMA RequeueTypes ==
    ASSUME TypeOK, FrontierRequeueStale
    PROVE  /\ status' \in [Urls -> {"absent", "queued", "done", "skipped"}]
           /\ due' \subseteq Urls
           /\ UNCHANGED <<depth, tries>>
BY DEF TypeOK, FrontierRequeueStale, StaleDone

\* Opening a Frontier keeps the log a count of captures.
LEMMA BackfillTypes ==
    ASSUME TypeOK, Backfill
    PROVE  captured' \in [Capture -> Nat] /\ bare' \subseteq Urls
BY DEF TypeOK, Backfill

LEMMA NoRowTyped == NoRow \in [url : Urls \cup {NoUrl}, depth : 0..MaxDepth + 1,
                                tries : 0..MaxRetries]
BY BoundAssumption DEF NoRow

LEMMA InitTyped == Init => Typed
<1> SUFFICES ASSUME Init PROVE Typed
    OBVIOUS
<1>1. downloads \in [Urls -> [body : Bodies \cup {NoBody}, at : 0..MaxCaptures]]
      /\ raw \subseteq Bodies /\ manifest \in [Bodies -> SUBSET Urls]
  BY UrlAssumption, BoundAssumption DEF Init
<1>2. row \in [url : Urls \cup {NoUrl}, depth : 0..MaxDepth + 1, tries : 0..MaxRetries]
  BY NoRowTyped DEF Init
<1>3. depth \in [Urls -> 0..MaxDepth + 1]
  BY BoundAssumption DEF Init
<1>4. status \in [Urls -> {"absent", "queued", "done", "skipped"}]
      /\ tries \in [Urls -> 0..MaxRetries] /\ captured \in [Capture -> Nat]
      /\ clock \in 0..MaxCaptures /\ crashes \in 0..MaxCrashes
  BY BoundAssumption DEF Init
<1>5. TypeOK
  BY <1>1, <1>2, <1>3, <1>4 DEF TypeOK, Init
<1>6. HandTyped
  BY DEF HandTyped, Init, Working
<1> QED BY <1>5, <1>6 DEF Typed

\* Back in its loop, down or at the start the crawler holds nothing.
LEMMA EmptyHand ==
    ASSUME pc' \in {"loop", "down", "seed"}, row' = NoRow, body' = NoBody,
           pending' \subseteq Urls, robotsDown' \in BOOLEAN
    PROVE  /\ HandTyped'
           /\ pc' \in Working \cup {"down", "seed", "loop", "links"}
           /\ row' \in [url : Urls \cup {NoUrl}, depth : 0..MaxDepth + 1,
                        tries : 0..MaxRetries]
           /\ body' \in Bodies \cup {NoBody}
           /\ pending' \subseteq Urls
           /\ robotsDown' \in BOOLEAN
BY NoRowTyped DEF HandTyped, Working

\* Each step keeps the types and what the crawler holds at each place.
LEMMA TypedStep == Typed /\ [Next]_vars => Typed'
<1> SUFFICES ASSUME Typed, [Next]_vars PROVE Typed'
    OBVIOUS
<1> USE UrlAssumption, BoundAssumption
<1>0. TypeOK /\ HandTyped
  BY DEF Typed
<1>1. CASE UNCHANGED vars
  BY <1>0, <1>1 DEF Typed, TypeOK, HandTyped, vars, frontier, observations, lake, crawler
<1>2. CASE Start
  <2>1. pc' = "seed" /\ row' = NoRow /\ body' = NoBody /\ robotsDown' \in BOOLEAN
        /\ pending' \subseteq Urls
    BY <1>2 DEF Start
  <2> QED BY <1>0, <1>2, <2>1, EmptyHand, BackfillTypes DEF Typed, TypeOK, Start, frontier, lake
<1>3. ASSUME NEW u \in Urls, AddPending(u) PROVE Typed'
  <2> DEFINE d == IF pc = "seed" THEN 0 ELSE row.depth + 1
  <2>1. d \in 0..MaxDepth + 1
    BY <1>0, <1>3 DEF AddPending, TypeOK, HandTyped
  <2>2. FrontierAdd(u, d)
    BY <1>3 DEF AddPending
  <2> HIDE DEF d
  <2>3. 0 \in 0..MaxRetries
    OBVIOUS
  <2> QED BY <1>0, <1>3, <2>1, <2>2, <2>3, FrontierTypes
          DEF Typed, TypeOK, HandTyped, AddPending, observations, lake
<1>4. CASE EndAdding
  BY <1>0, <1>4, EmptyHand DEF Typed, TypeOK, EndAdding, BackToLoop, frontier, observations, lake
<1>5. ASSUME NEW u \in Urls, Pick(u) PROVE Typed'
  <2>1. row' \in [url : Urls \cup {NoUrl}, depth : 0..MaxDepth + 1, tries : 0..MaxRetries]
    BY <1>0, <1>5 DEF Pick, TypeOK, Bump
  <2> QED BY <1>0, <1>5, <2>1 DEF Typed, TypeOK, HandTyped, Pick, Working, frontier, observations, lake
<1>6. CASE RequeueWhenIdle
  BY <1>0, <1>6, RequeueTypes
     DEF Typed, TypeOK, HandTyped, RequeueWhenIdle, crawler, observations, lake
<1>7. CASE SkipUnchecked
  BY <1>0, <1>7, FrontierTypes, EmptyHand
     DEF Typed, TypeOK, HandTyped, SkipUnchecked, BackToLoop, Working, observations, lake
<1>8. CASE PauseOnLowDisk
  BY <1>0, <1>8, EmptyHand
     DEF Typed, TypeOK, PauseOnLowDisk, BackToLoop, frontier, observations, lake
<1>9. CASE DoneWhileFresh
  BY <1>0, <1>9, EmptyHand
     DEF Typed, TypeOK, HandTyped, DoneWhileFresh, Admitted, BackToLoop, Working, observations, lake
<1>10. CASE Request
  BY <1>0, <1>10
     DEF Typed, TypeOK, HandTyped, Request, Admitted, GoTo, Working, frontier, observations, lake
<1>11. CASE NotModified
  BY <1>0, <1>11 DEF Typed, TypeOK, HandTyped, NotModified, NoteNotModified, GoTo, Working, frontier, lake
<1>12. CASE RateLimited
  BY <1>0, <1>12, FrontierTypes, EmptyHand
     DEF Typed, TypeOK, HandTyped, RateLimited, BackToLoop, Working, observations, lake
<1>13. CASE Failing
  BY <1>0, <1>13, FrontierTypes, EmptyHand
     DEF Typed, TypeOK, HandTyped, Failing, ServerError, Raise, RetryOrSkip, BackToLoop, Working,
         observations, lake
<1>14. CASE Rejected
  BY <1>0, <1>14, FrontierTypes, EmptyHand
     DEF Typed, TypeOK, HandTyped, Rejected, BackToLoop, Working, observations, lake
<1>15. ASSUME NEW b \in Bodies, CommitBody(b) PROVE Typed'
  BY <1>0, <1>15 DEF Typed, TypeOK, HandTyped, CommitBody, Working, frontier, observations
<1>16. CASE WriteManifest
  BY <1>0, <1>16
     DEF Typed, TypeOK, HandTyped, WriteManifest, MergedSources, GoTo, Working, frontier, observations
<1>17. CASE SaveDownload
  <2>1. InHand \in Capture
    BY <1>0, <1>17 DEF TypeOK, HandTyped, SaveDownload, InHand, Capture, Working
  <2>2. captured' \in [Capture -> Nat]
    BY <1>0, <1>17, <2>1 DEF TypeOK, SaveDownload, AppendObservation
  <2> QED BY <1>0, <1>17, <2>2
          DEF Typed, TypeOK, HandTyped, SaveDownload, GoTo, Working, frontier, lake
<1>18. CASE Publish \/ PublishLate
  <2>1. InHand \in Capture
    BY <1>0, <1>18 DEF TypeOK, HandTyped, Publish, PublishLate, InHand, Capture, Working
  <2> QED BY <1>0, <1>18, <2>1
          DEF Typed, TypeOK, HandTyped, Publish, PublishLate, GoTo, Working, frontier, observations, lake
<1>19. CASE MarkDone
  <2>1. CASE FollowsLinks
    BY <1>0, <1>19, <2>1
       DEF Typed, TypeOK, HandTyped, MarkDone, FollowsLinks, Working, observations, lake
  <2>2. CASE ~FollowsLinks
    BY <1>0, <1>19, <2>2, EmptyHand
       DEF Typed, TypeOK, HandTyped, MarkDone, BackToLoop, Working, observations, lake
  <2> QED BY <2>1, <2>2
<1>20. CASE Crash
  <2>1. crashes' \in 0..MaxCrashes
    BY <1>0, <1>20 DEF Crash, TypeOK
  <2> QED BY <1>0, <1>20, <2>1, EmptyHand DEF Typed, TypeOK, Crash, frontier, observations, lake
<1>21. CASE JobRecrawlStale
  BY <1>0, <1>21, RequeueTypes, BackfillTypes
     DEF Typed, TypeOK, HandTyped, JobRecrawlStale, crawler, lake
<1>22. ASSUME NEW u \in Urls, JobFrontierSeed(u) PROVE Typed'
  BY <1>0, <1>22, FrontierTypes, BackfillTypes
     DEF Typed, TypeOK, HandTyped, JobFrontierSeed, crawler, lake
<1>23. ASSUME NEW u \in Urls, Age(u) \/ BecomeDue(u) PROVE Typed'
  BY <1>0, <1>23
     DEF Typed, TypeOK, HandTyped, Age, BecomeDue, crawler, frontier, observations, lake
<1> QED BY <1>1, <1>2, <1>3, <1>4, <1>5, <1>6, <1>7, <1>8, <1>9, <1>10, <1>11, <1>12, <1>13,
           <1>14, <1>15, <1>16, <1>17, <1>18, <1>19, <1>20, <1>21, <1>22, <1>23
        DEF Next, Elsewhere, Adding, Loop, Sleep, Settle, Answer, Keep, Jobs, Clocks

\* Every variable keeps its type.
THEOREM TypeCorrect == Spec => []TypeOK
<1>1. Spec => []Typed
  BY InitTyped, TypedStep, PTL DEF Spec
<1>2. Typed => TypeOK
  BY DEF Typed
<1> QED BY <1>1, <1>2, PTL
-----------------------------------------------------------------------------
(* The row in hand. *)

\* The steps that leave the crawler out of any row.
LEMMA RowReleased ==
    ASSUME \/ Start \/ Adding \/ Sleep \/ RequeueWhenIdle \/ SkipUnchecked \/ PauseOnLowDisk
           \/ DoneWhileFresh \/ RateLimited \/ Failing \/ Rejected \/ MarkDone \/ Crash
    PROVE  pc' \notin Working
BY DEF Start, Adding, EndAdding, AddPending, Sleep, RequeueWhenIdle, SkipUnchecked, PauseOnLowDisk,
       DoneWhileFresh, RateLimited, Failing, ServerError, Raise, Rejected, MarkDone, FollowsLinks,
       Crash, BackToLoop, Working, crawler, vars

\* The steps within _process that keep the row they hold and do not write it.
LEMMA RowKept ==
    ASSUME \/ Request \/ NotModified \/ (\E b \in Bodies : CommitBody(b)) \/ WriteManifest
           \/ SaveDownload \/ Publish \/ PublishLate
    PROVE  pc \in Working /\ pc' \in Working /\ UNCHANGED <<row, frontier>>
BY DEF Request, Admitted, NotModified, CommitBody, WriteManifest, SaveDownload, Publish,
       PublishLate, GoTo, Working

LEMMA RowStep == Typed /\ RowIsStable /\ [Next]_vars => RowIsStable'
<1> SUFFICES ASSUME Typed, RowIsStable, [Next]_vars, pc' \in Working
             PROVE  /\ status'[row'.url] = "queued"
                    /\ depth'[row'.url] = row'.depth
                    /\ Bump(tries'[row'.url]) = row'.tries
    BY DEF RowIsStable, Bump
<1>0. TypeOK /\ HandTyped
  BY DEF Typed
<1>1. CASE UNCHANGED vars
  BY <1>1 DEF vars, frontier, crawler, RowIsStable
<1>2. ASSUME NEW u \in Urls, Pick(u)
      PROVE  /\ status'[row'.url] = "queued"
             /\ depth'[row'.url] = row'.depth
             /\ Bump(tries'[row'.url]) = row'.tries
  BY <1>2 DEF Pick, Ready, frontier
<1>3. CASE UNCHANGED <<row, frontier>> /\ pc \in Working
  BY <1>3 DEF RowIsStable, frontier
<1>4. CASE JobRecrawlStale
  BY <1>0, <1>4 DEF JobRecrawlStale, FrontierRequeueStale, StaleDone, RowIsStable, crawler,
                    TypeOK, HandTyped
<1>5. CASE \E u \in Urls : JobFrontierSeed(u)
  BY <1>0, <1>5 DEF JobFrontierSeed, FrontierAdd, RowIsStable, crawler, frontier, TypeOK, HandTyped
<1>6. CASE Clocks
  BY <1>6 DEF Clocks, Age, BecomeDue, RowIsStable, crawler, frontier
<1> QED BY <1>1, <1>2, <1>3, <1>4, <1>5, <1>6, RowReleased, RowKept
        DEF Next, Elsewhere, Loop, Settle, Answer, Keep, Jobs

\* No process changes the row that _process holds across its awaits.
THEOREM RowStable == Spec => []RowIsStable
<1>1. Init => RowIsStable
  BY DEF Init, RowIsStable, Working
<1>2. Spec => []Typed
  BY InitTyped, TypedStep, PTL DEF Spec
<1> QED BY <1>1, <1>2, RowStep, PTL DEF Spec
-----------------------------------------------------------------------------
(* The downloads table, the log and its times. *)

Stored == DoneIsAccounted /\ HandStored

Logged == TimesOrdered /\ CapturesLoggedOnce

\* The steps that touch neither the lake, the tables of captures nor the clock.
FrontierOnly == UNCHANGED <<downloads, captured, lake, events, clock>>

LEMMA FrontierOnlySteps ==
    ASSUME \/ Adding \/ Loop \/ Settle \/ PauseOnLowDisk \/ NotModified \/ RateLimited
           \/ Failing \/ Rejected \/ MarkDone \/ Crash \/ Clocks \/ UNCHANGED vars
    PROVE  FrontierOnly
BY DEF Adding, EndAdding, AddPending, Loop, Sleep, RequeueWhenIdle, Pick, Settle, SkipUnchecked,
       DoneWhileFresh, Request, PauseOnLowDisk, NotModified, RateLimited, Failing, ServerError,
       Raise, Rejected, MarkDone, Crash, Clocks, Age, BecomeDue, FrontierOnly, observations, vars

LEMMA StoredStep == Typed /\ Stored /\ [Next]_vars => Stored'
<1> SUFFICES ASSUME Typed, Stored, [Next]_vars PROVE Stored'
    OBVIOUS
<1>0. TypeOK /\ HandTyped /\ DoneIsAccounted /\ HandStored
  BY DEF Typed, Stored
<1> USE UrlAssumption DEF Stored, DoneIsAccounted, HandStored, HasDownload, observations
<1>1. CASE UNCHANGED vars
  BY <1>0, <1>1 DEF vars, frontier, crawler
<1>2. CASE SaveDownload
  BY <1>0, <1>2 DEF SaveDownload, GoTo, TypeOK, HandTyped, Working, frontier
<1>3. CASE Publish \/ PublishLate
  BY <1>0, <1>3 DEF Publish, PublishLate, GoTo, TypeOK, HandTyped, Working, frontier
<1>4. CASE MarkDone
  BY <1>0, <1>4 DEF MarkDone, BackToLoop, TypeOK, HandTyped, Working, frontier
<1>5. CASE NotModified \/ WriteManifest \/ \E b \in Bodies : CommitBody(b)
  BY <1>0, <1>5 DEF NotModified, NoteNotModified, WriteManifest, CommitBody, GoTo, frontier, observations
<1>6. CASE DoneWhileFresh \/ SkipUnchecked \/ Request \/ PauseOnLowDisk
  BY <1>0, <1>6 DEF DoneWhileFresh, SkipUnchecked, Request, PauseOnLowDisk, Admitted, GoTo,
                    BackToLoop, FrontierSkip, TypeOK, HandTyped, Working, frontier
<1>7. CASE RateLimited \/ Failing \/ Rejected
  BY <1>0, <1>7 DEF RateLimited, Failing, ServerError, Raise, Rejected, RetryOrSkip, BackToLoop,
                    FrontierSkip, FrontierRetry, TypeOK, HandTyped, Working, frontier
<1>8. CASE Start \/ Crash \/ EndAdding \/ \E u \in Urls : Pick(u)
  BY <1>0, <1>8 DEF Start, Backfill, Crash, EndAdding, BackToLoop, Pick, frontier
<1>9. ASSUME NEW u \in Urls, AddPending(u) \/ JobFrontierSeed(u) PROVE Stored'
  BY <1>0, <1>9 DEF AddPending, JobFrontierSeed, Backfill, FrontierAdd, TypeOK, crawler, frontier
<1>10. CASE RequeueWhenIdle \/ JobRecrawlStale \/ Clocks
  BY <1>0, <1>10 DEF RequeueWhenIdle, JobRecrawlStale, Backfill, FrontierRequeueStale, StaleDone,
                     Clocks, Age, BecomeDue, TypeOK, crawler, frontier
<1> QED BY <1>1, <1>2, <1>3, <1>4, <1>5, <1>6, <1>7, <1>8, <1>9, <1>10
        DEF Next, Elsewhere, Adding, Loop, Sleep, Settle, Answer, Keep, Jobs

\* A done row has a downloads row for requeue_stale to join on, or the log a 304 of
\* its URL that names no bytes.
THEOREM DoneAccounted == Spec => []DoneIsAccounted
<1>1. Init => Stored
  BY UrlAssumption DEF Init, Stored, DoneIsAccounted, HandStored, HasDownload
<1>2. Spec => []Typed
  BY InitTyped, TypedStep, PTL DEF Spec
<1>3. Stored => DoneIsAccounted
  BY DEF Stored
<1> QED BY <1>1, <1>2, <1>3, StoredStep, PTL DEF Spec

\* backfill_observations leaves every capture logged at most once, the current
\* captures exactly once, and adds nothing but current captures.
LEMMA BackfillLogs ==
    ASSUME Typed, Backfill, \A c \in Capture : captured[c] <= 1
    PROVE  /\ Downloaded \subseteq Capture
           /\ \A c \in Capture : /\ captured'[c] <= 1
                                 /\ c \in Downloaded => captured'[c] = 1
                                 /\ captured'[c] > 0 => captured[c] > 0 \/ c \in Downloaded
                                 /\ captured'[c] >= captured[c]
<1>0. TypeOK
  BY DEF Typed
<1>1. Downloaded \subseteq Capture
  BY <1>0, UrlAssumption DEF TypeOK, Downloaded, CaptureOf, Capture, HasDownload
<1>2. \A c \in Capture : captured[c] \in Nat
  BY <1>0 DEF TypeOK
<1> QED BY <1>1, <1>2 DEF Backfill

\* What save_download writes: a capture new to the log.
LEMMA SaveLogs ==
    ASSUME Typed, Logged, SaveDownload
    PROVE  /\ InHand \in Capture
           /\ captured[InHand] = 0
           /\ captured' = [captured EXCEPT ![InHand] = 1]
           /\ Downloaded' = {c \in Downloaded : c.url # row.url} \cup {InHand}
<1>0. TypeOK /\ HandTyped /\ row.url \in Urls /\ body \in Bodies /\ pc = "save"
  BY DEF Typed, HandTyped, SaveDownload, Working
<1>1. InHand \in Capture /\ InHand.at = clock
  BY <1>0 DEF TypeOK, InHand, Capture
<1>2. captured[InHand] \in Nat
  BY <1>0, <1>1 DEF TypeOK
<1>3. ~(captured[InHand] > 0)
  BY <1>0, <1>1 DEF Logged, TimesOrdered, TypeOK
<1>4. captured[InHand] = 0
  BY <1>2, <1>3
<1>5. captured' = [captured EXCEPT ![InHand] = 1]
  BY <1>4 DEF SaveDownload, AppendObservation
<1>6. Downloaded' = {c \in Downloaded : c.url # row.url} \cup {InHand}
  <2>1. /\ downloads' = [downloads EXCEPT ![row.url] = [body |-> body, at |-> clock]]
        /\ downloads \in [Urls -> [body : Bodies \cup {NoBody}, at : 0..MaxCaptures]]
        /\ body # NoBody
    BY <1>0, UrlAssumption DEF SaveDownload, TypeOK
  <2>2. \A u \in Urls : u # row.url => downloads'[u] = downloads[u]
    BY <2>1
  <2>3. downloads'[row.url] = [body |-> body, at |-> clock]
    BY <1>0, <2>1
  <2> QED BY <1>0, <2>1, <2>2, <2>3 DEF Downloaded, CaptureOf, HasDownload, InHand
<1> QED BY <1>1, <1>4, <1>5, <1>6

LEMMA LoggedStep == Typed /\ Typed' /\ Logged /\ [Next]_vars => Logged'
<1> SUFFICES ASSUME Typed, Typed', Logged, [Next]_vars PROVE Logged'
    OBVIOUS
<1>0. /\ TypeOK /\ HandTyped /\ TimesOrdered /\ CapturesLoggedOnce
      /\ clock \in Nat /\ \A c \in Capture : c.at \in Nat /\ captured[c] \in Nat
      /\ \A u \in Urls : downloads[u].at \in Nat
  <2>1. TypeOK /\ HandTyped /\ TimesOrdered /\ CapturesLoggedOnce
    BY DEF Typed, Logged
  <2>2. clock \in Nat /\ \A u \in Urls : downloads[u].at \in Nat
    BY <2>1, BoundAssumption DEF TypeOK
  <2>3. \A c \in Capture : c.at \in Nat
    BY BoundAssumption DEF Capture
  <2>4. \A c \in Capture : captured[c] \in Nat
    BY <2>1 DEF TypeOK
  <2> QED BY <2>1, <2>2, <2>3, <2>4
<1>1. ASSUME UNCHANGED <<downloads, captured, clock>>,
             pc' \in {"manifest", "save"} => pc \in {"manifest", "save"},
             pc' # "down" => pc # "down"
      PROVE  Logged'
  BY <1>0, <1>1 DEF Logged, TimesOrdered, CapturesLoggedOnce, Downloaded, CaptureOf,
                    HasDownload
<1>2. CASE \/ Adding \/ Loop \/ Settle \/ PauseOnLowDisk \/ NotModified \/ RateLimited
           \/ Failing \/ Rejected \/ MarkDone \/ Crash \/ Clocks \/ UNCHANGED vars
  <2>1. /\ pc' \in {"manifest", "save"} => pc = pc'
        /\ pc' # "down" => pc # "down"
    BY <1>2 DEF Adding, EndAdding, AddPending, Loop, Sleep, RequeueWhenIdle, Pick, Settle,
                SkipUnchecked, DoneWhileFresh, Request, Admitted, PauseOnLowDisk, NotModified,
                RateLimited, Failing, ServerError, Raise, Rejected, MarkDone, Crash, Clocks, Age,
                BecomeDue, BackToLoop, GoTo, crawler, vars
  <2> QED BY <1>1, <1>2, <2>1, FrontierOnlySteps DEF FrontierOnly
<1>3. ASSUME NEW b \in Bodies, CommitBody(b) PROVE Logged'
  BY <1>0, <1>3 DEF CommitBody, Logged, TimesOrdered, CapturesLoggedOnce, Downloaded, CaptureOf,
                    HasDownload, observations
<1>4. CASE WriteManifest \/ Publish \/ PublishLate
  BY <1>1, <1>4 DEF WriteManifest, Publish, PublishLate, GoTo, observations
<1>5. CASE SaveDownload
  <2>1. /\ InHand \in Capture /\ InHand.at = clock /\ pc' = "publish" /\ pc # "down" /\ clock' = clock
        /\ captured' = [captured EXCEPT ![InHand] = 1]
        /\ Downloaded' = {c \in Downloaded : c.url # row.url} \cup {InHand}
    BY <1>5, SaveLogs DEF SaveDownload, GoTo, InHand, Logged
  <2>2. \A u \in Urls : downloads'[u].at <= clock
    BY <1>0, <1>5 DEF SaveDownload, TimesOrdered, TypeOK
  <2>3. captured \in [Capture -> Nat]
    BY <1>0 DEF TypeOK
  <2>4. \A c \in Capture : captured'[c] = IF c = InHand THEN 1 ELSE captured[c]
    BY <2>1, <2>3
  <2>5. \A c \in Downloaded : captured[c] = 1
    BY <1>0, <2>1 DEF CapturesLoggedOnce
  <2>6. Downloaded \subseteq Capture
    BY <1>0, UrlAssumption DEF TypeOK, Downloaded, CaptureOf, Capture, HasDownload
  <2>7. TimesOrdered'
    BY <1>0, <2>1, <2>2, <2>4 DEF TimesOrdered
  <2>8. CapturesLoggedOnce'
    BY <1>0, <2>1, <2>4, <2>5, <2>6 DEF CapturesLoggedOnce
  <2> QED BY <2>7, <2>8 DEF Logged
<1>6. CASE Start \/ Jobs
  <2>1. /\ Backfill /\ UNCHANGED <<downloads, clock>>
        /\ pc' \in {"manifest", "save"} => pc' = pc
    BY <1>6 DEF Start, Jobs, JobRecrawlStale, JobFrontierSeed, crawler
  <2>2. Downloaded' = Downloaded
    BY <2>1 DEF Downloaded, CaptureOf, HasDownload
  <2>3. \A c \in Downloaded : c.at <= clock /\ (pc' \in {"manifest", "save"} => c.at < clock)
    BY <1>0, <2>1 DEF Downloaded, CaptureOf, TimesOrdered
  <2> QED BY <1>0, <2>1, <2>2, <2>3, BackfillLogs DEF Logged, TimesOrdered, CapturesLoggedOnce
<1> QED BY <1>2, <1>3, <1>4, <1>5, <1>6 DEF Next, Elsewhere, Answer, Keep

\* The log holds each capture once.
THEOREM LoggedOnce == Spec => []CapturesLoggedOnce
<1>1. Init => Logged
  BY BoundAssumption DEF Init, Logged, TimesOrdered, CapturesLoggedOnce
<1>2. Spec => []Typed
  BY InitTyped, TypedStep, PTL DEF Spec
<1>3. Logged => CapturesLoggedOnce
  BY DEF Logged
<1> QED BY <1>1, <1>2, <1>3, LoggedStep, PTL DEF Spec
-----------------------------------------------------------------------------
(* The lake and the stream. *)

Backed == LoggedIsBacked /\ BytesBeforeRows /\ EventsAreBacked

\* A current capture, and one the crawler has still to save, has what it needs.
LEMMA DownloadedBacked ==
    ASSUME Typed, Backed, NEW c \in Downloaded
    PROVE  c \in Capture /\ c.body \in raw /\ c.url \in manifest[c.body]
BY UrlAssumption DEF Typed, TypeOK, Backed, BytesBeforeRows, Downloaded, CaptureOf, HasDownload,
                     Capture

LEMMA BackedStep ==
    Typed /\ Stored /\ Logged /\ Logged' /\ Backed /\ [Next]_vars => Backed'
<1> SUFFICES ASSUME Typed, Stored, Logged, Logged', Backed, [Next]_vars PROVE Backed'
    OBVIOUS
<1>0. TypeOK /\ HandTyped /\ LoggedIsBacked /\ BytesBeforeRows /\ EventsAreBacked
  BY DEF Typed, Backed
<1>1. CASE \/ Adding \/ Loop \/ Settle \/ PauseOnLowDisk \/ NotModified \/ RateLimited
           \/ Failing \/ Rejected \/ MarkDone \/ Crash \/ Clocks \/ UNCHANGED vars
  <2>1. FrontierOnly
    BY <1>1, FrontierOnlySteps
  <2>2. pc' \in {"manifest", "save"} => pc = pc' /\ UNCHANGED <<row, body>>
    BY <1>1 DEF Adding, EndAdding, AddPending, Loop, Sleep, RequeueWhenIdle, Pick, Settle,
                SkipUnchecked, DoneWhileFresh, Request, Admitted, PauseOnLowDisk, NotModified,
                RateLimited, Failing, ServerError, Raise, Rejected, MarkDone, Crash, Clocks, Age,
                BecomeDue, BackToLoop, GoTo, crawler, vars
  <2> QED BY <1>0, <2>1, <2>2 DEF FrontierOnly, lake, Backed, LoggedIsBacked, BytesBeforeRows,
                                  EventsAreBacked, HasDownload
<1>2. ASSUME NEW b \in Bodies, CommitBody(b) PROVE Backed'
  BY <1>0, <1>2 DEF CommitBody, Backed, LoggedIsBacked, BytesBeforeRows, EventsAreBacked,
                    HasDownload, observations
<1>3. CASE WriteManifest
  <2>1. body \in Bodies /\ pc' = "save" /\ row' = row /\ body' = body /\ raw' = raw /\ body \in raw
    BY <1>0, <1>3 DEF WriteManifest, GoTo, HandTyped, LoggedIsBacked
  <2>2. /\ \A b \in Bodies : manifest[b] \subseteq manifest'[b]
        /\ row.url \in manifest'[body]
    BY <1>0, <1>3, <2>1 DEF WriteManifest, MergedSources, TypeOK
  <2>3. UNCHANGED <<downloads, captured, events>>
    BY <1>3 DEF WriteManifest, observations
  <2>4. \A c \in Capture : c.body \in Bodies
    BY DEF Capture
  <2>5. LoggedIsBacked'
    BY <1>0, <2>1, <2>2, <2>3, <2>4 DEF LoggedIsBacked
  <2>6. BytesBeforeRows'
    BY <1>0, <2>1, <2>2, <2>3, UrlAssumption DEF BytesBeforeRows, HasDownload, TypeOK
  <2>7. EventsAreBacked'
    BY <1>0, <2>1, <2>2, <2>3, <2>4 DEF EventsAreBacked, TypeOK
  <2> QED BY <2>5, <2>6, <2>7 DEF Backed
<1>4. CASE SaveDownload
  <2>1. /\ InHand \in Capture /\ captured[InHand] = 0
        /\ captured' = [captured EXCEPT ![InHand] = 1]
    BY <1>4, SaveLogs
  <2>2. /\ InHand.url = row.url /\ InHand.body = body /\ body \in Bodies /\ row.url \in Urls
        /\ body \in raw /\ row.url \in manifest[body] /\ pc' = "publish"
    BY <1>0, <1>4 DEF SaveDownload, GoTo, InHand, LoggedIsBacked, HandTyped, Working
  <2>3. UNCHANGED <<raw, manifest, events>>
    BY <1>4 DEF SaveDownload, lake
  <2>4. \A c \in Capture : captured'[c] = IF c = InHand THEN 1 ELSE captured[c]
    BY <1>0, <2>1 DEF TypeOK
  <2>5. LoggedIsBacked'
    BY <1>0, <2>2, <2>3, <2>4 DEF LoggedIsBacked
  <2>6. BytesBeforeRows'
    BY <1>0, <1>4, <2>2, <2>3 DEF SaveDownload, BytesBeforeRows, HasDownload, TypeOK
  <2>7. EventsAreBacked'
    BY <1>0, <2>1, <2>3, <2>4 DEF EventsAreBacked, TypeOK
  <2> QED BY <2>5, <2>6, <2>7 DEF Backed
<1>5. CASE Publish \/ PublishLate
  <2>1. /\ pc = "publish" /\ row.url \in Urls /\ body \in Bodies
        /\ downloads[row.url] = [body |-> body, at |-> clock]
    BY <1>0, <1>5 DEF Publish, PublishLate, HandTyped, Stored, HandStored, Working
  <2>2. InHand \in Downloaded
    BY <2>1, UrlAssumption DEF InHand, Downloaded, CaptureOf, HasDownload
  <2>3. captured[InHand] = 1
    BY <2>1, <2>2 DEF Logged, CapturesLoggedOnce
  <2>4. InHand.body \in raw /\ InHand.url \in manifest[InHand.body]
    BY <2>2, DownloadedBacked
  <2>5. /\ UNCHANGED <<downloads, captured, raw, manifest>> /\ pc' \notin {"manifest", "save"}
        /\ events' = events \cup {InHand}
    BY <1>5 DEF Publish, PublishLate, GoTo, lake, observations
  <2> QED BY <1>0, <2>3, <2>4, <2>5 DEF Backed, LoggedIsBacked, BytesBeforeRows, EventsAreBacked,
                                        HasDownload
<1>6. CASE Start \/ Jobs
  <2>1. /\ Backfill /\ UNCHANGED <<downloads, raw, manifest, events>>
        /\ pc' \in {"manifest", "save"} => pc' = pc /\ UNCHANGED <<row, body>>
    BY <1>6 DEF Start, Jobs, JobRecrawlStale, JobFrontierSeed, crawler, lake
  <2>2. \A c \in Capture : captured[c] <= 1
    BY DEF Logged, CapturesLoggedOnce
  <2>3. \A c \in Capture : /\ captured'[c] <= 1 /\ captured'[c] >= captured[c]
                           /\ captured'[c] > 0 => captured[c] > 0 \/ c \in Downloaded
    BY <2>1, <2>2, BackfillLogs
  <2>4. LoggedIsBacked'
    <3>1. \A c \in Capture : captured'[c] > 0 => c.body \in raw /\ c.url \in manifest[c.body]
      BY <1>0, <2>3, DownloadedBacked DEF LoggedIsBacked
    <3>2. /\ pc' \in {"manifest", "save"} => body' \in raw'
          /\ pc' = "save" => row'.url \in manifest'[body']
      BY <1>0, <2>1 DEF LoggedIsBacked
    <3> QED BY <2>1, <3>1, <3>2 DEF LoggedIsBacked
  <2>5. BytesBeforeRows'
    BY <1>0, <2>1 DEF BytesBeforeRows, HasDownload
  <2>6. \A c \in Capture : captured'[c] \in Nat
    BY <1>0, <2>1 DEF Backfill, TypeOK
  <2>7. EventsAreBacked'
    <3> SUFFICES ASSUME NEW e \in events
                 PROVE  captured'[e] = 1 /\ e.body \in raw /\ e.url \in manifest[e.body]
        BY <2>1 DEF EventsAreBacked
    <3>1. e \in Capture /\ captured[e] = 1 /\ e.body \in raw /\ e.url \in manifest[e.body]
      BY <1>0 DEF EventsAreBacked, TypeOK
    <3>2. captured'[e] \in Nat /\ captured'[e] <= 1 /\ captured'[e] >= 1
      BY <2>3, <2>6, <3>1
    <3>3. captured'[e] = 1
      BY <3>2
    <3> QED BY <3>1, <3>3
  <2> QED BY <2>4, <2>5, <2>7 DEF Backed
<1> QED BY <1>1, <1>2, <1>3, <1>4, <1>5, <1>6 DEF Next, Elsewhere, Answer, Keep

\* All layers together.
Safe == Typed /\ RowIsStable /\ Stored /\ Logged /\ Backed

LEMMA InitSafe == Init => Safe
<1> SUFFICES ASSUME Init PROVE Safe
    OBVIOUS
<1>1. RowIsStable /\ Stored /\ EventsAreBacked
  BY UrlAssumption DEF Init, RowIsStable, Working, Stored, DoneIsAccounted, HandStored, HasDownload,
                       EventsAreBacked
<1>2. Logged
  BY BoundAssumption DEF Init, Logged, TimesOrdered, CapturesLoggedOnce
<1>3. LoggedIsBacked
  BY DEF Init, LoggedIsBacked
<1>4. BytesBeforeRows
  BY UrlAssumption DEF Init, BytesBeforeRows, HasDownload
<1> QED BY <1>1, <1>2, <1>3, <1>4, InitTyped DEF Safe, Backed

LEMMA AlwaysSafe == Spec => []Safe
<1>1. Safe /\ [Next]_vars => Safe'
  BY TypedStep, RowStep, StoredStep, LoggedStep, BackedStep DEF Safe
<1> QED BY <1>1, InitSafe, PTL DEF Spec

\* A downloads row always has its bytes and its manifest.
THEOREM BytesFirst == Spec => []BytesBeforeRows
<1>1. Safe => BytesBeforeRows
  BY DEF Safe, Backed
<1> QED BY <1>1, AlwaysSafe, PTL

\* What an event on cia.fetched names is in the lake and in the log.
THEOREM EventsBacked == Spec => []EventsAreBacked
<1>1. Safe => EventsAreBacked
  BY DEF Safe, Backed
<1> QED BY <1>1, AlwaysSafe, PTL
-----------------------------------------------------------------------------
(* The capture log. *)

\* A step that leaves the lake's raw files, the two tables of captures and the
\* stream alone is no step of the capture log.
LEMMA LogStutter ==
    ASSUME UNCHANGED <<raw, downloads, captured, events>>
    PROVE  UNCHANGED Log!vars
BY DEF Log!vars, Downloaded, CaptureOf, HasDownload

LEMMA LogStep == Safe /\ [Next]_vars => [Log!Next]_(Log!vars)
<1> SUFFICES ASSUME Safe, [Next]_vars PROVE Log!Next \/ UNCHANGED Log!vars
    OBVIOUS
<1>0. Typed /\ TypeOK /\ HandTyped /\ Stored /\ Logged /\ Backed
  BY DEF Safe, Typed
<1>1. CASE \/ Adding \/ Loop \/ Settle \/ PauseOnLowDisk \/ NotModified \/ RateLimited
           \/ Failing \/ Rejected \/ MarkDone \/ Crash \/ Clocks \/ UNCHANGED vars
  BY <1>1, FrontierOnlySteps, LogStutter DEF FrontierOnly, lake
<1>2. CASE WriteManifest
  BY <1>2, LogStutter DEF WriteManifest, observations
<1>3. ASSUME NEW b \in Bodies, CommitBody(b) PROVE Log!Next
  <2>1. raw' = raw \cup {b} /\ UNCHANGED <<downloads, captured, events>>
    BY <1>3 DEF CommitBody, observations
  <2>2. Downloaded' = Downloaded
    BY <2>1 DEF Downloaded, CaptureOf, HasDownload
  <2>3. Log!Store(b)
    BY <2>1, <2>2 DEF Log!Store
  <2> QED BY <2>3 DEF Log!Next
<1>4. CASE SaveDownload
  <2>1. /\ InHand \in Capture /\ captured[InHand] = 0
        /\ captured' = [captured EXCEPT ![InHand] = 1]
        /\ Downloaded' = {c \in Downloaded : c.url # row.url} \cup {InHand}
        /\ InHand.url = row.url /\ InHand.body = body
    BY <1>0, <1>4, SaveLogs DEF InHand
  <2>2. InHand.body \in raw /\ UNCHANGED <<raw, events>>
    BY <1>0, <1>4, <2>1 DEF SaveDownload, lake, Backed, LoggedIsBacked
  <2>3. captured \in [Capture -> Nat]
    BY <1>0 DEF TypeOK
  <2>4. {c \in Capture : captured'[c] > 0} = {c \in Capture : captured[c] > 0} \cup {InHand}
    BY <2>1, <2>3
  <2>5. InHand \notin {c \in Capture : captured[c] > 0}
    BY <2>1
  <2>6. Log!Record(InHand)
    BY <2>1, <2>2, <2>4, <2>5 DEF Log!Record
  <2>7. InHand \in Log!Capture
    BY <2>1 DEF Log!Capture, Capture
  <2>8. \E c \in Log!Capture : Log!Record(c) \/ Log!Announce(c)
    BY <2>6, <2>7 DEF Log!Record, Log!Announce
  <2> QED BY <2>8 DEF Log!Next
<1>5. CASE Publish \/ PublishLate
  <2>1. /\ pc = "publish" /\ row.url \in Urls /\ body \in Bodies
        /\ downloads[row.url] = [body |-> body, at |-> clock]
    BY <1>0, <1>5 DEF Publish, PublishLate, HandTyped, Stored, HandStored, Working
  <2>2. InHand \in Downloaded /\ InHand \in Capture
    BY <1>0, <2>1, UrlAssumption DEF InHand, Downloaded, CaptureOf, HasDownload, Capture, TypeOK
  <2>3. captured[InHand] = 1
    BY <1>0, <2>1, <2>2 DEF Logged, CapturesLoggedOnce
  <2>4. events' = events \cup {InHand} /\ UNCHANGED <<raw, downloads, captured>>
    BY <1>5 DEF Publish, PublishLate, lake, observations
  <2>5. Downloaded' = Downloaded
    BY <2>4 DEF Downloaded, CaptureOf, HasDownload
  <2>6. Log!Announce(InHand)
    BY <2>2, <2>3, <2>4, <2>5 DEF Log!Announce
  <2>7. InHand \in Log!Capture
    BY <2>2 DEF Log!Capture, Capture
  <2>8. \E c \in Log!Capture : Log!Record(c) \/ Log!Announce(c)
    BY <2>6, <2>7 DEF Log!Record, Log!Announce
  <2> QED BY <2>8 DEF Log!Next
<1>6. CASE Start \/ Jobs
  <2>1. Backfill /\ UNCHANGED <<downloads, raw, events>>
    BY <1>6 DEF Start, Jobs, JobRecrawlStale, JobFrontierSeed, lake
  <2>2. Downloaded' = Downloaded
    BY <2>1 DEF Downloaded, CaptureOf, HasDownload
  <2>3. \A c \in Capture : captured[c] <= 1
    BY <1>0 DEF Logged, CapturesLoggedOnce
  <2>4. /\ Downloaded \subseteq Capture
        /\ \A c \in Capture : captured'[c] > 0 <=> captured[c] > 0 \/ c \in Downloaded
    <3>1. captured' \in [Capture -> Nat] /\ captured \in [Capture -> Nat]
      BY <1>0, <2>1, BackfillTypes DEF TypeOK
    <3> QED BY <1>0, <2>1, <2>3, <3>1, BackfillLogs
  <2>5. {c \in Capture : captured'[c] > 0} = {c \in Capture : captured[c] > 0} \cup Downloaded
    BY <2>4
  <2>6. Log!Adopt(Downloaded)
    BY <2>1, <2>2, <2>5 DEF Log!Adopt
  <2>7. Downloaded \in SUBSET Downloaded
    OBVIOUS
  <2>8. \E S \in SUBSET Downloaded : Log!Adopt(S)
    BY <2>6, <2>7 DEF Log!Adopt
  <2> QED BY <2>8 DEF Log!Next
<1> QED BY <1>1, <1>2, <1>3, <1>4, <1>5, <1>6 DEF Next, Elsewhere, Answer, Keep

\* The crawler and the jobs beside it implement the capture log.
THEOREM Implements == Spec => ImplementsCaptureLog
<1>1. Init => Log!Init
  <2> SUFFICES ASSUME Init PROVE Log!Init
      OBVIOUS
  <2>1. Downloaded \subseteq Capture /\ \A c \in Downloaded : c.body \in raw
    BY InitSafe, DownloadedBacked DEF Safe
  <2>2. {c \in Capture : captured[c] > 0} = {}
    BY DEF Init
  <2>3. raw \subseteq Bodies /\ events = {}
    BY InitTyped DEF Init, Typed, TypeOK
  <2> QED BY <2>1, <2>2, <2>3 DEF Log!Init, Log!Capture, Capture
<1> QED BY <1>1, LogStep, AlwaysSafe, PTL DEF Spec, Log!Spec, ImplementsCaptureLog
-----------------------------------------------------------------------------
(* Nothing is lost where only sites and stream misbehave. *)

\* Every current capture made under the log is published or about to be.
Announced == \A u \in Urls : downloads[u].at > 0
                 => CaptureOf(u) \in events \/ (pc = "publish" /\ row.url = u)

LEMMA AnnouncedStep ==
    ASSUME May \cap {"exception", "crash"} = {}
    PROVE  Safe /\ Announced /\ [Next]_vars => Announced'
<1> SUFFICES ASSUME Safe, Announced, [Next]_vars PROVE Announced'
    OBVIOUS
<1>0. TypeOK /\ HandTyped /\ HandStored
  BY DEF Safe, Typed, Stored
<1>1. CASE /\ UNCHANGED <<downloads, events>>
           /\ pc = "publish" => pc' = "publish" /\ row' = row
  BY <1>1 DEF Announced, HasDownload, CaptureOf
<1>2. CASE \/ Adding \/ Loop \/ Settle \/ PauseOnLowDisk \/ NotModified \/ RateLimited
           \/ Failing \/ Rejected \/ MarkDone \/ Crash \/ Clocks \/ UNCHANGED vars
  <2>1. pc = "publish" => pc' = "publish" /\ row' = row
    BY <1>2 DEF Adding, EndAdding, AddPending, Loop, Sleep, RequeueWhenIdle, Pick, Settle,
                SkipUnchecked, DoneWhileFresh, Request, Admitted, PauseOnLowDisk, NotModified,
                RateLimited, Failing, ServerError, Raise, Rejected, MarkDone, Crash, Clocks, Age,
                BecomeDue, crawler, vars
  <2> QED BY <1>1, <1>2, <2>1, FrontierOnlySteps DEF FrontierOnly
<1>3. CASE WriteManifest \/ Start \/ Jobs \/ \E b \in Bodies : CommitBody(b)
  BY <1>1, <1>3 DEF WriteManifest, Start, Jobs, JobRecrawlStale, JobFrontierSeed, CommitBody, crawler
<1>4. CASE SaveDownload
  <2>1. /\ row.url \in Urls /\ pc' = "publish" /\ row' = row /\ events' = events /\ pc = "save"
        /\ downloads' = [downloads EXCEPT ![row.url] = [body |-> body, at |-> clock]]
    BY <1>0, <1>4 DEF SaveDownload, GoTo, HandTyped, Working
  <2> QED BY <1>0, <2>1 DEF Announced, HasDownload, CaptureOf, TypeOK
<1>5. CASE Publish \/ PublishLate
  <2>1. InHand = CaptureOf(row.url) /\ events' = events \cup {InHand} /\ UNCHANGED downloads
    BY <1>0, <1>5 DEF Publish, PublishLate, InHand, CaptureOf, HandStored
  <2> QED BY <2>1 DEF Announced, HasDownload, CaptureOf
<1> QED BY <1>2, <1>3, <1>4, <1>5 DEF Next, Elsewhere, Answer, Keep

\* Where the crawler neither crashes nor raises before it publishes, what it marks done it has
\* published, even if the stream's acknowledgement was lost and the URL is retried.
THEOREM DonePublished ==
    ASSUME May \cap {"exception", "crash"} = {}
    PROVE  Spec => []DoneMeansPublished
<1>1. Init => Announced
  BY DEF Init, Announced, HasDownload
<1>2. Safe /\ Announced => DoneMeansPublished
  BY DEF Safe, Announced, DoneMeansPublished, RowIsStable, Working
<1>3. Safe /\ Announced /\ [Next]_vars => Announced'
  BY AnnouncedStep
<1> QED BY <1>1, <1>2, <1>3, AlwaysSafe, PTL DEF Spec
-----------------------------------------------------------------------------
(* No link is lost where only the sites misbehave. *)

\* No row of the frontier goes, or changes its depth.
Grows == \A u \in Urls : status[u] # "absent" => status'[u] # "absent" /\ depth'[u] = depth[u]

LEMMA FrontierGrows == Typed /\ [Next]_vars => Grows
<1> SUFFICES ASSUME Typed, [Next]_vars PROVE Grows
    OBVIOUS
<1>0. TypeOK /\ HandTyped
  BY DEF Typed
<1>1. CASE UNCHANGED frontier
  BY <1>1 DEF frontier, Grows
<1>2. CASE Start \/ EndAdding \/ Sleep \/ PauseOnLowDisk \/ Request \/ NotModified \/ Keep \/ Crash
           \/ (\E u \in Urls : Pick(u) \/ Age(u)) \/ (\E b \in Bodies : CommitBody(b))
           \/ UNCHANGED vars
  BY <1>1, <1>2 DEF Start, EndAdding, Sleep, PauseOnLowDisk, Request, NotModified, Keep,
        WriteManifest, SaveDownload, Publish, PublishLate, Crash, Pick, Age, CommitBody, vars
<1>3. ASSUME NEW u \in Urls, AddPending(u) \/ JobFrontierSeed(u) \/ BecomeDue(u) PROVE Grows
  BY <1>0, <1>3 DEF AddPending, JobFrontierSeed, BecomeDue, FrontierAdd, frontier, Grows, TypeOK
<1>4. CASE RequeueWhenIdle \/ JobRecrawlStale
  BY <1>4 DEF RequeueWhenIdle, JobRecrawlStale, FrontierRequeueStale, StaleDone, Grows
<1>5. CASE SkipUnchecked \/ Rejected \/ RateLimited \/ Failing \/ DoneWhileFresh \/ MarkDone
  BY <1>0, <1>5 DEF SkipUnchecked, Rejected, RateLimited, Failing, ServerError, Raise,
        RetryOrSkip, FrontierSkip, FrontierRetry, DoneWhileFresh, MarkDone, Grows, TypeOK
<1> QED BY <1>2, <1>3, <1>4, <1>5 DEF Next, Elsewhere, Adding, Loop, Settle, Answer, Jobs, Clocks

\* The links of a stored page have rows or none, as URLs do.
LEMMA LinksAreUrls ==
    ASSUME TypeOK, LinksHeld
    PROVE  /\ \A b \in Bodies : LinksOf[b] \subseteq Urls
           /\ \A u \in Urls : downloads[u].at > 0 => LinksOf[downloads[u].body] \subseteq Urls
<1>1. \A u \in Urls : downloads[u].at > 0 => downloads[u].body \in Bodies
  BY DEF LinksHeld, TypeOK, HasDownload
<1> QED BY <1>1, UrlAssumption

\* A step that takes no page in hand and lets none go.
LEMMA HandEmpty ==
    ASSUME TypeOK, LinksHeld, Grows, UNCHANGED downloads,
           \A u \in Urls : ~Unfollowed(u) /\ ~Unfollowed(u)', pc' \notin {"failed", "links"}
    PROVE  LinksHeld'
<1>1. \A u \in Urls : downloads'[u].at > 0 => HasDownload(u)' /\ status'[u] # "absent"
  BY DEF LinksHeld, Grows, HasDownload
<1>2. \A u \in Urls : downloads'[u].at > 0 /\ depth'[u] < MaxDepth
         => \A v \in LinksOf[downloads[u].body] \cap InScope : status'[v] # "absent"
  <2> SUFFICES ASSUME NEW u \in Urls, downloads'[u].at > 0, depth'[u] < MaxDepth,
                      NEW v \in LinksOf[downloads[u].body] \cap InScope
               PROVE  status'[v] # "absent"
      OBVIOUS
  <2>1. v \in Urls
    BY LinksAreUrls
  <2>2. status[v] # "absent"
    BY DEF LinksHeld, Grows
  <2> QED BY <2>1, <2>2 DEF Grows
<1> QED BY <1>1, <1>2 DEF LinksHeld

\* A step that leaves the crawler where it stands.
LEMMA HandSame ==
    ASSUME TypeOK, HandTyped, LinksHeld, Grows, UNCHANGED <<downloads, pc, row, body>>,
           \A v \in pending \ pending' : status'[v] # "absent"
    PROVE  LinksHeld'
<1>1. \A u \in Urls : downloads'[u].at > 0 => HasDownload(u)' /\ status'[u] # "absent"
  BY DEF LinksHeld, Grows, HasDownload
<1>2. \A u \in Urls : downloads'[u].at > 0 /\ depth'[u] < MaxDepth /\ ~Unfollowed(u)'
         => \A v \in LinksOf[downloads'[u].body] \cap InScope : status'[v] # "absent"
  <2> SUFFICES ASSUME NEW u \in Urls, downloads'[u].at > 0, depth'[u] < MaxDepth, ~Unfollowed(u)',
                      NEW v \in LinksOf[downloads[u].body] \cap InScope
               PROVE  status'[v] # "absent"
      OBVIOUS
  <2>1. v \in Urls
    BY LinksAreUrls
  <2>2. status[v] # "absent"
    BY DEF LinksHeld, Grows, Unfollowed
  <2> QED BY <2>1, <2>2 DEF Grows
<1>3. pc' = "links" => \A v \in LinksOf[body'] \cap InScope :
                          status'[v] # "absent" \/ v \in pending'
  <2> SUFFICES ASSUME pc = "links", NEW v \in LinksOf[body] \cap InScope
               PROVE  status'[v] # "absent" \/ v \in pending'
      OBVIOUS
  <2>1. v \in Urls
    BY LinksAreUrls DEF HandTyped
  <2> QED BY <2>1 DEF LinksHeld, Grows
<1> QED BY <1>1, <1>2, <1>3 DEF LinksHeld, Unfollowed

LEMMA LinksHeldStep ==
    ASSUME May \cap {"exception", "publish_late", "crash"} = {}
    PROVE  Safe /\ LinksHeld /\ [Next]_vars => LinksHeld'
<1> SUFFICES ASSUME Safe, LinksHeld, [Next]_vars PROVE LinksHeld'
    OBVIOUS
<1>0. TypeOK /\ HandTyped /\ RowIsStable /\ HandStored
  BY DEF Safe, Typed, Stored
<1>a. Grows
  BY FrontierGrows DEF Safe
<1>1. ASSUME pc \notin {"publish", "links"}, pc # "mark" \/ body = NoBody, UNCHANGED downloads,
             pc' \notin {"publish", "links", "failed"}, pc' # "mark" \/ body' = NoBody
      PROVE  LinksHeld'
  BY <1>0, <1>a, <1>1, HandEmpty DEF Unfollowed
<1>2. CASE Start \/ PauseOnLowDisk \/ Request \/ SkipUnchecked \/ DoneWhileFresh
  BY <1>1, <1>2 DEF Start, PauseOnLowDisk, Request, SkipUnchecked, DoneWhileFresh, Admitted,
                    BackToLoop, GoTo
<1>3. CASE NotModified \/ RateLimited \/ ServerError \/ Rejected
  BY <1>0, <1>1, <1>3 DEF NotModified, RateLimited, ServerError, Rejected, BackToLoop, GoTo,
                          HandTyped
<1>4. CASE WriteManifest \/ (\E u \in Urls : Pick(u)) \/ \E b \in Bodies : CommitBody(b)
  BY <1>1, <1>4 DEF WriteManifest, Pick, CommitBody, GoTo
<1>5. ASSUME NEW u \in Urls, AddPending(u) PROVE LinksHeld'
  <2>1. /\ UNCHANGED <<downloads, pc, row, body>> /\ pending' = pending \ {u}
        /\ status'[u] # "absent"
    BY <1>0, <1>5 DEF AddPending, FrontierAdd, frontier, TypeOK
  <2> QED BY <1>0, <1>a, <2>1, HandSame
<1>6. CASE Sleep \/ RequeueWhenIdle \/ Jobs \/ Clocks \/ UNCHANGED vars
  BY <1>0, <1>a, <1>6, HandSame DEF Sleep, RequeueWhenIdle, Jobs, JobRecrawlStale,
     JobFrontierSeed, Clocks, Age, BecomeDue, crawler, vars
<1>7. CASE EndAdding
  <2>1. pc \in {"seed", "links"} /\ pc' = "loop" /\ UNCHANGED downloads
    BY <1>7 DEF EndAdding, BackToLoop
  <2>2. CASE pc = "seed"
    BY <1>1, <2>1, <2>2
  <2>3. CASE pc = "links"
    <3>1. pending = {} /\ row.url \in Urls /\ downloads[row.url].body = body
      BY <1>0, <1>7, <2>3 DEF EndAdding, HandTyped, LinksHeld, Unfollowed
    <3>2. \A u \in Urls : downloads[u].at > 0 /\ depth[u] < MaxDepth
             => \A v \in LinksOf[downloads[u].body] \cap InScope : status[v] # "absent"
      BY <2>3, <3>1 DEF LinksHeld, Unfollowed
    <3>3. \A u \in Urls : downloads[u].at > 0 /\ depth'[u] < MaxDepth
             => \A v \in LinksOf[downloads[u].body] \cap InScope : status'[v] # "absent"
      <4> SUFFICES ASSUME NEW u \in Urls, downloads[u].at > 0, depth'[u] < MaxDepth,
                          NEW v \in LinksOf[downloads[u].body] \cap InScope
                   PROVE  status'[v] # "absent"
          OBVIOUS
      <4>1. v \in Urls /\ depth'[u] = depth[u]
        BY <1>0, <1>a, LinksAreUrls DEF LinksHeld, Grows
      <4> QED BY <1>a, <3>2, <4>1 DEF Grows
    <3> QED BY <1>a, <2>1, <3>3 DEF LinksHeld, Grows, HasDownload, Unfollowed
  <2> QED BY <2>1, <2>2, <2>3
<1>8. CASE SaveDownload
  <2>1. /\ pc = "save" /\ pc' = "publish" /\ row' = row /\ body' = body /\ UNCHANGED frontier
        /\ downloads' = [downloads EXCEPT ![row.url] = [body |-> body, at |-> clock]]
        /\ row.url \in Urls /\ body \in Bodies /\ status[row.url] = "queued"
    BY <1>0, <1>8 DEF SaveDownload, GoTo, HandTyped, RowIsStable, Working
  <2>2. downloads'[row.url].body = body /\ \A u \in Urls \ {row.url} : downloads'[u] = downloads[u]
    BY <1>0, <2>1 DEF TypeOK
  <2> QED BY <2>1, <2>2, UrlAssumption DEF LinksHeld, Unfollowed, HasDownload, frontier
<1>9. CASE Publish
  <2>1. /\ pc = "publish" /\ pc' = "mark" /\ row' = row /\ body' = body /\ body \in Bodies
        /\ UNCHANGED <<frontier, downloads>>
    BY <1>0, <1>9 DEF Publish, GoTo, HandTyped
  <2> QED BY <2>1, UrlAssumption DEF LinksHeld, Unfollowed, HasDownload, frontier
<1>10. CASE MarkDone
  <2>1. /\ pc = "mark" /\ UNCHANGED <<depth, downloads>> /\ row.url \in Urls
        /\ depth[row.url] = row.depth /\ row.depth \in Nat
        /\ status' = [status EXCEPT ![row.url] = "done"]
    BY <1>0, BoundAssumption, <1>10 DEF MarkDone, HandTyped, RowIsStable, Working, TypeOK
  <2>2. \A u \in Urls : downloads[u].at > 0 /\ depth[u] < MaxDepth /\ ~Unfollowed(u)
           => \A v \in LinksOf[downloads[u].body] \cap InScope : status'[v] # "absent"
    <3> SUFFICES ASSUME NEW u \in Urls, downloads[u].at > 0, depth[u] < MaxDepth, ~Unfollowed(u),
                        NEW v \in LinksOf[downloads[u].body] \cap InScope
                 PROVE  status'[v] # "absent"
        OBVIOUS
    <3>1. v \in Urls
      BY <1>0, LinksAreUrls
    <3>2. status[v] # "absent"
      BY DEF LinksHeld
    <3> QED BY <1>a, <3>1, <3>2 DEF Grows
  <2>3. CASE FollowsLinks
    <3>1. /\ pc' = "links" /\ row' = row /\ body' = body /\ pending' = LinksOf[body] \cap InScope
          /\ body # NoBody
      BY <1>10, <2>3 DEF MarkDone, FollowsLinks
    <3> QED BY <1>a, <2>1, <2>2, <3>1 DEF LinksHeld, Unfollowed, HasDownload, Grows
  <2>4. CASE ~FollowsLinks
    <3>1. pc' = "loop"
      BY <1>10, <2>4 DEF MarkDone, BackToLoop
    <3>2. \A u \in Urls : depth[u] < MaxDepth => ~Unfollowed(u)
      BY <2>1, <2>4 DEF FollowsLinks, Unfollowed
    <3> QED BY <1>a, <2>1, <2>2, <3>1, <3>2 DEF LinksHeld, Unfollowed, HasDownload, Grows
  <2> QED BY <2>3, <2>4
<1>11. ~Crash /\ ~PublishLate /\ ~Raise
  BY DEF Crash, PublishLate, Raise, LinksHeld
<1> QED BY <1>2, <1>3, <1>4, <1>5, <1>6, <1>7, <1>8, <1>9, <1>10, <1>11
        DEF Next, Elsewhere, Failing, Adding, Loop, Settle, Answer, Keep

\* Where the crawler neither crashes nor raises, a page done above MaxDepth has left a frontier
\* row for each of its links in scope, whatever the sites answer and the jobs requeue.
THEOREM LinksAdded ==
    ASSUME May \cap {"exception", "publish_late", "crash"} = {}
    PROVE  Spec => []LinksFollowed
<1>1. Init => LinksHeld
  <2> SUFFICES ASSUME Init PROVE LinksHeld
      OBVIOUS
  <2>1. \A u \in Urls : downloads[u].at = 0
    <3>1. PICK old \in [Legacy -> Bodies] :
             downloads = [u \in Urls |-> [body |-> IF u \in Legacy THEN old[u] ELSE NoBody,
                                         at |-> 0]]
      BY DEF Init
    <3> QED BY <3>1
  <2>2. pc = "down"
    BY DEF Init
  <2> QED BY <2>1, <2>2 DEF LinksHeld, Unfollowed
<1>2. Safe /\ LinksHeld => LinksFollowed
  <2> SUFFICES ASSUME Safe, LinksHeld, NEW u \in Urls, status[u] = "done", downloads[u].at > 0,
                      depth[u] < MaxDepth, ~(pc = "links" /\ row.url = u)
               PROVE  \A v \in LinksOf[downloads[u].body] \cap InScope : status[v] # "absent"
      BY DEF LinksFollowed
  <2>1. ~Unfollowed(u)
    BY DEF Safe, RowIsStable, Working, Unfollowed
  <2> QED BY <2>1 DEF LinksHeld
<1>3. Safe /\ LinksHeld /\ [Next]_vars => LinksHeld'
  BY LinksHeldStep
<1> QED BY <1>1, <1>2, <1>3, AlwaysSafe, PTL DEF Spec
=============================================================================
