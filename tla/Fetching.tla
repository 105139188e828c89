------------------------------ MODULE Fetching ------------------------------
(***************************************************************************)
(* How one crawler process asks for pages and sitemaps: RobotsPolicy,      *)
(* HostThrottle and checked_get.  A fetch asks robots.txt, waits for the   *)
(* turn of its host, and sends a request; each redirect is checked, waits  *)
(* and is sent in the same way.  One coroutine does all of it.             *)
(*                                                                         *)
(* Data abstracted: times are what is left of them or, of a delay, what    *)
(* has passed, and stop counting at Longest, so that a Crawl-delay above   *)
(* it never runs out, as inf does; whether an address is public is any     *)
(* answer.  The requests for robots.txt itself, which take no turn and     *)
(* heed no pause, are one step.  What is stored of an answer is in Crawl.  *)
(***************************************************************************)
EXTENDS Robots, FiniteSets

CONSTANTS Urls, Hosts, Host,
          AllowedHosts,   \* allowed_host_set
          Scope,          \* the URLs archive_url_allowed accepts
          Texts,          \* the robots.txt each host may serve
          None,
          CrawlDelay,     \* CRAWL_DELAY_SECONDS
          Backoff,        \* delays of a retry without Retry-After
          RetryAfter,     \* values of the header, in time from now
          MaxRetryAfter,  \* MAX_RETRY_AFTER
          MaxHops,        \* requests of one fetch, six in the code
          Longest         \* bound: times are counted up to here

ASSUME FetchingAssumption ==
    /\ Host \in [Urls -> Hosts] /\ AllowedHosts \subseteq Hosts /\ Scope \subseteq Urls
    /\ Texts \in [Hosts -> SUBSET Seq(Line)]
    /\ CrawlDelay \in Nat /\ Backoff \subseteq Nat /\ RetryAfter \subseteq Int
    /\ MaxRetryAfter \in Nat /\ MaxHops \in Nat \ {0} /\ Longest \in Nat
    /\ None \notin Seq(Line)

Places == {"idle", "robots", "turn", "hop", "hopturn", "answer"}

VARIABLES
  pc,
  kind,   \* "page" or "sitemap"
  url,    \* the URL to fetch
  at,     \* the URL of this hop
  hop,    \* redirects followed
  robots, \* what was read of each host's robots.txt; None: not loaded
  since,  \* time since each host's turn was taken (last)
  hold,   \* time until which each host is blocked (blocked_until)
  served, \* history: the robots.txt that was read; None: it could not be
  sent,   \* history: time since a host was sent its last page or sitemap request
  before, \* history: time since it was sent the one before
  told    \* history: what is left of the pauses a host has asked for and may count on

requests == <<sent, before>>
throttleVars == <<since, hold, requests, told>>
vars == <<pc, kind, url, at, hop, robots, served, throttleVars>>

DenyAll == [deny |-> TRUE, rules |-> {}, delay |-> 0]

Init ==
    /\ pc = "idle" /\ kind = "page" /\ hop = 0
    /\ url \in Urls /\ at = url
    /\ robots = [h \in Hosts |-> None] /\ served = [h \in Hosts |-> None]
    /\ since = [h \in Hosts |-> Longest]
    /\ sent = [h \in Hosts |-> Longest] /\ before = sent
    /\ hold = [h \in Hosts |-> 0] /\ told = [h \in Hosts |-> 0]

\* max(nan, ...) is nan.
Delay(h) == IF robots[h].delay = NaN THEN NaN ELSE Max({CrawlDelay, robots[h].delay})
Permitted(u) == ~robots[Host[u]].deny /\ CanFetch(robots[Host[u]].rules, u)

\* The fetch is over; nothing of it is kept but the host's times.
GiveUp == pc' = "idle" /\ kind' = "page" /\ hop' = 0 /\ at' = url /\ UNCHANGED url
Goto(place) == pc' = place /\ UNCHANGED <<kind, url, at, hop>>
-----------------------------------------------------------------------------
\* _process skips what is outside the collections, _load_sitemap what is on
\* another host.
Start(k, u) ==
    /\ pc = "idle"
    /\ Host[u] \in AllowedHosts /\ (k = "page" => u \in Scope)
    /\ pc' = "robots" /\ kind' = k /\ url' = u /\ at' = u /\ hop' = 0
    /\ UNCHANGED <<robots, served, throttleVars>>

\* RobotsPolicy.load, once per host: what cannot be read denies everything.
Load(h) ==
    /\ pc \in {"robots", "hop"} /\ h = Host[at] /\ h \in AllowedHosts
    /\ robots[h] = None
    /\ \/ \E text \in Texts[h] : \E d \in Parse(text).delays :
            /\ robots' = [robots EXCEPT ![h] =
                    [deny |-> FALSE, rules |-> Parse(text).rules, delay |-> d]]
            /\ served' = [served EXCEPT ![h] = text]
       \/ robots' = [robots EXCEPT ![h] = DenyAll] /\ served' = served
    /\ UNCHANGED <<pc, kind, url, at, hop, throttleVars>>

AskRobots ==
    /\ pc = "robots" /\ robots[Host[at]] # None
    /\ IF Permitted(at) THEN Goto("turn") ELSE GiveUp
    /\ UNCHANGED <<robots, served, throttleVars>>

Send(h) == sent' = [sent EXCEPT ![h] = 0] /\ before' = [before EXCEPT ![h] = sent[h]]

\* Mutant: the hold is not looked at.
DueAnyway(h) == Delay(h) = NaN \/ since[h] >= Delay(h)

\* The pause of HostThrottle.wait is over.  If the delay is no number, neither is the
\* pause, and nothing is waited for.
Due(h) == Delay(h) = NaN \/ (since[h] >= Delay(h) /\ hold[h] = 0)

\* HostThrottle.wait, before the fetch and before each redirect.
TakeTurn ==
    LET h == Host[at] IN
    /\ pc \in {"turn", "hopturn"}
    /\ Due(h)
    /\ since' = [since EXCEPT ![h] = 0]
    /\ IF pc = "turn" THEN Goto("hop") /\ UNCHANGED requests ELSE Goto("answer") /\ Send(h)
    /\ UNCHANGED <<robots, served, hold, told>>

\* Mutant: redirects wait for no turn.
CheckHopOnly ==
    /\ pc = "hop"
    /\ \/ /\ Host[at] \in AllowedHosts /\ robots[Host[at]] # None /\ Permitted(at)
          /\ Goto("answer") /\ Send(Host[at])
       \/ GiveUp /\ UNCHANGED requests
    /\ UNCHANGED <<robots, served, since, hold, told>>

\* checked_get up to the request: the host is one of ours, its address is
\* public, and its robots.txt permits the URL.  To look the address up and to
\* connect takes time.
CheckHop ==
    /\ pc = "hop"
    /\ \/ /\ Host[at] \in AllowedHosts /\ robots[Host[at]] # None /\ Permitted(at)
          /\ IF hop = 0
             THEN Goto("answer") /\ Send(Host[at])
             ELSE Goto("hopturn") /\ UNCHANGED requests
       \/ GiveUp /\ UNCHANGED requests
    /\ UNCHANGED <<robots, served, since, hold, told>>

\* Mutant: hops are not counted.
RedirectedForEver(u) ==
    /\ pc = "answer"
    /\ pc' = "hop" /\ at' = u /\ UNCHANGED <<kind, url, hop>>
    /\ UNCHANGED <<robots, served, throttleVars>>

Redirected(u) ==
    /\ pc = "answer"
    /\ IF hop + 1 < MaxHops
       THEN pc' = "hop" /\ hop' = hop + 1 /\ at' = u /\ UNCHANGED <<kind, url>>
       ELSE GiveUp
    /\ UNCHANGED <<robots, served, throttleVars>>

\* parse_retry_after: nothing of the past, a day at most.
Parsed(header) == IF header < 0 THEN 0 ELSE Min({header, MaxRetryAfter})

\* 429; 408, 425 or 5xx while tries are left; the same on the last try, or any other
\* status of 400 or more.
Statuses == {"too_many", "retried", "final"}

Pauses(status, header) == status = "too_many" \/ (status = "retried" /\ Parsed(header) > 0)

\* A page is refused.  What the crawler retries pauses the host of the URL that was
\* asked for first, which need not be the host that answered.
Refused(status, header) ==
    LET h == Host[url] IN
    /\ pc = "answer" /\ kind = "page"
    /\ \E backoff \in Backoff :
        LET pause == IF Pauses(status, header) THEN Max({backoff, Parsed(header)}) ELSE 0 IN
        /\ hold' = [hold EXCEPT ![h] = Max({@, pause})]
        /\ told' = IF Host[at] = h THEN [told EXCEPT ![h] = Max({@, pause})] ELSE told
    /\ GiveUp
    /\ UNCHANGED <<robots, served, since, requests>>

\* Content, a redirect to nowhere, no answer in time; of a sitemap any status, for its
\* status is not looked at.
Ended == pc = "answer" /\ GiveUp /\ UNCHANGED <<robots, served, throttleVars>>

Older(t) == IF t < Longest THEN t + 1 ELSE t
Sooner(t) == IF t > 0 THEN t - 1 ELSE t

Tick ==
    /\ since' = [h \in Hosts |-> Older(since[h])]
    /\ sent' = [h \in Hosts |-> Older(sent[h])] /\ before' = [h \in Hosts |-> Older(before[h])]
    /\ hold' = [h \in Hosts |-> Sooner(hold[h])] /\ told' = [h \in Hosts |-> Sooner(told[h])]
    /\ UNCHANGED <<pc, kind, url, at, hop, robots, served>>

Answer == \/ \E status \in Statuses, header \in RetryAfter : Refused(status, header)
          \/ Ended
          \/ \E u \in Urls : Redirected(u)

Next ==
    \/ \E k \in {"page", "sitemap"}, u \in Urls : Start(k, u)
    \/ \E h \in Hosts : Load(h)
    \/ AskRobots \/ TakeTurn \/ CheckHop \/ Answer \/ Tick

Spec == Init /\ [][Next]_vars

\* The coroutine is scheduled, a request is answered or times out, and time
\* passes.
FairSpec ==
    /\ Spec
    /\ \A h \in Hosts : WF_vars(Load(h))
    /\ WF_vars(AskRobots) /\ WF_vars(TakeTurn) /\ WF_vars(CheckHop)
    /\ WF_vars(Answer) /\ WF_vars(Tick)
-----------------------------------------------------------------------------
(* Properties                                                              *)

Sends(h) == pc' = "answer" /\ pc # "answer" /\ Host[at] = h

TypeOK ==
    /\ pc \in Places /\ kind \in {"page", "sitemap"}
    /\ url \in Urls /\ at \in Urls /\ hop \in 0..(MaxHops - 1)
    /\ robots \in [Hosts -> {None} \cup [deny : BOOLEAN, rules : SUBSET Rule, delay : DelayValues]]
    /\ served \in [Hosts -> {None} \cup Seq(Line)]
    /\ since \in [Hosts -> 0..Longest]
    /\ sent \in [Hosts -> 0..Longest] /\ before \in [Hosts -> 0..Longest]
    /\ hold \in [Hosts -> Nat] /\ told \in [Hosts -> Nat]

(* Whatever it is redirected to, the crawler asks only configured hosts    *)
(* for pages, and only pages that the robots.txt it has read of that very  *)
(* host permits, by the meaning of the file and not by the parser's.       *)
Authorized(u) ==
    /\ Host[u] \in AllowedHosts
    /\ served[Host[u]] # None
    /\ Permits(served[Host[u]], u)
HopsAuthorized == pc = "answer" => Authorized(at)

(* Of pages and sitemaps, whatever fetches and redirects they belong to, a *)
(* host is never asked for three within its delay: the turns of a host lie *)
(* apart, and a request follows its own turn and comes before the next.    *)
(* Two may lie closer, for a turn is taken before the address is looked up *)
(* and the connection made.  A delay that is no number is not kept.        *)
Spaced == [][\A h \in Hosts : Sends(h) /\ Delay(h) # NaN => before[h] >= Delay(h)]_vars

(* A host that has refused a page of its own with 429, or with Retry-After *)
(* and a status that is tried again, is asked for no page and no sitemap   *)
(* before the pause is over, if its delay is a number.                     *)
BlockedIsQuiet == [][\A h \in Hosts : Sends(h) /\ Delay(h) # NaN => told[h] = 0]_vars

(* The crawler waits for a turn that never comes: Crawl-delay is inf.      *)
Stuck == pc \in {"turn", "hopturn"} /\ Delay(Host[at]) > Longest

(* Redirect loops, pauses and delays end, and with them every fetch, but   *)
(* where a robots.txt gives an endless delay; then the crawler stands.     *)
FetchEnds == pc # "idle" ~> pc = "idle" \/ Stuck
=============================================================================
