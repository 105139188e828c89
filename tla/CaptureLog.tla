----------------------------- MODULE CaptureLog -----------------------------
(***************************************************************************)
(* What the crawler promises to the rest of the archive, free of how it    *)
(* crawls: a store of bodies that only grows, a log of captures that only  *)
(* grows and only names stored bodies, the latest capture of each URL, and *)
(* the captures announced to the extraction workers.                       *)
(***************************************************************************)
CONSTANTS Urls, Bodies, Times

Capture == [url : Urls, body : Bodies, at : Times]

VARIABLES store,      \* bodies whose bytes are durable
          log,        \* the capture log
          latest,     \* the current capture of each URL, as a set of captures
          announced   \* captures handed to the extraction workers

vars == <<store, log, latest, announced>>

\* A database that predates the log starts with current captures it has not
\* logged; their bodies are stored.
Init == /\ store \in SUBSET Bodies
        /\ latest \in SUBSET Capture
        /\ \A c \in latest : c.body \in store
        /\ log = {}
        /\ announced = {}

Store(b) == /\ store' = store \cup {b}
            /\ UNCHANGED <<log, latest, announced>>

\* One transaction replaces the current capture of a URL and logs it.
Record(c) == /\ c.body \in store
             /\ c \notin log
             /\ log' = log \cup {c}
             /\ latest' = {d \in latest : d.url # c.url} \cup {c}
             /\ UNCHANGED <<store, announced>>

\* Captures that predate the log enter it.
Adopt(S) == /\ S \subseteq latest
            /\ log' = log \cup S
            /\ UNCHANGED <<store, latest, announced>>

Announce(c) == /\ c \in log
               /\ announced' = announced \cup {c}
               /\ UNCHANGED <<store, log, latest>>

Next == \/ \E b \in Bodies : Store(b)
        \/ \E c \in Capture : Record(c) \/ Announce(c)
        \/ \E S \in SUBSET latest : Adopt(S)

Spec == Init /\ [][Next]_vars
=============================================================================
