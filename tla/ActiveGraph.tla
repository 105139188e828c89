----------------------------- MODULE ActiveGraph -----------------------------
(***************************************************************************)
(* What the knowledge graph promises to those who query it, free of how    *)
(* captures are ingested: which captures speak for which URL.  Only what   *)
(* is being ingested moves: it takes the place of whatever spoke for its   *)
(* URL, or loses its own, and never silences another without replacing it. *)
(***************************************************************************)
CONSTANTS Urls, Docs

VARIABLES active,    \* pairs of a URL and the capture whose edges count for it
          ingested   \* captures being ingested

Init == active = {} /\ ingested = {}

Without(d) == {s \in active : s[2] # d}

\* d speaks for u from now on, for no other URL, and no other for u.
Speak(u, d) == active' = {s \in Without(d) : s[1] # u} \cup {<<u, d>>}

\* d turns out to be superseded.
Fall(d) == active' = Without(d)

Ingest == \E d \in ingested : Fall(d) \/ \E u \in Urls : Speak(u, d)

Next == ingested' \subseteq Docs /\ (Ingest \/ UNCHANGED active)

Spec == Init /\ [][Next]_<<active, ingested>>
=============================================================================
