----------------------------- MODULE MCPipeline -----------------------------
(***************************************************************************)
(* Two URLs.  Own: each URL serves bodies of its own, so a URL may change  *)
(* and change back.  AllX: both serve one body.  OnlyA: there is ua alone. *)
(***************************************************************************)
EXTENDS Pipeline, TLC

CONSTANTS ua, ub, x, y, z

PairUrls == {ua, ub}
Own == ua :> {x, y} @@ ub :> {z}
AllX == [u \in {ua, ub} |-> {x}]
OnlyA == ua :> {x}
=============================================================================
