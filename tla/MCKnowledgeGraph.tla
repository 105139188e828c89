-------------------------- MODULE MCKnowledgeGraph --------------------------
(***************************************************************************)
(* A feed that changes and may change back, and a page of its own bytes.   *)
(***************************************************************************)
EXTENDS KnowledgeGraph, TLC

CONSTANTS feed, page, x, y, z

Pair == {feed, page}
Own == feed :> {x, y} @@ page :> {z}
FeedBodies == Permutations({x, y})
=============================================================================
