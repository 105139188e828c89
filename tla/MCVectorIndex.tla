--------------------------- MODULE MCVectorIndex ---------------------------
(***************************************************************************)
(* Two documents, one of a single chunk and one of two.  A store that may  *)
(* be opened for anything, one purpose after another, and a job beside it. *)
(***************************************************************************)
EXTENDS VectorIndex, TLC

CONSTANTS short, long, indexer, job

TwoStores == indexer :> Openings @@ job :> {"replay"}
IndexerAndJob == indexer :> {"start"} @@ job :> {"compact"}
Sizes == short :> 1 @@ long :> 2
=============================================================================
