--------------------------- MODULE MCSearchReader ---------------------------
(***************************************************************************)
(* Queries that match every chunk or one of each body, with and without    *)
(* filters.  The captures of the page that changes have two chunks each,   *)
(* the other page one: more chunks match than the window holds, and it     *)
(* holds those of the current captures.                                    *)
(***************************************************************************)
EXTENDS SearchReader, MCPipeline

Lengths == [b \in {x, y, z} |-> IF b = z THEN 1 ELSE 2]
First == {c \in Chunks : c.part = 1}

Asked(op, words, filter, history) ==
    [op |-> op, words |-> words, filter |-> filter, history |-> history]

SomeQueries == {Asked("search", Chunks, {x, y, z}, FALSE), Asked("search", First, {x, y}, FALSE),
                Asked("search", Chunks, {x, y, z}, TRUE),
                Asked("list", {}, {x, z}, FALSE), Asked("list", {}, {x, y, z}, TRUE)}
=============================================================================
