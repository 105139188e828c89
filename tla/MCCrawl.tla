------------------------------- MODULE MCCrawl -------------------------------
(***************************************************************************)
(* A small site: the seed a and the page b link to each other and may      *)
(* serve the same bytes.  In one instance b was downloaded before the log  *)
(* existed; in the other the page also links to d, an old download that is *)
(* now out of scope and that the sitemap still lists.                      *)
(***************************************************************************)
EXTENDS Crawl, TLC

CONSTANTS a, b, d, x, y

PairUrls == {a, b}
PairLinks == [z \in {x, y} |-> {a, b}]
SameBodies == Permutations({x, y})

TrioUrls == {a, b, d}
TrioLinks == x :> {a, b, d} @@ y :> {}
=============================================================================
