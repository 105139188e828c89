----------------------------- MODULE MCFetching -----------------------------
(***************************************************************************)
(* A host with two URLs and a choice of robots.txt, and a host with one.   *)
(* Pattern "all" covers everything, "deep" the second URL only.            *)
(***************************************************************************)
EXTENDS Fetching

CONSTANTS ha, hb, hx, a1, a2, b1, x1

HostOf == [u \in {a1, a2, b1, x1} |->
    CASE u \in {a1, a2} -> ha [] u = b1 -> hb [] OTHER -> hx]

TwoPatterns == {"all", "deep"}
CoverOf == [p \in TwoPatterns |-> IF p = "all" THEN {a1, a2, b1, x1} ELSE {a2}]
LengthOf == [p \in TwoPatterns |-> IF p = "all" THEN 1 ELSE 5]

ThreeAgents == {"*", "bot", "other"}
ScoreOf == [a \in ThreeAgents |-> CASE a = "*" -> 0 [] a = "bot" -> 3 [] OTHER -> -1]

Headers == {-1, 9}  \* of the past or not understood; far too long

Says(k, v) == [key |-> k, value |-> v]
Everyone == Says("agent", "*")
Us == Says("agent", "bot")
Them == Says("agent", "other")

\* Texts of up to three lines of these that begin with an agent, and longer ones: a
\* directive comes first, a group of its own beats the one for all, agents share a
\* group, we are named twice, with no number for a delay or without end.
ShortTexts ==
    {text \in UNION {[1..n -> {Everyone, Us, Says("disallow", "deep")}] : n \in 0..3} :
        text # <<>> => text[1].key = "agent"}
LongTexts ==
    {<<Says("disallow", "all"), Everyone, Says("allow", "deep")>>,
     <<Everyone, Says("disallow", "all"), Us, Says("disallow", "deep")>>,
     <<Everyone, Says("delay", 2), Says("disallow", "all"), Says("allow", "deep")>>,
     <<Them, Us, Says("disallow", "all"), Says("allow", "all"), Them, Says("disallow", "deep")>>,
     <<Us, Says("allow", "all"), Says("disallow", "deep")>>,
     <<Us, Says("disallow", "deep"), Everyone, Us, Says("other", 0), Says("delay", 2)>>,
     <<Us, Says("delay", NaN), Says("disallow", "deep"), Us, Says("delay", 2)>>,
     <<Everyone, Says("delay", Longest + 1)>>}

TextsOf == [h \in {ha, hb, hx} |->
    IF h = ha THEN ShortTexts \cup LongTexts ELSE {<<Everyone, Says("disallow", "deep")>>}]
=============================================================================
