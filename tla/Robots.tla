------------------------------- MODULE Robots -------------------------------
(***************************************************************************)
(* RobotsRules: how a robots.txt is read, and what it permits; beside it,  *)
(* what such a file means, said without groups being collected.            *)
(*                                                                         *)
(* Data abstracted: a text is a sequence of lines, comments and sitemaps   *)
(* left out; a pattern is known by its length and by the URLs it matches,  *)
(* an agent by its score: -1 if it is not ours, 0 for *, or its length.  A *)
(* delay is what float() accepts, so it may be no number; one below zero   *)
(* is no delay and is left out.  Groups are not in order, so where several *)
(* equal ones give delays and one is no number, either may be chosen.      *)
(***************************************************************************)
EXTENDS Integers, Sequences, FiniteSetsExt

CONSTANTS Patterns,
          Covers,  \* the URLs a pattern matches
          Length,  \* its specificity
          Agents,
          Score    \* how well an agent line names this crawler

\* Crawl-delay: nan.
NaN == -1

DelayValues == Nat \cup {NaN}

\* An agent, a rule, a delay, or a directive of another kind.
Line == [key : {"agent"}, value : Agents] \cup [key : {"allow", "disallow"}, value : Patterns]
        \cup [key : {"delay"}, value : DelayValues] \cup [key : {"other"}, value : {0}]

Rule == [allow : BOOLEAN, pattern : Patterns]

ASSUME RobotsAssumption == Length \in [Patterns -> Nat] /\ Score \in [Agents -> Int]
-----------------------------------------------------------------------------
(* The parser                                                              *)

NoGroup == [agents |-> {}, rules |-> {}, delay |-> {}]
Open == [group |-> NoGroup, started |-> FALSE, groups |-> {}]

Flush(s) ==
    [Open EXCEPT !.groups = s.groups \cup {g \in {s.group} : g.agents # {}}]

RuleOf(line) == [allow |-> line.key = "allow", pattern |-> line.value]

\* What a directive adds to the group.
Obey(group, line) ==
    CASE line.key \in {"allow", "disallow"} ->
            [group EXCEPT !.rules = @ \cup {RuleOf(line)}]
      [] line.key = "delay" -> [group EXCEPT !.delay = {line.value}]
      [] OTHER -> group

Read(s, line) ==
    LET t == IF s.started THEN Flush(s) ELSE s IN
    CASE line.key = "agent" -> [t EXCEPT !.group.agents = @ \cup {line.value}]
      [] line.key # "agent" /\ s.group.agents = {} -> s
      [] OTHER -> [s EXCEPT !.started = TRUE, !.group = Obey(s.group, line)]

\* What has been read after each line.
Reading(text) ==
    LET after[n \in 0..Len(text)] == IF n = 0 THEN Open ELSE Read(after[n - 1], text[n])
    IN  after

GroupsOf(text) == Flush(Reading(text)[Len(text)]).groups

GroupScore(group) == Max({Score[a] : a \in group.agents})

\* max() of the delays that were given: nan is less than nothing and stays where it is
\* first.
LongestOf(given) ==
    IF given = {} THEN {0}
    ELSE {d \in given : d = NaN \/ \A e \in given : e <= d}

\* The rules and the delay of the groups that name this crawler best.
Parse(text) ==
    LET matches  == {g \in GroupsOf(text) : GroupScore(g) >= 0}
        selected == {g \in matches : \A h \in matches : GroupScore(h) <= GroupScore(g)}
    IN  [rules |-> UNION {g.rules : g \in selected},
         delays |-> LongestOf(UNION {g.delay : g \in selected})]

\* Mutant: a rule that permits is enough.
CanFetchAny(rules, url) ==
    LET matched == {r \in rules : url \in Covers[r.pattern]}
    IN  matched = {} \/ \E r \in matched : r.allow

\* The longest matching rule wins; Allow wins ties.
CanFetch(rules, url) ==
    LET matched == {r \in rules : url \in Covers[r.pattern]}
        longest == {r \in matched : \A q \in matched : Length[q.pattern] <= Length[r.pattern]}
    IN  matched = {} \/ \E r \in longest : r.allow
-----------------------------------------------------------------------------
(* The meaning                                                             *)

\* Agent line j speaks to directive i: between them no agent line follows a
\* directive.
Governs(text, j, i) ==
    /\ j < i /\ text[j].key = "agent" /\ text[i].key # "agent"
    /\ ~\E k, l \in j..i : k < l /\ text[k].key # "agent" /\ text[l].key = "agent"

\* The directives addressed to whoever this crawler is called best.
Addressed(text) ==
    LET names == {j \in DOMAIN text : text[j].key = "agent" /\ Score[text[j].value] >= 0}
        best  == {j \in names : \A k \in names : Score[text[k].value] <= Score[text[j].value]}
    IN  {i \in DOMAIN text : \E j \in best : Governs(text, j, i)}

\* No prohibition covers the URL that a permission does not outweigh.
Permits(text, url) ==
    \A i \in Addressed(text) :
        text[i].key = "disallow" /\ url \in Covers[text[i].value] =>
            \E k \in Addressed(text) :
                /\ text[k].key = "allow" /\ url \in Covers[text[k].value]
                /\ Length[text[i].value] <= Length[text[k].value]
-----------------------------------------------------------------------------
(* What FetchingProofs adds to these to relate the two.                    *)

\* Lines p + 1 to q are the agents, q + 1 to r the directives of a group.
Block(text, p, q, r) ==
    /\ p < q /\ q <= r
    /\ p > 0 => text[p].key # "agent"
    /\ \A i \in (p + 1)..q : text[i].key = "agent"
    /\ \A i \in (q + 1)..r : text[i].key # "agent"

\* What is collected of such lines; which delay is left to be said.
Collects(group, text, p, q, r) ==
    /\ group.agents = {text[i].value : i \in (p + 1)..q}
    /\ group.rules = {RuleOf(text[i]) : i \in {k \in (q + 1)..r : text[k].key \in {"allow", "disallow"}}}
    /\ \A d \in group.delay : \E i \in (q + 1)..r : text[i].key = "delay" /\ text[i].value = d

\* A group that an agent line has ended.
Closed(group, text, p, q, r) ==
    Block(text, p, q, r) /\ q < r /\ Collects(group, text, p, q, r) /\ text[r + 1].key = "agent"

\* After n lines: no agent yet, or the last group lies open, and those before it cover
\* every agent line before it.
ReadSoFar(s, text, n) ==
    \/ s = Open /\ \A i \in 1..n : text[i].key # "agent"
    \/ \E p, q \in 0..n :
        /\ Block(text, p, q, n) /\ Collects(s.group, text, p, q, n) /\ (s.started <=> q < n)
        /\ \A g \in s.groups : \E a, b, c \in 0..p : Closed(g, text, a, b, c)
        /\ \A j \in 1..p : text[j].key = "agent" =>
               \E g \in s.groups : \E a, b, c \in 0..p : a < j /\ j <= b /\ Closed(g, text, a, b, c)
=============================================================================
