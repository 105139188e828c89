--------------------------- MODULE FetchingProofs ---------------------------
(***************************************************************************)
(* Requests are spaced and permitted, for any hosts, texts, delays and     *)
(* headers; the parser of robots.txt keeps the meaning of every text.      *)
(*                                                                         *)
(* The invariant: a host's last turn is at least as recent as its last but *)
(* one request, its block never ends before the pause it asked for, and    *)
(* from a fetch's turn to its first request, however long that takes, the  *)
(* turn is more recent than any request.  What a parser does line by line  *)
(* is shown by the least line where it fails.                              *)
(***************************************************************************)
EXTENDS Fetching, WellFoundedInduction, NaturalsInduction, TLAPS

Robot == [deny : BOOLEAN, rules : SUBSET Rule, delay : DelayValues]

\* The last turn is at least as recent as the last request but one; a block covers a
\* pause.
Behind == \A h \in Hosts : since[h] <= before[h] /\ told[h] <= hold[h]

\* A host whose turn is waited for has had its robots.txt read.
Known == pc \in {"turn", "hopturn"} => robots[Host[at]] # None

\* What the turn found still holds when the request is sent, however late.
InTurn == pc = "hop" /\ hop = 0 =>
    /\ robots[Host[at]] # None
    /\ since[Host[at]] <= sent[Host[at]]
    /\ Delay(Host[at]) # NaN => before[Host[at]] >= Delay(Host[at]) /\ told[Host[at]] = 0

\* Rules are those of the text that was read, and a request goes where they permit.
Obedient ==
    /\ \A h \in Hosts : robots[h] # None /\ ~robots[h].deny =>
          served[h] # None /\ robots[h].rules = Parse(served[h]).rules
    /\ pc \in {"hopturn", "answer"} =>
          Host[at] \in AllowedHosts /\ robots[Host[at]] # None /\ Permitted(at)

IInv == TypeOK /\ Behind /\ Known /\ InTurn

\* TypeOK in two parts: what was read of hosts, and all else.
ReadTyped ==
    /\ robots \in [Hosts -> {None} \cup Robot]
    /\ served \in [Hosts -> {None} \cup Seq(Line)]

FetchTyped ==
    /\ pc \in Places /\ kind \in {"page", "sitemap"}
    /\ url \in Urls /\ at \in Urls /\ hop \in 0..(MaxHops - 1)
    /\ since \in [Hosts -> 0..Longest] /\ sent \in [Hosts -> 0..Longest]
    /\ before \in [Hosts -> 0..Longest]
    /\ hold \in [Hosts -> Nat] /\ told \in [Hosts -> Nat]
-----------------------------------------------------------------------------
(* The greater of two numbers is one of them and no less than either.      *)
LEMMA MaxOfTwo ==
    ASSUME NEW a \in Int, NEW b \in Int
    PROVE  /\ Max({a, b}) \in {a, b}
           /\ Max({a, b}) >= a /\ Max({a, b}) >= b
<1>1. \E x \in {a, b} : \A y \in {a, b} : x >= y
  <2>1. CASE a >= b BY <2>1
  <2>2. CASE b >= a BY <2>2
  <2> QED BY <2>1, <2>2
<1>2. Max({a, b}) \in {a, b} /\ \A y \in {a, b} : Max({a, b}) >= y
  BY <1>1 DEF Max
<1> QED BY <1>2

(* Of two numbers in order, the greater keeps the order.                   *)
LEMMA MaxIsMonotone ==
    ASSUME NEW a \in Nat, NEW b \in Nat, NEW c \in Nat, a <= b
    PROVE  /\ Max({b, c}) \in Nat /\ Max({a, c}) \in Nat
           /\ a <= Max({b, c}) /\ Max({a, c}) <= Max({b, c})
<1>1. a \in Int /\ b \in Int /\ c \in Int OBVIOUS
<1>2. Max({a, c}) \in {a, c} BY <1>1, MaxOfTwo
<1>3. Max({b, c}) \in {b, c} /\ Max({b, c}) >= b /\ Max({b, c}) >= c BY <1>1, MaxOfTwo
<1> QED BY <1>2, <1>3

(* The lesser of two numbers is one of them.                               *)
LEMMA MinOfTwo ==
    ASSUME NEW a \in Int, NEW b \in Int
    PROVE  Min({a, b}) \in {a, b}
<1>1. \E x \in {a, b} : \A y \in {a, b} : x <= y
  <2>1. CASE a <= b BY <2>1
  <2>2. CASE b <= a BY <2>2
  <2> QED BY <2>1, <2>2
<1> QED BY <1>1 DEF Min

(* The bounds alone.                                                       *)
LEMMA Bounds == Longest \in Nat /\ MaxHops \in Nat /\ MaxHops > 0
<1> QED BY FetchingAssumption

(* The parts are the whole.                                                *)
LEMMA TypeParts == TypeOK <=> ReadTyped /\ FetchTyped
<1> QED BY DEF TypeOK, ReadTyped, FetchTyped, Robot

(* And so they are after a step.                                          *)
LEMMA TypePartsNext == TypeOK' <=> ReadTyped' /\ FetchTyped'
<1> QED BY DEF TypeOK, ReadTyped, FetchTyped, Robot

(* The delay of a host whose robots.txt was read is a number, or is none.  *)
LEMMA DelayIs ==
    ASSUME NEW h \in Hosts, TypeOK, robots[h] # None
    PROVE  Delay(h) \in Nat \cup {NaN}
<1> DEFINE own == robots[h].delay
<1>1. own \in Nat \cup {NaN} BY DEF TypeOK, DelayValues
<1>2. CrawlDelay \in Nat BY FetchingAssumption
<1>3. Delay(h) = IF own = NaN THEN NaN ELSE Max({CrawlDelay, own}) BY DEF Delay
<1> HIDE DEF own
<1>4. CASE own # NaN
  <2>1. own \in Int /\ CrawlDelay \in Int BY <1>1, <1>2, <1>4
  <2>2. Max({CrawlDelay, own}) \in {CrawlDelay, own} BY <2>1, MaxOfTwo
  <2> QED BY <1>1, <1>2, <1>3, <1>4, <2>2
<1> QED BY <1>3, <1>4

(* A header asks for no time of the past.                                  *)
LEMMA ParsedIsNat ==
    ASSUME NEW header \in RetryAfter
    PROVE  Parsed(header) \in Nat
<1>1. header \in Int /\ MaxRetryAfter \in Nat BY FetchingAssumption
<1>2. Min({header, MaxRetryAfter}) \in {header, MaxRetryAfter} BY <1>1, MinOfTwo
<1> QED BY <1>1, <1>2 DEF Parsed
-----------------------------------------------------------------------------
(* How robots.txt is read and what it means are the same.                  *)

(* A nonempty set of numbers has a least.                                  *)
LEMMA LeastOf ==
    ASSUME NEW S \in SUBSET Nat, S # {}
    PROVE  \E n \in S : \A m \in S : n <= m
<1> DEFINE R == OpToRel(<, Nat)
<1>1. IsWellFoundedOn(R, Nat)
  BY NatLessThanWellFounded
<1>2. \A m, n \in Nat : m < n => <<m, n>> \in R
  BY DEF OpToRel
<1> HIDE DEF R
<1>3. PICK n \in S : \A m \in S : ~(<<m, n>> \in R)
  BY <1>1, WFMin, Zenon
<1>4. ASSUME NEW m \in S PROVE n <= m
  <2>1. ~(m < n)
    BY <1>2, <1>3, Zenon
  <2> QED BY <2>1
<1> QED BY <1>4

(* Of some of the first n lines, one has the greatest of their numbers.    *)
LEMMA GreatestLine ==
    ASSUME NEW N \in Nat, NEW number, NEW S \in SUBSET (1..N), S # {},
           \A i \in S : number[i] \in Int
    PROVE  \E i \in S : \A j \in S : number[j] <= number[i]
<1> DEFINE Greatest(T) == \E i \in T : \A j \in T : number[j] <= number[i]
           Bad == {n \in 0..N : \E T \in SUBSET S : T # {} /\ T \subseteq 1..n /\ ~Greatest(T)}
<1>1. SUFFICES ASSUME ~Greatest(S) PROVE FALSE
  OBVIOUS
<1>2. N \in Bad
  BY <1>1
<1>3. Bad \in SUBSET Nat /\ Bad # {}
  BY <1>2
<1>4. PICK n \in Bad : \A m \in Bad : n <= m
  <2> HIDE DEF Bad
  <2> QED BY <1>3, LeastOf
<1>5. PICK T \in SUBSET S : T # {} /\ T \subseteq 1..n /\ ~Greatest(T)
  <2> HIDE DEF Greatest
  <2> QED BY <1>4
<1>6. n \in 1..N
  <2>1. n \in 0..N
    BY <1>4
  <2> HIDE DEF Bad, Greatest
  <2>2. n # 0
    <3>1. PICK i : i \in T
      BY <1>5
    <3>2. i \in 1..n
      BY <1>5, <3>1
    <3> QED BY <2>1, <3>2
  <2> QED BY <2>1, <2>2
<1>7. n - 1 \in 0..N /\ n - 1 \notin Bad
  BY <1>4, <1>6
<1>8. ~(T \subseteq 1..(n - 1))
  BY <1>5, <1>7
<1>9. n \in T
  BY <1>5, <1>6, <1>8
<1>10. T \ {n} \subseteq 1..(n - 1)
  BY <1>5, <1>6
<1>11. CASE T \ {n} = {}
  <2>1. \A j \in T : number[j] <= number[n]
    BY <1>5, <1>9, <1>11
  <2> QED BY <1>5, <1>9, <2>1
<1>12. CASE T \ {n} # {}
  <2>1. PICK i \in T \ {n} : \A j \in T \ {n} : number[j] <= number[i]
    BY <1>7, <1>10, <1>12
  <2>2. number[i] \in Int /\ number[n] \in Int
    BY <1>9, <2>1
  <2>3. CASE number[i] <= number[n]
    <3>1. \A j \in T : number[j] <= number[n]
      BY <2>1, <2>2, <2>3
    <3> QED BY <1>5, <1>9, <3>1
  <2>4. CASE number[n] <= number[i]
    <3>1. \A j \in T : number[j] <= number[i]
      BY <2>1, <2>2, <2>4
    <3> QED BY <1>5, <2>1, <3>1
  <2> QED BY <2>2, <2>3, <2>4
<1> QED BY <1>11, <1>12

(* The greatest of a set is the one that is no less than any.              *)
LEMMA MaxIs ==
    ASSUME NEW S, NEW x \in S, S \subseteq Int, \A y \in S : y <= x
    PROVE  Max(S) = x
<1>1. \A y \in S : x >= y
  BY Z3
<1>2. Max(S) \in S /\ \A y \in S : Max(S) >= y
  BY <1>1 DEF Max
<1>3. Max(S) >= x /\ Max(S) <= x /\ Max(S) \in Int /\ x \in Int
  BY <1>2
<1> QED BY <1>3

(* What the parser has read after each line is what it makes of that line. *)
LEMMA ReadingLines ==
    ASSUME NEW text \in Seq(Line)
    PROVE  /\ Reading(text)[0] = Open
           /\ \A n \in 1..Len(text) : Reading(text)[n] = Read(Reading(text)[n - 1], text[n])
<1> DEFINE N == Len(text)
           Reads(f, m) == f = [n \in 0..m |-> IF n = 0 THEN Open ELSE Read(f[n - 1], text[n])]
           Bad == {m \in 0..N : ~\E f : Reads(f, m)}
<1>1. N \in Nat
  OBVIOUS
<1>2. SUFFICES ASSUME \E f : Reads(f, N)
               PROVE  /\ Reading(text)[0] = Open
                      /\ \A n \in 1..N : Reading(text)[n] = Read(Reading(text)[n - 1], text[n])
  <2>1. SUFFICES ASSUME ~\E f : Reads(f, N) PROVE FALSE
    OBVIOUS
  <2>2. N \in Bad
    BY <1>1, <2>1
  <2>3. Bad \in SUBSET Nat /\ Bad # {}
    BY <2>2
  <2>4. PICK m \in Bad : \A k \in Bad : m <= k
    <3> HIDE DEF Bad
    <3> QED BY <2>3, LeastOf
  <2>5. CASE m = 0
    <3>1. Reads([n \in 0..0 |-> Open], 0)
      OBVIOUS
    <3> QED BY <2>4, <2>5, <3>1
  <2>6. CASE m # 0
    <3>1. m - 1 \in 0..N /\ m - 1 \notin Bad /\ m \in 1..N
      BY <1>1, <2>4, <2>6
    <3>2. PICK f : Reads(f, m - 1)
      BY <3>1
    <3> DEFINE g == [n \in 0..m |-> IF n = m THEN Read(f[m - 1], text[m]) ELSE f[n]]
    <3>3. ASSUME NEW n \in 0..m
          PROVE  g[n] = IF n = 0 THEN Open ELSE Read(g[n - 1], text[n])
      <4>1. CASE n = m
        <5>1. g[m - 1] = f[m - 1]
          BY <3>1
        <5> QED BY <4>1, <5>1, <2>6
      <4>2. CASE n # m
        <5>1. n \in 0..(m - 1) /\ g[n] = f[n] /\ (n # 0 => g[n - 1] = f[n - 1])
          BY <3>1, <4>2
        <5>2. f[n] = IF n = 0 THEN Open ELSE Read(f[n - 1], text[n])
          BY <3>2, <5>1
        <5> QED BY <5>1, <5>2
      <4> QED BY <4>1, <4>2
    <3>4. Reads(g, m)
      BY <3>3
    <3> QED BY <2>4, <3>4
  <2> QED BY <2>5, <2>6
<1>3. Reading(text) = CHOOSE f : Reads(f, N)
  BY DEF Reading
<1>4. Reads(Reading(text), N)
  BY <1>2, <1>3
<1> DEFINE after == Reading(text)
<1> HIDE DEF after
<1>5. after = [n \in 0..N |-> IF n = 0 THEN Open ELSE Read(after[n - 1], text[n])]
  BY <1>4 DEF after
<1>6. after[0] = Open /\ \A n \in 1..N : after[n] = Read(after[n - 1], text[n])
  BY <1>1, <1>5
<1> QED BY <1>6 DEF after

GroupRecord == [agents : SUBSET Agents, rules : SUBSET Rule, delay : SUBSET DelayValues]
ReaderState == [group : GroupRecord, started : BOOLEAN, groups : SUBSET GroupRecord]

(* The kinds of lines.                                                     *)
LEMMA LineKinds ==
    ASSUME NEW line \in Line
    PROVE  /\ line.key = "agent" => line.value \in Agents
           /\ line.key \in {"allow", "disallow"} => line.value \in Patterns /\ RuleOf(line) \in Rule
           /\ line.key = "delay" => line.value \in DelayValues
<1> QED BY DEF Line, RuleOf, Rule

(* A line leaves a state of the parser.                                    *)
LEMMA ReadIsTyped ==
    ASSUME NEW s \in ReaderState, NEW line \in Line
    PROVE  Read(s, line) \in ReaderState /\ Flush(s) \in ReaderState
<1>1. Open \in ReaderState
  BY DEF Open, NoGroup, ReaderState, GroupRecord
<1>2. Flush(s) = [Open EXCEPT !.groups = s.groups \cup {g \in {s.group} : g.agents # {}}]
  BY DEF Flush
<1>3. s.groups \cup {g \in {s.group} : g.agents # {}} \in SUBSET GroupRecord
  BY DEF ReaderState
<1>4. Flush(s) \in ReaderState
  BY <1>1, <1>2, <1>3 DEF ReaderState
<1>5. CASE line.key = "agent"
  <2>1. PICK t \in ReaderState : Read(s, line) = [t EXCEPT !.group.agents = t.group.agents \cup {line.value}]
    BY <1>4, <1>5 DEF Read
  <2> QED BY <1>4, <1>5, <2>1, LineKinds DEF ReaderState, GroupRecord
<1>6. CASE line.key # "agent" /\ s.group.agents = {}
  <2>1. Read(s, line) = s
    BY <1>6 DEF Read
  <2> QED BY <1>4, <2>1
<1>7. CASE line.key # "agent" /\ s.group.agents # {}
  <2>1. Read(s, line) = [s EXCEPT !.started = TRUE, !.group = Obey(s.group, line)]
    BY <1>7 DEF Read
  <2>2. s.group \in GroupRecord
    BY DEF ReaderState
  <2>3. Obey(s.group, line) \in GroupRecord
    BY <2>2, LineKinds DEF Obey, GroupRecord
  <2> QED BY <1>4, <2>1, <2>3 DEF ReaderState
<1> QED BY <1>5, <1>6, <1>7

(* An agent line that ends a group leaves a fresh one with that agent.      *)
LEMMA FreshGroup ==
    ASSUME NEW s \in ReaderState, NEW A \in SUBSET Agents,
           s.group.rules = {}, s.group.delay = {}, s.started = FALSE
    PROVE  [s EXCEPT !.group.agents = A]
           = [group |-> [agents |-> A, rules |-> {}, delay |-> {}], started |-> FALSE, groups |-> s.groups]
<1> DEFINE g == s.group
           h == [agents |-> A, rules |-> {}, delay |-> {}]
<1>1. g \in GroupRecord /\ h \in GroupRecord /\ g.rules = {} /\ g.delay = {}
  BY DEF ReaderState, GroupRecord
<1> HIDE DEF g
<1>2. [g EXCEPT !.agents = A] = h
  BY <1>1 DEF GroupRecord
<1> HIDE DEF h
<1>3. [s EXCEPT !.group = h] = [group |-> h, started |-> s.started, groups |-> s.groups]
  BY <1>1 DEF ReaderState
<1>4. [s EXCEPT !.group = h] = [group |-> h, started |-> FALSE, groups |-> s.groups]
  BY <1>3, Zenon
<1> QED BY <1>2, <1>4 DEF g, h

(* Before any agent, directives speak to nobody.                           *)
LEMMA ReadFirst ==
    ASSUME NEW text \in Seq(Line), NEW n \in 1..Len(text),
           \A i \in 1..(n - 1) : text[i].key # "agent"
    PROVE  ReadSoFar(Read(Open, text[n]), text, n)
<1>0. n \in Nat /\ n >= 1 /\ text[n] \in Line
  OBVIOUS
<1>1. CASE text[n].key # "agent"
  <2>1. Open.group.agents = {}
    BY DEF Open, NoGroup
  <2>3. Read(Open, text[n]) = Open
    BY <1>1, <2>1 DEF Read
  <2>2. \A i \in 1..n : text[i].key # "agent"
    BY <1>1
  <2> QED BY <2>2, <2>3 DEF ReadSoFar
<1>2. CASE text[n].key = "agent"
  <2> DEFINE s == [group |-> [agents |-> {text[n].value}, rules |-> {}, delay |-> {}],
                   started |-> FALSE, groups |-> {}]
             p == n - 1
  <2>1. Read(Open, text[n]) = s
    BY <1>2 DEF Read, Open, NoGroup
  <2>2. p \in 0..n /\ n \in 0..n /\ (p + 1)..n = {n} /\ (n + 1)..n = {} /\ ~(n < n)
    BY <1>0
  <2>3. Block(text, p, n, n)
    BY <1>0, <1>2, <2>2 DEF Block
  <2>4. Collects(s.group, text, p, n, n)
    <3> HIDE DEF p
    <3>3. s.group.agents = {text[n].value}
      OBVIOUS
    <3> HIDE DEF s
    <3>1. s.group.agents = {text[i].value : i \in (p + 1)..n}
      BY <2>2, <3>3
    <3>4. s.group.rules = {} /\ s.group.delay = {}
      BY DEF s
    <3>2. s.group.rules = {RuleOf(text[i]) : i \in {k \in (n + 1)..n : text[k].key \in {"allow", "disallow"}}}
      BY <2>2, <3>4
    <3> QED BY <3>1, <3>2, <3>4 DEF Collects
  <2>5. (s.started <=> n < n) /\ s.groups = {}
    BY <2>2
  <2>6. \A j \in 1..p : text[j].key # "agent"
    OBVIOUS
  <2> HIDE DEF s, p
  <2> QED BY <2>1, <2>2, <2>3, <2>4, <2>5, <2>6 DEF ReadSoFar
<1> QED BY <1>1, <1>2

(* What a line adds to the group that lies open.                           *)
LEMMA CollectsMore ==
    ASSUME NEW text \in Seq(Line), NEW n \in 1..Len(text), NEW p \in 0..(n - 1), NEW q \in 0..(n - 1),
           NEW g \in GroupRecord, Block(text, p, q, n - 1), Collects(g, text, p, q, n - 1)
    PROVE  /\ text[n].key = "agent" /\ q = n - 1 =>
                /\ Block(text, p, n, n)
                /\ Collects([g EXCEPT !.agents = @ \cup {text[n].value}], text, p, n, n)
           /\ text[n].key # "agent" =>
                Block(text, p, q, n) /\ Collects(Obey(g, text[n]), text, p, q, n)
<1>0. n \in Nat /\ n >= 1 /\ text[n] \in Line /\ p < q /\ q <= n - 1 /\ p \in Nat /\ q \in Nat
  BY DEF Block
<1>1. (p + 1)..n = ((p + 1)..(n - 1)) \cup {n} /\ (q + 1)..n = ((q + 1)..(n - 1)) \cup {n}
      /\ (n + 1)..n = {}
  BY <1>0
<1> DEFINE kept(r) == {k \in (q + 1)..r : text[k].key \in {"allow", "disallow"}}
           dated(r) == \A d \in g.delay :
                          \E i \in (q + 1)..r : text[i].key = "delay" /\ text[i].value = d
<1>2. /\ g.agents = {text[i].value : i \in (p + 1)..q}
      /\ g.rules = {RuleOf(text[i]) : i \in kept(n - 1)}
      /\ dated(n - 1)
  BY DEF Collects
<1>3. dated(n - 1) => dated(n)
  BY <1>1
<1>4. ASSUME text[n].key = "agent", q = n - 1
      PROVE  /\ Block(text, p, n, n)
             /\ Collects([g EXCEPT !.agents = @ \cup {text[n].value}], text, p, n, n)
  <2> DEFINE h == [g EXCEPT !.agents = @ \cup {text[n].value}]
  <2>1. Block(text, p, n, n)
    BY <1>0, <1>1, <1>4 DEF Block
  <2>2. h.agents = {text[i].value : i \in (p + 1)..n}
    <3>1. h.agents = {text[i].value : i \in (p + 1)..(n - 1)} \cup {text[n].value}
      BY <1>2, <1>4 DEF GroupRecord
    <3> QED BY <1>1, <3>1
  <2>3. h.rules = {} /\ h.delay = {}
    <3>1. (q + 1)..(n - 1) = {}
      BY <1>4
    <3>2. g.rules = {} /\ g.delay = {}
      BY <1>2, <3>1
    <3> QED BY <3>2 DEF GroupRecord
  <2> HIDE DEF h
  <2>4. h.rules = {RuleOf(text[i]) : i \in {k \in (n + 1)..n : text[k].key \in {"allow", "disallow"}}}
    BY <1>1, <2>3
  <2>5. Collects(h, text, p, n, n)
    BY <2>2, <2>3, <2>4 DEF Collects
  <2> QED BY <2>1, <2>5 DEF h
<1>5. ASSUME text[n].key # "agent" PROVE Block(text, p, q, n)
  BY <1>0, <1>1, <1>5 DEF Block
<1>6. ASSUME text[n].key \in {"allow", "disallow"}
      PROVE  Collects(Obey(g, text[n]), text, p, q, n)
  <2> DEFINE h == Obey(g, text[n])
  <2>1. h.agents = g.agents /\ h.delay = g.delay /\ h.rules = g.rules \cup {RuleOf(text[n])}
    BY <1>6 DEF GroupRecord, Obey
  <2>2. kept(n) = kept(n - 1) \cup {n}
    BY <1>1, <1>6
  <2> HIDE DEF kept, h
  <2>3. h.rules = {RuleOf(text[i]) : i \in kept(n)}
    BY <1>2, <2>1, <2>2
  <2> QED BY <1>2, <1>3, <2>1, <2>3 DEF Collects, kept, h
<1>7. ASSUME text[n].key \notin {"agent", "allow", "disallow"} PROVE kept(n) = kept(n - 1)
  BY <1>1, <1>7
<1>8. ASSUME text[n].key = "delay"
      PROVE  Collects(Obey(g, text[n]), text, p, q, n)
  <2> DEFINE h == Obey(g, text[n])
  <2>1. h.agents = g.agents /\ h.delay = {text[n].value} /\ h.rules = g.rules
    BY <1>8 DEF GroupRecord, Obey
  <2>2. n \in (q + 1)..n
    BY <1>1
  <2> HIDE DEF h
  <2>3. \A d \in h.delay : \E i \in (q + 1)..n : text[i].key = "delay" /\ text[i].value = d
    BY <1>8, <2>1, <2>2
  <2>4. h.rules = {RuleOf(text[i]) : i \in kept(n)}
    BY <1>2, <1>7, <1>8, <2>1
  <2> QED BY <1>2, <2>1, <2>3, <2>4 DEF Collects, h
<1>9. ASSUME text[n].key \notin {"agent", "allow", "disallow", "delay"}
      PROVE  Collects(Obey(g, text[n]), text, p, q, n)
  <2>1. g.rules = {RuleOf(text[i]) : i \in kept(n)}
    BY <1>2, <1>7, <1>9
  <2>2. Obey(g, text[n]) = g
    BY <1>9 DEF Obey
  <2> QED BY <1>2, <1>3, <2>1, <2>2 DEF Collects
<1> QED BY <1>4, <1>5, <1>6, <1>8, <1>9

(* A further line of a text whose first group lies open or is closed.      *)
LEMMA ReadFurther ==
    ASSUME NEW text \in Seq(Line), NEW n \in 1..Len(text), NEW s \in ReaderState,
           NEW p \in 0..(n - 1), NEW q \in 0..(n - 1),
           Block(text, p, q, n - 1), Collects(s.group, text, p, q, n - 1), (s.started <=> q < n - 1),
           \A g \in s.groups : \E a, b, c \in 0..p : Closed(g, text, a, b, c),
           \A j \in 1..p : text[j].key = "agent" =>
              \E g \in s.groups : \E a, b, c \in 0..p : a < j /\ j <= b /\ Closed(g, text, a, b, c)
    PROVE  ReadSoFar(Read(s, text[n]), text, n)
<1>0. n \in Nat /\ n >= 1 /\ text[n] \in Line /\ p < q /\ q <= n - 1 /\ p \in Nat /\ q \in Nat
  BY DEF Block
<1>1. s.group \in GroupRecord /\ s.group.agents # {}
  <2>1. q \in (p + 1)..q
    BY <1>0
  <2>2. text[q].value \in s.group.agents
    BY <2>1 DEF Collects
  <2> QED BY <2>2 DEF ReaderState
<1>2. CASE text[n].key # "agent"
  <2> DEFINE t == [s EXCEPT !.started = TRUE, !.group = Obey(s.group, text[n])]
  <2>1. Read(s, text[n]) = t
    BY <1>1, <1>2 DEF Read
  <2>2. (t.started <=> q < n) /\ t.group = Obey(s.group, text[n]) /\ t.groups = s.groups
    BY <1>0 DEF ReaderState
  <2>3. Block(text, p, q, n) /\ Collects(t.group, text, p, q, n)
    BY <1>1, <1>2, <2>2, CollectsMore
  <2>4. p \in 0..n /\ q \in 0..n
    BY <1>0
  <2> HIDE DEF t
  <2> QED BY <2>1, <2>2, <2>3, <2>4 DEF ReadSoFar
<1>3. CASE text[n].key = "agent" /\ ~s.started
  <2> DEFINE grown == [s.group EXCEPT !.agents = @ \cup {text[n].value}]
             t == [s EXCEPT !.group = grown]
  <2>1. Read(s, text[n]) = t
    BY <1>3 DEF Read, ReaderState
  <2>2. q = n - 1 /\ ~(n < n)
    BY <1>0, <1>3
  <2>3. Block(text, p, n, n) /\ Collects(grown, text, p, n, n)
    BY <1>1, <1>3, <2>2, CollectsMore
  <2> HIDE DEF grown
  <2>4. (t.started <=> n < n) /\ t.group = grown /\ t.groups = s.groups
    BY <1>0, <1>3, <2>2 DEF ReaderState
  <2>5. p \in 0..n /\ n \in 0..n
    BY <1>0
  <2> HIDE DEF t
  <2> QED BY <2>1, <2>3, <2>4, <2>5 DEF ReadSoFar
<1>4. CASE text[n].key = "agent" /\ s.started
  <2> DEFINE e == n - 1
             fresh == [agents |-> {text[n].value}, rules |-> {}, delay |-> {}]
             t == [group |-> fresh, started |-> FALSE, groups |-> s.groups \cup {s.group}]
  <2>1. Read(s, text[n]) = t
    <3>1. Read(s, text[n]) = [Flush(s) EXCEPT !.group.agents = @ \cup {text[n].value}]
      BY <1>4 DEF Read
    <3>2. {g \in {s.group} : g.agents # {}} = {s.group}
      BY <1>1
    <3> DEFINE F == Flush(s)
               G == s.groups \cup {s.group}
    <3>3. F = [Open EXCEPT !.groups = G]
      BY <3>2 DEF Flush
    <3> HIDE DEF F, G
    <3>4. /\ F.group.agents = {} /\ F.group.rules = {} /\ F.group.delay = {}
          /\ F.started = FALSE /\ F.groups = G
      BY <3>3 DEF Open, NoGroup
    <3>5. F \in ReaderState /\ text[n].value \in Agents
      BY <1>0, <1>4, ReadIsTyped, LineKinds DEF F
    <3>6. F.group.agents \cup {text[n].value} = {text[n].value}
      BY <3>4
    <3>7. [F EXCEPT !.group.agents = {text[n].value}] = [group |-> fresh, started |-> FALSE, groups |-> G]
      BY <3>4, <3>5, FreshGroup
    <3> HIDE DEF fresh
    <3> QED BY <3>1, <3>6, <3>7 DEF F, G
  <2>2. q < e /\ e \in 0..n /\ n \in 0..n /\ (e + 1)..n = {n} /\ (n + 1)..n = {} /\ ~(n < n)
        /\ e + 1 = n /\ e \in 0..e /\ p \in 0..e /\ q \in 0..e /\ e \in (q + 1)..e
    BY <1>0, <1>4
  <2>3. Closed(s.group, text, p, q, e)
    BY <1>4, <2>2 DEF Closed
  <2> HIDE DEF e
  <2>4. Block(text, e, n, n)
    <3>1. text[e].key # "agent"
      BY <2>2, <2>3 DEF Closed, Block
    <3> QED BY <1>0, <1>4, <2>2, <3>1 DEF Block
  <2>5. Collects(t.group, text, e, n, n)
    <3>1. t.group.agents = {text[n].value} /\ t.group.rules = {} /\ t.group.delay = {}
      OBVIOUS
    <3> HIDE DEF t
    <3>2. t.group.agents = {text[i].value : i \in (e + 1)..n}
      BY <2>2, <3>1
    <3>3. t.group.rules = {RuleOf(text[i]) : i \in {k \in (n + 1)..n : text[k].key \in {"allow", "disallow"}}}
      BY <2>2, <3>1
    <3> QED BY <3>1, <3>2, <3>3 DEF Collects
  <2>6. (t.started <=> n < n) /\ t.groups = s.groups \cup {s.group}
    <3> HIDE DEF fresh
    <3> QED BY <2>2
  <2> HIDE DEF t
  <2>7. 0..p \subseteq 0..e
    BY <1>0, <2>2
  <2>8. ASSUME NEW g \in t.groups PROVE \E a, b, c \in 0..e : Closed(g, text, a, b, c)
    <3>1. CASE g = s.group
      BY <2>2, <2>3, <3>1
    <3>2. CASE g \in s.groups
      <4>1. PICK a \in 0..p, b \in 0..p, c \in 0..p : Closed(g, text, a, b, c)
        BY <3>2
      <4> QED BY <2>7, <4>1
    <3> QED BY <2>6, <2>8, <3>1, <3>2
  <2>9. ASSUME NEW j \in 1..e, text[j].key = "agent"
        PROVE  \E g \in t.groups : \E a, b, c \in 0..e : a < j /\ j <= b /\ Closed(g, text, a, b, c)
    <3>1. CASE j <= p
      <4>1. j \in 1..p
        BY <1>0, <3>1
      <4>2. PICK g \in s.groups, a \in 0..p, b \in 0..p, c \in 0..p : a < j /\ j <= b /\ Closed(g, text, a, b, c)
        BY <2>9, <4>1
      <4> QED BY <2>6, <2>7, <4>2
    <3>2. CASE p < j /\ j <= q
      BY <2>2, <2>3, <2>6, <3>2
    <3>3. CASE q < j
      <4>1. j \in (q + 1)..e
        BY <1>0, <3>3
      <4> QED BY <2>3, <2>9, <4>1 DEF Closed, Block
    <3> QED BY <1>0, <3>1, <3>2, <3>3
  <2> QED BY <2>1, <2>2, <2>4, <2>5, <2>6, <2>8, <2>9 DEF ReadSoFar
<1> QED BY <1>2, <1>3, <1>4 DEF ReaderState

(* The parser knows the groups that its lines have made.                   *)
LEMMA ReadingIs ==
    ASSUME NEW text \in Seq(Line), NEW n \in 0..Len(text)
    PROVE  Reading(text)[n] \in ReaderState /\ ReadSoFar(Reading(text)[n], text, n)
<1> DEFINE N == Len(text)
           Good(m) == Reading(text)[m] \in ReaderState /\ ReadSoFar(Reading(text)[m], text, m)
           Bad == {m \in 0..N : ~Good(m)}
<1>1. SUFFICES ASSUME ~Good(n) PROVE FALSE
  OBVIOUS
<1>2. Bad \in SUBSET Nat /\ Bad # {}
  BY <1>1
<1>3. PICK m \in Bad : \A k \in Bad : m <= k
  <2> HIDE DEF Bad
  <2> QED BY <1>2, LeastOf
<1>4. CASE m = 0
  <2>1. Reading(text)[0] = Open
    BY ReadingLines
  <2>2. Open \in ReaderState /\ ReadSoFar(Open, text, 0)
    BY DEF Open, NoGroup, ReaderState, GroupRecord, ReadSoFar
  <2> QED BY <1>3, <1>4, <2>1, <2>2
<1>5. CASE m # 0
  <2>1. m \in 1..N /\ m - 1 \in 0..N /\ m - 1 \notin Bad /\ text[m] \in Line
    BY <1>3, <1>5
  <2> DEFINE s == Reading(text)[m - 1]
  <2>2. s \in ReaderState /\ ReadSoFar(s, text, m - 1)
    BY <2>1
  <2>3. Reading(text)[m] = Read(s, text[m])
    BY <2>1, ReadingLines
  <2> HIDE DEF s
  <2>4. Read(s, text[m]) \in ReaderState
    BY <2>1, <2>2, ReadIsTyped
  <2>5. ReadSoFar(Read(s, text[m]), text, m)
    <3>1. CASE s = Open /\ \A i \in 1..(m - 1) : text[i].key # "agent"
      BY <2>1, <3>1, ReadFirst
    <3>2. CASE ~(s = Open /\ \A i \in 1..(m - 1) : text[i].key # "agent")
      <4> DEFINE e == m - 1
      <4>1. ReadSoFar(s, text, e)
        BY <2>2
      <4> HIDE DEF e
      <4>2. PICK p \in 0..e, q \in 0..e :
              /\ Block(text, p, q, e) /\ Collects(s.group, text, p, q, e) /\ (s.started <=> q < e)
              /\ \A g \in s.groups : \E a, b, c \in 0..p : Closed(g, text, a, b, c)
              /\ \A j \in 1..p : text[j].key = "agent" =>
                   \E g \in s.groups : \E a, b, c \in 0..p : a < j /\ j <= b /\ Closed(g, text, a, b, c)
        BY <3>2, <4>1, Zenon DEF ReadSoFar, e
      <4> QED BY <2>1, <2>2, <4>2, ReadFurther DEF e
    <3> QED BY <3>1, <3>2
  <2> QED BY <1>3, <2>3, <2>4, <2>5
<1> QED BY <1>4, <1>5

\* Group g collects lines of which no more could be added.
Whole(g, text, p, q, r) ==
    /\ Block(text, p, q, r) /\ Collects(g, text, p, q, r)
    /\ r = Len(text) \/ (q < r /\ r < Len(text) /\ text[r + 1].key = "agent")

(* The groups of a text, and no agent line is in none.                     *)
LEMMA GroupsAre ==
    ASSUME NEW text \in Seq(Line)
    PROVE  /\ GroupsOf(text) \subseteq GroupRecord
           /\ \A g \in GroupsOf(text) : \E p, q, r \in 0..Len(text) : Whole(g, text, p, q, r)
           /\ \A j \in 1..Len(text) : text[j].key = "agent" =>
                \E g \in GroupsOf(text) : \E p, q, r \in 0..Len(text) :
                    p < j /\ j <= q /\ Whole(g, text, p, q, r)
<1> DEFINE N == Len(text)
           s == Reading(text)[N]
           G == GroupsOf(text)
<1>0. N \in Nat /\ N \in 0..N
  OBVIOUS
<1>1. s \in ReaderState /\ ReadSoFar(s, text, N)
  BY <1>0, ReadingIs
<1>2. G = s.groups \cup {g \in {s.group} : g.agents # {}}
  BY DEF GroupsOf, Flush, Open
<1> HIDE DEF s, G, N
<1>3. G \subseteq GroupRecord
  BY <1>1, <1>2 DEF ReaderState
<1>4. CASE s = Open /\ \A i \in 1..N : text[i].key # "agent"
  <2>1. G = {}
    BY <1>2, <1>4 DEF Open, NoGroup
  <2> QED BY <1>3, <1>4, <2>1 DEF G, N
<1>5. ASSUME NEW p \in 0..N, NEW q \in 0..N,
             Block(text, p, q, N), Collects(s.group, text, p, q, N),
             \A g \in s.groups : \E a, b, c \in 0..p : Closed(g, text, a, b, c),
             \A j \in 1..p : text[j].key = "agent" =>
                \E g \in s.groups : \E a, b, c \in 0..p : a < j /\ j <= b /\ Closed(g, text, a, b, c)
      PROVE  /\ \A g \in G : \E a, b, c \in 0..N : Whole(g, text, a, b, c)
             /\ \A j \in 1..N : text[j].key = "agent" =>
                  \E g \in G : \E a, b, c \in 0..N : a < j /\ j <= b /\ Whole(g, text, a, b, c)
  <2>1. p < q /\ q <= N /\ p \in Nat /\ q \in Nat /\ 0..p \subseteq 0..N
    BY <1>0, <1>5 DEF Block
  <2>2. s.group \in G
    <3>1. q \in (p + 1)..q
      BY <2>1
    <3>2. text[q].value \in s.group.agents
      BY <1>5, <3>1 DEF Collects
    <3> QED BY <1>2, <3>2
  <2>3. Whole(s.group, text, p, q, N)
    BY <1>5 DEF Whole, N
  <2>4. ASSUME NEW g, NEW a \in 0..p, NEW b \in 0..p, NEW c \in 0..p, Closed(g, text, a, b, c)
        PROVE  Whole(g, text, a, b, c)
    BY <1>0, <2>1, <2>4 DEF Closed, Whole, N
  <2>5. ASSUME NEW g \in G PROVE \E a, b, c \in 0..N : Whole(g, text, a, b, c)
    <3>1. CASE g = s.group
      BY <1>0, <2>3, <3>1
    <3>2. CASE g \in s.groups
      <4>1. PICK a \in 0..p, b \in 0..p, c \in 0..p : Closed(g, text, a, b, c)
        BY <1>5, <3>2
      <4> QED BY <2>1, <2>4, <4>1
    <3> QED BY <1>2, <3>1, <3>2
  <2>6. ASSUME NEW j \in 1..N, text[j].key = "agent"
        PROVE  \E g \in G : \E a, b, c \in 0..N : a < j /\ j <= b /\ Whole(g, text, a, b, c)
    <3>1. CASE j <= p
      <4>1. j \in 1..p
        BY <2>1, <3>1
      <4>2. PICK g \in s.groups, a \in 0..p, b \in 0..p, c \in 0..p : a < j /\ j <= b /\ Closed(g, text, a, b, c)
        BY <1>5, <2>6, <4>1
      <4>3. g \in G
        BY <1>2
      <4> QED BY <2>1, <2>4, <4>2, <4>3
    <3>2. CASE p < j /\ j <= q
      BY <1>0, <2>2, <2>3, <3>2
    <3>3. CASE q < j
      <4>1. j \in (q + 1)..N
        BY <2>1, <3>3
      <4> QED BY <1>5, <2>6, <4>1 DEF Block
    <3> QED BY <2>1, <3>1, <3>2, <3>3
  <2> QED BY <2>5, <2>6
<1> QED BY <1>1, <1>3, <1>4, <1>5, Zenon DEF ReadSoFar, G, N

(* A group is worth what its best agent is.                                *)
LEMMA GroupScoreIs ==
    ASSUME NEW text \in Seq(Line), NEW g,
           NEW p \in 0..Len(text), NEW q \in 0..Len(text), NEW r \in 0..Len(text), Whole(g, text, p, q, r)
    PROVE  /\ \A j \in (p + 1)..q : /\ j \in 1..Len(text) /\ text[j].key = "agent"
                                    /\ Score[text[j].value] \in Int
                                    /\ Score[text[j].value] <= GroupScore(g)
           /\ \E j \in (p + 1)..q : GroupScore(g) = Score[text[j].value]
<1> DEFINE N == Len(text)
           S == (p + 1)..q
           number == [i \in 1..N |-> Score[text[i].value]]
<1>0. p < q /\ q <= N /\ p \in Nat /\ q \in Nat /\ N \in Nat
  BY DEF Whole, Block
<1>1. S \in SUBSET (1..N) /\ S # {}
  <2>1. p + 1 \in S
    BY <1>0
  <2>2. S \subseteq 1..N
    BY <1>0
  <2> QED BY <2>1, <2>2
<1>2. ASSUME NEW j \in S PROVE /\ j \in 1..N /\ text[j].key = "agent" /\ Score[text[j].value] \in Int
                              /\ number[j] = Score[text[j].value]
  <2>1. j \in 1..N /\ text[j] \in Line /\ text[j].key = "agent"
    BY <1>1 DEF Whole, Block
  <2> QED BY <2>1, LineKinds, RobotsAssumption
<1> HIDE DEF S, number, N
<1>3. PICK j \in S : \A k \in S : number[k] <= number[j]
  <2>1. \A i \in S : number[i] \in Int
    BY <1>2
  <2> QED BY <1>0, <1>1, <2>1, GreatestLine
<1>4. g.agents = {text[i].value : i \in S}
  BY DEF Whole, Collects, S
<1>5. {Score[a] : a \in g.agents} = {Score[text[i].value] : i \in S}
  BY <1>4
<1>6. Max({Score[text[i].value] : i \in S}) = Score[text[j].value]
  <2> DEFINE T == {Score[text[i].value] : i \in S}
  <2>1. T \subseteq Int /\ Score[text[j].value] \in T
    BY <1>2
  <2>2. \A y \in T : y <= Score[text[j].value]
    BY <1>2, <1>3
  <2> HIDE DEF T
  <2>3. Max(T) = Score[text[j].value]
    BY <2>1, <2>2, MaxIs
  <2> QED BY <2>3 DEF T
<1>7. GroupScore(g) = Score[text[j].value]
  BY <1>5, <1>6 DEF GroupScore
<1> QED BY <1>2, <1>3, <1>7 DEF S, N

(* The agents of a group govern its directives and no others.              *)
LEMMA GovernedAre ==
    ASSUME NEW text \in Seq(Line), NEW g,
           NEW p \in 0..Len(text), NEW q \in 0..Len(text), NEW r \in 0..Len(text), Whole(g, text, p, q, r),
           NEW j \in (p + 1)..q, NEW i \in 1..Len(text)
    PROVE  Governs(text, j, i) <=> i \in (q + 1)..r
<1>0. /\ p < q /\ q <= r /\ r <= Len(text) /\ p \in Nat /\ q \in Nat /\ r \in Nat /\ Len(text) \in Nat
      /\ \A k \in (p + 1)..q : text[k].key = "agent"
      /\ \A k \in (q + 1)..r : text[k].key # "agent"
      /\ r = Len(text) \/ (q < r /\ r < Len(text) /\ text[r + 1].key = "agent")
  BY DEF Whole, Block
<1>1. ASSUME Governs(text, j, i) PROVE i \in (q + 1)..r
  <2>1. j < i /\ text[i].key # "agent" /\ ~\E k, l \in j..i : k < l /\ text[k].key # "agent" /\ text[l].key = "agent"
    BY <1>1 DEF Governs
  <2>2. q < i
    BY <1>0, <2>1
  <2>3. CASE r < i
    <3>1. q < r /\ text[r].key # "agent" /\ text[r + 1].key = "agent"
      BY <1>0, <2>3
    <3>2. r \in j..i /\ r + 1 \in j..i /\ r < r + 1
      BY <1>0, <2>3, <3>1
    <3> QED BY <2>1, <3>1, <3>2
  <2> QED BY <1>0, <2>2, <2>3
<1>2. ASSUME i \in (q + 1)..r PROVE Governs(text, j, i)
  <2>1. j < i /\ text[j].key = "agent" /\ text[i].key # "agent"
    BY <1>0, <1>2
  <2>2. ASSUME NEW k \in j..i, NEW l \in j..i, k < l, text[k].key # "agent", text[l].key = "agent"
        PROVE  FALSE
    <3>1. q < k
      BY <1>0, <2>2
    <3>2. l \in (q + 1)..r
      BY <1>0, <1>2, <2>2, <3>1
    <3> QED BY <1>0, <2>2, <3>2
  <2> QED BY <2>1, <2>2 DEF Governs
<1> QED BY <1>1, <1>2

(* The rules that the parser keeps are the directives addressed to us.     *)
LEMMA RulesAre ==
    ASSUME NEW text \in Seq(Line)
    PROVE  Parse(text).rules =
               {RuleOf(text[i]) : i \in {k \in Addressed(text) : text[k].key \in {"allow", "disallow"}}}
<1> DEFINE N == Len(text)
           G == GroupsOf(text)
           names == {j \in DOMAIN text : text[j].key = "agent" /\ Score[text[j].value] >= 0}
           best == {j \in names : \A k \in names : Score[text[k].value] <= Score[text[j].value]}
           matches == {g \in G : GroupScore(g) >= 0}
           selected == {g \in matches : \A h \in matches : GroupScore(h) <= GroupScore(g)}
           kept == {k \in Addressed(text) : text[k].key \in {"allow", "disallow"}}
<1>0. N \in Nat /\ DOMAIN text = 1..N
  OBVIOUS
<1>1. Parse(text).rules = UNION {g.rules : g \in selected}
  BY DEF Parse
<1>2. Addressed(text) = {i \in 1..N : \E j \in best : Governs(text, j, i)}
  BY <1>0 DEF Addressed
<1>3. ASSUME NEW g \in G, NEW p \in 0..N, NEW q \in 0..N, NEW r \in 0..N, Whole(g, text, p, q, r)
      PROVE  g \in selected <=> \E j \in (p + 1)..q : j \in best
  <2>1. /\ \A j \in (p + 1)..q : /\ j \in 1..N /\ text[j].key = "agent"
                                 /\ Score[text[j].value] \in Int
                                 /\ Score[text[j].value] <= GroupScore(g)
        /\ \E j \in (p + 1)..q : GroupScore(g) = Score[text[j].value]
    BY <1>3, GroupScoreIs
  <2>2. ASSUME g \in selected PROVE \E j \in (p + 1)..q : j \in best
    <3>1. PICK j \in (p + 1)..q : GroupScore(g) = Score[text[j].value]
      BY <2>1
    <3>2. j \in names
      BY <1>0, <2>1, <2>2, <3>1
    <3>3. ASSUME NEW k \in names PROVE Score[text[k].value] <= Score[text[j].value]
      <4>1. PICK h \in G, a \in 0..N, b \in 0..N, c \in 0..N : a < k /\ k <= b /\ Whole(h, text, a, b, c)
        BY <1>0, GroupsAre
      <4>2. k \in (a + 1)..b
        BY <1>0, <4>1
      <4>3. Score[text[k].value] <= GroupScore(h) /\ GroupScore(h) \in Int /\ Score[text[k].value] \in Int
        BY <4>1, <4>2, GroupScoreIs
      <4>4. h \in matches
        BY <4>3
      <4>5. GroupScore(h) <= GroupScore(g)
        BY <2>2, <4>4
      <4> QED BY <2>1, <3>1, <4>3, <4>5
    <3> QED BY <3>2, <3>3
  <2>3. ASSUME NEW j \in (p + 1)..q, j \in best PROVE g \in selected
    <3>1. Score[text[j].value] >= 0 /\ \A k \in names : Score[text[k].value] <= Score[text[j].value]
      BY <2>3
    <3>2. GroupScore(g) \in Int /\ Score[text[j].value] \in Int /\ Score[text[j].value] <= GroupScore(g)
      BY <2>1
    <3>3. g \in matches
      BY <3>1, <3>2
    <3>4. ASSUME NEW h \in matches PROVE GroupScore(h) <= GroupScore(g)
      <4>1. PICK a \in 0..N, b \in 0..N, c \in 0..N : Whole(h, text, a, b, c)
        BY GroupsAre
      <4>2. PICK k \in (a + 1)..b : GroupScore(h) = Score[text[k].value]
        BY <4>1, GroupScoreIs
      <4>3. k \in 1..N /\ text[k].key = "agent" /\ Score[text[k].value] \in Int
        BY <4>1, GroupScoreIs
      <4>4. k \in names
        BY <1>0, <4>2, <4>3
      <4>5. Score[text[k].value] <= Score[text[j].value]
        BY <3>1, <4>4
      <4> QED BY <3>2, <4>2, <4>3, <4>5
    <3> QED BY <3>3, <3>4
  <2> QED BY <2>2, <2>3
<1>4. ASSUME NEW g \in G, NEW p \in 0..N, NEW q \in 0..N, NEW r \in 0..N, Whole(g, text, p, q, r)
      PROVE  g.rules = {RuleOf(text[i]) : i \in {k \in (q + 1)..r : text[k].key \in {"allow", "disallow"}}}
  BY <1>4 DEF Whole, Collects
<1>5. ASSUME NEW rule \in UNION {g.rules : g \in selected} PROVE \E i \in kept : rule = RuleOf(text[i])
  <2>1. PICK g \in selected : rule \in g.rules
    OBVIOUS
  <2>2. g \in G
    OBVIOUS
  <2>3. PICK p \in 0..N, q \in 0..N, r \in 0..N : Whole(g, text, p, q, r)
    BY <2>2, GroupsAre
  <2>4. PICK j \in (p + 1)..q : j \in best
    BY <1>3, <2>2, <2>3
  <2>5. PICK i \in (q + 1)..r : text[i].key \in {"allow", "disallow"} /\ rule = RuleOf(text[i])
    BY <1>4, <2>1, <2>2, <2>3
  <2>6. i \in 1..N
    BY <1>0
  <2>7. Governs(text, j, i)
    BY <2>3, <2>6, GovernedAre
  <2> QED BY <1>2, <2>4, <2>5, <2>6, <2>7
<1>6. ASSUME NEW i \in kept PROVE RuleOf(text[i]) \in UNION {g.rules : g \in selected}
  <2>1. i \in 1..N /\ text[i].key \in {"allow", "disallow"}
    BY <1>2
  <2>2. PICK j \in best : Governs(text, j, i)
    BY <1>2
  <2>3. j \in 1..N /\ text[j].key = "agent"
    BY <1>0
  <2>4. PICK g \in G, p \in 0..N, q \in 0..N, r \in 0..N : p < j /\ j <= q /\ Whole(g, text, p, q, r)
    BY <2>3, GroupsAre
  <2>5. j \in (p + 1)..q
    BY <2>3, <2>4
  <2>6. g \in selected
    BY <1>3, <2>4, <2>5
  <2>7. i \in (q + 1)..r
    BY <2>1, <2>2, <2>4, <2>5, GovernedAre
  <2>8. RuleOf(text[i]) \in g.rules
    BY <1>4, <2>1, <2>4, <2>7
  <2> QED BY <2>6, <2>8
<1> HIDE DEF kept, selected
<1>7. UNION {g.rules : g \in selected} = {RuleOf(text[i]) : i \in kept}
  BY <1>5, <1>6
<1> QED BY <1>1, <1>7 DEF kept

(* The rules are rules.                                                    *)
LEMMA RulesTyped ==
    ASSUME NEW text \in Seq(Line)
    PROVE  Parse(text).rules \in SUBSET Rule
<1> DEFINE kept == {k \in Addressed(text) : text[k].key \in {"allow", "disallow"}}
<1>1. ASSUME NEW i \in kept PROVE RuleOf(text[i]) \in Rule
  <2>1. text[i] \in Line
    BY DEF Addressed
  <2> QED BY <2>1, LineKinds
<1>2. Parse(text).rules = {RuleOf(text[i]) : i \in kept}
  BY RulesAre
<1> HIDE DEF kept
<1> QED BY <1>1, <1>2

(* What the parser makes of a text: rules, and delays its lines name.      *)
LEMMA ParseTyped ==
    ASSUME NEW text \in Seq(Line)
    PROVE  Parse(text).rules \in SUBSET Rule /\ Parse(text).delays \in SUBSET DelayValues
<1> DEFINE matches == {g \in GroupsOf(text) : GroupScore(g) >= 0}
           selected == {g \in matches : \A h \in matches : GroupScore(h) <= GroupScore(g)}
           given == UNION {g.delay : g \in selected}
<1>1. given \in SUBSET DelayValues
  <2>1. selected \subseteq GroupRecord
    BY GroupsAre
  <2> HIDE DEF selected
  <2> QED BY <2>1 DEF GroupRecord
<1>2. Parse(text).delays = LongestOf(given)
  BY DEF Parse
<1> HIDE DEF given
<1>3. LongestOf(given) \subseteq {0} \cup given
  BY DEF LongestOf
<1> QED BY <1>1, <1>2, <1>3, RulesTyped DEF DelayValues

(* Whatever text a host serves, however its groups are divided and         *)
(* repeated: the parser permits a URL where the text does, by which no     *)
(* prohibition addressed to us goes without a permission as specific.      *)
THEOREM ParserKeepsMeaning ==
    ASSUME NEW text \in Seq(Line), NEW u
    PROVE  CanFetch(Parse(text).rules, u) <=> Permits(text, u)
<1> DEFINE N == Len(text)
           rules == Parse(text).rules
           A == Addressed(text)
           S == {i \in A : text[i].key \in {"allow", "disallow"} /\ u \in Covers[text[i].value]}
           matched == {r \in rules : u \in Covers[r.pattern]}
           longest == {r \in matched : \A q \in matched : Length[q.pattern] <= Length[r.pattern]}
           number == [i \in 1..N |-> Length[text[i].value]]
<1>0. N \in Nat /\ (\A i \in 1..N : text[i] \in Line) /\ A \subseteq 1..N
  BY DEF Addressed
<1>1. \A i : RuleOf(text[i]).allow = (text[i].key = "allow") /\ RuleOf(text[i]).pattern = text[i].value
  BY DEF RuleOf
<1>2. matched = {RuleOf(text[i]) : i \in S}
  <2>1. rules = {RuleOf(text[i]) : i \in {k \in A : text[k].key \in {"allow", "disallow"}}}
    BY RulesAre
  <2> HIDE DEF rules, A
  <2> QED BY <1>1, <2>1
<1>3. \A i \in S : /\ i \in 1..N /\ number[i] = Length[text[i].value] /\ Length[text[i].value] \in Nat
                   /\ text[i].key # "disallow" => text[i].key = "allow"
  BY <1>0, LineKinds, RobotsAssumption
<1>4. S \in SUBSET (1..N)
  BY <1>0
<1>5. CanFetch(rules, u) <=> (matched = {} \/ \E r \in longest : r.allow)
  BY DEF CanFetch
<1>6. Permits(text, u) <=> \A i \in S : text[i].key = "disallow" =>
         \E k \in S : text[k].key = "allow" /\ Length[text[i].value] <= Length[text[k].value]
  BY Zenon DEF Permits
<1> HIDE DEF S, number, N, A, rules, matched
<1>7. CASE S = {}
  <2>1. matched = {}
    BY <1>2, <1>7
  <2>2. CanFetch(rules, u) /\ Permits(text, u)
    BY <1>5, <1>6, <1>7, <2>1
  <2> QED BY <2>2 DEF rules
<1>8. CASE S # {}
  <2>1. matched # {}
    BY <1>2, <1>8
  <2>2. ASSUME NEW r \in longest, r.allow PROVE Permits(text, u)
    <3>1. PICK k \in S : r = RuleOf(text[k])
      BY <1>2
    <3>2. text[k].key = "allow"
      BY <1>1, <2>2, <3>1
    <3>3. \A i \in S : Length[text[i].value] <= Length[text[k].value]
      BY <1>1, <1>2, <3>1
    <3> QED BY <1>6, <3>2, <3>3
  <2>3. ASSUME Permits(text, u) PROVE \E r \in longest : r.allow
    <3>1. \A i \in S : number[i] \in Int
      BY <1>3
    <3>2. PICK i \in S : \A j \in S : number[j] <= number[i]
      BY <1>0, <1>4, <1>8, <3>1, GreatestLine
    <3>3. PICK k \in S : text[k].key = "allow" /\ Length[text[i].value] <= Length[text[k].value]
      <4>1. CASE text[i].key = "disallow"
        BY <1>6, <2>3, <4>1
      <4>2. CASE text[i].key = "allow"
        BY <1>3, <4>2
      <4> QED BY <1>3, <4>1, <4>2
    <3>4. \A j \in S : Length[text[j].value] <= Length[text[k].value]
      BY <1>3, <3>2, <3>3
    <3>5. RuleOf(text[k]) \in longest
      BY <1>1, <1>2, <3>4
    <3> QED BY <1>1, <3>3, <3>5
  <2>4. CanFetch(rules, u) <=> Permits(text, u)
    BY <1>5, <2>1, <2>2, <2>3
  <2> QED BY <2>4 DEF rules
<1> QED BY <1>7, <1>8

-----------------------------------------------------------------------------
(* The invariant holds at first.                                           *)
LEMMA InitIInv == Init => IInv
<1> SUFFICES ASSUME Init PROVE IInv
  OBVIOUS
<1> USE FetchingAssumption DEF Init
<1>1. TypeOK BY DEF TypeOK, Places
<1>2. Behind BY DEF Behind
<1>3. Known /\ InTurn BY DEF Known, InTurn
<1> QED BY <1>1, <1>2, <1>3 DEF IInv

(* A fetch begins: only the coroutine's own variables change.              *)
LEMMA StartStep ==
    ASSUME IInv, NEW k \in {"page", "sitemap"}, NEW u \in Urls, Start(k, u)
    PROVE  IInv'
<1>1. TypeOK'
  <2>1. ReadTyped /\ FetchTyped BY TypeParts DEF IInv
  <2>2. ReadTyped' BY <2>1 DEF ReadTyped, Start
  <2>3. FetchTyped' BY <2>1, Bounds DEF FetchTyped, Places, Start, throttleVars, requests
  <2> QED BY <2>2, <2>3, TypePartsNext
<1>2. Behind' BY DEF IInv, Behind, Start, throttleVars, requests
<1>3. Known' /\ InTurn' BY DEF Known, InTurn, Start
<1> QED BY <1>1, <1>2, <1>3 DEF IInv

(* A host's robots.txt is read once, and never between turn and request.   *)
LEMMA LoadStep ==
    ASSUME IInv, NEW h \in Hosts, Load(h)
    PROVE  IInv'
<1> USE DEF Load
<1>1. robots' \in [Hosts -> {None} \cup Robot] /\ served' \in [Hosts -> {None} \cup Seq(Line)]
  <2>1. robots \in [Hosts -> {None} \cup Robot] /\ served \in [Hosts -> {None} \cup Seq(Line)]
    BY DEF IInv, TypeOK, Robot
  <2>2. ASSUME NEW text \in Texts[h], NEW d \in Parse(text).delays,
               robots' = [robots EXCEPT ![h] =
                    [deny |-> FALSE, rules |-> Parse(text).rules, delay |-> d]],
               served' = [served EXCEPT ![h] = text]
        PROVE  robots' \in [Hosts -> {None} \cup Robot] /\ served' \in [Hosts -> {None} \cup Seq(Line)]
    <3>1. text \in Seq(Line) BY FetchingAssumption
    <3>2. Parse(text).rules \in SUBSET Rule /\ d \in DelayValues BY <3>1, ParseTyped
    <3>3. [deny |-> FALSE, rules |-> Parse(text).rules, delay |-> d] \in Robot
      BY <3>2 DEF Robot
    <3> QED BY <2>1, <2>2, <3>1, <3>3
  <2>3. CASE robots' = [robots EXCEPT ![h] = DenyAll] /\ served' = served
    <3>1. DenyAll \in Robot BY DEF DenyAll, Robot, DelayValues
    <3> QED BY <2>1, <2>3, <3>1
  <2> QED BY <2>2, <2>3
<1>2. TypeOK' BY <1>1 DEF IInv, TypeOK, Robot, throttleVars, requests
<1>3. Behind' BY DEF IInv, Behind, throttleVars, requests
<1>4. pc \in {"robots", "hop"} /\ ~(pc = "hop" /\ hop = 0) BY DEF IInv, InTurn
<1>5. Known' /\ InTurn' BY <1>4 DEF Known, InTurn
<1> QED BY <1>2, <1>3, <1>5 DEF IInv

(* The host is known before its turn is waited for.                        *)
LEMMA AskRobotsStep ==
    ASSUME IInv, AskRobots
    PROVE  IInv'
<1> USE DEF AskRobots, GiveUp, Goto
<1>1. TypeOK'
  <2>1. ReadTyped /\ FetchTyped BY TypeParts DEF IInv
  <2>2. ReadTyped' BY <2>1 DEF ReadTyped
  <2>3. FetchTyped' BY <2>1, Bounds DEF FetchTyped, Places, throttleVars, requests
  <2> QED BY <2>2, <2>3, TypePartsNext
<1>2. Behind' BY DEF IInv, Behind, throttleVars, requests
<1>3. Known' /\ InTurn' BY DEF Known, InTurn
<1> QED BY <1>1, <1>2, <1>3 DEF IInv

(* Whoever takes a turn finds the request before the last, and the pause,  *)
(* long past.                                                              *)
LEMMA TurnIsDue ==
    ASSUME IInv, TakeTurn
    PROVE  /\ Host[at] \in Hosts
           /\ robots[Host[at]] # None
           /\ Delay(Host[at]) # NaN =>
                before[Host[at]] >= Delay(Host[at]) /\ told[Host[at]] = 0
<1>1. Host[at] \in Hosts BY FetchingAssumption DEF IInv, TypeOK
<1>2. robots[Host[at]] # None BY DEF IInv, Known, TakeTurn
<1>3. Delay(Host[at]) \in Nat \cup {NaN} BY <1>1, <1>2, DelayIs DEF IInv
<1>4. /\ since[Host[at]] \in Nat /\ before[Host[at]] \in Nat
      /\ told[Host[at]] \in Nat /\ hold[Host[at]] \in Nat
  BY <1>1, FetchingAssumption DEF IInv, TypeOK
<1>5. since[Host[at]] <= before[Host[at]] /\ told[Host[at]] <= hold[Host[at]] BY <1>1 DEF IInv, Behind
<1>6. Delay(Host[at]) # NaN => since[Host[at]] >= Delay(Host[at]) /\ hold[Host[at]] = 0
  BY DEF TakeTurn, Due
<1> QED BY <1>1, <1>2, <1>3, <1>4, <1>5, <1>6

(* A turn is recorded, and comes before the request it was taken for.      *)
LEMMA TakeTurnStep ==
    ASSUME IInv, TakeTurn
    PROVE  IInv'
<1> USE DEF TakeTurn, Goto, Send, requests
<1>1. /\ Host[at] \in Hosts /\ robots[Host[at]] # None
      /\ Delay(Host[at]) # NaN =>
           before[Host[at]] >= Delay(Host[at]) /\ told[Host[at]] = 0
  BY TurnIsDue
<1>2. TypeOK'
  <2>1. ReadTyped /\ FetchTyped BY TypeParts DEF IInv
  <2>2. ReadTyped' BY <2>1 DEF ReadTyped
  <2>3. FetchTyped' BY <1>1, <2>1, Bounds DEF FetchTyped, Places
  <2> QED BY <2>2, <2>3, TypePartsNext
<1>3. Behind'
  <2>1. \A h \in Hosts : /\ since[h] \in 0..Longest /\ sent[h] \in 0..Longest
                         /\ before[h] \in 0..Longest
                         /\ since[h] <= before[h] /\ told[h] <= hold[h]
    BY DEF IInv, TypeOK, Behind
  <2>2. since' = [since EXCEPT ![Host[at]] = 0] /\ since \in [Hosts -> 0..Longest]
    BY DEF IInv, TypeOK
  <2>3. before' \in {before, [before EXCEPT ![Host[at]] = sent[Host[at]]]}
        /\ before \in [Hosts -> 0..Longest] /\ told' = told /\ hold' = hold
    BY DEF IInv, TypeOK
  <2>4. ASSUME NEW h \in Hosts PROVE since'[h] <= before'[h] /\ told'[h] <= hold'[h]
    <3>1. CASE h = Host[at]
      <4>1. since'[h] = 0 /\ before'[h] \in {before[h], sent[h]} BY <2>2, <2>3, <3>1
      <4> QED BY <2>1, <2>3, <4>1, Bounds
    <3>2. CASE h # Host[at]
      <4>1. since'[h] = since[h] /\ before'[h] = before[h] BY <2>2, <2>3, <3>2
      <4> QED BY <2>1, <2>3, <4>1
    <3> QED BY <3>1, <3>2
  <2> QED BY <2>4 DEF Behind
<1>4. Known' BY DEF Known
<1>5. InTurn'
  <2>1. CASE pc = "turn"
    <3>1. at' = at /\ robots' = robots /\ sent' = sent /\ before' = before /\ told' = told BY <2>1
    <3>2. since'[Host[at]] = 0 /\ sent[Host[at]] \in 0..Longest BY <1>1 DEF IInv, TypeOK
    <3>3. Delay(Host[at])' = Delay(Host[at]) BY <3>1 DEF Delay
    <3> QED BY <1>1, <3>1, <3>2, <3>3 DEF InTurn
  <2>2. CASE pc = "hopturn" BY <2>2 DEF InTurn
  <2> QED BY <2>1, <2>2
<1> QED BY <1>2, <1>3, <1>4, <1>5 DEF IInv

(* The first request of a fetch goes out in its turn, or a redirect waits. *)
LEMMA CheckHopStep ==
    ASSUME IInv, CheckHop
    PROVE  IInv'
<1> USE DEF CheckHop, GiveUp, Goto, Send, requests
<1>1. Host[at] \in Hosts BY FetchingAssumption DEF IInv, TypeOK
<1>2. TypeOK'
  <2>1. ReadTyped /\ FetchTyped BY TypeParts DEF IInv
  <2>2. ReadTyped' BY <2>1 DEF ReadTyped
  <2>3. FetchTyped' BY <1>1, <2>1, Bounds DEF FetchTyped, Places
  <2> QED BY <2>2, <2>3, TypePartsNext
<1>3. Behind'
  <2>1. CASE before' = before BY <2>1 DEF IInv, Behind
  <2>2. CASE hop = 0 /\ before' = [before EXCEPT ![Host[at]] = sent[Host[at]]]
    <3>1. since[Host[at]] <= sent[Host[at]] BY <2>2 DEF IInv, InTurn
    <3> QED BY <1>1, <2>2, <3>1 DEF IInv, Behind, TypeOK
  <2> QED BY <2>1, <2>2
<1>4. Known' BY DEF Known
<1>5. InTurn' BY DEF InTurn
<1> QED BY <1>2, <1>3, <1>4, <1>5 DEF IInv

(* A redirect is a hop of its own, never the first.                        *)
LEMMA RedirectedStep ==
    ASSUME IInv, NEW u \in Urls, Redirected(u)
    PROVE  IInv'
<1> USE DEF Redirected, GiveUp, throttleVars, requests
<1>1. TypeOK'
  <2>1. ReadTyped /\ FetchTyped BY TypeParts DEF IInv
  <2>2. ReadTyped' BY <2>1 DEF ReadTyped
  <2>3. FetchTyped' BY <2>1, Bounds DEF FetchTyped, Places
  <2> QED BY <2>2, <2>3, TypePartsNext
<1>2. Behind' BY DEF IInv, Behind, throttleVars, requests
<1>3. pc' = "hop" => hop' # 0 BY DEF IInv, TypeOK
<1>4. Known' /\ InTurn' BY <1>3 DEF Known, InTurn
<1> QED BY <1>1, <1>2, <1>4 DEF IInv

(* A host that asks for a pause is blocked for at least as long.           *)
LEMMA RefusedStep ==
    ASSUME IInv, NEW status \in Statuses, NEW header \in RetryAfter, Refused(status, header)
    PROVE  IInv'
<1> DEFINE h == Host[url]
           Pause(backoff) == IF Pauses(status, header) THEN Max({backoff, Parsed(header)}) ELSE 0
<1>1. PICK backoff \in Backoff :
        /\ hold' = [hold EXCEPT ![h] = Max({@, Pause(backoff)})]
        /\ told' = IF Host[at] = h THEN [told EXCEPT ![h] = Max({@, Pause(backoff)})] ELSE told
  BY DEF Refused
<1> DEFINE pause == Pause(backoff)
<1>2. hold' = [hold EXCEPT ![h] = Max({hold[h], pause})]
      /\ told' \in {told, [told EXCEPT ![h] = Max({told[h], pause})]}
  BY <1>1
<1>3. h \in Hosts BY FetchingAssumption DEF IInv, TypeOK
<1>4. pause \in Nat
  <2> DEFINE parsed == Parsed(header)
  <2>1. backoff \in Nat /\ parsed \in Nat BY FetchingAssumption, ParsedIsNat
  <2> HIDE DEF parsed
  <2>2. backoff \in Int /\ parsed \in Int BY <2>1
  <2>3. Max({backoff, parsed}) \in {backoff, parsed} BY <2>2, MaxOfTwo
  <2>4. Max({backoff, parsed}) \in Nat BY <2>1, <2>3
  <2> QED BY <2>4 DEF parsed
<1> HIDE DEF h, pause
<1>5. /\ hold \in [Hosts -> Nat] /\ told \in [Hosts -> Nat]
      /\ told[h] <= hold[h] /\ hold[h] \in Nat /\ told[h] \in Nat
  BY <1>3 DEF IInv, TypeOK, Behind
<1>6. /\ Max({hold[h], pause}) \in Nat /\ Max({told[h], pause}) \in Nat
      /\ told[h] <= Max({hold[h], pause}) /\ Max({told[h], pause}) <= Max({hold[h], pause})
  BY <1>4, <1>5, MaxIsMonotone
<1>8. UNCHANGED <<url, robots, served, since, sent, before>>
      /\ pc' = "idle" /\ kind' = "page" /\ hop' = 0 /\ at' = url
  BY DEF Refused, GiveUp, requests
<1>9. TypeOK'
  <2>1. ReadTyped /\ FetchTyped BY TypeParts DEF IInv
  <2>2. ReadTyped' BY <2>1, <1>8 DEF ReadTyped
  <2>3. pc' \in Places /\ kind' \in {"page", "sitemap"}
        /\ url' \in Urls /\ at' \in Urls /\ hop' \in 0..(MaxHops - 1)
    BY <1>8, <2>1, Bounds DEF FetchTyped, Places
  <2>4. hold' \in [Hosts -> Nat] /\ told' \in [Hosts -> Nat] BY <1>2, <1>5, <1>6
  <2>5. FetchTyped' BY <1>8, <2>1, <2>3, <2>4 DEF FetchTyped
  <2> QED BY <2>2, <2>5, TypePartsNext
<1>10. Behind'
  <2>1. \A g \in Hosts : since'[g] <= before'[g] BY <1>8 DEF IInv, Behind
  <2>2. \A g \in Hosts : told'[g] <= hold'[g]
    <3>1. \A g \in Hosts : told[g] <= hold[g] BY DEF IInv, Behind
    <3> QED BY <1>2, <1>3, <1>5, <1>6, <3>1
  <2> QED BY <2>1, <2>2 DEF Behind
<1>11. Known' /\ InTurn' BY <1>8 DEF Known, InTurn
<1> QED BY <1>9, <1>10, <1>11 DEF IInv

(* Time passes for turns and requests, blocks and pauses alike.            *)
LEMMA TickStep ==
    ASSUME IInv, Tick
    PROVE  IInv'
<1> USE DEF Tick, Older, Sooner
<1>1. TypeOK'
  <2>1. ReadTyped /\ FetchTyped BY TypeParts DEF IInv
  <2>2. ReadTyped' BY <2>1 DEF ReadTyped
  <2>3. FetchTyped' BY <2>1, Bounds DEF FetchTyped, Places
  <2> QED BY <2>2, <2>3, TypePartsNext
<1>2. Behind'
  <2>1. \A h \in Hosts : /\ since[h] \in 0..Longest /\ before[h] \in 0..Longest
                         /\ hold[h] \in Nat /\ told[h] \in Nat
    BY DEF IInv, TypeOK
  <2> QED BY <2>1, Bounds DEF IInv, Behind
<1>3. Known' BY DEF IInv, Known
<1>4. InTurn'
  <2> SUFFICES ASSUME pc = "hop", hop = 0 PROVE InTurn'
    BY DEF InTurn
  <2> DEFINE h == Host[at]
  <2>1. h \in Hosts BY FetchingAssumption DEF IInv, TypeOK
  <2>2. /\ robots[h] # None /\ since[h] <= sent[h]
        /\ Delay(h) # NaN => before[h] >= Delay(h) /\ told[h] = 0
    BY DEF IInv, InTurn
  <2>3. Delay(h) \in Nat \cup {NaN} BY <2>1, <2>2, DelayIs DEF IInv
  <2>4. since[h] \in 0..Longest /\ sent[h] \in 0..Longest /\ before[h] \in 0..Longest
    BY <2>1 DEF IInv, TypeOK
  <2>5. robots'[h] = robots[h] /\ Delay(h)' = Delay(h) /\ at' = at BY DEF Delay
  <2>6. /\ since'[h] = Older(since[h]) /\ sent'[h] = Older(sent[h])
        /\ before'[h] = Older(before[h]) /\ told'[h] = Sooner(told[h])
    BY <2>1
  <2>7. since'[h] <= sent'[h] BY <2>2, <2>4, <2>6, Bounds
  <2>8. Delay(h) # NaN => before'[h] >= Delay(h) /\ told'[h] = 0
    BY <2>2, <2>3, <2>4, <2>6, Bounds
  <2> HIDE DEF h
  <2> QED BY <2>2, <2>5, <2>7, <2>8 DEF InTurn, h
<1> QED BY <1>1, <1>2, <1>3, <1>4 DEF IInv

(* Every step keeps the invariant.                                         *)
LEMMA NextIInv == IInv /\ [Next]_vars => IInv'
<1> SUFFICES ASSUME IInv, [Next]_vars PROVE IInv'
  OBVIOUS
<1>1. CASE \E k \in {"page", "sitemap"}, u \in Urls : Start(k, u) BY <1>1, StartStep
<1>2. CASE \E h \in Hosts : Load(h) BY <1>2, LoadStep
<1>3. CASE AskRobots BY <1>3, AskRobotsStep
<1>4. CASE TakeTurn BY <1>4, TakeTurnStep
<1>5. CASE CheckHop BY <1>5, CheckHopStep
<1>6. CASE Answer
  <2>1. CASE \E status \in Statuses, header \in RetryAfter : Refused(status, header)
    BY <2>1, RefusedStep
  <2>2. CASE Ended
    <3>1. /\ pc' = "idle" /\ kind' = "page" /\ hop' = 0 /\ at' = url
          /\ UNCHANGED <<url, robots, served, since, hold, sent, before, told>>
      BY <2>2 DEF Ended, GiveUp, throttleVars, requests
    <3>2. TypeOK'
      <4>1. ReadTyped /\ FetchTyped BY TypeParts DEF IInv
      <4>2. ReadTyped' BY <4>1, <3>1 DEF ReadTyped
      <4>3. FetchTyped' BY <3>1, <4>1, Bounds DEF FetchTyped, Places
      <4> QED BY <4>2, <4>3, TypePartsNext
    <3>3. Behind' /\ Known' /\ InTurn' BY <3>1 DEF IInv, Behind, Known, InTurn
    <3> QED BY <3>2, <3>3 DEF IInv
  <2>3. CASE \E u \in Urls : Redirected(u) BY <2>3, RedirectedStep
  <2> QED BY <1>6, <2>1, <2>2, <2>3 DEF Answer
<1>7. CASE Tick BY <1>7, TickStep
<1>8. CASE UNCHANGED vars
  <2>1. UNCHANGED <<pc, kind, url, at, hop, robots, served, since, hold, sent, before, told>>
    BY <1>8 DEF vars, throttleVars, requests
  <2>2. TypeOK' BY <2>1 DEF IInv, TypeOK
  <2>3. Behind' /\ Known' BY <2>1 DEF IInv, Behind, Known
  <2>4. InTurn' BY <2>1 DEF IInv, InTurn, Delay
  <2> QED BY <2>2, <2>3, <2>4 DEF IInv
<1> QED BY <1>1, <1>2, <1>3, <1>4, <1>5, <1>6, <1>7, <1>8 DEF Next

(* The invariant holds for ever.                                           *)
LEMMA Invariance == Spec => []IInv
<1> QED BY InitIInv, NextIInv, PTL DEF Spec
-----------------------------------------------------------------------------
(* What a request finds, whichever step sends it.                          *)
LEMMA SendsAreDue ==
    ASSUME IInv, [Next]_vars, NEW h \in Hosts, Sends(h)
    PROVE  Delay(h) # NaN => before[h] >= Delay(h) /\ told[h] = 0
<1>1. pc' = "answer" /\ pc # "answer" /\ Host[at] = h BY DEF Sends
<1>2. TakeTurn \/ CheckHop
  <2>1. ~UNCHANGED vars BY <1>1 DEF vars
  <2>2. ~\E k \in {"page", "sitemap"}, u \in Urls : Start(k, u) BY <1>1 DEF Start
  <2>3. ~\E g \in Hosts : Load(g) BY <1>1 DEF Load
  <2>4. ~AskRobots BY <1>1 DEF AskRobots, Goto, GiveUp
  <2>5. ~Answer BY <1>1 DEF Answer, Refused, Ended, Redirected, GiveUp
  <2>6. ~Tick BY <1>1 DEF Tick
  <2> QED BY <2>1, <2>2, <2>3, <2>4, <2>5, <2>6 DEF Next
<1>3. CASE TakeTurn BY <1>1, <1>3, TurnIsDue
<1>4. CASE CheckHop
  <2>1. pc = "hop" /\ hop = 0 BY <1>1, <1>4 DEF CheckHop, Goto, GiveUp
  <2> QED BY <1>1, <2>1 DEF IInv, InTurn
<1> QED BY <1>2, <1>3, <1>4

(* Every variable keeps its type.                                          *)
THEOREM TypeCorrect == Spec => []TypeOK
<1>1. IInv => TypeOK BY DEF IInv
<1> QED BY <1>1, Invariance, PTL

(* At first nothing was read and nothing is asked for.                     *)
LEMMA InitObedient == Init => Obedient
<1> QED BY DEF Init, Obedient

(* Only a step that has asked the rules brings a request on its way, and   *)
(* no step but the first reading changes them.                             *)
LEMMA ObedientStep == TypeOK /\ Obedient /\ [Next]_vars => Obedient'
<1> SUFFICES ASSUME TypeOK, Obedient, [Next]_vars PROVE Obedient'
  OBVIOUS
<1>1. ASSUME NEW k \in {"page", "sitemap"}, NEW u \in Urls, Start(k, u) PROVE Obedient'
  BY <1>1 DEF Start, Obedient
<1>2. ASSUME NEW h \in Hosts, Load(h) PROVE Obedient'
  <2>1. pc' \notin {"hopturn", "answer"}
    BY <1>2 DEF Load
  <2>2. ASSUME NEW text \in Texts[h], NEW d \in Parse(text).delays,
               robots' = [robots EXCEPT ![h] =
                    [deny |-> FALSE, rules |-> Parse(text).rules, delay |-> d]],
               served' = [served EXCEPT ![h] = text]
        PROVE  Obedient'
    <3>1. text # None
      BY FetchingAssumption
    <3>2. robots'[h].rules = Parse(served'[h]).rules /\ served'[h] # None
      BY <2>2, <3>1 DEF TypeOK
    <3>3. \A g \in Hosts \ {h} : robots'[g] = robots[g] /\ served'[g] = served[g]
      BY <2>2 DEF TypeOK
    <3> QED BY <2>1, <3>2, <3>3 DEF Obedient
  <2>3. ASSUME robots' = [robots EXCEPT ![h] = DenyAll], served' = served PROVE Obedient'
    <3>1. robots'[h].deny /\ \A g \in Hosts \ {h} : robots'[g] = robots[g]
      BY <2>3 DEF TypeOK, DenyAll
    <3> QED BY <2>1, <2>3, <3>1 DEF Obedient
  <2> QED BY <1>2, <2>2, <2>3 DEF Load
<1>3. ASSUME UNCHANGED <<robots, served>>, pc' \notin {"hopturn", "answer"} PROVE Obedient'
  BY <1>3 DEF Obedient
<1>4. ASSUME UNCHANGED <<robots, served, at>>,
             pc \in {"hopturn", "answer"}
             \/ (Host[at] \in AllowedHosts /\ robots[Host[at]] # None /\ Permitted(at))
      PROVE  Obedient'
  BY <1>4 DEF Obedient, Permitted
<1>5. CASE AskRobots
  BY <1>3, <1>5 DEF AskRobots, GiveUp, Goto
<1>6. CASE TakeTurn
  <2>1. CASE pc = "turn"
    BY <1>3, <1>6, <2>1 DEF TakeTurn, Goto
  <2>2. CASE pc = "hopturn"
    BY <1>4, <1>6, <2>2 DEF TakeTurn, Goto
  <2> QED BY <1>6, <2>1, <2>2 DEF TakeTurn
<1>7. CASE CheckHop
  <2>1. CASE pc' = "idle"
    BY <1>3, <1>7, <2>1 DEF CheckHop
  <2>2. CASE pc' # "idle"
    BY <1>4, <1>7, <2>2 DEF CheckHop, GiveUp, Goto
  <2> QED BY <2>1, <2>2
<1>8. CASE Answer
  BY <1>3, <1>8 DEF Answer, Refused, Ended, Redirected, GiveUp, throttleVars, requests
<1>9. CASE Tick \/ UNCHANGED vars
  <2>1. UNCHANGED <<pc, at, robots, served>>
    BY <1>9 DEF Tick, vars
  <2> QED BY <1>3, <1>4, <2>1
<1> QED BY <1>1, <1>2, <1>5, <1>6, <1>7, <1>8, <1>9 DEF Next

(* Whatever it is redirected to, the crawler asks only configured hosts,   *)
(* and for a URL that the robots.txt it read of that host permits, by what *)
(* that file means (ParserKeepsMeaning) and not by what was parsed of it.  *)
THEOREM PermittedHops == Spec => []HopsAuthorized
<1>1. TypeOK /\ Obedient => HopsAuthorized
  <2> SUFFICES ASSUME TypeOK, Obedient, pc = "answer" PROVE Authorized(at)
    BY DEF HopsAuthorized
  <2> DEFINE h == Host[at]
  <2>1. h \in AllowedHosts /\ h \in Hosts /\ robots[h] # None /\ ~robots[h].deny
        /\ CanFetch(robots[h].rules, at)
    BY FetchingAssumption DEF Obedient, TypeOK, Permitted
  <2>2. served[h] # None /\ served[h] \in Seq(Line) /\ robots[h].rules = Parse(served[h]).rules
    BY <2>1 DEF Obedient, TypeOK
  <2>3. Permits(served[h], at)
    <3>1. CanFetch(Parse(served[h]).rules, at)
      BY <2>1, <2>2
    <3> HIDE DEF h
    <3> QED BY <2>2, <3>1, ParserKeepsMeaning
  <2> QED BY <2>1, <2>2, <2>3 DEF Authorized
<1>2. Spec => []Obedient
  BY InitObedient, ObedientStep, TypeCorrect, PTL DEF Spec
<1> QED BY <1>1, <1>2, TypeCorrect, PTL

(* Of pages and sitemaps, whatever fetches and redirects they belong to, a *)
(* host is never asked for three within the greater of the configured      *)
(* delay and its own, however long it takes from a turn to the request: a  *)
(* turn is at least as recent as the last request but one.  Where the      *)
(* delay is no number nothing is said, nor of requests for robots.txt.     *)
THEOREM RequestsSpaced == Spec => Spaced
<1>1. IInv /\ [Next]_vars =>
        [\A h \in Hosts : Sends(h) /\ Delay(h) # NaN => before[h] >= Delay(h)]_vars
  BY SendsAreDue
<1> QED BY <1>1, Invariance, PTL DEF Spec, Spaced

(* A host that has refused a page of its own with an answer that the       *)
(* crawler retries, and with a pause, is asked for no page and no sitemap  *)
(* before that pause is over, unless its delay is no number.               *)
THEOREM PausesKept == Spec => BlockedIsQuiet
<1>1. IInv /\ [Next]_vars =>
        [\A h \in Hosts : Sends(h) /\ Delay(h) # NaN => told[h] = 0]_vars
  BY SendsAreDue
<1> QED BY <1>1, Invariance, PTL DEF Spec, BlockedIsQuiet
=============================================================================
