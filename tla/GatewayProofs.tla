---------------------------- MODULE GatewayProofs ----------------------------
(***************************************************************************)
(* Invariants of Gateway, for any number of processes, requests, users and *)
(* keys, any limits and any failures of the database.                      *)
(***************************************************************************)
EXTENDS Gateway, FiniteSetTheorems, TLAPS

(* A check is of this minute or of the last, a handler knows whom it       *)
(* serves, only the routes that need a user look for one, and only users   *)
(* are asked whether they may do without an administrator.                 *)
Known == \A r \in Requests : req[r] # None =>
    /\ req[r].stage \in {"minute", "day"} => req[r].now \in {clock - 1, clock}
    /\ req[r].stage \in Handling => req[r].who # None
    /\ req[r].stage = "current" => req[r].route \in {"create_key", "revoke_key", "job"}
    /\ req[r].stage = "admins" => req[r].who \in Registered

Typed == GatewayTypeOK /\ Known
-----------------------------------------------------------------------------
(* Rate limits                                                             *)

\* A remainder is less than its divisor, and no more than what is divided.
LEMMA Remainder ==
    ASSUME NEW n \in Nat, NEW d \in Nat \ {0}
    PROVE  n % d \in 0..(d - 1) /\ n % d <= n
<1>1. n % d \in 0..(d - 1)
  BY SMT
<1>2. n % d <= n
  BY SMT
<1> QED BY <1>1, <1>2

\* A check of this minute or the last falls into a window that no store has dropped.
LEMMA SlotTyped ==
    ASSUME LimitTypeOK, NEW b \in Buckets, NEW k \in Kinds, NEW now \in Nat,
           now \in {clock - 1, clock}
    PROVE  /\ SlotOf(b, k, now) \in Slots
           /\ SlotOf(b, k, now)[3] >= clock - Day
<1>1. Truncate(now, k) \in 0..now /\ Truncate(now, k) >= now - (Day - 1)
  <2>1. CASE k = "m"
    BY <2>1, LimitAssumption DEF Truncate
  <2>2. CASE k # "m"
    <3>1. Truncate(now, k) = now - (now % Day)
      BY <2>2 DEF Truncate
    <3>2. now % Day \in 0..(Day - 1) /\ now % Day <= now /\ Day \in Nat \ {0}
      BY LimitAssumption, Remainder
    <3> HIDE DEF Truncate
    <3> QED BY <3>1, <3>2
  <2> QED BY <2>1, <2>2
<1>2. SlotOf(b, k, now) = <<b, k, Truncate(now, k)>>
  BY DEF SlotOf
<1>3. Truncate(now, k) \in 0..MaxClock /\ Truncate(now, k) >= clock - Day
  BY <1>1, LimitAssumption DEF LimitTypeOK
<1> QED BY <1>2, <1>3 DEF Slots

(* What a store has let through in a window it still remembers is counted  *)
(* there.                                                                  *)
Counted == \A slot \in Slots, store \in Stores : LimitOf(slot) > 0 =>
    /\ counts[store][slot] <= LimitOf(slot)
    /\ passed[store][slot] <= LimitOf(slot)
    /\ passed[store][slot] <= counts[store][slot] \/ slot[3] < clock - Day

\* A limit is a number, and its window begins within the clock.
LEMMA LimitTyped == ASSUME NEW slot \in Slots PROVE LimitOf(slot) \in Nat /\ slot[3] \in 0..MaxClock
  BY LimitAssumption DEF LimitOf, Slots

\* Counting one more, and forgetting what is old, keep a table within its limits and
\* faithful to what has been let through.
Faithful(table, seen) == \A slot \in Slots : LimitOf(slot) > 0 =>
    /\ table[slot] <= LimitOf(slot)
    /\ seen[slot] <= table[slot] \/ slot[3] < clock - Day

\* What a prune drops is too old to matter.
LEMMA PrunedFaithful ==
    ASSUME LimitTypeOK, NEW table \in [Slots -> Nat], NEW seen \in [Slots -> Nat],
           Faithful(table, seen), NEW now \in Nat, now \in {clock - 1, clock}
    PROVE  /\ Pruned(table, now) \in [Slots -> Nat]
           /\ Faithful(Pruned(table, now), seen)
<1>1. Pruned(table, now) \in [Slots -> Nat]
  BY DEF Pruned
<1>2. ASSUME NEW slot \in Slots, LimitOf(slot) > 0
      PROVE  /\ Pruned(table, now)[slot] <= LimitOf(slot)
             /\ seen[slot] <= Pruned(table, now)[slot] \/ slot[3] < clock - Day
  <2>1. LimitOf(slot) \in Nat /\ slot[3] \in 0..MaxClock /\ clock \in Nat /\ Day \in Nat \ {0}
    BY LimitTyped, LimitAssumption DEF LimitTypeOK
  <2>2. CASE slot[3] < now - 2 * Day
    BY <2>1, <2>2, <1>2 DEF Pruned
  <2>3. CASE ~(slot[3] < now - 2 * Day)
    BY <2>3, <1>2 DEF Pruned, Faithful
  <2> QED BY <2>2, <2>3
<1> QED BY <1>1, <1>2 DEF Faithful

\* The check of one slot against a table; the request passes or it does not.
LEMMA UpsertFaithful ==
    ASSUME LimitTypeOK, NEW table \in [Slots -> Nat], NEW seen \in [Slots -> Nat],
           Faithful(table, seen), NEW slot \in Slots, slot[3] >= clock - Day, LimitOf(slot) > 0
    PROVE  /\ Upsert(table, slot) \in [Slots -> Nat]
           /\ Faithful(Upsert(table, slot), seen)
           /\ table[slot] < LimitOf(slot)
                => Faithful(Upsert(table, slot), [seen EXCEPT ![slot] = @ + 1])
<1>1. LimitOf(slot) \in Nat /\ slot[3] \in 0..MaxClock /\ clock \in Nat /\ Day \in Nat
  BY LimitTyped, LimitAssumption DEF LimitTypeOK
<1>2. Upsert(table, slot) \in [Slots -> Nat]
  BY DEF Upsert
<1>3. table[slot] <= LimitOf(slot) /\ seen[slot] <= table[slot]
  BY <1>1 DEF Faithful
<1>4. ASSUME NEW s \in Slots, LimitOf(s) > 0
      PROVE  /\ Upsert(table, slot)[s] <= LimitOf(s)
             /\ seen[s] <= Upsert(table, slot)[s] \/ s[3] < clock - Day
             /\ table[slot] < LimitOf(slot)
                  => \/ [seen EXCEPT ![slot] = @ + 1][s] <= Upsert(table, slot)[s]
                     \/ s[3] < clock - Day
  <2>1. CASE s = slot
    BY <2>1, <1>1, <1>3 DEF Upsert
  <2>2. CASE s # slot
    BY <2>2, <1>4 DEF Upsert, Faithful
  <2> QED BY <2>1, <2>2
<1> QED BY <1>2, <1>4 DEF Faithful

\* So a process's own table stays faithful when it is pruned.
LEMMA MemoryFaithful ==
    ASSUME LimitTypeOK, NEW p \in Processes, NEW seen \in [Slots -> Nat],
           Faithful(counts[p], seen), NEW now \in Nat, now \in {clock - 1, clock}
    PROVE  MemoryTable(p, now) \in [Slots -> Nat] /\ Faithful(MemoryTable(p, now), seen)
<1>1. counts[p] \in [Slots -> Nat]
  BY DEF LimitTypeOK, Stores
<1> QED BY <1>1, PrunedFaithful DEF MemoryTable

\* One store has made a check, the others have not seen it or let it through.
LEMMA CheckedHere ==
    ASSUME LimitTypeOK, Counted, clock' = clock,
           NEW slot \in Slots, NEW store \in Stores, NEW ok \in BOOLEAN, LimitOf(slot) > 0,
           slot[3] >= clock - Day,
           counts' \in [Stores -> [Slots -> Nat]],
           \A t \in Stores : Faithful(counts'[t], passed[t]),
           NEW table \in [Slots -> Nat], Faithful(table, passed[store]),
           ok = (table[slot] < LimitOf(slot)),
           counts'[store] = Upsert(table, slot),
           IF ok THEN Let(store, slot) ELSE passed' = passed
    PROVE  LimitTypeOK' /\ Counted'
<1>1. passed \in [Stores -> [Slots -> Nat]] /\ clock \in 0..MaxClock
  BY DEF LimitTypeOK
<1>2. passed' \in [Stores -> [Slots -> Nat]]
  <2>1. CASE ok
    <3>1. passed[store] \in [Slots -> Nat]
      BY <1>1
    <3>2. [passed[store] EXCEPT ![slot] = passed[store][slot] + 1] \in [Slots -> Nat]
      BY <3>1
    <3>3. passed' = [passed EXCEPT ![store] = [passed[store] EXCEPT ![slot] = passed[store][slot] + 1]]
      BY <2>1 DEF Let
    <3> QED BY <1>1, <3>2, <3>3
  <2>2. CASE ~ok
    BY <2>2, <1>1
  <2> QED BY <2>1, <2>2
<1>3. \A t \in Stores \ {store} : passed'[t] = passed[t]
  BY <1>1 DEF Let
<1>4. Faithful(counts'[store], passed'[store])
  <2>1. passed[store] \in [Slots -> Nat]
    BY <1>1
  <2>2. CASE ok
    <3>1. passed'[store] = [passed[store] EXCEPT ![slot] = passed[store][slot] + 1]
      BY <2>2, <1>1 DEF Let
    <3>2. Faithful(Upsert(table, slot), [passed[store] EXCEPT ![slot] = passed[store][slot] + 1])
      BY <2>1, <2>2, UpsertFaithful
    <3> QED BY <3>1, <3>2
  <2>3. CASE ~ok
    BY <2>3
  <2> QED BY <2>2, <2>3
<1>5. \A t \in Stores : Faithful(counts'[t], passed'[t])
  BY <1>3, <1>4
<1>6. LimitTypeOK'
  BY <1>1, <1>2 DEF LimitTypeOK
<1>7. ASSUME NEW s \in Slots, NEW t \in Stores, LimitOf(s) > 0
      PROVE  passed'[t][s] <= LimitOf(s)
  <2>1. passed[t][s] <= LimitOf(s) /\ LimitOf(s) \in Nat
    BY <1>7, LimitTyped DEF Counted
  <2>2. passed[t] \in [Slots -> Nat] /\ passed[store] \in [Slots -> Nat]
    BY <1>1
  <2>3. CASE ok /\ t = store /\ s = slot
    <3>1. passed'[t][s] = passed[t][s] + 1
      BY <2>2, <2>3, <1>1 DEF Let
    <3>2. passed[store][slot] <= table[slot] \/ slot[3] < clock - Day
      BY DEF Faithful
    <3>3. clock \in Nat /\ Day \in Nat /\ slot[3] \in Nat
      BY <1>1, LimitTyped, LimitAssumption
    <3>4. passed[store][slot] <= table[slot] /\ table[slot] < LimitOf(slot)
      <4>1. ~(slot[3] < clock - Day)
        BY <3>3
      <4>2. table[slot] < LimitOf(slot)
        BY <2>3
      <4> QED BY <3>2, <4>1, <4>2
    <3>5. passed[t][s] <= table[slot] /\ table[slot] < LimitOf(s) /\ table[slot] \in Nat
      BY <2>3, <3>4
    <3> QED BY <3>1, <3>5, <2>1, <2>2
  <2>4. CASE ~(ok /\ t = store /\ s = slot)
    <3>1. passed'[t][s] = passed[t][s]
      BY <2>2, <2>4, <1>1 DEF Let
    <3> QED BY <3>1, <2>1
  <2> QED BY <2>3, <2>4
<1>8. \A s : LimitOf(s)' = LimitOf(s)
  BY DEF LimitOf
<1> QED BY <1>5, <1>6, <1>7, <1>8 DEF Counted, Faithful

\* A check, in Postgres or in memory, keeps every store within its limits.
LEMMA CheckKeeps ==
    ASSUME LimitTypeOK, Counted, cooling \subseteq Processes, NEW p \in Processes,
           NEW slot \in Slots, slot[3] >= clock - Day,
           NEW now \in Nat, now \in {clock - 1, clock}, NEW ok \in BOOLEAN,
           CheckRateLimit(p, slot, now, ok)
    PROVE  LimitTypeOK' /\ Counted' /\ clock' = clock /\ cooling' \subseteq Processes
<1>1. /\ counts \in [Stores -> [Slots -> Nat]] /\ passed \in [Stores -> [Slots -> Nat]]
      /\ \A t \in Stores : Faithful(counts[t], passed[t])
      /\ p \in Stores /\ Postgres \in Stores /\ p # Postgres
  BY LimitAssumption DEF LimitTypeOK, Counted, Faithful, Stores
<1>2. CASE LimitOf(slot) = 0 /\ ok /\ UNCHANGED <<limitVars, databaseVars>>
  BY <1>2 DEF limitVars, databaseVars, LimitTypeOK, Counted, LimitOf
<1>3. CASE LimitOf(slot) > 0 /\ CountInDatabase(p, slot, now, ok)
  <2> DEFINE table == Pruned(counts[Postgres], now)
  <2>1. table \in [Slots -> Nat] /\ Faithful(table, passed[Postgres])
    BY <1>1, PrunedFaithful
  <2>2. /\ ok = (table[slot] < LimitOf(slot))
        /\ counts' = [counts EXCEPT ![Postgres] = Upsert(table, slot)]
        /\ IF ok THEN Let(Postgres, slot) ELSE passed' = passed
        /\ clock' = clock /\ cooling' = cooling
    BY <1>3 DEF CountInDatabase
  <2> HIDE DEF table
  <2>3. Upsert(table, slot) \in [Slots -> Nat] /\ Faithful(Upsert(table, slot), passed[Postgres])
    BY <1>1, <1>3, <2>1, UpsertFaithful
  <2>4. /\ counts' \in [Stores -> [Slots -> Nat]] /\ counts'[Postgres] = Upsert(table, slot)
        /\ \A t \in Stores \ {Postgres} : counts'[t] = counts[t]
    BY <1>1, <2>2, <2>3
  <2>5. \A t \in Stores : Faithful(counts'[t], passed[t])
    BY <1>1, <2>3, <2>4
  <2>6. LimitTypeOK' /\ Counted'
    BY <1>1, <1>3, <2>1, <2>2, <2>4, <2>5, CheckedHere
  <2> QED BY <2>2, <2>6
<1>4. ASSUME NEW served \in [Slots -> Nat], Faithful(served, passed[Postgres]),
             LimitOf(slot) > 0, Remember(p, slot, now, served, ok), clock' = clock
      PROVE  LimitTypeOK' /\ Counted'
  <2> DEFINE table == MemoryTable(p, now)
  <2>1. table \in [Slots -> Nat] /\ Faithful(table, passed[p])
    BY <1>1, MemoryFaithful
  <2>2. /\ ok = (table[slot] < LimitOf(slot))
        /\ counts' = [counts EXCEPT ![p] = Upsert(table, slot), ![Postgres] = served]
        /\ IF ok THEN Let(p, slot) ELSE passed' = passed
    BY <1>4 DEF Remember
  <2> HIDE DEF table
  <2>3. Upsert(table, slot) \in [Slots -> Nat] /\ Faithful(Upsert(table, slot), passed[p])
    BY <1>1, <1>4, <2>1, UpsertFaithful
  <2>4. /\ counts' \in [Stores -> [Slots -> Nat]] /\ counts'[p] = Upsert(table, slot)
        /\ counts'[Postgres] = served
        /\ \A t \in Stores \ {Postgres, p} : counts'[t] = counts[t]
    BY <1>1, <2>2, <2>3
  <2>5. \A t \in Stores : Faithful(counts'[t], passed[t])
    BY <1>1, <1>4, <2>3, <2>4
  <2> QED BY <1>1, <1>4, <2>1, <2>2, <2>4, <2>5, CheckedHere
<1>5. CASE LimitOf(slot) > 0 /\ CountInMemory(p, slot, now, ok)
  <2>1. Remember(p, slot, now, counts[Postgres], ok) /\ clock' = clock /\ cooling' = cooling
    BY <1>5 DEF CountInMemory
  <2> QED BY <1>1, <1>4, <1>5, <2>1
<1>6. CASE LimitOf(slot) > 0 /\ CountAfterFailure(p, slot, now, ok)
  <2>1. PICK served \in {counts[Postgres], Upsert(Pruned(counts[Postgres], now), slot)} :
            Remember(p, slot, now, served, ok)
    BY <1>6 DEF CountAfterFailure
  <2>2. clock' = clock /\ cooling' = cooling \cup {p}
    BY <1>6 DEF CountAfterFailure, Failure
  <2>3. LET table == Pruned(counts[Postgres], now)
        IN  table \in [Slots -> Nat] /\ Faithful(table, passed[Postgres])
    BY <1>1, PrunedFaithful
  <2>4. served \in [Slots -> Nat] /\ Faithful(served, passed[Postgres])
    <3> DEFINE table == Pruned(counts[Postgres], now)
    <3>1. table \in [Slots -> Nat] /\ Faithful(table, passed[Postgres])
      BY <2>3
    <3>2. served = counts[Postgres] \/ served = Upsert(table, slot)
      BY <2>1
    <3> HIDE DEF table
    <3>3. Upsert(table, slot) \in [Slots -> Nat] /\ Faithful(Upsert(table, slot), passed[Postgres])
      BY <1>1, <1>6, <3>1, UpsertFaithful
    <3> QED BY <1>1, <3>2, <3>3
  <2> QED BY <1>4, <1>6, <2>1, <2>2, <2>4
<1> QED BY <1>2, <1>3, <1>5, <1>6 DEF CheckRateLimit
-----------------------------------------------------------------------------
(* Types                                                                   *)

\* At first everything has its type and nothing is counted.
LEMMA InitTyped == Init => Typed /\ Counted
<1> SUFFICES ASSUME Init PROVE Typed /\ Counted
  OBVIOUS
<1>1. LimitTypeOK
  BY LimitAssumption DEF Init, LimitInit, LimitTypeOK
<1>2. AccountTypeOK
  BY DEF Init, AccountInit, AccountTypeOK, Registered
<1>3. Known
  BY DEF Init, AccountInit, Known
<1>4. cooling \subseteq Processes /\ asked \in 0..MaxRequests
  BY GatewayAssumption DEF Init, DatabaseInit
<1>5. Counted
  BY LimitTyped DEF Init, LimitInit, Counted
<1> QED BY <1>1, <1>2, <1>3, <1>4, <1>5 DEF Typed, GatewayTypeOK

(* Only the request r has moved, and to where it is Known.                 *)
MovesOnly(r) ==
    /\ req' \in [Requests -> {None} \cup Request]
    /\ \A q \in Requests \ {r} : req'[q] = req[q]

KnownAt(r) == req'[r] # None =>
    /\ req'[r].stage \in {"minute", "day"} => req'[r].now \in {clock - 1, clock}
    /\ req'[r].stage \in Handling => req'[r].who # None
    /\ req'[r].stage = "current" => req'[r].route \in {"create_key", "revoke_key", "job"}
    /\ req'[r].stage = "admins" => req'[r].who \in Registered'

\* What is known of the other requests stands.
LEMMA KnownKept ==
    ASSUME Known, NEW r \in Requests, MovesOnly(r), KnownAt(r),
           clock' = clock, Registered \subseteq Registered'
    PROVE  Known'
BY DEF Known, MovesOnly, KnownAt

\* An answer ends its request and no other.
LEMMA AnswerMoves ==
    ASSUME AccountTypeOK, NEW r \in Requests, Answer(r)
    PROVE  MovesOnly(r) /\ req'[r] = None /\ KnownAt(r)
BY DEF AccountTypeOK, Answer, MovesOnly, KnownAt

\* A request moved on is the same request at another place.
LEMMA GotoMoves ==
    ASSUME AccountTypeOK, NEW r \in Requests, req[r] # None,
           NEW s \in Middleware \cup Handling, Goto(r, s)
    PROVE  /\ MovesOnly(r)
           /\ req'[r] \in Request /\ req'[r] = [req[r] EXCEPT !.stage = s]
<1>1. req[r] \in Request
  BY DEF AccountTypeOK
<1>2. [req[r] EXCEPT !.stage = s] \in Request
  BY <1>1 DEF Request
<1>3. req' = [req EXCEPT ![r] = [req[r] EXCEPT !.stage = s]]
  BY DEF Goto
<1> QED BY <1>2, <1>3 DEF AccountTypeOK, MovesOnly

\* What an action on the request r keeps, beside the limits.
Kept(r) == /\ AccountTypeOK' /\ MovesOnly(r) /\ KnownAt(r)
           /\ Registered \subseteq Registered'
           /\ cooling' \subseteq Processes

\* A step that changes no table keeps what its request relies on.
LEMMA SameTables ==
    ASSUME Typed, NEW r \in Requests, MovesOnly(r), KnownAt(r), cooling' \subseteq Processes,
           UNCHANGED <<users, api_keys, sessions>>, raced' \in BOOLEAN, ran' \subseteq Registered
    PROVE  Kept(r)
BY DEF Typed, GatewayTypeOK, AccountTypeOK, MovesOnly, Kept, Registered

\* Authentication finds a user or answers.
LEMMA AuthenticateKeeps ==
    ASSUME Typed, NEW r \in Requests, Authenticate(r, clock)
    PROVE  Kept(r)
<1>1. AccountTypeOK /\ req[r] # None /\ req[r] \in Request /\ clock \in Nat
  BY DEF Typed, GatewayTypeOK, AccountTypeOK, LimitTypeOK, Authenticate, At
<1>2. cooling' \subseteq Processes /\ UNCHANGED <<users, api_keys, sessions>>
      /\ raced' \in BOOLEAN /\ ran' \subseteq Registered
  BY DEF Typed, GatewayTypeOK, AccountTypeOK, Authenticate, databaseVars
<1>3. CASE Answer(r)
  BY <1>1, <1>2, <1>3, AnswerMoves, SameTables
<1>4. CASE req' = [req EXCEPT ![r].stage = "minute", ![r].now = clock]
  <2> DEFINE x == [req[r] EXCEPT !.stage = "minute", !.now = clock]
  <2>1. x \in Request /\ x.stage = "minute" /\ x.now = clock
    BY <1>1 DEF Request, Middleware
  <2>2. req' = [req EXCEPT ![r] = x]
    BY <1>4
  <2> HIDE DEF x
  <2>3. MovesOnly(r) /\ req'[r] = x
    BY <1>1, <2>1, <2>2 DEF AccountTypeOK, MovesOnly
  <2>4. KnownAt(r)
    BY <2>1, <2>3 DEF KnownAt, Handling
  <2> QED BY <1>2, <2>3, <2>4, SameTables
<1>5. CASE /\ Principal(req[r].cred) # None
           /\ req' = [req EXCEPT ![r].stage = "minute", ![r].now = clock,
                                 ![r].who = Principal(req[r].cred)]
  <2> DEFINE who == Principal(req[r].cred)
             x == [req[r] EXCEPT !.stage = "minute", !.now = clock, !.who = who]
  <2>1. who \in Emails
    <3>1. api_keys \in [Keys -> {None} \cup Key] /\ req[r].cred \in {None} \cup Emails \cup Keys
          /\ sessions \subseteq Emails
      BY <1>1 DEF AccountTypeOK, Request, Registered
    <3>2. CASE req[r].cred \in Keys
      BY <1>5, <3>1, <3>2 DEF Principal, Key
    <3>3. CASE req[r].cred \notin Keys
      BY <1>5, <3>1, <3>3 DEF Principal
    <3> QED BY <3>2, <3>3
  <2> HIDE DEF who
  <2>2. x \in Request /\ x.stage = "minute" /\ x.now = clock
    BY <1>1, <2>1 DEF Request, Middleware
  <2>3. req' = [req EXCEPT ![r] = x]
    BY <1>5 DEF who
  <2> HIDE DEF x
  <2>4. MovesOnly(r) /\ req'[r] = x
    BY <1>1, <2>2, <2>3 DEF AccountTypeOK, MovesOnly
  <2>5. KnownAt(r)
    BY <2>2, <2>4 DEF KnownAt, Handling
  <2> QED BY <1>2, <2>4, <2>5, SameTables
<1> QED BY <1>3, <1>4, <1>5 DEF Authenticate

\* A request that arrives is a request.
LEMMA ArriveKeeps ==
    ASSUME Typed, NEW r \in Requests, NEW p \in Processes, NEW route \in Routes,
           NEW cred \in {None} \cup Emails \cup Keys, NEW who \in {None} \cup Emails,
           NEW key \in {None} \cup Keys, Arrive(r, p, route, cred, who, key)
    PROVE  Kept(r) /\ asked' \in 0..MaxRequests
<1> DEFINE x == [stage |-> "auth", route |-> route, proc |-> p, cred |-> cred,
                 who |-> who, key |-> key, now |-> 0, flag |-> FALSE]
<1>1. x \in Request /\ x.stage = "auth"
  BY DEF Request, Middleware
<1>2. req' = [req EXCEPT ![r] = x]
  BY DEF Arrive
<1> HIDE DEF x
<1>3. MovesOnly(r) /\ req'[r] = x
  BY <1>1, <1>2 DEF Typed, GatewayTypeOK, AccountTypeOK, MovesOnly
<1>4. KnownAt(r)
  BY <1>1, <1>3 DEF KnownAt, Handling
<1>5. /\ cooling' \subseteq Processes /\ UNCHANGED <<users, api_keys, sessions>>
      /\ raced' \in BOOLEAN /\ ran' \subseteq Registered
  BY DEF Arrive, databaseVars, Typed, GatewayTypeOK, AccountTypeOK
<1>6. asked' \in 0..MaxRequests
  BY GatewayAssumption DEF Arrive, Typed, GatewayTypeOK
<1> QED BY <1>3, <1>4, <1>5, <1>6, SameTables

\* A handler's step sends its request on, or answers it.
LEMMA HandlerMoves ==
    ASSUME Typed, NEW r \in Requests, req[r] # None, req[r].stage \in Handling,
           NEW s \in Handling \ {"current"}, NEW f \in BOOLEAN,
           s = "admins" => req[r].who \in Registered',
           req' = [req EXCEPT ![r] = [req[r] EXCEPT !.stage = s, !.flag = f]]
    PROVE  MovesOnly(r) /\ KnownAt(r)
<1> DEFINE x == [req[r] EXCEPT !.stage = s, !.flag = f]
<1>1. req[r] \in Request /\ req[r].who # None /\ AccountTypeOK
  BY DEF Typed, Known, GatewayTypeOK, AccountTypeOK
<1>2. x \in Request /\ x.stage = s /\ x.who = req[r].who
  BY <1>1 DEF Request
<1> HIDE DEF x
<1>3. req' = [req EXCEPT ![r] = x]
  BY DEF x
<1>4. MovesOnly(r) /\ req'[r] = x
  BY <1>1, <1>2, <1>3 DEF AccountTypeOK, MovesOnly
<1> QED BY <1>1, <1>2, <1>4 DEF KnownAt, Handling

\* The first step of a registration.
LEMMA LookForUserKeeps ==
    ASSUME Typed, NEW r \in Requests, LookForUser(r)
    PROVE  Kept(r)
<1>1. /\ req[r] # None /\ req[r].stage \in Handling
      /\ req' = [req EXCEPT ![r] =
            [req[r] EXCEPT !.stage = "count", !.flag = (req[r].who \in Registered)]]
  BY DEF LookForUser, Asks, At, Handling
<1>2. "count" \in Handling \ {"current"} /\ (req[r].who \in Registered) \in BOOLEAN
  BY DEF Handling
<1>3. MovesOnly(r) /\ KnownAt(r)
  BY <1>1, <1>2, HandlerMoves
<1> QED BY <1>3, SameTables DEF LookForUser, databaseVars, Typed, GatewayTypeOK, AccountTypeOK

\* The second: it is refused, or it knows whether it is the first.
LEMMA CountUsersKeeps ==
    ASSUME Typed, NEW r \in Requests, CountUsers(r)
    PROVE  Kept(r)
<1>1. req[r] # None /\ req[r].stage \in Handling
  BY DEF CountUsers, Asks, At, Handling
<1>2. MovesOnly(r) /\ KnownAt(r)
  <2>1. CASE Answer(r)
    BY <2>1, AnswerMoves DEF Typed, GatewayTypeOK
  <2>2. CASE req' = [req EXCEPT ![r].stage = "create", ![r].flag = (Registered = {})]
    <3>1. req' = [req EXCEPT ![r] = [req[r] EXCEPT !.stage = "create", !.flag = (Registered = {})]]
      BY <2>2
    <3>2. "create" \in Handling \ {"current"} /\ (Registered = {}) \in BOOLEAN
      BY DEF Handling
    <3> QED BY <1>1, <3>1, <3>2, HandlerMoves
  <2> QED BY <2>1, <2>2 DEF CountUsers
<1>3. raced \in BOOLEAN
  BY DEF Typed, GatewayTypeOK, AccountTypeOK
<1>4. raced' \in BOOLEAN
  BY <1>3 DEF CountUsers
<1> QED BY <1>2, <1>4, SameTables DEF CountUsers, databaseVars, Typed, GatewayTypeOK, AccountTypeOK

\* An account is added, and none is lost.
LEMMA UserAdded ==
    ASSUME Typed, NEW r \in Requests, At(r, "create"), users' = WithUser(r)
    PROVE  /\ users' \in [Emails -> {None} \cup User]
           /\ Registered' = Registered \cup {req[r].who}
           /\ \A e \in Registered : users'[e] = users[e]
           /\ req[r].who \in Emails /\ req[r].flag \in BOOLEAN
           /\ req[r].who \notin Registered
                 => users'[req[r].who] = [admin |-> req[r].flag, active |-> TRUE]
<1>1. users \in [Emails -> {None} \cup User] /\ req[r] \in Request /\ req[r].who # None
  BY DEF Typed, Known, GatewayTypeOK, AccountTypeOK, At, Handling
<1>2. req[r].who \in Emails /\ req[r].flag \in BOOLEAN
  BY <1>1 DEF Request
<1> DEFINE who == req[r].who
           x == [admin |-> req[r].flag, active |-> TRUE]
<1>3. x \in User /\ x # None
  <2>1. x \in User
    BY <1>2 DEF User
  <2> HIDE DEF x
  <2> QED BY <2>1, AccountAssumption
<1>4. CASE who \in Registered
  BY <1>1, <1>2, <1>4 DEF WithUser, Registered
<1>5. CASE who \notin Registered
  <2>1. users' = [users EXCEPT ![who] = x]
    BY <1>5 DEF WithUser
  <2> HIDE DEF x, who
  <2>2. who \in Emails
    BY <1>2 DEF who
  <2>3. users' \in [Emails -> {None} \cup User] /\ users'[who] = x
        /\ \A e \in Emails \ {who} : users'[e] = users[e]
    BY <1>1, <1>3, <2>1, <2>2
  <2>4. Registered' = Registered \cup {who}
    BY <1>3, <2>2, <2>3 DEF Registered
  <2>5. \A e \in Registered : users'[e] = users[e]
    BY <2>3, <1>5 DEF Registered
  <2> QED BY <1>2, <2>3, <2>4, <2>5 DEF who, x
<1> QED BY <1>4, <1>5

\* A step that answers, and may have added rows to tables.
LEMMA AnsweringKeeps ==
    ASSUME Typed, NEW r \in Requests, Answer(r), cooling' \subseteq Processes,
           users' \in [Emails -> {None} \cup User], Registered \subseteq Registered',
           api_keys' \in [Keys -> {None} \cup Key],
           sessions' \subseteq Registered', ran' \subseteq Registered', raced' \in BOOLEAN
    PROVE  Kept(r)
<1>1. MovesOnly(r) /\ KnownAt(r)
  BY AnswerMoves DEF Typed, GatewayTypeOK
<1> QED BY <1>1 DEF Kept, AccountTypeOK, MovesOnly

\* The third adds an account.
LEMMA CreateUserKeeps ==
    ASSUME Typed, NEW r \in Requests, CreateUser(r)
    PROVE  Kept(r)
<1>1. /\ users' \in [Emails -> {None} \cup User]
      /\ Registered' = Registered \cup {req[r].who}
  BY UserAdded DEF CreateUser, Asks
<1>2. /\ cooling' = cooling /\ cooling \subseteq Processes
      /\ UNCHANGED <<api_keys, ran, raced>> /\ Answer(r)
      /\ sessions' \subseteq sessions \cup {req[r].who}
  BY DEF CreateUser, databaseVars, Typed, GatewayTypeOK
<1>3. /\ sessions \subseteq Registered /\ ran \subseteq Registered /\ raced \in BOOLEAN
      /\ api_keys \in [Keys -> {None} \cup Key]
  BY DEF Typed, GatewayTypeOK, AccountTypeOK
<1> QED BY <1>1, <1>2, <1>3, AnsweringKeeps

\* A session is granted to a registered user only.
LEMMA LoginKeeps ==
    ASSUME Typed, NEW r \in Requests, Login(r)
    PROVE  Kept(r)
<1>1. PICK granted \in {{}} \cup {{e} : e \in {req[r].who} \cap Registered} :
            sessions' = sessions \cup {e \in granted : Active(e)}
  BY DEF Login
<1>2. {e \in granted : Active(e)} \subseteq Registered
  BY DEF Active
<1>3. /\ cooling' \subseteq Processes /\ Answer(r) /\ UNCHANGED <<users, api_keys, ran, raced>>
      /\ sessions \subseteq Registered /\ ran \subseteq Registered /\ raced \in BOOLEAN
      /\ users \in [Emails -> {None} \cup User] /\ api_keys \in [Keys -> {None} \cup Key]
  BY DEF Login, databaseVars, Typed, GatewayTypeOK, AccountTypeOK
<1>4. Registered' = Registered
  BY <1>3 DEF Registered
<1> QED BY <1>1, <1>2, <1>3, <1>4, AnsweringKeeps

\* Who goes on is a registered user.
LEMMA CurrentUserKeeps ==
    ASSUME Typed, NEW r \in Requests, CurrentUser(r)
    PROVE  Kept(r)
<1> DEFINE who == req[r].who
<1>1. /\ req[r] # None /\ req[r] \in Request /\ req[r].stage \in Handling /\ who # None
      /\ AccountTypeOK /\ cooling' \subseteq Processes
      /\ UNCHANGED <<users, api_keys, sessions, raced>>
  BY DEF CurrentUser, Asks, At, Handling, databaseVars, Typed, Known, GatewayTypeOK, AccountTypeOK
<1>2. raced' \in BOOLEAN /\ Registered' = Registered
  BY <1>1 DEF AccountTypeOK, Registered
<1>3. MovesOnly(r) /\ KnownAt(r)
  <2>1. CASE Answer(r)
    BY <1>1, <2>1, AnswerMoves
  <2>2. CASE Active(who) /\ Goto(r, "admins")
    <3>1. "admins" \in Handling
      BY DEF Handling
    <3>2. MovesOnly(r) /\ req'[r] = [req[r] EXCEPT !.stage = "admins"]
      BY <1>1, <2>2, <3>1, GotoMoves
    <3>3. who \in Registered'
      BY <1>2, <2>2 DEF Active
    <3> QED BY <1>1, <3>2, <3>3 DEF KnownAt, Request
  <2>3. CASE req[r].route # "job" /\ Goto(r, req[r].route)
    <3>1. ASSUME NEW s \in {"create_key", "revoke_key"}, Goto(r, s)
          PROVE  MovesOnly(r) /\ KnownAt(r)
      <4>1. s \in Handling /\ s \notin {"admins", "current"}
        BY DEF Handling
      <4>2. MovesOnly(r) /\ req'[r] = [req[r] EXCEPT !.stage = s]
        BY <1>1, <3>1, <4>1, GotoMoves
      <4> QED BY <1>1, <4>1, <4>2 DEF KnownAt, Request, Handling
    <3>2. req[r].route \in {"create_key", "revoke_key"}
      BY <2>3 DEF CurrentUser, Asks, At, Typed, Known
    <3> QED BY <2>3, <3>1, <3>2
  <2> QED BY <2>1, <2>2, <2>3 DEF CurrentUser
<1>4. ran' \subseteq Registered
  BY <1>1 DEF CurrentUser, AccountTypeOK, Active
<1> QED BY <1>1, <1>2, <1>3, <1>4, SameTables

\* Who runs a job is a registered user.
LEMMA CountAdminsKeeps ==
    ASSUME Typed, NEW r \in Requests, CountAdmins(r)
    PROVE  Kept(r)
<1>1. req[r].who \in Registered
  BY DEF CountAdmins, Asks, At, Typed, Known
<1>2. /\ cooling' \subseteq Processes /\ Answer(r) /\ UNCHANGED <<users, api_keys, sessions, raced>>
      /\ sessions \subseteq Registered /\ ran \subseteq Registered /\ raced \in BOOLEAN
      /\ users \in [Emails -> {None} \cup User] /\ api_keys \in [Keys -> {None} \cup Key]
      /\ ran' \subseteq ran \cup {req[r].who}
  BY DEF CountAdmins, databaseVars, Typed, GatewayTypeOK, AccountTypeOK
<1>3. Registered' = Registered
  BY <1>2 DEF Registered
<1> QED BY <1>1, <1>2, <1>3, AnsweringKeeps

\* Keys made and revoked are keys.
LEMMA KeysTyped ==
    ASSUME Typed, NEW r \in Requests
    PROVE  /\ At(r, "create_key") => WithKey(r) \in [Keys -> {None} \cup Key]
           /\ At(r, "revoke_key") => WithoutKey(r) \in [Keys -> {None} \cup Key]
<1>1. api_keys \in [Keys -> {None} \cup Key]
  BY DEF Typed, GatewayTypeOK, AccountTypeOK
<1>2. ASSUME At(r, "create_key") PROVE WithKey(r) \in [Keys -> {None} \cup Key]
  <2> DEFINE x == [user |-> req[r].who, active |-> TRUE]
  <2>1. req[r] \in Request /\ req[r].who # None
    BY <1>2 DEF Typed, Known, GatewayTypeOK, AccountTypeOK, At, Handling
  <2>2. x \in Key
    BY <2>1 DEF Request, Key
  <2>3. WithKey(r) = [api_keys EXCEPT ![req[r].key] = x]
    BY DEF WithKey
  <2> HIDE DEF x
  <2> QED BY <1>1, <2>2, <2>3
<1>3. ASSUME At(r, "revoke_key") PROVE WithoutKey(r) \in [Keys -> {None} \cup Key]
  <2> DEFINE k == req[r].key
             x == [user |-> req[r].who, active |-> TRUE]
  <2>1. CASE k \in Keys /\ api_keys[k] = x
    <3>1. req[r] \in Request /\ req[r].who # None
      BY <1>3 DEF Typed, Known, GatewayTypeOK, AccountTypeOK, At, Handling
    <3>2. [x EXCEPT !.active = FALSE] \in Key
      BY <3>1 DEF Request, Key
    <3>3. WithoutKey(r) = [api_keys EXCEPT ![k] = [x EXCEPT !.active = FALSE]]
      BY <2>1 DEF WithoutKey
    <3> HIDE DEF x, k
    <3> QED BY <1>1, <3>2, <3>3
  <2>2. CASE ~(k \in Keys /\ api_keys[k] = x)
    BY <1>1, <2>2 DEF WithoutKey
  <2> QED BY <2>1, <2>2
<1> QED BY <1>2, <1>3

\* And so their routes keep the types.
LEMMA KeyRoutesKeep ==
    ASSUME Typed, NEW r \in Requests, CreateKey(r) \/ RevokeKey(r)
    PROVE  Kept(r)
<1>1. api_keys' \in [Keys -> {None} \cup Key]
  BY KeysTyped DEF CreateKey, RevokeKey, Asks
<1>2. /\ cooling' \subseteq Processes /\ Answer(r) /\ UNCHANGED <<users, sessions, ran, raced>>
      /\ sessions \subseteq Registered /\ ran \subseteq Registered /\ raced \in BOOLEAN
      /\ users \in [Emails -> {None} \cup User]
  BY DEF CreateKey, RevokeKey, databaseVars, Typed, GatewayTypeOK, AccountTypeOK
<1>3. Registered' = Registered
  BY <1>2 DEF Registered
<1> QED BY <1>1, <1>2, <1>3, AnsweringKeeps

\* A request that finds the breaker open is answered.
LEMMA UnavailableKeeps ==
    ASSUME Typed, NEW r \in Requests, Unavailable(r)
    PROVE  Kept(r)
<1>1. /\ cooling' \subseteq Processes /\ Answer(r) /\ UNCHANGED <<users, api_keys, sessions, ran, raced>>
      /\ sessions \subseteq Registered /\ ran \subseteq Registered /\ raced \in BOOLEAN
      /\ users \in [Emails -> {None} \cup User] /\ api_keys \in [Keys -> {None} \cup Key]
  BY DEF Unavailable, databaseVars, Typed, GatewayTypeOK, AccountTypeOK
<1>2. Registered' = Registered
  BY <1>1 DEF Registered
<1> QED BY <1>1, <1>2, AnsweringKeeps

\* So is one whose database fails, whether or not its last statement was committed.
LEMMA DatabaseFailsKeeps ==
    ASSUME Typed, NEW r \in Requests, DatabaseFails(r)
    PROVE  Kept(r)
<1>1. /\ Answer(r) /\ UNCHANGED <<sessions, ran, raced>>
      /\ sessions \subseteq Registered /\ ran \subseteq Registered /\ raced \in BOOLEAN
      /\ users \in [Emails -> {None} \cup User] /\ api_keys \in [Keys -> {None} \cup Key]
      /\ req \in [Requests -> {None} \cup Request] /\ cooling \subseteq Processes /\ req[r] # None
  BY DEF DatabaseFails, NeedsDatabase, Typed, GatewayTypeOK, AccountTypeOK
<1>2. users' = users \/ (At(r, "create") /\ users' = WithUser(r))
  BY DEF DatabaseFails
<1>3. users' \in [Emails -> {None} \cup User] /\ Registered \subseteq Registered'
  BY <1>1, <1>2, UserAdded DEF Registered
<1>4. \/ api_keys' = api_keys
      \/ At(r, "create_key") /\ api_keys' = WithKey(r)
      \/ At(r, "revoke_key") /\ api_keys' = WithoutKey(r)
  BY DEF DatabaseFails
<1>5. api_keys' \in [Keys -> {None} \cup Key]
  BY <1>1, <1>4, KeysTyped
<1>6. req[r].proc \in Processes
  BY <1>1 DEF Request
<1>7. cooling' \subseteq Processes
  BY <1>1, <1>6 DEF DatabaseFails, Failure
<1>8. sessions' \subseteq Registered' /\ ran' \subseteq Registered' /\ raced' \in BOOLEAN
  BY <1>1, <1>3
<1> QED BY <1>1, <1>3, <1>5, <1>7, <1>8, AnsweringKeeps

\* The two checks, and with them the counts.
LEMMA CheckTyped ==
    ASSUME Typed, Counted, NEW r \in Requests, NEW k \in Kinds, NEW ok \in BOOLEAN,
           At(r, "minute") \/ At(r, "day"),
           CheckRateLimit(req[r].proc, SlotOf(Bucket(r), k, req[r].now), req[r].now, ok)
    PROVE  LimitTypeOK' /\ Counted' /\ clock' = clock /\ cooling' \subseteq Processes
<1>1. /\ req[r] # None /\ req[r] \in Request /\ req[r].now \in {clock - 1, clock}
      /\ LimitTypeOK /\ cooling \subseteq Processes
  BY DEF Typed, Known, GatewayTypeOK, AccountTypeOK, At
<1>2. req[r].proc \in Processes /\ req[r].now \in Nat
  BY <1>1 DEF Request
<1>3. Bucket(r) \in Buckets
  BY GatewayAssumption DEF Bucket
<1>4. SlotOf(Bucket(r), k, req[r].now) \in Slots
      /\ SlotOf(Bucket(r), k, req[r].now)[3] >= clock - Day
  BY <1>1, <1>2, <1>3, SlotTyped
<1> QED BY <1>1, <1>2, <1>4, CheckKeeps

\* The minute's check.
LEMMA CheckMinuteKeeps ==
    ASSUME Typed, Counted, NEW r \in Requests, CheckMinute(r)
    PROVE  Kept(r) /\ LimitTypeOK' /\ Counted' /\ clock' = clock
<1>1. PICK ok \in BOOLEAN :
        /\ CheckRateLimit(req[r].proc, SlotOf(Bucket(r), "m", req[r].now), req[r].now, ok)
        /\ IF ok THEN req' = [req EXCEPT ![r].stage = "day", ![r].now = clock] ELSE Answer(r)
  BY DEF CheckMinute
<1>2. At(r, "minute") /\ "m" \in Kinds /\ UNCHANGED <<users, api_keys, sessions, ran, raced>>
  BY DEF CheckMinute, Kinds
<1>3. LimitTypeOK' /\ Counted' /\ clock' = clock /\ cooling' \subseteq Processes
  BY <1>1, <1>2, CheckTyped
<1>4. req[r] # None /\ req[r] \in Request /\ AccountTypeOK /\ clock \in Nat
  BY <1>2 DEF At, Typed, GatewayTypeOK, AccountTypeOK, LimitTypeOK
<1>5. MovesOnly(r) /\ KnownAt(r)
  <2>1. CASE Answer(r)
    BY <1>4, <2>1, AnswerMoves
  <2>2. CASE req' = [req EXCEPT ![r].stage = "day", ![r].now = clock]
    <3> DEFINE x == [req[r] EXCEPT !.stage = "day", !.now = clock]
    <3>1. x \in Request /\ x.stage = "day" /\ x.now = clock
      BY <1>4 DEF Request, Middleware
    <3>2. req' = [req EXCEPT ![r] = x]
      BY <2>2
    <3> HIDE DEF x
    <3>3. MovesOnly(r) /\ req'[r] = x
      BY <1>4, <3>1, <3>2 DEF AccountTypeOK, MovesOnly
    <3> QED BY <3>1, <3>3 DEF KnownAt, Handling
  <2> QED BY <1>1, <2>1, <2>2
<1> QED BY <1>2, <1>3, <1>4, <1>5, SameTables DEF AccountTypeOK

\* The day's check.
LEMMA CheckDayKeeps ==
    ASSUME Typed, Counted, NEW r \in Requests, CheckDay(r)
    PROVE  Kept(r) /\ LimitTypeOK' /\ Counted' /\ clock' = clock
<1>1. PICK ok \in BOOLEAN :
        /\ CheckRateLimit(req[r].proc, SlotOf(Bucket(r), "d", req[r].now), req[r].now, ok)
        /\ IF ok /\ ~Ends(r) THEN Goto(r, Entry(req[r].route)) ELSE Answer(r)
  BY DEF CheckDay
<1>2. At(r, "day") /\ "d" \in Kinds /\ UNCHANGED <<users, api_keys, sessions, ran, raced>>
  BY DEF CheckDay, Kinds
<1>3. LimitTypeOK' /\ Counted' /\ clock' = clock /\ cooling' \subseteq Processes
  BY <1>1, <1>2, CheckTyped
<1>4. req[r] # None /\ req[r] \in Request /\ AccountTypeOK
  BY <1>2 DEF At, Typed, GatewayTypeOK, AccountTypeOK
<1>5. MovesOnly(r) /\ KnownAt(r)
  <2>1. CASE Answer(r)
    BY <1>4, <2>1, AnswerMoves
  <2>2. CASE ~Ends(r) /\ Goto(r, Entry(req[r].route))
    <3> DEFINE s == Entry(req[r].route)
    <3>1. /\ s \in Handling /\ s # "admins" /\ s \notin {"minute", "day"}
          /\ s = "current" => req[r].route \in {"create_key", "revoke_key", "job"}
      BY <1>4, <2>2 DEF Entry, Ends, Handling, Request, Routes
    <3>2. req[r].who # None
      BY <2>2 DEF Ends
    <3> HIDE DEF s
    <3>3. MovesOnly(r) /\ req'[r] = [req[r] EXCEPT !.stage = s]
      BY <1>4, <2>2, <3>1, GotoMoves DEF s
    <3> QED BY <1>4, <3>1, <3>2, <3>3 DEF KnownAt, Request
  <2> QED BY <1>1, <2>1, <2>2
<1> QED BY <1>2, <1>3, <1>4, <1>5, SameTables DEF AccountTypeOK

\* Steps that count nothing keep the counts.
LEMMA LimitsFrame ==
    ASSUME Typed, Counted, UNCHANGED limitVars
    PROVE  LimitTypeOK' /\ Counted' /\ clock' = clock
BY DEF Typed, GatewayTypeOK, limitVars, LimitTypeOK, Counted, LimitOf

\* What is kept on behalf of a request, and limits that are, make the step typed.
LEMMA KeptTyped ==
    ASSUME Typed, NEW r \in Requests, Kept(r), LimitTypeOK', clock' = clock,
           asked' \in 0..MaxRequests
    PROVE  Typed'
BY KnownKept DEF Typed, GatewayTypeOK, Kept

\* Every step of a handler.
LEMMA HandleKeeps ==
    ASSUME Typed, NEW r \in Requests, Handle(r)
    PROVE  Kept(r)
BY LookForUserKeeps, CountUsersKeeps, CreateUserKeeps, LoginKeeps, CurrentUserKeeps,
   CountAdminsKeeps, KeyRoutesKeep, UnavailableKeeps, DatabaseFailsKeeps DEF Handle

\* Every step of the gateway.
LEMMA StepTyped == Typed /\ Counted /\ [Next]_vars => Typed' /\ Counted'
<1> SUFFICES ASSUME Typed, Counted, [Next]_vars PROVE Typed' /\ Counted'
  OBVIOUS
<1>1. ASSUME NEW r \in {q \in Requests : req[q] = None}, NEW p \in Processes,
             NEW route \in Routes, NEW who \in {None} \cup Emails, NEW key \in {None} \cup Keys,
             NEW cred \in {None} \cup sessions \cup {k \in Keys : api_keys[k] # None},
             Arrive(r, p, route, cred, who, key)
      PROVE  Typed' /\ Counted'
  <2>1. cred \in {None} \cup Emails \cup Keys
    BY DEF Typed, GatewayTypeOK, AccountTypeOK, Registered
  <2>2. UNCHANGED limitVars
    BY <1>1 DEF Arrive
  <2> QED BY <1>1, <2>1, <2>2, ArriveKeeps, LimitsFrame, KeptTyped
<1>2. ASSUME NEW r \in Requests, Serve(r)
      PROVE  Typed' /\ Counted'
  <2>1. CASE Authenticate(r, clock) /\ UNCHANGED <<limitVars, asked>>
    <3>1. asked' \in 0..MaxRequests
      BY <2>1 DEF Typed, GatewayTypeOK
    <3> QED BY <2>1, <3>1, AuthenticateKeeps, LimitsFrame, KeptTyped
  <2>2. CASE CheckMinute(r)
    <3>1. asked' \in 0..MaxRequests
      BY <2>2 DEF CheckMinute, Typed, GatewayTypeOK
    <3> QED BY <2>2, <3>1, CheckMinuteKeeps, KeptTyped
  <2>3. CASE CheckDay(r)
    <3>1. asked' \in 0..MaxRequests
      BY <2>3 DEF CheckDay, Typed, GatewayTypeOK
    <3> QED BY <2>3, <3>1, CheckDayKeeps, KeptTyped
  <2>4. CASE Handle(r) /\ UNCHANGED <<limitVars, asked>>
    <3>1. asked' \in 0..MaxRequests
      BY <2>4 DEF Typed, GatewayTypeOK
    <3> QED BY <2>4, <3>1, HandleKeeps, LimitsFrame, KeptTyped
  <2> QED BY <1>2, <2>1, <2>2, <2>3, <2>4 DEF Serve
<1>3. CASE /\ Tick(\A r \in Requests : Checked(r) => req[r].now = clock)
           /\ UNCHANGED <<accountVars, asked>>
  <2>1. /\ clock \in 0..MaxClock /\ clock < MaxClock /\ clock' = clock + 1
        /\ UNCHANGED <<counts, passed, databaseVars, accountVars, asked>>
        /\ \A r \in Requests : Checked(r) => req[r].now = clock
    BY <1>3 DEF Tick, Typed, GatewayTypeOK, LimitTypeOK
  <2>2. LimitTypeOK' /\ AccountTypeOK' /\ Registered' = Registered
    BY <2>1, LimitAssumption
       DEF Typed, GatewayTypeOK, LimitTypeOK, AccountTypeOK, accountVars, Registered
  <2>3. Known'
    BY <2>1, <2>2 DEF Known, Checked, Typed, accountVars
  <2>4. Counted'
    <3>1. ASSUME NEW slot \in Slots
          PROVE  slot[3] < clock - Day => slot[3] < clock' - Day
      BY <2>1, LimitTyped, LimitAssumption
    <3> QED BY <2>1, <3>1 DEF Counted, LimitOf
  <2> QED BY <2>1, <2>2, <2>3, <2>4 DEF Typed, GatewayTypeOK, databaseVars
<1>4. ASSUME NEW p \in Processes, Cool(p), UNCHANGED <<limitVars, accountVars, asked>>
      PROVE  Typed' /\ Counted'
  <2>1. cooling' \subseteq Processes
    BY <1>4 DEF Cool, Typed, GatewayTypeOK
  <2> QED BY <1>4, <2>1, LimitsFrame
          DEF Typed, GatewayTypeOK, Known, AccountTypeOK, accountVars, Registered
<1>5. ASSUME NEW e \in Emails, Disable(e), UNCHANGED <<limitVars, asked>>
      PROVE  Typed' /\ Counted'
  <2>1. users \in [Emails -> {None} \cup User] /\ users[e] \in User
    BY <1>5 DEF Disable, Active, Registered, Typed, GatewayTypeOK, AccountTypeOK
  <2> DEFINE x == [users[e] EXCEPT !.active = FALSE]
  <2>2. x \in User
    BY <2>1 DEF User
  <2>3. users' = [users EXCEPT ![e] = x]
    BY <1>5 DEF Disable
  <2> HIDE DEF x
  <2>4. users' \in [Emails -> {None} \cup User] /\ Registered' = Registered
    BY <2>1, <2>2, <2>3, AccountAssumption DEF Registered
  <2> QED BY <1>5, <2>4, LimitsFrame
          DEF Disable, Typed, GatewayTypeOK, Known, AccountTypeOK, databaseVars
<1>6. CASE UNCHANGED vars
  BY <1>6, LimitsFrame
     DEF vars, databaseVars, accountVars, Typed, GatewayTypeOK, Known, AccountTypeOK, Registered
<1> QED BY <1>1, <1>2, <1>3, <1>4, <1>5, <1>6 DEF Next

(* The variables of the accounts, of the limits and of the breaker keep    *)
(* their types.                                                            *)
THEOREM TypeCorrect == Spec => []GatewayTypeOK
<1>1. Typed /\ Counted => GatewayTypeOK
  BY DEF Typed
<1> QED BY InitTyped, StepTyped, <1>1, PTL DEF Spec

(* check_rate_limit: no store lets through more than the limit of a        *)
(* window, whatever fails and whatever is pruned.                          *)
THEOREM LimitsHold == Spec => []WithinLimit
<1>1. Typed /\ Counted => WithinLimit
  BY DEF Counted, WithinLimit
<1> QED BY InitTyped, StepTyped, <1>1, PTL DEF Spec
-----------------------------------------------------------------------------
(* Who is an administrator                                                 *)

(* As long as no two registrations have counted before either inserted, at *)
(* most one is about to insert, what it has counted still stands, and      *)
(* there is one administrator at most.  Whoever did not count zero came    *)
(* after another, so somebody is.                                          *)
Alone == \A r, q \in Requests : At(r, "create") /\ At(q, "create") => r = q

FirstIsAdmin ==
    /\ Registered # {} => Admins # {}
    /\ \A r \in Requests : At(r, "create") /\ ~req[r].flag => Registered # {}
    /\ ~raced => /\ Alone
                 /\ \A r \in Requests : At(r, "create") /\ req[r].flag => Registered = {}
                 /\ \A d, e \in Admins : d = e

(* A user who is no administrator has run a job only if somebody has been  *)
(* disabled, which nobody undoes.                                          *)
JobsByAdmins == \/ ran \subseteq Admins
                \/ \E e \in Registered : ~users[e].active

Governed == Typed /\ Counted /\ FirstIsAdmin /\ JobsByAdmins

\* At first nobody is registered.
LEMMA InitGoverned == Init => Governed
<1> SUFFICES ASSUME Init PROVE Governed
  OBVIOUS
<1>1. Registered = {} /\ Admins = {} /\ ran = {} /\ \A r \in Requests : ~At(r, "create")
  BY DEF Init, AccountInit, Registered, Admins, At
<1> QED BY <1>1, InitTyped DEF Governed, FirstIsAdmin, Alone, JobsByAdmins

\* Steps that add no user and bring no request to its insertion.
LEMMA NobodyNew ==
    ASSUME Governed, UNCHANGED <<users, raced>>, ran' \subseteq ran \cup Admins,
           \A r \in Requests : At(r, "create")' => At(r, "create") /\ req'[r] = req[r]
    PROVE  FirstIsAdmin' /\ JobsByAdmins'
<1>1. Registered' = Registered /\ Admins' = Admins
  BY DEF Registered, Admins
<1>2. FirstIsAdmin'
  BY <1>1 DEF Governed, FirstIsAdmin, Alone
<1>3. JobsByAdmins'
  BY <1>1 DEF Governed, JobsByAdmins
<1> QED BY <1>2, <1>3

\* The insertion of a user, which may be the last thing a failing database does.
LEMMA InsertGoverned ==
    ASSUME Governed, NEW r \in Requests, At(r, "create"), users' = WithUser(r), Answer(r),
           UNCHANGED <<ran, raced>>
    PROVE  FirstIsAdmin' /\ JobsByAdmins'
<1> DEFINE who == req[r].who
<1>1. /\ users' \in [Emails -> {None} \cup User] /\ Registered' = Registered \cup {who}
      /\ \A e \in Registered : users'[e] = users[e]
      /\ who \in Emails /\ req[r].flag \in BOOLEAN
      /\ who \notin Registered => users'[who] = [admin |-> req[r].flag, active |-> TRUE]
  BY UserAdded DEF Governed
<1>2. Admins' = Admins \cup {e \in {who} : who \notin Registered /\ req[r].flag}
  BY <1>1 DEF Admins
<1>3. \A q \in Requests : At(q, "create")' => q # r /\ At(q, "create") /\ req'[q] = req[q]
  BY DEF Answer, Governed, Typed, GatewayTypeOK, AccountTypeOK, At
<1>4. Admins' # {}
  <2>1. CASE req[r].flag /\ who \notin Registered
    BY <1>2, <2>1
  <2>2. CASE ~(req[r].flag /\ who \notin Registered)
    BY <1>1, <1>2, <2>2 DEF Governed, FirstIsAdmin
  <2> QED BY <2>1, <2>2
<1>5. ASSUME ~raced
      PROVE  Alone' /\ \A d, e \in Admins' : d = e
  <2>1. Alone
    BY <1>5 DEF Governed, FirstIsAdmin
  <2>2. \A q \in Requests : ~At(q, "create")'
    BY <1>3, <2>1 DEF Alone
  <2>3. CASE req[r].flag
    <3>1. Registered = {} /\ Admins = {}
      BY <1>5, <2>3 DEF Governed, FirstIsAdmin, Admins
    <3> QED BY <1>2, <2>2, <3>1 DEF Alone
  <2>4. CASE ~req[r].flag
    BY <1>2, <1>5, <2>2, <2>4 DEF Governed, FirstIsAdmin, Alone
  <2> QED BY <1>1, <2>3, <2>4
<1>6. ASSUME ~raced, NEW q \in Requests PROVE ~At(q, "create")'
  <2>1. Alone
    BY <1>6 DEF Governed, FirstIsAdmin
  <2> QED BY <1>3, <2>1 DEF Alone
<1>7. FirstIsAdmin'
  BY <1>1, <1>4, <1>5, <1>6 DEF FirstIsAdmin
<1>8. JobsByAdmins'
  BY <1>1, <1>2 DEF Governed, JobsByAdmins
<1> QED BY <1>7, <1>8

\* Only one who counted no users goes on as the first.
LEMMA CountGoverned ==
    ASSUME Governed, NEW r \in Requests, CountUsers(r)
    PROVE  FirstIsAdmin' /\ JobsByAdmins'
<1>1. CASE req[r].flag
  <2>1. \A q \in Requests : At(q, "create")' => At(q, "create") /\ req'[q] = req[q]
    BY <1>1 DEF CountUsers, Answer, Governed, Typed, GatewayTypeOK, AccountTypeOK, At
  <2> QED BY <1>1, <2>1, NobodyNew DEF CountUsers
<1>2. CASE ~req[r].flag
  <2>1. /\ req' = [req EXCEPT ![r] = [req[r] EXCEPT !.stage = "create", !.flag = (Registered = {})]]
        /\ raced' = (raced \/ \E q \in Requests : At(q, "create"))
        /\ UNCHANGED <<users, ran>>
    BY <1>2 DEF CountUsers
  <2>2. Registered' = Registered /\ Admins' = Admins
    BY <2>1 DEF Registered, Admins
  <2>3. req[r] \in Request
    BY DEF CountUsers, Asks, At, Governed, Typed, GatewayTypeOK, AccountTypeOK
  <2>4. /\ req'[r] = [req[r] EXCEPT !.stage = "create", !.flag = (Registered = {})]
        /\ \A q \in Requests \ {r} : req'[q] = req[q]
    BY <2>1 DEF Governed, Typed, GatewayTypeOK, AccountTypeOK
  <2>5. req'[r].flag = (Registered = {})
    BY <2>3, <2>4 DEF Request
  <2>6. \A q \in Requests : At(q, "create")' /\ ~req'[q].flag => Registered # {}
    BY <2>4, <2>5 DEF Governed, FirstIsAdmin, At
  <2>7. ASSUME ~raced'
        PROVE  /\ Alone'
               /\ \A q \in Requests : At(q, "create")' /\ req'[q].flag => Registered = {}
    <3>1. \A q \in Requests : At(q, "create")' => q = r
      BY <2>1, <2>4, <2>7 DEF At
    <3> QED BY <2>5, <3>1 DEF Alone
  <2>8. FirstIsAdmin'
    BY <2>1, <2>2, <2>6, <2>7 DEF Governed, FirstIsAdmin
  <2> QED BY <2>1, <2>2, <2>8 DEF Governed, JobsByAdmins
<1>3. req[r].flag \in BOOLEAN
  BY DEF CountUsers, Asks, At, Governed, Typed, GatewayTypeOK, AccountTypeOK, Request
<1> QED BY <1>1, <1>2, <1>3

\* The other steps of handlers; the bootstrap clause finds an administrator disabled, or none
\* of its users is let through.
LEMMA HandleGoverned ==
    ASSUME Governed, NEW r \in Requests, Handle(r)
    PROVE  FirstIsAdmin' /\ JobsByAdmins'
<1>1. req \in [Requests -> {None} \cup Request]
  BY DEF Governed, Typed, GatewayTypeOK, AccountTypeOK
<1>2. ASSUME Answer(r)
      PROVE  \A q \in Requests : At(q, "create")' => At(q, "create") /\ req'[q] = req[q]
  BY <1>1, <1>2 DEF Answer, At
<1>3. ASSUME NEW s \in {"admins", "create_key", "revoke_key"}, Goto(r, s), req[r] # None
      PROVE  \A q \in Requests : At(q, "create")' => At(q, "create") /\ req'[q] = req[q]
  <2>1. req'[r] = [req[r] EXCEPT !.stage = s] /\ \A q \in Requests \ {r} : req'[q] = req[q]
    BY <1>1, <1>3 DEF Goto
  <2>2. req'[r].stage = s
    BY <1>1, <1>3, <2>1 DEF Request
  <2> QED BY <1>3, <2>1, <2>2 DEF At
<1>4. CASE LookForUser(r)
  <2>1. /\ req[r] # None /\ req[r] \in Request
        /\ req' = [req EXCEPT ![r] =
            [req[r] EXCEPT !.stage = "count", !.flag = (req[r].who \in Registered)]]
        /\ UNCHANGED <<users, raced, ran>>
    BY <1>1, <1>4 DEF LookForUser, Asks, At
  <2>2. req'[r].stage = "count" /\ \A q \in Requests \ {r} : req'[q] = req[q]
    BY <1>1, <2>1 DEF Request
  <2>3. \A q \in Requests : At(q, "create")' => At(q, "create") /\ req'[q] = req[q]
    BY <2>2 DEF At
  <2> QED BY <2>1, <2>3, NobodyNew
<1>5. CASE CountUsers(r)
  BY <1>5, CountGoverned
<1>6. CASE CreateUser(r)
  BY <1>6, InsertGoverned DEF CreateUser, Asks
<1>7. CASE Login(r) \/ CreateKey(r) \/ RevokeKey(r) \/ Unavailable(r)
  <2>1. Answer(r) /\ UNCHANGED <<users, raced, ran>>
    BY <1>7 DEF Login, CreateKey, RevokeKey, Unavailable
  <2> QED BY <1>2, <2>1, NobodyNew
<1>8. CASE CurrentUser(r)
  <2>1. /\ UNCHANGED <<users, raced>> /\ req[r] # None
        /\ req[r].route \in {"create_key", "revoke_key", "job"}
    BY <1>8 DEF CurrentUser, Asks, At, Governed, Typed, Known
  <2>2. ran' \subseteq ran \cup Admins
    BY <1>8 DEF CurrentUser, Active, Admins
  <2>3. CASE Answer(r)
    BY <1>2, <2>1, <2>2, <2>3, NobodyNew
  <2>4. CASE Goto(r, "admins")
    <3>1. \A q \in Requests : At(q, "create")' => At(q, "create") /\ req'[q] = req[q]
      BY <1>3, <2>1, <2>4
    <3> QED BY <2>1, <2>2, <3>1, NobodyNew
  <2>5. CASE req[r].route # "job" /\ Goto(r, req[r].route)
    <3>1. req[r].route \in {"admins", "create_key", "revoke_key"}
      BY <2>1, <2>5
    <3>2. \A q \in Requests : At(q, "create")' => At(q, "create") /\ req'[q] = req[q]
      BY <1>3, <2>1, <2>5, <3>1
    <3> QED BY <2>1, <2>2, <3>2, NobodyNew
  <2> QED BY <1>8, <2>3, <2>4, <2>5 DEF CurrentUser
<1>9. CASE CountAdmins(r)
  <2>1. UNCHANGED <<users, raced>> /\ Answer(r) /\ req[r].who \in Registered
    BY <1>9 DEF CountAdmins, Asks, At, Governed, Typed, Known
  <2>2. CASE \E e \in Admins : users[e].active
    <3>1. ran' = ran
      BY <1>9, <2>2 DEF CountAdmins
    <3> QED BY <1>2, <2>1, <3>1, NobodyNew
  <2>3. CASE ~\E e \in Admins : users[e].active
    <3>1. PICK e \in Admins : ~users[e].active
      BY <2>1, <2>3 DEF Governed, FirstIsAdmin
    <3>2. JobsByAdmins'
      BY <2>1, <3>1 DEF JobsByAdmins, Admins, Registered
    <3>3. Registered' = Registered /\ Admins' = Admins
      BY <2>1 DEF Registered, Admins
    <3>4. FirstIsAdmin'
      BY <1>2, <2>1, <3>3 DEF Governed, FirstIsAdmin, Alone
    <3> QED BY <3>2, <3>4
  <2> QED BY <2>2, <2>3
<1>10. CASE DatabaseFails(r)
  <2>1. /\ Answer(r) /\ UNCHANGED <<raced, ran>>
        /\ users' = users \/ (At(r, "create") /\ users' = WithUser(r))
    BY <1>10 DEF DatabaseFails
  <2>2. CASE users' = users
    BY <1>2, <2>1, <2>2, NobodyNew
  <2>3. CASE At(r, "create") /\ users' = WithUser(r)
    BY <2>1, <2>3, InsertGoverned
  <2> QED BY <2>1, <2>2, <2>3
<1> QED BY <1>4, <1>5, <1>6, <1>7, <1>8, <1>9, <1>10 DEF Handle

\* Every step of the gateway.
LEMMA StepGoverned == Governed /\ [Next]_vars => Governed'
<1> SUFFICES ASSUME Governed, [Next]_vars PROVE FirstIsAdmin' /\ JobsByAdmins'
  BY StepTyped DEF Governed
<1>1. req \in [Requests -> {None} \cup Request] /\ users \in [Emails -> {None} \cup User]
  BY DEF Governed, Typed, GatewayTypeOK, AccountTypeOK
<1>2. ASSUME NEW r \in Requests, NEW p \in Processes,
             NEW route \in Routes, NEW who \in {None} \cup Emails, NEW key \in {None} \cup Keys,
             NEW cred, Arrive(r, p, route, cred, who, key)
      PROVE  FirstIsAdmin' /\ JobsByAdmins'
  <2> DEFINE x == [stage |-> "auth", route |-> route, proc |-> p, cred |-> cred,
                   who |-> who, key |-> key, now |-> 0, flag |-> FALSE]
  <2>1. req' = [req EXCEPT ![r] = x] /\ UNCHANGED <<users, raced, ran>>
    BY <1>2 DEF Arrive
  <2>2. x.stage = "auth"
    OBVIOUS
  <2> HIDE DEF x
  <2>3. \A q \in Requests : At(q, "create")' => At(q, "create") /\ req'[q] = req[q]
    BY <1>1, <2>1, <2>2 DEF At
  <2> QED BY <2>1, <2>3, NobodyNew
<1>3. ASSUME NEW r \in Requests, Serve(r)
      PROVE  FirstIsAdmin' /\ JobsByAdmins'
  <2>1. ASSUME UNCHANGED <<users, raced, ran>>,
               Kept(r), req'[r] # None => req'[r].stage # "create"
        PROVE  FirstIsAdmin' /\ JobsByAdmins'
    <3>1. \A q \in Requests : At(q, "create")' => At(q, "create") /\ req'[q] = req[q]
      BY <2>1 DEF Kept, MovesOnly, At
    <3> QED BY <2>1, <3>1, NobodyNew
  <2>2. CASE Authenticate(r, clock)
    <3>1. req'[r] # None => req'[r].stage = "minute"
      BY <1>1, <2>2 DEF Authenticate, At, Answer, Request
    <3> QED BY <2>1, <2>2, <3>1, AuthenticateKeeps DEF Governed, Authenticate
  <2>3. CASE CheckMinute(r)
    <3>1. req'[r] # None => req'[r].stage = "day"
      BY <1>1, <2>3 DEF CheckMinute, At, Answer, Request
    <3> QED BY <2>1, <2>3, <3>1, CheckMinuteKeeps DEF Governed, CheckMinute
  <2>4. CASE CheckDay(r)
    <3>1. req'[r] # None => req'[r].stage # "create"
      <4>1. CASE Answer(r)
        BY <1>1, <4>1 DEF Answer
      <4>2. CASE Goto(r, Entry(req[r].route))
        BY <1>1, <2>4, <4>2 DEF CheckDay, At, Goto, Entry, Request
      <4> QED BY <2>4, <4>1, <4>2 DEF CheckDay
    <3> QED BY <2>1, <2>4, <3>1, CheckDayKeeps DEF Governed, CheckDay
  <2>5. CASE Handle(r)
    BY <2>5, HandleGoverned
  <2> QED BY <1>3, <2>2, <2>3, <2>4, <2>5 DEF Serve
<1>4. CASE UNCHANGED accountVars
  BY <1>4, NobodyNew DEF accountVars, At
<1>5. ASSUME NEW e \in Emails, Disable(e)
      PROVE  FirstIsAdmin' /\ JobsByAdmins'
  <2> DEFINE x == [users[e] EXCEPT !.active = FALSE]
  <2>1. users[e] \in User /\ UNCHANGED <<req, ran, raced>>
    BY <1>1, <1>5 DEF Disable, Active, Registered
  <2>2. x \in User /\ x.admin = users[e].admin /\ ~x.active /\ x # None
    <3>1. x \in User /\ x.admin = users[e].admin /\ ~x.active
      BY <2>1 DEF User
    <3> HIDE DEF x
    <3> QED BY <3>1, AccountAssumption
  <2>3. users' = [users EXCEPT ![e] = x]
    BY <1>5 DEF Disable
  <2> HIDE DEF x
  <2>4. Registered' = Registered
    BY <1>1, <2>1, <2>2, <2>3, AccountAssumption DEF Registered
  <2>5. Admins' = Admins
    BY <1>1, <2>2, <2>3, <2>4 DEF Admins
  <2>6. JobsByAdmins'
    BY <1>1, <2>1, <2>2, <2>3, <2>4, AccountAssumption DEF JobsByAdmins, Registered
  <2>7. FirstIsAdmin'
    BY <2>1, <2>4, <2>5 DEF Governed, FirstIsAdmin, Alone, At
  <2> QED BY <2>6, <2>7
<1> QED BY <1>2, <1>3, <1>4, <1>5 DEF Next, vars, accountVars

\* A set whose members are all the same has one member at most.
LEMMA AtMostOne ==
    ASSUME NEW S, \A d, e \in S : d = e
    PROVE  Cardinality(S) \in {0, 1}
<1>1. CASE S = {}
  BY <1>1, FS_EmptySet
<1>2. CASE S # {}
  <2>1. PICK d \in S : S = {d}
    BY <1>2
  <2> QED BY <2>1, FS_Singleton
<1> QED BY <1>1, <1>2

(* register: the first account is an administrator, and a second one only  *)
(* where two registrations had both counted before either inserted.        *)
THEOREM FirstIsOnlyAdmin == Spec => []OneAdmin
<1>1. Governed => OneAdmin
  BY AtMostOne DEF Governed, FirstIsAdmin, OneAdmin
<1> QED BY InitGoverned, StepGoverned, <1>1, PTL DEF Spec

(* require_admin: its bootstrap clause lets nobody else run a job, unless  *)
(* somebody has been disabled.                                             *)
THEOREM JobsNeedAdmins == Spec => []OnlyAdminsRunJobs
<1>1. Governed => OnlyAdminsRunJobs
  BY DEF Governed, JobsByAdmins, OnlyAdminsRunJobs
<1> QED BY InitGoverned, StepGoverned, <1>1, PTL DEF Spec
=============================================================================
