----------------------------- MODULE RateLimit -----------------------------
(***************************************************************************)
(* check_rate_limit: requests are counted in fixed windows of a minute and *)
(* of a day, in Postgres or, while that is away, in the memory of the API  *)
(* process that asks.  The actions are steps of one check; the module that *)
(* uses them says which request is checked and what follows.               *)
(*                                                                         *)
(* Data abstracted: the clock counts minutes, a day is Day of them, and a  *)
(* bucket is the kind of key a request is counted under (one client of     *)
(* each kind).  Headers are left out.                                      *)
(***************************************************************************)
EXTENDS AccountDatabase

CONSTANTS Buckets,    \* "ip", "key" and "auth" in middleware.py
          Limit,      \* per bucket and kind of window; 0 is no limit
          Day,        \* minutes of a day
          MaxKeys,    \* _MEMORY_MAX_KEYS
          MaxClock    \* bound on the clock

Kinds == {"m", "d"}
Postgres == "postgres"
Stores == Processes \cup {Postgres}
Slots == Buckets \X Kinds \X (0..MaxClock)

ASSUME LimitAssumption == /\ Limit \in [Buckets -> [Kinds -> Nat]]
                          /\ Day \in Nat \ {0}
                          /\ Postgres \notin Processes
                          /\ MaxKeys \in Nat /\ MaxClock \in Nat

VARIABLES
  clock,
  counts,   \* counts[Postgres]: rate_buckets; counts[p]: _MEMORY of p
  passed    \* history: the checks each store has let through

limitVars == <<clock, counts, passed>>

LimitOf(slot) == Limit[slot[1]][slot[2]]
Truncate(now, kind) == IF kind = "m" THEN now ELSE now - (now % Day)
SlotOf(bucket, kind, now) == <<bucket, kind, Truncate(now, kind)>>
-----------------------------------------------------------------------------
LimitInit ==
    /\ clock = 0
    /\ counts = [store \in Stores |-> [slot \in Slots |-> 0]]
    /\ passed = [store \in Stores |-> [slot \in Slots |-> 0]]

\* Mutant: the two days are forgotten.
PrunedAtOnce(table, now) ==
    [slot \in Slots |-> IF slot[3] < now THEN 0 ELSE table[slot]]

\* Both prune what began more than two days before the check.
Pruned(table, now) ==
    [slot \in Slots |-> IF slot[3] < now - 2 * Day THEN 0 ELSE table[slot]]

\* The upsert of _db_check: one more while fewer than the limit are counted.
Upsert(table, slot) ==
    IF table[slot] < LimitOf(slot) THEN [table EXCEPT ![slot] = @ + 1] ELSE table

Let(store, slot) == passed' = [passed EXCEPT ![store][slot] = @ + 1]

CountInDatabase(p, slot, now, ok) ==
    /\ p \notin cooling
    /\ LET table == Pruned(counts[Postgres], now)
       IN  /\ ok = (table[slot] < LimitOf(slot))
           /\ counts' = [counts EXCEPT ![Postgres] = Upsert(table, slot)]
    /\ IF ok THEN Let(Postgres, slot) ELSE passed' = passed
    /\ UNCHANGED <<clock, cooling, faults>>

MemoryTable(p, now) ==
    IF Cardinality({slot \in Slots : counts[p][slot] > 0}) > MaxKeys
    THEN Pruned(counts[p], now)
    ELSE counts[p]

\* _memory_check, beside the table the server is left with.
Remember(p, slot, now, served, ok) ==
    LET table == MemoryTable(p, now)
    IN  /\ ok = (table[slot] < LimitOf(slot))
        /\ counts' = [counts EXCEPT ![p] = Upsert(table, slot), ![Postgres] = served]
        /\ IF ok THEN Let(p, slot) ELSE passed' = passed

\* The breaker of db.py is open: the database is not asked.
CountInMemory(p, slot, now, ok) ==
    /\ p \in cooling
    /\ Remember(p, slot, now, counts[Postgres], ok)
    /\ UNCHANGED <<clock, cooling, faults>>

\* The statement fails, or its commit is not answered (the failing server
\* has then counted): the check is made again in memory.
CountAfterFailure(p, slot, now, ok) ==
    /\ Failure(p)
    /\ \E served \in {counts[Postgres], Upsert(Pruned(counts[Postgres], now), slot)} :
        Remember(p, slot, now, served, ok)
    /\ clock' = clock

\* The answer to one check: limits of zero are not checked.
CheckRateLimit(p, slot, now, ok) ==
    \/ LimitOf(slot) = 0 /\ ok /\ UNCHANGED <<limitVars, databaseVars>>
    \/ /\ LimitOf(slot) > 0
       /\ \/ CountInDatabase(p, slot, now, ok)
          \/ CountInMemory(p, slot, now, ok)
          \/ CountAfterFailure(p, slot, now, ok)

\* A check ends within a minute of its stamp (it waits for the database some
\* seconds at most): settled says that none in progress is older than now.
Tick(settled) ==
    /\ settled
    /\ clock < MaxClock
    /\ clock' = clock + 1
    /\ UNCHANGED <<counts, passed, databaseVars>>
-----------------------------------------------------------------------------
(* Properties                                                              *)

LimitTypeOK ==
    /\ clock \in 0..MaxClock
    /\ counts \in [Stores -> [Slots -> Nat]]
    /\ passed \in [Stores -> [Slots -> Nat]]

(* What clients get of a window is bounded whatever the database does, and *)
(* whatever is pruned meanwhile: the limit once from Postgres, and once    *)
(* more from each process that had to count in its memory.                 *)
WithinLimit ==
    \A slot \in Slots : LimitOf(slot) > 0 =>
        \A store \in Stores : passed[store][slot] <= LimitOf(slot)
=============================================================================
