-------------------------- MODULE AccountDatabase --------------------------
(***************************************************************************)
(* The breaker of db.py: what an API process remembers of the last failure *)
(* of Postgres.  get_pool raises while it is fresh, so nothing is asked of *)
(* the server; every use of the database is an action with p \notin        *)
(* cooling, and may end in Failure(p) instead.                             *)
(*                                                                         *)
(* Data abstracted: the retry delay is any time.                           *)
(***************************************************************************)
EXTENDS Integers, FiniteSets

CONSTANTS Processes,  \* API processes
          MaxFaults   \* bound on failures of the database

ASSUME DatabaseAssumption == MaxFaults \in Nat

VARIABLES
  cooling,  \* the processes whose _last_error is fresh
  faults    \* failures so far

databaseVars == <<cooling, faults>>

DatabaseInit == cooling = {} /\ faults = 0

\* An OperationalError or a PoolTimeout: _mark_failed.
Failure(p) ==
    /\ p \notin cooling
    /\ faults < MaxFaults
    /\ faults' = faults + 1
    /\ cooling' = cooling \cup {p}

\* The delay is over, or a request that was already under way when another
\* failed has succeeded since and cleared _last_error.
Cool(p) ==
    /\ p \in cooling
    /\ cooling' = cooling \ {p}
    /\ faults' = faults
=============================================================================
