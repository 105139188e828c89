--------------------------- MODULE MCJobScheduler ---------------------------
(***************************************************************************)
(* Two jobs, the scheduler and a thread of the API.                        *)
(***************************************************************************)
EXTENDS JobScheduler, TLC

CONSTANTS compact, health

TwoJobs == {compact, health}
Intervals == compact :> 2 @@ health :> 2
=============================================================================
