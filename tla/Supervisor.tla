----------------------------- MODULE Supervisor -----------------------------
(***************************************************************************)
(* prod.main: it starts the processes of the service, watches them, and    *)
(* ends them all when one dies or when it is told to stop.  The platform   *)
(* starts it again.                                                        *)
(*                                                                         *)
(* Data abstracted: an exit code is zero or one, the twenty seconds of     *)
(* grace are any time.  The model begins when the signal handlers stand.   *)
(***************************************************************************)
EXTENDS Naturals

CONSTANTS Children,  \* the processes it starts
          None,
          MaxDeaths  \* bound on deaths and signals

ASSUME SupervisorAssumption == MaxDeaths \in Nat /\ None \notin {0, 1}

VARIABLES
  up,        \* the children that run
  stopping,  \* the flag of the same name: every child has its SIGTERM
  cause,     \* code of the child whose death was found; None: a signal
  status,    \* exit status of the supervisor; None: it runs
  signalled, \* history: it was told to stop
  deaths     \* deaths and signals so far

supervisorVars == <<up, stopping, cause, status, signalled, deaths>>

SupervisorInit ==
    /\ up = Children
    /\ stopping = FALSE /\ cause = None /\ status = None
    /\ signalled = FALSE
    /\ deaths = 0

Running == status = None /\ ~stopping

\* SIGTERM or SIGINT: the handler returns at once when stopping already.  It may
\* run just after the loop has found a death, whose code then still counts.
Signal ==
    /\ status = None /\ ~signalled
    /\ deaths < MaxDeaths /\ deaths' = deaths + 1
    /\ signalled' = TRUE
    /\ stopping' = TRUE
    /\ cause' \in {cause} \cup {code \in {1} : ~stopping /\ up # Children}
    /\ UNCHANGED <<up, status>>

\* Mutant: the child's code is passed on as it is.
FindDeadPlain(code) ==
    /\ Running
    /\ up # Children
    /\ stopping' = TRUE
    /\ cause' = IF code = 0 THEN None ELSE code
    /\ UNCHANGED <<up, status, signalled, deaths>>

\* The loop polls the children; code is that of the dead one it finds.
FindDead(code) ==
    /\ Running
    /\ up # Children
    /\ stopping' = TRUE
    /\ cause' = IF code = 0 THEN 1 ELSE code
    /\ UNCHANGED <<up, status, signalled, deaths>>

\* After _stop: SystemExit with the child's code, or the end of main.
Exit ==
    /\ status = None /\ stopping /\ up = {}
    /\ status' = IF cause = None THEN 0 ELSE cause
    /\ UNCHANGED <<up, stopping, cause, signalled, deaths>>

\* External: the platform starts the service again.
Restarted ==
    /\ status # None
    /\ up' = Children
    /\ stopping' = FALSE /\ cause' = None /\ status' = None /\ signalled' = FALSE
    /\ deaths' = deaths

SupervisorTypeOK ==
    /\ up \subseteq Children
    /\ stopping \in BOOLEAN
    /\ cause \in {None, 1} /\ status \in {None, 0, 1}
    /\ signalled \in BOOLEAN
    /\ deaths \in 0..MaxDeaths
    /\ status # None => up = {}
=============================================================================
