---------------------------- MODULE JobScheduler ----------------------------
(***************************************************************************)
(* The interval scheduler and the job routes of the API.  Both run jobs    *)
(* and record the result in scheduler.json: they read the file, fill a     *)
(* temporary file whose name they share, and move it into place.  The      *)
(* scheduler reads the file in every turn of its loop.                     *)
(*                                                                         *)
(* Data abstracted: the clock counts units of the intervals; of a job's    *)
(* entry the time and the count of runs are kept.  What a job does is in   *)
(* the other modules.                                                      *)
(***************************************************************************)
EXTENDS Supervisor, FiniteSets

CONSTANTS Jobs,
          Interval,    \* of each job; 0: the scheduler leaves it alone
          ApiThreads,  \* threads of the API that may run a job
          Empty,       \* a file just truncated
          Garbled,     \* one text written over a longer one
          MaxClock,    \* bound on the clock
          MaxTriggers  \* bound on the jobs run through the API

Scheduler == "scheduler"
Api == "api"
Writers == {Scheduler} \cup ApiThreads
Process(w) == IF w = Scheduler THEN Scheduler ELSE Api

Times == 0..MaxClock
Entry == [at : Times, count : Nat]
Table == [Jobs -> {None} \cup Entry]
Content == {None, Empty, Garbled} \cup Table
Stages == {"run", "ran", "loaded", "open", "filled"}
Hand == [job : Jobs, stage : Stages, at : Times, payload : Table,
         fd : {"tmp", "file", "gone"}]

ASSUME JobAssumption == /\ Interval \in [Jobs -> Nat]
                        /\ {Scheduler, Api} \subseteq Children
                        /\ Scheduler \notin ApiThreads /\ IsFiniteSet(ApiThreads)
                        /\ {None, Empty, Garbled} \cap Table = {}
                        /\ Cardinality({None, Empty, Garbled}) = 3
                        /\ None \notin Entry \cup Hand
                        /\ MaxClock \in Nat /\ MaxTriggers \in Nat

VARIABLES
  clock,
  file,      \* scheduler.json
  tmp,       \* scheduler.tmp
  hand,      \* the job each writer runs or records
  next,      \* next_run_at, in the memory of the scheduler
  due,       \* the jobs it found due and has still to run
  triggers,  \* jobs run through the API so far
  done,      \* history: how often each job has run
  last,      \* history: last scheduled run of each job that was recorded
  slips      \* history: "overlap" of two writers, a "lost" result

schedulerVars == <<clock, file, tmp, hand, next, due, triggers, done, last, slips>>
vars == <<supervisorVars, schedulerVars>>

Blank == [j \in Jobs |-> None]
Init ==
    /\ SupervisorInit
    /\ clock = 0
    /\ file = None /\ tmp = None
    /\ hand = [w \in Writers |-> None]
    /\ next = [j \in Jobs |-> 0] /\ due = {}
    /\ triggers = 0
    /\ done = [j \in Jobs |-> 0] /\ last = [j \in Jobs |-> None]
    /\ slips = {}

At(w, stage) == hand[w] # None /\ hand[w].stage = stage
Recording(w) == hand[w] # None /\ hand[w].stage # "run"

\* load_job_state: a file that cannot be parsed is no file.
Loaded == IF file \in Table THEN file ELSE Blank
-----------------------------------------------------------------------------
(* The scheduler's loop                                                    *)

\* Mutant: the file is not read.
HydratedNever == next

\* next_run_at after _hydrate_from_disk.
Hydrated ==
    [j \in Jobs |-> IF Interval[j] > 0 /\ Loaded[j] # None
                    THEN Loaded[j].at + Interval[j] ELSE next[j]]

\* Mutant: a job is due at its time and not later.
LookOnTime ==
    /\ Scheduler \in up /\ ~stopping
    /\ hand[Scheduler] = None /\ due = {}
    /\ next' = Hydrated
    /\ due' = {j \in Jobs : Interval[j] > 0 /\ Hydrated[j] = clock}
    /\ UNCHANGED <<clock, file, tmp, hand, triggers, done, last, slips, supervisorVars>>

Look ==
    /\ Scheduler \in up /\ ~stopping
    /\ hand[Scheduler] = None /\ due = {}
    /\ next' = Hydrated
    /\ due' = {j \in Jobs : Interval[j] > 0 /\ Hydrated[j] <= clock}
    /\ UNCHANGED <<clock, file, tmp, hand, triggers, done, last, slips, supervisorVars>>

Begin(w, j) ==
    hand' = [hand EXCEPT ![w] = [job |-> j, stage |-> "run", at |-> 0,
                                 payload |-> Blank, fd |-> "gone"]]

StartDue(j) ==
    /\ Scheduler \in up /\ ~stopping
    /\ hand[Scheduler] = None /\ j \in due
    /\ Begin(Scheduler, j)
    /\ due' = due \ {j}
    /\ UNCHANGED <<clock, file, tmp, next, triggers, done, last, slips, supervisorVars>>

\* POST /v1/pipeline/jobs/trigger and /v1/pipeline/jobs/{job}/run
Trigger(w, j) ==
    /\ w \in ApiThreads /\ hand[w] = None
    /\ Api \in up /\ ~stopping
    /\ triggers < MaxTriggers /\ triggers' = triggers + 1
    /\ Begin(w, j)
    /\ UNCHANGED <<clock, file, tmp, next, due, done, last, slips, supervisorVars>>
-----------------------------------------------------------------------------
(* run_job and write_job_result                                            *)

\* ran_at is taken when the job ends, well or not.
EndJob(w) ==
    /\ At(w, "run")
    /\ hand' = [hand EXCEPT ![w].stage = "ran", ![w].at = clock]
    /\ done' = [done EXCEPT ![hand[w].job] = @ + 1]
    /\ slips' = slips \cup {s \in {"overlap"} : \E v \in Writers \ {w} : Recording(v)}
    /\ UNCHANGED <<clock, file, tmp, next, due, triggers, last, supervisorVars>>

Count(table, j) == IF table[j] = None THEN 0 ELSE table[j].count

\* Mutant: the other jobs' entries are not carried over.
LoadAlone(w) ==
    /\ At(w, "ran")
    /\ LET j == hand[w].job IN
       hand' = [hand EXCEPT ![w].stage = "loaded",
            ![w].payload = [Blank EXCEPT ![j] = [at |-> hand[w].at, count |-> Count(Loaded, j) + 1]]]
    /\ UNCHANGED <<clock, file, tmp, next, due, triggers, done, last, slips, supervisorVars>>

Load(w) ==
    /\ At(w, "ran")
    /\ LET j == hand[w].job IN
       hand' = [hand EXCEPT ![w].stage = "loaded",
            ![w].payload = [Loaded EXCEPT ![j] = [at |-> hand[w].at, count |-> Count(Loaded, j) + 1]]]
    /\ UNCHANGED <<clock, file, tmp, next, due, triggers, done, last, slips, supervisorVars>>

\* Mutant: a temporary file that was left behind is removed instead.
OpenTmpOnce(w) ==
    /\ At(w, "loaded")
    /\ tmp' = IF tmp = None THEN Empty ELSE None
    /\ hand' = [hand EXCEPT ![w].stage = "open", ![w].fd = IF tmp = None THEN "tmp" ELSE "gone"]
    /\ UNCHANGED <<clock, file, next, due, triggers, done, last, slips, supervisorVars>>

\* write_text opens the shared name, which truncates what is there ...
OpenTmp(w) ==
    /\ At(w, "loaded")
    /\ tmp' = Empty
    /\ hand' = [hand EXCEPT ![w].stage = "open", ![w].fd = "tmp"]
    /\ UNCHANGED <<clock, file, next, due, triggers, done, last, slips, supervisorVars>>

\* ... and writes from its start into whatever the descriptor has become: a
\* longer text that another has put there keeps its tail.
Over(content, payload) == {payload} \cup {c \in {Garbled} : content # Empty}

Fill(w) ==
    /\ At(w, "open")
    /\ tmp' \in IF hand[w].fd = "tmp" THEN Over(tmp, hand[w].payload) ELSE {tmp}
    /\ file' \in IF hand[w].fd = "file" THEN Over(file, hand[w].payload) ELSE {file}
    /\ hand' = [hand EXCEPT ![w].stage = "filled"]
    /\ UNCHANGED <<clock, next, due, triggers, done, last, slips, supervisorVars>>

\* os.replace: descriptors open on the temporary file follow it.
Moved(fd) == CASE fd = "tmp" -> "file" [] fd = "file" -> "gone" [] OTHER -> fd

Replace(w) ==
    LET j == hand[w].job IN
    /\ At(w, "filled") /\ tmp # None
    /\ file' = tmp /\ tmp' = None
    /\ hand' = [v \in Writers |-> IF v = w \/ hand[v] = None THEN (IF v = w THEN None ELSE hand[v])
                                  ELSE [hand[v] EXCEPT !.fd = Moved(@)]]
    /\ IF w = Scheduler
       THEN /\ next' = [next EXCEPT ![j] = IF Interval[j] > 0 THEN clock + Interval[j] ELSE @]
            /\ last' = [last EXCEPT ![j] = hand[w].at]
       ELSE UNCHANGED <<next, last>>
    /\ UNCHANGED <<clock, due, triggers, done, slips, supervisorVars>>

\* What a process leaves when it ends: its writers are gone.
Abandon(p) ==
    /\ hand' = [w \in Writers |-> IF Process(w) = p THEN None ELSE hand[w]]
    /\ due' = IF p = Scheduler THEN {} ELSE due
    /\ slips' = slips \cup {s \in {"lost"} : \E w \in Writers : Process(w) = p /\ Recording(w)}

\* FileNotFoundError: another writer has moved the file.  The API answers
\* 500; nothing in run_forever catches it, and the scheduler ends.
ReplaceFails(w) ==
    /\ At(w, "filled") /\ tmp = None
    /\ IF w = Scheduler
       THEN Abandon(Scheduler) /\ up' = up \ {Scheduler}
       ELSE /\ hand' = [hand EXCEPT ![w] = None]
            /\ UNCHANGED <<due, slips, up>>
    /\ UNCHANGED <<clock, file, tmp, next, triggers, done, last,
                   stopping, cause, status, signalled, deaths>>
-----------------------------------------------------------------------------
(* Processes                                                               *)

\* Writing the file takes no time that an interval could tell.
Tick ==
    /\ clock < MaxClock
    /\ ~\E w \in Writers : hand[w] # None /\ hand[w].stage \in {"loaded", "open", "filled"}
    /\ clock' = clock + 1
    /\ UNCHANGED <<file, tmp, hand, next, due, triggers, done, last, slips, supervisorVars>>

\* A child crashes.
Die(c) ==
    /\ c \in up /\ status = None
    /\ deaths < MaxDeaths /\ deaths' = deaths + 1
    /\ up' = up \ {c}
    /\ Abandon(c)
    /\ UNCHANGED <<clock, file, tmp, next, triggers, done, last, stopping, cause, status, signalled>>

\* After SIGTERM the scheduler ends between two jobs and the API after its
\* requests; whoever takes too long is killed.
EndsInTime(c) ==
    /\ stopping /\ c \in up
    /\ \A w \in Writers : Process(w) = c => hand[w] = None
    /\ up' = up \ {c}
    /\ Abandon(c)
    /\ UNCHANGED <<clock, file, tmp, next, triggers, done, last,
                   stopping, cause, status, signalled, deaths>>

KillRest ==
    /\ stopping /\ up # {}
    /\ up' = {}
    /\ hand' = [w \in Writers |-> None] /\ due' = {}
    /\ slips' = slips \cup {s \in {"lost"} : \E w \in Writers : Recording(w)}
    /\ UNCHANGED <<clock, file, tmp, next, triggers, done, last,
                   stopping, cause, status, signalled, deaths>>

\* _build_specs: every enabled job is due until the file says otherwise.
Restart ==
    /\ Restarted
    /\ next' = [j \in Jobs |-> clock]
    /\ UNCHANGED <<clock, file, tmp, hand, due, triggers, done, last, slips>>

Record(w) == EndJob(w) \/ Load(w) \/ OpenTmp(w) \/ Fill(w) \/ Replace(w) \/ ReplaceFails(w)

Supervise ==
    \/ \E code \in {0, 1} : FindDead(code) /\ UNCHANGED schedulerVars
    \/ Exit /\ UNCHANGED schedulerVars
    \/ KillRest

Next ==
    \/ Look
    \/ \E j \in Jobs : StartDue(j)
    \/ \E w \in ApiThreads, j \in Jobs : Trigger(w, j)
    \/ \E w \in Writers : Record(w)
    \/ Tick
    \/ Supervise
    \/ \E c \in Children : Die(c) \/ EndsInTime(c)
    \/ Signal /\ UNCHANGED schedulerVars
    \/ Restart

Spec == Init /\ [][Next]_vars

\* Jobs end, processes run, and the deadline of _stop passes; nobody has to
\* press a button, and nothing has to die or be started again.
FairSpec ==
    /\ Spec
    /\ WF_vars(Look)
    /\ \A j \in Jobs : WF_vars(StartDue(j))
    /\ \A w \in Writers : WF_vars(Record(w))
    /\ WF_vars(Supervise)
-----------------------------------------------------------------------------
(* Properties                                                              *)

TypeOK ==
    /\ SupervisorTypeOK
    /\ clock \in Times
    /\ file \in Content /\ tmp \in Content
    /\ hand \in [Writers -> {None} \cup Hand]
    /\ next \in [Jobs -> Nat] /\ due \subseteq {j \in Jobs : Interval[j] > 0}
    /\ triggers \in 0..MaxTriggers
    /\ done \in [Jobs -> Nat] /\ last \in [Jobs -> {None} \cup Times]
    /\ slips \subseteq {"overlap", "lost"}
    /\ \A w \in Writers : hand[w] # None => Process(w) \in up

(* The counts of scheduler.json never exceed the runs, and as long as no   *)
(* two writers record at once and nobody is stopped while recording, they  *)
(* are exact.                                                              *)
CountsAreRuns ==
    \A j \in Jobs :
        LET open == Cardinality({w \in Writers : Recording(w) /\ hand[w].job = j})
        IN  /\ Count(Loaded, j) <= done[j]
            /\ slips = {} => Count(Loaded, j) + open = done[j]

(* A lost race for the temporary file, and nothing else, makes the         *)
(* recording of a result fail.                                             *)
OnlyOverlapFails == \A w \in Writers : At(w, "filled") /\ tmp = None => "overlap" \in slips

(* The scheduler does not start a job again before its interval is over,   *)
(* across restarts and whatever the API runs, unless two writers recorded  *)
(* at once and one put back what the other had replaced.                   *)
NotTooSoon ==
    [][\A j \in Jobs :
        /\ hand[Scheduler] = None /\ hand'[Scheduler] # None /\ hand'[Scheduler].job = j
        /\ last[j] # None /\ "overlap" \notin slips
        => clock >= last[j] + Interval[j]]_vars

(* An overdue job is run, or the service goes down.                        *)
Overdue(j) == Scheduler \in up /\ Interval[j] > 0 /\ Hydrated[j] <= clock
DueJobsRun == \A j \in Jobs : Overdue(j) ~> ~Overdue(j)

(* The death of one process ends the service, with a status that says so,  *)
(* unless it has been told to stop.                                        *)
ServiceEnds == (up # Children /\ ~signalled) ~> (status = 1 \/ signalled)
=============================================================================
