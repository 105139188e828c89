------------------------- MODULE JobSchedulerProofs -------------------------
(***************************************************************************)
(* What scheduler.json says of runs, for any jobs, intervals, threads and  *)
(* children, across crashes and restarts.                                  *)
(*                                                                         *)
(* The invariant comes in layers.  Typed: every variable has its kind.     *)
(* Solo: as long as no two writers have recorded at once, the one that     *)
(* records has its own temporary file and has loaded what the file still   *)
(* says.  Past: no entry is of the future.  Bounded: no table counts more  *)
(* runs than have ended and been loaded.  Exact: nothing is missing.       *)
(* Apart: what is due is due by what was last recorded.                    *)
(***************************************************************************)
EXTENDS JobScheduler, FiniteSetTheorems, TLAPS

HandTyped == hand \in [Writers -> {None} \cup Hand]
Alive == \A w \in Writers : hand[w] # None => Process(w) \in up
FilesTyped == clock \in Times /\ file \in Content /\ tmp \in Content
LoopTyped ==
    /\ next \in [Jobs -> Nat] /\ due \subseteq {j \in Jobs : Interval[j] > 0}
    /\ triggers \in 0..MaxTriggers
    /\ done \in [Jobs -> Nat] /\ last \in [Jobs -> {None} \cup Times]
    /\ slips \subseteq {"overlap", "lost"}
Typed == SupervisorTypeOK /\ HandTyped /\ Alive /\ FilesTyped /\ LoopTyped

(* TypeOK, part by part.                                                   *)
LEMMA TypeParts == TypeOK <=> Typed
<1> QED BY DEF TypeOK, Typed, HandTyped, Alive, FilesTyped, LoopTyped
-----------------------------------------------------------------------------
(* Constants: what the clock counts, and what a file may hold.             *)
LEMMA Constants ==
    /\ MaxClock \in Nat /\ MaxTriggers \in Nat /\ MaxDeaths \in Nat
    /\ Interval \in [Jobs -> Nat]
    /\ Scheduler \in Children /\ Api \in Children /\ Scheduler # Api
    /\ None \notin Table /\ Empty \notin Table /\ Garbled \notin Table
    /\ None \notin Hand /\ None \notin Entry
    /\ IsFiniteSet(Writers) /\ Scheduler \in Writers
<1>1. IsFiniteSet(ApiThreads) BY JobAssumption
<1>2. IsFiniteSet(ApiThreads \cup {Scheduler}) BY <1>1, FS_AddElement
<1>3. ApiThreads \cup {Scheduler} = Writers BY DEF Writers
<1>4. IsFiniteSet(Writers) /\ Scheduler \in Writers BY <1>2, <1>3
<1> QED BY <1>4, JobAssumption, SupervisorAssumption DEF Scheduler, Api

(* The marks of a file that is no table differ.                            *)
LEMMA MarksDiffer == None # Empty /\ None # Garbled /\ Empty # Garbled
<1> SUFFICES ASSUME None = Empty \/ None = Garbled \/ Empty = Garbled PROVE FALSE
  OBVIOUS
<1>1. PICK x, y : {None, Empty, Garbled} = {x} \cup {y} OBVIOUS
<1>2. IsFiniteSet({x}) /\ Cardinality({x}) = 1 BY FS_Singleton
<1>3. Cardinality({x} \cup {y}) \in {1, 2} BY <1>2, FS_AddElement
<1>4. Cardinality({None, Empty, Garbled}) = 3 BY JobAssumption
<1> QED BY <1>1, <1>3, <1>4

(* A table that knows nothing is a table.                                  *)
LEMMA BlankTyped == Blank \in Table
<1> QED BY DEF Blank, Table

(* What is read of the file is always a table.                             *)
LEMMA LoadedTyped == Loaded \in Table
<1> QED BY BlankTyped DEF Loaded

(* A table counts in natural numbers.                                      *)
LEMMA CountTyped ==
    ASSUME NEW T \in Table, NEW j \in Jobs
    PROVE  Count(T, j) \in Nat
<1>1. T[j] \in {None} \cup Entry BY DEF Table
<1>2. T[j] # None => T[j].count \in Nat BY <1>1 DEF Entry
<1> QED BY <1>2 DEF Count

(* One entry of a table replaced by another leaves a table.                *)
LEMMA TableWith ==
    ASSUME NEW T \in Table, NEW j \in Jobs, NEW t \in Times, NEW n \in Nat
    PROVE  [T EXCEPT ![j] = [at |-> t, count |-> n]] \in Table
<1> DEFINE e == [at |-> t, count |-> n]
<1>1. e \in {None} \cup Entry BY DEF Entry
<1> HIDE DEF e
<1>2. [T EXCEPT ![j] = e] \in Table BY <1>1 DEF Table
<1> QED BY <1>2 DEF e

(* The fields of a hand.                                                   *)
LEMMA HandFields ==
    ASSUME HandTyped, NEW w \in Writers, hand[w] # None
    PROVE  /\ hand[w] \in Hand
           /\ hand[w].job \in Jobs /\ hand[w].stage \in Stages /\ hand[w].at \in Times
           /\ hand[w].payload \in Table /\ hand[w].fd \in {"tmp", "file", "gone"}
<1>1. hand[w] \in Hand BY DEF HandTyped
<1> QED BY <1>1 DEF Hand
-----------------------------------------------------------------------------
(* Hands                                                                   *)

\* What a writer loads when its turn comes.
Counted(w) == [Loaded EXCEPT ![hand[w].job] =
                  [at |-> hand[w].at, count |-> Count(Loaded, hand[w].job) + 1]]

\* Nobody begins, ends a job or goes on; some hands may be dropped.
Drops ==
    /\ UNCHANGED <<file, tmp, done, last>>
    /\ hand' \in [Writers -> {None} \cup Hand]
    /\ \A w \in Writers : hand'[w] \in {hand[w], None}
    /\ slips \subseteq slips' /\ slips' \subseteq {"overlap", "lost"}
    /\ (\E w \in Writers : Recording(w) /\ hand'[w] = None) => slips' # {}

Starts(w, j) ==
    /\ UNCHANGED <<file, tmp, done, last, clock, slips>>
    /\ hand[w] = None /\ Begin(w, j)

(* A job begun is a hand.                                                  *)
LEMMA BeginTyped ==
    ASSUME HandTyped, NEW w \in Writers, NEW j \in Jobs, Begin(w, j)
    PROVE  HandTyped'
<1> DEFINE h == [job |-> j, stage |-> "run", at |-> 0, payload |-> Blank, fd |-> "gone"]
<1>1. h \in Hand BY BlankTyped, Constants DEF Hand, Stages, Times
<1>2. hand' = [hand EXCEPT ![w] = h] BY DEF Begin
<1> HIDE DEF h
<1> QED BY <1>1, <1>2 DEF HandTyped

(* Stage by stage a hand stays a hand.                                     *)
LEMMA EndJobTyped ==
    ASSUME Typed, NEW w \in Writers, EndJob(w)
    PROVE  HandTyped'
<1>1. hand[w] # None /\ hand' = [hand EXCEPT ![w].stage = "ran", ![w].at = clock]
  BY DEF EndJob, At
<1>2. hand[w] \in Hand /\ clock \in Times BY <1>1, HandFields DEF Typed, FilesTyped
<1>3. [hand[w] EXCEPT !.stage = "ran", !.at = clock] \in Hand BY <1>2 DEF Hand, Stages
<1>4. hand' = [hand EXCEPT ![w] = [hand[w] EXCEPT !.stage = "ran", !.at = clock]]
  BY <1>1 DEF Typed, HandTyped
<1> QED BY <1>3, <1>4 DEF Typed, HandTyped

(* What a writer loads is a table.                                         *)
LEMMA LoadTyped ==
    ASSUME Typed, NEW w \in Writers, Load(w)
    PROVE  /\ HandTyped' /\ hand[w] # None /\ Counted(w) \in Table
           /\ hand' = [hand EXCEPT ![w] = [hand[w] EXCEPT !.stage = "loaded", !.payload = Counted(w)]]
<1>1. hand[w] # None /\ HandTyped BY DEF Load, At, Typed
<1>2. hand' = [hand EXCEPT ![w].stage = "loaded", ![w].payload = Counted(w)]
  BY DEF Load, Counted
<1>3. /\ hand[w] \in Hand /\ hand[w].job \in Jobs /\ hand[w].at \in Times
  BY <1>1, HandFields
<1>4. Count(Loaded, hand[w].job) + 1 \in Nat BY <1>3, LoadedTyped, CountTyped
<1>5. Counted(w) \in Table BY <1>3, <1>4, LoadedTyped, TableWith DEF Counted
<1> HIDE DEF Counted
<1>6. [hand[w] EXCEPT !.stage = "loaded", !.payload = Counted(w)] \in Hand
  BY <1>3, <1>5 DEF Hand, Stages
<1>7. hand' = [hand EXCEPT ![w] = [hand[w] EXCEPT !.stage = "loaded", !.payload = Counted(w)]]
  BY <1>1, <1>2 DEF HandTyped
<1> QED BY <1>1, <1>5, <1>6, <1>7 DEF HandTyped

(* Its copy is opened.                                                     *)
LEMMA OpenTmpTyped ==
    ASSUME Typed, NEW w \in Writers, OpenTmp(w)
    PROVE  /\ HandTyped' /\ hand[w] # None
           /\ hand' = [hand EXCEPT ![w] = [hand[w] EXCEPT !.stage = "open", !.fd = "tmp"]]
<1>1. hand[w] # None /\ HandTyped BY DEF OpenTmp, At, Typed
<1>2. [hand[w] EXCEPT !.stage = "open", !.fd = "tmp"] \in Hand BY <1>1, HandFields DEF Hand, Stages
<1>3. hand' = [hand EXCEPT ![w] = [hand[w] EXCEPT !.stage = "open", !.fd = "tmp"]]
  BY <1>1 DEF OpenTmp, HandTyped
<1> QED BY <1>1, <1>2, <1>3 DEF HandTyped

(* Its copy is filled.                                                     *)
LEMMA FillTyped ==
    ASSUME Typed, NEW w \in Writers, Fill(w)
    PROVE  /\ HandTyped' /\ hand[w] # None
           /\ hand' = [hand EXCEPT ![w] = [hand[w] EXCEPT !.stage = "filled"]]
<1>1. hand[w] # None /\ HandTyped BY DEF Fill, At, Typed
<1>2. [hand[w] EXCEPT !.stage = "filled"] \in Hand BY <1>1, HandFields DEF Hand, Stages
<1>3. hand' = [hand EXCEPT ![w] = [hand[w] EXCEPT !.stage = "filled"]]
  BY <1>1 DEF Fill, HandTyped
<1> QED BY <1>1, <1>2, <1>3 DEF HandTyped

\* After a replacement the others hold what they held, if elsewhere.
LEMMA ReplaceTyped ==
    ASSUME Typed, NEW w \in Writers, Replace(w)
    PROVE  /\ HandTyped' /\ hand[w] # None /\ hand'[w] = None
           /\ \A v \in Writers \ {w} :
                /\ hand'[v] = None <=> hand[v] = None
                /\ hand[v] # None => /\ hand'[v].job = hand[v].job
                                     /\ hand'[v].stage = hand[v].stage
                                     /\ hand'[v].at = hand[v].at
                                     /\ hand'[v].payload = hand[v].payload
<1>1. hand[w] # None /\ HandTyped BY DEF Replace, At, Typed
<1>2. hand' = [v \in Writers |-> IF v = w \/ hand[v] = None
                                 THEN (IF v = w THEN None ELSE hand[v])
                                 ELSE [hand[v] EXCEPT !.fd = Moved(@)]]
  BY DEF Replace
<1>3. ASSUME NEW v \in Writers, hand[v] # None
      PROVE  /\ [hand[v] EXCEPT !.fd = Moved(@)] \in Hand
             /\ [hand[v] EXCEPT !.fd = Moved(@)].job = hand[v].job
             /\ [hand[v] EXCEPT !.fd = Moved(@)].stage = hand[v].stage
             /\ [hand[v] EXCEPT !.fd = Moved(@)].at = hand[v].at
             /\ [hand[v] EXCEPT !.fd = Moved(@)].payload = hand[v].payload
  <2>1. hand[v] \in Hand BY <1>1, <1>3, HandFields
  <2>2. Moved(hand[v].fd) \in {"tmp", "file", "gone"} BY <2>1 DEF Hand, Moved
  <2> HIDE DEF Moved
  <2> QED BY <2>1, <2>2 DEF Hand
<1>4. \A v \in Writers : hand[v] # None => [hand[v] EXCEPT !.fd = Moved(@)] # None
  BY <1>3, Constants
<1>5. HandTyped' BY <1>1, <1>2, <1>3 DEF HandTyped
<1> QED BY <1>1, <1>2, <1>3, <1>4, <1>5
-----------------------------------------------------------------------------
(* The file and its copy                                                   *)

TableStages == {"loaded", "open", "filled"}
Holds(w) == hand[w] # None /\ hand[w].stage \in TableStages

Solo ==
    "overlap" \notin slips =>
        /\ file \in {None} \cup Table
        /\ \A v, w \in Writers : Recording(v) /\ Recording(w) => v = w
        /\ \A w \in Writers : Holds(w) => hand[w].payload = Counted(w)
        /\ \A w \in Writers : At(w, "open") => tmp = Empty /\ hand[w].fd = "tmp"
        /\ \A w \in Writers : At(w, "filled") => tmp = hand[w].payload

(* Whoever fills its copy puts a table there, or what no reader accepts.   *)
LEMMA OverTyped ==
    ASSUME NEW content, NEW T \in Table
    PROVE  Over(content, T) \subseteq Content
<1> QED BY DEF Over, Content

(* A replacement that fails has lost its copy to another writer.           *)
LEMMA FailureIsOverlap ==
    ASSUME Typed, Solo, NEW w \in Writers, At(w, "filled"), tmp = None
    PROVE  "overlap" \in slips
<1>1. hand[w].payload \in Table BY HandFields DEF At, Typed
<1> QED BY <1>1, Constants DEF Solo

(* What a process leaves behind is dropped, and a lost result is noted.    *)
LEMMA AbandonDrops ==
    ASSUME Typed, NEW p, Abandon(p), UNCHANGED <<file, tmp, done, last>>
    PROVE  /\ Drops /\ due' \subseteq due
           /\ \A w \in Writers : Process(w) = p => hand'[w] = None
<1>1. hand' = [w \in Writers |-> IF Process(w) = p THEN None ELSE hand[w]] BY DEF Abandon
<1>2. hand' \in [Writers -> {None} \cup Hand] /\ \A w \in Writers : hand'[w] \in {hand[w], None}
  BY <1>1 DEF Typed, HandTyped
<1>3. slips \subseteq slips' /\ slips' \subseteq {"overlap", "lost"}
  BY DEF Abandon, Typed, LoopTyped
<1>4. (\E w \in Writers : Recording(w) /\ hand'[w] = None) => slips' # {}
  <2> SUFFICES ASSUME NEW w \in Writers, Recording(w), hand'[w] = None PROVE slips' # {}
    OBVIOUS
  <2>1. Process(w) = p BY <1>1 DEF Recording
  <2> QED BY <2>1 DEF Abandon
<1>5. due' \subseteq due BY DEF Abandon
<1> QED BY <1>1, <1>2, <1>3, <1>4, <1>5 DEF Drops
-----------------------------------------------------------------------------
(* Types                                                                   *)

(* At first everything has its type.                                       *)
LEMMA InitTyped == Init => Typed
<1> SUFFICES ASSUME Init PROVE Typed
  OBVIOUS
<1>0. MaxDeaths \in Nat BY SupervisorAssumption
<1>1. SupervisorTypeOK
  <2>1. SupervisorInit BY DEF Init
  <2>2. up = Children /\ cause = None /\ status = None /\ deaths = 0 BY <2>1 DEF SupervisorInit
  <2>3. stopping \in BOOLEAN /\ signalled \in BOOLEAN BY <2>1 DEF SupervisorInit
  <2> QED BY <1>0, <2>2, <2>3 DEF SupervisorTypeOK
<1>2. HandTyped /\ Alive BY DEF Init, HandTyped, Alive
<1>3. FilesTyped BY Constants DEF Init, FilesTyped, Times, Content
<1>4. LoopTyped BY Constants DEF Init, LoopTyped
<1> QED BY <1>1, <1>2, <1>3, <1>4 DEF Typed

(* When the file is read next_run_at becomes a number again.               *)
LEMMA HydratedTyped ==
    ASSUME Typed
    PROVE  Hydrated \in [Jobs -> Nat]
<1> SUFFICES ASSUME NEW j \in Jobs
             PROVE  (IF Interval[j] > 0 /\ Loaded[j] # None
                     THEN Loaded[j].at + Interval[j] ELSE next[j]) \in Nat
  BY DEF Hydrated
<1>1. next[j] \in Nat /\ Interval[j] \in Nat BY Constants DEF Typed, LoopTyped
<1>2. Loaded[j] # None => Loaded[j].at \in Nat
  <2>1. Loaded[j] \in {None} \cup Entry BY LoadedTyped DEF Table
  <2> QED BY <2>1, Constants DEF Entry, Times
<1> QED BY <1>1, <1>2

(* The scheduler's loop and the API's route keep the types.                *)
LEMMA LoopSteps ==
    ASSUME Typed, \/ Look
                  \/ \E j \in Jobs : StartDue(j)
                  \/ \E w \in ApiThreads, j \in Jobs : Trigger(w, j)
    PROVE  Typed'
<1>1. CASE Look
  <2>1. SupervisorTypeOK' /\ HandTyped' /\ Alive' /\ FilesTyped'
    BY <1>1 DEF Typed, Look, SupervisorTypeOK, HandTyped, Alive, FilesTyped, supervisorVars
  <2>2. LoopTyped' BY <1>1, HydratedTyped DEF Typed, Look, LoopTyped
  <2> QED BY <2>1, <2>2 DEF Typed
<1>2. ASSUME NEW j \in Jobs, StartDue(j) PROVE Typed'
  <2>1. Begin(Scheduler, j) BY <1>2 DEF StartDue
  <2>2. HandTyped' BY <2>1, BeginTyped, Constants DEF Typed
  <2>3. Alive' BY <1>2, <2>1 DEF Typed, HandTyped, Alive, Begin, StartDue, Process, supervisorVars
  <2>4. SupervisorTypeOK' /\ FilesTyped' /\ LoopTyped'
    BY <1>2 DEF Typed, StartDue, SupervisorTypeOK, FilesTyped, LoopTyped, supervisorVars
  <2> QED BY <2>2, <2>3, <2>4 DEF Typed
<1>3. ASSUME NEW w \in ApiThreads, NEW j \in Jobs, Trigger(w, j) PROVE Typed'
  <2>1. Begin(w, j) /\ w \in Writers /\ Process(w) = Api
    BY <1>3, JobAssumption DEF Trigger, Writers, Process
  <2>2. HandTyped' BY <2>1, BeginTyped DEF Typed
  <2>3. Alive' BY <1>3, <2>1 DEF Typed, HandTyped, Alive, Begin, Trigger, supervisorVars
  <2>4. SupervisorTypeOK' /\ FilesTyped'
    BY <1>3 DEF Typed, Trigger, SupervisorTypeOK, FilesTyped, supervisorVars
  <2>5. LoopTyped' BY <1>3, Constants DEF Typed, Trigger, LoopTyped
  <2> QED BY <2>2, <2>3, <2>4, <2>5 DEF Typed
<1> QED BY <1>1, <1>2, <1>3

(* So does the recording of a result.                                      *)
LEMMA RecordSteps ==
    ASSUME Typed, NEW w \in Writers,
           EndJob(w) \/ Load(w) \/ OpenTmp(w) \/ Fill(w) \/ Replace(w)
    PROVE  Typed'
<1>1. CASE EndJob(w)
  <2>1. HandTyped' BY <1>1, EndJobTyped
  <2>2. Alive' BY <1>1 DEF Typed, HandTyped, Alive, EndJob, At, supervisorVars
  <2>3. SupervisorTypeOK' /\ FilesTyped'
    BY <1>1 DEF Typed, EndJob, SupervisorTypeOK, FilesTyped, supervisorVars
  <2>4. hand[w].job \in Jobs BY <1>1, HandFields DEF Typed, EndJob, At
  <2>5. LoopTyped' BY <1>1, <2>4 DEF Typed, EndJob, LoopTyped
  <2> QED BY <2>1, <2>2, <2>3, <2>5 DEF Typed
<1>2. CASE Load(w)
  <2>1. HandTyped' BY <1>2, LoadTyped
  <2>2. Alive'
    <3>1. hand[w] # None /\ \A v \in Writers \ {w} : hand'[v] = hand[v]
      BY <1>2, LoadTyped DEF Typed, HandTyped
    <3> QED BY <1>2, <3>1 DEF Typed, Alive, Load, supervisorVars
  <2>3. SupervisorTypeOK' /\ FilesTyped' /\ LoopTyped'
    BY <1>2 DEF Typed, Load, SupervisorTypeOK, FilesTyped, LoopTyped, supervisorVars
  <2> QED BY <2>1, <2>2, <2>3 DEF Typed
<1>3. CASE OpenTmp(w)
  <2>1. HandTyped' BY <1>3, OpenTmpTyped
  <2>2. Alive'
    <3>1. hand[w] # None /\ \A v \in Writers \ {w} : hand'[v] = hand[v]
      BY <1>3, OpenTmpTyped DEF Typed, HandTyped
    <3> QED BY <1>3, <3>1 DEF Typed, Alive, OpenTmp, supervisorVars
  <2>3. SupervisorTypeOK' /\ FilesTyped' /\ LoopTyped'
    BY <1>3 DEF Typed, OpenTmp, SupervisorTypeOK, FilesTyped, LoopTyped, Content, supervisorVars
  <2> QED BY <2>1, <2>2, <2>3 DEF Typed
<1>4. CASE Fill(w)
  <2>1. HandTyped' BY <1>4, FillTyped
  <2>2. Alive'
    <3>1. hand[w] # None /\ \A v \in Writers \ {w} : hand'[v] = hand[v]
      BY <1>4, FillTyped DEF Typed, HandTyped
    <3> QED BY <1>4, <3>1 DEF Typed, Alive, Fill, supervisorVars
  <2>3. FilesTyped'
    <3>1. hand[w].payload \in Table BY <1>4, HandFields DEF Typed, Fill, At
    <3>2. Over(tmp, hand[w].payload) \subseteq Content /\ Over(file, hand[w].payload) \subseteq Content
      BY <3>1, OverTyped
    <3> QED BY <1>4, <3>2 DEF Typed, Fill, FilesTyped
  <2>4. SupervisorTypeOK' /\ LoopTyped'
    BY <1>4 DEF Typed, Fill, SupervisorTypeOK, LoopTyped, supervisorVars
  <2> QED BY <2>1, <2>2, <2>3, <2>4 DEF Typed
<1>5. CASE Replace(w)
  <2>1. HandTyped' BY <1>5, ReplaceTyped
  <2>2. Alive'
    <3>1. \A v \in Writers : hand'[v] # None => hand[v] # None BY <1>5, ReplaceTyped
    <3> QED BY <1>5, <3>1 DEF Typed, Alive, Replace, supervisorVars
  <2>3. SupervisorTypeOK' /\ FilesTyped'
    BY <1>5 DEF Typed, Replace, SupervisorTypeOK, FilesTyped, Content, supervisorVars
  <2>4. LoopTyped'
    <3>1. hand[w].job \in Jobs /\ hand[w].at \in Times
      BY <1>5, HandFields DEF Typed, Replace, At
    <3>2. clock \in Nat /\ Interval[hand[w].job] \in Nat
      BY <3>1, Constants DEF Typed, FilesTyped, Times
    <3>3. next' \in [Jobs -> Nat] /\ last' \in [Jobs -> {None} \cup Times]
      <4>1. next \in [Jobs -> Nat] /\ last \in [Jobs -> {None} \cup Times] BY DEF Typed, LoopTyped
      <4>2. CASE w = Scheduler
        <5> DEFINE n == IF Interval[hand[w].job] > 0 THEN clock + Interval[hand[w].job]
                        ELSE next[hand[w].job]
        <5>1. n \in Nat BY <3>1, <3>2, <4>1
        <5>2. next' = [next EXCEPT ![hand[w].job] = n]
              /\ last' = [last EXCEPT ![hand[w].job] = hand[w].at]
          BY <1>5, <4>2 DEF Replace
        <5> HIDE DEF n
        <5> QED BY <3>1, <4>1, <5>1, <5>2
      <4>3. CASE w # Scheduler BY <1>5, <4>1, <4>3 DEF Replace
      <4> QED BY <4>2, <4>3
    <3>4. UNCHANGED <<due, triggers, done, slips>> BY <1>5 DEF Replace
    <3> QED BY <3>3, <3>4 DEF Typed, LoopTyped
  <2> QED BY <2>1, <2>2, <2>3, <2>4 DEF Typed
<1> QED BY <1>1, <1>2, <1>3, <1>4, <1>5

(* A step that only drops hands, of processes that may end.                *)
LEMMA DropsTyped ==
    ASSUME Typed, Drops, SupervisorTypeOK', clock' \in Times, next' \in [Jobs -> Nat],
           due' \subseteq due, triggers' = triggers,
           \A w \in Writers : hand'[w] # None => Process(w) \in up'
    PROVE  Typed'
<1>1. HandTyped' /\ Alive' BY DEF Drops, HandTyped, Alive
<1>2. FilesTyped' BY DEF Typed, Drops, FilesTyped
<1>3. LoopTyped' BY DEF Typed, Drops, LoopTyped
<1> QED BY <1>1, <1>2, <1>3 DEF Typed

(* The supervisor's own variables keep their types.                        *)
LEMMA SupervisorSteps ==
    ASSUME SupervisorTypeOK,
           \/ Signal
           \/ \E code \in {0, 1} : FindDead(code)
           \/ Exit
           \/ Restarted
    PROVE  SupervisorTypeOK'
<1>1. MaxDeaths \in Nat BY SupervisorAssumption
<1>2. CASE Signal BY <1>1, <1>2 DEF SupervisorTypeOK, Signal
<1>3. CASE \E code \in {0, 1} : FindDead(code) BY <1>3 DEF SupervisorTypeOK, FindDead, Running
<1>4. CASE Exit BY <1>4 DEF SupervisorTypeOK, Exit
<1>5. CASE Restarted BY <1>1, <1>5 DEF SupervisorTypeOK, Restarted
<1> QED BY <1>2, <1>3, <1>4, <1>5

\* The steps of processes and of time.
Ends ==
    \/ \E w \in Writers : ReplaceFails(w)
    \/ Tick
    \/ Supervise
    \/ \E c \in Children : Die(c) \/ EndsInTime(c)
    \/ Signal /\ UNCHANGED schedulerVars
    \/ Restart

(* They drop hands, and nothing that was recorded is lost unnoticed.       *)
LEMMA EndsDrop ==
    ASSUME Typed, Solo, Ends
    PROVE  /\ Drops /\ Typed' /\ due' \subseteq due
           /\ clock' \in {clock, clock + 1}
<1>0. /\ clock \in Nat /\ MaxClock \in Nat /\ MaxDeaths \in Nat /\ clock \in Times
      /\ next \in [Jobs -> Nat] /\ SupervisorTypeOK
      /\ hand \in [Writers -> {None} \cup Hand] /\ slips \subseteq {"overlap", "lost"}
      /\ \A w \in Writers : hand[w] # None => Process(w) \in up
  BY Constants DEF Typed, FilesTyped, LoopTyped, Times, HandTyped, Alive
<1>1. ASSUME NEW w \in Writers, ReplaceFails(w)
      PROVE  /\ Drops /\ Typed' /\ due' \subseteq due
             /\ clock' \in {clock, clock + 1}
  <2>1. "overlap" \in slips BY <1>1, FailureIsOverlap DEF ReplaceFails
  <2>2. UNCHANGED <<clock, file, tmp, next, triggers, done, last, stopping, cause, status,
                    signalled, deaths>>
    BY <1>1 DEF ReplaceFails
  <2>3. CASE w = Scheduler
    <3>1. Abandon(Scheduler) /\ up' = up \ {Scheduler} BY <1>1, <2>3 DEF ReplaceFails
    <3>2. Drops /\ due' \subseteq due BY <2>2, <3>1, AbandonDrops
    <3>3. SupervisorTypeOK' BY <1>0, <2>2, <3>1 DEF SupervisorTypeOK
    <3>4. \A v \in Writers : hand'[v] # None => Process(v) \in up'
      BY <1>0, <2>2, <3>1, AbandonDrops DEF Drops
    <3>5. Typed' BY <1>0, <2>2, <3>2, <3>3, <3>4, DropsTyped
    <3> QED BY <2>2, <3>2, <3>5
  <2>4. CASE w # Scheduler
    <3>1. hand' = [hand EXCEPT ![w] = None] /\ UNCHANGED <<due, slips, up>>
      BY <1>1, <2>4 DEF ReplaceFails
    <3>2. Drops BY <1>0, <2>1, <2>2, <3>1 DEF Drops
    <3>3. SupervisorTypeOK' BY <1>0, <2>2, <3>1 DEF SupervisorTypeOK
    <3>4. \A v \in Writers : hand'[v] # None => Process(v) \in up' BY <1>0, <3>1
    <3>5. Typed' BY <1>0, <2>2, <3>1, <3>2, <3>3, <3>4, DropsTyped
    <3> QED BY <2>2, <3>1, <3>2, <3>5
  <2> QED BY <2>3, <2>4
<1>2. CASE Tick
  <2>1. Drops BY <1>0, <1>2 DEF Tick, Drops, Recording
  <2>2. SupervisorTypeOK' BY <1>0, <1>2 DEF Tick, SupervisorTypeOK, supervisorVars
  <2>3. clock' \in Times /\ UNCHANGED <<next, due, triggers, hand, up>> /\ clock' = clock + 1
    BY <1>0, <1>2 DEF Tick, Times, supervisorVars
  <2>4. Typed' BY <1>0, <2>1, <2>2, <2>3, DropsTyped
  <2> QED BY <2>1, <2>3, <2>4
<1>3. ASSUME UNCHANGED schedulerVars, SupervisorTypeOK',
             up' = up \/ (up' = Children /\ status # None)
      PROVE  /\ Drops /\ Typed' /\ due' \subseteq due
             /\ clock' \in {clock, clock + 1}
  <2>1. UNCHANGED <<clock, file, tmp, hand, next, due, triggers, done, last, slips>>
    BY <1>3 DEF schedulerVars
  <2>2. Drops BY <1>0, <2>1 DEF Drops, Recording
  <2>3. \A v \in Writers : hand'[v] # None => Process(v) \in up'
    BY <1>0, <1>3, <2>1 DEF SupervisorTypeOK
  <2>4. Typed' BY <1>0, <1>3, <2>1, <2>2, <2>3, DropsTyped
  <2> QED BY <2>1, <2>2, <2>4
<1>4. CASE Supervise
  <2>1. ASSUME NEW code \in {0, 1}, FindDead(code), UNCHANGED schedulerVars
        PROVE  /\ Drops /\ Typed' /\ due' \subseteq due
               /\ clock' \in {clock, clock + 1}
    BY <1>0, <1>3, <2>1, SupervisorSteps DEF FindDead
  <2>2. CASE Exit /\ UNCHANGED schedulerVars
    BY <1>0, <1>3, <2>2, SupervisorSteps DEF Exit
  <2>3. CASE KillRest
    <3>1. /\ UNCHANGED <<clock, file, tmp, next, triggers, done, last, stopping, cause, status,
                         signalled, deaths>>
          /\ up' = {} /\ due' = {} /\ hand' = [w \in Writers |-> None]
          /\ slips' = slips \cup {s \in {"lost"} : \E w \in Writers : Recording(w)}
      BY <2>3 DEF KillRest
    <3>2. Drops
      <4>1. (\E w \in Writers : Recording(w)) => slips' # {} BY <3>1
      <4> QED BY <1>0, <3>1, <4>1 DEF Drops
    <3>3. SupervisorTypeOK' BY <1>0, <3>1 DEF SupervisorTypeOK
    <3>4. Typed' BY <1>0, <3>1, <3>2, <3>3, DropsTyped
    <3> QED BY <3>1, <3>2, <3>4
  <2> QED BY <1>4, <2>1, <2>2, <2>3 DEF Supervise
<1>5. ASSUME NEW c \in Children, Die(c) \/ EndsInTime(c)
      PROVE  /\ Drops /\ Typed' /\ due' \subseteq due
             /\ clock' \in {clock, clock + 1}
  <2>1. /\ Abandon(c) /\ up' = up \ {c}
        /\ UNCHANGED <<clock, file, tmp, next, triggers, done, last, stopping, cause, status, signalled>>
        /\ deaths' \in 0..MaxDeaths
    BY <1>0, <1>5 DEF Die, EndsInTime, SupervisorTypeOK
  <2>2. /\ Drops /\ due' \subseteq due
        /\ \A w \in Writers : Process(w) = c => hand'[w] = None
    BY <2>1, AbandonDrops
  <2>3. SupervisorTypeOK' BY <1>0, <2>1 DEF SupervisorTypeOK
  <2>4. \A v \in Writers : hand'[v] # None => Process(v) \in up' BY <1>0, <2>1, <2>2 DEF Drops
  <2>5. Typed' BY <1>0, <2>1, <2>2, <2>3, <2>4, DropsTyped
  <2> QED BY <2>1, <2>2, <2>5
<1>6. CASE Signal /\ UNCHANGED schedulerVars
  BY <1>0, <1>3, <1>6, SupervisorSteps DEF Signal
<1>7. CASE Restart
  <2>1. /\ UNCHANGED <<clock, file, tmp, hand, due, triggers, done, last, slips>>
        /\ next' = [j \in Jobs |-> clock] /\ up' = Children /\ Restarted
    BY <1>7 DEF Restart, Restarted
  <2>2. Drops BY <1>0, <2>1 DEF Drops, Recording
  <2>3. SupervisorTypeOK' BY <1>0, <2>1, SupervisorSteps
  <2>4. \A v \in Writers : hand'[v] # None => Process(v) \in up'
    BY <1>0, <2>1 DEF SupervisorTypeOK
  <2>5. Typed' BY <1>0, <2>1, <2>2, <2>3, <2>4, DropsTyped
  <2> QED BY <2>1, <2>2, <2>5
<1> QED BY <1>1, <1>2, <1>4, <1>5, <1>6, <1>7 DEF Ends
-----------------------------------------------------------------------------
(* One writer at a time                                                    *)

(* A job begun by someone who had none: nobody else is touched.            *)
LEMMA StartsFresh ==
    ASSUME Typed, NEW w \in Writers, NEW j \in Jobs, Starts(w, j)
    PROVE  /\ hand'[w] # None /\ hand'[w].stage = "run" /\ hand'[w].job = j
           /\ \A v \in Writers \ {w} : hand'[v] = hand[v]
<1> DEFINE h == [job |-> j, stage |-> "run", at |-> 0, payload |-> Blank, fd |-> "gone"]
<1>1. h \in Hand BY BlankTyped, Constants DEF Hand, Stages, Times
<1>2. hand' = [hand EXCEPT ![w] = h] BY DEF Starts, Begin
<1>3. h # None /\ h.stage = "run" /\ h.job = j BY <1>1, Constants
<1> HIDE DEF h
<1> QED BY <1>2, <1>3 DEF Typed, HandTyped

(* The end of a job: its hand alone is changed.                            *)
LEMMA EndJobFresh ==
    ASSUME Typed, NEW w \in Writers, EndJob(w)
    PROVE  /\ hand[w] # None /\ hand[w].stage = "run" /\ hand[w].job \in Jobs
           /\ hand'[w] # None /\ hand'[w].stage = "ran" /\ hand'[w].at = clock
           /\ hand'[w].job = hand[w].job
           /\ \A v \in Writers \ {w} : hand'[v] = hand[v]
<1>1. hand[w] # None /\ hand[w].stage = "run" BY DEF EndJob, At
<1>2. hand[w] \in Hand /\ clock \in Times BY <1>1, HandFields DEF Typed, FilesTyped
<1> DEFINE h == [hand[w] EXCEPT !.stage = "ran", !.at = clock]
<1>3. h \in Hand /\ h.stage = "ran" /\ h.at = clock /\ h.job = hand[w].job
  BY <1>2 DEF Hand, Stages
<1>4. hand' = [hand EXCEPT ![w] = h] BY <1>1 DEF Typed, HandTyped, EndJob
<1> HIDE DEF h
<1>5. h # None BY <1>3, Constants
<1>6. hand[w].job \in Jobs BY <1>2 DEF Hand
<1> QED BY <1>1, <1>3, <1>4, <1>5, <1>6 DEF Typed, HandTyped

(* So it is while a result is written.                                     *)
LEMMA LoadFresh ==
    ASSUME Typed, NEW w \in Writers, Load(w)
    PROVE  /\ hand[w] # None /\ hand[w].stage = "ran" /\ hand[w].job \in Jobs
           /\ hand'[w] # None /\ hand'[w].stage = "loaded" /\ hand'[w].payload = Counted(w)
           /\ hand'[w].job = hand[w].job /\ hand'[w].at = hand[w].at
           /\ \A v \in Writers \ {w} : hand'[v] = hand[v]
           /\ UNCHANGED <<clock, file, tmp, next, due, triggers, done, last, slips>>
<1> DEFINE h == [hand[w] EXCEPT !.stage = "loaded", !.payload = Counted(w)]
<1>1. hand[w] # None /\ hand[w].stage = "ran" BY DEF Load, At
<1>2. hand[w] \in Hand /\ hand[w].job \in Jobs BY <1>1, HandFields DEF Typed
<1>3. Counted(w) \in Table /\ hand' = [hand EXCEPT ![w] = h] BY LoadTyped
<1>4. h \in Hand /\ h.stage = "loaded" /\ h.payload = Counted(w)
      /\ h.job = hand[w].job /\ h.at = hand[w].at
  <2> HIDE DEF Counted
  <2> QED BY <1>2, <1>3 DEF Hand, Stages
<1> HIDE DEF h
<1>5. h # None BY <1>4, Constants
<1> QED BY <1>1, <1>2, <1>3, <1>4, <1>5 DEF Typed, HandTyped, Load

(* The copy it opens is its own until somebody moves it.                   *)
LEMMA OpenTmpFresh ==
    ASSUME Typed, NEW w \in Writers, OpenTmp(w)
    PROVE  /\ hand[w] # None /\ hand[w].stage = "loaded" /\ hand[w].job \in Jobs
           /\ hand'[w] # None /\ hand'[w].stage = "open" /\ hand'[w].fd = "tmp"
           /\ hand'[w].payload = hand[w].payload
           /\ hand'[w].job = hand[w].job /\ hand'[w].at = hand[w].at
           /\ \A v \in Writers \ {w} : hand'[v] = hand[v]
           /\ UNCHANGED <<clock, file, next, due, triggers, done, last, slips>>
<1> DEFINE h == [hand[w] EXCEPT !.stage = "open", !.fd = "tmp"]
<1>1. hand[w] # None /\ hand[w].stage = "loaded" BY DEF OpenTmp, At
<1>2. hand[w] \in Hand /\ hand[w].job \in Jobs BY <1>1, HandFields DEF Typed
<1>3. hand' = [hand EXCEPT ![w] = h] BY OpenTmpTyped
<1>4. h \in Hand /\ h.stage = "open" /\ h.fd = "tmp" /\ h.payload = hand[w].payload
      /\ h.job = hand[w].job /\ h.at = hand[w].at
  BY <1>2 DEF Hand, Stages
<1> HIDE DEF h
<1>5. h # None BY <1>4, Constants
<1> QED BY <1>1, <1>2, <1>3, <1>4, <1>5 DEF Typed, HandTyped, OpenTmp

(* It fills the copy with what it has loaded.                              *)
LEMMA FillFresh ==
    ASSUME Typed, NEW w \in Writers, Fill(w)
    PROVE  /\ hand[w] # None /\ hand[w].stage = "open" /\ hand[w].job \in Jobs
           /\ hand'[w] # None /\ hand'[w].stage = "filled"
           /\ hand'[w].payload = hand[w].payload /\ hand[w].payload \in Table
           /\ hand'[w].job = hand[w].job /\ hand'[w].at = hand[w].at
           /\ \A v \in Writers \ {w} : hand'[v] = hand[v]
           /\ UNCHANGED <<clock, next, due, triggers, done, last, slips>>
<1> DEFINE h == [hand[w] EXCEPT !.stage = "filled"]
<1>1. hand[w] # None /\ hand[w].stage = "open" BY DEF Fill, At
<1>2. hand[w] \in Hand /\ hand[w].job \in Jobs /\ hand[w].payload \in Table
  BY <1>1, HandFields DEF Typed
<1>3. hand' = [hand EXCEPT ![w] = h] BY FillTyped
<1>4. h \in Hand /\ h.stage = "filled" /\ h.payload = hand[w].payload
      /\ h.job = hand[w].job /\ h.at = hand[w].at
  BY <1>2 DEF Hand, Stages
<1> HIDE DEF h
<1>5. h # None BY <1>4, Constants
<1> QED BY <1>1, <1>2, <1>3, <1>4, <1>5 DEF Typed, HandTyped, Fill

(* Solo at first, and after every kind of step.                            *)
LEMMA InitSolo == Init => Solo
<1> QED BY DEF Init, Solo, Recording, Holds, At

(* Dropped hands disturb nobody.                                           *)
LEMMA DropsSolo ==
    ASSUME Typed, Solo, Drops
    PROVE  Solo'
<1>1. SUFFICES ASSUME "overlap" \notin slips'
               PROVE  /\ file' \in {None} \cup Table
                      /\ \A v, w \in Writers : Recording(v)' /\ Recording(w)' => v = w
                      /\ \A w \in Writers : Holds(w)' => hand'[w].payload = Counted(w)'
                      /\ \A w \in Writers : At(w, "open")' => tmp' = Empty /\ hand'[w].fd = "tmp"
                      /\ \A w \in Writers : At(w, "filled")' => tmp' = hand'[w].payload
  BY DEF Solo
<1>2. "overlap" \notin slips BY <1>1 DEF Drops
<1>3. file' = file /\ tmp' = tmp /\ \A w \in Writers : hand'[w] \in {hand[w], None} BY DEF Drops
<1>4. ASSUME NEW w \in Writers, hand'[w] = hand[w]
      PROVE  Counted(w)' = Counted(w)
  BY <1>3, <1>4 DEF Counted, Loaded, Count
<1>5. \A w \in Writers : Recording(w)' => Recording(w) BY <1>3 DEF Recording
<1>6. \A w \in Writers : hand'[w] # None => hand'[w] = hand[w] BY <1>3
<1> QED BY <1>2, <1>3, <1>4, <1>5, <1>6 DEF Solo, Holds, At

(* A job that begins records nothing yet.                                  *)
LEMMA StartsSolo ==
    ASSUME Typed, Solo, NEW w \in Writers, NEW j \in Jobs, Starts(w, j)
    PROVE  Solo'
<1>1. /\ hand'[w].stage = "run" /\ hand[w] = None
      /\ \A v \in Writers \ {w} : hand'[v] = hand[v]
  BY StartsFresh DEF Starts
<1>2. file' = file /\ tmp' = tmp /\ slips' = slips BY DEF Starts
<1>3. ASSUME NEW v \in Writers, hand'[v] = hand[v]
      PROVE  Counted(v)' = Counted(v)
  BY <1>2, <1>3 DEF Counted, Loaded, Count
<1>4. \A v \in Writers : hand'[v] = hand[v] \/ v = w BY <1>1
<1>5. ~Recording(w)' /\ ~Holds(w)' /\ ~At(w, "open")' /\ ~At(w, "filled")'
  BY <1>1 DEF Recording, Holds, TableStages, At
<1> QED BY <1>2, <1>3, <1>4, <1>5 DEF Solo, Recording, Holds, At

(* A job that ends beside no other result records alone.                   *)
LEMMA EndJobSolo ==
    ASSUME Typed, Solo, NEW w \in Writers, EndJob(w)
    PROVE  Solo'
<1>1. SUFFICES ASSUME "overlap" \notin slips' PROVE Solo'
  BY DEF Solo
<1>2. "overlap" \notin slips /\ \A v \in Writers \ {w} : ~Recording(v)
  BY <1>1 DEF EndJob
<1>3. file' = file /\ tmp' = tmp BY DEF EndJob
<1>4. \A v \in Writers \ {w} : ~Recording(v)' BY <1>2, EndJobFresh DEF Recording
<1>5. ~Holds(w)' /\ ~At(w, "open")' /\ ~At(w, "filled")' BY EndJobFresh DEF Holds, TableStages, At
<1>6. \A v \in Writers : Holds(v)' \/ At(v, "open")' \/ At(v, "filled")' => Recording(v)'
  BY DEF Recording, Holds, TableStages, At
<1> QED BY <1>2, <1>3, <1>4, <1>5, <1>6 DEF Solo

(* Whoever writes alone keeps its copy and what it has loaded.             *)
LEMMA WritingSolo ==
    ASSUME Typed, Solo, NEW w \in Writers, Load(w) \/ OpenTmp(w) \/ Fill(w)
    PROVE  Solo'
<1>1. SUFFICES ASSUME "overlap" \notin slips' PROVE Solo'
  BY DEF Solo
<1>2. /\ slips' = slips /\ \A v \in Writers \ {w} : hand'[v] = hand[v]
      /\ hand[w] # None /\ hand[w].stage # "run"
  <2>1. CASE Load(w) BY <2>1, LoadFresh
  <2>2. CASE OpenTmp(w) BY <2>2, OpenTmpFresh
  <2>3. CASE Fill(w) BY <2>3, FillFresh
  <2> QED BY <2>1, <2>2, <2>3
<1>3. Recording(w) /\ \A v \in Writers \ {w} : ~Recording(v) BY <1>1, <1>2 DEF Solo, Recording
<1>4. \A v \in Writers \ {w} : ~Recording(v)' /\ ~Holds(v)' /\ ~At(v, "open")' /\ ~At(v, "filled")'
  BY <1>2, <1>3 DEF Recording, Holds, TableStages, At
<1>5. ASSUME file' = file, hand'[w].job = hand[w].job, hand'[w].at = hand[w].at
      PROVE  Counted(w)' = Counted(w)
  BY <1>5 DEF Counted, Loaded, Count
<1>6. CASE Load(w)
  <2>1. ~At(w, "open")' /\ ~At(w, "filled")' BY <1>6, LoadFresh DEF At
  <2>2. hand'[w].payload = Counted(w)' BY <1>5, <1>6, LoadFresh
  <2>3. file' \in {None} \cup Table BY <1>1, <1>2, <1>6, LoadFresh DEF Solo
  <2> QED BY <1>4, <2>1, <2>2, <2>3 DEF Solo
<1>7. CASE OpenTmp(w)
  <2>1. ~At(w, "filled")' BY <1>7, OpenTmpFresh DEF At
  <2>2. hand'[w].payload = Counted(w)'
    <3>1. hand[w].payload = Counted(w)
      BY <1>1, <1>2, <1>7, OpenTmpFresh DEF Solo, Holds, TableStages
    <3> QED BY <1>5, <1>7, <3>1, OpenTmpFresh
  <2>3. tmp' = Empty /\ hand'[w].fd = "tmp" BY <1>7, OpenTmpFresh DEF OpenTmp
  <2>4. file' \in {None} \cup Table BY <1>1, <1>2, <1>7, OpenTmpFresh DEF Solo
  <2> QED BY <1>4, <2>1, <2>2, <2>3, <2>4 DEF Solo
<1>8. CASE Fill(w)
  <2>1. ~At(w, "open")' BY <1>8, FillFresh DEF At
  <2>2. tmp = Empty /\ hand[w].fd = "tmp" BY <1>1, <1>2, <1>8 DEF Solo, Fill
  <2>3. tmp' = hand[w].payload /\ file' = file BY <1>8, <2>2 DEF Fill, Over
  <2>4. hand'[w].payload = Counted(w)'
    <3>1. hand[w].payload = Counted(w)
      BY <1>1, <1>2, <1>8, FillFresh DEF Solo, Holds, TableStages
    <3> QED BY <1>5, <1>8, <2>3, <3>1, FillFresh
  <2>5. file' \in {None} \cup Table /\ tmp' = hand'[w].payload
    BY <1>1, <1>2, <1>8, <2>3, FillFresh DEF Solo
  <2> QED BY <1>4, <2>1, <2>4, <2>5 DEF Solo
<1> QED BY <1>6, <1>7, <1>8

(* What a replacement finds and leaves, when nobody else records.          *)
LEMMA ReplaceAlone ==
    ASSUME Typed, Solo, NEW w \in Writers, Replace(w), "overlap" \notin slips
    PROVE  /\ file' = Counted(w) /\ Counted(w) \in Table /\ Loaded' = Counted(w)
           /\ \A v \in Writers : ~Recording(v)'
           /\ \A v \in Writers : Recording(v) => v = w
<1>1. hand[w] # None /\ hand[w].stage = "filled" BY DEF Replace, At
<1>2. tmp = hand[w].payload /\ hand[w].payload = Counted(w)
  BY <1>1 DEF Solo, At, Holds, TableStages
<1>3. hand[w].payload \in Table BY <1>1, HandFields DEF Typed
<1>4. file' = Counted(w) /\ Counted(w) \in Table BY <1>2, <1>3 DEF Replace
<1>5. Loaded' = Counted(w) BY <1>4 DEF Loaded
<1>6. \A v \in Writers \ {w} : ~Recording(v) BY <1>1 DEF Solo, Recording
<1>7. \A v \in Writers : ~Recording(v)' BY <1>6, ReplaceTyped DEF Recording
<1> QED BY <1>4, <1>5, <1>6, <1>7

(* After a replacement the file is a table again.                          *)
LEMMA ReplaceSolo ==
    ASSUME Typed, Solo, NEW w \in Writers, Replace(w)
    PROVE  Solo'
<1>1. SUFFICES ASSUME "overlap" \notin slips' PROVE Solo'
  BY DEF Solo
<1>2. "overlap" \notin slips BY <1>1 DEF Replace
<1>3. file' \in Table /\ \A v \in Writers : ~Recording(v)' BY <1>2, ReplaceAlone
<1>4. \A v \in Writers : Holds(v)' \/ At(v, "open")' \/ At(v, "filled")' => Recording(v)'
  BY DEF Recording, Holds, TableStages, At
<1> QED BY <1>3, <1>4 DEF Solo
-----------------------------------------------------------------------------
(* Times                                                                   *)

Past ==
    /\ \A w \in Writers : Recording(w) => hand[w].at <= clock
    /\ "overlap" \notin slips =>
          \A j \in Jobs : Loaded[j] # None =>
              /\ Loaded[j].at <= clock
              /\ \A w \in Writers : Recording(w) => Loaded[j].at <= hand[w].at

Apart ==
    /\ hand[Scheduler] # None => hand[Scheduler].job \notin due
    /\ "overlap" \notin slips =>
          \A j \in Jobs : last[j] # None =>
              /\ Loaded[j] # None /\ last[j] <= Loaded[j].at
              /\ j \in due => clock >= last[j] + Interval[j]

(* An entry that is read carries a time of the clock and a number.         *)
LEMMA EntryTyped ==
    ASSUME NEW T \in Table, NEW j \in Jobs, T[j] # None
    PROVE  T[j].at \in Times /\ T[j].at \in Nat /\ T[j].count \in Nat
<1>1. T[j] \in Entry BY DEF Table
<1> QED BY <1>1, Constants DEF Entry, Times

(* What is written differs from what was read in the job's own entry.      *)
LEMMA CountedEntries ==
    ASSUME Typed, NEW w \in Writers, hand[w] # None, NEW j \in Jobs
    PROVE  /\ j = hand[w].job => /\ Counted(w)[j] # None /\ Counted(w)[j].at = hand[w].at
                                 /\ Count(Counted(w), j) = Count(Loaded, j) + 1
           /\ j # hand[w].job => /\ Counted(w)[j] = Loaded[j]
                                 /\ Count(Counted(w), j) = Count(Loaded, j)
<1> DEFINE e == [at |-> hand[w].at, count |-> Count(Loaded, hand[w].job) + 1]
<1>1. hand[w].job \in Jobs /\ hand[w].at \in Times BY HandFields DEF Typed
<1>2. Count(Loaded, hand[w].job) + 1 \in Nat BY <1>1, LoadedTyped, CountTyped
<1>3. e \in Entry /\ e.at = hand[w].at /\ e.count = Count(Loaded, hand[w].job) + 1
  BY <1>1, <1>2 DEF Entry
<1>4. Counted(w) = [Loaded EXCEPT ![hand[w].job] = e] BY DEF Counted
<1>5. e # None BY <1>3, Constants
<1> HIDE DEF e
<1>6. Counted(w)[j] = IF j = hand[w].job THEN e ELSE Loaded[j]
  BY <1>4, LoadedTyped DEF Table
<1> QED BY <1>3, <1>5, <1>6 DEF Count

(* Until two writers meet, only a replacement changes what is read.        *)
LEMMA FileStands ==
    ASSUME Typed, Solo, NEW w \in Writers, "overlap" \notin slips,
           Load(w) \/ OpenTmp(w) \/ Fill(w)
    PROVE  file' = file
<1>1. CASE Fill(w) BY <1>1 DEF Solo, Fill
<1> QED BY <1>1 DEF Load, OpenTmp

(* While a result is written, its job and its time are the same.           *)
LEMMA WritingFresh ==
    ASSUME Typed, NEW w \in Writers, Load(w) \/ OpenTmp(w) \/ Fill(w)
    PROVE  /\ hand[w] # None /\ hand[w].stage # "run" /\ hand[w].job \in Jobs
           /\ hand'[w] # None /\ hand'[w].stage # "run"
           /\ hand'[w].job = hand[w].job /\ hand'[w].at = hand[w].at
           /\ \A v \in Writers \ {w} : hand'[v] = hand[v]
           /\ UNCHANGED <<clock, next, due, triggers, done, last, slips>>
<1>1. CASE Load(w) BY <1>1, LoadFresh
<1>2. CASE OpenTmp(w) BY <1>2, OpenTmpFresh
<1>3. CASE Fill(w) BY <1>3, FillFresh
<1> QED BY <1>1, <1>2, <1>3

(* Neither is anything of the future at first.                             *)
LEMMA InitPast == Init => Past /\ Apart
<1> SUFFICES ASSUME Init PROVE Past /\ Apart
  OBVIOUS
<1>1. file \notin Table /\ Loaded = Blank BY Constants DEF Init, Loaded
<1>2. \A w \in Writers : hand[w] = None BY DEF Init
<1>3. \A j \in Jobs : Loaded[j] = None BY <1>1 DEF Blank
<1>4. \A j \in Jobs : last[j] = None BY DEF Init
<1> QED BY <1>2, <1>3, <1>4, Constants DEF Past, Apart, Recording

(* Time passes, hands are dropped, jobs begin.                             *)
LEMMA QuietPast ==
    ASSUME Typed, Past, file' = file, slips \subseteq slips', clock' \in {clock, clock + 1},
           \A w \in Writers : Recording(w)' => Recording(w) /\ hand'[w].at = hand[w].at
    PROVE  Past'
<1>1. Loaded' = Loaded BY DEF Loaded
<1>2. clock \in Nat BY Constants DEF Typed, FilesTyped, Times
<1>3. \A w \in Writers : Recording(w) => hand[w].at \in Nat
  BY HandFields, Constants DEF Typed, Recording, Times
<1>4. \A w \in Writers : Recording(w)' => hand'[w].at <= clock'
  BY <1>2, <1>3 DEF Past
<1>5. ASSUME "overlap" \notin slips', NEW j \in Jobs, Loaded'[j] # None
      PROVE  /\ Loaded'[j].at <= clock'
             /\ \A w \in Writers : Recording(w)' => Loaded'[j].at <= hand'[w].at
  <2>1. Loaded[j] # None /\ Loaded[j].at \in Nat BY <1>1, <1>5, LoadedTyped, EntryTyped
  <2>2. Loaded[j].at <= clock /\ \A w \in Writers : Recording(w) => Loaded[j].at <= hand[w].at
    BY <1>5, <2>1 DEF Past
  <2> QED BY <1>1, <1>2, <2>1, <2>2
<1> QED BY <1>4, <1>5 DEF Past

(* A job that ends is not older than any entry.                            *)
LEMMA EndJobPast ==
    ASSUME Typed, Past, NEW w \in Writers, EndJob(w)
    PROVE  Past'
<1>1. Loaded' = Loaded /\ clock' = clock BY DEF EndJob, Loaded
<1>2. clock \in Nat BY Constants DEF Typed, FilesTyped, Times
<1>3. \A v \in Writers : Recording(v)' => hand'[v].at <= clock'
  BY <1>1, <1>2, EndJobFresh DEF Past, Recording
<1>4. ASSUME "overlap" \notin slips', NEW j \in Jobs, Loaded'[j] # None
      PROVE  /\ Loaded'[j].at <= clock'
             /\ \A v \in Writers : Recording(v)' => Loaded'[j].at <= hand'[v].at
  <2>1. "overlap" \notin slips /\ \A v \in Writers \ {w} : ~Recording(v) BY <1>4 DEF EndJob
  <2>2. \A v \in Writers : Recording(v)' => v = w BY <2>1, EndJobFresh DEF Recording
  <2>3. Loaded[j].at <= clock BY <1>1, <1>4, <2>1 DEF Past
  <2> QED BY <1>1, <2>2, <2>3, EndJobFresh
<1> QED BY <1>3, <1>4 DEF Past

(* Times stand while a result is written.                                  *)
LEMMA WritingPast ==
    ASSUME Typed, Solo, Past, NEW w \in Writers, Load(w) \/ OpenTmp(w) \/ Fill(w)
    PROVE  Past'
<1>1. \A v \in Writers : Recording(v)' => Recording(v) /\ hand'[v].at = hand[v].at
  BY WritingFresh DEF Recording
<1>2. slips' = slips /\ clock' = clock BY WritingFresh
<1>3. CASE "overlap" \notin slips BY <1>1, <1>2, <1>3, FileStands, QuietPast
<1>4. CASE "overlap" \in slips BY <1>1, <1>2, <1>4 DEF Past
<1> QED BY <1>3, <1>4

(* A replacement shows the time of a run that has ended.                   *)
LEMMA ReplacePast ==
    ASSUME Typed, Solo, Past, NEW w \in Writers, Replace(w)
    PROVE  Past'
<1>1. hand[w] # None /\ hand[w].stage = "filled" /\ clock' = clock /\ slips' = slips
  BY DEF Replace, At
<1>2. \A v \in Writers : Recording(v)' => Recording(v) /\ hand'[v].at = hand[v].at
  BY ReplaceTyped DEF Recording
<1>3. ASSUME "overlap" \notin slips, NEW j \in Jobs, Loaded'[j] # None
      PROVE  /\ Loaded'[j].at <= clock
             /\ \A v \in Writers : ~Recording(v)'
  <2>1. Loaded' = Counted(w) /\ \A v \in Writers : ~Recording(v)' BY <1>3, ReplaceAlone
  <2>2. CASE j = hand[w].job
    BY <1>1, <2>1, <2>2, CountedEntries DEF Past, Recording
  <2>3. CASE j # hand[w].job
    <3>1. Loaded'[j] = Loaded[j] BY <1>1, <2>1, <2>3, CountedEntries
    <3> QED BY <1>3, <2>1, <3>1 DEF Past
  <2> QED BY <2>1, <2>2, <2>3
<1> QED BY <1>1, <1>2, <1>3 DEF Past

(* What is due stays due, and the job in hand is no more.                  *)
LEMMA QuietApart ==
    ASSUME Typed, Apart, last' = last, slips \subseteq slips',
           clock' \in {clock, clock + 1}, due' \subseteq due,
           "overlap" \notin slips' => file' = file,
           hand'[Scheduler] # None => /\ hand[Scheduler] # None
                                      /\ hand'[Scheduler].job = hand[Scheduler].job
    PROVE  Apart'
<1>1. hand'[Scheduler] # None => hand'[Scheduler].job \notin due' BY DEF Apart
<1>2. ASSUME "overlap" \notin slips', NEW j \in Jobs, last'[j] # None
      PROVE  /\ Loaded'[j] # None /\ last'[j] <= Loaded'[j].at
             /\ j \in due' => clock' >= last'[j] + Interval[j]
  <2>1. Loaded' = Loaded BY <1>2 DEF Loaded
  <2>2. /\ Loaded[j] # None /\ last[j] <= Loaded[j].at
        /\ j \in due => clock >= last[j] + Interval[j]
    BY <1>2 DEF Apart
  <2>3. clock \in Nat /\ Interval[j] \in Nat /\ last[j] \in Nat
    BY <1>2, Constants DEF Typed, FilesTyped, LoopTyped, Times
  <2> QED BY <2>1, <2>2, <2>3
<1> QED BY <1>1, <1>2 DEF Apart

(* What is found due is due by the file.                                   *)
LEMMA LookApart ==
    ASSUME Typed, Apart, Look
    PROVE  Apart'
<1>1. /\ hand[Scheduler] = None /\ Loaded' = Loaded
      /\ due' = {j \in Jobs : Interval[j] > 0 /\ Hydrated[j] <= clock}
      /\ UNCHANGED <<clock, hand, last, slips>>
  BY DEF Look, Loaded
<1>2. ASSUME "overlap" \notin slips, NEW j \in Jobs, last[j] # None, j \in due'
      PROVE  clock >= last[j] + Interval[j]
  <2>1. Loaded[j] # None /\ last[j] <= Loaded[j].at BY <1>2 DEF Apart
  <2>2. Interval[j] > 0 /\ Hydrated[j] <= clock BY <1>1, <1>2
  <2>3. Hydrated[j] = Loaded[j].at + Interval[j] BY <2>1, <2>2 DEF Hydrated
  <2>4. clock \in Nat /\ Interval[j] \in Nat /\ last[j] \in Nat /\ Loaded[j].at \in Nat
    BY <1>2, <2>1, LoadedTyped, EntryTyped, Constants DEF Typed, FilesTyped, LoopTyped, Times
  <2> QED BY <2>1, <2>2, <2>3, <2>4
<1> QED BY <1>1, <1>2 DEF Apart

(* A job that begins is due no more.                                       *)
LEMMA StartDueApart ==
    ASSUME Typed, Apart, NEW j \in Jobs, StartDue(j)
    PROVE  Apart'
<1>1. Starts(Scheduler, j) /\ due' = due \ {j} /\ UNCHANGED <<clock, file, last, slips>>
  BY DEF StartDue, Starts
<1>2. hand'[Scheduler].job = j BY <1>1, StartsFresh, Constants
<1>3. Loaded' = Loaded BY <1>1 DEF Loaded
<1> QED BY <1>1, <1>2, <1>3 DEF Apart

(* A run that is recorded is the latest of its job.                        *)
LEMMA ReplaceApart ==
    ASSUME Typed, Solo, Past, Apart, NEW w \in Writers, Replace(w)
    PROVE  Apart'
<1>1. hand[w] # None /\ hand[w].stage = "filled" /\ UNCHANGED <<clock, due, slips>>
  BY DEF Replace, At
<1>2. hand'[Scheduler] # None => hand'[Scheduler].job \notin due'
  BY <1>1, ReplaceTyped, Constants DEF Apart
<1>3. ASSUME "overlap" \notin slips, NEW j \in Jobs, last'[j] # None
      PROVE  /\ Loaded'[j] # None /\ last'[j] <= Loaded'[j].at
             /\ j \in due' => clock' >= last'[j] + Interval[j]
  <2>1. Loaded' = Counted(w) BY <1>3, ReplaceAlone
  <2>2. hand[w].job \in Jobs /\ hand[w].at \in Nat /\ last \in [Jobs -> {None} \cup Times]
    BY <1>1, HandFields, Constants DEF Typed, LoopTyped, Times
  <2>3. CASE j # hand[w].job
    <3>1. last'[j] = last[j] BY <2>2, <2>3 DEF Replace
    <3>2. Loaded'[j] = Loaded[j] BY <1>1, <2>1, <2>3, CountedEntries
    <3> QED BY <1>1, <1>3, <3>1, <3>2 DEF Apart
  <2>4. CASE j = hand[w].job
    <3>1. Loaded'[j] # None /\ Loaded'[j].at = hand[w].at BY <1>1, <2>1, <2>4, CountedEntries
    <3>2. CASE w = Scheduler
      <4>1. last'[j] = hand[w].at BY <2>2, <2>4, <3>2 DEF Replace
      <4>2. j \notin due' BY <1>1, <2>4, <3>2 DEF Apart
      <4> QED BY <2>2, <3>1, <4>1, <4>2
    <3>3. CASE w # Scheduler
      <4>1. last' = last BY <3>3 DEF Replace
      <4>2. /\ Loaded[j] # None /\ last[j] <= Loaded[j].at
            /\ j \in due => clock >= last[j] + Interval[j]
        BY <1>3, <4>1 DEF Apart
      <4>3. Loaded[j].at <= hand[w].at BY <1>1, <1>3, <4>2 DEF Past, Recording
      <4>4. last[j] \in Nat /\ Loaded[j].at \in Nat
        BY <1>3, <2>2, <4>1, <4>2, LoadedTyped, EntryTyped, Constants DEF Times
      <4> QED BY <1>1, <2>2, <3>1, <4>1, <4>2, <4>3, <4>4
    <3> QED BY <3>2, <3>3
  <2> QED BY <2>3, <2>4
<1> QED BY <1>1, <1>2, <1>3 DEF Apart
-----------------------------------------------------------------------------
(* Counts                                                                  *)

\* Runs that have ended and of which nobody has loaded a count.
Ran(j) == {w \in Writers : At(w, "ran") /\ hand[w].job = j}

\* Whatever may become the file.
Shown(T) == T = file \/ T = tmp \/ T = Blank \/ \E w \in Writers : Holds(w) /\ T = hand[w].payload

Bounded ==
    \A j \in Jobs, T \in Table : Shown(T) => Count(T, j) + Cardinality(Ran(j)) <= done[j]

\* The runs of j that somebody records: with nobody beside, one at most.
Held(j) == \E w \in Writers : Recording(w) /\ hand[w].job = j

Exact ==
    slips = {} => \A j \in Jobs : done[j] = Count(Loaded, j) + (IF Held(j) THEN 1 ELSE 0)

(* Sets of writers are finite.                                             *)
LEMMA RanFinite ==
    ASSUME NEW j
    PROVE  IsFiniteSet(Ran(j)) /\ Cardinality(Ran(j)) \in Nat
<1>1. Ran(j) \subseteq Writers BY DEF Ran
<1>2. IsFiniteSet(Ran(j)) BY <1>1, Constants, FS_Subset
<1> QED BY <1>2, FS_CardinalityType

(* Nothing has run and nothing is counted at first.                        *)
LEMMA InitCounts == Init => Bounded /\ Exact
<1> SUFFICES ASSUME Init PROVE Bounded /\ Exact
  OBVIOUS
<1>1. \A w \in Writers : hand[w] = None BY DEF Init
<1>2. file = None /\ tmp = None /\ \A j \in Jobs : done[j] = 0 BY DEF Init
<1>3. \A j \in Jobs : Count(Blank, j) = 0 BY DEF Count, Blank
<1>4. Bounded
  <2> SUFFICES ASSUME NEW j \in Jobs, NEW T \in Table, Shown(T)
               PROVE  Count(T, j) + Cardinality(Ran(j)) <= done[j]
    BY DEF Bounded
  <2>1. T = Blank BY <1>1, <1>2, Constants DEF Shown, Holds
  <2>2. Ran(j) = {} BY <1>1 DEF Ran, At
  <2>3. Cardinality(Ran(j)) = 0 BY <2>2, FS_EmptySet
  <2> QED BY <1>2, <1>3, <2>1, <2>3
<1>5. Exact
  <2>1. Loaded = Blank BY <1>2, Constants DEF Loaded
  <2>2. \A j \in Jobs : ~Held(j) BY <1>1 DEF Held, Recording
  <2> QED BY <1>2, <1>3, <2>1, <2>2 DEF Exact
<1> QED BY <1>4, <1>5

(* What shows no new table and ends no job stays within the bound.         *)
LEMMA QuietBounded ==
    ASSUME Typed, Bounded, done' = done,
           \A T \in Table : Shown(T)' => Shown(T),
           \A w \in Writers : At(w, "ran")' => At(w, "ran") /\ hand'[w].job = hand[w].job
    PROVE  Bounded'
<1> SUFFICES ASSUME NEW j \in Jobs, NEW T \in Table, Shown(T)'
             PROVE  Count(T, j) + Cardinality(Ran(j)') <= done[j]
  BY DEF Bounded, Count
<1>1. Ran(j)' \subseteq Ran(j) BY DEF Ran
<1>2. Cardinality(Ran(j)') <= Cardinality(Ran(j)) /\ Cardinality(Ran(j)') \in Nat
  <2>1. IsFiniteSet(Ran(j)') BY <1>1, RanFinite, FS_Subset
  <2> QED BY <1>1, <2>1, RanFinite, FS_Subset, FS_CardinalityType
<1>3. Count(T, j) + Cardinality(Ran(j)) <= done[j] BY DEF Bounded
<1>4. Count(T, j) \in Nat /\ Cardinality(Ran(j)) \in Nat /\ done[j] \in Nat
  BY CountTyped, RanFinite DEF Typed, LoopTyped
<1> QED BY <1>2, <1>3, <1>4

(* Dropped hands count nothing.                                            *)
LEMMA DropsBounded ==
    ASSUME Typed, Bounded, Drops
    PROVE  Bounded'
<1>1. \A w \in Writers : hand'[w] # None => hand'[w] = hand[w] BY DEF Drops
<1>2. \A T \in Table : Shown(T)' => Shown(T) BY <1>1 DEF Drops, Shown, Holds, Blank
<1>3. \A w \in Writers : At(w, "ran")' => At(w, "ran") /\ hand'[w].job = hand[w].job
  BY <1>1 DEF At
<1> QED BY <1>2, <1>3, QuietBounded DEF Drops

(* A job that begins counts nothing.                                       *)
LEMMA StartsBounded ==
    ASSUME Typed, Bounded, NEW w \in Writers, NEW j \in Jobs, Starts(w, j)
    PROVE  Bounded'
<1>1. /\ hand'[w].stage = "run"
      /\ \A v \in Writers \ {w} : hand'[v] = hand[v]
  BY StartsFresh
<1>2. \A v \in Writers : Holds(v)' => Holds(v) /\ hand'[v] = hand[v]
  BY <1>1 DEF Holds, TableStages
<1>3. \A T \in Table : Shown(T)' => Shown(T) BY <1>2 DEF Starts, Shown, Blank
<1>4. \A v \in Writers : At(v, "ran")' => At(v, "ran") /\ hand'[v].job = hand[v].job
  BY <1>1 DEF At
<1> QED BY <1>3, <1>4, QuietBounded DEF Starts

(* A run that has ended may be counted.                                    *)
LEMMA EndJobBounded ==
    ASSUME Typed, Bounded, NEW w \in Writers, EndJob(w)
    PROVE  Bounded'
<1> SUFFICES ASSUME NEW j \in Jobs, NEW T \in Table, Shown(T)'
             PROVE  Count(T, j) + Cardinality(Ran(j)') <= done'[j]
  BY DEF Bounded, Count
<1>1. /\ hand[w].job \in Jobs /\ hand[w].stage = "run"
      /\ hand'[w] # None /\ hand'[w].stage = "ran" /\ hand'[w].job = hand[w].job
      /\ \A v \in Writers \ {w} : hand'[v] = hand[v]
  BY EndJobFresh
<1>2. file' = file /\ tmp' = tmp BY DEF EndJob
<1>3. \A v \in Writers : Holds(v)' => Holds(v) /\ hand'[v] = hand[v]
  BY <1>1 DEF Holds, TableStages
<1>4. Shown(T) BY <1>2, <1>3 DEF Shown, Blank
<1>5. Count(T, j) + Cardinality(Ran(j)) <= done[j] BY <1>4 DEF Bounded
<1>6. Count(T, j) \in Nat /\ Cardinality(Ran(j)) \in Nat /\ done \in [Jobs -> Nat]
  BY CountTyped, RanFinite DEF Typed, LoopTyped
<1>7. CASE j = hand[w].job
  <2>1. Ran(j)' = Ran(j) \cup {w} BY <1>1, <1>7 DEF Ran, At
  <2>2. w \notin Ran(j) BY <1>1 DEF Ran, At
  <2>3. Cardinality(Ran(j)') = Cardinality(Ran(j)) + 1 BY <2>1, <2>2, RanFinite, FS_AddElement
  <2>4. done'[j] = done[j] + 1 BY <1>6, <1>7 DEF EndJob
  <2> QED BY <1>5, <1>6, <2>3, <2>4
<1>8. CASE j # hand[w].job
  <2>1. Ran(j)' = Ran(j) BY <1>1, <1>8 DEF Ran, At
  <2>2. done'[j] = done[j] BY <1>6, <1>8 DEF EndJob
  <2> QED BY <1>5, <2>1, <2>2
<1> QED BY <1>7, <1>8

(* Counting a run uses it up.                                              *)
LEMMA LoadBounded ==
    ASSUME Typed, Bounded, NEW w \in Writers, Load(w)
    PROVE  Bounded'
<1> SUFFICES ASSUME NEW j \in Jobs, NEW T \in Table, Shown(T)'
             PROVE  Count(T, j) + Cardinality(Ran(j)') <= done[j]
  BY LoadFresh DEF Bounded, Count
<1>1. /\ hand[w] # None /\ hand[w].stage = "ran" /\ hand[w].job \in Jobs
      /\ hand'[w] # None /\ hand'[w].stage = "loaded" /\ hand'[w].payload = Counted(w)
      /\ \A v \in Writers \ {w} : hand'[v] = hand[v]
      /\ file' = file /\ tmp' = tmp
  BY LoadFresh
<1>2. Shown(T) \/ T = Counted(w)
  <2>1. \A v \in Writers : Holds(v)' => v = w \/ (Holds(v) /\ hand'[v] = hand[v])
    BY <1>1 DEF Holds
  <2> QED BY <1>1, <2>1 DEF Shown, Blank
<1>3. Shown(Loaded) BY DEF Loaded, Shown
<1>4. Ran(j)' = IF j = hand[w].job THEN Ran(j) \ {w} ELSE Ran(j)
  <2>1. ~At(w, "ran")' /\ At(w, "ran") BY <1>1 DEF At
  <2>2. \A v \in Writers \ {w} : At(v, "ran")' <=> At(v, "ran") BY <1>1 DEF At
  <2> QED BY <1>1, <2>1, <2>2 DEF Ran
<1>5. Cardinality(Ran(j)') = IF j = hand[w].job THEN Cardinality(Ran(j)) - 1 ELSE Cardinality(Ran(j))
  <2>1. j = hand[w].job => w \in Ran(j) BY <1>1 DEF Ran, At
  <2> QED BY <1>4, <2>1, RanFinite, FS_RemoveElement
<1>6. /\ Count(T, j) \in Nat /\ Count(Loaded, j) \in Nat
      /\ Cardinality(Ran(j)) \in Nat /\ done[j] \in Nat
  BY LoadedTyped, CountTyped, RanFinite DEF Typed, LoopTyped
<1>7. CASE Shown(T)
  <2>1. Count(T, j) + Cardinality(Ran(j)) <= done[j] BY <1>7 DEF Bounded
  <2> QED BY <1>5, <1>6, <2>1
<1>8. CASE T = Counted(w)
  <2>1. Count(Loaded, j) + Cardinality(Ran(j)) <= done[j] BY <1>3, LoadedTyped DEF Bounded
  <2>2. Count(T, j) = IF j = hand[w].job THEN Count(Loaded, j) + 1 ELSE Count(Loaded, j)
    BY <1>1, <1>8, CountedEntries
  <2> QED BY <1>5, <1>6, <2>1, <2>2
<1> QED BY <1>2, <1>7, <1>8

(* Copies count what their writer has counted.                             *)
LEMMA CopyBounded ==
    ASSUME Typed, Bounded, NEW w \in Writers, OpenTmp(w) \/ Fill(w)
    PROVE  Bounded'
<1>1. /\ hand'[w].payload = hand[w].payload /\ hand[w] # None
      /\ hand'[w].stage # "ran" /\ hand[w].stage \in {"loaded", "open"}
      /\ \A v \in Writers \ {w} : hand'[v] = hand[v]
      /\ done' = done
  <2>1. CASE OpenTmp(w) BY <2>1, OpenTmpFresh
  <2>2. CASE Fill(w) BY <2>2, FillFresh
  <2> QED BY <2>1, <2>2
<1>2. \A v \in Writers : Holds(v)' => Holds(v) /\ hand'[v].payload = hand[v].payload
  BY <1>1 DEF Holds, TableStages
<1>3. Holds(w) BY <1>1 DEF Holds, TableStages
<1>4. \A T \in Table : T = file' \/ T = tmp' => T = file \/ T = tmp \/ T = hand[w].payload
  <2>1. CASE OpenTmp(w) BY <2>1, Constants DEF OpenTmp
  <2>2. CASE Fill(w) BY <2>2, Constants DEF Fill, Over
  <2> QED BY <2>1, <2>2
<1>5. \A T \in Table : Shown(T)' => Shown(T) BY <1>2, <1>3, <1>4 DEF Shown, Blank
<1>6. \A v \in Writers : At(v, "ran")' => At(v, "ran") /\ hand'[v].job = hand[v].job
  BY <1>1 DEF At
<1> QED BY <1>1, <1>5, <1>6, QuietBounded

(* The file counts what the copy did.                                      *)
LEMMA ReplaceBounded ==
    ASSUME Typed, Bounded, NEW w \in Writers, Replace(w)
    PROVE  Bounded'
<1>1. file' = tmp /\ tmp' = None /\ done' = done BY DEF Replace
<1>2. \A v \in Writers : Holds(v)' => Holds(v) /\ hand'[v].payload = hand[v].payload
  BY ReplaceTyped DEF Holds
<1>3. \A T \in Table : Shown(T)' => Shown(T) BY <1>1, <1>2, Constants DEF Shown, Blank
<1>4. \A v \in Writers : At(v, "ran")' => At(v, "ran") /\ hand'[v].job = hand[v].job
  BY ReplaceTyped DEF At
<1> QED BY <1>1, <1>3, <1>4, QuietBounded

(* Exact as long as nothing went wrong.                                    *)
LEMMA QuietExact ==
    ASSUME Exact, done' = done, slips \subseteq slips', slips' = {} => file' = file,
           slips' = {} => \A w \in Writers :
                /\ Recording(w)' <=> Recording(w)
                /\ Recording(w) => hand'[w].job = hand[w].job
    PROVE  Exact'
<1> SUFFICES ASSUME slips' = {}, NEW j \in Jobs
             PROVE  done'[j] = Count(Loaded', j) + (IF Held(j)' THEN 1 ELSE 0)
  BY DEF Exact, Count
<1>1. slips = {} OBVIOUS
<1>2. Loaded' = Loaded BY DEF Loaded
<1>3. Held(j)' <=> Held(j) BY DEF Held
<1> QED BY <1>1, <1>2, <1>3 DEF Exact

(* A run that has ended is somebody's to record.                           *)
LEMMA EndJobExact ==
    ASSUME Typed, Exact, NEW w \in Writers, EndJob(w)
    PROVE  Exact'
<1> SUFFICES ASSUME slips' = {}, NEW j \in Jobs
             PROVE  done'[j] = Count(Loaded', j) + (IF Held(j)' THEN 1 ELSE 0)
  BY DEF Exact, Count
<1>1. slips = {} /\ \A v \in Writers \ {w} : ~Recording(v) BY DEF EndJob
<1>2. /\ hand[w].stage = "run" /\ hand'[w] # None /\ hand'[w].stage = "ran"
      /\ hand'[w].job = hand[w].job /\ hand[w].job \in Jobs
      /\ \A v \in Writers \ {w} : hand'[v] = hand[v]
  BY EndJobFresh
<1>3. ~Held(j) BY <1>1, <1>2 DEF Held, Recording
<1>4. Held(j)' <=> j = hand[w].job BY <1>1, <1>2 DEF Held, Recording
<1>5. Loaded' = Loaded /\ done' = [done EXCEPT ![hand[w].job] = @ + 1] BY DEF EndJob, Loaded
<1>6. done[j] = Count(Loaded, j) /\ Count(Loaded, j) \in Nat
  BY <1>1, <1>3, LoadedTyped, CountTyped DEF Exact
<1> QED BY <1>2, <1>4, <1>5, <1>6 DEF Typed, LoopTyped

(* A run that is recorded is counted.                                      *)
LEMMA ReplaceExact ==
    ASSUME Typed, Solo, Exact, NEW w \in Writers, Replace(w)
    PROVE  Exact'
<1> SUFFICES ASSUME slips' = {}, NEW j \in Jobs
             PROVE  done'[j] = Count(Loaded', j) + (IF Held(j)' THEN 1 ELSE 0)
  BY DEF Exact, Count
<1>1. slips = {} /\ done' = done BY DEF Replace
<1>2. Loaded' = Counted(w) /\ (\A v \in Writers : ~Recording(v)')
      /\ \A v \in Writers : Recording(v) => v = w
  BY <1>1, ReplaceAlone
<1>3. hand[w] # None /\ Recording(w) BY DEF Replace, At, Recording
<1>4. Held(j) <=> j = hand[w].job BY <1>2, <1>3 DEF Held
<1>5. ~Held(j)' BY <1>2 DEF Held
<1>6. done[j] = Count(Loaded, j) + (IF Held(j) THEN 1 ELSE 0) BY <1>1 DEF Exact
<1>7. Count(Loaded, j) \in Nat BY LoadedTyped, CountTyped
<1>8. Count(Loaded', j) = IF j = hand[w].job THEN Count(Loaded, j) + 1 ELSE Count(Loaded, j)
  BY <1>2, <1>3, CountedEntries
<1> QED BY <1>1, <1>4, <1>5, <1>6, <1>7, <1>8
-----------------------------------------------------------------------------
IInv == Typed /\ Solo /\ Past /\ Apart /\ Bounded /\ Exact

(* The invariant holds at first.                                           *)
LEMMA InitIInv == Init => IInv
<1> QED BY InitTyped, InitSolo, InitPast, InitCounts DEF IInv

(* A process or the clock: hands are dropped at most.                      *)
LEMMA EndsIInv == IInv /\ Ends => IInv'
<1> SUFFICES ASSUME IInv, Ends PROVE IInv'
  OBVIOUS
<1>1. Drops /\ Typed' /\ due' \subseteq due /\ clock' \in {clock, clock + 1}
  BY EndsDrop DEF IInv
<1>2. \A w \in Writers : hand'[w] # None => hand'[w] = hand[w] BY <1>1 DEF Drops
<1>3. /\ UNCHANGED <<file, tmp, done, last>> /\ slips \subseteq slips' BY <1>1 DEF Drops
<1>4. Solo' /\ Bounded' BY <1>1, DropsSolo, DropsBounded DEF IInv
<1>5. Past' BY <1>1, <1>2, <1>3, QuietPast DEF IInv, Recording
<1>6. Apart' BY <1>1, <1>2, <1>3, QuietApart, Constants DEF IInv
<1>7. Exact'
  <2>1. slips' = {} => \A w \in Writers : Recording(w) => hand'[w] # None BY <1>1 DEF Drops
  <2>2. slips' = {} => \A w \in Writers : /\ Recording(w)' <=> Recording(w)
                                          /\ Recording(w) => hand'[w].job = hand[w].job
    BY <1>2, <2>1 DEF Recording
  <2> QED BY <1>3, <2>2, QuietExact DEF IInv
<1> QED BY <1>1, <1>4, <1>5, <1>6, <1>7 DEF IInv

(* A job begins, in the scheduler or in the API.                           *)
LEMMA StartsIInv ==
    ASSUME IInv, NEW w \in Writers, NEW j \in Jobs, Starts(w, j), Typed', Apart'
    PROVE  IInv'
<1>1. /\ hand[w] = None /\ hand'[w].stage = "run"
      /\ \A v \in Writers \ {w} : hand'[v] = hand[v]
  BY StartsFresh DEF IInv, Starts
<1>2. \A v \in Writers : (Recording(v)' <=> Recording(v)) /\ (Recording(v) => hand'[v] = hand[v])
  BY <1>1 DEF Recording
<1>3. UNCHANGED <<file, tmp, done, last, clock, slips>> BY DEF Starts
<1>4. Solo' /\ Bounded' BY StartsSolo, StartsBounded DEF IInv
<1>5. clock \in Nat BY Constants DEF IInv, Typed, FilesTyped, Times
<1>6. Past' BY <1>2, <1>3, QuietPast DEF IInv
<1>7. Exact' BY <1>2, <1>3, QuietExact DEF IInv
<1> QED BY <1>4, <1>6, <1>7 DEF IInv

(* The loop of the scheduler and the route of the API.                     *)
LEMMA LoopIInv ==
    ASSUME IInv, \/ Look
                 \/ \E j \in Jobs : StartDue(j)
                 \/ \E w \in ApiThreads, j \in Jobs : Trigger(w, j)
    PROVE  IInv'
<1>1. Typed' BY LoopSteps DEF IInv
<1>2. CASE Look
  <2>1. /\ UNCHANGED <<clock, file, tmp, hand, done, last, slips>> BY <1>2 DEF Look
  <2>2. Drops BY <2>1 DEF IInv, Typed, HandTyped, LoopTyped, Drops, Recording
  <2>3. Solo' /\ Bounded' BY <2>2, DropsSolo, DropsBounded DEF IInv
  <2>4. \A w \in Writers : (Recording(w)' <=> Recording(w)) /\ hand'[w] = hand[w]
    BY <2>1 DEF Recording
  <2>5. Past' BY <2>1, <2>4, QuietPast DEF IInv
  <2>6. Exact' BY <2>1, <2>4, QuietExact DEF IInv
  <2>7. Apart' BY <1>2, LookApart DEF IInv
  <2> QED BY <1>1, <2>3, <2>5, <2>6, <2>7 DEF IInv
<1>3. ASSUME NEW j \in Jobs, StartDue(j) PROVE IInv'
  <2>1. Starts(Scheduler, j) BY <1>3 DEF StartDue, Starts
  <2>2. Apart' BY <1>3, StartDueApart DEF IInv
  <2> QED BY <1>1, <2>1, <2>2, StartsIInv, Constants
<1>4. ASSUME NEW w \in ApiThreads, NEW j \in Jobs, Trigger(w, j) PROVE IInv'
  <2>1. Starts(w, j) /\ w \in Writers /\ w # Scheduler /\ due' = due
    BY <1>4, JobAssumption DEF Trigger, Starts, Writers
  <2>2. hand'[Scheduler] = hand[Scheduler] BY <2>1, StartsFresh, Constants DEF IInv
  <2>3. UNCHANGED <<file, last, clock, slips>> BY <2>1 DEF Starts
  <2>4. Apart' BY <2>1, <2>2, <2>3, QuietApart DEF IInv
  <2> QED BY <1>1, <2>1, <2>4, StartsIInv
<1> QED BY <1>2, <1>3, <1>4

(* The recording of a result, step by step.                                *)
LEMMA RecordIInv ==
    ASSUME IInv, NEW w \in Writers,
           EndJob(w) \/ Load(w) \/ OpenTmp(w) \/ Fill(w) \/ Replace(w)
    PROVE  IInv'
<1>1. Typed' BY RecordSteps DEF IInv
<1>2. CASE EndJob(w)
  <2>1. Solo' /\ Past' /\ Bounded' /\ Exact'
    BY <1>2, EndJobSolo, EndJobPast, EndJobBounded, EndJobExact DEF IInv
  <2>2. UNCHANGED <<clock, file, due, last>> /\ slips \subseteq slips' BY <1>2 DEF EndJob
  <2>3. hand'[Scheduler] # None => hand[Scheduler] # None /\ hand'[Scheduler].job = hand[Scheduler].job
    BY <1>2, EndJobFresh, Constants DEF IInv
  <2>4. Apart' BY <2>2, <2>3, QuietApart DEF IInv
  <2> QED BY <1>1, <2>1, <2>4 DEF IInv
<1>3. CASE Load(w) \/ OpenTmp(w) \/ Fill(w)
  <2>1. /\ hand[w] # None /\ hand[w].stage # "run" /\ hand'[w] # None /\ hand'[w].stage # "run"
        /\ hand'[w].job = hand[w].job
        /\ \A v \in Writers \ {w} : hand'[v] = hand[v]
        /\ UNCHANGED <<clock, next, due, triggers, done, last, slips>>
    BY <1>3, WritingFresh DEF IInv
  <2>2. Solo' /\ Past' BY <1>3, WritingSolo, WritingPast DEF IInv
  <2>3. Bounded' BY <1>3, LoadBounded, CopyBounded DEF IInv
  <2>4. "overlap" \notin slips => file' = file BY <1>3, FileStands DEF IInv
  <2>5. hand'[Scheduler] # None => hand[Scheduler] # None /\ hand'[Scheduler].job = hand[Scheduler].job
    BY <2>1, Constants
  <2>6. Apart' BY <2>1, <2>4, <2>5, QuietApart DEF IInv
  <2>7. Exact'
    <3>1. done' = done /\ slips \subseteq slips' /\ (slips' = {} => file' = file) BY <2>1, <2>4
    <3>2. slips' = {} => \A v \in Writers : /\ Recording(v)' <=> Recording(v)
                                            /\ Recording(v) => hand'[v].job = hand[v].job
      BY <2>1 DEF Recording
    <3>3. Exact BY DEF IInv
    <3> QED BY ONLY <3>1, <3>2, <3>3, QuietExact
  <2> QED BY <1>1, <2>2, <2>3, <2>6, <2>7 DEF IInv
<1>4. CASE Replace(w)
  <2>1. Solo' /\ Past' /\ Apart' /\ Bounded' /\ Exact'
    BY <1>4, ReplaceSolo, ReplacePast, ReplaceApart, ReplaceBounded, ReplaceExact DEF IInv
  <2> QED BY <1>1, <2>1 DEF IInv
<1> QED BY <1>2, <1>3, <1>4

(* Every step keeps the invariant.                                         *)
LEMMA NextIInv == IInv /\ [Next]_vars => IInv'
<1> SUFFICES ASSUME IInv, [Next]_vars PROVE IInv'
  OBVIOUS
<1>1. CASE Look \/ (\E j \in Jobs : StartDue(j)) \/ (\E w \in ApiThreads, j \in Jobs : Trigger(w, j))
  BY <1>1, LoopIInv
<1>2. ASSUME NEW w \in Writers, Record(w) PROVE IInv'
  <2>1. CASE ReplaceFails(w) BY <2>1, EndsIInv DEF Ends
  <2> QED BY <1>2, <2>1, RecordIInv DEF Record
<1>3. CASE Tick \/ Supervise \/ (\E c \in Children : Die(c) \/ EndsInTime(c))
           \/ (Signal /\ UNCHANGED schedulerVars) \/ Restart
  BY <1>3, EndsIInv DEF Ends
<1>4. CASE UNCHANGED vars
  <2>1. UNCHANGED <<clock, file, tmp, hand, next, due, triggers, done, last, slips,
                    up, stopping, cause, status, signalled, deaths>>
    BY <1>4 DEF vars, schedulerVars, supervisorVars
  <2>2. Typed'
    BY <2>1 DEF IInv, Typed, SupervisorTypeOK, HandTyped, Alive, FilesTyped, LoopTyped
  <2>3. Drops BY <2>1 DEF IInv, Typed, HandTyped, LoopTyped, Drops, Recording
  <2>4. Solo' /\ Bounded' BY <2>3, DropsSolo, DropsBounded DEF IInv
  <2>5. \A w \in Writers : (Recording(w)' <=> Recording(w)) /\ hand'[w] = hand[w]
    BY <2>1 DEF Recording
  <2>6. Past' BY <2>1, <2>5, QuietPast DEF IInv
  <2>7. Exact' BY <2>1, <2>5, QuietExact DEF IInv
  <2>8. Apart' BY <2>1, QuietApart DEF IInv
  <2> QED BY <2>2, <2>4, <2>6, <2>7, <2>8 DEF IInv
<1> QED BY <1>1, <1>2, <1>3, <1>4 DEF Next

(* The invariant holds for ever.                                           *)
LEMMA Invariance == Spec => []IInv
<1> QED BY InitIInv, NextIInv, PTL DEF Spec
-----------------------------------------------------------------------------
(* Every variable keeps its type, and only processes that run have a job   *)
(* in hand.                                                                *)
THEOREM TypeCorrect == Spec => []TypeOK
<1>1. IInv => TypeOK BY TypeParts DEF IInv
<1> QED BY <1>1, Invariance, PTL

(* os.replace fails only after two writers have recorded at once: whoever  *)
(* records alone has filled the copy that it then moves.                   *)
THEOREM FailuresAreOverlaps == Spec => []OnlyOverlapFails
<1>1. IInv => OnlyOverlapFails BY FailureIsOverlap DEF IInv, OnlyOverlapFails
<1> QED BY <1>1, Invariance, PTL

(* scheduler.json never counts a run that has not ended, and where writers *)
(* kept apart and nobody was stopped it counts them all.                   *)
THEOREM CountsKept == Spec => []CountsAreRuns
<1>1. IInv => CountsAreRuns
  <2> SUFFICES ASSUME IInv, NEW j \in Jobs
               PROVE  /\ Count(Loaded, j) <= done[j]
                      /\ slips = {} => Count(Loaded, j)
                            + Cardinality({w \in Writers : Recording(w) /\ hand[w].job = j}) = done[j]
    BY DEF CountsAreRuns
  <2>1. Shown(Loaded) BY DEF Loaded, Shown
  <2>2. Count(Loaded, j) + Cardinality(Ran(j)) <= done[j] BY <2>1, LoadedTyped DEF IInv, Bounded
  <2>3. Count(Loaded, j) \in Nat /\ Cardinality(Ran(j)) \in Nat /\ done[j] \in Nat
    BY LoadedTyped, CountTyped, RanFinite DEF IInv, Typed, LoopTyped
  <2>4. Count(Loaded, j) <= done[j] BY <2>2, <2>3
  <2>5. ASSUME slips = {}
        PROVE  Count(Loaded, j)
                  + Cardinality({w \in Writers : Recording(w) /\ hand[w].job = j}) = done[j]
    <3> DEFINE W == {w \in Writers : Recording(w) /\ hand[w].job = j}
    <3>1. \A v, w \in W : v = w BY <2>5 DEF IInv, Solo
    <3>2. CASE Held(j)
      <4>1. PICK w \in Writers : Recording(w) /\ hand[w].job = j BY <3>2 DEF Held
      <4>2. W = {w} BY <3>1, <4>1
      <4>3. Cardinality(W) = 1 BY <4>2, FS_Singleton
      <4> QED BY <2>3, <2>5, <3>2, <4>3 DEF IInv, Exact
    <3>3. CASE ~Held(j)
      <4>1. W = {} BY <3>3 DEF Held
      <4>2. Cardinality(W) = 0 BY <4>1, FS_EmptySet
      <4> QED BY <2>3, <2>5, <3>3, <4>2 DEF IInv, Exact
    <3> QED BY <3>2, <3>3
  <2> QED BY <2>4, <2>5
<1> QED BY <1>1, Invariance, PTL

(* The scheduler leaves the interval between two runs of a job, across     *)
(* restarts, for what is due is due by the file, and the file is not older *)
(* than the last run unless two writers recorded at once.                  *)
THEOREM IntervalsKept == Spec => NotTooSoon
<1>1. ASSUME IInv, Next, NEW j \in Jobs, hand[Scheduler] = None, hand'[Scheduler] # None,
             hand'[Scheduler].job = j, last[j] # None, "overlap" \notin slips
      PROVE  clock >= last[j] + Interval[j]
  <2>1. ~Ends /\ ~Look
    BY <1>1, EndsDrop, Constants DEF IInv, Drops, Look
  <2>2. ASSUME NEW w \in ApiThreads, NEW k \in Jobs, Trigger(w, k) PROVE FALSE
    <3>1. w \in Writers /\ w # Scheduler /\ Starts(w, k)
      BY <2>2, JobAssumption DEF Writers, Trigger, Starts
    <3>2. hand'[Scheduler] = hand[Scheduler] BY <1>1, <3>1, StartsFresh, Constants DEF IInv
    <3> QED BY <1>1, <3>2
  <2>3. ASSUME NEW w \in Writers, EndJob(w) \/ Load(w) \/ OpenTmp(w) \/ Fill(w) \/ Replace(w)
        PROVE  FALSE
    <3>1. CASE EndJob(w) BY <1>1, <3>1, EndJobFresh, Constants DEF IInv
    <3>2. CASE Replace(w) BY <1>1, <3>2, ReplaceTyped, Constants DEF IInv
    <3>3. CASE Load(w) \/ OpenTmp(w) \/ Fill(w)
      BY <1>1, <3>3, WritingFresh, Constants DEF IInv
    <3> QED BY <2>3, <3>1, <3>2, <3>3
  <2>4. PICK k \in Jobs : StartDue(k) BY <1>1, <2>1, <2>2, <2>3 DEF Next, Ends, Record
  <2>5. k = j
    <3>1. Starts(Scheduler, k) BY <2>4 DEF StartDue, Starts
    <3> QED BY <1>1, <3>1, StartsFresh, Constants DEF IInv
  <2>6. j \in due BY <2>4, <2>5 DEF StartDue
  <2> QED BY <1>1, <2>6 DEF IInv, Apart
<1>2. IInv /\ [Next]_vars =>
        [\A j \in Jobs :
            /\ hand[Scheduler] = None /\ hand'[Scheduler] # None /\ hand'[Scheduler].job = j
            /\ last[j] # None /\ "overlap" \notin slips
            => clock >= last[j] + Interval[j]]_vars
  BY <1>1
<1> QED BY <1>2, Invariance, PTL DEF Spec, NotTooSoon
=============================================================================
