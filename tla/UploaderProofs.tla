--------------------------- MODULE UploaderProofs ---------------------------
(* Proofs about Uploader, for any number of jobs and runs: a run that goes on *)
(* can be stopped, unless a Stop missed it or a stopped run failed late.      *)
EXTENDS Uploader, SequenceTheorems, TLAPS

-----------------------------------------------------------------------------
(* The inductive invariant. *)

Alive(r) == run[r].at # "ended" /\ ~run[r].aborted

Live(j) == {r \in DOMAIN run : run[r].job = j /\ Alive(r)}

\* No Stop of the job found nothing to stop, and no stopped run of it failed late.
Good(j) == j \notin missed /\ \A q \in late : JobOf(q) # j

\* The batch has still to start a run of the job.
NextTurn == IF awaited = None THEN turn ELSE turn + 1
Waiting(j) == turn > 0 /\ \E i \in NextTurn .. Len(Batch) : Batch[i] = j

StartInv ==
    /\ turn = 0 => run = <<>> /\ held = {}
    /\ awaited # None => turn \in 1 .. Len(Batch)

RunsInv ==
    /\ late \subseteq DOMAIN run
    /\ \A r \in DOMAIN run : run[r].at = "parsing" => ~run[r].aborted

\* A stored controller is that of a run of the job which can still be stopped.
ControlInv ==
    \A j \in Jobs : control[j] # None =>
        control[j] \in Live(j) /\ run[control[j]].at # "parsing"

\* A job has one run at a time, whose controller is stored once it is parsed,
\* and none while it waits its turn; meanwhile it shows that it runs, so that it
\* cannot be retried.
JobInv(j) ==
    /\ \A r, q \in Live(j) : r = q
    /\ \A r \in Live(j) : run[r].at # "parsing" => control[j] = r
    /\ Live(j) # {} \/ Waiting(j) => status[j] \in Running
    /\ Waiting(j) => Live(j) = {}

PageInv ==
    /\ TypeOK /\ StartInv /\ RunsInv /\ ControlInv
    /\ \A j \in Jobs : Good(j) => JobInv(j)

-----------------------------------------------------------------------------
(* What becomes of the runs. *)

LEMMA RunType ==
    ASSUME TypeOK
    PROVE  /\ Len(run) \in Nat /\ DOMAIN run = 1 .. Len(run) /\ DOMAIN run \subseteq Runs
           /\ \A r \in DOMAIN run : run[r] \in Run /\ r # None
           /\ Len(Batch) \in Nat /\ turn \in Nat
  <1>1. Len(run) \in Nat /\ DOMAIN run = 1 .. Len(run) /\ \A r \in DOMAIN run : run[r] \in Run
    BY LenProperties, ElementOfSeq DEF TypeOK
  <1>2. Len(Batch) \in Nat
    BY UploaderAssumption, LenProperties
  <1>3. DOMAIN run \subseteq Runs
    BY <1>1, UploaderAssumption DEF TypeOK, Runs
  <1> QED BY <1>1, <1>2, <1>3, UploaderAssumption DEF TypeOK

\* A run goes on or ends.
LEMMA AtRun ==
    ASSUME TypeOK, NEW r \in DOMAIN run,
           NEW where \in {"parsing", "reading", "uploading", "waiting", "ended"}, At(r, where)
    PROVE  /\ run' \in Seq(Run) /\ Len(run') = Len(run) /\ DOMAIN run' = DOMAIN run
           /\ run'[r].at = where /\ run'[r].job = run[r].job
           /\ run'[r].aborted = run[r].aborted
           /\ \A q \in DOMAIN run \ {r} : run'[q] = run[q]
  <1>1. run \in Seq(Run) /\ r \in 1 .. Len(run) /\ DOMAIN run = 1 .. Len(run)
    BY RunType DEF TypeOK
  <1> DEFINE x == [run[r] EXCEPT !.at = where]
  <1>2. run[r] \in Run
    BY RunType
  <1>3. /\ x \in Run
        /\ x.at = where /\ x.job = run[r].job /\ x.aborted = run[r].aborted
    BY <1>2 DEF Run
  <1>4. run' = [run EXCEPT ![r] = x]
    BY DEF At
  <1> HIDE DEF x
  <1>5. /\ run' \in Seq(Run) /\ Len(run') = Len(run)
        /\ \A q \in 1 .. Len(run) : run'[q] = IF q = r THEN x ELSE run[q]
    BY <1>1, <1>3, <1>4, ExceptSeq
  <1>6. DOMAIN run' = 1 .. Len(run')
    BY <1>5, LenProperties
  <1> QED BY <1>1, <1>3, <1>5, <1>6

\* A run is added.
LEMMA NewRun ==
    ASSUME TypeOK, NEW j \in Jobs, NEW at \in {"parsing", "reading"}, StartRun(j, at)
    PROVE  /\ run' \in Seq(Run) /\ Len(run') = Len(run) + 1 /\ Len(run') <= MaxRuns
           /\ Len(run) + 1 \in Runs /\ Len(run) + 1 \notin DOMAIN run
           /\ Len(run) + 1 # None
           /\ DOMAIN run' = DOMAIN run \cup {Len(run) + 1}
           /\ run'[Len(run) + 1] = [job |-> j, at |-> at, aborted |-> FALSE]
           /\ \A q \in DOMAIN run : run'[q] = run[q]
  <1> DEFINE x == [job |-> j, at |-> at, aborted |-> FALSE]
  <1>1. /\ Len(run) \in Nat /\ DOMAIN run = 1 .. Len(run) /\ run \in Seq(Run)
        /\ Len(run) < MaxRuns /\ run' = Append(run, x) /\ MaxRuns \in Nat
    BY RunType, UploaderAssumption DEF TypeOK, StartRun
  <1>2. x \in Run
    BY DEF Run
  <1> HIDE DEF x
  <1>3. /\ run' \in Seq(Run) /\ Len(run') = Len(run) + 1
        /\ run'[Len(run) + 1] = x /\ \A q \in 1 .. Len(run) : run'[q] = run[q]
    BY <1>1, <1>2
  <1>4. DOMAIN run' = 1 .. Len(run) + 1
    BY <1>3, LenProperties
  <1>5. Len(run) + 1 \in Runs /\ Len(run) + 1 # None
    BY <1>1, UploaderAssumption DEF Runs
  <1>6. 1 .. Len(run) + 1 = (1 .. Len(run)) \cup {Len(run) + 1} /\ Len(run) + 1 \notin 1 .. Len(run)
    BY <1>1
  <1>7. Len(run') <= MaxRuns
    BY <1>1, <1>3
  <1> QED BY <1>1, <1>3, <1>4, <1>5, <1>6, <1>7 DEF x

\* The runs become those of a function of their numbers.
LEMMA MappedRuns ==
    ASSUME TypeOK, NEW f \in [DOMAIN run -> Run], run' = f
    PROVE  run' \in Seq(Run) /\ Len(run') = Len(run) /\ DOMAIN run' = DOMAIN run
  <1>1. Len(run) \in Nat /\ DOMAIN run = 1 .. Len(run)
    BY RunType
  <1>2. run' \in Seq(Run)
    BY <1>1, SeqDef
  <1>3. DOMAIN run' = 1 .. Len(run') /\ Len(run') \in Nat
    BY <1>2, LenProperties
  <1>4. Len(run') = Len(run)
    BY <1>1, <1>3
  <1> QED BY <1>1, <1>2, <1>4

-----------------------------------------------------------------------------
(* What each step does to the invariant. *)

\* A run that ends is no longer one to be stopped; its job may show another status.
LEMMA EndStep ==
    ASSUME PageInv, NEW r \in DOMAIN run, At(r, "ended"),
           UNCHANGED <<turn, awaited, held, vanished, missed>>,
           \/ /\ run[r].aborted \/ run[r].at = "parsing"
              /\ UNCHANGED <<status, control, late>>
           \/ /\ control' = [control EXCEPT ![JobOf(r)] = None]
              /\ \/ run[r].aborted /\ late' = late \cup {r} /\ UNCHANGED status
                 \/ ~run[r].aborted /\ run[r].at # "ended" /\ UNCHANGED late
                    /\ \E s \in Settled : Show(JobOf(r), s)
    PROVE  PageInv'
  <1> DEFINE j == run[r].job
  <1>1. /\ run' \in Seq(Run) /\ Len(run') = Len(run) /\ DOMAIN run' = DOMAIN run
        /\ run'[r].at = "ended" /\ run'[r].job = j /\ run'[r].aborted = run[r].aborted
        /\ \A q \in DOMAIN run \ {r} : run'[q] = run[q]
    BY AtRun DEF PageInv
  <1>2. j \in Jobs /\ r \in Runs /\ r # None
    BY RunType DEF PageInv, Run
  <1>3. /\ \A i \in Jobs \ {j} : status'[i] = status[i] /\ control'[i] = control[i]
        /\ status' \in [Jobs -> Running \cup Settled \cup {None}]
        /\ control' \in [Jobs -> Runs \cup {None}] /\ late' \subseteq late \cup {r}
        /\ late \subseteq late'
    BY <1>2 DEF PageInv, TypeOK, Show, JobOf
  <1>4. TypeOK'
    BY <1>1, <1>2, <1>3 DEF PageInv, TypeOK
  <1>5. StartInv'
    BY <1>1 DEF PageInv, StartInv
  <1>6. RunsInv'
    BY <1>1, <1>3 DEF PageInv, RunsInv
  <1>7. \A i \in Jobs : Live(i)' = Live(i) \ {r}
    BY <1>1 DEF Live, Alive
  <1>8. \A i \in Jobs \ {j} : Live(i)' = Live(i)
    BY <1>7 DEF Live
  <1>9. ControlInv'
    <2>1. ASSUME NEW i \in Jobs, control'[i] # None
          PROVE  control'[i] \in Live(i)' /\ run'[control'[i]].at # "parsing"
      <3>1. control'[i] = control[i] /\ control[i] # r
        BY <1>2, <1>3, <2>1 DEF PageInv, ControlInv, Live, Alive, JobOf, TypeOK
      <3>2. control[i] \in Live(i) /\ run[control[i]].at # "parsing"
        BY <2>1, <3>1 DEF PageInv, ControlInv
      <3> QED BY <1>1, <1>7, <3>1, <3>2 DEF Live
    <2> QED BY <2>1 DEF ControlInv
  <1>10. ASSUME NEW i \in Jobs, Good(i)' PROVE JobInv(i)'
    <2>1. Good(i)
      BY <1>1, <1>3, <1>10 DEF Good, JobOf, PageInv, RunsInv
    <2>2. JobInv(i) /\ (Waiting(i)' <=> Waiting(i))
      BY <2>1 DEF PageInv, Waiting, NextTurn
    <2>3. CASE i # j
      BY <1>1, <1>3, <1>8, <2>2, <2>3 DEF JobInv, Live
    <2>4. CASE i = j
      <3>1. CASE run[r].aborted
        <4>1. Live(i)' = Live(i)
          BY <1>7, <3>1 DEF Live, Alive
        <4>2. UNCHANGED <<status, control, late>>
          <5>1. late' # late \cup {r}
            BY <1>1, <1>10, <2>4 DEF Good, JobOf
          <5> QED BY <3>1, <5>1
        <4> QED BY <1>1, <2>2, <3>1, <4>1, <4>2 DEF JobInv, Live, Alive
      <3>2. CASE ~run[r].aborted
        <4>1. Live(i)' = {}
          <5>1. run[r].at = "ended" => run[r].at # "parsing"
            OBVIOUS
          <5>2. r \in Live(i)
            BY <2>4, <3>2, <5>1 DEF Live, Alive
          <5> QED BY <1>7, <2>2, <5>2 DEF JobInv
        <4>2. ~Waiting(i)
          <5>1. r \in Live(i)
            BY <2>4, <3>2 DEF Live, Alive
          <5> QED BY <2>2, <5>1 DEF JobInv
        <4> QED BY <2>2, <4>1, <4>2 DEF JobInv
      <3> QED BY <3>1, <3>2
    <2> QED BY <2>3, <2>4
  <1> QED BY <1>4, <1>5, <1>6, <1>9, <1>10 DEF PageInv

\* A run goes on to its next await and shows so; once its file is parsed its
\* controller is stored.
LEMMA GoOnStep ==
    ASSUME PageInv, NEW r \in DOMAIN run, NEW where \in {"reading", "uploading", "waiting"},
           At(r, where), run[r].at \in {"parsing", "reading", "uploading", "waiting"},
           ~run[r].aborted,
           UNCHANGED <<turn, awaited, held, vanished, seen>>,
           \E s \in Running : Show(JobOf(r), s),
           \/ run[r].at = "parsing" /\ control' = [control EXCEPT ![JobOf(r)] = r]
           \/ run[r].at # "parsing" /\ UNCHANGED control
    PROVE  PageInv'
  <1>0. run[r].job \in Jobs
    BY RunType DEF PageInv, Run
  <1>j. PICK j \in Jobs : j = run[r].job
    BY <1>0
  <1>1. /\ run' \in Seq(Run) /\ Len(run') = Len(run) /\ DOMAIN run' = DOMAIN run
        /\ run'[r].at = where /\ run'[r].job = j /\ run'[r].aborted = run[r].aborted
        /\ \A q \in DOMAIN run \ {r} : run'[q] = run[q]
    BY <1>j, AtRun DEF PageInv
  <1>2. r \in Runs /\ r # None
    BY RunType DEF PageInv, Run
  <1>3. /\ \A i \in Jobs \ {j} : status'[i] = status[i] /\ control'[i] = control[i]
        /\ status' \in [Jobs -> Running \cup Settled \cup {None}]
        /\ control' \in [Jobs -> Runs \cup {None}]
        /\ status[j] \in Running => status'[j] \in Running
        /\ control'[j] # r => control'[j] = control[j] /\ run[r].at # "parsing"
    <2>1. /\ \A i \in Jobs \ {j} : control'[i] = control[i]
          /\ control' \in [Jobs -> Runs \cup {None}]
          /\ control'[j] # r => control'[j] = control[j] /\ run[r].at # "parsing"
      <3>1. control \in [Jobs -> Runs \cup {None}] /\ JobOf(r) = j
        BY <1>j DEF PageInv, TypeOK, JobOf
      <3>2. CASE control' = [control EXCEPT ![JobOf(r)] = r]
        BY <1>2, <3>1, <3>2
      <3>3. CASE run[r].at # "parsing" /\ control' = control
        BY <3>1, <3>3
      <3> QED BY <3>2, <3>3
    <2>2. /\ \A i \in Jobs \ {j} : status'[i] = status[i]
          /\ status' \in [Jobs -> Running \cup Settled \cup {None}]
          /\ status[j] \in Running => status'[j] \in Running
      BY <1>j, UploaderAssumption DEF PageInv, TypeOK, Show, JobOf
    <2> QED BY <2>1, <2>2
  <1>4. TypeOK'
    BY <1>1, <1>2, <1>3 DEF PageInv, TypeOK, seen
  <1>5. StartInv'
    BY <1>1 DEF PageInv, StartInv
  <1>6. RunsInv'
    BY <1>1 DEF PageInv, RunsInv, seen
  <1>7. \A i \in Jobs : Live(i)' = Live(i)
    BY <1>j, <1>1 DEF Live, Alive
  <1>8. r \in Live(j)'
    BY <1>j, <1>1 DEF Live, Alive
  <1>9. ControlInv'
    <2>1. ASSUME NEW i \in Jobs, control'[i] # None
          PROVE  control'[i] \in Live(i)' /\ run'[control'[i]].at # "parsing"
      <3>1. CASE control'[i] = control[i]
        BY <1>1, <1>7, <2>1, <3>1 DEF PageInv, ControlInv, Live
      <3>2. CASE control'[i] # control[i]
        BY <1>1, <1>3, <1>8, <3>2
      <3> QED BY <3>1, <3>2
    <2> QED BY <2>1 DEF ControlInv
  <1>10. ASSUME NEW i \in Jobs, Good(i)' PROVE JobInv(i)'
    <2>1. Good(i)
      BY <1>j, <1>1, <1>10 DEF Good, JobOf, PageInv, RunsInv, seen
    <2>2. JobInv(i) /\ (Waiting(i)' <=> Waiting(i))
      BY <2>1 DEF PageInv, Waiting, NextTurn
    <2>3. CASE i # j
      BY <1>1, <1>3, <1>7, <2>2, <2>3 DEF JobInv, Live
    <2>4. CASE i = j
      <3>1. \A q \in Live(i) : q = r
        BY <1>7, <1>8, <2>2, <2>4 DEF JobInv
      <3>2. control'[i] = r
        BY <1>3, <1>7, <1>8, <2>2, <2>4 DEF JobInv
      <3> QED BY <1>3, <1>7, <1>8, <2>2, <2>4, <3>1, <3>2 DEF JobInv
    <2> QED BY <2>3, <2>4
  <1> QED BY <1>4, <1>5, <1>6, <1>9, <1>10 DEF PageInv

LEMMA RunStepStep ==
    ASSUME PageInv, NEW r \in DOMAIN run, RunStep(r)
    PROVE  PageInv'
  <1>1. ASSUME Stopped(r) PROVE PageInv'
    BY <1>1, EndStep DEF Stopped, seen
  <1>2. ASSUME Catch(r), run[r].at # "ended" PROVE PageInv'
    BY <1>2, EndStep DEF Catch, Settled
  <1>3. CASE FileRead(r)
    BY <1>1, <1>3, GoOnStep DEF FileRead, Running
  <1>4. CASE SendUpload(r)
    BY <1>1, <1>4, GoOnStep DEF SendUpload, Running
  <1>5. CASE FileUnreadable(r) \/ RequestFailed(r)
    BY <1>2, <1>5 DEF FileUnreadable, RequestFailed
  <1>6. CASE Response(r)
    BY <1>1, <1>6, EndStep DEF Response, seen, Outcomes, Settled
  <1>7. CASE Parsed(r)
    BY <1>7, GoOnStep DEF Parsed, Running, PageInv, RunsInv
  <1>8. CASE ParseFails(r)
    BY <1>8, EndStep DEF ParseFails, seen
  <1> QED BY <1>3, <1>4, <1>5, <1>6, <1>7, <1>8 DEF RunStep

\* The files become jobs, which all wait their turn.
LEMMA ConfirmStep == ASSUME PageInv, ConfirmAll PROVE PageInv'
  <1>1. /\ turn = 0 /\ turn' = 1 /\ run' = run /\ run = <<>> /\ control' = control
        /\ awaited' = awaited /\ vanished' = vanished /\ late' = late /\ missed' = missed
        /\ held' = Jobs /\ status' = [j \in Jobs |-> "reading"]
    BY DEF ConfirmAll, PageInv, StartInv, seen
  <1>2. DOMAIN run = {} /\ Len(Batch) \in Nat
    <2>1. Len(run) = 0
      BY <1>1
    <2> QED BY <2>1, RunType DEF PageInv
  <1>3. TypeOK' /\ StartInv' /\ RunsInv'
    BY <1>1, <1>2 DEF PageInv, TypeOK, StartInv, RunsInv, Running
  <1>4. \A j \in Jobs : Live(j) = {} /\ Live(j)' = {}
    BY <1>1, <1>2 DEF Live
  <1>5. ControlInv'
    BY <1>1, <1>4 DEF PageInv, ControlInv
  <1>6. \A j \in Jobs : JobInv(j)'
    BY <1>1, <1>4 DEF JobInv, Running
  <1> QED BY <1>3, <1>5, <1>6 DEF PageInv

\* The next job of the batch gets its run: it had none.
LEMMA NextJobStep == ASSUME PageInv, RunNext PROVE PageInv'
  <1>1. PICK j \in Jobs : j = Batch[turn]
    BY UploaderAssumption, ElementOfSeq DEF RunNext
  <1>2. PICK n : n = Len(run) + 1
    OBVIOUS
  <1>3. /\ turn \in 1 .. Len(Batch) /\ awaited = None /\ turn' = turn /\ awaited' = n
        /\ control' = [control EXCEPT ![j] = n] /\ Show(j, "reading") /\ StartRun(j, "reading")
        /\ held' = held /\ vanished' = vanished /\ late' = late /\ missed' = missed
    BY <1>1, <1>2 DEF RunNext, seen
  <1>4. /\ run' \in Seq(Run) /\ Len(run') <= MaxRuns /\ n \in Runs /\ n # None
        /\ DOMAIN run' = DOMAIN run \cup {n} /\ n \notin DOMAIN run
        /\ run'[n] = [job |-> j, at |-> "reading", aborted |-> FALSE]
        /\ \A q \in DOMAIN run : run'[q] = run[q]
    BY <1>2, <1>3, NewRun DEF PageInv
  <1>5. /\ \A i \in Jobs \ {j} : status'[i] = status[i] /\ control'[i] = control[i]
        /\ status' \in [Jobs -> Running \cup Settled \cup {None}]
        /\ control' \in [Jobs -> Runs \cup {None}] /\ control'[j] = n
        /\ status[j] \in Running => status'[j] \in Running
    BY <1>3, <1>4, UploaderAssumption DEF PageInv, TypeOK, Show, Running
  <1>6. TypeOK' /\ StartInv' /\ turn \in Nat
    BY <1>3, <1>4, <1>5 DEF PageInv, TypeOK, StartInv
  <1>7. RunsInv'
    BY <1>3, <1>4 DEF PageInv, RunsInv
  <1>8. /\ \A i \in Jobs \ {j} : Live(i)' = Live(i)
        /\ Live(j)' = Live(j) \cup {n}
    BY <1>4 DEF Live, Alive
  <1>9. ControlInv'
    <2>1. ASSUME NEW i \in Jobs, control'[i] # None
          PROVE  control'[i] \in Live(i)' /\ run'[control'[i]].at # "parsing"
      <3>1. CASE i = j
        BY <1>4, <1>5, <1>8, <3>1
      <3>2. CASE i # j
        BY <1>4, <1>5, <1>8, <2>1, <3>2 DEF PageInv, ControlInv, Live
      <3> QED BY <3>1, <3>2
    <2> QED BY <2>1 DEF ControlInv
  <1>10. ASSUME NEW i \in Jobs, Good(i)' PROVE JobInv(i)'
    <2>1. Good(i) /\ JobInv(i)
      <3>1. Good(i)
        BY <1>3, <1>4, <1>10 DEF Good, JobOf, PageInv, RunsInv
      <3> QED BY <3>1 DEF PageInv
    <2>2. Waiting(i)' => Waiting(i) /\ i # j
      <3>1. ASSUME NEW k \in turn + 1 .. Len(Batch), Batch[k] = i
            PROVE  k \in turn .. Len(Batch) /\ i # j
        <4>1. k \in DOMAIN Batch /\ turn \in DOMAIN Batch /\ k # turn
          BY <1>3, <1>6, <3>1, UploaderAssumption, LenProperties
        <4> QED BY <1>1, <1>6, <3>1, <4>1, UploaderAssumption
      <3> QED BY <1>3, <1>4, <3>1 DEF Waiting, NextTurn
    <2>3. CASE i # j
      BY <1>4, <1>5, <1>8, <2>1, <2>2, <2>3 DEF JobInv, Live
    <2>4. CASE i = j
      <3>1. Waiting(j)
        <4>1. turn \in NextTurn .. Len(Batch) /\ turn > 0
          BY <1>3, <1>6 DEF NextTurn
        <4> QED BY <1>1, <4>1 DEF Waiting
      <3>2. Live(i) = {} /\ status[i] \in Running
        BY <2>1, <2>4, <3>1 DEF JobInv
      <3> QED BY <1>5, <1>8, <2>2, <2>4, <3>2 DEF JobInv
    <2> QED BY <2>3, <2>4
  <1> QED BY <1>6, <1>7, <1>9, <1>10 DEF PageInv

\* A retry gets its run, of a job that has none: it has settled.
LEMMA RetryStep == ASSUME PageInv, NEW j \in Jobs, RetryJob(j) PROVE PageInv'
  <1>2. PICK n : n = Len(run) + 1
    OBVIOUS
  <1>3. /\ status[j] \in Settled /\ Show(j, "reading") /\ StartRun(j, "parsing")
        /\ control' = control /\ turn' = turn /\ awaited' = awaited
        /\ held' = held /\ vanished' = vanished /\ late' = late /\ missed' = missed
        /\ j \in held
    BY DEF RetryJob, seen
  <1>4. /\ run' \in Seq(Run) /\ Len(run') <= MaxRuns /\ n \in Runs /\ n # None
        /\ DOMAIN run' = DOMAIN run \cup {n} /\ n \notin DOMAIN run
        /\ run'[n] = [job |-> j, at |-> "parsing", aborted |-> FALSE]
        /\ \A q \in DOMAIN run : run'[q] = run[q]
    BY <1>2, <1>3, NewRun DEF PageInv
  <1>5. /\ \A i \in Jobs \ {j} : status'[i] = status[i]
        /\ status' \in [Jobs -> Running \cup Settled \cup {None}]
        /\ status[j] \notin Running /\ status'[j] \in Running
    BY <1>3, UploaderAssumption DEF PageInv, TypeOK, Show, Running, Settled
  <1>6. TypeOK' /\ StartInv'
    BY <1>3, <1>4, <1>5 DEF PageInv, TypeOK, StartInv
  <1>7. RunsInv'
    BY <1>3, <1>4 DEF PageInv, RunsInv
  <1>8. /\ \A i \in Jobs \ {j} : Live(i)' = Live(i)
        /\ Live(j)' = Live(j) \cup {n}
    BY <1>4 DEF Live, Alive
  <1>9. ControlInv'
    <2>1. ASSUME NEW i \in Jobs, control'[i] # None
          PROVE  control'[i] \in Live(i)' /\ run'[control'[i]].at # "parsing"
      <3>1. control[i] \in Live(i) /\ run[control[i]].at # "parsing"
        BY <1>3, <2>1 DEF PageInv, ControlInv
      <3>2. control[i] \in DOMAIN run /\ control[i] \in Live(i)'
        BY <1>8, <3>1 DEF Live
      <3> QED BY <1>3, <1>4, <3>1, <3>2
    <2> QED BY <2>1 DEF ControlInv
  <1>10. ASSUME NEW i \in Jobs, Good(i)' PROVE JobInv(i)'
    <2>1. JobInv(i) /\ (Waiting(i)' <=> Waiting(i))
      <3>1. Good(i)
        BY <1>3, <1>4, <1>10 DEF Good, JobOf, PageInv, RunsInv
      <3>2. Waiting(i)' <=> Waiting(i)
        BY <1>3 DEF Waiting, NextTurn
      <3> QED BY <3>1, <3>2 DEF PageInv
    <2>3. CASE i # j
      BY <1>3, <1>4, <1>5, <1>8, <2>1, <2>3 DEF JobInv, Live
    <2>4. CASE i = j
      <3>1. Live(i) = {} /\ ~Waiting(i)
        BY <1>5, <2>1, <2>4 DEF JobInv
      <3> QED BY <1>4, <1>5, <1>8, <2>1, <2>4, <3>1 DEF JobInv
    <2> QED BY <2>3, <2>4
  <1> QED BY <1>6, <1>7, <1>9, <1>10 DEF PageInv

\* A Stop ends the job's run, or is missed.
LEMMA CancelStep == ASSUME PageInv, NEW j \in Jobs, CancelJob(j) PROVE PageInv'
  <1> DEFINE f == [r \in DOMAIN run |->
                      IF control[j] = r THEN [run[r] EXCEPT !.aborted = TRUE] ELSE run[r]]
  <1>1. /\ status' = [status EXCEPT ![j] = "cancelled"] /\ control' = [control EXCEPT ![j] = None]
        /\ run' = f /\ missed' = IF control[j] = None THEN missed \cup {j} ELSE missed
        /\ turn' = turn /\ awaited' = awaited /\ held' = held /\ vanished' = vanished
        /\ late' = late
    BY DEF CancelJob
  <1>2. f \in [DOMAIN run -> Run]
    <2>1. ASSUME NEW r \in DOMAIN run PROVE [run[r] EXCEPT !.aborted = TRUE] \in Run
      BY RunType DEF PageInv, Run
    <2> QED BY <2>1, RunType DEF PageInv
  <1>3. /\ run' \in Seq(Run) /\ Len(run') = Len(run) /\ DOMAIN run' = DOMAIN run
        /\ \A r \in DOMAIN run : run'[r].job = run[r].job /\ run'[r].at = run[r].at
        /\ \A r \in DOMAIN run : control[j] # r => run'[r] = run[r]
        /\ \A r \in DOMAIN run : control[j] = r => run'[r].aborted
    <2>1. run' \in Seq(Run) /\ Len(run') = Len(run) /\ DOMAIN run' = DOMAIN run
      BY <1>1, <1>2, MappedRuns DEF PageInv
    <2>2. ASSUME NEW r \in DOMAIN run
          PROVE  /\ run'[r].job = run[r].job /\ run'[r].at = run[r].at
                 /\ control[j] # r => run'[r] = run[r]
                 /\ control[j] = r => run'[r].aborted
      <3>1. run[r] \in Run
        BY RunType DEF PageInv
      <3> QED BY <1>1, <3>1 DEF Run
    <2> QED BY <2>1, <2>2
  <1>4. /\ \A i \in Jobs \ {j} : status'[i] = status[i] /\ control'[i] = control[i]
        /\ status' \in [Jobs -> Running \cup Settled \cup {None}]
        /\ control' \in [Jobs -> Runs \cup {None}] /\ control'[j] = None
        /\ missed \subseteq missed' /\ missed' \subseteq Jobs
    BY <1>1 DEF PageInv, TypeOK, Settled
  <1> HIDE DEF f
  <1>5. TypeOK' /\ StartInv'
    <2>1. TypeOK'
      BY <1>1, <1>3, <1>4 DEF PageInv, TypeOK
    <2>2. StartInv'
      <3>1. run = <<>> => run' = <<>>
        <4>1. run = <<>> => Len(run') = 0
          BY <1>3
        <4> QED BY <1>3, <4>1, EmptySeq
      <3> QED BY <1>1, <3>1 DEF PageInv, StartInv
    <2> QED BY <2>1, <2>2
  <1>6. control[j] # None => control[j] \in Live(j) /\ run[control[j]].at # "parsing"
    BY DEF PageInv, ControlInv
  <1>7. \A r \in DOMAIN run : control[j] = r => control[j] # None
    BY RunType DEF PageInv
  <1>8. RunsInv'
    <2>1. ASSUME NEW r \in DOMAIN run, run'[r].at = "parsing" PROVE ~run'[r].aborted
      BY <1>3, <1>6, <1>7, <2>1 DEF PageInv, RunsInv
    <2> QED BY <1>1, <1>3, <2>1 DEF PageInv, RunsInv
  <1>9. /\ \A i \in Jobs \ {j} : Live(i)' = Live(i)
        /\ Live(j)' = Live(j) \ {control[j]}
    <2>1. \A i \in Jobs, r \in DOMAIN run :
             r \in Live(i)' <=> r \in Live(i) /\ r # control[j]
      BY <1>3 DEF Live, Alive
    <2>2. \A i \in Jobs : Live(i) \subseteq DOMAIN run /\ Live(i)' \subseteq DOMAIN run
      BY <1>3 DEF Live
    <2>3. \A i \in Jobs \ {j} : \A r \in Live(i) : r # control[j]
      BY <1>6, <1>7 DEF Live
    <2> QED BY <2>1, <2>2, <2>3
  <1>10. ControlInv'
    <2>1. ASSUME NEW i \in Jobs, control'[i] # None
          PROVE  control'[i] \in Live(i)' /\ run'[control'[i]].at # "parsing"
      <3>1. i # j /\ control'[i] = control[i]
        BY <1>4, <2>1
      <3>2. control[i] \in Live(i) /\ run[control[i]].at # "parsing"
        BY <2>1, <3>1 DEF PageInv, ControlInv
      <3> QED BY <1>3, <1>9, <3>1, <3>2 DEF Live
    <2> QED BY <2>1 DEF ControlInv
  <1>11. ASSUME NEW i \in Jobs, Good(i)' PROVE JobInv(i)'
    <2>1. JobInv(i) /\ (Waiting(i)' <=> Waiting(i))
      <3>1. Good(i)
        BY <1>1, <1>3, <1>4, <1>11 DEF Good, JobOf, PageInv, RunsInv
      <3>2. Waiting(i)' <=> Waiting(i)
        BY <1>1 DEF Waiting, NextTurn
      <3> QED BY <3>1, <3>2 DEF PageInv
    <2>2. CASE i # j
      BY <1>3, <1>4, <1>9, <2>1, <2>2 DEF JobInv, Live
    <2>3. CASE i = j
      <3>1. control[j] # None
        BY <1>1, <1>11, <2>3 DEF Good
      <3>2. Live(i)' = {} /\ ~Waiting(i)
        BY <1>6, <1>9, <2>1, <2>3, <3>1 DEF JobInv
      <3> QED BY <2>1, <3>2 DEF JobInv
    <2> QED BY <2>2, <2>3
  <1> QED BY <1>5, <1>8, <1>10, <1>11 DEF PageInv

\* The page forgets its runs and the turns of the batch.
LEMMA ReloadStep == ASSUME PageInv, Reload PROVE PageInv'
  <1> DEFINE f == [r \in DOMAIN run |-> [run[r] EXCEPT !.at = "ended"]]
  <1>1. /\ run' = f /\ control' = [j \in Jobs |-> None] /\ turn' = Len(Batch) + 1
        /\ awaited' = None /\ held' = {} /\ vanished' = vanished
        /\ late' = late /\ missed' = missed
        /\ status' = [j \in Jobs |-> IF status[j] \in Running THEN "interrupted" ELSE status[j]]
    BY DEF Reload, seen
  <1>2. f \in [DOMAIN run -> Run]
    <2>1. ASSUME NEW r \in DOMAIN run PROVE [run[r] EXCEPT !.at = "ended"] \in Run
      BY RunType DEF PageInv, Run
    <2> QED BY <2>1
  <1>3. /\ run' \in Seq(Run) /\ Len(run') = Len(run) /\ DOMAIN run' = DOMAIN run
        /\ \A r \in DOMAIN run : run'[r].at = "ended"
    <2>1. run' \in Seq(Run) /\ Len(run') = Len(run) /\ DOMAIN run' = DOMAIN run
      BY <1>1, <1>2, MappedRuns DEF PageInv
    <2>2. ASSUME NEW r \in DOMAIN run PROVE run'[r].at = "ended"
      <3>1. run[r] \in Run
        BY RunType DEF PageInv
      <3> QED BY <1>1, <3>1 DEF Run
    <2> QED BY <2>1, <2>2
  <1> HIDE DEF f
  <1>4. Len(Batch) \in Nat
    BY RunType DEF PageInv
  <1>5. TypeOK'
    <2>1. status' \in [Jobs -> Running \cup Settled \cup {None}]
      BY <1>1 DEF PageInv, TypeOK, Settled
    <2> QED BY <1>1, <1>3, <1>4, <2>1 DEF PageInv, TypeOK
  <1>6. StartInv' /\ RunsInv' /\ ControlInv'
    BY <1>1, <1>3, <1>4 DEF PageInv, StartInv, RunsInv, ControlInv
  <1>7. ASSUME NEW j \in Jobs PROVE JobInv(j)'
    <2>1. Live(j)' = {}
      BY <1>3 DEF Live, Alive
    <2>2. ~Waiting(j)'
      BY <1>1, <1>4 DEF Waiting, NextTurn
    <2> QED BY <2>1, <2>2 DEF JobInv
  <1> QED BY <1>5, <1>6, <1>7 DEF PageInv

\* Steps that change neither runs nor controllers, nor the turns to come.
LEMMA QuietStep ==
    ASSUME PageInv, TypeOK', UNCHANGED <<control, run, late, missed>>,
           \A j \in Jobs : Waiting(j)' => Waiting(j),
           StartInv',
           \A j \in Jobs : status[j] \in Running => status'[j] = status[j]
    PROVE  PageInv'
  <1>1. RunsInv' /\ ControlInv'
    BY DEF PageInv, RunsInv, ControlInv, Live, Alive
  <1>2. ASSUME NEW j \in Jobs, Good(j)' PROVE JobInv(j)'
    <2>1. Good(j) /\ Live(j)' = Live(j)
      BY <1>2 DEF Good, JobOf, Live, Alive
    <2>2. JobInv(j)
      BY <2>1 DEF PageInv
    <2> QED BY <2>1, <2>2 DEF JobInv
  <1> QED BY <1>1, <1>2 DEF PageInv

LEMMA PageStep == PageInv /\ [Next]_vars => PageInv'
  <1> SUFFICES ASSUME PageInv, [Next]_vars PROVE PageInv'
    OBVIOUS
  <1>1. CASE RunAwaited
    <2>1. /\ awaited # None /\ awaited' = None /\ turn' = turn + 1
          /\ turn \in 1 .. Len(Batch) /\ turn \in Nat /\ Len(Batch) \in Nat
          /\ status' = status /\ control' = control /\ run' = run /\ held' = held
          /\ vanished' = vanished /\ late' = late /\ missed' = missed
      BY <1>1, RunType DEF RunAwaited, PageInv, StartInv, seen
    <2>2. turn' \in 0 .. Len(Batch) + 1 /\ turn' > 0 /\ turn > 0
      BY <2>1
    <2>3. TypeOK' /\ StartInv'
      BY <2>1, <2>2 DEF PageInv, TypeOK, StartInv
    <2>4. \A j \in Jobs : Waiting(j)' => Waiting(j)
      BY <2>1, <2>2 DEF Waiting, NextTurn
    <2> QED BY <2>1, <2>3, <2>4, QuietStep
  <1>2. CASE ClearFinished
    <2>1. TypeOK' /\ StartInv'
      BY <1>2 DEF ClearFinished, PageInv, TypeOK, StartInv, seen
    <2> QED BY <1>2, <2>1, QuietStep DEF ClearFinished, Waiting, NextTurn, seen
  <1>3. ASSUME NEW j \in Jobs, FileVanishes(j) PROVE PageInv'
    <2>1. TypeOK' /\ StartInv'
      BY <1>3 DEF FileVanishes, PageInv, TypeOK, StartInv, seen
    <2> QED BY <1>3, <2>1, QuietStep DEF FileVanishes, Waiting, NextTurn, seen
  <1>4. CASE UNCHANGED vars
    <2>1. TypeOK' /\ StartInv'
      BY <1>4 DEF vars, seen, PageInv, TypeOK, StartInv
    <2> QED BY <1>4, <2>1, QuietStep DEF vars, Waiting, NextTurn, seen
  <1> QED BY <1>1, <1>2, <1>3, <1>4, ConfirmStep, NextJobStep, ReloadStep, RunStepStep,
             CancelStep, RetryStep DEF Next

LEMMA PageInit == Init => PageInv
  <1> SUFFICES ASSUME Init PROVE PageInv
    OBVIOUS
  <1>1. /\ run = <<>> /\ turn = 0 /\ awaited = None /\ held = {} /\ vanished = {}
        /\ late = {} /\ missed = {}
        /\ status = [j \in Jobs |-> None] /\ control = [j \in Jobs |-> None]
    BY DEF Init
  <1>2. run \in Seq(Run) /\ Len(run) = 0 /\ DOMAIN run = {}
    BY <1>1
  <1>3. Len(Batch) \in Nat
    BY UploaderAssumption, LenProperties
  <1>4. TypeOK /\ StartInv /\ RunsInv /\ ControlInv
    BY <1>1, <1>2, <1>3, UploaderAssumption DEF TypeOK, StartInv, RunsInv, ControlInv
  <1>5. ASSUME NEW j \in Jobs PROVE JobInv(j)
    BY <1>1, <1>2 DEF JobInv, Live, Waiting
  <1> QED BY <1>4, <1>5 DEF PageInv

-----------------------------------------------------------------------------
\* The inductive invariant: unless a Stop missed it or a stopped run of it failed
\* late, a job has at most one run that goes on, whose controller the page holds,
\* and shows all the while that it runs, which is what keeps Retry away from it.
THEOREM PageInvariant == Spec => []PageInv
  <1> QED BY PageInit, PageStep, PTL DEF Spec

\* A run that goes on can be stopped, until a Stop missed its job or a stopped
\* run of the job failed late (index.tsx 152-157, 188-198, 215-217, 262-265).
THEOREM ControlledHolds == Spec => []ControlledUntilMissed
  <1>1. PageInv => ControlledUntilMissed
    <2> SUFFICES ASSUME PageInv, NEW r \in DOMAIN run,
                        run[r].at \in {"reading", "uploading", "waiting"}, ~run[r].aborted,
                        JobOf(r) \notin missed, \A q \in late : JobOf(q) # JobOf(r)
                 PROVE  control[JobOf(r)] = r
      BY DEF ControlledUntilMissed
    <2>1. JobOf(r) \in Jobs
      BY RunType DEF PageInv, JobOf, Run
    <2>2. PICK j \in Jobs : j = JobOf(r)
      BY <2>1
    <2>3. JobInv(j) /\ r \in Live(j)
      BY <2>2 DEF PageInv, Good, Live, Alive, JobOf
    <2> QED BY <2>2, <2>3 DEF JobInv
  <1> QED BY <1>1, PageInvariant, PTL
=============================================================================
