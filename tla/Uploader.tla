------------------------------ MODULE Uploader ------------------------------
(***************************************************************************)
(* The upload page (routes/_authenticated/index.tsx).  A run is one call   *)
(* of runJob: it reads the file, waits a moment, sends the upload and      *)
(* shows the outcome on its job.  Stop aborts the controller the page has  *)
(* stored for the job; a request that is under way is not called back, and *)
(* is answered by UploadRequest in its own time, or fails.                 *)
(***************************************************************************)
EXTENDS Naturals, Sequences

CONSTANTS
    Jobs,     \* files the user has confirmed together
    Batch,    \* the order startBatch uploads them in
    MaxRuns,  \* bound: calls of runJob
    None

VARIABLES
    status,   \* status of each job on the page, None if it is not listed
    control,  \* abortMap: the run whose controller is stored for a job
    run,      \* the runs: their job, how far they are, and whether aborted
    turn,     \* position in Batch of the job whose run is awaited
    awaited,  \* that run
    held,     \* fileMap: jobs whose file the page holds
    vanished, \* jobs whose file can no longer be read from the disk
    late,     \* stopped runs that failed after they were stopped
    missed    \* jobs whose Stop found no controller

seen == <<late, missed>>
vars == <<status, control, run, turn, awaited, held, vanished, late, missed>>

Runs == 1 .. MaxRuns
Running == {"reading", "uploading", "processing"}
Settled == {"done", "duplicate", "error", "interrupted", "cancelled"}

Run == [job : Jobs, at : {"parsing", "reading", "uploading", "waiting", "ended"},
        aborted : BOOLEAN]

\* startBatch makes each file a job of its own, with a fresh id.
ASSUME UploaderAssumption ==
    /\ MaxRuns \in Nat
    /\ None \notin Runs /\ None \notin Running \cup Settled
    /\ Batch \in Seq(Jobs)
    /\ \A i, k \in DOMAIN Batch : Batch[i] = Batch[k] => i = k

TypeOK ==
    /\ status \in [Jobs -> Running \cup Settled \cup {None}]
    /\ control \in [Jobs -> Runs \cup {None}]
    /\ run \in Seq(Run) /\ Len(run) <= MaxRuns
    /\ turn \in 0 .. Len(Batch) + 1
    /\ awaited \in Runs \cup {None}
    /\ held \subseteq Jobs /\ vanished \subseteq Jobs /\ late \subseteq Runs /\ missed \subseteq Jobs

JobOf(r) == run[r].job

\* updateJob changes a job that is listed.
Show(j, s) == status' = [status EXCEPT ![j] = IF @ = None THEN None ELSE s]

At(r, where) == run' = [run EXCEPT ![r].at = where]

-----------------------------------------------------------------------------
(* startBatch and runJob. *)

\* A new run, whose controller is stored unless it still parses its preview.
StartRun(j, at) ==
    /\ Len(run) < MaxRuns
    /\ run' = Append(run, [job |-> j, at |-> at, aborted |-> FALSE])

ConfirmAll ==
    /\ turn = 0
    /\ turn' = 1
    /\ status' = [j \in Jobs |-> "reading"]
    /\ held' = Jobs
    /\ UNCHANGED <<control, run, awaited, vanished, seen>>

\* The batch goes on whatever has become of the job.
RunNext ==
    /\ turn \in 1 .. Len(Batch)
    /\ awaited = None
    /\ LET j == Batch[turn] IN
       /\ StartRun(j, "reading")
       /\ awaited' = Len(run) + 1
       /\ control' = [control EXCEPT ![j] = Len(run) + 1]
       /\ Show(j, "reading")
    /\ UNCHANGED <<turn, held, vanished, seen>>

RunAwaited ==
    /\ awaited # None
    /\ run[awaited].at = "ended"
    /\ awaited' = None
    /\ turn' = turn + 1
    /\ UNCHANGED <<status, control, run, held, vanished, seen>>

\* The catch block: it forgets the job's controller, whosever it is.
Catch(r) ==
    /\ At(r, "ended")
    /\ control' = [control EXCEPT ![JobOf(r)] = None]
    /\ IF run[r].aborted
       THEN late' = late \cup {r} /\ UNCHANGED status
       ELSE Show(JobOf(r), "error") /\ UNCHANGED late
    /\ UNCHANGED <<turn, awaited, held, vanished, missed>>

\* The end of an await: a run that was stopped returns.
Stopped(r) ==
    /\ run[r].aborted
    /\ At(r, "ended")
    /\ UNCHANGED <<status, control, turn, awaited, held, vanished, seen>>

FileRead(r) ==
    /\ run[r].at = "reading"
    /\ \/ Stopped(r)
       \/ /\ ~run[r].aborted
          /\ Show(JobOf(r), "uploading")
          /\ At(r, "uploading")
          /\ UNCHANGED <<control, turn, awaited, held, vanished, seen>>

FileUnreadable(r) ==
    /\ run[r].at = "reading"
    /\ JobOf(r) \in vanished
    /\ Catch(r)

SendUpload(r) ==
    /\ run[r].at = "uploading"
    /\ \/ Stopped(r)
       \/ /\ ~run[r].aborted
          /\ Show(JobOf(r), "processing")
          /\ At(r, "waiting")
          /\ UNCHANGED <<control, turn, awaited, held, vanished, seen>>

\* What the server's answer says of the load.
Outcomes == {"done", "duplicate", "error"}

\* Mutant: the controller is forgotten before the run looks whether it was stopped.
ResponseForgetsFirst(r) ==
    /\ run[r].at = "waiting"
    /\ control' = [control EXCEPT ![JobOf(r)] = None]
    /\ At(r, "ended")
    /\ \/ run[r].aborted /\ UNCHANGED status
       \/ ~run[r].aborted /\ \E outcome \in Outcomes : Show(JobOf(r), outcome)
    /\ UNCHANGED <<turn, awaited, held, vanished, seen>>

Response(r) ==
    /\ run[r].at = "waiting"
    /\ \/ Stopped(r)
       \/ /\ ~run[r].aborted
          /\ control' = [control EXCEPT ![JobOf(r)] = None]
          /\ \E outcome \in Outcomes : Show(JobOf(r), outcome)
          /\ At(r, "ended")
          /\ UNCHANGED <<turn, awaited, held, vanished, seen>>

\* Mutant: a request that fails without an answer shows nothing.
RequestFailedSilent(r) ==
    /\ run[r].at = "waiting"
    /\ \/ Catch(r)
       \/ At(r, "ended") /\ UNCHANGED <<status, control, turn, awaited, held, vanished, seen>>

\* An answer that is not the upload's, or none.
RequestFailed(r) ==
    /\ run[r].at = "waiting"
    /\ Catch(r)

-----------------------------------------------------------------------------
(* What the user does. *)

\* Stop: without a stored controller only the job's status changes.
CancelJob(j) ==
    /\ status[j] \in Running
    /\ status' = [status EXCEPT ![j] = "cancelled"]
    /\ control' = [control EXCEPT ![j] = None]
    /\ run' = [r \in DOMAIN run |->
                  IF control[j] = r THEN [run[r] EXCEPT !.aborted = TRUE] ELSE run[r]]
    /\ missed' = IF control[j] = None THEN missed \cup {j} ELSE missed
    /\ UNCHANGED <<turn, awaited, held, vanished, late>>

\* Runs the batch has still to start.
ToCome == Len(Batch) - turn + (IF awaited = None THEN 1 ELSE 0)

\* Retry, or Overwrite of a duplicate: the file is parsed again first.  The
\* bound on runs leaves those of the batch.
RetryJob(j) ==
    /\ Len(run) + ToCome < MaxRuns
    /\ status[j] \in Settled \ {"done"}
    /\ j \in held
    /\ StartRun(j, "parsing")
    /\ Show(j, "reading")
    /\ UNCHANGED <<control, turn, awaited, held, vanished, seen>>

Parsed(r) ==
    /\ run[r].at = "parsing"
    /\ At(r, "reading")
    /\ control' = [control EXCEPT ![JobOf(r)] = r]
    /\ Show(JobOf(r), "reading")
    /\ UNCHANGED <<turn, awaited, held, vanished, seen>>

\* Nobody catches what parseCsvPreview throws: the job keeps its status.
ParseFails(r) ==
    /\ run[r].at = "parsing"
    /\ JobOf(r) \in vanished
    /\ At(r, "ended")
    /\ UNCHANGED <<status, control, turn, awaited, held, vanished, seen>>

ClearFinished ==
    /\ \A j \in Jobs : status[j] \notin Running
    /\ \E j \in Jobs : status[j] \in Settled
    /\ status' = [j \in Jobs |-> None]
    /\ held' = {}
    /\ UNCHANGED <<control, run, turn, awaited, vanished, seen>>

\* The page is loaded again: runs, controllers and files are gone, the jobs
\* come back from localStorage.
Reload ==
    /\ turn > 0 /\ held # {}
    /\ status' = [j \in Jobs |-> IF status[j] \in Running THEN "interrupted" ELSE status[j]]
    /\ control' = [j \in Jobs |-> None]
    /\ run' = [r \in DOMAIN run |-> [run[r] EXCEPT !.at = "ended"]]
    /\ turn' = Len(Batch) + 1
    /\ awaited' = None
    /\ held' = {}
    /\ UNCHANGED <<vanished, seen>>

FileVanishes(j) ==
    /\ j \in held \ vanished
    /\ vanished' = vanished \cup {j}
    /\ UNCHANGED <<status, control, run, turn, awaited, held, seen>>

-----------------------------------------------------------------------------
Init ==
    /\ status = [j \in Jobs |-> None]
    /\ control = [j \in Jobs |-> None]
    /\ run = <<>>
    /\ turn = 0 /\ awaited = None
    /\ held = {} /\ vanished = {} /\ late = {} /\ missed = {}

RunStep(r) ==
    \/ FileRead(r) \/ FileUnreadable(r) \/ SendUpload(r) \/ Response(r)
    \/ RequestFailed(r) \/ Parsed(r) \/ ParseFails(r)

Next ==
    \/ ConfirmAll \/ RunNext \/ RunAwaited \/ ClearFinished \/ Reload
    \/ \E r \in DOMAIN run : RunStep(r)
    \/ \E j \in Jobs : CancelJob(j) \/ RetryJob(j) \/ FileVanishes(j)

\* The page's tasks go on and every request is answered or fails; what the user
\* does is not fair.
Fairness ==
    /\ WF_vars(RunNext) /\ WF_vars(RunAwaited)
    /\ \A r \in Runs : WF_vars(r \in DOMAIN run /\ RunStep(r))

Spec == Init /\ [][Next]_vars /\ Fairness

-----------------------------------------------------------------------------
\* A run that goes on can be stopped: its controller is the one stored for its
\* job, until a Stop of the job finds none (it waits its turn, or is parsed
\* again) or a run that was stopped fails late and takes the controller of the
\* next one away (index.tsx 152-157, 188-198, 215-217, 262-265).
ControlledUntilMissed ==
    \A r \in DOMAIN run :
        (run[r].at \in {"reading", "uploading", "waiting"} /\ ~run[r].aborted) =>
            \/ control[JobOf(r)] = r
            \/ JobOf(r) \in missed
            \/ \E q \in late : JobOf(q) = JobOf(r)

\* Every job that runs settles, whatever is stopped, retried, answered late or
\* lost, unless its file has vanished: what a retry's parse throws is caught by
\* nobody (index.tsx 159-218, 257-266).
JobsSettle == \A j \in Jobs : status[j] \in Running ~> status[j] \notin Running \/ j \in vanished
=============================================================================
