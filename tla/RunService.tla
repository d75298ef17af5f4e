----------------------------- MODULE RunService -----------------------------
(***************************************************************************)
(* Runs of the sale agent: the internal API (internal_api/service.py), the *)
(* registry of runs and tasks (registry.py, persistence.py), the worker    *)
(* thread (worker.py), the host of a run (host/host.py) and the section    *)
(* pipeline it drives (agents/orchestrator/langgraph, tools, store).       *)
(*                                                                         *)
(* Processes.  The API's endpoints are served one at a time by the event   *)
(* loop: api is the one being served.  One worker thread executes tasks in *)
(* the order of their creation; it shares the sessions, the hosts and the  *)
(* files with the event loop, and only the registry takes a lock.          *)
(*                                                                         *)
(* A run's host works in the output directory of its project; two runs of  *)
(* one project share it.  Section texts, prompts and events are left out;  *)
(* an instruction is a member of Texts.                                    *)
(*                                                                         *)
(* A file operation of the worker may fail and leaves its file as it was:  *)
(* inside the host it fails the task, in the worker's own bookkeeping it   *)
(* ends the thread.  A restart keeps the files and the persisted rows,     *)
(* forgets the rest, starts a new worker and puts a task that was running  *)
(* back into the queue.  MaxFaults bounds the restarts and the failures,   *)
(* MaxTasks the tasks ever created, MaxSections the length of a plan.      *)
(***************************************************************************)
EXTENDS SectionProgress, Sequences

CONSTANTS
  Runs, Dirs,
  DirOf,        \* the output directory of a run
  Texts, None,
  MaxSections, MaxTasks, MaxFaults

ASSUME DirOfAssumption == DirOf \in [Runs -> Dirs]
ASSUME NoneAssumption == None \notin Texts /\ None \notin Progress
ASSUME BoundsAssumption ==
  MaxSections \in Nat /\ MaxTasks \in Nat /\ MaxFaults \in Nat

VARIABLES
  session,    \* run -> state_override of its session; absent: no session
  row,        \* run -> the state_override in the registry file
  lifecycle,  \* run -> Host.lifecycle
  logSeq,     \* run -> the last checkpoint number its host used
  tasks,      \* the task table, in order of creation
  api,        \* the request the event loop is serving
  worker,     \* the worker thread
  planned,    \* directory -> sections in sections.json
  progress,   \* directory -> progress.json
  texts,      \* directory -> the sections with a text file
  log,        \* directory -> checkpoints.jsonl
  pause,      \* directory -> section of pending_checkpoint.json, 0 if absent
  steer,      \* directory -> pending_steer
  torn,       \* history: directories whose progress is begun anew, their log not yet
  faults      \* restarts and failed file operations so far

runVars == <<session, row, lifecycle>>
fileVars == <<planned, progress, texts, log, logSeq, pause, steer, torn>>
vars == <<session, row, lifecycle, logSeq, tasks, api, worker, planned,
          progress, texts, log, pause, steer, torn, faults>>

Overrides == {"absent", "none", "failed", "canceled"}

(***************************************************************************)
(* A task.  saved tells whether the task file holds its status; commits is *)
(* a history field: the sections committed while it was executed.          *)
(***************************************************************************)
Task == [run : Runs, op : {"start", "resume", "continue"},
         text : Texts \cup {None},
         status : {"queued", "running", "completed", "failed"},
         saved : BOOLEAN, commits : SUBSET Nat]

NewTask(r, op, text) ==
  [run |-> r, op |-> op, text |-> text, status |-> "queued",
   saved |-> TRUE, commits |-> {}]

Active(task) == task.status \in {"queued", "running"}

\* RunSession.is_busy.
Busy(r) == \E i \in DOMAIN tasks : tasks[i].run = r /\ Active(tasks[i])

ApiIdle == [step |-> "idle", run |-> None, op |-> "none", text |-> None]

Request(step, r, op, text) ==
  [step |-> step, run |-> r, op |-> op, text |-> text]

(***************************************************************************)
(* The worker: its step, the task it executes, the section it works on,    *)
(* the instruction it has read and whether the host returned normally.     *)
(***************************************************************************)
PipelineSteps ==
  {"load", "generate", "commit", "mark", "log", "checkpoint", "clear"}

WorkerSteps ==
  {"idle", "begin", "reset", "consume", "release", "settle", "outcome", "row",
   "task", "return", "dead"} \cup PipelineSteps

WorkerIdle ==
  [step |-> "idle", task |-> 0, section |-> 0, text |-> None, ok |-> TRUE]

Current == tasks[worker.task]
Run == Current.run
Dir == DirOf[Run]

Goto(step) == worker' = [worker EXCEPT !.step = step]
Raise == worker' = [worker EXCEPT !.step = "settle", !.ok = FALSE]

TypeOK ==
  /\ session \in [Runs -> Overrides] /\ row \in [Runs -> Overrides]
  /\ lifecycle \in [Runs -> {"idle", "running", "paused", "completed"}]
  /\ logSeq \in [Runs -> Nat]
  /\ tasks \in Seq(Task)
  /\ api \in [step : {"idle", "enqueue", "steer", "abort"},
              run : Runs \cup {None},
              op : {"none", "start", "resume", "continue"},
              text : Texts \cup {None}]
  /\ api.step # "idle" => api.run \in Runs
  /\ api.step = "enqueue" => api.op # "none"
  /\ worker \in [step : WorkerSteps, task : Nat, section : Nat,
                 text : Texts \cup {None}, ok : BOOLEAN]
  /\ worker.step # "idle" => worker.task \in DOMAIN tasks
  /\ planned \in [Dirs -> Nat]
  /\ progress \in [Dirs -> Progress \cup {None}]
  /\ texts \in [Dirs -> SUBSET Nat]
  /\ log \in [Dirs -> Seq([seq : Nat, section : Nat])]
  /\ pause \in [Dirs -> Nat]
  /\ steer \in [Dirs -> Texts \cup {None}]
  /\ torn \in SUBSET Dirs
  /\ faults \in 0..MaxFaults

Init ==
  /\ session = [r \in Runs |-> "absent"] /\ row = session
  /\ lifecycle = [r \in Runs |-> "idle"]
  /\ logSeq = [r \in Runs |-> 0]
  /\ tasks = <<>>
  /\ api = ApiIdle
  /\ worker = WorkerIdle
  /\ planned = [d \in Dirs |-> 0]
  /\ progress = [d \in Dirs |-> None]
  /\ texts = [d \in Dirs |-> {}]
  /\ log = [d \in Dirs |-> <<>>]
  /\ pause = [d \in Dirs |-> 0]
  /\ steer = [d \in Dirs |-> None]
  /\ torn = {}
  /\ faults = 0

\* CheckpointStore._load_seq: the number of the last line.
LastSeq(d) == IF log[d] = <<>> THEN 0 ELSE log[d][Len(log[d])].seq

----------------------------------------------------------------------------
(***************************************************************************)
(* The API.  Every request is served in the event loop; a task is put into *)
(* the table after the session's row has been persisted.                   *)
(***************************************************************************)

\* POST /runs: a new session and its host.  An empty list of sections leaves
\* sections.json alone.
CreateRun(r, n) ==
  /\ api = ApiIdle
  /\ session[r] = "absent"
  /\ Len(tasks) < MaxTasks
  /\ planned' = [planned EXCEPT ![DirOf[r]] = IF n = 0 THEN @ ELSE n]
  /\ session' = [session EXCEPT ![r] = "none"]
  /\ row' = [row EXCEPT ![r] = "none"]
  /\ logSeq' = [logSeq EXCEPT ![r] = LastSeq(DirOf[r])]
  /\ api' = Request("enqueue", r, "start", None)
  /\ UNCHANGED <<lifecycle, tasks, worker, progress, texts, log, pause, steer,
                 torn, faults>>

\* POST /runs/{id}/resume: 409 while the run is busy.
ResumeRunBusy(r, text) ==
  /\ api = ApiIdle
  /\ session[r] # "absent"
  /\ Len(tasks) < MaxTasks
  /\ session' = [session EXCEPT ![r] = "none"]
  /\ row' = [row EXCEPT ![r] = "none"]
  /\ api' = Request("enqueue", r, "resume", text)
  /\ UNCHANGED <<lifecycle, tasks, worker, fileVars, faults>>

ResumeRun(r, text) ==
  /\ api = ApiIdle
  /\ session[r] # "absent"
  /\ ~Busy(r)
  /\ Len(tasks) < MaxTasks
  /\ session' = [session EXCEPT ![r] = "none"]
  /\ row' = [row EXCEPT ![r] = "none"]
  /\ api' = Request("enqueue", r, "resume", text)
  /\ UNCHANGED <<lifecycle, tasks, worker, fileVars, faults>>

\* POST /runs/{id}/instructions.
AddInstruction(r, text) ==
  /\ api = ApiIdle
  /\ session[r] # "absent"
  /\ Len(tasks) < MaxTasks
  /\ api' = IF Busy(r) THEN Request("steer", r, "none", text)
                       ELSE Request("enqueue", r, "continue", text)
  /\ UNCHANGED <<runVars, tasks, worker, fileVars, faults>>

\* RunRegistry.put_task; the session is persisted after an instruction.
PutTask ==
  /\ api.step = "enqueue"
  /\ tasks' = Append(tasks, NewTask(api.run, api.op, api.text))
  /\ row' = [row EXCEPT ![api.run] = session[api.run]]
  /\ api' = ApiIdle
  /\ UNCHANGED <<session, lifecycle, worker, fileVars, faults>>

\* Host.steer: nothing is kept for a host that is running.
Steer ==
  /\ api.step = "steer"
  /\ steer' = IF lifecycle[api.run] = "running" THEN steer
              ELSE [steer EXCEPT ![DirOf[api.run]] = api.text]
  /\ row' = [row EXCEPT ![api.run] = session[api.run]]
  /\ api' = ApiIdle
  /\ UNCHANGED <<session, lifecycle, tasks, worker, planned, progress, texts, log, logSeq,
                 pause, torn, faults>>

\* POST /runs/{id}/pause and /cancel, up to the test in Host.abort.
AbortTest(r) ==
  /\ api' = IF lifecycle[r] = "running" THEN Request("abort", r, "none", None)
                                        ELSE ApiIdle
  /\ row' = IF lifecycle[r] = "running" THEN row
                                        ELSE [row EXCEPT ![r] = session'[r]]

PauseRun(r) ==
  /\ api = ApiIdle
  /\ session[r] # "absent"
  /\ UNCHANGED session
  /\ AbortTest(r)
  /\ UNCHANGED <<lifecycle, tasks, worker, fileVars, faults>>

CancelRun(r) ==
  /\ api = ApiIdle
  /\ session[r] # "absent"
  /\ session' = [session EXCEPT ![r] = "canceled"]
  /\ AbortTest(r)
  /\ UNCHANGED <<lifecycle, tasks, worker, fileVars, faults>>

\* Host.abort after its test.  The flag it sets is cleared when a call of the
\* pipeline begins and read once, before its first node: only an abort between the
\* two makes the pipeline return at once, after any other it goes on.
Abort ==
  /\ api.step = "abort"
  /\ lifecycle' = [lifecycle EXCEPT ![api.run] = "paused"]
  /\ row' = [row EXCEPT ![api.run] = session[api.run]]
  /\ api' = ApiIdle
  /\ \/ UNCHANGED worker
     \/ worker.step = "load" /\ Run = api.run /\ Goto("return")
  /\ UNCHANGED <<session, tasks, fileVars, faults>>

----------------------------------------------------------------------------
(***************************************************************************)
(* The worker takes the oldest queued task and calls the host.             *)
(***************************************************************************)
Claimable(i) ==
  /\ worker = WorkerIdle
  /\ tasks[i].status = "queued"
  /\ \A j \in 1..(i - 1) : tasks[j].status # "queued"

Claim(i) ==
  /\ Claimable(i)
  /\ tasks' = [tasks EXCEPT ![i].status = "running"]
  /\ row' = [row EXCEPT ![tasks[i].run] = session[tasks[i].run]]
  /\ worker' = [WorkerIdle EXCEPT !.step = "begin", !.task = i]
  /\ UNCHANGED <<session, lifecycle, api, fileVars, faults>>

\* Host.start_prepared, first half: the progress begins anew.  The pending
\* checkpoint stays.
BeginStart ==
  /\ worker.step = "begin"
  /\ Current.op = "start"
  /\ lifecycle[Run] # "running"
  /\ progress' = [progress EXCEPT ![Dir] = InitProgress(planned[Dir])]
  /\ torn' = torn \cup {Dir}
  /\ Goto("reset")
  /\ UNCHANGED <<runVars, tasks, api, planned, texts, log, logSeq, pause, steer,
                 faults>>

\* Mutant: the log of the run before stays.
ResetLogKeeps ==
  /\ worker.step = "reset"
  /\ torn' = torn \ {Dir}
  /\ lifecycle' = [lifecycle EXCEPT ![Run] = "running"]
  /\ Goto("load")
  /\ UNCHANGED <<session, row, tasks, api, planned, progress, texts, log, logSeq,
                 pause, steer, faults>>

\* Its second half, a write of its own: the log of the checkpoints is emptied.
ResetLog ==
  /\ worker.step = "reset"
  /\ log' = [log EXCEPT ![Dir] = <<>>]
  /\ logSeq' = [logSeq EXCEPT ![Run] = 0]
  /\ torn' = torn \ {Dir}
  /\ lifecycle' = [lifecycle EXCEPT ![Run] = "running"]
  /\ Goto("load")
  /\ UNCHANGED <<session, row, tasks, api, planned, progress, texts, pause, steer,
                 faults>>

\* Host.start_prepared and Host.resume refuse a host that is running.
AlreadyRunning ==
  /\ worker.step = "begin"
  /\ Current.op = "start" \/ (Current.op = "resume" /\ Current.text = None)
  /\ lifecycle[Run] = "running"
  /\ Raise
  /\ UNCHANGED <<runVars, tasks, api, fileVars, faults>>

\* build_resume_prompt has nothing to resume.
NothingToResume(p) == p = None \/ p.phase = "complete"

BeginResume ==
  /\ worker.step = "begin"
  /\ Current.op = "resume" /\ Current.text = None
  /\ lifecycle[Run] # "running"
  /\ worker' = IF NothingToResume(progress[Dir])
                 THEN [worker EXCEPT !.step = "settle"]
                 ELSE [worker EXCEPT !.step = "consume", !.text = steer[Dir]]
  /\ UNCHANGED <<runVars, tasks, api, fileVars, faults>>

\* consume_pending_steer: loads the file, and writes it back without the lock.
ConsumeSteer ==
  /\ worker.step = "consume"
  /\ steer' = IF worker.text = None THEN steer
              ELSE [steer EXCEPT ![Dir] = None]
  /\ Goto("release")
  /\ UNCHANGED <<runVars, tasks, api, planned, progress, texts, log, logSeq,
                 pause, torn, faults>>

ReleasePause ==
  /\ worker.step = "release"
  /\ pause' = [pause EXCEPT ![Dir] = 0]
  /\ lifecycle' = [lifecycle EXCEPT ![Run] = "running"]
  /\ Goto("load")
  /\ UNCHANGED <<session, row, tasks, api, planned, progress, texts, log,
                 logSeq, steer, torn, faults>>

\* Host.continue_run: for an instruction, and for a resume that carries one.
BeginContinue ==
  /\ worker.step = "begin"
  /\ Current.op # "start" /\ Current.text # None
  /\ lifecycle' = [lifecycle EXCEPT ![Run] = "running"]
  /\ Goto("load")
  /\ UNCHANGED <<session, row, tasks, api, fileVars, faults>>

----------------------------------------------------------------------------
(***************************************************************************)
(* The pipeline: one pass commits one section.                             *)
(***************************************************************************)

\* load_runtime_context.
Loaded == IF progress[Dir] = None THEN InitProgress(0) ELSE progress[Dir]

LoadContext ==
  LET p == Loaded
      next == NextSection(p)
      finished == p.total > 0 /\ next > p.total
  IN /\ worker.step = "load"
     /\ progress' = [progress EXCEPT
                       ![Dir] = IF finished THEN [p EXCEPT !.phase = "complete"]
                                            ELSE p]
     /\ worker' = IF finished
                    THEN [worker EXCEPT !.step = "return"]
                    ELSE [worker EXCEPT !.step = "generate", !.section = next]
     /\ UNCHANGED <<runVars, tasks, api, planned, texts, log, logSeq, pause,
                    steer, torn, faults>>

\* generate_section; a failing language model yields a placeholder.
GenerateSection ==
  /\ worker.step = "generate"
  /\ progress' = [progress EXCEPT ![Dir] = StartSection(@, worker.section)]
  /\ Goto("commit")
  /\ UNCHANGED <<runVars, tasks, api, planned, texts, log, logSeq, pause,
                 steer, torn, faults>>

\* CommitSectionTool: the text, the progress, the checkpoint, in this order.
SaveText ==
  /\ worker.step = "commit"
  /\ texts' = [texts EXCEPT ![Dir] = @ \cup {worker.section}]
  /\ Goto("mark")
  /\ UNCHANGED <<runVars, tasks, api, planned, progress, log, logSeq, pause,
                 steer, torn, faults>>

MarkDone ==
  /\ worker.step = "mark"
  /\ CanTransition(progress[Dir].phase, "generating")
  /\ progress' = [progress EXCEPT
                    ![Dir] = MarkSectionComplete(@, worker.section)]
  /\ tasks' = [tasks EXCEPT ![worker.task].commits = @ \cup {worker.section}]
  /\ Goto("log")
  /\ UNCHANGED <<runVars, api, planned, texts, log, logSeq, pause, steer,
                 torn, faults>>

LogCheckpoint ==
  /\ worker.step = "log"
  /\ logSeq' = [logSeq EXCEPT ![Run] = @ + 1]
  /\ log' = [log EXCEPT ![Dir] =
               Append(@, [seq |-> logSeq[Run] + 1, section |-> worker.section])]
  /\ Goto("checkpoint")
  /\ UNCHANGED <<runVars, tasks, api, planned, progress, texts, pause, steer,
                 torn, faults>>

\* checkpoint_node: the last section completes the plan, any other pauses it.
CheckpointAllDone ==
  /\ worker.step = "checkpoint"
  /\ AllDone(progress[Dir])
  /\ progress' = [progress EXCEPT ![Dir] = MarkComplete(@)]
  /\ Goto("clear")
  /\ UNCHANGED <<runVars, tasks, api, planned, texts, log, logSeq, pause,
                 steer, torn, faults>>

ClearPause ==
  /\ worker.step = "clear"
  /\ pause' = [pause EXCEPT ![Dir] = 0]
  /\ Goto("return")
  /\ UNCHANGED <<runVars, tasks, api, planned, progress, texts, log, logSeq,
                 steer, torn, faults>>

CheckpointPause ==
  /\ worker.step = "checkpoint"
  /\ ~AllDone(progress[Dir])
  /\ pause' = [pause EXCEPT ![Dir] = worker.section]
  /\ Goto("return")
  /\ UNCHANGED <<runVars, tasks, api, planned, progress, texts, log, logSeq,
                 steer, torn, faults>>

Marked(d) ==
  IF progress[d] # None /\ progress[d].phase = "complete" THEN "completed"
  ELSE IF pause[d] # 0 THEN "paused" ELSE "idle"

\* Host._mark_idle_or_complete.
HostReturnsUnmarked ==
  /\ worker.step = "return"
  /\ Goto("settle")
  /\ UNCHANGED <<runVars, tasks, api, fileVars, faults>>

HostReturns ==
  /\ worker.step = "return"
  /\ lifecycle' = [lifecycle EXCEPT ![Run] = Marked(Dir)]
  /\ Goto("settle")
  /\ UNCHANGED <<session, row, tasks, api, fileVars, faults>>

----------------------------------------------------------------------------
(***************************************************************************)
(* The worker records the outcome.  The test of state_override and the     *)
(* assignment are two steps: the event loop may cancel in between.         *)
(***************************************************************************)
Finished == IF worker.ok THEN "completed" ELSE "failed"

SetStatus ==
  tasks' = [tasks EXCEPT ![worker.task] =
              [@ EXCEPT !.status = Finished, !.saved = FALSE]]

TestCanceled ==
  /\ worker.step = "settle"
  /\ IF session[Run] = "canceled"
       THEN SetStatus /\ Goto("row")
       ELSE UNCHANGED tasks /\ Goto("outcome")
  /\ UNCHANGED <<runVars, api, fileVars, faults>>

SetOutcome ==
  /\ worker.step = "outcome"
  /\ session' = [session EXCEPT ![Run] = IF worker.ok THEN "none" ELSE "failed"]
  /\ SetStatus
  /\ Goto("row")
  /\ UNCHANGED <<row, lifecycle, api, fileVars, faults>>

PersistSession ==
  /\ worker.step = "row"
  /\ row' = [row EXCEPT ![Run] = session[Run]]
  /\ Goto("task")
  /\ UNCHANGED <<session, lifecycle, tasks, api, fileVars, faults>>

PersistTask ==
  /\ worker.step = "task"
  /\ tasks' = [tasks EXCEPT ![worker.task].saved = TRUE]
  /\ worker' = WorkerIdle
  /\ UNCHANGED <<runVars, api, fileVars, faults>>

----------------------------------------------------------------------------
(***************************************************************************)
(* Faults.                                                                 *)
(***************************************************************************)

\* A read or write of the host raises: the exception leaves the host, usually before
\* it can say that it is no longer running.  continue_run touches no file before
\* the pipeline.
HostSteps == {"begin", "reset", "consume", "release", "return"} \cup PipelineSteps

StepFails ==
  /\ faults < MaxFaults
  /\ worker.step \in HostSteps
  /\ worker.step = "begin" => Current.text = None
  /\ Raise
  /\ faults' = faults + 1
  /\ logSeq' = IF worker.step = "log" THEN [logSeq EXCEPT ![Run] = @ + 1]
                                      ELSE logSeq
  /\ UNCHANGED <<runVars, tasks, api, planned, progress, texts, log, pause,
                 steer, torn>>

\* The host has marked itself, and the event that tells of it cannot be appended.
ReturnFails ==
  /\ faults < MaxFaults
  /\ worker.step = "return"
  /\ lifecycle' = [lifecycle EXCEPT ![Run] = Marked(Dir)]
  /\ Raise
  /\ faults' = faults + 1
  /\ UNCHANGED <<session, row, tasks, api, fileVars>>

\* A write of runs.json or runs.json.tasks raises outside the try of _execute: in the
\* claim, before the operation, or in the finally.  The thread ends; nobody starts
\* another one before the process restarts.
ClaimFails(i) ==
  /\ faults < MaxFaults
  /\ Claimable(i)
  /\ tasks' = [tasks EXCEPT ![i].status = "running"]
  /\ worker' = [WorkerIdle EXCEPT !.step = "dead", !.task = i]
  /\ faults' = faults + 1
  /\ UNCHANGED <<runVars, api, fileVars>>

PersistFails ==
  /\ faults < MaxFaults
  /\ worker.step \in {"row", "task"}
  /\ Goto("dead")
  /\ faults' = faults + 1
  /\ UNCHANGED <<runVars, tasks, api, fileVars>>

BookkeepingFails == PersistFails \/ \E i \in DOMAIN tasks : ClaimFails(i)

\* The process stops and restarts: RunRegistry.restore.
RestoreAsIs(task) ==
  IF task.saved THEN task ELSE [task EXCEPT !.status = "running", !.saved = TRUE]

Restore(task) ==
  IF task.status = "running" \/ ~task.saved
    THEN [task EXCEPT !.status = "queued", !.saved = TRUE] ELSE task

RestartForgets ==
  /\ faults < MaxFaults
  /\ session' = [r \in Runs |-> IF row[r] = "absent" THEN "absent" ELSE "none"]
  /\ lifecycle' = [r \in Runs |-> "idle"]
  /\ logSeq' = [r \in Runs |-> LastSeq(DirOf[r])]
  /\ tasks' = [i \in DOMAIN tasks |-> Restore(tasks[i])]
  /\ api' = ApiIdle
  /\ worker' = WorkerIdle
  /\ faults' = faults + 1
  /\ UNCHANGED <<row, planned, progress, texts, log, pause, steer, torn>>

Restart ==
  /\ faults < MaxFaults
  /\ session' = row
  /\ lifecycle' = [r \in Runs |-> "idle"]
  /\ logSeq' = [r \in Runs |-> LastSeq(DirOf[r])]
  /\ tasks' = [i \in DOMAIN tasks |-> Restore(tasks[i])]
  /\ api' = ApiIdle
  /\ worker' = WorkerIdle
  /\ faults' = faults + 1
  /\ UNCHANGED <<row, planned, progress, texts, log, pause, steer, torn>>

----------------------------------------------------------------------------
ApiStart(r) ==
  \/ \E n \in 0..MaxSections : CreateRun(r, n)
  \/ \E text \in Texts \cup {None} : ResumeRun(r, text)
  \/ \E text \in Texts : AddInstruction(r, text)
  \/ PauseRun(r) \/ CancelRun(r)

ApiStep == PutTask \/ Steer \/ Abort

Pipeline ==
  \/ LoadContext \/ GenerateSection \/ SaveText \/ MarkDone \/ LogCheckpoint
  \/ CheckpointAllDone \/ ClearPause \/ CheckpointPause

HostStep ==
  \/ BeginStart \/ ResetLog \/ AlreadyRunning \/ BeginResume \/ ConsumeSteer
  \/ ReleasePause \/ BeginContinue \/ Pipeline \/ HostReturns

WorkerStep ==
  \/ \E i \in DOMAIN tasks : Claim(i)
  \/ HostStep
  \/ TestCanceled \/ SetOutcome \/ PersistSession \/ PersistTask

Next ==
  \/ \E r \in Runs : ApiStart(r)
  \/ ApiStep
  \/ WorkerStep
  \/ StepFails \/ ReturnFails \/ BookkeepingFails
  \/ Restart

Spec == Init /\ [][Next]_vars

\* The event loop keeps running, and the worker thread until its bookkeeping fails;
\* nobody has to send a request, and nothing has to fail.
FairSpec == Spec /\ WF_vars(ApiStep) /\ WF_vars(WorkerStep)

----------------------------------------------------------------------------
(***************************************************************************)
(* Properties that hold.                                                   *)
(***************************************************************************)

\* The directory implements SectionPlan: whatever is paused, canceled, retried
\* or restarted, sections are committed in order and a plan is complete only
\* when all of it is.
PlanOf(p) ==
  IF p = None
    THEN [total |-> 0, done |-> {}, status |-> "open"]
    ELSE [total |-> p.total, done |-> p.done,
          status |-> IF p.phase = "complete" THEN "complete" ELSE "open"]

Plan == INSTANCE SectionPlan WITH
  plan <- [d \in Dirs |-> PlanOf(progress[d])]

ImplementsPlan == Plan!PlanSpec

\* The sections of d that are committed.
Done(d) == IF progress[d] = None THEN {} ELSE progress[d].done

\* A section counts as committed only when its text is on disk, and is logged
\* only when it is committed: no restart or failure between the three writes of a
\* commit leaves progress pointing at a missing text, or the log ahead of progress.
\* The one way to a log that does not fit is a start that does not get from
\* progress.init to checkpoints.reset; the next start mends it.
CommittedIsOnDisk ==
  \A d \in Dirs :
    /\ Done(d) \subseteq texts[d]
    /\ \A i \in DOMAIN log[d] : log[d][i].section \in texts[d]
    /\ d \notin torn =>
         /\ \A i \in DOMAIN log[d] : log[d][i].section \in Done(d)
         /\ \A i, j \in DOMAIN log[d] :
              i < j => log[d][i].section < log[d][j].section

\* The tasks of r that wait or run.
ActiveTasks(r) == {i \in DOMAIN tasks : tasks[i].run = r /\ Active(tasks[i])}

\* A run never has two tasks waiting or running, because resume and
\* instructions look at is_busy first; a restart that forgets how the last task
\* ended adds at most that one.
OneActiveTask ==
  \A r \in Runs : Cardinality(ActiveTasks(r)) <= IF faults = 0 THEN 1 ELSE 2

\* map_product_status: what the API tells of a run.
ProductStatus(r) ==
  IF Busy(r) THEN "running"
  ELSE IF pause[DirOf[r]] # 0 THEN "waiting_input"
  ELSE IF session[r] \in {"failed", "canceled"} THEN session[r]
  ELSE IF lifecycle[r] \in {"running", "completed"} THEN lifecycle[r]
  ELSE "idle"

\* No other run works in the directory of r.
Alone(r) == \A q \in Runs \ {r} : DirOf[q] # DirOf[r]

\* The status of a run is true, though it is put together from the task table,
\* the pause file, the session and the host, which change one after the other:
\* a run shown as running has a task that waits or is executed; of a run that has its
\* directory to itself, one shown as completed has all its sections, and without
\* faults one shown as waiting waits after a committed section.
StatusIsTrue ==
  \A r \in Runs :
    /\ ProductStatus(r) = "running" =>
         Busy(r) \/ (api.step = "enqueue" /\ api.run = r)
    /\ Alone(r) =>
         /\ ProductStatus(r) = "completed" => progress[DirOf[r]].phase = "complete"
         /\ ProductStatus(r) = "waiting_input" /\ faults = 0
              => pause[DirOf[r]] \in Done(DirOf[r])

\* A canceled run stays canceled until a resume, whatever its worker does and
\* over restarts; the exceptions are a worker past its test of state_override,
\* and a restart before the row has been persisted.
CancelSticks ==
  [][\A r \in Runs : session[r] = "canceled" /\ session'[r] # "canceled" =>
       \/ api'.op = "resume"
       \/ worker.step = "outcome" /\ Run = r
       \/ faults' > faults /\ row[r] # "canceled"]_vars

\* The worker ends every task that was put into the table, unless a failure of its
\* own bookkeeping ends the worker first: no request, pause, cancellation, failed
\* operation of the host or restart leaves one waiting for ever.
TasksEnd ==
  \A i \in 1..MaxTasks :
    i \in DOMAIN tasks ~>
      \/ i \in DOMAIN tasks /\ tasks[i].status \in {"completed", "failed"}
      \/ worker.step = "dead"

=============================================================================
