-------------------------- MODULE RunService_proofs --------------------------
(***************************************************************************)
(* Theorems about RunService, for any runs, directories, instructions and  *)
(* bounds.                                                                 *)
(***************************************************************************)
EXTENDS RunService, FiniteSetTheorems, SequenceTheorems, TLAPS

\* The record set of TypeOK under a name of its own.
Workers == [step : WorkerSteps, task : Nat, section : Nat,
            text : Texts \cup {None}, ok : BOOLEAN]

\* Progress is there from the moment a task has loaded it, and while a section
\* is worked on it is the next one.
WorkerInv ==
  /\ worker.step \in {"generate", "commit", "mark", "log", "checkpoint"} =>
       progress[Dir] # None
  /\ worker.step \in {"generate", "commit", "mark"} =>
       /\ worker.section \in Nat \ {0}
       /\ progress[Dir].phase # "complete"
       /\ progress[Dir].done = 1..(worker.section - 1)
       /\ progress[Dir].total > 0 => worker.section <= progress[Dir].total

\* The sections 1..n are done, and a plan is complete at its last section.
InOrder(p, n) ==
  /\ p.total \in 0..MaxSections
  /\ p.done = 1..n
  /\ p.total > 0 => n <= p.total
  /\ p.phase = "complete" => p.total > 0 /\ n = p.total

PlanInv ==
  \A d \in Dirs :
    /\ planned[d] \in 0..MaxSections
    /\ progress[d] # None => \E n \in Nat : InOrder(progress[d], n)

IInv == TypeOK /\ WorkerInv /\ PlanInv

----------------------------------------------------------------------------
\* The section after 1..n is n + 1.
LEMMA NextIsNext ==
  ASSUME NEW p, NEW n \in Nat, p.done = 1..n
  PROVE  NextSection(p) = n + 1
<1>1. CASE n = 0
  <2>1. p.done = {}
    BY <1>1
  <2>2. NextSection(p) = 1
    BY <2>1, Zenon DEF NextSection
  <2>. QED  BY <1>1, <2>2
<1>2. CASE n > 0
  <2>1. n \in p.done /\ \A t \in p.done : t <= n
    BY <1>2
  <2>2. \A s \in p.done : (\A t \in p.done : t <= s) => s = n
    BY <2>1
  <2>3. (CHOOSE s \in p.done : \A t \in p.done : t <= s) = n
    BY <2>1, <2>2
  <2>4. NextSection(p) = 1 + n
    BY <2>1, <2>3, Zenon DEF NextSection
  <2>. QED  BY <2>4
<1>. QED  BY <1>1, <1>2

\* A plan in order is all done exactly at its last section.
LEMMA AllDoneAtLast ==
  ASSUME NEW p, NEW n \in Nat, InOrder(p, n), AllDone(p)
  PROVE  p.total > 0 /\ n = p.total
<1>1. Cardinality(1..n) = n
  BY FS_Interval
<1>. QED  BY <1>1, BoundsAssumption DEF InOrder, AllDone

\* The initial state.
LEMMA InitIInv == Init => IInv
<1>. SUFFICES ASSUME Init PROVE IInv
  OBVIOUS
<1>1. TypeOK
  BY BoundsAssumption
  DEF Init, TypeOK, ApiIdle, WorkerIdle, WorkerSteps, PipelineSteps, Overrides
<1>2. WorkerInv
  BY DEF Init, WorkerInv, WorkerIdle
<1>3. PlanInv
  BY BoundsAssumption DEF Init, PlanInv
<1>. QED  BY <1>1, <1>2, <1>3 DEF IInv

----------------------------------------------------------------------------
(***************************************************************************)
(* Type correctness of the steps.                                          *)
(***************************************************************************)

\* What TypeOK says of a worker that is at work: its task, run and directory.
LEMMA AtWork ==
  ASSUME TypeOK, worker.step # "idle"
  PROVE  /\ worker.task \in DOMAIN tasks
         /\ Current \in Task
         /\ Run \in Runs
         /\ Dir \in Dirs
<1>1. worker.task \in DOMAIN tasks /\ tasks \in Seq(Task)
  BY DEF TypeOK
<1>2. Current \in Task
  BY <1>1 DEF Current
<1>3. Run \in Runs
  BY <1>2 DEF Run, Task
<1>. QED  BY <1>1, <1>2, <1>3, DirOfAssumption DEF Dir

\* A new step of the worker, and a raised exception.
LEMMA WorkerMoves ==
  ASSUME worker \in Workers
  PROVE  /\ \A step \in WorkerSteps :
              [worker EXCEPT !.step = step] \in Workers
         /\ \A step \in WorkerSteps, n \in Nat :
              [worker EXCEPT !.step = step, !.section = n] \in Workers
         /\ [worker EXCEPT !.step = "settle", !.ok = FALSE] \in Workers
BY DEF Workers, WorkerSteps

\* Every checkpoint number is a number.
LEMMA LastSeqType ==
  ASSUME TypeOK, NEW d \in Dirs
  PROVE  LastSeq(d) \in Nat
<1>1. log[d] \in Seq([seq : Nat, section : Nat])
  BY DEF TypeOK
<1>2. CASE log[d] = <<>>
  BY <1>2 DEF LastSeq
<1>3. CASE log[d] # <<>>
  <2>1. Len(log[d]) \in 1..Len(log[d])
    BY <1>1, <1>3, LenProperties
  <2>2. log[d][Len(log[d])] \in [seq : Nat, section : Nat]
    BY <1>1, <2>1, ElementOfSeq
  <2>. QED  BY <1>3, <2>2 DEF LastSeq
<1>. QED  BY <1>2, <1>3

\* An abort leaves the worker alone, or makes its pipeline return before the first
\* node.
LEMMA AbortMoves ==
  ASSUME TypeOK, Abort
  PROVE  /\ worker' \in Workers /\ worker'.task = worker.task
         /\ worker' = worker \/ (worker.step = "load" /\ worker'.step = "return")
<1>1. worker \in Workers
  BY DEF TypeOK, Workers
<1>2. CASE worker' = worker
  BY <1>1, <1>2
<1>3. CASE worker.step = "load" /\ worker' = [worker EXCEPT !.step = "return"]
  BY <1>1, <1>3 DEF Workers, WorkerSteps
<1>. QED  BY <1>2, <1>3 DEF Abort, Goto

\* The API's steps.
LEMMA ApiTypes ==
  ASSUME TypeOK, NEW r \in Runs, ApiStart(r) \/ ApiStep
  PROVE  TypeOK'
<1>1. ASSUME NEW n \in 0..MaxSections, CreateRun(r, n) PROVE TypeOK'
  <2>1. DirOf[r] \in Dirs
    BY DirOfAssumption
  <2>2. LastSeq(DirOf[r]) \in Nat
    BY <2>1, LastSeqType
  <2>3. planned' \in [Dirs -> Nat]
    BY <1>1, <2>1, BoundsAssumption DEF CreateRun, TypeOK
  <2>4. /\ session' \in [Runs -> Overrides] /\ row' \in [Runs -> Overrides]
        /\ logSeq' \in [Runs -> Nat]
    BY <1>1, <2>2 DEF CreateRun, TypeOK, Overrides
  <2>. QED  BY <1>1, <2>3, <2>4 DEF CreateRun, TypeOK, Request
<1>2. ASSUME NEW text \in Texts \cup {None}, ResumeRun(r, text) PROVE TypeOK'
  BY <1>2 DEF ResumeRun, TypeOK, Request, Overrides, fileVars
<1>3. ASSUME NEW text \in Texts, AddInstruction(r, text) PROVE TypeOK'
  BY <1>3 DEF AddInstruction, TypeOK, Request, fileVars, runVars
<1>4. CASE PauseRun(r)
  BY <1>4 DEF PauseRun, AbortTest, TypeOK, Request, ApiIdle, fileVars
<1>5. CASE CancelRun(r)
  BY <1>5 DEF CancelRun, AbortTest, TypeOK, Request, ApiIdle, fileVars, Overrides
<1>6. CASE PutTask
  BY <1>6 DEF PutTask, NewTask, Task, TypeOK, ApiIdle, fileVars
<1>7. CASE Steer
  BY <1>7, DirOfAssumption DEF Steer, TypeOK, ApiIdle, fileVars
<1>8. CASE Abort
  <2>1. worker' \in Workers /\ worker'.task = worker.task
    BY <1>8, AbortMoves
  <2>2. worker'.step # "idle" => worker.step # "idle"
    BY <1>8, AbortMoves
  <2>. QED  BY <1>8, <2>1, <2>2 DEF Abort, TypeOK, ApiIdle, Workers, fileVars
<1>. QED  BY <1>1, <1>2, <1>3, <1>4, <1>5, <1>6, <1>7, <1>8
          DEF ApiStart, ApiStep
\* Changing one task, and putting all back after a restart, keeps a task table.
LEMMA TaskTable ==
  ASSUME tasks \in Seq(Task)
  PROVE  /\ \A i \in DOMAIN tasks, t \in Task : [tasks EXCEPT ![i] = t] \in Seq(Task)
         /\ [i \in DOMAIN tasks |-> Restore(tasks[i])] \in Seq(Task)
         /\ DOMAIN [i \in DOMAIN tasks |-> Restore(tasks[i])] = DOMAIN tasks
<1>1. \A i \in DOMAIN tasks, t \in Task : [tasks EXCEPT ![i] = t] \in Seq(Task)
  BY ExceptSeq
<1>2. \A i \in DOMAIN tasks : Restore(tasks[i]) \in Task
  <2>. SUFFICES ASSUME NEW i \in DOMAIN tasks PROVE Restore(tasks[i]) \in Task
    OBVIOUS
  <2>1. tasks[i] \in Task
    BY ElementOfSeq
  <2>. QED  BY <2>1 DEF Restore, Task
<1>3. DOMAIN tasks = 1..Len(tasks) /\ Len(tasks) \in Nat
  BY LenProperties
<1>4. [i \in DOMAIN tasks |-> Restore(tasks[i])] \in Seq(Task)
  BY <1>2, <1>3, IsASeq
<1>. QED  BY <1>1, <1>4

\* What a step does to its own task keeps it a task.
LEMMA TaskChanges ==
  ASSUME NEW task \in Task
  PROVE  /\ \A s \in {"queued", "running", "completed", "failed"} :
              /\ [task EXCEPT !.status = s] \in Task
              /\ \A b \in BOOLEAN : [task EXCEPT !.status = s, !.saved = b] \in Task
         /\ \A b \in BOOLEAN : [task EXCEPT !.saved = b] \in Task
         /\ \A n \in Nat : [task EXCEPT !.commits = @ \cup {n}] \in Task
BY DEF Task
\* The operations on progress return progress.
LEMMA ProgressTypes ==
  /\ \A n \in Nat : InitProgress(n) \in Progress
  /\ \A p \in Progress, s \in Nat :
       StartSection(p, s) \in Progress /\ MarkSectionComplete(p, s) \in Progress
  /\ \A p \in Progress :
       /\ MarkComplete(p) \in Progress
       /\ [p EXCEPT !.phase = "complete"] \in Progress
BY DEF InitProgress, StartSection, MarkSectionComplete, MarkComplete, Progress,
       Phases

\* Claiming a task, and failing to.
LEMMA ClaimTypes ==
  ASSUME TypeOK, NEW i \in DOMAIN tasks, Claim(i) \/ ClaimFails(i)
  PROVE  TypeOK'
<1>1. tasks \in Seq(Task)
  BY DEF TypeOK
<1>2. i \in Nat /\ tasks[i] \in Task
  <2>1. DOMAIN tasks = 1..Len(tasks) /\ Len(tasks) \in Nat
    BY <1>1, LenProperties
  <2>. QED  BY <1>1, <2>1, ElementOfSeq
<1>8. /\ tasks' = [tasks EXCEPT ![i].status = "running"]
      /\ \/ worker' = [WorkerIdle EXCEPT !.step = "begin", !.task = i]
         \/ worker' = [WorkerIdle EXCEPT !.step = "dead", !.task = i]
  BY DEF Claim, ClaimFails
<1>3. tasks' \in Seq(Task) /\ DOMAIN tasks' = DOMAIN tasks
  BY <1>1, <1>2, <1>8, TaskTable, TaskChanges
<1>4. tasks[i].run \in Runs
  BY <1>2 DEF Task
<1>5. worker' \in Workers /\ worker'.task = i
  <2>1. \A step \in {"begin", "dead"} :
          /\ [WorkerIdle EXCEPT !.step = step, !.task = i] \in Workers
          /\ [WorkerIdle EXCEPT !.step = step, !.task = i].task = i
    BY <1>2 DEF WorkerIdle, Workers, WorkerSteps
  <2>. QED  BY <1>8, <2>1
<1>6. row' \in [Runs -> Overrides]
  BY <1>4 DEF Claim, ClaimFails, TypeOK, runVars
<1>7. faults' \in 0..MaxFaults
  BY BoundsAssumption DEF Claim, ClaimFails, TypeOK
<1>. QED  BY <1>3, <1>5, <1>6, <1>7
          DEF Claim, ClaimFails, TypeOK, Workers, fileVars, runVars
\* The host's steps before the pipeline.
LEMMA BeginTypes ==
  ASSUME TypeOK,
         \/ BeginStart \/ ResetLog \/ AlreadyRunning \/ BeginResume
         \/ ConsumeSteer \/ ReleasePause \/ BeginContinue
  PROVE  TypeOK'
<1>1. worker.step # "idle" /\ worker \in Workers
  BY DEF BeginStart, ResetLog, AlreadyRunning, BeginResume, ConsumeSteer, ReleasePause,
         BeginContinue, TypeOK, Workers
<1>2. Run \in Runs /\ Dir \in Dirs /\ worker.task \in DOMAIN tasks
  BY <1>1, AtWork
<1>3. CASE BeginStart
  <2>1. worker' \in Workers /\ worker'.task = worker.task
    BY <1>1, <1>3, WorkerMoves DEF BeginStart, Goto, WorkerSteps, PipelineSteps, Workers
  <2>2. progress' \in [Dirs -> Progress \cup {None}]
    <3>1. InitProgress(planned[Dir]) \in Progress
      BY <1>2, ProgressTypes DEF TypeOK
    <3>. QED  BY <1>3, <3>1 DEF BeginStart, TypeOK
  <2>. QED  BY <1>2, <1>3, <2>1, <2>2 DEF BeginStart, TypeOK, Workers, runVars
<1>9. CASE ResetLog
  <2>1. worker' \in Workers /\ worker'.task = worker.task
    BY <1>1, <1>9, WorkerMoves DEF ResetLog, Goto, WorkerSteps, PipelineSteps, Workers
  <2>2. log' \in [Dirs -> Seq([seq : Nat, section : Nat])]
    BY <1>9, EmptySeq DEF ResetLog, TypeOK
  <2>3. logSeq' \in [Runs -> Nat]
    BY <1>9 DEF ResetLog, TypeOK
  <2>4. lifecycle' \in [Runs -> {"idle", "running", "paused", "completed"}]
    BY <1>9 DEF ResetLog, TypeOK
  <2>. QED  BY <1>2, <1>9, <2>1, <2>2, <2>3, <2>4 DEF ResetLog, TypeOK, Workers
<1>4. CASE AlreadyRunning
  <2>1. worker' \in Workers /\ worker'.task = worker.task
    BY <1>1, <1>4, WorkerMoves DEF AlreadyRunning, Raise, Workers
  <2>. QED  BY <1>2, <1>4, <2>1
            DEF AlreadyRunning, TypeOK, Workers, runVars, fileVars
<1>5. CASE BeginResume
  <2>1. worker' \in Workers /\ worker'.task = worker.task
    <3>1. steer[Dir] \in Texts \cup {None}
      BY <1>2 DEF TypeOK
    <3>2. {"settle", "consume"} \subseteq WorkerSteps
      BY DEF WorkerSteps
    <3>. QED  BY <1>1, <1>5, <3>1, <3>2 DEF BeginResume, Workers
  <2>. QED  BY <1>2, <1>5, <2>1
            DEF BeginResume, TypeOK, Workers, runVars, fileVars
<1>6. CASE ConsumeSteer
  <2>1. worker' \in Workers /\ worker'.task = worker.task
    BY <1>1, <1>6, WorkerMoves DEF ConsumeSteer, Goto, WorkerSteps, Workers
  <2>2. steer' \in [Dirs -> Texts \cup {None}]
    BY <1>6 DEF ConsumeSteer, TypeOK
  <2>. QED  BY <1>2, <1>6, <2>1, <2>2
            DEF ConsumeSteer, TypeOK, Workers, runVars
<1>7. CASE ReleasePause
  <2>1. worker' \in Workers /\ worker'.task = worker.task
    BY <1>1, <1>7, WorkerMoves DEF ReleasePause, Goto, WorkerSteps, PipelineSteps, Workers
  <2>2. /\ pause' \in [Dirs -> Nat]
        /\ lifecycle' \in [Runs -> {"idle", "running", "paused", "completed"}]
    BY <1>7 DEF ReleasePause, TypeOK
  <2>. QED  BY <1>2, <1>7, <2>1, <2>2 DEF ReleasePause, TypeOK, Workers
<1>8. CASE BeginContinue
  <2>1. worker' \in Workers /\ worker'.task = worker.task
    BY <1>1, <1>8, WorkerMoves DEF BeginContinue, Goto, WorkerSteps, PipelineSteps, Workers
  <2>2. lifecycle' \in [Runs -> {"idle", "running", "paused", "completed"}]
    BY <1>8 DEF BeginContinue, TypeOK
  <2>. QED  BY <1>2, <1>8, <2>1, <2>2 DEF BeginContinue, TypeOK, Workers, fileVars
<1>. QED  BY <1>3, <1>4, <1>5, <1>6, <1>7, <1>8, <1>9
\* What the pipeline loads is in order.
LEMMA LoadedInOrder ==
  ASSUME TypeOK, PlanInv, Dir \in Dirs
  PROVE  /\ Loaded \in Progress
         /\ \E n \in Nat : InOrder(Loaded, n) /\ NextSection(Loaded) = n + 1
<1>1. CASE progress[Dir] = None
  <2>1. Loaded = InitProgress(0)
    BY <1>1 DEF Loaded
  <2>2. InitProgress(0) \in Progress
    BY ProgressTypes
  <2>3. InOrder(InitProgress(0), 0)
    BY BoundsAssumption DEF InOrder, InitProgress
  <2>4. NextSection(InitProgress(0)) = 0 + 1
    BY <2>3, NextIsNext DEF InOrder
  <2>. QED  BY <2>1, <2>2, <2>3, <2>4
<1>2. CASE progress[Dir] # None
  <2>1. Loaded = progress[Dir]
    BY <1>2 DEF Loaded
  <2>2. progress[Dir] \in Progress
    BY <1>2 DEF TypeOK
  <2>3. PICK n \in Nat : InOrder(progress[Dir], n)
    BY <1>2 DEF PlanInv
  <2>4. NextSection(progress[Dir]) = n + 1
    BY <2>3, NextIsNext DEF InOrder
  <2>. QED  BY <2>1, <2>2, <2>3, <2>4
<1>. QED  BY <1>1, <1>2

\* The pipeline's steps, and the host's return.
LEMMA PipelineTypes ==
  ASSUME TypeOK, WorkerInv, PlanInv, Pipeline \/ HostReturns
  PROVE  TypeOK'
<1>1. worker.step # "idle" /\ worker \in Workers
  BY DEF Pipeline, HostReturns, LoadContext, GenerateSection, SaveText, MarkDone,
         LogCheckpoint, CheckpointAllDone, ClearPause, CheckpointPause, TypeOK,
         Workers
<1>2. /\ Run \in Runs /\ Dir \in Dirs /\ worker.task \in DOMAIN tasks
      /\ Current \in Task
  BY <1>1, AtWork
<1>3. worker.section \in Nat
  BY <1>1 DEF Workers
<1>4. progress[Dir] # None => progress[Dir] \in Progress
  BY <1>2 DEF TypeOK
<1>5. \A step \in WorkerSteps :
        Goto(step) => worker' \in Workers /\ worker'.task = worker.task
  BY <1>1, WorkerMoves DEF Goto, Workers
<1>6. {"generate", "commit", "mark", "log", "checkpoint", "clear", "return", "settle"}
        \subseteq WorkerSteps
  BY DEF WorkerSteps, PipelineSteps
<1>7. CASE LoadContext
  <2>1. PICK n \in Nat : InOrder(Loaded, n) /\ NextSection(Loaded) = n + 1
    BY <1>2, LoadedInOrder
  <2>2. Loaded \in Progress /\ [Loaded EXCEPT !.phase = "complete"] \in Progress
    BY <1>2, LoadedInOrder, ProgressTypes
  <2>3. worker' \in Workers /\ worker'.task = worker.task
    <3>1. /\ [worker EXCEPT !.step = "return"] \in Workers
          /\ [worker EXCEPT !.step = "generate", !.section = n + 1] \in Workers
      <4>1. n + 1 \in Nat /\ "return" \in WorkerSteps /\ "generate" \in WorkerSteps
        BY <1>6
      <4>. QED  BY <1>1, <4>1, WorkerMoves, Zenon
    <3>2. \/ worker' = [worker EXCEPT !.step = "return"]
          \/ worker' = [worker EXCEPT !.step = "generate", !.section = n + 1]
      BY <1>7, <2>1, Zenon DEF LoadContext
    <3>. QED  BY <1>1, <3>1, <3>2 DEF Workers
  <2>4. progress' \in [Dirs -> Progress \cup {None}]
    BY <1>7, <2>2 DEF LoadContext, TypeOK
  <2>. QED  BY <1>2, <1>7, <2>3, <2>4 DEF LoadContext, TypeOK, Workers, runVars
<1>8. CASE GenerateSection
  <2>1. worker' \in Workers /\ worker'.task = worker.task
    BY <1>5, <1>6, <1>8 DEF GenerateSection
  <2>2. StartSection(progress[Dir], worker.section) \in Progress
    BY <1>3, <1>4, <1>8, ProgressTypes DEF GenerateSection, WorkerInv
  <2>3. progress' \in [Dirs -> Progress \cup {None}]
    BY <1>8, <2>2 DEF GenerateSection, TypeOK
  <2>. QED  BY <1>2, <1>8, <2>1, <2>3 DEF GenerateSection, TypeOK, Workers, runVars
<1>9. CASE SaveText
  <2>1. worker' \in Workers /\ worker'.task = worker.task
    BY <1>5, <1>6, <1>9 DEF SaveText
  <2>2. texts' \in [Dirs -> SUBSET Nat]
    BY <1>2, <1>3, <1>9 DEF SaveText, TypeOK
  <2>. QED  BY <1>2, <1>9, <2>1, <2>2 DEF SaveText, TypeOK, Workers, runVars
<1>10. CASE MarkDone
  <2>1. worker' \in Workers /\ worker'.task = worker.task
    BY <1>5, <1>6, <1>10 DEF MarkDone
  <2>2. MarkSectionComplete(progress[Dir], worker.section) \in Progress
    BY <1>3, <1>4, <1>10, ProgressTypes DEF MarkDone, WorkerInv
  <2>3. progress' \in [Dirs -> Progress \cup {None}]
    BY <1>10, <2>2 DEF MarkDone, TypeOK
  <2>4. tasks' \in Seq(Task) /\ DOMAIN tasks' = DOMAIN tasks
    <3>1. [Current EXCEPT !.commits = @ \cup {worker.section}] \in Task
      BY <1>2, <1>3, TaskChanges
    <3>. QED  BY <1>2, <1>10, <3>1, TaskTable DEF MarkDone, Current, TypeOK
  <2>. QED  BY <1>2, <1>10, <2>1, <2>3, <2>4 DEF MarkDone, TypeOK, Workers, runVars
<1>11. CASE LogCheckpoint
  <2>1. worker' \in Workers /\ worker'.task = worker.task
    BY <1>5, <1>6, <1>11 DEF LogCheckpoint
  <2>2. logSeq' \in [Runs -> Nat]
    BY <1>2, <1>11 DEF LogCheckpoint, TypeOK
  <2>3. log' \in [Dirs -> Seq([seq : Nat, section : Nat])]
    <3>1. [seq |-> logSeq[Run] + 1, section |-> worker.section]
            \in [seq : Nat, section : Nat]
      BY <1>2, <1>3 DEF TypeOK
    <3>2. \A q \in Seq([seq : Nat, section : Nat]) :
            Append(q, [seq |-> logSeq[Run] + 1, section |-> worker.section])
              \in Seq([seq : Nat, section : Nat])
      BY <3>1, AppendProperties
    <3>. QED  BY <1>2, <1>11, <3>2 DEF LogCheckpoint, TypeOK
  <2>. QED  BY <1>2, <1>11, <2>1, <2>2, <2>3
            DEF LogCheckpoint, TypeOK, Workers, runVars
<1>12. CASE CheckpointAllDone
  <2>1. worker' \in Workers /\ worker'.task = worker.task
    BY <1>5, <1>6, <1>12 DEF CheckpointAllDone
  <2>2. MarkComplete(progress[Dir]) \in Progress
    BY <1>4, <1>12, ProgressTypes DEF CheckpointAllDone, WorkerInv
  <2>3. progress' \in [Dirs -> Progress \cup {None}]
    BY <1>12, <2>2 DEF CheckpointAllDone, TypeOK
  <2>. QED  BY <1>2, <1>12, <2>1, <2>3
            DEF CheckpointAllDone, TypeOK, Workers, runVars
<1>13. CASE ClearPause
  <2>1. worker' \in Workers /\ worker'.task = worker.task
    BY <1>5, <1>6, <1>13 DEF ClearPause
  <2>2. pause' \in [Dirs -> Nat]
    BY <1>13 DEF ClearPause, TypeOK
  <2>. QED  BY <1>2, <1>13, <2>1, <2>2 DEF ClearPause, TypeOK, Workers, runVars
<1>14. CASE CheckpointPause
  <2>1. worker' \in Workers /\ worker'.task = worker.task
    BY <1>5, <1>6, <1>14 DEF CheckpointPause
  <2>2. pause' \in [Dirs -> Nat]
    BY <1>3, <1>14 DEF CheckpointPause, TypeOK
  <2>. QED  BY <1>2, <1>14, <2>1, <2>2
            DEF CheckpointPause, TypeOK, Workers, runVars
<1>15. CASE HostReturns
  <2>1. worker' \in Workers /\ worker'.task = worker.task
    BY <1>5, <1>6, <1>15 DEF HostReturns
  <2>2. lifecycle' \in [Runs -> {"idle", "running", "paused", "completed"}]
    BY <1>15 DEF HostReturns, Marked, TypeOK
  <2>. QED  BY <1>2, <1>15, <2>1, <2>2 DEF HostReturns, TypeOK, Workers, fileVars
<1>. QED  BY <1>7, <1>8, <1>9, <1>10, <1>11, <1>12, <1>13, <1>14, <1>15
          DEF Pipeline

\* The worker's last steps, a failing step and a restart.
LEMMA OutcomeTypes ==
  ASSUME TypeOK,
         \/ TestCanceled \/ SetOutcome \/ PersistSession \/ PersistTask
         \/ StepFails \/ ReturnFails \/ PersistFails
  PROVE  TypeOK'
<1>1. worker.step # "idle" /\ worker \in Workers
  BY DEF TestCanceled, SetOutcome, PersistSession, PersistTask, StepFails,
         ReturnFails, PersistFails, HostSteps, PipelineSteps, TypeOK, Workers
<1>2. /\ Run \in Runs /\ Dir \in Dirs /\ worker.task \in DOMAIN tasks
      /\ Current \in Task
  BY <1>1, AtWork
<1>3. \A step \in WorkerSteps :
        Goto(step) => worker' \in Workers /\ worker'.task = worker.task
  BY <1>1, WorkerMoves DEF Goto, Workers
<1>4. {"outcome", "row", "task", "dead"} \subseteq WorkerSteps
  BY DEF WorkerSteps
<1>5. SetStatus => tasks' \in Seq(Task) /\ DOMAIN tasks' = DOMAIN tasks
  <2>1. [Current EXCEPT !.status = Finished, !.saved = FALSE] \in Task
    BY <1>2, TaskChanges DEF Finished
  <2>. QED  BY <1>2, <2>1, TaskTable DEF SetStatus, Current, TypeOK
<1>6. CASE TestCanceled
  <2>1. worker' \in Workers /\ worker'.task = worker.task
    BY <1>3, <1>4, <1>6 DEF TestCanceled
  <2>2. tasks' \in Seq(Task) /\ DOMAIN tasks' = DOMAIN tasks
    BY <1>5, <1>6 DEF TestCanceled, TypeOK
  <2>. QED  BY <1>2, <1>6, <2>1, <2>2
            DEF TestCanceled, TypeOK, Workers, runVars, fileVars
<1>7. CASE SetOutcome
  <2>1. worker' \in Workers /\ worker'.task = worker.task
    BY <1>3, <1>4, <1>7 DEF SetOutcome
  <2>2. tasks' \in Seq(Task) /\ DOMAIN tasks' = DOMAIN tasks
    BY <1>5, <1>7 DEF SetOutcome
  <2>3. session' \in [Runs -> Overrides]
    BY <1>7 DEF SetOutcome, TypeOK, Overrides
  <2>. QED  BY <1>2, <1>7, <2>1, <2>2, <2>3
            DEF SetOutcome, TypeOK, Workers, fileVars
<1>8. CASE PersistSession
  <2>1. worker' \in Workers /\ worker'.task = worker.task
    BY <1>3, <1>4, <1>8 DEF PersistSession
  <2>2. row' \in [Runs -> Overrides]
    BY <1>2, <1>8 DEF PersistSession, TypeOK
  <2>. QED  BY <1>2, <1>8, <2>1, <2>2
            DEF PersistSession, TypeOK, Workers, fileVars
<1>9. CASE PersistTask
  <2>1. worker' \in Workers /\ worker'.step = "idle"
    BY <1>9 DEF PersistTask, WorkerIdle, Workers, WorkerSteps
  <2>2. tasks' \in Seq(Task)
    <3>1. [Current EXCEPT !.saved = TRUE] \in Task
      BY <1>2, TaskChanges
    <3>. QED  BY <1>2, <1>9, <3>1, TaskTable DEF PersistTask, Current, TypeOK
  <2>. QED  BY <1>9, <2>1, <2>2
            DEF PersistTask, TypeOK, Workers, runVars, fileVars
<1>10. CASE StepFails
  <2>1. worker' \in Workers /\ worker'.task = worker.task
    BY <1>1, <1>10, WorkerMoves DEF StepFails, Raise, Workers
  <2>2. logSeq' \in [Runs -> Nat]
    BY <1>2, <1>10 DEF StepFails, TypeOK
  <2>3. faults' \in 0..MaxFaults
    BY <1>10, BoundsAssumption DEF StepFails, TypeOK
  <2>. QED  BY <1>2, <1>10, <2>1, <2>2, <2>3 DEF StepFails, TypeOK, Workers, runVars
<1>11. CASE ReturnFails
  <2>1. worker' \in Workers /\ worker'.task = worker.task
    BY <1>1, <1>11, WorkerMoves DEF ReturnFails, Raise, Workers
  <2>2. lifecycle' \in [Runs -> {"idle", "running", "paused", "completed"}]
    BY <1>11 DEF ReturnFails, Marked, TypeOK
  <2>3. faults' \in 0..MaxFaults
    BY <1>11, BoundsAssumption DEF ReturnFails, TypeOK
  <2>. QED  BY <1>2, <1>11, <2>1, <2>2, <2>3 DEF ReturnFails, TypeOK, Workers, fileVars
<1>12. CASE PersistFails
  <2>1. worker' \in Workers /\ worker'.task = worker.task
    BY <1>3, <1>4, <1>12 DEF PersistFails
  <2>2. faults' \in 0..MaxFaults
    BY <1>12, BoundsAssumption DEF PersistFails, TypeOK
  <2>. QED  BY <1>2, <1>12, <2>1, <2>2
            DEF PersistFails, TypeOK, Workers, runVars, fileVars
<1>. QED  BY <1>6, <1>7, <1>8, <1>9, <1>10, <1>11, <1>12

LEMMA RestartTypes ==
  ASSUME TypeOK, Restart
  PROVE  TypeOK'
<1>1. tasks' \in Seq(Task)
  BY TaskTable DEF Restart, TypeOK
<1>2. logSeq' \in [Runs -> Nat]
  BY DirOfAssumption, LastSeqType DEF Restart, TypeOK
<1>3. faults' \in 0..MaxFaults
  BY BoundsAssumption DEF Restart, TypeOK
<1>. QED  BY <1>1, <1>2, <1>3
          DEF Restart, TypeOK, ApiIdle, WorkerIdle, WorkerSteps
----------------------------------------------------------------------------
(***************************************************************************)
(* The invariants of the worker and of the plan.                           *)
(***************************************************************************)

\* A step that leaves the worker, its task's run and all progress alone.
LEMMA WorkerStill ==
  ASSUME WorkerInv, worker' = worker, progress' = progress,
         worker.step # "idle" => tasks'[worker.task].run = tasks[worker.task].run
  PROVE  WorkerInv'
BY DEF WorkerInv, Dir, Run, Current

\* WorkerInv says nothing of the other steps.
LEMMA WorkerElsewhere ==
  ASSUME worker'.step \notin {"generate", "commit", "mark", "log", "checkpoint"}
  PROVE  WorkerInv'
BY DEF WorkerInv

\* A step that changes no plan, and one that changes the worker's.
LEMMA PlanStill ==
  ASSUME PlanInv, planned' = planned, progress' = progress
  PROVE  PlanInv'
BY DEF PlanInv

LEMMA PlanAt ==
  ASSUME TypeOK, PlanInv, Dir \in Dirs, planned' = planned,
         NEW p, NEW n \in Nat, InOrder(p, n),
         progress' = [progress EXCEPT ![Dir] = p]
  PROVE  PlanInv'
<1>1. \A d \in Dirs : progress'[d] = IF d = Dir THEN p ELSE progress[d]
  BY DEF TypeOK
<1>2. ASSUME NEW d \in Dirs, progress'[d] # None
      PROVE  \E k \in Nat : InOrder(progress'[d], k)
  <2>1. CASE d = Dir
    BY <1>1, <2>1
  <2>2. CASE d # Dir
    BY <1>1, <1>2, <2>2 DEF PlanInv
  <2>. QED  BY <2>1, <2>2
<1>. QED  BY <1>2 DEF PlanInv

\* The API does not touch progress, nor the task the worker executes.
LEMMA ApiKeeps ==
  ASSUME TypeOK, WorkerInv, PlanInv, NEW r \in Runs, ApiStart(r) \/ ApiStep
  PROVE  WorkerInv' /\ PlanInv' /\ progress' = progress
<1>1. /\ progress' = progress
      /\ worker' = worker \/ worker'.step = "return"
  <2>1. CASE Abort
    BY <2>1, AbortMoves DEF Abort, fileVars
  <2>2. CASE ~Abort
    BY <2>2 DEF ApiStart, ApiStep, CreateRun, ResumeRun, AddInstruction, PauseRun,
                CancelRun, PutTask, Steer, fileVars
  <2>. QED  BY <2>1, <2>2
<1>2. worker.step # "idle" => tasks'[worker.task].run = tasks[worker.task].run
  <2>1. CASE PutTask
    <3>1. \A i \in 1..Len(tasks) : Append(tasks, NewTask(api.run, api.op, api.text))[i] = tasks[i]
      BY DEF TypeOK
    <3>2. worker.step # "idle" => worker.task \in 1..Len(tasks)
      BY LenProperties DEF TypeOK
    <3>. QED  BY <2>1, <3>1, <3>2 DEF PutTask
  <2>2. CASE ~PutTask
    BY <2>2 DEF ApiStart, ApiStep, CreateRun, ResumeRun, AddInstruction, PauseRun,
                CancelRun, Steer, Abort
  <2>. QED  BY <2>1, <2>2
<1>3. \A d \in Dirs : planned'[d] \in 0..MaxSections
  <2>1. ASSUME NEW n \in 0..MaxSections, CreateRun(r, n)
        PROVE  \A d \in Dirs : planned'[d] \in 0..MaxSections
    BY <2>1 DEF CreateRun, TypeOK, PlanInv
  <2>2. CASE \A n \in 0..MaxSections : ~CreateRun(r, n)
    BY <2>2 DEF ApiStart, ApiStep, ResumeRun, AddInstruction, PauseRun,
                CancelRun, PutTask, Steer, Abort, fileVars, PlanInv
  <2>. QED  BY <2>1, <2>2
<1>4. WorkerInv'
  BY <1>1, <1>2, WorkerStill, WorkerElsewhere
<1>. QED  BY <1>1, <1>3, <1>4 DEF PlanInv

\* The worker's steps outside the pipeline, faults and restarts, except for
\* the start of a plan.
LEMMA OutsideKeeps ==
  ASSUME PlanInv,
         \/ \E i \in DOMAIN tasks : Claim(i)
         \/ ResetLog \/ AlreadyRunning \/ BeginResume \/ ConsumeSteer \/ ReleasePause
         \/ BeginContinue \/ HostReturns \/ ClearPause \/ CheckpointPause
         \/ TestCanceled \/ SetOutcome \/ PersistSession \/ PersistTask
         \/ StepFails \/ ReturnFails \/ BookkeepingFails \/ Restart,
         TypeOK
  PROVE  /\ WorkerInv' /\ PlanInv' /\ progress' = progress
         /\ worker'.step \notin {"generate", "commit", "mark", "log", "checkpoint"}
<1>1. planned' = planned /\ progress' = progress
  BY DEF Claim, ResetLog, AlreadyRunning, BeginResume, ConsumeSteer, ReleasePause,
         BeginContinue, HostReturns, ClearPause, CheckpointPause, TestCanceled,
         SetOutcome, PersistSession, PersistTask, StepFails, ReturnFails,
         BookkeepingFails, PersistFails, ClaimFails, Restart, fileVars
<1>2. \A step : Goto(step) => worker'.step = step
  BY DEF Goto, TypeOK
<1>3. Raise => worker'.step = "settle"
  BY DEF Raise, TypeOK
<1>4. worker'.step \in {"begin", "settle", "consume", "release", "load", "return",
                       "row", "outcome", "task", "idle", "dead"}
  <2>1. CASE \E i \in DOMAIN tasks : Claim(i) \/ ClaimFails(i)
    BY <2>1 DEF Claim, ClaimFails, WorkerIdle
  <2>2. CASE BeginResume
    BY <2>2 DEF BeginResume, TypeOK
  <2>3. CASE AlreadyRunning \/ StepFails \/ ReturnFails
    BY <1>3, <2>3 DEF AlreadyRunning, StepFails, ReturnFails
  <2>4. CASE ResetLog \/ ConsumeSteer \/ ReleasePause \/ BeginContinue
             \/ HostReturns \/ ClearPause \/ CheckpointPause
    BY <1>2, <2>4 DEF ResetLog, ConsumeSteer, ReleasePause, BeginContinue,
                      HostReturns, ClearPause, CheckpointPause
  <2>5. CASE TestCanceled \/ SetOutcome \/ PersistSession \/ PersistFails
    BY <1>2, <2>5 DEF TestCanceled, SetOutcome, PersistSession, PersistFails
  <2>6. CASE PersistTask \/ Restart
    BY <2>6 DEF PersistTask, Restart, WorkerIdle
  <2>. QED  BY <2>1, <2>2, <2>3, <2>4, <2>5, <2>6 DEF BookkeepingFails
<1>5. WorkerInv'
  BY <1>4, WorkerElsewhere
<1>. QED  BY <1>1, <1>4, <1>5, PlanStill
----------------------------------------------------------------------------
(***************************************************************************)
(* The steps that change progress, and what they are in SectionPlan.       *)
(***************************************************************************)
View == [d \in Dirs |-> PlanOf(progress[d])]

\* What EXCEPT does to a function.
LEMMA ExceptOf ==
  ASSUME NEW D, NEW f, f = [d \in D |-> f[d]], NEW x, NEW v
  PROVE  [f EXCEPT ![x] = v] = [d \in D |-> IF d = x THEN v ELSE f[d]]
OBVIOUS

\* What a step that replaces the progress of its directory does to the view.
LEMMA ViewChanges ==
  ASSUME TypeOK, Dir \in Dirs, NEW p \in Progress,
         progress' = [progress EXCEPT ![Dir] = p]
  PROVE  /\ PlanOf(p) = [total |-> p.total, done |-> p.done,
                         status |-> IF p.phase = "complete" THEN "complete" ELSE "open"]
         /\ View[Dir] = PlanOf(progress[Dir])
         /\ View' = [View EXCEPT ![Dir] = PlanOf(p)]
         /\ PlanOf(p) = PlanOf(progress[Dir]) => View' = View
<1>1. p # None
  BY NoneAssumption
<1>2. PlanOf(p) = [total |-> p.total, done |-> p.done,
                   status |-> IF p.phase = "complete" THEN "complete" ELSE "open"]
  BY <1>1, Zenon DEF PlanOf
<1>3. View[Dir] = PlanOf(progress[Dir])
  BY DEF View
<1>4. \A d \in Dirs : progress'[d] = IF d = Dir THEN p ELSE progress[d]
  BY DEF TypeOK
<1>5. View' = [View EXCEPT ![Dir] = PlanOf(p)]
  <2>1. View' = [d \in Dirs |-> PlanOf(progress'[d])]
    BY Zenon DEF View, PlanOf
  <2>2. \A d \in Dirs : PlanOf(progress'[d]) = IF d = Dir THEN PlanOf(p) ELSE View[d]
    <3>. SUFFICES ASSUME NEW d \in Dirs
                  PROVE  PlanOf(progress'[d]) = IF d = Dir THEN PlanOf(p) ELSE View[d]
      OBVIOUS
    <3>1. CASE d = Dir
      <4>1. progress'[d] = p
        BY <1>4, <3>1
      <4>. QED  BY <3>1, <4>1
    <3>2. CASE d # Dir
      <4>1. progress'[d] = progress[d]
        BY <1>4, <3>2
      <4>2. View[d] = PlanOf(progress[d])
        BY DEF View
      <4>. QED  BY <3>2, <4>1, <4>2
    <3>. QED  BY <3>1, <3>2
  <2>3. [View EXCEPT ![Dir] = PlanOf(p)] = [d \in Dirs |-> IF d = Dir THEN PlanOf(p) ELSE View[d]]
    <3>1. View = [d \in Dirs |-> View[d]]
      BY Zenon DEF View
    <3>. QED  BY <3>1, ExceptOf, Zenon
  <2>. QED  BY <2>1, <2>2, <2>3, Zenon
<1>6. PlanOf(p) = PlanOf(progress[Dir]) => View' = View
  BY <1>3, <1>5, Zenon DEF View
<1>. QED  BY <1>2, <1>3, <1>5, <1>6

\* Starting a plan.
LEMMA StartKeeps ==
  ASSUME TypeOK, PlanInv, BeginStart
  PROVE  WorkerInv' /\ PlanInv' /\ Plan!PlanNext
<1>. DEFINE p == InitProgress(planned[Dir])
<1>1. Run \in Runs /\ Dir \in Dirs
  BY AtWork DEF BeginStart
<1>2. WorkerInv'
  <2>1. worker'.step = "reset"
    BY DEF BeginStart, Goto, TypeOK
  <2>. QED  BY <2>1, WorkerElsewhere
<1>3. planned[Dir] \in 0..MaxSections
  BY <1>1 DEF PlanInv
<1>4. p \in Progress /\ progress' = [progress EXCEPT ![Dir] = p]
  BY <1>1, ProgressTypes DEF TypeOK, BeginStart
<1>5. PlanInv'
  <2>1. InOrder(p, 0)
    BY <1>3 DEF InOrder, InitProgress
  <2>2. planned' = planned
    BY DEF BeginStart
  <2>. QED  BY <1>1, <1>4, <2>1, <2>2, PlanAt
<1>6. PlanOf(p) = [total |-> planned[Dir], done |-> {}, status |-> "open"]
  <2>1. /\ p.total = planned[Dir] /\ p.done = {}
        /\ p.phase # "complete"
    BY DEF InitProgress
  <2>2. PlanOf(p) = [total |-> p.total, done |-> p.done,
                     status |-> IF p.phase = "complete" THEN "complete" ELSE "open"]
    BY <1>1, <1>4, ViewChanges
  <2>. QED  BY <2>1, <2>2, Zenon
<1>7. View' = [View EXCEPT ![Dir] = PlanOf(p)]
  BY <1>1, <1>4, ViewChanges
<1>8. Plan!Begin(Dir, planned[Dir])
  BY <1>6, <1>7, Zenon DEF Plan!Begin, View
<1>. QED  BY <1>1, <1>2, <1>3, <1>5, <1>8 DEF Plan!PlanNext

\* Loading: a finished plan becomes complete, any other gives its next section.
LEMMA LoadKeeps ==
  ASSUME TypeOK, PlanInv, LoadContext
  PROVE  WorkerInv' /\ PlanInv' /\ (View' = View \/ Plan!PlanNext)
<1>1. /\ worker.step = "load" /\ worker.task \in DOMAIN tasks
      /\ Run \in Runs /\ Dir \in Dirs
  BY AtWork DEF LoadContext
<1>2. Loaded \in Progress
  BY <1>1, LoadedInOrder
<1>3. PICK n \in Nat : InOrder(Loaded, n) /\ NextSection(Loaded) = n + 1
  BY <1>1, LoadedInOrder
<1>. DEFINE finished == Loaded.total > 0 /\ n + 1 > Loaded.total
            q == [Loaded EXCEPT !.phase = "complete"]
<1>4. planned' = planned /\ tasks' = tasks /\ Dir' = Dir
  BY DEF LoadContext, Dir, Run, Current
<1>5. Loaded.total \in Nat /\ PlanOf(Loaded) = PlanOf(progress[Dir])
  <2>1. CASE progress[Dir] = None
    <3>1. Loaded = InitProgress(0)
      BY <2>1, Zenon DEF Loaded
    <3>2. Loaded.total = 0 /\ Loaded.done = {} /\ Loaded.phase # "complete"
      BY <3>1 DEF InitProgress
    <3>3. Loaded # None
      BY <1>2, NoneAssumption
    <3>4. PlanOf(Loaded) = [total |-> 0, done |-> {}, status |-> "open"]
      BY <3>2, <3>3, Zenon DEF PlanOf
    <3>5. PlanOf(progress[Dir]) = [total |-> 0, done |-> {}, status |-> "open"]
      BY <2>1, Zenon DEF PlanOf
    <3>. QED  BY <3>2, <3>4, <3>5
  <2>2. CASE progress[Dir] # None
    BY <1>2, <2>2 DEF Loaded, Progress
  <2>. QED  BY <2>1, <2>2
<1>6. CASE finished
  <2>1. progress' = [progress EXCEPT ![Dir] = q] /\ worker'.step = "return"
    BY <1>3, <1>6 DEF LoadContext, TypeOK
  <2>2. n = Loaded.total /\ Loaded.done = 1..n
    BY <1>3, <1>5, <1>6 DEF InOrder
  <2>3. q \in Progress /\ InOrder(q, n)
    BY <1>2, <1>3, <1>6, <2>2, ProgressTypes DEF InOrder, Progress
  <2>4. WorkerInv' /\ PlanInv'
    BY <1>1, <1>4, <2>1, <2>3, PlanAt, WorkerElsewhere
  <2>5. /\ View[Dir] = PlanOf(Loaded)
        /\ View' = [View EXCEPT ![Dir] = PlanOf(q)]
        /\ PlanOf(q) = [total |-> q.total, done |-> q.done,
                        status |-> IF q.phase = "complete" THEN "complete" ELSE "open"]
    BY <1>1, <1>5, <2>1, <2>3, ViewChanges
  <2>6. PlanOf(Loaded) = [total |-> Loaded.total, done |-> Loaded.done,
                          status |-> IF Loaded.phase = "complete" THEN "complete" ELSE "open"]
    BY <1>2, NoneAssumption, Zenon DEF PlanOf
  <2>7. q.total = Loaded.total /\ q.done = Loaded.done /\ q.phase = "complete"
    BY <1>2 DEF Progress
  <2>8. PlanOf(q) = [PlanOf(Loaded) EXCEPT !.status = "complete"]
    <3>1. PlanOf(q) = [total |-> Loaded.total, done |-> Loaded.done, status |-> "complete"]
      BY <2>5, <2>7, Zenon
    <3>2. [PlanOf(Loaded) EXCEPT !.status = "complete"]
            = [total |-> Loaded.total, done |-> Loaded.done, status |-> "complete"]
      BY <2>6
    <3>. QED  BY <3>1, <3>2, Zenon
  <2>9. /\ View[Dir].total > 0 /\ View[Dir].done = 1..View[Dir].total
    BY <1>6, <2>2, <2>5, <2>6
  <2>10. View' = [View EXCEPT ![Dir].status = "complete"]
    BY <2>5, <2>8, Zenon
  <2>11. Plan!Complete(Dir)
    BY <2>9, <2>10, Zenon DEF Plan!Complete, View
  <2>. QED  BY <1>1, <2>4, <2>11 DEF Plan!PlanNext
<1>7. CASE ~finished
  <2>1. progress' = [progress EXCEPT ![Dir] = Loaded]
    BY <1>3, <1>7 DEF LoadContext
  <2>2. /\ worker'.step = "generate" /\ worker'.section = n + 1
    BY <1>3, <1>7 DEF LoadContext, TypeOK
  <2>3. progress'[Dir] = Loaded /\ Loaded # None
    BY <1>1, <1>2, <2>1, NoneAssumption DEF TypeOK
  <2>4. /\ Loaded.phase # "complete" /\ Loaded.done = 1..((n + 1) - 1)
        /\ Loaded.total > 0 => n + 1 <= Loaded.total
    BY <1>3, <1>5, <1>7 DEF InOrder
  <2>5. WorkerInv'
    BY <1>4, <2>2, <2>3, <2>4 DEF WorkerInv
  <2>6. PlanInv'
    BY <1>1, <1>3, <1>4, <2>1, PlanAt
  <2>7. View' = View
    BY <1>1, <1>2, <1>5, <2>1, ViewChanges
  <2>. QED  BY <2>5, <2>6, <2>7
<1>. QED  BY <1>6, <1>7
\* Writing a text or a checkpoint keeps progress; the worker goes on.
LEMMA WritesKeep ==
  ASSUME TypeOK, WorkerInv, PlanInv, SaveText \/ LogCheckpoint
  PROVE  WorkerInv' /\ PlanInv' /\ View' = View
<1>1. /\ planned' = planned /\ progress' = progress /\ tasks' = tasks
      /\ \/ worker.step = "commit" /\ worker' = [worker EXCEPT !.step = "mark"]
         \/ worker.step = "log" /\ worker' = [worker EXCEPT !.step = "checkpoint"]
  BY DEF SaveText, LogCheckpoint, Goto
<1>5. /\ worker'.section = worker.section /\ worker'.task = worker.task
      /\ \/ worker.step = "commit" /\ worker'.step = "mark"
         \/ worker.step = "log" /\ worker'.step = "checkpoint"
  BY <1>1 DEF TypeOK
<1>6. Dir' = Dir
  BY <1>1, <1>5 DEF Dir, Run, Current
<1>2. WorkerInv'
  BY <1>1, <1>5, <1>6 DEF WorkerInv
<1>3. PlanInv'
  BY <1>1, PlanStill
<1>4. View' = View
  BY <1>1, Zenon DEF View, PlanOf
<1>. QED  BY <1>2, <1>3, <1>4

\* Generating a section changes only its phase, from one open phase to another.
LEMMA GenerateKeeps ==
  ASSUME TypeOK, WorkerInv, PlanInv, GenerateSection
  PROVE  WorkerInv' /\ PlanInv' /\ View' = View
<1>. DEFINE p == progress[Dir]
            q == StartSection(progress[Dir], worker.section)
<1>1. /\ worker.step = "generate" /\ Dir \in Dirs /\ worker.section \in Nat
      /\ p \in Progress /\ planned' = planned /\ Dir' = Dir
      /\ progress' = [progress EXCEPT ![Dir] = q]
  <2>1. Dir \in Dirs
    BY AtWork DEF GenerateSection
  <2>2. worker.step = "generate" /\ worker.section \in Nat
    BY DEF GenerateSection, TypeOK
  <2>3. p # None /\ p \in Progress
    BY <2>1, <2>2 DEF WorkerInv, TypeOK
  <2>4. worker'.task = worker.task /\ tasks' = tasks
    BY DEF GenerateSection, Goto, TypeOK
  <2>5. Dir' = Dir
    BY <2>4 DEF Dir, Run, Current
  <2>6. planned' = planned /\ progress' = [progress EXCEPT ![Dir] = q]
    BY DEF GenerateSection
  <2>. QED  BY <2>1, <2>2, <2>3, <2>5, <2>6
<1>2. q \in Progress
  BY <1>1, ProgressTypes
<1>3. /\ q.total = p.total /\ q.done = p.done /\ q.phase = "generating"
  BY <1>1 DEF StartSection, Progress
<1>4. p.phase # "complete"
  BY <1>1 DEF WorkerInv
<1>5. WorkerInv'
  <2>1. worker'.step = "commit" /\ worker'.section = worker.section
    BY <1>1 DEF GenerateSection, Goto, TypeOK
  <2>2. progress'[Dir] = q /\ q # None
    BY <1>1, <1>2, NoneAssumption DEF TypeOK
  <2>3. /\ worker.section \in Nat \ {0}
        /\ p.done = 1..(worker.section - 1)
        /\ p.total > 0 => worker.section <= p.total
    BY <1>1 DEF WorkerInv
  <2>. QED  BY <1>1, <1>3, <2>1, <2>2, <2>3 DEF WorkerInv
<1>6. PlanInv'
  <2>1. PICK n \in Nat : InOrder(p, n)
    BY <1>1, NoneAssumption DEF PlanInv
  <2>2. InOrder(q, n)
    BY <1>3, <2>1 DEF InOrder
  <2>. QED  BY <1>1, <2>1, <2>2, PlanAt
<1>7. View' = View
  <2>1. PlanOf(q) = [total |-> q.total, done |-> q.done,
                     status |-> IF q.phase = "complete" THEN "complete" ELSE "open"]
    BY <1>2, NoneAssumption, Zenon DEF PlanOf
  <2>2. PlanOf(p) = [total |-> p.total, done |-> p.done,
                     status |-> IF p.phase = "complete" THEN "complete" ELSE "open"]
    BY <1>1, NoneAssumption, Zenon DEF PlanOf
  <2>3. PlanOf(q) = PlanOf(p)
    BY <1>3, <1>4, <2>1, <2>2
  <2>. QED  BY <1>1, <1>2, <2>3, ViewChanges
<1>. QED  BY <1>5, <1>6, <1>7

\* The commit of a section is the next step of its plan.
LEMMA MarkKeeps ==
  ASSUME TypeOK, WorkerInv, PlanInv, MarkDone
  PROVE  WorkerInv' /\ PlanInv' /\ Plan!PlanNext
<1>. DEFINE p == progress[Dir]
            q == MarkSectionComplete(progress[Dir], worker.section)
            n == worker.section - 1
<1>1. /\ worker.step = "mark" /\ Dir \in Dirs /\ worker.task \in DOMAIN tasks
      /\ p \in Progress /\ planned' = planned
      /\ progress' = [progress EXCEPT ![Dir] = q]
  <2>1. Dir \in Dirs /\ worker.task \in DOMAIN tasks
    BY AtWork DEF MarkDone
  <2>. QED  BY <2>1 DEF MarkDone, WorkerInv, TypeOK
<1>2. /\ n \in Nat /\ worker.section = n + 1 /\ worker.section \in Nat
      /\ p.phase # "complete" /\ p.done = 1..n
      /\ p.total > 0 => n + 1 <= p.total
  BY <1>1 DEF WorkerInv
<1>3. q \in Progress
  BY <1>1, <1>2, ProgressTypes
<1>4. q.total = p.total /\ q.done = 1..(n + 1) /\ q.phase = "generating"
  <2>1. q.total = p.total /\ q.done = p.done \cup {n + 1} /\ q.phase = "generating"
    BY <1>1, <1>2 DEF MarkSectionComplete, Progress
  <2>2. (1..n) \cup {n + 1} = 1..(n + 1)
    BY <1>2
  <2>. QED  BY <1>2, <2>1, <2>2
<1>5. WorkerInv'
  <2>1. worker'.step = "log" /\ worker'.task = worker.task
    BY <1>1 DEF MarkDone, Goto, TypeOK
  <2>2. Dir' = Dir
    <3>1. tasks'[worker.task].run = tasks[worker.task].run
      <4>1. tasks[worker.task] \in Task
        BY <1>1, AtWork DEF Current
      <4>2. tasks'[worker.task] = [tasks[worker.task] EXCEPT !.commits = @ \cup {worker.section}]
        BY <1>1 DEF MarkDone, TypeOK
      <4>. QED  BY <4>1, <4>2 DEF Task
    <3>. QED  BY <2>1, <3>1 DEF Dir, Run, Current
  <2>3. progress'[Dir] # None
    BY <1>1, <1>3, NoneAssumption DEF TypeOK
  <2>. QED  BY <2>1, <2>2, <2>3 DEF WorkerInv
<1>6. PlanInv'
  <2>1. p.total \in 0..MaxSections
    BY <1>1, NoneAssumption DEF PlanInv, InOrder
  <2>2. InOrder(q, n + 1) /\ n + 1 \in Nat
    BY <1>2, <1>4, <2>1 DEF InOrder
  <2>. QED  BY <1>1, <2>2, PlanAt
<1>7. Plan!CommitNext(Dir)
  <2>1. PlanOf(q) = [total |-> q.total, done |-> q.done,
                     status |-> IF q.phase = "complete" THEN "complete" ELSE "open"]
    BY <1>3, NoneAssumption, Zenon DEF PlanOf
  <2>2. PlanOf(p) = [total |-> p.total, done |-> p.done,
                     status |-> IF p.phase = "complete" THEN "complete" ELSE "open"]
    BY <1>1, NoneAssumption, Zenon DEF PlanOf
  <2>3. PlanOf(q) = [total |-> p.total, done |-> 1..(n + 1), status |-> "open"]
    BY <1>4, <2>1
  <2>4. PlanOf(p) = [total |-> p.total, done |-> 1..n, status |-> "open"]
    BY <1>2, <2>2
  <2>5. /\ View[Dir] = PlanOf(p)
        /\ View' = [View EXCEPT ![Dir] = PlanOf(q)]
    BY <1>1, <1>3, ViewChanges
  <2>6. PlanOf(q) = [PlanOf(p) EXCEPT !.done = 1..(n + 1)]
    BY <2>3, <2>4
  <2>7. View' = [View EXCEPT ![Dir].done = 1..(n + 1)]
    BY <2>5, <2>6, Zenon
  <2>8. /\ View[Dir].status = "open" /\ View[Dir].done = 1..n
        /\ View[Dir].total > 0 => n < View[Dir].total
    BY <1>1, <1>2, <2>4, <2>5 DEF Progress
  <2>9. n \in {0} \cup View[Dir].done
    BY <1>2, <2>8
  <2>. QED  BY <2>7, <2>8, <2>9, Zenon DEF Plan!CommitNext, View
<1>. QED  BY <1>1, <1>5, <1>6, <1>7 DEF Plan!PlanNext

\* The plan is completed after the commit of its last section.
LEMMA AllDoneKeeps ==
  ASSUME TypeOK, WorkerInv, PlanInv, CheckpointAllDone
  PROVE  WorkerInv' /\ PlanInv' /\ Plan!PlanNext
<1>. DEFINE p == progress[Dir]
            q == MarkComplete(progress[Dir])
<1>1. /\ worker.step = "checkpoint" /\ Dir \in Dirs /\ AllDone(p)
      /\ p \in Progress /\ planned' = planned
      /\ progress' = [progress EXCEPT ![Dir] = q]
  <2>1. Dir \in Dirs
    BY AtWork DEF CheckpointAllDone
  <2>. QED  BY <2>1 DEF CheckpointAllDone, WorkerInv, TypeOK
<1>2. PICK n \in Nat : InOrder(p, n)
  BY <1>1, NoneAssumption DEF PlanInv
<1>3. p.total > 0 /\ n = p.total /\ p.done = 1..n
  BY <1>1, <1>2, AllDoneAtLast DEF InOrder
<1>4. q \in Progress
  BY <1>1, ProgressTypes
<1>5. q.total = p.total /\ q.done = p.done /\ q.phase = "complete"
  BY <1>1 DEF MarkComplete, Progress
<1>6. WorkerInv'
  <2>1. worker'.step = "clear"
    BY DEF CheckpointAllDone, Goto, TypeOK
  <2>. QED  BY <2>1, WorkerElsewhere
<1>7. PlanInv'
  <2>1. InOrder(q, n)
    BY <1>2, <1>3, <1>5 DEF InOrder
  <2>. QED  BY <1>1, <2>1, PlanAt
<1>8. Plan!Complete(Dir)
  <2>1. PlanOf(q) = [total |-> q.total, done |-> q.done,
                     status |-> IF q.phase = "complete" THEN "complete" ELSE "open"]
    BY <1>4, NoneAssumption, Zenon DEF PlanOf
  <2>2. PlanOf(p) = [total |-> p.total, done |-> p.done,
                     status |-> IF p.phase = "complete" THEN "complete" ELSE "open"]
    BY <1>1, NoneAssumption, Zenon DEF PlanOf
  <2>3. /\ View[Dir] = PlanOf(p)
        /\ View' = [View EXCEPT ![Dir] = PlanOf(q)]
    BY <1>1, <1>4, ViewChanges
  <2>4. PlanOf(q) = [PlanOf(p) EXCEPT !.status = "complete"]
    BY <1>5, <2>1, <2>2
  <2>5. View' = [View EXCEPT ![Dir].status = "complete"]
    BY <2>3, <2>4, Zenon
  <2>6. View[Dir].total > 0 /\ View[Dir].done = 1..View[Dir].total
    BY <1>3, <2>2, <2>3
  <2>. QED  BY <2>5, <2>6, Zenon DEF Plan!Complete, View
<1>. QED  BY <1>1, <1>6, <1>7, <1>8 DEF Plan!PlanNext

----------------------------------------------------------------------------
(***************************************************************************)
(* The theorems.                                                           *)
(***************************************************************************)

\* Every step keeps the invariant and is a step of SectionPlan or none.
LEMMA NextKeeps ==
  ASSUME IInv, Next
  PROVE  IInv' /\ (View' = View \/ Plan!PlanNext)
<1>. USE DEF IInv
<1>1. ASSUME progress' = progress PROVE View' = View
  BY <1>1, Zenon DEF View, PlanOf
<1>2. ASSUME NEW r \in Runs, ApiStart(r) PROVE IInv' /\ View' = View
  BY <1>1, <1>2, ApiTypes, ApiKeeps
<1>3. CASE ApiStep
  <2>1. PICK r \in Runs : TRUE
    BY <1>3 DEF ApiStep, PutTask, Steer, Abort, TypeOK
  <2>. QED  BY <1>1, <1>3, <2>1, ApiTypes, ApiKeeps
<1>4. CASE \/ \E i \in DOMAIN tasks : Claim(i)
           \/ ResetLog \/ AlreadyRunning \/ BeginResume \/ ConsumeSteer \/ ReleasePause
           \/ BeginContinue \/ HostReturns \/ ClearPause \/ CheckpointPause
           \/ TestCanceled \/ SetOutcome \/ PersistSession \/ PersistTask
           \/ StepFails \/ ReturnFails \/ BookkeepingFails \/ Restart
  <2>1. TypeOK'
    BY <1>4, ClaimTypes, BeginTypes, PipelineTypes, OutcomeTypes, RestartTypes
       DEF Pipeline, BookkeepingFails
  <2>. QED  BY <1>1, <1>4, <2>1, OutsideKeeps
<1>5. CASE BeginStart
  BY <1>5, BeginTypes, StartKeeps
<1>6. CASE LoadContext
  BY <1>6, PipelineTypes, LoadKeeps DEF Pipeline
<1>7. CASE GenerateSection
  BY <1>7, PipelineTypes, GenerateKeeps DEF Pipeline
<1>8. CASE SaveText \/ LogCheckpoint
  BY <1>8, PipelineTypes, WritesKeep DEF Pipeline
<1>9. CASE MarkDone
  BY <1>9, PipelineTypes, MarkKeeps DEF Pipeline
<1>10. CASE CheckpointAllDone
  BY <1>10, PipelineTypes, AllDoneKeeps DEF Pipeline
<1>. QED  BY <1>2, <1>3, <1>4, <1>5, <1>6, <1>7, <1>8, <1>9, <1>10
          DEF Next, WorkerStep, HostStep, Pipeline

LEMMA StutterKeeps ==
  ASSUME IInv, UNCHANGED vars
  PROVE  IInv' /\ View' = View
<1>1. TypeOK'
  BY DEF IInv, TypeOK, vars
<1>2. WorkerInv'
  BY DEF IInv, WorkerInv, Dir, Run, Current, vars
<1>3. PlanInv'
  BY DEF IInv, PlanInv, vars
<1>4. View' = View
  BY Zenon DEF View, PlanOf, vars
<1>. QED  BY <1>1, <1>2, <1>3, <1>4 DEF IInv

\* Sections are committed in order whatever the runs, requests and faults.
THEOREM PlanInvariant == Spec => []IInv
<1>1. IInv /\ [Next]_vars => IInv'
  BY NextKeeps, StutterKeeps
<1>. QED  BY InitIInv, <1>1, PTL DEF Spec

\* Every variable has its type in every reachable state.
THEOREM TypeCorrect == Spec => []TypeOK
<1>1. IInv => TypeOK
  BY DEF IInv
<1>. QED  BY PlanInvariant, <1>1, PTL

\* Every behaviour of the runs is, seen from the project directories, a
\* behaviour of SectionPlan.
THEOREM PlanRefinement == Spec => ImplementsPlan
<1>1. Init => Plan!PlanInit
  BY Zenon DEF Init, Plan!PlanInit, PlanOf
<1>2. IInv /\ [Next]_vars => [Plan!PlanNext]_View
  BY NextKeeps, StutterKeeps
<1>3. [Plan!PlanNext]_View => [Plan!PlanNext]_([d \in Dirs |-> PlanOf(progress[d])])
  BY Zenon DEF View
<1>. QED  BY PlanInvariant, <1>1, <1>2, <1>3, PTL
          DEF Spec, ImplementsPlan, Plan!PlanSpec
----------------------------------------------------------------------------
(***************************************************************************)
(* The three writes of a commit.                                           *)
(***************************************************************************)

\* Between the writes: the text is there before progress, and progress before
\* the log, which ends before the section unless a start was torn.
DiskInv ==
  /\ CommittedIsOnDisk
  /\ worker.step = "mark" => worker.section \in texts[Dir]
  /\ worker.step = "log" =>
       /\ worker.section \in Done(Dir)
       /\ Dir \notin torn => \A i \in DOMAIN log[Dir] : log[Dir][i].section < worker.section

\* What a step that replaces the progress of its directory does to Done.
LEMMA DoneChanges ==
  ASSUME TypeOK, Dir \in Dirs, NEW p \in Progress,
         progress' = [progress EXCEPT ![Dir] = p]
  PROVE  \A d \in Dirs : Done(d)' = IF d = Dir THEN p.done ELSE Done(d)
<1>1. \A d \in Dirs : progress'[d] = IF d = Dir THEN p ELSE progress[d]
  BY DEF TypeOK
<1>2. p # None
  BY NoneAssumption
<1>. QED  BY <1>1, <1>2 DEF Done

\* A step that changes neither the files nor, if it is at a write, the worker.
LEMMA DiskStill ==
  ASSUME DiskInv, texts' = texts, log' = log, torn' = torn,
         \A d \in Dirs : Done(d)' = Done(d),
         \/ worker'.step \notin {"mark", "log"}
         \/ worker' = worker /\ Dir' = Dir /\ (worker.step # "idle" => Dir \in Dirs)
  PROVE  DiskInv'
<1>1. CommittedIsOnDisk'
  BY DEF DiskInv, CommittedIsOnDisk
<1>. QED  BY <1>1 DEF DiskInv
\* A commit writes its text.
LEMMA SaveTextDisk ==
  ASSUME IInv, DiskInv, SaveText
  PROVE  DiskInv'
<1>1. Dir \in Dirs
  BY AtWork DEF IInv, SaveText
<1>2. /\ progress' = progress /\ log' = log /\ tasks' = tasks
      /\ texts' = [texts EXCEPT ![Dir] = @ \cup {worker.section}]
      /\ torn' = torn /\ worker' = [worker EXCEPT !.step = "mark"]
  BY DEF SaveText, Goto
<1>3. worker'.step = "mark" /\ worker'.section = worker.section /\ worker'.task = worker.task
  BY <1>2 DEF IInv, TypeOK
<1>4. Dir' = Dir
  BY <1>2, <1>3 DEF Dir, Run, Current
<1>5. \A d \in Dirs : Done(d)' = Done(d)
  BY <1>2 DEF Done
<1>6. \A d \in Dirs : texts'[d] = IF d = Dir THEN texts[d] \cup {worker.section} ELSE texts[d]
  BY <1>2 DEF IInv, TypeOK
<1>7. CommittedIsOnDisk'
  BY <1>2, <1>5, <1>6 DEF DiskInv, CommittedIsOnDisk
<1>. QED  BY <1>1, <1>3, <1>4, <1>6, <1>7 DEF DiskInv

\* Then its progress, which contains what the log has and the section.
LEMMA MarkDoneDisk ==
  ASSUME IInv, DiskInv, MarkDone
  PROVE  DiskInv'
<1>. DEFINE s == worker.section
            q == MarkSectionComplete(progress[Dir], s)
<1>1. /\ worker.step = "mark" /\ worker.task \in DOMAIN tasks /\ Dir \in Dirs
  BY AtWork DEF IInv, MarkDone
<1>2. /\ s \in Nat \ {0} /\ progress[Dir] # None
      /\ progress[Dir].done = 1..(s - 1)
  BY <1>1 DEF IInv, WorkerInv
<1>3. progress[Dir] \in Progress
  BY <1>1, <1>2 DEF IInv, TypeOK
<1>4. q \in Progress /\ q.done = progress[Dir].done \cup {s}
  BY <1>2, <1>3, ProgressTypes DEF MarkSectionComplete, Progress
<1>5. /\ progress' = [progress EXCEPT ![Dir] = q]
      /\ log' = log /\ texts' = texts /\ torn' = torn
      /\ worker' = [worker EXCEPT !.step = "log"]
  BY DEF MarkDone, Goto
<1>6. /\ worker'.step = "log" /\ worker'.section = s
      /\ worker'.task = worker.task
  BY <1>5 DEF IInv, TypeOK
<1>7. Dir' = Dir
  <2>1. tasks[worker.task] \in Task
    BY <1>1, AtWork DEF Current, IInv
  <2>2. tasks'[worker.task] = [tasks[worker.task] EXCEPT !.commits = @ \cup {s}]
    BY <1>1 DEF MarkDone, IInv, TypeOK
  <2>3. tasks'[worker.task].run = tasks[worker.task].run
    BY <2>1, <2>2 DEF Task
  <2>. QED  BY <1>6, <2>3 DEF Dir, Run, Current
<1>8. \A d \in Dirs : Done(d)' = IF d = Dir THEN q.done ELSE Done(d)
  BY <1>1, <1>4, <1>5, DoneChanges DEF IInv
<1>9. Done(Dir) = progress[Dir].done /\ s \in texts[Dir]
  BY <1>1, <1>2 DEF DiskInv, Done
<1>10. Dir \notin torn => \A i \in DOMAIN log[Dir] : log[Dir][i].section < s
  <2>1. Dir \notin torn => \A i \in DOMAIN log[Dir] : log[Dir][i].section \in 1..(s - 1)
    BY <1>1, <1>2, <1>9 DEF DiskInv, CommittedIsOnDisk
  <2>. QED  BY <1>2, <2>1
<1>11. CommittedIsOnDisk'
  <2>1. \A d \in Dirs : Done(d) \subseteq Done(d)' /\ Done(d)' \subseteq texts'[d]
    BY <1>4, <1>5, <1>8, <1>9 DEF DiskInv, CommittedIsOnDisk
  <2>. QED  BY <1>5, <2>1 DEF DiskInv, CommittedIsOnDisk
<1>12. s \in Done(Dir)'
  <2>1. PICK d \in Dirs : d = Dir
    BY <1>1
  <2>2. s \in Done(d)'
    BY <1>4, <1>8, <2>1
  <2>. QED  BY <1>7, <2>1, <2>2 DEF Done
<1>13. Dir' \notin torn' => \A i \in DOMAIN log'[Dir'] : log'[Dir'][i].section < worker'.section
  BY <1>5, <1>6, <1>7, <1>10
<1>14. worker'.step = "log" /\ worker'.section \in Done(Dir)'
  BY <1>6, <1>12
<1>. QED  BY <1>11, <1>13, <1>14 DEF DiskInv

\* Then its line in the log.
LEMMA LogDisk ==
  ASSUME IInv, DiskInv, LogCheckpoint
  PROVE  DiskInv'
<1>. DEFINE line == [seq |-> logSeq[Run] + 1, section |-> worker.section]
            old == log[Dir]
<1>1. worker.step = "log" /\ Dir \in Dirs
  BY AtWork DEF IInv, LogCheckpoint
<1>2. old \in Seq([seq : Nat, section : Nat]) /\ worker.section \in Nat
  BY <1>1 DEF IInv, TypeOK
<1>3. /\ progress' = progress /\ texts' = texts /\ torn' = torn
      /\ log' = [log EXCEPT ![Dir] = Append(old, line)]
      /\ worker' = [worker EXCEPT !.step = "checkpoint"]
  BY DEF LogCheckpoint, Goto
<1>4. worker'.step = "checkpoint"
  BY <1>3 DEF IInv, TypeOK
<1>5. \A d \in Dirs : Done(d)' = Done(d)
  BY <1>3 DEF Done
<1>6. /\ worker.section \in Done(Dir) /\ worker.section \in texts[Dir]
      /\ Dir \notin torn => \A i \in DOMAIN old : old[i].section < worker.section
  BY <1>1 DEF DiskInv, CommittedIsOnDisk
<1>7. \A d \in Dirs : log'[d] = IF d = Dir THEN Append(old, line) ELSE log[d]
  BY <1>3 DEF IInv, TypeOK
<1>8. /\ DOMAIN old = 1..Len(old) /\ Len(old) \in Nat
      /\ DOMAIN Append(old, line) = 1..(Len(old) + 1)
      /\ \A i \in DOMAIN old : Append(old, line)[i] = old[i]
      /\ Append(old, line)[Len(old) + 1] = line
  BY <1>2
<1>9. /\ \A i \in DOMAIN old : old[i].section \in texts[Dir]
      /\ Dir \notin torn =>
           /\ \A i \in DOMAIN old : old[i].section \in Done(Dir)
           /\ \A i, j \in DOMAIN old : i < j => old[i].section < old[j].section
  BY <1>1 DEF DiskInv, CommittedIsOnDisk
<1>13. \A i \in DOMAIN Append(old, line) : Append(old, line)[i].section \in texts[Dir]
  BY <1>6, <1>8, <1>9
<1>10. Dir \notin torn =>
         \A i \in DOMAIN Append(old, line) : Append(old, line)[i].section \in Done(Dir)
  BY <1>6, <1>8, <1>9
<1>11. Dir \notin torn =>
         \A i, j \in DOMAIN Append(old, line) :
           i < j => Append(old, line)[i].section < Append(old, line)[j].section
  BY <1>6, <1>8, <1>9
<1>. HIDE DEF line, old
<1>12. CommittedIsOnDisk'
  BY <1>3, <1>5, <1>7, <1>10, <1>11, <1>13 DEF DiskInv, CommittedIsOnDisk
<1>. QED  BY <1>4, <1>12 DEF DiskInv

\* Starting a plan forgets what was committed, and tears the log.
LEMMA StartDisk ==
  ASSUME IInv, DiskInv, BeginStart
  PROVE  DiskInv'
<1>1. Dir \in Dirs
  BY AtWork DEF IInv, BeginStart
<1>2. InitProgress(planned[Dir]) \in Progress /\ InitProgress(planned[Dir]).done = {}
  BY <1>1, ProgressTypes DEF IInv, TypeOK, InitProgress
<1>3. worker'.step = "reset"
  BY DEF BeginStart, Goto, IInv, TypeOK
<1>4. \A d \in Dirs : Done(d)' = IF d = Dir THEN {} ELSE Done(d)
  BY <1>1, <1>2, DoneChanges DEF BeginStart, IInv
<1>5. texts' = texts /\ log' = log /\ torn' = torn \cup {Dir}
  BY DEF BeginStart
<1>6. CommittedIsOnDisk'
  BY <1>4, <1>5 DEF DiskInv, CommittedIsOnDisk
<1>. QED  BY <1>3, <1>6 DEF DiskInv

\* An empty log fits whatever is committed.
LEMMA ResetDisk ==
  ASSUME IInv, DiskInv, ResetLog
  PROVE  DiskInv'
<1>1. worker'.step = "load" /\ texts' = texts /\ torn' = torn \ {Dir} /\ progress' = progress
  BY DEF ResetLog, Goto, IInv, TypeOK
<1>2. \A d \in Dirs : Done(d)' = Done(d)
  BY <1>1 DEF Done
<1>3. \A d \in Dirs : log'[d] = IF d = Dir THEN <<>> ELSE log[d]
  BY DEF ResetLog, IInv, TypeOK
<1>4. CommittedIsOnDisk'
  BY <1>1, <1>2, <1>3 DEF DiskInv, CommittedIsOnDisk
<1>. QED  BY <1>1, <1>4 DEF DiskInv

\* Loading, generating and completing leave the committed sections alone.
LEMMA PhaseDone ==
  ASSUME IInv, LoadContext \/ GenerateSection \/ CheckpointAllDone
  PROVE  \A d \in Dirs : Done(d)' = Done(d)
<1>1. Dir \in Dirs
  BY AtWork DEF IInv, LoadContext, GenerateSection, CheckpointAllDone
<1>2. PICK q \in Progress : /\ progress' = [progress EXCEPT ![Dir] = q]
                            /\ q.done = Done(Dir)
  <2>1. CASE LoadContext
    <3>1. Loaded \in Progress /\ [Loaded EXCEPT !.phase = "complete"] \in Progress
      BY <1>1, LoadedInOrder, ProgressTypes DEF IInv
    <3>2. Loaded.done = Done(Dir)
      BY DEF Loaded, Done, InitProgress
    <3>3. [Loaded EXCEPT !.phase = "complete"].done = Loaded.done
      BY <3>1 DEF Progress
    <3>. QED  BY <2>1, <3>1, <3>2, <3>3, Zenon DEF LoadContext
  <2>2. CASE GenerateSection
    <3>1. progress[Dir] # None /\ progress[Dir] \in Progress /\ worker.section \in Nat
      BY <1>1, <2>2 DEF IInv, TypeOK, WorkerInv, GenerateSection
    <3>2. /\ StartSection(progress[Dir], worker.section) \in Progress
          /\ StartSection(progress[Dir], worker.section).done = Done(Dir)
      BY <3>1, ProgressTypes DEF StartSection, Progress, Done
    <3>. QED  BY <2>2, <3>2 DEF GenerateSection
  <2>3. CASE CheckpointAllDone
    <3>1. progress[Dir] # None /\ progress[Dir] \in Progress
      BY <1>1, <2>3 DEF IInv, TypeOK, WorkerInv, CheckpointAllDone
    <3>2. /\ MarkComplete(progress[Dir]) \in Progress
          /\ MarkComplete(progress[Dir]).done = Done(Dir)
      BY <3>1, ProgressTypes DEF MarkComplete, Progress, Done
    <3>. QED  BY <2>3, <3>2 DEF CheckpointAllDone
  <2>. QED  BY <2>1, <2>2, <2>3
<1>. QED  BY <1>1, <1>2, DoneChanges DEF IInv

LEMMA PhaseDisk ==
  ASSUME IInv, DiskInv, LoadContext \/ GenerateSection \/ CheckpointAllDone
  PROVE  DiskInv'
<1>1. texts' = texts /\ log' = log /\ torn' = torn
  BY DEF LoadContext, GenerateSection, CheckpointAllDone
<1>2. worker'.step \notin {"mark", "log"}
  <2>1. LoadContext => \/ worker' = [worker EXCEPT !.step = "return"]
                       \/ worker' = [worker EXCEPT !.step = "generate",
                                                  !.section = NextSection(Loaded)]
    BY Zenon DEF LoadContext
  <2>2. LoadContext => worker'.step \in {"return", "generate"}
    BY <2>1 DEF IInv, TypeOK
  <2>3. GenerateSection => worker'.step = "commit"
    BY DEF GenerateSection, Goto, IInv, TypeOK
  <2>4. CheckpointAllDone => worker'.step = "clear"
    BY DEF CheckpointAllDone, Goto, IInv, TypeOK
  <2>. QED  BY <2>2, <2>3, <2>4
<1>. QED  BY <1>1, <1>2, PhaseDone, DiskStill
LEMMA DiskKeeps ==
  ASSUME IInv, DiskInv, Next
  PROVE  DiskInv'
<1>1. progress' = progress => \A d \in Dirs : Done(d)' = Done(d)
  BY DEF Done
<1>2. worker.step # "idle" => Dir \in Dirs /\ worker.task \in DOMAIN tasks
  BY AtWork DEF IInv
<1>3. ASSUME NEW r \in Runs, ApiStart(r) \/ ApiStep PROVE DiskInv'
  <2>1. texts' = texts /\ log' = log /\ progress' = progress /\ torn' = torn
    BY <1>3 DEF ApiStart, ApiStep, CreateRun, ResumeRun, AddInstruction, PauseRun,
                CancelRun, PutTask, Steer, Abort, fileVars
  <2>4. worker' = worker \/ worker'.step = "return"
    <3>1. CASE Abort
      BY <3>1, AbortMoves DEF IInv
    <3>2. CASE ~Abort
      BY <1>3, <3>2 DEF ApiStart, ApiStep, CreateRun, ResumeRun, AddInstruction, PauseRun,
                        CancelRun, PutTask, Steer
    <3>. QED  BY <3>1, <3>2
  <2>2. CASE worker'.step = "return" \/ (worker' = worker /\ worker.step = "idle")
    BY <1>1, <2>1, <2>2, DiskStill
  <2>3. CASE worker' = worker /\ worker.step # "idle"
    <3>1. tasks'[worker.task] = tasks[worker.task]
      <4>1. CASE PutTask
        <5>1. \A i \in 1..Len(tasks) : Append(tasks, NewTask(api.run, api.op, api.text))[i] = tasks[i]
          BY DEF IInv, TypeOK
        <5>2. worker.task \in 1..Len(tasks)
          BY <1>2, <2>3, LenProperties DEF IInv, TypeOK
        <5>. QED  BY <4>1, <5>1, <5>2 DEF PutTask
      <4>2. CASE ~PutTask
        BY <1>3, <4>2 DEF ApiStart, ApiStep, CreateRun, ResumeRun, AddInstruction,
                          PauseRun, CancelRun, Steer, Abort
      <4>. QED  BY <4>1, <4>2
    <3>2. Dir' = Dir
      BY <2>3, <3>1 DEF Dir, Run, Current
    <3>. QED  BY <1>1, <1>2, <2>1, <2>3, <3>2, DiskStill
  <2>. QED  BY <2>2, <2>3, <2>4
<1>4. CASE ApiStep
  <2>1. PICK r \in Runs : TRUE
    BY <1>4 DEF ApiStep, PutTask, Steer, Abort, IInv, TypeOK
  <2>. QED  BY <1>3, <1>4, <2>1
<1>5. CASE \/ \E i \in DOMAIN tasks : Claim(i)
           \/ AlreadyRunning \/ BeginResume \/ ConsumeSteer \/ ReleasePause
           \/ BeginContinue \/ HostReturns \/ ClearPause \/ CheckpointPause
           \/ TestCanceled \/ SetOutcome \/ PersistSession \/ PersistTask
           \/ StepFails \/ ReturnFails \/ BookkeepingFails \/ Restart
  <2>1. progress' = progress /\ worker'.step \notin {"mark", "log"}
    BY <1>5, OutsideKeeps DEF IInv
  <2>2. texts' = texts /\ log' = log /\ torn' = torn
    BY <1>5 DEF Claim, AlreadyRunning, BeginResume, ConsumeSteer, ReleasePause,
                BeginContinue, HostReturns, ClearPause, CheckpointPause,
                TestCanceled, SetOutcome, PersistSession, PersistTask, StepFails,
                ReturnFails, BookkeepingFails, PersistFails, ClaimFails, Restart,
                fileVars
  <2>. QED  BY <1>1, <2>1, <2>2, DiskStill
<1>. QED  BY <1>3, <1>4, <1>5, SaveTextDisk, MarkDoneDisk, LogDisk, StartDisk,
             ResetDisk, PhaseDisk
          DEF Next, WorkerStep, HostStep, Pipeline

\* The writes of a commit are in order at every moment.
THEOREM DiskInvariant == Spec => []DiskInv
<1>1. Init => DiskInv
  BY DEF Init, DiskInv, CommittedIsOnDisk, Done, WorkerIdle
<1>2. IInv /\ DiskInv /\ [Next]_vars => DiskInv'
  <2>1. CASE Next
    BY <2>1, DiskKeeps
  <2>2. CASE UNCHANGED vars
    BY <2>2 DEF DiskInv, CommittedIsOnDisk, Done, Dir, Run, Current, vars
  <2>. QED  BY <2>1, <2>2
<1>. QED  BY PlanInvariant, <1>1, <1>2, PTL DEF Spec

\* No restart or failing write between the three writes of a commit leaves
\* progress ahead of the texts, or the checkpoint log ahead of progress; only a start
\* that does not get from progress.init to checkpoints.reset leaves an old log behind.
THEOREM CommitsOnDisk == Spec => []CommittedIsOnDisk
<1>1. DiskInv => CommittedIsOnDisk
  BY DEF DiskInv
<1>. QED  BY DiskInvariant, <1>1, PTL

----------------------------------------------------------------------------
\* A canceled run stays canceled, but for a resume, for a worker past its test
\* of state_override and for a restart before the row was persisted.
THEOREM CancelIsKept == Spec => CancelSticks
<1>. DEFINE Kept(r) ==
       session[r] = "canceled" /\ session'[r] # "canceled" =>
         \/ api'.op = "resume"
         \/ worker.step = "outcome" /\ Run = r
         \/ faults' > faults /\ row[r] # "canceled"
<1>1. ASSUME TypeOK, Next, NEW r \in Runs PROVE Kept(r)
  <2>1. CASE session' = session
    BY <2>1
  <2>2. ASSUME NEW q \in Runs, NEW n, CreateRun(q, n) PROVE Kept(r)
    BY <1>1, <2>2 DEF CreateRun, TypeOK
  <2>3. ASSUME NEW q \in Runs, NEW text, ResumeRun(q, text) PROVE Kept(r)
    BY <2>3 DEF ResumeRun, Request
  <2>4. ASSUME NEW q \in Runs, CancelRun(q) PROVE Kept(r)
    BY <1>1, <2>4 DEF CancelRun, TypeOK
  <2>5. CASE SetOutcome
    BY <1>1, <2>5 DEF SetOutcome, TypeOK
  <2>6. CASE Restart
    BY <1>1, <2>6 DEF Restart, TypeOK
  <2>7. CASE /\ \A q \in Runs, n \in 0..MaxSections : ~CreateRun(q, n)
             /\ \A q \in Runs, text \in Texts \cup {None} : ~ResumeRun(q, text)
             /\ \A q \in Runs : ~CancelRun(q)
             /\ ~SetOutcome /\ ~Restart
    <3>1. session' = session
      BY <1>1, <2>7
      DEF Next, ApiStart, ApiStep, WorkerStep, HostStep, Pipeline, AddInstruction,
          PauseRun, PutTask, Steer, Abort, Claim, BeginStart, ResetLog, AlreadyRunning,
          BeginResume, ConsumeSteer, ReleasePause, BeginContinue, LoadContext,
          GenerateSection, SaveText, MarkDone, LogCheckpoint, CheckpointAllDone,
          ClearPause, CheckpointPause, HostReturns, TestCanceled, PersistSession,
          PersistTask, StepFails, ReturnFails, BookkeepingFails, PersistFails,
          ClaimFails, runVars
    <3>. QED  BY <2>1, <3>1
  <2>. QED  BY <2>2, <2>3, <2>4, <2>5, <2>6, <2>7
<1>2. TypeOK /\ [Next]_vars => [\A r \in Runs : Kept(r)]_vars
  BY <1>1
<1>. QED  BY TypeCorrect, <1>2, PTL DEF Spec, CancelSticks

----------------------------------------------------------------------------
(***************************************************************************)
(* One task at a time: no task is put into the table while one of the same *)
(* run waits or runs, and a restart brings back the one whose end was not  *)
(* saved.                                                                  *)
(***************************************************************************)
Unsaved(r) == {i \in DOMAIN tasks : tasks[i].run = r /\ tasks[i].saved = FALSE}

\* A run that has a task, or a request of its own, has a session and a row.
SessionInv ==
  /\ \A r \in Runs : session[r] = "absent" <=> row[r] = "absent"
  /\ \A i \in DOMAIN tasks : session[tasks[i].run] # "absent"
  /\ api.step # "idle" => session[api.run] # "absent"

\* Only the task the worker has just ended may be unsaved, and the one it
\* executes runs.
EndInv ==
  /\ \A i \in DOMAIN tasks :
       tasks[i].saved = FALSE => worker.step \in {"row", "task", "dead"} /\ i = worker.task
  /\ worker.step \notin {"idle", "row", "task", "dead"} => tasks[worker.task].status = "running"

CountInv ==
  /\ api.step = "enqueue" => ActiveTasks(api.run) = {}
  /\ \A r \in Runs : faults = 0 => \E a : ActiveTasks(r) \subseteq {a}
  /\ \A r \in Runs : \E a, b : ActiveTasks(r) \cup Unsaved(r) \subseteq {a, b}

TableInv == SessionInv /\ EndInv /\ CountInv

\* A task of the table.
LEMMA InTable ==
  ASSUME TypeOK, NEW i \in DOMAIN tasks
  PROVE  tasks[i] \in Task /\ tasks[i].run \in Runs /\ tasks[i].saved \in BOOLEAN
<1>1. tasks[i] \in Task
  BY ElementOfSeq DEF TypeOK
<1>. QED  BY <1>1 DEF Task

\* No task becomes active, and none is unsaved that was not active before.
LEMMA CountStep ==
  ASSUME CountInv, DOMAIN tasks' = DOMAIN tasks,
         \A i \in DOMAIN tasks : /\ tasks'[i].run = tasks[i].run
                                 /\ Active(tasks'[i]) => Active(tasks[i])
                                 /\ tasks'[i].saved = FALSE => tasks[i].saved = FALSE \/ Active(tasks[i]),
         faults' = 0 => faults = 0,
         api'.step = "enqueue" => ActiveTasks(api'.run) = {}
  PROVE  CountInv'
<1>1. ASSUME NEW r PROVE ActiveTasks(r)' \subseteq ActiveTasks(r) /\ Unsaved(r)' \subseteq ActiveTasks(r) \cup Unsaved(r)
  BY DEF ActiveTasks, Unsaved
<1>2. api'.step = "enqueue" => ActiveTasks(api.run)' = {}
  BY DEF ActiveTasks
<1>3. ASSUME NEW r \in Runs, faults' = 0 PROVE \E a : ActiveTasks(r)' \subseteq {a}
  BY <1>1, <1>3 DEF CountInv
<1>4. ASSUME NEW r \in Runs PROVE \E a, b : ActiveTasks(r)' \cup Unsaved(r)' \subseteq {a, b}
  <2>1. PICK a, b : ActiveTasks(r) \cup Unsaved(r) \subseteq {a, b}
    BY DEF CountInv
  <2>2. ActiveTasks(r)' \cup Unsaved(r)' \subseteq {a, b}
    BY <1>1, <2>1
  <2>. QED  BY <2>2
<1>. QED  BY <1>2, <1>3, <1>4 DEF CountInv

\* The table stays, and the worker at its task.
LEMMA TableStill ==
  ASSUME TypeOK, EndInv, CountInv, tasks' = tasks, worker'.task = worker.task,
         worker.step \in {"row", "task", "dead"} => worker'.step \in {"row", "task", "dead"},
         worker'.step \notin {"idle", "row", "task", "dead"} => worker.step \notin {"idle", "row", "task", "dead"},
         faults' = 0 => faults = 0,
         api'.step = "enqueue" => ActiveTasks(api'.run) = {}
  PROVE  EndInv' /\ CountInv'
<1>1. EndInv'
  BY DEF EndInv
<1>2. \A i \in DOMAIN tasks : /\ tasks'[i].run = tasks[i].run
                              /\ Active(tasks'[i]) => Active(tasks[i])
                              /\ tasks'[i].saved = FALSE => tasks[i].saved = FALSE \/ Active(tasks[i])
  OBVIOUS
<1>3. CountInv'
  BY <1>2, CountStep
<1>. QED  BY <1>1, <1>3

LEMMA NotBusy ==
  ASSUME NEW r, ~Busy(r) PROVE ActiveTasks(r) = {}
BY DEF Busy, ActiveTasks

\* The requests.
LEMMA ApiTable ==
  ASSUME TypeOK, TableInv, NEW r \in Runs, ApiStart(r) \/ Steer \/ Abort
  PROVE  TableInv'
<1>1. tasks' = tasks /\ faults' = faults
  BY DEF ApiStart, CreateRun, ResumeRun, AddInstruction, PauseRun, CancelRun, Steer, Abort
<1>9. \/ worker' = worker
      \/ /\ worker'.task = worker.task
         /\ worker.step = "load" /\ worker'.step = "return"
  BY AbortMoves DEF ApiStart, CreateRun, ResumeRun, AddInstruction, PauseRun, CancelRun, Steer
<1>2. ActiveTasks(r) = {} \/ session[r] # "absent"
  BY DEF TableInv, SessionInv, ActiveTasks
<1>3. api'.step = "enqueue" => ActiveTasks(api'.run) = {}
  <2>1. ASSUME NEW n, CreateRun(r, n) PROVE api'.run = r /\ ActiveTasks(r) = {}
    BY <1>2, <2>1 DEF CreateRun, Request
  <2>2. ASSUME NEW text, ResumeRun(r, text) PROVE api'.run = r /\ ActiveTasks(r) = {}
    BY <2>2, NotBusy DEF ResumeRun, Request
  <2>3. ASSUME NEW text, AddInstruction(r, text), api'.step = "enqueue" PROVE api'.run = r /\ ActiveTasks(r) = {}
    BY <2>3, NotBusy DEF AddInstruction, Request
  <2>4. CASE PauseRun(r) \/ CancelRun(r)
    BY <2>4 DEF PauseRun, CancelRun, AbortTest, Request, ApiIdle
  <2>5. CASE Steer \/ Abort
    BY <2>5 DEF Steer, Abort, ApiIdle
  <2>. QED  BY <2>1, <2>2, <2>3, <2>4, <2>5 DEF ApiStart
<1>4. EndInv' /\ CountInv'
  BY <1>1, <1>3, <1>9, TableStill DEF TableInv
<1>5. \A q \in Runs : session[q] # "absent" => session'[q] # "absent"
  BY DEF TypeOK, ApiStart, CreateRun, ResumeRun, AddInstruction, PauseRun, CancelRun, Steer, Abort, runVars
<1>6. \A q \in Runs : session'[q] = "absent" <=> row'[q] = "absent"
  <2>1. ASSUME NEW n, CreateRun(r, n) PROVE \A q \in Runs : session'[q] = "absent" <=> row'[q] = "absent"
    BY <2>1 DEF CreateRun, TypeOK, TableInv, SessionInv
  <2>2. ASSUME NEW text, ResumeRun(r, text) PROVE \A q \in Runs : session'[q] = "absent" <=> row'[q] = "absent"
    BY <2>2 DEF ResumeRun, TypeOK, TableInv, SessionInv
  <2>3. ASSUME NEW text, AddInstruction(r, text) PROVE \A q \in Runs : session'[q] = "absent" <=> row'[q] = "absent"
    BY <2>3 DEF AddInstruction, runVars, TableInv, SessionInv
  <2>4. CASE PauseRun(r) \/ CancelRun(r)
    <3>1. session'[r] # "absent" /\ \A q \in Runs : q # r => session'[q] = session[q] /\ row'[q] = row[q]
      BY <2>4 DEF PauseRun, CancelRun, AbortTest, TypeOK
    <3>2. row'[r] = row[r] \/ row'[r] = session'[r]
      BY <2>4 DEF PauseRun, CancelRun, AbortTest, TypeOK
    <3>3. session[r] # "absent"
      BY <2>4 DEF PauseRun, CancelRun
    <3>. QED  BY <3>1, <3>2, <3>3 DEF TableInv, SessionInv
  <2>5. CASE Steer \/ Abort
    <3>1. session' = session /\ row' = [row EXCEPT ![api.run] = session[api.run]]
      BY <2>5 DEF Steer, Abort
    <3>2. \A q \in Runs : row'[q] = IF q = api.run THEN session[q] ELSE row[q]
      BY <3>1 DEF TypeOK
    <3>. QED  BY <3>1, <3>2 DEF TableInv, SessionInv
  <2>. QED  BY <2>1, <2>2, <2>3, <2>4, <2>5 DEF ApiStart
<1>7. \A i \in DOMAIN tasks : session'[tasks[i].run] # "absent"
  BY <1>5, InTable DEF TableInv, SessionInv
<1>8. api'.step # "idle" => session'[api'.run] # "absent"
  <2>1. ASSUME NEW n, CreateRun(r, n) PROVE session'[api'.run] # "absent"
    BY <2>1 DEF CreateRun, Request, TypeOK
  <2>2. ASSUME NEW text, ResumeRun(r, text) \/ AddInstruction(r, text) PROVE session'[api'.run] # "absent"
    BY <1>5, <2>2 DEF ResumeRun, AddInstruction, Request
  <2>3. CASE PauseRun(r) \/ CancelRun(r)
    BY <1>5, <2>3 DEF PauseRun, CancelRun, AbortTest, Request, ApiIdle
  <2>4. CASE Steer \/ Abort
    BY <2>4 DEF Steer, Abort, ApiIdle
  <2>. QED  BY <2>1, <2>2, <2>3, <2>4 DEF ApiStart
<1>. QED  BY <1>1, <1>4, <1>6, <1>7, <1>8 DEF TableInv, SessionInv

\* The worker: the sessions stay, a row is at most brought up to date.
LEMMA SessionStill ==
  ASSUME TypeOK, SessionInv, api' = api, session' = session,
         NEW q \in Runs, row' = row \/ row' = [row EXCEPT ![q] = session[q]],
         DOMAIN tasks' = DOMAIN tasks,
         \A i \in DOMAIN tasks : tasks'[i].run = tasks[i].run
  PROVE  SessionInv'
<1>1. \A r \in Runs : row'[r] = row[r] \/ row'[r] = session[r]
  BY DEF TypeOK
<1>2. \A r \in Runs : session'[r] = "absent" <=> row'[r] = "absent"
  BY <1>1 DEF SessionInv
<1>. QED  BY <1>2 DEF SessionInv

\* The new task is the only one of its run that waits or runs.
LEMMA PutTable ==
  ASSUME TypeOK, TableInv, PutTask
  PROVE  TableInv'
<1>. DEFINE n == Len(tasks) + 1
            new == NewTask(api.run, api.op, api.text)
<1>1. /\ tasks \in Seq(Task) /\ api.run \in Runs /\ tasks' = Append(tasks, new)
      /\ api'.step = "idle"
  BY DEF TypeOK, PutTask, ApiIdle
<1>2. new.run = api.run /\ new.saved = TRUE /\ new.status = "queued"
  BY DEF NewTask
<1>. HIDE DEF new
<1>3. /\ DOMAIN tasks' = DOMAIN tasks \cup {n} /\ n \notin DOMAIN tasks /\ tasks'[n] = new
      /\ \A i \in DOMAIN tasks : tasks'[i] = tasks[i]
  BY <1>1
<1>4. row' = [row EXCEPT ![api.run] = session[api.run]] /\ session' = session /\ worker' = worker /\ faults' = faults
  BY DEF PutTask
<1>. HIDE DEF n
<1>5. SessionInv'
  <2>1. \A r \in Runs : row'[r] = IF r = api.run THEN session[r] ELSE row[r]
    BY <1>4 DEF TypeOK
  <2>2. \A r \in Runs : session'[r] = "absent" <=> row'[r] = "absent"
    BY <1>4, <2>1 DEF TableInv, SessionInv
  <2>3. session[api.run] # "absent"
    BY DEF PutTask, TableInv, SessionInv
  <2>4. \A i \in DOMAIN tasks' : session'[tasks'[i].run] # "absent"
    BY <1>2, <1>3, <1>4, <2>3 DEF TableInv, SessionInv
  <2>. QED  BY <1>1, <2>2, <2>4 DEF SessionInv
<1>6. EndInv'
  <2>1. worker.step # "idle" => worker.task \in DOMAIN tasks
    BY DEF TypeOK
  <2>2. ASSUME NEW i \in DOMAIN tasks', tasks'[i].saved = FALSE
        PROVE  worker'.step \in {"row", "task", "dead"} /\ i = worker'.task
    BY <1>2, <1>3, <1>4, <2>2 DEF TableInv, EndInv
  <2>3. worker'.step \notin {"idle", "row", "task", "dead"} => tasks'[worker'.task].status = "running"
    BY <1>3, <1>4, <2>1 DEF TableInv, EndInv
  <2>. QED  BY <2>2, <2>3 DEF EndInv
<1>7. CountInv'
  <2>1. ASSUME NEW r, r # api.run PROVE ActiveTasks(r)' = ActiveTasks(r) /\ Unsaved(r)' = Unsaved(r)
    BY <1>2, <1>3, <2>1 DEF ActiveTasks, Unsaved, Active
  <2>2. ActiveTasks(api.run) = {}
    BY DEF PutTask, TableInv, CountInv
  <2>3. \A i \in DOMAIN tasks' : tasks'[i].run = api.run /\ Active(tasks'[i]) => i = n
    BY <1>3, <2>2 DEF ActiveTasks, Active
  <2>4. \A i \in DOMAIN tasks' : tasks'[i].saved = FALSE => i = worker.task
    BY <1>2, <1>3 DEF TableInv, EndInv
  <2>5. ASSUME NEW r \in Runs, faults' = 0 PROVE \E a : ActiveTasks(r)' \subseteq {a}
    <3>1. CASE r = api.run
      BY <2>3, <3>1 DEF ActiveTasks
    <3>2. CASE r # api.run
      BY <1>4, <2>1, <2>5, <3>2 DEF TableInv, CountInv
    <3>. QED  BY <3>1, <3>2
  <2>6. ASSUME NEW r \in Runs PROVE \E a, b : ActiveTasks(r)' \cup Unsaved(r)' \subseteq {a, b}
    <3>1. CASE r = api.run
      <4>1. ActiveTasks(r)' \cup Unsaved(r)' \subseteq {n, worker.task}
        BY <2>3, <2>4, <3>1 DEF ActiveTasks, Unsaved
      <4>. QED  BY <4>1
    <3>2. CASE r # api.run
      <4>1. PICK a, b : ActiveTasks(r) \cup Unsaved(r) \subseteq {a, b}
        BY DEF TableInv, CountInv
      <4>2. ActiveTasks(r)' \cup Unsaved(r)' \subseteq {a, b}
        BY <2>1, <3>2, <4>1
      <4>. QED  BY <4>2
    <3>. QED  BY <3>1, <3>2
  <2>. QED  BY <1>1, <2>5, <2>6 DEF CountInv
<1>. QED  BY <1>5, <1>6, <1>7 DEF TableInv

\* The worker takes a task, or ends in the attempt.
LEMMA ClaimTable ==
  ASSUME TypeOK, TableInv, NEW i \in DOMAIN tasks, Claim(i) \/ ClaimFails(i)
  PROVE  TableInv'
<1>1. /\ worker.step = "idle" /\ worker'.step \in {"begin", "dead"} /\ worker'.task = i
      /\ tasks' = [tasks EXCEPT ![i].status = "running"] /\ tasks[i].status = "queued"
      /\ session' = session /\ api' = api /\ (faults' = 0 => faults = 0)
      /\ row' = row \/ row' = [row EXCEPT ![tasks[i].run] = session[tasks[i].run]]
  <2>1. CASE Claim(i)
    BY <2>1 DEF Claim, Claimable, WorkerIdle
  <2>2. CASE ClaimFails(i)
    BY <2>2 DEF ClaimFails, Claimable, WorkerIdle, runVars, TypeOK
  <2>. QED  BY <2>1, <2>2
<1>2. tasks[i].run \in Runs /\ tasks[i] \in Task
  BY InTable
<1>3. DOMAIN tasks' = DOMAIN tasks /\ \A j \in DOMAIN tasks : j # i => tasks'[j] = tasks[j]
  BY <1>1
<1>4. /\ tasks'[i].run = tasks[i].run /\ tasks'[i].saved = tasks[i].saved
      /\ tasks'[i].status = "running"
  BY <1>1, <1>2 DEF Task
<1>5. SessionInv'
  BY <1>1, <1>2, <1>3, <1>4, SessionStill DEF TableInv
<1>6. EndInv'
  BY <1>1, <1>3, <1>4 DEF TableInv, EndInv, Active
<1>7. \A j \in DOMAIN tasks : /\ tasks'[j].run = tasks[j].run
                              /\ Active(tasks'[j]) => Active(tasks[j])
                              /\ tasks'[j].saved = FALSE => tasks[j].saved = FALSE \/ Active(tasks[j])
  BY <1>1, <1>3, <1>4 DEF Active
<1>8. api'.step = "enqueue" => ActiveTasks(api'.run) = {}
  BY <1>1 DEF TableInv, CountInv
<1>9. CountInv'
  BY <1>1, <1>3, <1>7, <1>8, CountStep DEF TableInv
<1>. QED  BY <1>5, <1>6, <1>9 DEF TableInv

\* The host, and a file operation of it that fails.
LEMMA HostTable ==
  ASSUME TypeOK, TableInv, HostStep \/ StepFails \/ ReturnFails
  PROVE  TableInv'
<1>1. session' = session /\ row' = row /\ api' = api
  BY DEF HostStep, StepFails, ReturnFails, Pipeline, BeginStart, ResetLog, AlreadyRunning, BeginResume, ConsumeSteer,
         ReleasePause, BeginContinue, LoadContext, GenerateSection, SaveText, MarkDone,
         LogCheckpoint, CheckpointAllDone, ClearPause, CheckpointPause, HostReturns, runVars
<1>2. /\ worker.step \notin {"idle", "row", "task", "dead"} /\ worker'.task = worker.task
      /\ worker'.step \notin {"idle", "row", "task", "dead"}
  <2>1. worker.step \notin {"idle", "row", "task", "dead"}
    BY DEF HostStep, StepFails, ReturnFails, Pipeline, BeginStart, ResetLog, AlreadyRunning, BeginResume, ConsumeSteer,
           ReleasePause, BeginContinue, LoadContext, GenerateSection, SaveText, MarkDone,
           HostSteps, PipelineSteps, LogCheckpoint, CheckpointAllDone, ClearPause, CheckpointPause,
           HostReturns
  <2>2. \A step : Goto(step) => worker'.step = step /\ worker'.task = worker.task
    BY DEF Goto, TypeOK
  <2>3. Raise => worker'.step = "settle" /\ worker'.task = worker.task
    BY DEF Raise, TypeOK
  <2>4. LoadContext => \/ worker' = [worker EXCEPT !.step = "return"]
                       \/ worker' = [worker EXCEPT !.step = "generate",
                                                   !.section = NextSection(Loaded)]
    BY Zenon DEF LoadContext
  <2>5. LoadContext => worker'.step \in {"return", "generate"} /\ worker'.task = worker.task
    BY <2>4 DEF TypeOK
  <2>6. BeginResume => worker'.step \in {"settle", "consume"} /\ worker'.task = worker.task
    BY DEF BeginResume, TypeOK
  <2>. QED  BY <2>1, <2>2, <2>3, <2>5, <2>6
            DEF HostStep, StepFails, ReturnFails, Pipeline, BeginStart, ResetLog, AlreadyRunning, ConsumeSteer,
                ReleasePause, BeginContinue, GenerateSection, SaveText, MarkDone,
                LogCheckpoint, CheckpointAllDone, ClearPause, CheckpointPause, HostReturns
<1>3. faults' = 0 => faults = 0
  BY DEF TypeOK, HostStep, StepFails, ReturnFails, Pipeline, BeginStart, ResetLog, AlreadyRunning, BeginResume, ConsumeSteer,
         ReleasePause, BeginContinue, LoadContext, GenerateSection, SaveText, MarkDone,
         LogCheckpoint, CheckpointAllDone, ClearPause, CheckpointPause, HostReturns
<1>4. api'.step = "enqueue" => ActiveTasks(api'.run) = {}
  BY <1>1 DEF TableInv, CountInv
<1>5. tasks' = tasks \/ MarkDone
  BY DEF HostStep, StepFails, ReturnFails, Pipeline, BeginStart, ResetLog, AlreadyRunning, BeginResume, ConsumeSteer,
         ReleasePause, BeginContinue, LoadContext, GenerateSection, SaveText,
         LogCheckpoint, CheckpointAllDone, ClearPause, CheckpointPause, HostReturns
<1>6. CASE tasks' = tasks
  <2>1. EndInv' /\ CountInv'
    BY <1>2, <1>3, <1>4, <1>6, TableStill DEF TableInv
  <2>2. SessionInv'
    BY <1>1, <1>6 DEF TableInv, SessionInv
  <2>. QED  BY <2>1, <2>2 DEF TableInv
<1>7. CASE MarkDone
  <2>. DEFINE w == worker.task
  <2>1. w \in DOMAIN tasks
    BY <1>2 DEF TypeOK
  <2>2. tasks[w] \in Task /\ tasks[w].run \in Runs
    BY <2>1, InTable
  <2>3. tasks' = [tasks EXCEPT ![w].commits = @ \cup {worker.section}]
    BY <1>7 DEF MarkDone
  <2>4. DOMAIN tasks' = DOMAIN tasks /\ \A j \in DOMAIN tasks : j # w => tasks'[j] = tasks[j]
    BY <2>3
  <2>5. /\ tasks'[w].run = tasks[w].run /\ tasks'[w].saved = tasks[w].saved
        /\ tasks'[w].status = tasks[w].status
    BY <2>1, <2>2, <2>3 DEF Task
  <2>. HIDE DEF w
  <2>6. \A j \in DOMAIN tasks : /\ tasks'[j].run = tasks[j].run /\ tasks'[j].saved = tasks[j].saved
                                /\ tasks'[j].status = tasks[j].status
                                /\ Active(tasks'[j]) <=> Active(tasks[j])
    BY <2>4, <2>5 DEF Active
  <2>7. SessionInv'
    BY <1>1, <2>2, <2>4, <2>6, SessionStill DEF TableInv
  <2>8. EndInv'
    BY <1>2, <2>1, <2>4, <2>6 DEF TableInv, EndInv, w
  <2>9. CountInv'
    BY <1>3, <1>4, <2>4, <2>6, CountStep DEF TableInv
  <2>. QED  BY <2>7, <2>8, <2>9 DEF TableInv
<1>. QED  BY <1>5, <1>6, <1>7

\* The worker records how the task ended: it no longer waits or runs, and its
\* file lags behind.
LEMMA EndTable ==
  ASSUME TypeOK, TableInv, TestCanceled \/ SetOutcome
  PROVE  TableInv'
<1>. DEFINE w == worker.task
<1>1. /\ w \in DOMAIN tasks /\ worker.step \in {"settle", "outcome"}
      /\ row' = row /\ api' = api /\ faults' = faults /\ worker'.task = w
      /\ Run \in Runs /\ session[Run] # "absent"
  <2>1. worker.step \in {"settle", "outcome"}
    BY DEF TestCanceled, SetOutcome
  <2>2. w \in DOMAIN tasks
    BY <2>1 DEF TypeOK
  <2>3. Run \in Runs /\ session[Run] # "absent"
    BY <2>2, InTable DEF Run, Current, TableInv, SessionInv
  <2>4. row' = row /\ api' = api /\ faults' = faults /\ worker'.task = w
    BY <2>1 DEF TestCanceled, SetOutcome, Goto, runVars, TypeOK
  <2>. QED  BY <2>1, <2>2, <2>3, <2>4
<1>2. api'.step = "enqueue" => ActiveTasks(api'.run) = {}
  BY <1>1 DEF TableInv, CountInv
<1>3. CASE tasks' = tasks /\ session' = session /\ worker'.step = "outcome"
  <2>1. EndInv' /\ CountInv'
    BY <1>1, <1>2, <1>3, TableStill DEF TableInv
  <2>2. SessionInv'
    BY <1>1, <1>3 DEF TableInv, SessionInv
  <2>. QED  BY <2>1, <2>2 DEF TableInv
<1>4. CASE SetStatus /\ worker'.step = "row"
  <2>1. tasks[w] \in Task /\ Finished \in {"completed", "failed"}
    BY <1>1, InTable DEF Finished
  <2>2. tasks' = [tasks EXCEPT ![w] = [tasks[w] EXCEPT !.status = Finished, !.saved = FALSE]]
    BY <1>1, <1>4 DEF SetStatus
  <2>3. DOMAIN tasks' = DOMAIN tasks /\ \A j \in DOMAIN tasks : j # w => tasks'[j] = tasks[j]
    BY <2>2
  <2>4. tasks'[w].run = tasks[w].run /\ tasks'[w].status = Finished
    BY <1>1, <2>1, <2>2 DEF Task
  <2>5. ~Active(tasks'[w]) /\ Active(tasks[w])
    BY <1>1, <2>1, <2>4 DEF Active, TableInv, EndInv
  <2>6. \A q \in Runs : session'[q] = "absent" <=> session[q] = "absent"
    <3>1. CASE TestCanceled
      BY <3>1 DEF TestCanceled, runVars
    <3>2. CASE SetOutcome
      <4>1. session' = [session EXCEPT ![Run] = IF worker.ok THEN "none" ELSE "failed"]
        BY <3>2 DEF SetOutcome
      <4>2. \A q \in Runs : session'[q] = session[q] \/ (q = Run /\ session'[q] \in {"none", "failed"})
        BY <4>1 DEF TypeOK
      <4>. QED  BY <1>1, <4>2
    <3>. QED  BY <3>1, <3>2
  <2>. HIDE DEF w
  <2>7. \A j \in DOMAIN tasks : /\ tasks'[j].run = tasks[j].run
                                /\ Active(tasks'[j]) => Active(tasks[j])
                                /\ tasks'[j].saved = FALSE => tasks[j].saved = FALSE \/ Active(tasks[j])
    BY <2>3, <2>4, <2>5
  <2>8. SessionInv'
    <3>1. \A i \in DOMAIN tasks' : session'[tasks'[i].run] # "absent"
      BY <2>3, <2>6, <2>7, InTable DEF TableInv, SessionInv
    <3>2. api'.step # "idle" => session'[api'.run] # "absent"
      BY <1>1, <2>6 DEF TypeOK, TableInv, SessionInv
    <3>3. \A r \in Runs : session'[r] = "absent" <=> row'[r] = "absent"
      BY <1>1, <2>6 DEF TableInv, SessionInv
    <3>. QED  BY <3>1, <3>2, <3>3 DEF SessionInv
  <2>9. EndInv'
    BY <1>1, <1>4, <2>3 DEF TableInv, EndInv
  <2>10. CountInv'
    BY <1>1, <1>2, <2>3, <2>7, CountStep DEF TableInv
  <2>. QED  BY <2>8, <2>9, <2>10 DEF TableInv
<1>5. \/ tasks' = tasks /\ session' = session /\ worker'.step = "outcome"
      \/ SetStatus /\ worker'.step = "row"
  BY DEF TypeOK, TestCanceled, SetOutcome, Goto, runVars
<1>. QED  BY <1>3, <1>4, <1>5

\* The worker saves the row and then the task, or ends in the attempt.
LEMMA SaveTable ==
  ASSUME TypeOK, TableInv, PersistSession \/ PersistTask \/ PersistFails
  PROVE  TableInv'
<1>. DEFINE w == worker.task
<1>1. /\ w \in DOMAIN tasks /\ session' = session /\ api' = api /\ (faults' = 0 => faults = 0)
      /\ worker.step \in {"row", "task"} /\ Run = tasks[w].run /\ Run \in Runs
  <2>1. worker.step \in {"row", "task"}
    BY DEF PersistSession, PersistTask, PersistFails
  <2>2. w \in DOMAIN tasks
    BY <2>1 DEF TypeOK
  <2>3. Run = tasks[w].run /\ Run \in Runs
    BY <2>2, InTable DEF Run, Current
  <2>4. session' = session /\ api' = api /\ (faults' = 0 => faults = 0)
    BY DEF PersistSession, PersistTask, PersistFails, runVars, TypeOK
  <2>. QED  BY <2>1, <2>2, <2>3, <2>4
<1>2. api'.step = "enqueue" => ActiveTasks(api'.run) = {}
  BY <1>1 DEF TableInv, CountInv
<1>3. CASE PersistSession
  <2>1. tasks' = tasks /\ worker'.task = w /\ worker'.step = "task"
    BY <1>3 DEF PersistSession, Goto, TypeOK
  <2>2. EndInv' /\ CountInv'
    BY <1>1, <1>2, <2>1, TableStill DEF TableInv
  <2>3. row' = [row EXCEPT ![Run] = session[Run]]
    BY <1>3 DEF PersistSession
  <2>4. SessionInv'
    BY <1>1, <2>1, <2>3, SessionStill DEF TableInv
  <2>. QED  BY <2>2, <2>4 DEF TableInv
<1>4. CASE PersistTask
  <2>1. /\ tasks' = [tasks EXCEPT ![w].saved = TRUE] /\ worker'.step = "idle" /\ row' = row
    BY <1>4 DEF PersistTask, WorkerIdle, runVars
  <2>2. DOMAIN tasks' = DOMAIN tasks /\ \A j \in DOMAIN tasks : j # w => tasks'[j] = tasks[j]
    BY <2>1
  <2>3. tasks[w] \in Task
    BY <1>1, InTable
  <2>4. /\ tasks'[w].run = tasks[w].run /\ tasks'[w].status = tasks[w].status
        /\ tasks'[w].saved = TRUE
    BY <1>1, <2>1, <2>3 DEF Task
  <2>. HIDE DEF w
  <2>5. \A j \in DOMAIN tasks : /\ tasks'[j].run = tasks[j].run
                                /\ Active(tasks'[j]) => Active(tasks[j])
                                /\ tasks'[j].saved = FALSE => tasks[j].saved = FALSE
    BY <2>2, <2>4 DEF Active
  <2>6. SessionInv'
    BY <1>1, <2>1, <2>2, <2>5, SessionStill DEF TableInv
  <2>7. EndInv'
    BY <2>1, <2>2, <2>4 DEF TableInv, EndInv, w
  <2>8. CountInv'
    BY <1>1, <1>2, <2>2, <2>5, CountStep DEF TableInv
  <2>. QED  BY <2>6, <2>7, <2>8 DEF TableInv
<1>5. CASE PersistFails
  <2>1. tasks' = tasks /\ row' = row /\ worker'.task = w /\ worker'.step = "dead"
    BY <1>5 DEF PersistFails, Goto, TypeOK, runVars
  <2>2. EndInv' /\ CountInv'
    BY <1>1, <1>2, <2>1, TableStill DEF TableInv
  <2>3. SessionInv'
    BY <1>1, <2>1, SessionStill DEF TableInv
  <2>. QED  BY <2>2, <2>3 DEF TableInv
<1>. QED  BY <1>3, <1>4, <1>5

\* A restart puts tasks back: those that wait or run, and the one whose end
\* was not saved.
LEMMA RestartTable ==
  ASSUME TypeOK, TableInv, Restart
  PROVE  TableInv'
<1>1. /\ session' = row /\ row' = row /\ api'.step = "idle" /\ worker'.step = "idle"
      /\ faults' # 0 /\ tasks' = [i \in DOMAIN tasks |-> Restore(tasks[i])]
  BY DEF TypeOK, Restart, ApiIdle, WorkerIdle
<1>2. ASSUME NEW i \in DOMAIN tasks
      PROVE  /\ tasks'[i].run = tasks[i].run /\ tasks'[i].saved # FALSE
             /\ Active(tasks'[i]) => Active(tasks[i]) \/ tasks[i].saved = FALSE
  <2>1. tasks[i] \in Task
    BY InTable
  <2>2. tasks'[i] = Restore(tasks[i])
    BY <1>1
  <2>3. CASE tasks[i].status = "running" \/ ~tasks[i].saved
    <3>1. tasks'[i] = [tasks[i] EXCEPT !.status = "queued", !.saved = TRUE]
      BY <2>2, <2>3 DEF Restore
    <3>. QED  BY <2>1, <2>3, <3>1 DEF Task, Active
  <2>4. CASE ~(tasks[i].status = "running" \/ ~tasks[i].saved)
    <3>1. tasks'[i] = tasks[i]
      BY <2>2, <2>4 DEF Restore
    <3>. QED  BY <2>4, <3>1
  <2>. QED  BY <2>3, <2>4
<1>3. DOMAIN tasks' = DOMAIN tasks
  BY <1>1
<1>4. SessionInv'
  <2>1. \A i \in DOMAIN tasks' : session'[tasks'[i].run] # "absent"
    BY <1>1, <1>2, <1>3, InTable DEF TableInv, SessionInv
  <2>. QED  BY <1>1, <2>1 DEF SessionInv
<1>5. EndInv'
  BY <1>1, <1>2, <1>3 DEF EndInv
<1>6. CountInv'
  <2>1. ASSUME NEW r \in Runs PROVE \E a, b : ActiveTasks(r)' \cup Unsaved(r)' \subseteq {a, b}
    <3>1. PICK a, b : ActiveTasks(r) \cup Unsaved(r) \subseteq {a, b}
      BY DEF TableInv, CountInv
    <3>2. ActiveTasks(r)' \cup Unsaved(r)' \subseteq ActiveTasks(r) \cup Unsaved(r)
      BY <1>2, <1>3 DEF ActiveTasks, Unsaved
    <3>3. ActiveTasks(r)' \cup Unsaved(r)' \subseteq {a, b}
      BY <3>1, <3>2
    <3>. QED  BY <3>3
  <2>. QED  BY <1>1, <2>1 DEF CountInv
<1>. QED  BY <1>4, <1>5, <1>6 DEF TableInv

LEMMA NothingTable ==
  ASSUME TableInv, UNCHANGED vars
  PROVE  TableInv'
<1>. USE DEF vars
<1>1. SessionInv'
  BY DEF TableInv, SessionInv
<1>2. EndInv'
  BY DEF TableInv, EndInv
<1>3. \A r : ActiveTasks(r)' = ActiveTasks(r) /\ Unsaved(r)' = Unsaved(r)
  BY DEF ActiveTasks, Unsaved
<1>4. CountInv'
  BY <1>3 DEF TableInv, CountInv
<1>. QED  BY <1>1, <1>2, <1>4 DEF TableInv

\* What the invariant says of the number of tasks.
LEMMA FewTasks == TypeOK /\ TableInv => OneActiveTask
<1>1. SUFFICES ASSUME TypeOK, TableInv, NEW r \in Runs
               PROVE  Cardinality(ActiveTasks(r)) <= IF faults = 0 THEN 1 ELSE 2
  BY DEF OneActiveTask
<1>2. CASE faults = 0
  <2>1. PICK a : ActiveTasks(r) \subseteq {a}
    BY <1>1, <1>2 DEF TableInv, CountInv
  <2>2. IsFiniteSet({a}) /\ Cardinality({a}) = 1
    BY FS_Singleton
  <2>3. Cardinality(ActiveTasks(r)) <= 1
    BY <2>1, <2>2, FS_Subset
  <2>. QED  BY <1>2, <2>3
<1>3. CASE faults # 0
  <2>1. PICK a, b : ActiveTasks(r) \cup Unsaved(r) \subseteq {a, b}
    BY <1>1 DEF TableInv, CountInv
  <2>2. IsFiniteSet({a}) /\ Cardinality({a}) = 1
    BY FS_Singleton
  <2>3. {a} \cup {b} = {a, b}
    OBVIOUS
  <2>4. IsFiniteSet({a, b}) /\ Cardinality({a, b}) \in {1, 2}
    <3>1. /\ IsFiniteSet({a} \cup {b})
          /\ Cardinality({a} \cup {b}) = IF b \in {a} THEN Cardinality({a}) ELSE Cardinality({a}) + 1
      BY <2>2, FS_AddElement
    <3>. QED  BY <2>2, <2>3, <3>1
  <2>5. ActiveTasks(r) \subseteq {a, b}
    BY <2>1
  <2>6. Cardinality(ActiveTasks(r)) \in Nat /\ Cardinality(ActiveTasks(r)) <= Cardinality({a, b})
    BY <2>4, <2>5, FS_Subset, FS_CardinalityType
  <2>. QED  BY <1>3, <2>4, <2>6
<1>. QED  BY <1>2, <1>3

\* The table is in order at every moment.
THEOREM TableInvariant == Spec => []TableInv
<1>1. Init => TableInv
  <2>1. ASSUME Init PROVE SessionInv /\ EndInv
    BY <2>1 DEF Init, SessionInv, EndInv, ApiIdle, WorkerIdle
  <2>2. ASSUME Init PROVE CountInv
    <3>1. ActiveTasks(api.run) = {} /\ \A r \in Runs : ActiveTasks(r) = {} /\ Unsaved(r) = {}
      BY <2>2 DEF Init, ActiveTasks, Unsaved
    <3>2. \A r \in Runs : ActiveTasks(r) \subseteq {0} /\ ActiveTasks(r) \cup Unsaved(r) \subseteq {0, 1}
      BY <3>1
    <3>. QED  BY <3>1, <3>2 DEF CountInv
  <2>. QED  BY <2>1, <2>2 DEF TableInv
<1>2. TypeOK /\ TableInv /\ [Next]_vars => TableInv'
  <2>1. SUFFICES ASSUME TypeOK, TableInv, [Next]_vars PROVE TableInv'
    OBVIOUS
  <2>2. ASSUME NEW r \in Runs, ApiStart(r) PROVE TableInv'
    BY <2>1, <2>2, ApiTable
  <2>3. CASE Steer \/ Abort
    <3>1. api.run \in Runs
      BY <2>1, <2>3 DEF TypeOK, Steer, Abort
    <3>. QED  BY <2>1, <2>3, <3>1, ApiTable
  <2>4. CASE PutTask
    BY <2>1, <2>4, PutTable
  <2>5. ASSUME NEW i \in DOMAIN tasks, Claim(i) \/ ClaimFails(i) PROVE TableInv'
    BY <2>1, <2>5, ClaimTable
  <2>6. CASE HostStep \/ StepFails \/ ReturnFails
    BY <2>1, <2>6, HostTable
  <2>7. CASE TestCanceled \/ SetOutcome
    BY <2>1, <2>7, EndTable
  <2>8. CASE PersistSession \/ PersistTask \/ PersistFails
    BY <2>1, <2>8, SaveTable
  <2>9. CASE Restart
    BY <2>1, <2>9, RestartTable
  <2>10. CASE UNCHANGED vars
    BY <2>1, <2>10, NothingTable
  <2>. QED  BY <2>1, <2>2, <2>3, <2>4, <2>5, <2>6, <2>7, <2>8, <2>9, <2>10
            DEF Next, ApiStep, WorkerStep, BookkeepingFails
<1>. QED  BY TypeCorrect, <1>1, <1>2, PTL DEF Spec

\* A run has one task that waits or runs, and after a restart at most the one
\* more whose end was not saved: OneActiveTask for any runs, tasks and faults.
THEOREM OneTask == Spec => []OneActiveTask
BY TypeCorrect, TableInvariant, FewTasks, PTL
----------------------------------------------------------------------------
(***************************************************************************)
(* The status the API shows.                                               *)
(***************************************************************************)

\* A host says that it runs only while a task of the run is executed or about
\* to be put into the table, or after a task that failed or was canceled.
HostInv ==
  /\ \A r \in Runs : lifecycle[r] = "running" =>
       \/ Busy(r)
       \/ session[r] \in {"failed", "canceled"}
       \/ api.step = "enqueue" /\ api.run = r
  /\ worker.step \in {"settle", "outcome"} /\ worker.ok => lifecycle[Run] # "running"
  /\ worker.step \in PipelineSteps \cup {"return"} => lifecycle[Run] \in {"running", "paused"}
  /\ \A r \in Runs : Alone(r) /\ lifecycle[r] = "completed" => progress[DirOf[r]].phase = "complete"

\* The first task of a run is on its way.
Starting(r) ==
  \/ session[r] = "absent"
  \/ api.step = "enqueue" /\ api.op = "start" /\ api.run = r
  \/ \E i \in DOMAIN tasks :
       /\ tasks[i].run = r /\ tasks[i].op = "start"
       /\ \/ tasks[i].status = "queued"
          \/ worker.step \in {"begin", "reset"} /\ worker.task = i

\* The task that starts a run is its first, the queued tasks come after the one that
\* is executed: the host of a run that starts has not completed anything.
FirstInv ==
  /\ \A r \in Runs :
       session[r] = "absent" \/ (api.step = "enqueue" /\ api.op = "start" /\ api.run = r)
         => \A i \in DOMAIN tasks : tasks[i].run # r
  /\ \A i, j \in DOMAIN tasks :
       tasks[i].run = tasks[j].run /\ tasks[i].op = "start" => i <= j
  /\ worker.step # "idle" =>
       \A i \in DOMAIN tasks : tasks[i].status = "queued" => worker.task < i
  /\ \A r \in Runs : Starting(r) => lifecycle[r] # "completed"

\* The directory of a run that starts has no pending pause, and the section of a
\* pending pause is committed.
WaitInv ==
  /\ worker.step = "checkpoint" => worker.section \in Done(Dir)
  /\ \A r \in Runs : Alone(r) =>
       /\ session[r] = "absent" => pause[DirOf[r]] = 0
       /\ faults = 0 /\ Starting(r) => pause[DirOf[r]] = 0
       /\ faults = 0 /\ pause[DirOf[r]] # 0 => pause[DirOf[r]] \in Done(DirOf[r])

\* What a step of the host leaves alone: the requests, the sessions, the other
\* hosts and the other directories.
LEMMA HostAtWork ==
  ASSUME TypeOK, HostStep
  PROVE  /\ worker.step \notin {"idle", "settle", "outcome", "row", "task", "dead"}
         /\ Run \in Runs /\ Dir \in Dirs /\ Run' = Run
         /\ api' = api /\ session' = session /\ faults' = faults
         /\ DOMAIN tasks' = DOMAIN tasks
         /\ \A i \in DOMAIN tasks : /\ tasks'[i].run = tasks[i].run
                                    /\ tasks'[i].op = tasks[i].op
                                    /\ tasks'[i].status = tasks[i].status
         /\ worker'.task = worker.task
         /\ \A q \in Runs : q # Run => lifecycle'[q] = lifecycle[q]
         /\ \A d \in Dirs : d # Dir => progress'[d] = progress[d] /\ pause'[d] = pause[d]
<1>1. worker.step \notin {"idle", "settle", "outcome", "row", "task", "dead"}
  BY DEF HostStep, Pipeline, BeginStart, ResetLog, AlreadyRunning, BeginResume, ConsumeSteer,
         ReleasePause, BeginContinue, LoadContext, GenerateSection, SaveText, MarkDone,
         LogCheckpoint, CheckpointAllDone, ClearPause, CheckpointPause, HostReturns
<1>2. Run \in Runs /\ Dir \in Dirs /\ worker.task \in DOMAIN tasks /\ Current \in Task
  BY <1>1, AtWork
<1>3. session' = session /\ api' = api /\ faults' = faults
  BY DEF HostStep, Pipeline, BeginStart, ResetLog, AlreadyRunning, BeginResume, ConsumeSteer,
         ReleasePause, BeginContinue, LoadContext, GenerateSection, SaveText, MarkDone,
         LogCheckpoint, CheckpointAllDone, ClearPause, CheckpointPause, HostReturns, runVars
<1>4. worker'.task = worker.task
  <2>1. \A step : Goto(step) => worker'.task = worker.task
    BY DEF Goto, TypeOK
  <2>2. Raise => worker'.task = worker.task
    BY DEF Raise, TypeOK
  <2>3. LoadContext => \/ worker' = [worker EXCEPT !.step = "return"]
                       \/ worker' = [worker EXCEPT !.step = "generate",
                                                   !.section = NextSection(Loaded)]
    BY Zenon DEF LoadContext
  <2>4. LoadContext => worker'.task = worker.task
    BY <2>3 DEF TypeOK
  <2>5. BeginResume => worker'.task = worker.task
    BY DEF BeginResume, TypeOK
  <2>. QED  BY <2>1, <2>2, <2>4, <2>5
            DEF HostStep, Pipeline, BeginStart, ResetLog, AlreadyRunning, ConsumeSteer,
                ReleasePause, BeginContinue, GenerateSection, SaveText, MarkDone,
                LogCheckpoint, CheckpointAllDone, ClearPause, CheckpointPause, HostReturns
<1>5. tasks' = tasks \/ MarkDone
  BY DEF HostStep, Pipeline, BeginStart, ResetLog, AlreadyRunning, BeginResume, ConsumeSteer,
         ReleasePause, BeginContinue, LoadContext, GenerateSection, SaveText,
         LogCheckpoint, CheckpointAllDone, ClearPause, CheckpointPause, HostReturns
<1>6. /\ DOMAIN tasks' = DOMAIN tasks
      /\ \A i \in DOMAIN tasks : /\ tasks'[i].run = tasks[i].run
                                 /\ tasks'[i].op = tasks[i].op
                                 /\ tasks'[i].status = tasks[i].status
  <2>1. CASE MarkDone
    <3>1. tasks' = [tasks EXCEPT ![worker.task].commits = @ \cup {worker.section}]
      BY <2>1 DEF MarkDone
    <3>2. /\ DOMAIN tasks' = DOMAIN tasks
          /\ \A i \in DOMAIN tasks : i # worker.task => tasks'[i] = tasks[i]
      BY <3>1
    <3>3. /\ tasks'[worker.task].run = tasks[worker.task].run
          /\ tasks'[worker.task].op = tasks[worker.task].op
          /\ tasks'[worker.task].status = tasks[worker.task].status
      BY <1>2, <3>1 DEF Task, Current
    <3>. QED  BY <3>2, <3>3
  <2>. QED  BY <1>5, <2>1
<1>7. Run' = Run
  BY <1>2, <1>4, <1>6 DEF Run, Current
<1>8. \/ lifecycle' = lifecycle
      \/ \E v : lifecycle' = [lifecycle EXCEPT ![Run] = v]
  BY DEF HostStep, Pipeline, BeginStart, ResetLog, AlreadyRunning, BeginResume, ConsumeSteer,
         ReleasePause, BeginContinue, LoadContext, GenerateSection, SaveText, MarkDone,
         LogCheckpoint, CheckpointAllDone, ClearPause, CheckpointPause, HostReturns, runVars
<1>9. \A q \in Runs : q # Run => lifecycle'[q] = lifecycle[q]
  BY <1>8 DEF TypeOK
<1>10. \/ progress' = progress
       \/ \E p : progress' = [progress EXCEPT ![Dir] = p]
  BY DEF HostStep, Pipeline, BeginStart, ResetLog, AlreadyRunning, BeginResume, ConsumeSteer,
         ReleasePause, BeginContinue, LoadContext, GenerateSection, SaveText, MarkDone,
         LogCheckpoint, CheckpointAllDone, ClearPause, CheckpointPause, HostReturns, fileVars
<1>11. \/ pause' = pause
       \/ \E n : pause' = [pause EXCEPT ![Dir] = n]
  BY DEF HostStep, Pipeline, BeginStart, ResetLog, AlreadyRunning, BeginResume, ConsumeSteer,
         ReleasePause, BeginContinue, LoadContext, GenerateSection, SaveText, MarkDone,
         LogCheckpoint, CheckpointAllDone, ClearPause, CheckpointPause, HostReturns, fileVars
<1>12. \A d \in Dirs : d # Dir => progress'[d] = progress[d] /\ pause'[d] = pause[d]
  BY <1>10, <1>11 DEF TypeOK
<1>. QED  BY <1>1, <1>2, <1>3, <1>4, <1>6, <1>7, <1>9, <1>12

\* No step makes a run one that starts: the requests,
LEMMA StartingApi ==
  ASSUME TypeOK, NEW r \in Runs, ApiStart(r) \/ Steer \/ Abort
  PROVE  /\ tasks' = tasks /\ faults' = faults /\ progress' = progress /\ pause' = pause
         /\ \/ worker' = worker
            \/ /\ worker'.task = worker.task
               /\ worker.step = "load" /\ worker'.step = "return"
         /\ \A q \in Runs : session'[q] = "absent" => session[q] = "absent"
         /\ api'.step = "enqueue" /\ api'.op = "start" => session[api'.run] = "absent"
         /\ \A q \in Runs : Starting(q)' => Starting(q)
<1>1. tasks' = tasks /\ faults' = faults /\ progress' = progress /\ pause' = pause
  BY DEF ApiStart, CreateRun, ResumeRun, AddInstruction, PauseRun, CancelRun, Steer, Abort, fileVars
<1>2. \/ worker' = worker
      \/ /\ worker'.task = worker.task
         /\ worker.step = "load" /\ worker'.step = "return"
  BY AbortMoves DEF ApiStart, CreateRun, ResumeRun, AddInstruction, PauseRun, CancelRun, Steer
<1>3. \A q \in Runs : session'[q] = "absent" => session[q] = "absent"
  BY DEF TypeOK, ApiStart, CreateRun, ResumeRun, AddInstruction, PauseRun, CancelRun, Steer, Abort, runVars
<1>4. api'.step = "enqueue" /\ api'.op = "start" => session[api'.run] = "absent"
  BY DEF ApiStart, CreateRun, ResumeRun, AddInstruction, PauseRun, CancelRun, AbortTest, Steer, Abort,
         Request, ApiIdle
<1>5. \A q \in Runs : Starting(q)' => Starting(q)
  BY <1>1, <1>2, <1>3, <1>4 DEF Starting
<1>. QED  BY <1>1, <1>2, <1>3, <1>4, <1>5

\* the task that is put into the table,
LEMMA StartingPut ==
  ASSUME TypeOK, PutTask
  PROVE  /\ DOMAIN tasks' = DOMAIN tasks \cup {Len(tasks) + 1} /\ Len(tasks) + 1 \notin DOMAIN tasks
         /\ tasks'[Len(tasks) + 1].run = api.run /\ tasks'[Len(tasks) + 1].op = api.op
         /\ \A i \in DOMAIN tasks : tasks'[i] = tasks[i] /\ i < Len(tasks) + 1 /\ i \in Nat
         /\ \A q \in Runs : Starting(q)' => Starting(q)
<1>. DEFINE n == Len(tasks) + 1
            new == NewTask(api.run, api.op, api.text)
<1>1. /\ tasks \in Seq(Task) /\ tasks' = Append(tasks, new) /\ api.step = "enqueue" /\ api'.step = "idle"
      /\ session' = session /\ worker' = worker
  BY DEF TypeOK, PutTask, ApiIdle
<1>2. new.run = api.run /\ new.op = api.op
  BY DEF NewTask
<1>. HIDE DEF new
<1>3. /\ DOMAIN tasks' = DOMAIN tasks \cup {n} /\ n \notin DOMAIN tasks /\ tasks'[n] = new
      /\ \A i \in DOMAIN tasks : tasks'[i] = tasks[i] /\ i < n /\ i \in Nat
  BY <1>1
<1>. HIDE DEF n
<1>4. worker.step # "idle" => worker.task # n
  BY <1>3, AtWork
<1>5. \A q \in Runs : Starting(q)' => Starting(q)
  BY <1>1, <1>2, <1>3, <1>4 DEF Starting
<1>. QED  BY <1>2, <1>3, <1>5 DEF n

\* the host,
LEMMA StartingHost ==
  ASSUME TypeOK, HostStep
  PROVE  /\ worker'.step \notin {"idle", "begin"}
         /\ worker'.step = "checkpoint" => LogCheckpoint
         /\ \A q \in Runs : Starting(q)' => Starting(q)
<1>1. \A step : Goto(step) => worker'.step = step
  BY DEF Goto, TypeOK
<1>2. Raise => worker'.step = "settle"
  BY DEF Raise, TypeOK
<1>3. LoadContext => worker'.step \in {"return", "generate"}
  <2>1. LoadContext => \/ worker' = [worker EXCEPT !.step = "return"]
                       \/ worker' = [worker EXCEPT !.step = "generate",
                                                   !.section = NextSection(Loaded)]
    BY Zenon DEF LoadContext
  <2>. QED  BY <2>1 DEF TypeOK
<1>4. BeginResume => worker'.step \in {"settle", "consume"}
  BY DEF BeginResume, TypeOK
<1>5. /\ worker'.step \notin {"idle", "begin"}
      /\ worker'.step = "checkpoint" => LogCheckpoint
      /\ worker'.step = "reset" => worker.step = "begin"
  BY <1>1, <1>2, <1>3, <1>4
  DEF HostStep, Pipeline, BeginStart, ResetLog, AlreadyRunning, ConsumeSteer,
      ReleasePause, BeginContinue, GenerateSection, SaveText, MarkDone,
      LogCheckpoint, CheckpointAllDone, ClearPause, CheckpointPause, HostReturns
<1>6. \A q \in Runs : Starting(q)' => Starting(q)
  BY <1>5, HostAtWork DEF Starting
<1>. QED  BY <1>5, <1>6

\* taking, ending and saving a task, and failures.
LEMMA StartingRest ==
  ASSUME TypeOK,
         \/ \E i \in DOMAIN tasks : Claim(i) \/ ClaimFails(i)
         \/ TestCanceled \/ SetOutcome \/ PersistSession \/ PersistTask
         \/ StepFails \/ ReturnFails \/ PersistFails
  PROVE  /\ pause' = pause /\ progress' = progress /\ api' = api
         /\ \A r \in Runs : session'[r] = "absent" => session[r] = "absent"
         /\ DOMAIN tasks' = DOMAIN tasks
         /\ \A j \in DOMAIN tasks : /\ tasks'[j].run = tasks[j].run /\ tasks'[j].op = tasks[j].op
                                    /\ tasks'[j].status = "queued" => tasks[j].status = "queued"
         /\ \/ \E i \in DOMAIN tasks :
                 /\ Claimable(i) /\ worker'.task = i /\ worker'.step \in {"begin", "dead"}
                 /\ tasks'[i].status = "running"
            \/ worker'.task = worker.task /\ worker.step # "idle"
            \/ worker'.step = "idle"
         /\ worker'.step # "checkpoint"
         /\ \A q \in Runs : Starting(q)' => Starting(q)
<1>1. /\ pause' = pause /\ progress' = progress /\ api' = api
      /\ \A r \in Runs : session'[r] = "absent" => session[r] = "absent"
  BY DEF TypeOK, Claim, ClaimFails, TestCanceled, SetOutcome, PersistSession, PersistTask, StepFails,
         ReturnFails, PersistFails, runVars, fileVars
<1>2. ASSUME NEW i \in DOMAIN tasks, Claim(i) \/ ClaimFails(i)
      PROVE  /\ Claimable(i) /\ worker'.task = i /\ worker'.step \in {"begin", "dead"}
             /\ tasks' = [tasks EXCEPT ![i].status = "running"]
             /\ session' = session
  <2>1. CASE Claim(i)
    BY <2>1 DEF Claim, WorkerIdle
  <2>2. CASE ClaimFails(i)
    BY <2>2 DEF ClaimFails, WorkerIdle, runVars
  <2>. QED  BY <1>2, <2>1, <2>2
<1>3. ASSUME NEW i \in DOMAIN tasks, Claim(i) \/ ClaimFails(i)
      PROVE  /\ DOMAIN tasks' = DOMAIN tasks /\ tasks[i].status = "queued"
             /\ tasks'[i].status = "running"
             /\ \A j \in DOMAIN tasks : /\ tasks'[j].run = tasks[j].run /\ tasks'[j].op = tasks[j].op
                                        /\ tasks'[j].status = "queued" => tasks[j].status = "queued"
  <2>1. tasks[i] \in Task /\ tasks[i].status = "queued" /\ tasks' = [tasks EXCEPT ![i].status = "running"]
    BY <1>2, <1>3, InTable DEF Claimable
  <2>2. DOMAIN tasks' = DOMAIN tasks /\ \A j \in DOMAIN tasks : j # i => tasks'[j] = tasks[j]
    BY <2>1
  <2>3. /\ tasks'[i].run = tasks[i].run /\ tasks'[i].op = tasks[i].op
        /\ tasks'[i].status = "running"
    BY <2>1 DEF Task
  <2>. QED  BY <2>1, <2>2, <2>3
<1>4. CASE \E i \in DOMAIN tasks : Claim(i) \/ ClaimFails(i)
  <2>1. PICK i \in DOMAIN tasks : Claim(i) \/ ClaimFails(i)
    BY <1>4
  <2>2. \A q \in Runs : Starting(q)' => Starting(q)
    BY <1>1, <1>2, <1>3, <2>1 DEF Starting
  <2>. QED  BY <1>1, <1>2, <1>3, <2>1, <2>2
<1>5. CASE \/ TestCanceled \/ SetOutcome \/ PersistSession \/ PersistTask
           \/ StepFails \/ ReturnFails \/ PersistFails
  <2>. DEFINE w == worker.task
  <2>1. /\ w \in DOMAIN tasks /\ worker.step # "idle"
        /\ worker'.step \notin {"begin", "reset", "checkpoint"}
        /\ worker'.task = w \/ worker'.step = "idle"
    <3>1. worker.step # "idle"
      BY <1>5 DEF TestCanceled, SetOutcome, PersistSession, PersistTask, StepFails, ReturnFails,
                  PersistFails, HostSteps, PipelineSteps
    <3>2. \A step : Goto(step) => worker'.step = step /\ worker'.task = w
      BY DEF Goto, TypeOK
    <3>3. Raise => worker'.step = "settle" /\ worker'.task = w
      BY DEF Raise, TypeOK
    <3>4. PersistTask => worker'.step = "idle"
      BY DEF PersistTask, WorkerIdle
    <3>5. /\ worker'.step \notin {"begin", "reset", "checkpoint"}
          /\ worker'.task = w \/ worker'.step = "idle"
      BY <1>5, <3>2, <3>3, <3>4 DEF TestCanceled, SetOutcome, PersistSession, StepFails,
                                    ReturnFails, PersistFails
    <3>. QED  BY <3>1, <3>5, AtWork
  <2>2. tasks[w] \in Task
    BY <2>1, InTable
  <2>3. \/ tasks' = tasks
        \/ tasks' = [tasks EXCEPT ![w] = [tasks[w] EXCEPT !.status = Finished, !.saved = FALSE]]
        \/ tasks' = [tasks EXCEPT ![w].saved = TRUE]
    BY <1>5, <2>1 DEF TestCanceled, SetOutcome, PersistSession, PersistTask, SetStatus, StepFails,
                      ReturnFails, PersistFails
  <2>4. DOMAIN tasks' = DOMAIN tasks /\ \A j \in DOMAIN tasks : j # w => tasks'[j] = tasks[j]
    BY <2>3
  <2>5. /\ tasks'[w].run = tasks[w].run /\ tasks'[w].op = tasks[w].op
        /\ tasks'[w].status = tasks[w].status \/ tasks'[w].status \in {"completed", "failed"}
    <3>1. CASE tasks' = tasks
      BY <3>1
    <3>2. CASE tasks' = [tasks EXCEPT ![w] = [tasks[w] EXCEPT !.status = Finished, !.saved = FALSE]]
      BY <2>1, <2>2, <3>2 DEF Task, Finished
    <3>3. CASE tasks' = [tasks EXCEPT ![w].saved = TRUE]
      BY <2>1, <2>2, <3>3 DEF Task
    <3>. QED  BY <2>3, <3>1, <3>2, <3>3
  <2>. HIDE DEF w
  <2>6. \A j \in DOMAIN tasks : /\ tasks'[j].run = tasks[j].run /\ tasks'[j].op = tasks[j].op
                                /\ tasks'[j].status = "queued" => tasks[j].status = "queued"
    BY <2>4, <2>5
  <2>7. \A q \in Runs : Starting(q)' => Starting(q)
    BY <1>1, <2>1, <2>4, <2>6 DEF Starting
  <2>. QED  BY <1>1, <2>1, <2>4, <2>6, <2>7 DEF w
<1>. QED  BY <1>4, <1>5

\* A step that takes no task, puts none into the table and makes no run start.
LEMMA FirstStill ==
  ASSUME FirstInv, DOMAIN tasks' = DOMAIN tasks,
         \A j \in DOMAIN tasks : /\ tasks'[j].run = tasks[j].run /\ tasks'[j].op = tasks[j].op
                                 /\ tasks'[j].status = "queued" => tasks[j].status = "queued",
         worker'.step # "idle" => worker.step # "idle" /\ worker'.task = worker.task,
         \A r \in Runs : session'[r] = "absent" => session[r] = "absent",
         \/ api' = api
         \/ api'.step = "enqueue" /\ api'.op = "start" => session[api'.run] = "absent",
         \A r \in Runs : Starting(r)' => lifecycle'[r] # "completed"
  PROVE  FirstInv'
<1>1. ASSUME NEW r \in Runs,
             session'[r] = "absent" \/ (api'.step = "enqueue" /\ api'.op = "start" /\ api'.run = r)
      PROVE  \A i \in DOMAIN tasks' : tasks'[i].run # r
  <2>1. \A i \in DOMAIN tasks : tasks[i].run # r
    BY <1>1 DEF FirstInv
  <2>. QED  BY <2>1
<1>2. \A i, j \in DOMAIN tasks' :
        tasks'[i].run = tasks'[j].run /\ tasks'[i].op = "start" => i <= j
  BY DEF FirstInv
<1>3. worker'.step # "idle" =>
        \A i \in DOMAIN tasks' : tasks'[i].status = "queued" => worker'.task < i
  BY DEF FirstInv
<1>. QED  BY <1>1, <1>2, <1>3 DEF FirstInv

\* What the host of the executed task completes is not about to start.
LEMMA ReturnStarts ==
  ASSUME TypeOK, TableInv, FirstInv, worker.step = "return"
  PROVE  ~Starting(Run)
<1>. DEFINE w == worker.task
<1>1. w \in DOMAIN tasks /\ Run = tasks[w].run /\ Run \in Runs
  BY AtWork DEF Run, Current
<1>2. session[Run] # "absent"
  BY <1>1 DEF TableInv, SessionInv
<1>3. ~(api.step = "enqueue" /\ api.op = "start" /\ api.run = Run)
  BY <1>1 DEF FirstInv
<1>4. ASSUME NEW i \in DOMAIN tasks, tasks[i].run = Run, tasks[i].op = "start",
             tasks[i].status = "queued"
      PROVE  FALSE
  <2>1. i <= w /\ w < i
    BY <1>1, <1>4 DEF FirstInv
  <2>2. i \in Nat /\ w \in Nat
    BY <1>1, LenProperties DEF TypeOK
  <2>. QED  BY <2>1, <2>2
<1>. QED  BY <1>2, <1>3, <1>4 DEF Starting

LEMMA FirstKeeps ==
  ASSUME TypeOK, TableInv, FirstInv, [Next]_vars
  PROVE  FirstInv'
<1>1. ASSUME NEW r \in Runs, ApiStart(r) \/ Steer \/ Abort PROVE FirstInv'
  <2>1. \A q \in Runs : lifecycle'[q] = lifecycle[q] \/ lifecycle'[q] = "paused"
    BY <1>1 DEF TypeOK, ApiStart, CreateRun, ResumeRun, AddInstruction, PauseRun, CancelRun,
                Steer, Abort, runVars
  <2>2. \A q \in Runs : Starting(q)' => lifecycle'[q] # "completed"
    BY <1>1, <2>1, StartingApi DEF FirstInv
  <2>. QED  BY <1>1, <2>2, StartingApi, FirstStill
<1>2. CASE Steer \/ Abort
  <2>1. api.run \in Runs
    BY <1>2 DEF TypeOK, Steer, Abort
  <2>. QED  BY <1>1, <1>2, <2>1
<1>3. CASE PutTask
  <2>. DEFINE n == Len(tasks) + 1
  <2>1. /\ DOMAIN tasks' = DOMAIN tasks \cup {n} /\ n \notin DOMAIN tasks /\ n \in Nat
        /\ tasks'[n].run = api.run /\ tasks'[n].op = api.op
        /\ \A i \in DOMAIN tasks : tasks'[i] = tasks[i] /\ i < n /\ i \in Nat
        /\ \A q \in Runs : Starting(q)' => Starting(q)
    BY <1>3, StartingPut, LenProperties DEF TypeOK
  <2>2. /\ session' = session /\ worker' = worker /\ lifecycle' = lifecycle
        /\ api.step = "enqueue" /\ api'.step = "idle" /\ api.run \in Runs
    BY <1>3 DEF PutTask, ApiIdle, TypeOK
  <2>. HIDE DEF n
  <2>3. session[api.run] # "absent"
    BY <2>2 DEF TableInv, SessionInv
  <2>4. \A r \in Runs : session'[r] = "absent" => \A i \in DOMAIN tasks' : tasks'[i].run # r
    BY <2>1, <2>2, <2>3 DEF FirstInv
  <2>5. ASSUME NEW i \in DOMAIN tasks', NEW j \in DOMAIN tasks',
               tasks'[i].run = tasks'[j].run, tasks'[i].op = "start"
        PROVE  i <= j
    <3>1. CASE i = n
      <4>1. \A k \in DOMAIN tasks : tasks[k].run # api.run
        BY <2>1, <2>2, <2>5, <3>1 DEF FirstInv
      <4>. QED  BY <2>1, <2>5, <3>1, <4>1
    <3>2. CASE i # n /\ j = n
      BY <2>1, <3>2
    <3>3. CASE i # n /\ j # n
      BY <2>1, <2>5, <3>3 DEF FirstInv
    <3>. QED  BY <3>1, <3>2, <3>3
  <2>6. worker'.step # "idle" =>
          \A i \in DOMAIN tasks' : tasks'[i].status = "queued" => worker'.task < i
    <3>1. worker.step # "idle" => worker.task \in DOMAIN tasks
      BY AtWork
    <3>. QED  BY <2>1, <2>2, <3>1 DEF FirstInv
  <2>7. \A r \in Runs : Starting(r)' => lifecycle'[r] # "completed"
    BY <2>1, <2>2 DEF FirstInv
  <2>. QED  BY <2>2, <2>4, <2>5, <2>6, <2>7 DEF FirstInv
<1>4. CASE HostStep
  <2>1. /\ worker.step # "idle" /\ worker'.task = worker.task /\ api' = api /\ session' = session
        /\ Run \in Runs /\ DOMAIN tasks' = DOMAIN tasks
        /\ \A j \in DOMAIN tasks : /\ tasks'[j].run = tasks[j].run /\ tasks'[j].op = tasks[j].op
                                   /\ tasks'[j].status = "queued" => tasks[j].status = "queued"
        /\ \A q \in Runs : q # Run => lifecycle'[q] = lifecycle[q]
        /\ \A q \in Runs : Starting(q)' => Starting(q)
    BY <1>4, HostAtWork, StartingHost
  <2>2. lifecycle'[Run] \in {lifecycle[Run], "running"} \/ worker.step = "return"
    BY <1>4, <2>1
    DEF TypeOK, HostStep, Pipeline, BeginStart, ResetLog, AlreadyRunning, BeginResume, ConsumeSteer,
        ReleasePause, BeginContinue, LoadContext, GenerateSection, SaveText, MarkDone,
        LogCheckpoint, CheckpointAllDone, ClearPause, CheckpointPause, HostReturns, runVars
  <2>3. \A r \in Runs : Starting(r)' => lifecycle'[r] # "completed"
    BY <2>1, <2>2, ReturnStarts DEF FirstInv
  <2>. QED  BY <2>1, <2>3, FirstStill
<1>5. CASE \/ \E i \in DOMAIN tasks : Claim(i) \/ ClaimFails(i)
           \/ TestCanceled \/ SetOutcome \/ PersistSession \/ PersistTask
           \/ StepFails \/ ReturnFails \/ PersistFails
  <2>1. \A r \in Runs : Starting(r)' => lifecycle'[r] # "completed"
    <3>1. CASE ReturnFails
      <4>1. worker.step = "return" /\ Run \in Runs
        BY <3>1, AtWork DEF ReturnFails
      <4>2. \A q \in Runs : q # Run => lifecycle'[q] = lifecycle[q]
        BY <3>1 DEF ReturnFails, TypeOK
      <4>. QED  BY <1>5, <4>1, <4>2, ReturnStarts, StartingRest DEF FirstInv
    <3>2. CASE lifecycle' = lifecycle
      BY <1>5, <3>2, StartingRest DEF FirstInv
    <3>. QED  BY <1>5, <3>1, <3>2 DEF Claim, ClaimFails, TestCanceled, SetOutcome, PersistSession,
                                      PersistTask, StepFails, PersistFails, runVars
  <2>2. CASE worker'.step = "idle" \/ (worker'.task = worker.task /\ worker.step # "idle")
    BY <1>5, <2>1, <2>2, StartingRest, FirstStill
  <2>3. ASSUME NEW i \in DOMAIN tasks, Claimable(i), worker'.task = i, tasks'[i].status = "running"
        PROVE  FirstInv'
    <3>1. i \in Nat /\ DOMAIN tasks = 1..Len(tasks) /\ Len(tasks) \in Nat
      BY LenProperties DEF TypeOK
    <3>2. \A j \in DOMAIN tasks : tasks[j].status = "queued" => i <= j
      BY <2>3, <3>1 DEF Claimable
    <3>3. \A j \in DOMAIN tasks' : tasks'[j].status = "queued" => worker'.task < j
      BY <1>5, <2>3, <3>1, <3>2, StartingRest
    <3>4. \A r \in Runs :
            session'[r] = "absent" \/ (api'.step = "enqueue" /\ api'.op = "start" /\ api'.run = r)
              => \A j \in DOMAIN tasks' : tasks'[j].run # r
      BY <1>5, StartingRest DEF FirstInv
    <3>5. \A j, k \in DOMAIN tasks' :
            tasks'[j].run = tasks'[k].run /\ tasks'[j].op = "start" => j <= k
      BY <1>5, StartingRest DEF FirstInv
    <3>. QED  BY <2>1, <3>3, <3>4, <3>5 DEF FirstInv
  <2>. QED  BY <1>5, <2>2, <2>3, StartingRest
<1>6. CASE Restart
  <2>1. /\ worker'.step = "idle" /\ api'.step = "idle" /\ session' = row
        /\ lifecycle' = [r \in Runs |-> "idle"]
        /\ tasks' = [i \in DOMAIN tasks |-> Restore(tasks[i])]
    BY <1>6 DEF Restart, ApiIdle, WorkerIdle
  <2>2. DOMAIN tasks' = DOMAIN tasks
    BY <2>1
  <2>3. \A i \in DOMAIN tasks : tasks'[i].run = tasks[i].run /\ tasks'[i].op = tasks[i].op
    BY <2>1, InTable DEF Restore, Task
  <2>4. \A r \in Runs : session'[r] = "absent" => \A i \in DOMAIN tasks' : tasks'[i].run # r
    BY <2>1, <2>2, <2>3 DEF TableInv, SessionInv, FirstInv
  <2>5. \A i, j \in DOMAIN tasks' :
          tasks'[i].run = tasks'[j].run /\ tasks'[i].op = "start" => i <= j
    BY <2>2, <2>3 DEF FirstInv
  <2>. QED  BY <2>1, <2>4, <2>5 DEF FirstInv
<1>7. CASE UNCHANGED vars
  <2>1. \A r : Starting(r)' <=> Starting(r)
    BY <1>7 DEF vars, Starting
  <2>. QED  BY <1>7, <2>1 DEF vars, FirstInv
<1>. QED  BY <1>1, <1>2, <1>3, <1>4, <1>5, <1>6, <1>7
          DEF Next, ApiStep, WorkerStep, BookkeepingFails

\* A run starts once, before anything else is done for it.
THEOREM FirstInvariant == Spec => []FirstInv
<1>1. Init => FirstInv
  BY DEF Init, FirstInv, ApiIdle, WorkerIdle
<1>2. TypeOK /\ TableInv /\ FirstInv /\ [Next]_vars => FirstInv'
  BY FirstKeeps
<1>. QED  BY TypeCorrect, TableInvariant, <1>1, <1>2, PTL DEF Spec

\* A run stays busy while no task of it ends.
LEMMA BusyStays ==
  ASSUME \A i \in DOMAIN tasks : /\ i \in DOMAIN tasks' /\ tasks'[i].run = tasks[i].run
                                 /\ Active(tasks[i]) => Active(tasks'[i])
  PROVE  \A r : Busy(r) => Busy(r)'
BY DEF Busy

\* The requests.
LEMMA HostApi ==
  ASSUME TypeOK, HostInv, NEW r \in Runs, ApiStart(r) \/ Steer \/ Abort
  PROVE  HostInv'
<1>1. /\ tasks' = tasks /\ progress' = progress /\ Run' = Run
      /\ worker' = worker \/ (worker.step = "load" /\ worker'.step = "return")
  BY StartingApi DEF Run, Current
<1>2. \A q \in Runs : lifecycle'[q] = lifecycle[q] \/ lifecycle'[q] = "paused"
  BY DEF TypeOK, ApiStart, CreateRun, ResumeRun, AddInstruction, PauseRun, CancelRun, Steer,
         Abort, runVars
<1>3. api.step # "enqueue"
  BY DEF ApiStart, CreateRun, ResumeRun, AddInstruction, PauseRun, CancelRun, Steer, Abort, ApiIdle
<1>. DEFINE Told(q) == \/ session'[q] = session[q] \/ session'[q] = "canceled"
                       \/ api'.step = "enqueue" /\ api'.run = q
<1>4. ASSUME NEW q \in Runs PROVE Told(q)
  <2>1. ASSUME NEW n, CreateRun(r, n) PROVE Told(q)
    BY <2>1 DEF CreateRun, Request, TypeOK
  <2>2. ASSUME NEW text, ResumeRun(r, text) PROVE Told(q)
    BY <2>2 DEF ResumeRun, Request, TypeOK
  <2>3. CASE CancelRun(r)
    BY <2>3 DEF CancelRun, TypeOK
  <2>4. CASE session' = session
    BY <2>4
  <2>. QED  BY <2>1, <2>2, <2>3, <2>4
            DEF ApiStart, AddInstruction, PauseRun, Steer, Abort, runVars
<1>5. \A q : Busy(q)' <=> Busy(q)
  BY <1>1 DEF Busy
<1>6. \A q \in Runs : lifecycle'[q] = "running" =>
        Busy(q)' \/ session'[q] \in {"failed", "canceled"} \/ (api'.step = "enqueue" /\ api'.run = q)
  BY <1>2, <1>3, <1>4, <1>5 DEF HostInv
<1>7. worker.step # "idle" => Run \in Runs
  BY AtWork
<1>8. /\ worker'.step \in {"settle", "outcome"} /\ worker'.ok => lifecycle'[Run'] # "running"
      /\ worker'.step \in PipelineSteps \cup {"return"} => lifecycle'[Run'] \in {"running", "paused"}
  <2>1. CASE worker' = worker
    BY <1>1, <1>2, <1>7, <2>1 DEF HostInv, PipelineSteps
  <2>2. CASE worker.step = "load" /\ worker'.step = "return"
    <3>1. lifecycle[Run] \in {"running", "paused"} /\ Run \in Runs
      BY <1>7, <2>2 DEF HostInv, PipelineSteps
    <3>. QED  BY <1>1, <1>2, <2>2, <3>1
  <2>. QED  BY <1>1, <2>1, <2>2
<1>9. \A q \in Runs : Alone(q) /\ lifecycle'[q] = "completed" => progress'[DirOf[q]].phase = "complete"
  BY <1>1, <1>2 DEF HostInv
<1>. QED  BY <1>6, <1>8, <1>9 DEF HostInv, Alone

LEMMA HostPut ==
  ASSUME TypeOK, HostInv, PutTask
  PROVE  HostInv'
<1>. DEFINE n == Len(tasks) + 1
            new == NewTask(api.run, api.op, api.text)
<1>1. /\ tasks \in Seq(Task) /\ api.run \in Runs /\ tasks' = Append(tasks, new)
      /\ lifecycle' = lifecycle /\ session' = session /\ worker' = worker /\ progress' = progress
  BY DEF TypeOK, PutTask, fileVars
<1>2. new.run = api.run /\ new.status = "queued"
  BY DEF NewTask
<1>. HIDE DEF new
<1>3. /\ DOMAIN tasks' = DOMAIN tasks \cup {n} /\ tasks'[n] = new
      /\ \A i \in DOMAIN tasks : tasks'[i] = tasks[i]
  BY <1>1
<1>. HIDE DEF n
<1>4. \A r : Busy(r) => Busy(r)'
  BY <1>3 DEF Busy, Active
<1>5. \A q : q = api.run => Busy(q)'
  BY <1>2, <1>3 DEF Busy, Active
<1>6. worker.step # "idle" => Run' = Run
  BY <1>1, <1>3, AtWork DEF Run, Current
<1>7. \A q \in Runs : lifecycle'[q] = "running" => Busy(q)' \/ session'[q] \in {"failed", "canceled"}
  BY <1>1, <1>4, <1>5 DEF HostInv
<1>. QED  BY <1>1, <1>6, <1>7 DEF HostInv, Alone, PipelineSteps

\* The host itself.
LEMMA HostHost ==
  ASSUME TypeOK, TableInv, FirstInv, HostInv, HostStep
  PROVE  HostInv'
<1>1. /\ worker.step \notin {"idle", "settle", "outcome", "row", "task", "dead"}
      /\ Run \in Runs /\ Dir \in Dirs /\ Run' = Run /\ DirOf[Run] = Dir
      /\ api' = api /\ session' = session
      /\ \A q \in Runs : q # Run => lifecycle'[q] = lifecycle[q]
      /\ \A d \in Dirs : d # Dir => progress'[d] = progress[d]
  BY HostAtWork DEF Dir
<1>2. \A i \in DOMAIN tasks : /\ i \in DOMAIN tasks' /\ tasks'[i].run = tasks[i].run
                              /\ Active(tasks[i]) => Active(tasks'[i])
  BY HostAtWork DEF Active
<1>3. \A q : Busy(q) => Busy(q)'
  BY <1>2, BusyStays
<1>4. Busy(Run)
  <2>1. worker.task \in DOMAIN tasks /\ Active(tasks[worker.task])
    BY <1>1, AtWork DEF TableInv, EndInv, Active
  <2>. QED  BY <2>1 DEF Busy, Run, Current
<1>5. \A q \in Runs : lifecycle'[q] = "running" =>
        Busy(q)' \/ session'[q] \in {"failed", "canceled"} \/ (api'.step = "enqueue" /\ api'.run = q)
  BY <1>1, <1>3, <1>4 DEF HostInv
<1>6. \A step : Goto(step) => worker'.step = step
  BY DEF Goto, TypeOK
<1>7. Raise => worker'.step = "settle" /\ worker'.ok = FALSE
  BY DEF Raise, TypeOK
<1>. DEFINE Good == /\ worker'.step \in {"settle", "outcome"} /\ worker'.ok => lifecycle'[Run] # "running"
                    /\ worker'.step \in PipelineSteps \cup {"return"} => lifecycle'[Run] \in {"running", "paused"}
                    /\ \/ lifecycle'[Run] # "completed"
                       \/ progress' = progress /\ lifecycle' = lifecycle
                       \/ progress' = progress /\ progress[Dir].phase = "complete"
<1>14. ASSUME BeginStart PROVE Good
  <2>1. lifecycle' = lifecycle /\ worker'.step = "reset"
    BY <1>6, <1>14 DEF BeginStart, runVars
  <2>2. Starting(Run)
    BY <1>1, <1>14, AtWork DEF Starting, BeginStart, Run, Current
  <2>3. lifecycle[Run] # "completed"
    BY <1>1, <2>2 DEF FirstInv
  <2>. QED  BY <2>1, <2>3 DEF PipelineSteps
<1>8. ASSUME ResetLog \/ ReleasePause \/ BeginContinue PROVE Good
  <2>1. lifecycle' = [lifecycle EXCEPT ![Run] = "running"] /\ worker'.step = "load"
    BY <1>6, <1>8 DEF ResetLog, ReleasePause, BeginContinue
  <2>2. lifecycle'[Run] = "running"
    BY <1>1, <2>1 DEF TypeOK
  <2>. QED  BY <2>1, <2>2
<1>9. ASSUME AlreadyRunning \/ BeginResume \/ ConsumeSteer PROVE Good
  <2>1. lifecycle' = lifecycle /\ progress' = progress
    BY <1>9 DEF AlreadyRunning, BeginResume, ConsumeSteer, runVars, fileVars
  <2>2. CASE AlreadyRunning
    BY <1>7, <2>1, <2>2 DEF AlreadyRunning, PipelineSteps
  <2>3. CASE ConsumeSteer
    BY <1>6, <2>1, <2>3 DEF ConsumeSteer, PipelineSteps
  <2>4. CASE BeginResume
    <3>1. worker'.step \in {"settle", "consume"} /\ lifecycle[Run] # "running"
      BY <2>4 DEF BeginResume, TypeOK
    <3>. QED  BY <2>1, <3>1 DEF PipelineSteps
  <2>. QED  BY <1>9, <2>2, <2>3, <2>4
<1>10. ASSUME Pipeline PROVE Good
  <2>1. lifecycle' = lifecycle /\ worker.step \in PipelineSteps
    BY <1>10 DEF Pipeline, LoadContext, GenerateSection, SaveText, MarkDone, LogCheckpoint,
              CheckpointAllDone, ClearPause, CheckpointPause, runVars, PipelineSteps
  <2>2. lifecycle[Run] \in {"running", "paused"}
    BY <2>1 DEF HostInv
  <2>3. worker'.step \notin {"settle", "outcome"}
    <3>1. LoadContext => \/ worker' = [worker EXCEPT !.step = "return"]
                         \/ worker' = [worker EXCEPT !.step = "generate",
                                                     !.section = NextSection(Loaded)]
      BY Zenon DEF LoadContext
    <3>2. LoadContext => worker'.step \in {"return", "generate"}
      BY <3>1 DEF TypeOK
    <3>. QED  BY <1>6, <1>10, <3>2
              DEF Pipeline, GenerateSection, SaveText, MarkDone, LogCheckpoint,
                  CheckpointAllDone, ClearPause, CheckpointPause
  <2>. QED  BY <2>1, <2>2, <2>3
<1>11. ASSUME HostReturns PROVE Good
  <2>1. /\ worker'.step = "settle" /\ progress' = progress
        /\ lifecycle' = [lifecycle EXCEPT ![Run] = Marked(Dir)]
    BY <1>6, <1>11 DEF HostReturns, fileVars
  <2>2. lifecycle'[Run] = Marked(Dir)
    BY <1>1, <2>1 DEF TypeOK
  <2>. QED  BY <2>1, <2>2 DEF PipelineSteps, Marked
<1>12. Good
  BY <1>8, <1>9, <1>10, <1>11, <1>14 DEF HostStep
<1>13. \A q \in Runs : Alone(q) /\ lifecycle'[q] = "completed" => progress'[DirOf[q]].phase = "complete"
  <2>1. ASSUME NEW q \in Runs, Alone(q), lifecycle'[q] = "completed"
        PROVE  progress'[DirOf[q]].phase = "complete"
    <3>1. CASE q = Run
      BY <1>1, <1>12, <2>1, <3>1 DEF HostInv
    <3>2. CASE q # Run
      <4>1. DirOf[q] # Dir /\ DirOf[q] \in Dirs
        BY <1>1, <2>1, <3>2, DirOfAssumption DEF Alone
      <4>. QED  BY <1>1, <2>1, <3>2, <4>1 DEF HostInv
    <3>. QED  BY <3>1, <3>2
  <2>. QED  BY <2>1
<1>. QED  BY <1>1, <1>5, <1>12, <1>13 DEF HostInv, Alone

\* The outcome of a task: the host of a task that went well has stopped.
LEMMA HostEnds ==
  ASSUME TypeOK, HostInv, TestCanceled \/ SetOutcome
  PROVE  HostInv'
<1>. DEFINE w == worker.task
<1>1. /\ w \in DOMAIN tasks /\ worker.step \in {"settle", "outcome"} /\ Run \in Runs /\ Run = tasks[w].run
      /\ api' = api /\ lifecycle' = lifecycle /\ progress' = progress
      /\ worker'.task = w /\ worker'.ok = worker.ok
  <2>1. worker.step \in {"settle", "outcome"}
    BY DEF TestCanceled, SetOutcome
  <2>2. api' = api /\ lifecycle' = lifecycle /\ progress' = progress
    BY DEF TestCanceled, SetOutcome, runVars, fileVars
  <2>3. worker'.task = w /\ worker'.ok = worker.ok
    BY DEF TestCanceled, SetOutcome, Goto, TypeOK
  <2>4. w \in DOMAIN tasks
    BY <2>1 DEF TypeOK
  <2>5. Run \in Runs /\ Run = tasks[w].run
    BY <2>4, InTable DEF Run, Current
  <2>. QED  BY <2>1, <2>2, <2>3, <2>4, <2>5
<1>2. CASE tasks' = tasks /\ session' = session /\ worker'.step = "outcome" /\ worker.step = "settle"
  <2>1. Run' = Run /\ \A q : Busy(q)' <=> Busy(q)
    BY <1>1, <1>2 DEF Run, Current, Busy
  <2>. QED  BY <1>1, <1>2, <2>1 DEF HostInv, Alone, PipelineSteps
<1>3. CASE SetStatus /\ worker'.step = "row"
  <2>1. tasks' = [tasks EXCEPT ![w] = [tasks[w] EXCEPT !.status = Finished, !.saved = FALSE]]
    BY <1>1, <1>3 DEF SetStatus
  <2>2. DOMAIN tasks' = DOMAIN tasks /\ \A j \in DOMAIN tasks : j # w => tasks'[j] = tasks[j]
    BY <2>1
  <2>3. \A q : q # Run /\ Busy(q) => Busy(q)'
    BY <1>1, <2>2 DEF Busy, Active
  <2>4. \A q \in Runs : q # Run => session'[q] = session[q]
    BY <1>1 DEF TestCanceled, SetOutcome, TypeOK, runVars
  <2>5. lifecycle[Run] = "running" => session'[Run] \in {"failed", "canceled"}
    <3>1. CASE TestCanceled
      <4>1. session' = session /\ (session[Run] = "canceled" \/ worker'.step = "outcome")
        BY <3>1 DEF TestCanceled, runVars, Goto, TypeOK
      <4>. QED  BY <1>3, <4>1
    <3>2. CASE SetOutcome
      <4>1. session' = [session EXCEPT ![Run] = IF worker.ok THEN "none" ELSE "failed"]
        BY <3>2 DEF SetOutcome
      <4>2. session'[Run] = IF worker.ok THEN "none" ELSE "failed"
        BY <1>1, <4>1 DEF TypeOK
      <4>3. worker.ok => lifecycle[Run] # "running"
        BY <1>1 DEF HostInv
      <4>. QED  BY <4>2, <4>3
    <3>. QED  BY <3>1, <3>2
  <2>6. \A q \in Runs : lifecycle'[q] = "running" =>
          Busy(q)' \/ session'[q] \in {"failed", "canceled"} \/ (api'.step = "enqueue" /\ api'.run = q)
    BY <1>1, <2>3, <2>4, <2>5 DEF HostInv
  <2>. QED  BY <1>1, <1>3, <2>6 DEF HostInv, Alone, PipelineSteps
<1>4. \/ tasks' = tasks /\ session' = session /\ worker'.step = "outcome" /\ worker.step = "settle"
      \/ SetStatus /\ worker'.step = "row"
  BY DEF TypeOK, TestCanceled, SetOutcome, Goto, runVars
<1>. QED  BY <1>2, <1>3, <1>4

\* The worker takes a task, saves what has ended, or stops; nothing happens.
LEMMA HostRest ==
  ASSUME TypeOK, TableInv, HostInv,
         \/ \E i \in DOMAIN tasks : Claim(i)
         \/ PersistSession \/ PersistTask \/ StepFails \/ ReturnFails
         \/ BookkeepingFails \/ Restart \/ UNCHANGED vars
  PROVE  HostInv'
<1>1. CASE Restart
  BY <1>1 DEF Restart, WorkerIdle, HostInv, PipelineSteps
<1>2. CASE UNCHANGED vars
  <2>1. \A q : Busy(q)' <=> Busy(q)
    BY <1>2 DEF vars, Busy
  <2>. QED  BY <1>2, <2>1 DEF vars, HostInv, Alone, Run, Current
<1>3. CASE \/ \E i \in DOMAIN tasks : Claim(i) \/ ClaimFails(i)
           \/ PersistSession \/ PersistTask \/ StepFails \/ PersistFails
  <2>1. /\ session' = session /\ lifecycle' = lifecycle /\ api' = api /\ progress' = progress
    BY <1>3 DEF Claim, ClaimFails, PersistSession, PersistTask, StepFails, PersistFails,
                runVars, fileVars
  <2>2. /\ worker'.step \in {"begin", "task", "idle", "settle", "dead"}
        /\ worker'.step = "settle" => worker'.ok = FALSE
    <3>1. Raise => worker'.step = "settle" /\ worker'.ok = FALSE
      BY DEF Raise, TypeOK
    <3>2. PersistSession \/ PersistFails => worker'.step \in {"task", "dead"}
      BY DEF PersistSession, PersistFails, Goto, TypeOK
    <3>3. ASSUME NEW i \in DOMAIN tasks, Claim(i) \/ ClaimFails(i)
          PROVE  worker'.step \in {"begin", "dead"}
      BY <3>3 DEF Claim, ClaimFails, WorkerIdle
    <3>4. PersistTask => worker'.step = "idle"
      BY DEF PersistTask, WorkerIdle
    <3>. QED  BY <1>3, <3>1, <3>2, <3>3, <3>4 DEF StepFails
  <2>3. \A q : Busy(q) => Busy(q)'
    <3>1. CASE PersistSession \/ StepFails \/ PersistFails
      BY <3>1 DEF PersistSession, StepFails, PersistFails, Busy
    <3>2. ASSUME NEW i \in DOMAIN tasks, Claim(i) \/ ClaimFails(i)
          PROVE  \A j \in DOMAIN tasks : /\ j \in DOMAIN tasks' /\ tasks'[j].run = tasks[j].run
                                         /\ Active(tasks[j]) => Active(tasks'[j])
      <4>1. tasks' = [tasks EXCEPT ![i].status = "running"]
        BY <3>2 DEF Claim, ClaimFails
      <4>2. DOMAIN tasks' = DOMAIN tasks /\ \A j \in DOMAIN tasks : j # i => tasks'[j] = tasks[j]
        BY <4>1
      <4>3. tasks'[i].run = tasks[i].run /\ tasks'[i].status = "running"
        BY <4>1, InTable DEF Task
      <4>. QED  BY <4>2, <4>3 DEF Active
    <3>3. ASSUME PersistTask
          PROVE  \A j \in DOMAIN tasks : /\ j \in DOMAIN tasks' /\ tasks'[j].run = tasks[j].run
                                         /\ Active(tasks[j]) => Active(tasks'[j])
      <4>. DEFINE w == worker.task
      <4>1. tasks' = [tasks EXCEPT ![w].saved = TRUE] /\ w \in DOMAIN tasks
        BY <3>3 DEF PersistTask, TypeOK
      <4>2. tasks[w] \in Task
        BY <4>1, InTable
      <4>3. DOMAIN tasks' = DOMAIN tasks /\ \A j \in DOMAIN tasks : j # w => tasks'[j] = tasks[j]
        BY <4>1
      <4>4. tasks'[w].run = tasks[w].run /\ tasks'[w].status = tasks[w].status
        BY <4>1, <4>2 DEF Task
      <4>. QED  BY <4>3, <4>4 DEF Active
    <3>. QED  BY <1>3, <3>1, <3>2, <3>3, BusyStays
  <2>4. \A q \in Runs : lifecycle'[q] = "running" =>
          Busy(q)' \/ session'[q] \in {"failed", "canceled"} \/ (api'.step = "enqueue" /\ api'.run = q)
    BY <2>1, <2>3 DEF HostInv
  <2>. QED  BY <2>1, <2>2, <2>4 DEF HostInv, Alone, PipelineSteps
<1>4. CASE ReturnFails
  <2>1. /\ worker.step = "return" /\ Run \in Runs /\ Dir \in Dirs /\ DirOf[Run] = Dir
        /\ session' = session /\ api' = api /\ progress' = progress /\ tasks' = tasks
        /\ lifecycle' = [lifecycle EXCEPT ![Run] = Marked(Dir)]
    BY <1>4, AtWork DEF ReturnFails, fileVars, Dir
  <2>2. worker'.step = "settle" /\ worker'.ok = FALSE
    BY <1>4 DEF ReturnFails, Raise, TypeOK
  <2>3. \A q \in Runs : lifecycle'[q] = IF q = Run THEN Marked(Dir) ELSE lifecycle[q]
    BY <2>1 DEF TypeOK
  <2>4. /\ Marked(Dir) # "running"
        /\ Marked(Dir) = "completed" => progress[Dir].phase = "complete"
    BY DEF Marked
  <2>5. \A q : Busy(q)' <=> Busy(q)
    BY <2>1 DEF Busy
  <2>6. \A q \in Runs : lifecycle'[q] = "running" =>
          Busy(q)' \/ session'[q] \in {"failed", "canceled"} \/ (api'.step = "enqueue" /\ api'.run = q)
    BY <2>1, <2>3, <2>4, <2>5 DEF HostInv
  <2>7. \A q \in Runs : Alone(q) /\ lifecycle'[q] = "completed" => progress'[DirOf[q]].phase = "complete"
    BY <2>1, <2>3, <2>4 DEF HostInv
  <2>. QED  BY <2>2, <2>6, <2>7 DEF HostInv, Alone, PipelineSteps
<1>. QED  BY <1>1, <1>2, <1>3, <1>4 DEF BookkeepingFails

LEMMA HostKeeps ==
  ASSUME TypeOK, TableInv, FirstInv, HostInv, [Next]_vars
  PROVE  HostInv'
<1>1. ASSUME NEW r \in Runs, ApiStart(r) PROVE HostInv'
  BY <1>1, HostApi
<1>2. CASE Steer \/ Abort
  <2>1. api.run \in Runs
    BY <1>2 DEF TypeOK, Steer, Abort
  <2>. QED  BY <1>2, <2>1, HostApi
<1>. QED  BY <1>1, <1>2, HostPut, HostHost, HostEnds, HostRest
          DEF Next, ApiStep, WorkerStep

\* A step that starts no run and leaves no section and no pause behind.
LEMMA WaitStill ==
  ASSUME WaitInv,
         worker'.step = "checkpoint" => worker'.section \in Done(Dir)',
         \A r \in Runs : session'[r] = "absent" => session[r] = "absent",
         faults' = 0 => faults = 0,
         \A r \in Runs : faults' = 0 /\ Starting(r)' => Starting(r),
         \A r \in Runs : Alone(r) =>
            /\ pause'[DirOf[r]] \in {pause[DirOf[r]], 0}
            /\ faults' = 0 => pause[DirOf[r]] = 0 \/ Done(DirOf[r]) \subseteq Done(DirOf[r])'
  PROVE  WaitInv'
<1>1. ASSUME NEW r \in Runs, Alone(r)
      PROVE  /\ session'[r] = "absent" => pause'[DirOf[r]] = 0
             /\ faults' = 0 /\ Starting(r)' => pause'[DirOf[r]] = 0
             /\ faults' = 0 /\ pause'[DirOf[r]] # 0 => pause'[DirOf[r]] \in Done(DirOf[r])'
  BY <1>1 DEF WaitInv
<1>. QED  BY <1>1 DEF WaitInv, Alone

\* The requests.
LEMMA WaitApi ==
  ASSUME TypeOK, WaitInv, NEW r \in Runs, ApiStart(r) \/ Steer \/ Abort
  PROVE  WaitInv'
<1>1. \A d : Done(d)' = Done(d)
  BY StartingApi DEF Done
<1>2. worker'.step = "checkpoint" => worker' = worker /\ Dir' = Dir
  BY StartingApi DEF Dir, Run, Current
<1>3. worker'.step = "checkpoint" => worker'.section \in Done(Dir)'
  <2>1. progress' = progress
    BY StartingApi
  <2>. QED  BY <1>2, <2>1 DEF WaitInv, Done
<1>. QED  BY <1>1, <1>3, StartingApi, WaitStill

LEMMA WaitPut ==
  ASSUME TypeOK, WaitInv, PutTask
  PROVE  WaitInv'
<1>1. /\ session' = session /\ worker' = worker /\ progress' = progress /\ pause' = pause
      /\ faults' = faults
  BY DEF PutTask, fileVars
<1>2. \A d : Done(d)' = Done(d)
  BY <1>1 DEF Done
<1>3. worker.step # "idle" => Dir' = Dir
  BY <1>1, StartingPut, AtWork DEF Dir, Run, Current
<1>4. worker'.step = "checkpoint" => worker'.section \in Done(Dir)'
  BY <1>1, <1>2, <1>3 DEF WaitInv, Done
<1>. QED  BY <1>1, <1>2, <1>4, StartingPut, WaitStill

\* Only the start of a plan takes a section out of the committed ones.
LEMMA DoneKept ==
  ASSUME IInv, HostStep, ~BeginStart
  PROVE  \A d \in Dirs : Done(d) \subseteq Done(d)'
<1>1. CASE LoadContext \/ GenerateSection \/ CheckpointAllDone
  BY <1>1, PhaseDone
<1>2. CASE MarkDone
  <2>1. Dir \in Dirs
    BY <1>2, AtWork DEF IInv, MarkDone
  <2>2. progress[Dir] # None /\ progress[Dir] \in Progress /\ worker.section \in Nat
    BY <1>2, <2>1 DEF IInv, TypeOK, WorkerInv, MarkDone
  <2>3. /\ MarkSectionComplete(progress[Dir], worker.section) \in Progress
        /\ MarkSectionComplete(progress[Dir], worker.section).done = Done(Dir) \cup {worker.section}
    BY <2>2, ProgressTypes DEF MarkSectionComplete, Progress, Done
  <2>4. \A d \in Dirs : Done(d)' = IF d = Dir THEN Done(Dir) \cup {worker.section} ELSE Done(d)
    BY <1>2, <2>1, <2>3, DoneChanges DEF IInv, MarkDone
  <2>. QED  BY <2>4
<1>3. CASE progress' = progress
  BY <1>3 DEF Done
<1>. QED  BY <1>1, <1>2, <1>3
          DEF HostStep, Pipeline, ResetLog, AlreadyRunning, BeginResume, ConsumeSteer, ReleasePause,
              BeginContinue, SaveText, LogCheckpoint, ClearPause, CheckpointPause, HostReturns,
              fileVars

\* The host: the section it pauses after is committed, and its run has no
\* start under way.
LEMMA WaitHost ==
  ASSUME IInv, DiskInv, TableInv, WaitInv, HostStep
  PROVE  WaitInv'
<1>1. TypeOK
  BY DEF IInv
<1>2. /\ worker.step # "idle" /\ Run \in Runs /\ Dir \in Dirs /\ Run' = Run /\ DirOf[Run] = Dir
      /\ worker.task \in DOMAIN tasks
      /\ api' = api /\ session' = session /\ faults' = faults
      /\ \A d \in Dirs : d # Dir => progress'[d] = progress[d] /\ pause'[d] = pause[d]
  BY <1>1, HostAtWork, AtWork DEF Dir
<1>3. \A step : Goto(step) => worker'.step = step /\ worker'.section = worker.section
  BY <1>1 DEF Goto, TypeOK
<1>5. worker'.step = "checkpoint" => LogCheckpoint
  BY <1>1, StartingHost
<1>6. \A q \in Runs : Starting(q)' => Starting(q)
  BY <1>1, StartingHost
<1>7. worker'.step = "checkpoint" => worker'.section \in Done(Dir)'
  <2>1. SUFFICES ASSUME LogCheckpoint PROVE worker'.section \in Done(Dir)'
    BY <1>5
  <2>2. worker.section \in Done(Dir) /\ worker'.section = worker.section /\ progress' = progress
    BY <1>3, <2>1 DEF LogCheckpoint, DiskInv
  <2>3. Dir' = Dir
    BY <1>2 DEF Dir
  <2>. QED  BY <2>2, <2>3 DEF Done
<1>8. ASSUME NEW r \in Runs, Alone(r) PROVE DirOf[r] \in Dirs /\ (r # Run => DirOf[r] # Dir)
  BY <1>2, <1>8, DirOfAssumption DEF Alone
<1>9. CASE ~CheckpointPause
  <2>1. pause'[Dir] \in {pause[Dir], 0}
    <3>1. CASE ReleasePause \/ ClearPause
      BY <1>1, <1>2, <3>1 DEF ReleasePause, ClearPause, TypeOK
    <3>2. CASE pause' = pause
      BY <3>2
    <3>. QED  BY <1>9, <3>1, <3>2
              DEF HostStep, Pipeline, BeginStart, ResetLog, AlreadyRunning, BeginResume, ConsumeSteer,
                  BeginContinue, LoadContext, GenerateSection, SaveText, MarkDone,
                  LogCheckpoint, CheckpointAllDone, HostReturns, fileVars
  <2>2. ASSUME NEW r \in Runs, Alone(r)
        PROVE  pause'[DirOf[r]] \in {pause[DirOf[r]], 0}
    BY <1>2, <1>8, <2>1, <2>2
  <2>3. CASE ~BeginStart
    <3>1. \A r \in Runs : Done(DirOf[r]) \subseteq Done(DirOf[r])'
      BY <2>3, DoneKept, DirOfAssumption
    <3>. QED  BY <1>2, <1>6, <1>7, <2>2, <3>1, WaitStill
  <2>4. CASE BeginStart
    <3>1. ASSUME NEW r \in Runs, Alone(r), faults = 0
          PROVE  pause[DirOf[r]] = 0 \/ Done(DirOf[r]) \subseteq Done(DirOf[r])'
      <4>1. CASE r = Run
        <5>1. Starting(Run)
          BY <1>2, <2>4 DEF Starting, BeginStart, Run, Current
        <5>. QED  BY <1>2, <3>1, <4>1, <5>1 DEF WaitInv
      <4>2. CASE r # Run
        BY <1>2, <1>8, <3>1, <4>2 DEF Done
      <4>. QED  BY <4>1, <4>2
    <3>. QED  BY <1>2, <1>6, <1>7, <2>2, <3>1, WaitStill
  <2>. QED  BY <2>3, <2>4
<1>10. CASE CheckpointPause
  <2>1. /\ worker.step = "checkpoint" /\ progress' = progress /\ tasks' = tasks
        /\ pause' = [pause EXCEPT ![Dir] = worker.section] /\ worker'.step = "return"
    BY <1>3, <1>10 DEF CheckpointPause
  <2>2. pause'[Dir] = worker.section /\ worker.section \in Done(Dir)
    BY <1>1, <1>2, <2>1 DEF TypeOK, WaitInv
  <2>3. tasks[worker.task].status = "running" /\ worker.task \in ActiveTasks(Run)
    BY <1>2, <2>1 DEF TableInv, EndInv, ActiveTasks, Active, Run, Current
  <2>4. session[Run] # "absent"
    BY <1>2 DEF TableInv, SessionInv, Run, Current
  <2>5. faults = 0 => ~Starting(Run)'
    <3>1. SUFFICES ASSUME faults = 0, Starting(Run)' PROVE FALSE
      OBVIOUS
    <3>2. Starting(Run)
      BY <1>2, <1>6, <3>1
    <3>3. ~(api.step = "enqueue" /\ api.run = Run)
      BY <2>3 DEF TableInv, CountInv
    <3>4. PICK i \in DOMAIN tasks : tasks[i].run = Run /\ tasks[i].status = "queued"
      BY <2>1, <2>4, <3>2, <3>3 DEF Starting
    <3>5. PICK a : ActiveTasks(Run) \subseteq {a}
      BY <1>2, <3>1 DEF TableInv, CountInv
    <3>6. i = worker.task
      BY <2>3, <3>4, <3>5 DEF ActiveTasks, Active
    <3>. QED  BY <2>3, <3>4, <3>6
  <2>6. ASSUME NEW r \in Runs, Alone(r)
        PROVE  /\ session'[r] = "absent" => pause'[DirOf[r]] = 0
               /\ faults' = 0 /\ Starting(r)' => pause'[DirOf[r]] = 0
               /\ faults' = 0 /\ pause'[DirOf[r]] # 0 => pause'[DirOf[r]] \in Done(DirOf[r])'
    <3>1. CASE r = Run
      <4>1. Done(Dir) = Done(DirOf[r])'
        BY <1>2, <2>1, <3>1 DEF Done
      <4>. QED  BY <1>2, <2>2, <2>4, <2>5, <3>1, <4>1
    <3>2. CASE r # Run
      <4>1. pause'[DirOf[r]] = pause[DirOf[r]] /\ Done(DirOf[r])' = Done(DirOf[r])
        BY <1>2, <1>8, <2>1, <2>6, <3>2 DEF Done
      <4>. QED  BY <1>2, <1>6, <2>6, <4>1 DEF WaitInv
    <3>. QED  BY <3>1, <3>2
  <2>. QED  BY <1>7, <2>6 DEF WaitInv, Alone
<1>. QED  BY <1>9, <1>10

\* Taking, ending and saving a task, faults, restarts and standing still.
LEMMA WaitRest ==
  ASSUME TypeOK, TableInv, WaitInv,
         \/ \E i \in DOMAIN tasks : Claim(i) \/ ClaimFails(i)
         \/ TestCanceled \/ SetOutcome \/ PersistSession \/ PersistTask
         \/ StepFails \/ ReturnFails \/ PersistFails \/ Restart \/ UNCHANGED vars
  PROVE  WaitInv'
<1>1. CASE UNCHANGED vars
  <2>1. \A r : Starting(r)' <=> Starting(r)
    BY <1>1 DEF vars, Starting
  <2>. QED  BY <1>1, <2>1 DEF vars, WaitInv, Alone, Done, Dir, Run, Current
<1>2. CASE Restart
  <2>1. faults' # 0 /\ pause' = pause /\ worker'.step # "checkpoint"
    BY <1>2 DEF TypeOK, Restart, WorkerIdle
  <2>2. \A r \in Runs : session'[r] = "absent" => session[r] = "absent"
    BY <1>2 DEF Restart, TableInv, SessionInv
  <2>. QED  BY <2>1, <2>2, WaitStill
<1>3. CASE \/ \E i \in DOMAIN tasks : Claim(i) \/ ClaimFails(i)
           \/ TestCanceled \/ SetOutcome \/ PersistSession \/ PersistTask
           \/ StepFails \/ ReturnFails \/ PersistFails
  <2>1. faults' = faults \/ faults' = faults + 1
    BY <1>3 DEF Claim, ClaimFails, TestCanceled, SetOutcome, PersistSession, PersistTask,
                StepFails, ReturnFails, PersistFails
  <2>3. faults' = 0 => faults = 0
    BY <2>1 DEF TypeOK
  <2>2. /\ pause' = pause /\ progress' = progress /\ worker'.step # "checkpoint"
        /\ \A r \in Runs : session'[r] = "absent" => session[r] = "absent"
        /\ \A q \in Runs : Starting(q)' => Starting(q)
    BY <1>3, StartingRest
  <2>. QED  BY <2>2, <2>3, WaitStill DEF Done
<1>. QED  BY <1>1, <1>2, <1>3

LEMMA WaitKeeps ==
  ASSUME IInv, DiskInv, TableInv, WaitInv, [Next]_vars
  PROVE  WaitInv'
<1>1. TypeOK
  BY DEF IInv
<1>2. ASSUME NEW r \in Runs, ApiStart(r) PROVE WaitInv'
  BY <1>1, <1>2, WaitApi
<1>3. CASE Steer \/ Abort
  <2>1. api.run \in Runs
    BY <1>1, <1>3 DEF TypeOK, Steer, Abort
  <2>. QED  BY <1>1, <1>3, <2>1, WaitApi
<1>. QED  BY <1>1, <1>2, <1>3, WaitPut, WaitHost, WaitRest
          DEF Next, ApiStep, WorkerStep, BookkeepingFails

\* The status the API shows is true: StatusIsTrue for any runs, directories,
\* tasks and faults.
THEOREM StatusTrue == Spec => []StatusIsTrue
<1>1. Init => HostInv /\ WaitInv
  <2>1. SUFFICES ASSUME Init PROVE HostInv /\ WaitInv
    OBVIOUS
  <2>2. \A r \in Runs : lifecycle[r] = "idle" /\ DirOf[r] \in Dirs /\ pause[DirOf[r]] = 0
    BY <2>1, DirOfAssumption DEF Init
  <2>3. worker.step = "idle"
    BY <2>1 DEF Init, WorkerIdle
  <2>. QED  BY <2>2, <2>3 DEF HostInv, WaitInv, PipelineSteps
<1>2. HostInv /\ WaitInv => StatusIsTrue
  <2>1. SUFFICES ASSUME HostInv, WaitInv, NEW r \in Runs
                 PROVE  /\ ProductStatus(r) = "running" =>
                             Busy(r) \/ (api.step = "enqueue" /\ api.run = r)
                        /\ Alone(r) =>
                             /\ ProductStatus(r) = "completed" => progress[DirOf[r]].phase = "complete"
                             /\ ProductStatus(r) = "waiting_input" /\ faults = 0
                                  => pause[DirOf[r]] \in Done(DirOf[r])
    BY DEF StatusIsTrue
  <2>2. ProductStatus(r) = "running" => Busy(r) \/ (lifecycle[r] = "running" /\ session[r] \notin {"failed", "canceled"})
    BY DEF ProductStatus
  <2>3. ProductStatus(r) = "completed" => lifecycle[r] = "completed"
    BY DEF ProductStatus
  <2>4. ProductStatus(r) = "waiting_input" => pause[DirOf[r]] # 0
    BY DEF ProductStatus
  <2>. QED  BY <2>1, <2>2, <2>3, <2>4 DEF HostInv, WaitInv
<1>3. IInv /\ DiskInv /\ TableInv /\ FirstInv /\ HostInv /\ WaitInv /\ [Next]_vars
        => HostInv' /\ WaitInv'
  BY HostKeeps, WaitKeeps DEF IInv
<1>. QED  BY PlanInvariant, DiskInvariant, TableInvariant, FirstInvariant, <1>1, <1>2, <1>3, PTL DEF Spec
=============================================================================
