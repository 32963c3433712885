-------------------------- MODULE TaskOutcomeProofs --------------------------
(***************************************************************************)
(* What TaskLifecycle says of a task, proved for any tasks, workers,       *)
(* dispatchers, faults and bounds: a finished row agrees with its result,  *)
(* DISPATCHED is only written of a worker that took the task, a task is    *)
(* executed a bounded number of times, and the loop implements the         *)
(* promise of TaskOutcome.  From the history variables: only a second run  *)
(* or a notice that was given up on reopens a decided task, and only a     *)
(* forgotten delivery or a second dispatcher leaves it a wrong error.      *)
(*                                                                         *)
(* The arguments have the same two halves.  RowWrites lists the ways in    *)
(* which one step can change a task's row and its result; RunFrame and     *)
(* ReportFrame say that what a row refers to, a run and its report, keeps  *)
(* what made the reference true.  For the number of executions, EffectStep *)
(* does the same for what is counted.                                      *)
(***************************************************************************)
EXTENDS TaskLifecycleProofs

(***************************************************************************)
(* The steps that change the row of a task or its result.                  *)
(***************************************************************************)
SameResult(t) == result'[t] = result[t] /\ task'[t].finished = task[t].finished

Created(t) ==
  /\ task[t].status = "absent" /\ task'[t].status = "pending"
  /\ task'[t].worker = task[t].worker /\ task'[t].started = task[t].started
  /\ SameResult(t)

Diagnosed(t) ==
  /\ \E d \in Dispatchers : disp[d].pc = "diagnose" /\ disp[d].task = t
  /\ task'[t].status = task[t].status
  /\ task'[t].worker = task[t].worker /\ task'[t].started = task[t].started
  /\ SameResult(t)

Dispatched(t) ==
  \E d \in Dispatchers :
    /\ disp[d].pc = "save" /\ disp[d].task = t
    /\ task'[t].status = "dispatched" /\ task'[t].worker = disp[d].worker
    /\ task'[t].started = task[t].started
    /\ SameResult(t)

Noticed(t) ==
  \E r \in Runs :
    /\ run[r].task = t /\ announce[r].pc = "checked"
    /\ task'[t].status = "running" /\ task'[t].worker = task[t].worker
    /\ task'[t].started # "null"
    /\ task'[t].started =
         StartedAt(announce[r].started, IF task[t].finished THEN "late" ELSE "set")
    /\ SameResult(t)

Decided(t) ==
  \E r \in Runs :
    /\ run[r].task = t /\ report[r].pc = "checked" /\ ~ HasResult(t)
    /\ result'[t] = r /\ run' = run /\ report'[r].pc = "created"
    /\ task'[t].status = run[r].outcome /\ task'[t].worker = task[t].worker
    /\ task'[t].started # "null" /\ task'[t].finished
    /\ task'[t].started = StartedAt(report[r].started, "set")
    /\ task'[t].error = IF run[r].outcome = "failed" THEN "run" ELSE ""

RowWrite(t) ==
  \/ task'[t] = task[t] /\ result'[t] = result[t]
  \/ Created(t) \/ Diagnosed(t) \/ Dispatched(t) \/ Noticed(t) \/ Decided(t)

\* These are all.
LEMMA RowWrites == Shape /\ [Next]_vars => \A t \in Tasks : RowWrite(t)
<1> SUFFICES ASSUME Shape, [Next]_vars, NEW t \in Tasks PROVE RowWrite(t)
  OBVIOUS
<1> USE DEF taskVars
<1>0. task \in [Tasks -> TaskRows] /\ task[t] \in TaskRows
  BY DEF Shape, TypeOK
<1>1. CASE task' = task /\ result' = result
  BY <1>1 DEF RowWrite
<1>2. ASSUME NEW u \in Tasks, CreateRow(u), result' = result PROVE RowWrite(t)
  <2>1. task' = [task EXCEPT ![u] = [task[u] EXCEPT !.status = "pending"]]
    BY <1>0, <1>2 DEF CreateRow
  <2>2. CASE u = t
    <3>1. task'[t] = [task[t] EXCEPT !.status = "pending"]
      BY <1>0, <2>1, <2>2
    <3>2. Created(t)
      BY <1>0, <1>2, <2>2, <3>1 DEF Created, SameResult, CreateRow, TaskRows
    <3> QED
      BY <3>2 DEF RowWrite
  <2>3. CASE u # t
    BY <1>0, <1>2, <2>1, <2>3 DEF RowWrite
  <2> QED
    BY <2>2, <2>3
<1>3. ASSUME NEW d \in Dispatchers, SaveDiagnostic(d) PROVE RowWrite(t)
  <2>1. /\ task' = [task EXCEPT ![disp[d].task] = [task[disp[d].task] EXCEPT !.error = "dispatch"]]
        /\ result' = result
    BY <1>0, <1>3 DEF SaveDiagnostic
  <2>2. CASE disp[d].task = t
    <3>1. task'[t] = [task[t] EXCEPT !.error = "dispatch"]
      BY <1>0, <2>1, <2>2
    <3>2. Diagnosed(t)
      BY <1>0, <1>3, <2>1, <2>2, <3>1 DEF Diagnosed, SameResult, TaskRows, SaveDiagnostic
    <3> QED
      BY <3>2 DEF RowWrite
  <2>3. CASE disp[d].task # t
    BY <1>0, <2>1, <2>3 DEF RowWrite
  <2> QED
    BY <2>2, <2>3
<1>4. ASSUME NEW d \in Dispatchers, SaveDispatched(d) PROVE RowWrite(t)
  <2> DEFINE u == disp[d].task
  <2>1. /\ task' = [task EXCEPT ![u] =
              [task[u] EXCEPT !.status = "dispatched", !.worker = disp[d].worker, !.error = ""]]
        /\ result' = result /\ disp[d].pc = "save"
    BY <1>0, <1>4 DEF SaveDispatched
  <2>2. CASE u = t
    <3>1. task'[t] = [task[t] EXCEPT !.status = "dispatched", !.worker = disp[d].worker,
                                     !.error = ""]
      BY <1>0, <2>1, <2>2
    <3>2. /\ task'[t].status = "dispatched" /\ task'[t].worker = disp[d].worker
          /\ task'[t].started = task[t].started /\ task'[t].finished = task[t].finished
      BY <1>0, <3>1 DEF TaskRows
    <3>3. Dispatched(t)
      BY <2>1, <2>2, <3>2 DEF Dispatched, SameResult
    <3> QED
      BY <3>3 DEF RowWrite
  <2>3. CASE u # t
    BY <1>0, <2>1, <2>3 DEF RowWrite
  <2> QED
    BY <2>2, <2>3
<1>5. ASSUME NEW r \in Runs, RunningSaves(r) PROVE RowWrite(t)
  <2> DEFINE u == run[r].task
             m == StartedAt(announce[r].started, IF task[u].finished THEN "late" ELSE "set")
  <2>1. /\ task' = [task EXCEPT ![u] =
              [task[u] EXCEPT !.status = "running", !.error = "", !.started = m]]
        /\ result' = result /\ announce[r].pc = "checked"
    BY <1>0, <1>5 DEF RunningSaves
  <2>2. m # "null"
    BY DEF StartedAt
  <2>3. CASE u = t
    <3> HIDE DEF m
    <3>1. task'[t] = [task[t] EXCEPT !.status = "running", !.error = "", !.started = m]
      BY <1>0, <2>1, <2>3
    <3>2. /\ task'[t].status = "running" /\ task'[t].worker = task[t].worker
          /\ task'[t].started = m /\ task'[t].finished = task[t].finished
      BY <1>0, <3>1 DEF TaskRows
    <3>3. Noticed(t)
      BY <2>1, <2>2, <2>3, <3>2 DEF Noticed, SameResult, m
    <3> QED
      BY <3>3 DEF RowWrite
  <2>4. CASE u # t
    BY <1>0, <2>1, <2>4 DEF RowWrite
  <2> QED
    BY <2>3, <2>4
<1>6. ASSUME NEW r \in Runs, ResultCommits(r), ~ (task' = task /\ result' = result)
      PROVE  RowWrite(t)
  <2> DEFINE u == run[r].task
             m == StartedAt(report[r].started, "set")
             e == IF run[r].outcome = "failed" THEN "run" ELSE ""
  <2>1. /\ task' = [task EXCEPT ![u] = [task[u] EXCEPT !.status = run[r].outcome, !.error = e,
                                                       !.started = m, !.finished = TRUE]]
        /\ result' = [result EXCEPT ![u] = r]
        /\ ~ HasResult(u)
        /\ report' = [report EXCEPT ![r].pc = "created"]
        /\ report[r].pc = "checked" /\ run' = run
    <3>1. /\ ~ HasResult(u) /\ report[r].pc = "checked"
          /\ result' = [result EXCEPT ![u] = r]
          /\ report' = [report EXCEPT ![r].pc = "created"] /\ run' = run
      BY <1>6 DEF ResultCommits, agentVars
    <3>2. task' = [task EXCEPT ![u].status = run[r].outcome, ![u].error = e,
                               ![u].started = m, ![u].finished = TRUE]
      BY <1>6 DEF ResultCommits
    <3> HIDE DEF e, m
    <3> QED
      BY <1>0, <3>1, <3>2
  <2>2. m # "null"
    BY DEF StartedAt
  <2>3. report \in [Runs -> Calls] /\ result \in [Tasks -> Runs \cup {NoRun}]
    BY DEF Shape, TypeOK
  <2>4. report'[r].pc = "created"
    BY <2>1, <2>3 DEF Calls
  <2>5. CASE u = t
    <3> HIDE DEF m, e
    <3>1. task'[t] = [task[t] EXCEPT !.status = run[r].outcome, !.error = e,
                                     !.started = m, !.finished = TRUE]
      BY <1>0, <2>1, <2>5
    <3>2. /\ task'[t].status = run[r].outcome /\ task'[t].worker = task[t].worker
          /\ task'[t].started = m /\ task'[t].finished = TRUE /\ task'[t].error = e
      BY <1>0, <3>1 DEF TaskRows
    <3>3. Decided(t)
      BY <2>1, <2>2, <2>3, <2>4, <2>5, <3>2 DEF Decided, m, e
    <3> QED
      BY <3>3 DEF RowWrite
  <2>6. CASE u # t
    BY <1>0, <2>1, <2>3, <2>6 DEF RowWrite
  <2> QED
    BY <2>5, <2>6
<1>7. CASE UNCHANGED vars
  BY <1>7 DEF vars, RowWrite
<1> QED
  BY <1>1, <1>2, <1>3, <1>4, <1>5, <1>6, <1>7
     DEF Next, DispatchStep, RunStep, CallbackStep, CreateTask, BecomeDue, CreateDemoTask,
         ListPending, RefreshTask, SelectWorker, DeliveryAccepted, DeliveryRefused,
         DeliveryTimesOut, DispatcherDies, AcceptTask, StartRun, AnnounceReturns, EngineEnds,
         ReportReturns, RunAborts, RunningArrives, ResultArrives, SendHeartbeat,
         Crash, StartAgent, Register, ApplyHeartbeat, FallSilent, MarkStale

(***************************************************************************)
(* A run that has posted its result keeps its outcome, and its post.       *)
(***************************************************************************)
ReportKept(q) ==
  report[q].pc # "none" => report'[q].pc # "none" /\ run'[q].outcome = run[q].outcome

\* No step takes back a post or changes the outcome that was posted.
LEMMA ReportFrame == Shape /\ [Next]_vars => \A q \in Runs : ReportKept(q)
<1> SUFFICES ASSUME Shape, [Next]_vars, NEW q \in Runs PROVE ReportKept(q)
  OBVIOUS
<1> USE DEF ReportKept, agentVars, callVars
<1>0. run \in [Runs -> RunStates] /\ report \in [Runs -> Calls] /\ RunShaped(q)
  BY DEF Shape, TypeOK, RunShape
<1>1. CASE run' = run /\ report' = report
  BY <1>1
<1>2. ASSUME NEW d \in Dispatchers, AcceptTask(d) PROVE ReportKept(q)
  BY <1>0, <1>2 DEF AcceptTask, RunStates
<1>3. ASSUME NEW r \in Runs, StartRun(r) \/ AnnounceReturns(r) PROVE ReportKept(q)
  BY <1>0, <1>3 DEF StartRun, AnnounceReturns, RunStates
<1>4. ASSUME NEW r \in Runs, NEW v \in Verdicts, EngineEnds(r, v) PROVE ReportKept(q)
  BY <1>0, <1>4 DEF EngineEnds, RunStates, RunShaped
<1>5. ASSUME NEW r \in Runs, ReportReturns(r) \/ RunAborts(r) PROVE ReportKept(q)
  BY <1>0, <1>5 DEF ReportReturns, RunAborts, Leave, RunStates
<1>6. ASSUME NEW w \in Workers, Crash(w) PROVE ReportKept(q)
  BY <1>0, <1>6 DEF Crash, RunStates
<1>7. ASSUME NEW r \in Runs, ResultArrives(r) PROVE ReportKept(q)
  BY <1>0, <1>7 DEF ResultArrives, ReadsRow, Calls
<1>8. ASSUME NEW r \in Runs, ResultCommits(r) PROVE ReportKept(q)
  BY <1>0, <1>8 DEF ResultCommits, Calls
<1>9. CASE UNCHANGED vars
  BY <1>9 DEF vars
<1> QED
  BY <1>1, <1>2, <1>3, <1>4, <1>5, <1>6, <1>7, <1>8, <1>9
     DEF Next, DispatchStep, RunStep, CallbackStep, CreateTask, BecomeDue, CreateDemoTask,
         ListPending, RefreshTask, SelectWorker, DeliveryAccepted, DeliveryRefused,
         DeliveryTimesOut, SaveDiagnostic, SaveDispatched, DispatcherDies, RunningArrives,
         RunningSaves, SendHeartbeat, StartAgent, Register,
         ApplyHeartbeat, FallSilent, MarkStale

\* A run has the task it had, or it was just accepted and has its dispatcher's.
LEMMA RunTasks ==
  ASSUME Shape, [Next]_vars
  PROVE  \/ \A q \in Runs : run'[q].task = run[q].task
         \/ \E d \in Dispatchers, r \in Runs :
              /\ AcceptTask(d) /\ run[r].task = NoTask /\ run'[r].task = disp[d].task
              /\ \A q \in Runs \ {r} : run'[q].task = run[q].task
<1> USE DEF agentVars
<1>0. run \in [Runs -> RunStates] /\ \A q \in Runs : RunShaped(q)
  BY DEF Shape, TypeOK, RunShape
<1>1. CASE run' = run
  BY <1>1
<1>2. ASSUME NEW d \in Dispatchers, AcceptTask(d)
      PROVE  \E r \in Runs :
               /\ run[r].task = NoTask /\ run'[r].task = disp[d].task
               /\ \A q \in Runs \ {r} : run'[q].task = run[q].task
  BY <1>0, <1>2 DEF AcceptTask, RunStates, RunShaped
<1>3. ASSUME NEW r \in Runs, StartRun(r) \/ AnnounceReturns(r)
      PROVE  \A q \in Runs : run'[q].task = run[q].task
  BY <1>0, <1>3 DEF StartRun, AnnounceReturns, RunStates
<1>4. ASSUME NEW r \in Runs, NEW v \in Verdicts, EngineEnds(r, v)
      PROVE  \A q \in Runs : run'[q].task = run[q].task
  BY <1>0, <1>4 DEF EngineEnds, RunStates
<1>5. ASSUME NEW r \in Runs, ReportReturns(r) \/ RunAborts(r)
      PROVE  \A q \in Runs : run'[q].task = run[q].task
  BY <1>0, <1>5 DEF ReportReturns, RunAborts, Leave, RunStates
<1>6. ASSUME NEW w \in Workers, Crash(w) PROVE \A q \in Runs : run'[q].task = run[q].task
  BY <1>0, <1>6 DEF Crash, RunStates
<1>7. CASE UNCHANGED vars
  BY <1>7 DEF vars
<1> QED
  BY <1>1, <1>2, <1>3, <1>4, <1>5, <1>6, <1>7
     DEF Next, DispatchStep, RunStep, CallbackStep, CreateTask, BecomeDue, CreateDemoTask,
         ListPending, RefreshTask, SelectWorker, DeliveryAccepted, DeliveryRefused,
         DeliveryTimesOut, SaveDiagnostic, SaveDispatched, DispatcherDies, RunningArrives,
         RunningSaves, ResultArrives, ResultCommits, SendHeartbeat, StartAgent, Register,
         ApplyHeartbeat, FallSilent, MarkStale

-----------------------------------------------------------------------------
(***************************************************************************)
(* VerdictRecorded.  What it needs to be inductive: the run of a stored    *)
(* result has posted its report, so that nothing changes its outcome.      *)
(***************************************************************************)
Recorded(t) ==
  /\ HasResult(t) => run[result[t]].task = t /\ report[result[t]].pc # "none"
  /\ task[t].status \in Verdicts => HasResult(t) /\ run[result[t]].outcome = task[t].status
  /\ HasResult(t) <=> task[t].finished
  /\ task[t].finished => task[t].started # "null"

VerdictInv == \A t \in Tasks : Recorded(t)

\* No task has a result yet.
LEMMA VerdictInit == Init => VerdictInv
<1> SUFFICES ASSUME Init, NEW t \in Tasks PROVE Recorded(t)
  BY DEF VerdictInv
<1>1. task[t] = AbsentTask /\ result[t] = NoRun
  BY DEF Init
<1>2. AbsentTask.status = "absent" /\ ~ AbsentTask.finished
  BY DEF AbsentTask
<1> HIDE DEF AbsentTask
<1>3. ~ HasResult(t) /\ task[t].status = "absent" /\ ~ task[t].finished
  BY <1>1, <1>2 DEF HasResult
<1> QED
  BY <1>3 DEF Recorded, Verdicts

\* Every step keeps rows and results in agreement.
LEMMA VerdictStep == Shape /\ VerdictInv /\ [Next]_vars => VerdictInv'
<1> SUFFICES ASSUME Shape, VerdictInv, [Next]_vars, NEW t \in Tasks PROVE Recorded(t)'
  BY DEF VerdictInv
<1>1. Recorded(t) /\ RowWrite(t)
  BY RowWrites DEF VerdictInv
<1>2. result[t] \in Runs \cup {NoRun}
  BY DEF Shape, TypeOK
<1>3. \A q \in Runs : Kept(q) /\ ReportKept(q) /\ RunShaped(q)
  BY RunFrame, ReportFrame DEF Shape, RunShape
\* The run of a result that stays is as good as before.
<1>4. ASSUME result'[t] = result[t]
      PROVE  HasResult(t)' =>
               /\ run'[result'[t]].task = t /\ report'[result'[t]].pc # "none"
               /\ run'[result'[t]].outcome = run[result[t]].outcome
  <2> SUFFICES ASSUME HasResult(t)
               PROVE  /\ run'[result[t]].task = t /\ report'[result[t]].pc # "none"
                      /\ run'[result[t]].outcome = run[result[t]].outcome
    BY <1>4 DEF HasResult
  <2>1. result[t] \in Runs /\ run[result[t]].task = t /\ report[result[t]].pc # "none"
    BY <1>1, <1>2 DEF HasResult, Recorded
  <2>2. PICK q \in Runs : q = result[t]
    BY <2>1
  <2>3. run[q].pc # "unused"
    BY <1>3, <2>1, <2>2 DEF RunShaped
  <2> QED
    BY <1>3, <2>1, <2>2, <2>3 DEF Kept, ReportKept
<1>5. CASE task'[t] = task[t] /\ result'[t] = result[t]
  BY <1>1, <1>4, <1>5 DEF Recorded, HasResult
<1>6. CASE Created(t) \/ Dispatched(t) \/ Noticed(t)
  <2>1. task'[t].status \notin Verdicts /\ SameResult(t)
    BY <1>6 DEF Created, Dispatched, Noticed, Verdicts
  <2>2. task'[t].started = task[t].started \/ task'[t].started # "null"
    BY <1>6 DEF Created, Dispatched, Noticed
  <2> QED
    BY <1>1, <1>4, <2>1, <2>2 DEF Recorded, HasResult, SameResult
<1>7. CASE Diagnosed(t)
  BY <1>1, <1>4, <1>7 DEF Recorded, HasResult, Diagnosed, SameResult
<1>8. CASE Decided(t)
  <2>1. PICK r \in Runs :
          /\ run[r].task = t /\ result'[t] = r /\ run' = run /\ report'[r].pc = "created"
          /\ task'[t].status = run[r].outcome
          /\ task'[t].started # "null" /\ task'[t].finished
    BY <1>8 DEF Decided
  <2>2. HasResult(t)'
    BY <2>1 DEF HasResult, Runs, NoRun
  <2> QED
    BY <2>1, <2>2 DEF Recorded
<1> QED
  BY <1>1, <1>5, <1>6, <1>7, <1>8 DEF RowWrite

\* A finished row agrees with its result: its verdict is that of the run whose
\* result is stored, it has a finish exactly when there is a result, and then
\* a start, whatever callbacks were lost, late, repeated or crossed.
THEOREM VerdictsAreRecorded == Spec => []VerdictRecorded
<1>1. Init => VerdictInv
  BY VerdictInit
<1>2. Shape /\ VerdictInv /\ [Next]_vars => VerdictInv'
  BY VerdictStep
<1>3. VerdictInv => VerdictRecorded
  BY DEF VerdictInv, Recorded, VerdictRecorded
<1> QED
  BY <1>1, <1>2, <1>3, ShapeInvariant, PTL DEF Spec

-----------------------------------------------------------------------------
(***************************************************************************)
(* DeliveredBeforeDispatched is inductive with Shape, which says of a      *)
(* dispatcher about to save that it knows the run its delivery caused.     *)
(***************************************************************************)
LEMMA DeliveredInit == Init => DeliveredBeforeDispatched
<1> SUFFICES ASSUME Init PROVE DeliveredBeforeDispatched
  OBVIOUS
<1>1. \A t \in Tasks : task[t].worker = NoWorker /\ task[t].status = "absent"
  BY DEF Init, AbsentTask
<1> QED
  BY <1>1 DEF DeliveredBeforeDispatched

\* Every step keeps the worker of a row one that took its task.
LEMMA DeliveredStep ==
  Shape /\ DeliveredBeforeDispatched /\ [Next]_vars => DeliveredBeforeDispatched'
<1> SUFFICES ASSUME Shape, DeliveredBeforeDispatched, [Next]_vars, NEW t \in Tasks
             PROVE  /\ task'[t].status = "dispatched" => task'[t].worker # NoWorker
                    /\ task'[t].worker # NoWorker =>
                         \E r \in RunsOf(t)' : run'[r].worker = task'[t].worker
  BY DEF DeliveredBeforeDispatched
<1>1. RowWrite(t)
  BY RowWrites
<1>2. \A q \in Runs : Kept(q) /\ RunShaped(q)
  BY RunFrame DEF Shape, RunShape
\* A run of t that was accepted still is one, on the same worker.
<1>3. ASSUME NEW q \in Runs, run[q].task = t, run[q].pc # "unused"
      PROVE  q \in RunsOf(t)' /\ run'[q].worker = run[q].worker
  BY <1>2, <1>3 DEF Kept, RunsOf
<1>4. ASSUME task'[t].worker = task[t].worker, task[t].worker # NoWorker
      PROVE  \E r \in RunsOf(t)' : run'[r].worker = task'[t].worker
  <2>1. PICK q \in Runs : run[q].task = t /\ run[q].worker = task[t].worker
    BY <1>4 DEF DeliveredBeforeDispatched, RunsOf
  <2>2. run[q].pc # "unused"
    BY <1>2, <1>4, <2>1 DEF RunShaped
  <2> QED
    BY <1>3, <1>4, <2>1, <2>2
<1>5. CASE \/ task'[t] = task[t] \/ Created(t) \/ Diagnosed(t) \/ Noticed(t) \/ Decided(t)
  <2>1. task'[t].worker = task[t].worker
    BY <1>5 DEF Created, Diagnosed, Noticed, Decided
  <2>2. task'[t].status = "dispatched" => task[t].status = "dispatched"
    <3>1. \A r \in Runs : report[r].pc = "checked" => run[r].outcome # "dispatched"
      BY <1>2 DEF RunShaped, Verdicts
    <3> QED
      BY <1>5, <3>1 DEF Created, Diagnosed, Noticed, Decided
  <2> QED
    BY <1>4, <2>1, <2>2 DEF DeliveredBeforeDispatched
<1>6. CASE Dispatched(t)
  <2>1. PICK d \in Dispatchers :
          disp[d].pc = "save" /\ disp[d].task = t /\ task'[t].worker = disp[d].worker
    BY <1>6 DEF Dispatched
  <2>2. Shaped(disp[d]) /\ disp[d] \in DispatcherStates
    BY DEF Shape, DispatcherShape, TypeOK
  <2>3. PICK q \in Runs : q = disp[d].delivered
    BY <2>1, <2>2 DEF Shaped, DispatcherStates
  <2>4. run[q].task = t /\ run[q].pc # "unused" /\ run[q].worker = disp[d].worker
    BY <2>1, <2>2, <2>3 DEF Shaped
  <2>5. disp[d].worker # NoWorker
    BY <2>1, <2>2, WorkersAssumption DEF Shaped
  <2> QED
    BY <1>3, <2>1, <2>4, <2>5
<1> QED
  BY <1>1, <1>5, <1>6 DEF RowWrite

\* A row that names a worker names one whose agent took the task, and a
\* DISPATCHED row names a worker, whatever calls failed or processes died.
THEOREM DeliveryPrecedesDispatch == Spec => []DeliveredBeforeDispatched
<1>1. Init => DeliveredBeforeDispatched
  BY DeliveredInit
<1>2. Shape /\ DeliveredBeforeDispatched /\ [Next]_vars => DeliveredBeforeDispatched'
  BY DeliveredStep
<1> QED
  BY <1>1, <1>2, ShapeInvariant, PTL DEF Spec

-----------------------------------------------------------------------------
(***************************************************************************)
(* BoundedDuplication.  While a task is pending, the runs it has beyond    *)
(* those of past faults are deliveries that their dispatchers will still   *)
(* record; afterwards no dispatcher takes it up again, so that each of     *)
(* them adds at most the one run it may be delivering.  A crash fails all  *)
(* the deliveries to its agent at once, which is why a fault counts for as *)
(* many runs as there are dispatchers.                                     *)
(***************************************************************************)
Untaken(t) == task[t].status \in {"absent", "pending"}

\* The dispatchers that may still cause a run of t.
May(t) == {d \in Dispatchers : /\ disp[d].task = t /\ disp[d].pc \in {"select", "posting"}
                               /\ disp[d].delivered = NoRun}

\* Those that will record the run they caused, unless a fault keeps them.
Held(t) ==
  {d \in Dispatchers :
     /\ disp[d].task = t /\ disp[d].delivered # NoRun
     /\ \/ disp[d].pc = "save"
        \/ disp[d].pc = "posting" /\ agent[disp[d].worker] = "up"}

DispatcherCount == Cardinality(Dispatchers)

Bounded(t) ==
  IF Untaken(t)
  THEN Cardinality(RunsOf(t)) <= DispatcherCount * faults + Cardinality(Held(t))
  ELSE Cardinality(RunsOf(t)) + Cardinality(May(t)) <= DispatcherCount * (1 + faults)

DuplicationInv == \A t \in Tasks : Bounded(t)

(***************************************************************************)
(* What a step can do to the runs of a task and to its dispatchers.        *)
(***************************************************************************)
Delivery(t) ==
  \E d \in May(t), r \in Runs \ RunsOf(t) :
    /\ RunsOf(t)' = RunsOf(t) \cup {r}
    /\ May(t)' = May(t) \ {d} /\ Held(t)' = Held(t) \cup {d}
    /\ faults' = faults /\ task' = task

Hit(t) ==
  /\ faults' = faults + 1 /\ task' = task
  /\ RunsOf(t)' = RunsOf(t) /\ May(t)' \subseteq May(t)

Quiet(t) ==
  /\ faults' = faults /\ RunsOf(t)' = RunsOf(t)
  /\ Untaken(t)' => Untaken(t) /\ Held(t) \subseteq Held(t)'
  /\ ~ Untaken(t)' => May(t)' \subseteq May(t)

\* The sets that are counted are finite.
LEMMA Countable ==
  ASSUME NEW t
  PROVE  /\ IsFiniteSet(RunsOf(t)) /\ IsFiniteSet(May(t)) /\ IsFiniteSet(Held(t))
         /\ Cardinality(RunsOf(t)) \in Nat
         /\ Cardinality(May(t)) \in Nat /\ Cardinality(Held(t)) \in Nat
         /\ DispatcherCount \in Nat
         /\ Cardinality(May(t)) + Cardinality(Held(t)) <= DispatcherCount
<1>1. IsFiniteSet(Runs) /\ IsFiniteSet(Dispatchers)
  <2>1. IsFiniteSet(Runs)
    BY FS_Interval, BoundsAssumption DEF Runs
  <2>2. IsFiniteSet(Dispatchers)
    BY FS_Union, DispatchersAssumption DEF Dispatchers
  <2> QED BY <2>1, <2>2
<1>2. RunsOf(t) \subseteq Runs /\ May(t) \subseteq Dispatchers /\ Held(t) \subseteq Dispatchers
  BY DEF RunsOf, May, Held
<1>3. IsFiniteSet(RunsOf(t)) /\ IsFiniteSet(May(t)) /\ IsFiniteSet(Held(t))
  BY <1>1, <1>2, FS_Subset
<1>4. May(t) \cap Held(t) = {}
  BY DEF May, Held
<1>5. Cardinality(May(t) \cup Held(t)) = Cardinality(May(t)) + Cardinality(Held(t))
  <2>1. Cardinality(May(t) \cup Held(t))
          = Cardinality(May(t)) + Cardinality(Held(t)) - Cardinality(May(t) \cap Held(t))
    BY <1>3, FS_Union
  <2>2. Cardinality(May(t)) \in Nat /\ Cardinality(Held(t)) \in Nat
    BY <1>3, FS_CardinalityType
  <2>3. Cardinality(May(t) \cap Held(t)) = 0
    BY <1>4, FS_EmptySet
  <2> QED BY <2>1, <2>2, <2>3
<1>6. Cardinality(May(t) \cup Held(t)) <= DispatcherCount
  <2>1. May(t) \cup Held(t) \subseteq Dispatchers
    BY <1>2
  <2> QED BY <1>1, <2>1, FS_Subset DEF DispatcherCount
<1> QED
  BY <1>1, <1>3, <1>5, <1>6, FS_CardinalityType DEF DispatcherCount

\* Such a step keeps the bound.
LEMMA BoundKept ==
  ASSUME NEW t \in Tasks, faults \in Nat, Bounded(t), Delivery(t) \/ Hit(t) \/ Quiet(t)
  PROVE  Bounded(t)'
<1> DEFINE N == DispatcherCount
<1>1. /\ IsFiniteSet(RunsOf(t)) /\ IsFiniteSet(May(t)) /\ IsFiniteSet(Held(t))
      /\ Cardinality(RunsOf(t)) \in Nat
      /\ Cardinality(May(t)) \in Nat /\ Cardinality(Held(t)) \in Nat /\ N \in Nat
      /\ Cardinality(May(t)) + Cardinality(Held(t)) <= N
  BY Countable
<1>2. /\ IsFiniteSet(RunsOf(t)') /\ IsFiniteSet(May(t)') /\ IsFiniteSet(Held(t)')
      /\ Cardinality(RunsOf(t)') \in Nat
      /\ Cardinality(May(t)') \in Nat /\ Cardinality(Held(t)') \in Nat
      /\ Cardinality(May(t)') + Cardinality(Held(t)') <= N
  <2>1. /\ (IsFiniteSet(RunsOf(t)) /\ IsFiniteSet(May(t)) /\ IsFiniteSet(Held(t)))'
        /\ (Cardinality(RunsOf(t)) \in Nat)'
        /\ (Cardinality(May(t)) \in Nat /\ Cardinality(Held(t)) \in Nat)'
        /\ (Cardinality(May(t)) + Cardinality(Held(t)) <= DispatcherCount)'
    BY Countable, PTL
  <2> QED BY <2>1 DEF DispatcherCount
<1>3. PICK base \in Nat : base = N * faults /\ N * (1 + faults) = base + N
                          /\ N * (1 + (faults + 1)) = base + N + N
  BY <1>1
<1> HIDE DEF N
<1>4. /\ Untaken(t) => Cardinality(RunsOf(t)) <= base + Cardinality(Held(t))
      /\ ~ Untaken(t) => Cardinality(RunsOf(t)) + Cardinality(May(t)) <= base + N
  BY <1>3 DEF Bounded, N
<1>5. CASE Delivery(t)
  <2>1. PICK d \in May(t), r \in Runs \ RunsOf(t) :
          /\ RunsOf(t)' = RunsOf(t) \cup {r}
          /\ May(t)' = May(t) \ {d} /\ Held(t)' = Held(t) \cup {d}
          /\ faults' = faults /\ task' = task
    BY <1>5 DEF Delivery
  <2>2. Cardinality(RunsOf(t)') = Cardinality(RunsOf(t)) + 1
    BY <1>1, <2>1, FS_AddElement
  <2>3. Cardinality(May(t)') = Cardinality(May(t)) - 1
    BY <1>1, <2>1, FS_RemoveElement
  <2>4. d \notin Held(t)
    BY DEF May, Held
  <2>5. Cardinality(Held(t)') = Cardinality(Held(t)) + 1
    BY <1>1, <2>1, <2>4, FS_AddElement
  <2>6. Untaken(t)' <=> Untaken(t)
    BY <2>1 DEF Untaken
  <2>7. /\ Untaken(t)' => Cardinality(RunsOf(t)') <= base + Cardinality(Held(t)')
        /\ ~ Untaken(t)' => Cardinality(RunsOf(t)') + Cardinality(May(t)') <= base + N
    BY <1>1, <1>4, <2>2, <2>3, <2>5, <2>6
  <2> QED BY <1>3, <2>1, <2>7 DEF Bounded, N, DispatcherCount
<1>6. CASE Hit(t)
  <2>1. /\ faults' = faults + 1 /\ RunsOf(t)' = RunsOf(t) /\ (Untaken(t)' <=> Untaken(t))
        /\ May(t)' \subseteq May(t)
    BY <1>6 DEF Hit, Untaken
  <2>2. Cardinality(May(t)') <= Cardinality(May(t))
    BY <1>1, <2>1, FS_Subset
  <2>3. N * faults' = base + N /\ N * (1 + faults') = base + N + N
    BY <1>1, <1>3, <2>1
  <2>4. /\ Untaken(t)' => Cardinality(RunsOf(t)') <= base + N + Cardinality(Held(t)')
        /\ ~ Untaken(t)' => Cardinality(RunsOf(t)') + Cardinality(May(t)') <= base + N + N
    BY <1>1, <1>2, <1>4, <2>1, <2>2
  <2> QED BY <2>3, <2>4 DEF Bounded, N, DispatcherCount
<1>7. CASE Quiet(t)
  <2>1. /\ faults' = faults /\ RunsOf(t)' = RunsOf(t)
        /\ Untaken(t)' => Untaken(t) /\ Held(t) \subseteq Held(t)'
        /\ ~ Untaken(t)' => May(t)' \subseteq May(t)
    BY <1>7 DEF Quiet
  <2>2. Untaken(t)' => Cardinality(Held(t)) <= Cardinality(Held(t)')
    BY <1>2, <2>1, FS_Subset
  <2>3. ~ Untaken(t)' => Cardinality(May(t)') <= Cardinality(May(t))
    BY <1>1, <2>1, FS_Subset
  <2>4. Untaken(t)' => Cardinality(RunsOf(t)') <= base + Cardinality(Held(t)')
    BY <1>1, <1>2, <1>4, <2>1, <2>2
  <2>5. ~ Untaken(t)' => Cardinality(RunsOf(t)') + Cardinality(May(t)') <= base + N
    BY <1>1, <1>2, <1>4, <2>1, <2>3
  <2> QED BY <1>3, <2>1, <2>4, <2>5 DEF Bounded, N, DispatcherCount
<1> QED BY <1>5, <1>6, <1>7

\* What a step can do to a task.
Effect(t) == Delivery(t) \/ Hit(t) \/ Quiet(t)

\* No task becomes pending again.
LEMMA UntakenKept == Shape /\ [Next]_vars => \A t \in Tasks : Untaken(t)' => Untaken(t)
<1> SUFFICES ASSUME Shape, [Next]_vars, NEW t \in Tasks, Untaken(t)' PROVE Untaken(t)
  OBVIOUS
<1>1. RowWrite(t)
  BY RowWrites
<1>2. \A r \in Runs : report[r].pc # "none" => run[r].outcome \in Verdicts
  BY DEF Shape, RunShape, RunShaped
<1> QED
  BY <1>1, <1>2 DEF RowWrite, Created, Diagnosed, Dispatched, Noticed, Decided, Untaken, Verdicts

\* A step of an agent or of a callback: no run is added, no dispatcher moves,
\* and agents go down only by a fault.
LEMMA StillEffect ==
  ASSUME Shape, NEW t \in Tasks, Untaken(t)' => Untaken(t), UNCHANGED disp,
         \A q \in Runs : run'[q].task = run[q].task,
         \/ /\ faults' = faults
            /\ \A w \in Workers : agent[w] = "up" => agent'[w] = "up"
         \/ faults' = faults + 1 /\ task' = task
  PROVE  Effect(t)
<1>1. RunsOf(t)' = RunsOf(t)
  BY DEF RunsOf
<1>2. May(t)' = May(t)
  BY DEF May
<1>3. CASE faults' = faults + 1 /\ task' = task
  BY <1>1, <1>2, <1>3 DEF Effect, Hit
<1>4. CASE faults' = faults /\ \A w \in Workers : agent[w] = "up" => agent'[w] = "up"
  <2>1. \A d \in Dispatchers : disp[d].pc = "posting" => disp[d].worker \in Workers
    BY DEF Shape, DispatcherShape, Shaped
  <2>2. Held(t) \subseteq Held(t)'
    BY <1>4, <2>1 DEF Held
  <2> QED BY <1>1, <1>2, <1>4, <2>2 DEF Effect, Quiet
<1> QED BY <1>3, <1>4

\* A dispatcher that moves on without a delivery, to p: it starts on t only
\* while t is pending, and stops holding it only when it has recorded it.
LEMMA MoveEffect ==
  ASSUME Shape, NEW t \in Tasks, NEW d \in Dispatchers, NEW p,
         Untaken(t)' => Untaken(t),
         disp' = [disp EXCEPT ![d] = p], run' = run, agent' = agent, faults' = faults,
         Untaken(t)' /\ d \in Held(t) => d \in Held(t)',
         ~ Untaken(t)' /\ d \in May(t)' => d \in May(t)
  PROVE  Effect(t)
<1>1. \A e \in Dispatchers : disp'[e] = IF e = d THEN p ELSE disp[e]
  BY DEF Shape, TypeOK
<1>2. RunsOf(t)' = RunsOf(t)
  BY DEF RunsOf
<1>3. Untaken(t)' => Held(t) \subseteq Held(t)'
  BY <1>1 DEF Held
<1>4. ~ Untaken(t)' => May(t)' \subseteq May(t)
  BY <1>1 DEF May
<1> QED BY <1>2, <1>3, <1>4 DEF Effect, Quiet

\* The steps in which a dispatcher moves on.
LEMMA DispatchEffect ==
  ASSUME Shape, [Next]_vars, NEW t \in Tasks, NEW d \in Dispatchers,
         \/ \E u \in Tasks : CreateDemoTask(u, d)
         \/ ListPending(d) \/ RefreshTask(d) \/ SelectWorker(d)
         \/ DeliveryAccepted(d) \/ DeliveryRefused(d) \/ SaveDiagnostic(d) \/ SaveDispatched(d)
  PROVE  Effect(t)
<1> USE DEF taskVars, workerVars, agentVars, callVars
<1>1. Untaken(t)' => Untaken(t)
  BY UntakenKept
<1>2. disp \in [Dispatchers -> DispatcherStates] /\ disp[d] \in DispatcherStates /\ Shaped(disp[d])
  BY DEF Shape, TypeOK, DispatcherShape
<1>3. ASSUME NEW p, disp' = [disp EXCEPT ![d] = p], p.pc \in {"idle", "loop", "diagnose"},
             run' = run, agent' = agent, faults' = faults,
             Untaken(t)' => d \notin Held(t)
      PROVE  Effect(t)
  <2>1. disp'[d] = p
    BY <1>2, <1>3
  <2>2. d \notin May(t)'
    BY <1>3, <2>1 DEF May
  <2> QED BY <1>1, <1>3, <2>2, MoveEffect
<1>4. ASSUME disp[d].pc \notin {"posting", "save"} PROVE d \notin Held(t)
  BY <1>4 DEF Held
<1>5. ASSUME NEW u \in Tasks, CreateDemoTask(u, d) PROVE Effect(t)
  <2>1. disp' = [disp EXCEPT ![d] = [disp[d] EXCEPT !.pc = "loop", !.todo = {u}]]
    BY <1>2, <1>5 DEF CreateDemoTask
  <2>2. [disp[d] EXCEPT !.pc = "loop", !.todo = {u}].pc = "loop"
    BY <1>2, LoopFields
  <2> QED BY <1>3, <1>4, <1>5, <2>1, <2>2 DEF CreateDemoTask
<1>6. ASSUME ListPending(d) PROVE Effect(t)
  <2>1. PICK S : disp' = [disp EXCEPT ![d] = [disp[d] EXCEPT !.pc = "loop", !.todo = S]]
    BY <1>2, <1>6 DEF ListPending
  <2>2. [disp[d] EXCEPT !.pc = "loop", !.todo = S].pc = "loop"
    BY <1>2, LoopFields
  <2> QED BY <1>3, <1>4, <1>6, <2>1, <2>2 DEF ListPending
<1>7. ASSUME RefreshTask(d) PROVE Effect(t)
  <2> DEFINE rest(u) == [disp[d] EXCEPT !.todo = @ \ {u}]
  <2>1. PICK u \in disp[d].todo :
          disp' = [disp EXCEPT ![d] = IF task[u].status = "pending"
                                      THEN [rest(u) EXCEPT !.pc = "select", !.task = u]
                                      ELSE Resume(rest(u))]
    BY <1>7 DEF RefreshTask
  <2>2. rest(u) \in DispatcherStates
    BY <1>2 DEF DispatcherStates
  <2> HIDE DEF rest
  <2>3. disp[d].pc = "loop" /\ UNCHANGED <<task, run, agent, faults>>
    BY <1>7 DEF RefreshTask
  <2>4. CASE task[u].status = "pending"
    <3>1. disp' = [disp EXCEPT ![d] = [rest(u) EXCEPT !.pc = "select", !.task = u]]
      BY <2>1, <2>4
    <3>2. [rest(u) EXCEPT !.pc = "select", !.task = u].task = u
      BY <2>2 DEF DispatcherStates
    <3>3. disp'[d].task = u
      BY <1>2, <3>1, <3>2
    <3>4. d \in May(t)' => Untaken(t)'
      BY <2>3, <2>4, <3>3 DEF May, Untaken
    <3> QED BY <1>1, <1>4, <2>3, <3>1, <3>4, MoveEffect
  <2>5. CASE task[u].status # "pending"
    <3>1. disp' = [disp EXCEPT ![d] = Resume(rest(u))]
      BY <2>1, <2>5
    <3> QED BY <1>3, <1>4, <2>2, <2>3, <3>1, ResumeIdle
  <2> QED BY <2>4, <2>5
<1>8. ASSUME SelectWorker(d) PROVE Effect(t)
  <2>1. disp[d].pc = "select" /\ UNCHANGED <<task, run, agent, faults>>
    BY <1>8 DEF SelectWorker
  <2>2. CASE \E w \in Available(disp[d].task) :
               disp' = [disp EXCEPT ![d].pc = "posting", ![d].worker = w]
    <3>1. PICK w \in Available(disp[d].task) :
            disp' = [disp EXCEPT ![d] = [disp[d] EXCEPT !.pc = "posting", !.worker = w]]
      BY <1>2, <2>2
    <3>2. /\ [disp[d] EXCEPT !.pc = "posting", !.worker = w].task = disp[d].task
          /\ [disp[d] EXCEPT !.pc = "posting", !.worker = w].delivered = disp[d].delivered
      BY <1>2 DEF DispatcherStates
    <3>3. disp'[d].task = disp[d].task /\ disp'[d].delivered = disp[d].delivered
      BY <1>2, <3>1, <3>2
    <3>4. d \in May(t)' => d \in May(t)
      BY <2>1, <3>3 DEF May
    <3> QED BY <1>1, <1>4, <2>1, <3>1, <3>4, MoveEffect
  <2>3. CASE disp' = [disp EXCEPT ![d].pc = "diagnose"]
    <3>1. disp' = [disp EXCEPT ![d] = [disp[d] EXCEPT !.pc = "diagnose"]]
      BY <1>2, <2>3
    <3>2. [disp[d] EXCEPT !.pc = "diagnose"].pc = "diagnose"
      BY <1>2 DEF DispatcherStates
    <3> QED BY <1>3, <1>4, <2>1, <3>1, <3>2
  <2> QED BY <1>8, <2>2, <2>3 DEF SelectWorker
<1>9. ASSUME DeliveryAccepted(d) PROVE Effect(t)
  <2>1. /\ disp' = [disp EXCEPT ![d] = [disp[d] EXCEPT !.pc = "save"]]
        /\ disp[d].delivered # NoRun /\ UNCHANGED <<task, run, agent, faults>>
    BY <1>2, <1>9 DEF DeliveryAccepted
  <2>2. /\ [disp[d] EXCEPT !.pc = "save"].pc = "save"
        /\ [disp[d] EXCEPT !.pc = "save"].task = disp[d].task
        /\ [disp[d] EXCEPT !.pc = "save"].delivered = disp[d].delivered
    BY <1>2 DEF DispatcherStates
  <2>3. disp'[d].pc = "save" /\ disp'[d].task = disp[d].task /\ disp'[d].delivered # NoRun
    BY <1>2, <2>1, <2>2
  <2>4. (d \in Held(t) => d \in Held(t)') /\ d \notin May(t)'
    BY <2>3 DEF Held, May
  <2> QED BY <1>1, <2>1, <2>4, MoveEffect
<1>10. ASSUME DeliveryRefused(d) PROVE Effect(t)
  <2>1. /\ disp' = [disp EXCEPT ![d] = [disp[d] EXCEPT !.pc = "diagnose"]]
        /\ disp[d].pc = "posting" /\ agent[disp[d].worker] # "up"
        /\ UNCHANGED <<task, run, agent, faults>>
    BY <1>2, <1>10 DEF DeliveryRefused
  <2>2. [disp[d] EXCEPT !.pc = "diagnose"].pc = "diagnose"
    BY <1>2 DEF DispatcherStates
  <2>3. d \notin Held(t)
    BY <2>1 DEF Held
  <2> QED BY <1>3, <2>1, <2>2, <2>3
<1>11. ASSUME SaveDiagnostic(d) PROVE Effect(t)
  <2>1. disp' = [disp EXCEPT ![d] = Resume(disp[d])] /\ disp[d].pc = "diagnose"
    BY <1>11 DEF SaveDiagnostic
  <2> QED BY <1>2, <1>3, <1>4, <1>11, <2>1, ResumeIdle DEF SaveDiagnostic
<1>12. ASSUME SaveDispatched(d) PROVE Effect(t)
  <2>1. disp' = [disp EXCEPT ![d] = Resume(disp[d])] /\ disp[d].pc = "save"
    BY <1>12 DEF SaveDispatched
  <2>2. Untaken(t)' => d \notin Held(t)
    <3>1. task \in [Tasks -> TaskRows]
      BY DEF Shape, TypeOK
    <3>2. disp[d].task = t => task'[t].status = "dispatched"
      <4> SUFFICES ASSUME disp[d].task = t PROVE task'[t].status = "dispatched"
        OBVIOUS
      <4>1. task'[t] = [task[t] EXCEPT !.status = "dispatched", !.worker = disp[d].worker,
                                       !.error = ""]
        BY <1>12, <3>1 DEF SaveDispatched
      <4> QED BY <3>1, <4>1 DEF TaskRows
    <3> QED BY <3>2 DEF Held, Untaken
  <2> QED BY <1>2, <1>3, <1>12, <2>1, <2>2, ResumeIdle DEF SaveDispatched
<1> QED
  BY <1>5, <1>6, <1>7, <1>8, <1>9, <1>10, <1>11, <1>12

\* A delivery: one run more, of one dispatcher that could cause it.
LEMMA AcceptEffect ==
  ASSUME Shape, [Next]_vars, NEW t \in Tasks, NEW d \in Dispatchers, AcceptTask(d)
  PROVE  Effect(t)
<1>1. /\ disp \in [Dispatchers -> DispatcherStates] /\ run \in [Runs -> RunStates]
      /\ disp[d] \in DispatcherStates
  BY DEF Shape, TypeOK
<1>2. PICK r \in Runs :
        /\ run[r].pc = "unused"
        /\ run' = [run EXCEPT ![r] = [run[r] EXCEPT !.pc = "accepted", !.task = disp[d].task,
                                                  !.worker = disp[d].worker]]
        /\ disp' = [disp EXCEPT ![d] = [disp[d] EXCEPT !.delivered = r]]
  BY ZenonT(30), <1>1 DEF AcceptTask
<1>3. /\ disp[d].pc = "posting" /\ disp[d].delivered = NoRun
      /\ agent[disp[d].worker] = "up" /\ UNCHANGED <<task, agent, faults>>
  BY DEF AcceptTask, taskVars
<1>4. /\ disp'[d].pc = disp[d].pc /\ disp'[d].task = disp[d].task
      /\ disp'[d].worker = disp[d].worker /\ disp'[d].delivered = r
      /\ \A e \in Dispatchers \ {d} : disp'[e] = disp[e]
  BY <1>1, <1>2 DEF DispatcherStates
<1>5. r # NoRun
  BY BoundsAssumption DEF Runs, NoRun
<1>6. run'[r].task = disp[d].task /\ \A q \in Runs \ {r} : run'[q] = run[q]
  BY <1>1, <1>2 DEF RunStates
<1>7. run[r].task # t
  BY <1>2, TasksAssumption DEF Shape, RunShape, RunShaped, NoTask
<1>8. CASE disp[d].task = t
  <2>1. d \in May(t) /\ r \in Runs \ RunsOf(t)
    BY <1>3, <1>7, <1>8 DEF May, RunsOf
  <2>2. RunsOf(t)' = RunsOf(t) \cup {r}
    BY <1>6, <1>7, <1>8 DEF RunsOf
  <2>3. May(t)' = May(t) \ {d}
    BY <1>4, <1>5 DEF May
  <2>4. Held(t)' = Held(t) \cup {d}
    BY <1>3, <1>4, <1>5, <1>8 DEF Held
  <2> QED BY <1>3, <2>1, <2>2, <2>3, <2>4 DEF Effect, Delivery
<1>9. CASE disp[d].task # t
  <2>1. RunsOf(t)' = RunsOf(t)
    BY <1>6, <1>7, <1>9 DEF RunsOf
  <2>2. May(t)' = May(t)
    BY <1>4, <1>9 DEF May
  <2>3. Held(t)' = Held(t)
    BY <1>3, <1>4, <1>9 DEF Held
  <2>4. Untaken(t)' = Untaken(t)
    BY <1>3 DEF Untaken
  <2> QED BY <1>3, <2>1, <2>2, <2>3, <2>4 DEF Effect, Quiet
<1> QED BY <1>8, <1>9

\* A dispatcher that a fault throws out of its call or its process.
LEMMA ThrownEffect ==
  ASSUME Shape, NEW t \in Tasks, NEW d \in Dispatchers, DeliveryTimesOut(d) \/ DispatcherDies(d)
  PROVE  Effect(t)
<1>1. disp \in [Dispatchers -> DispatcherStates]
  BY DEF Shape, TypeOK
<1>2. disp'[d].pc \in {"diagnose", "idle"} /\ \A e \in Dispatchers \ {d} : disp'[e] = disp[e]
  BY <1>1 DEF DeliveryTimesOut, DispatcherDies, DispatcherStates, IdleDispatcher
<1>3. May(t)' \subseteq May(t)
  BY <1>2 DEF May
<1>4. faults' = faults + 1 /\ UNCHANGED <<task, run>>
  BY DEF DeliveryTimesOut, DispatcherDies, Fault, taskVars, agentVars
<1> QED BY <1>3, <1>4 DEF Effect, Hit, RunsOf

\* Every step has one of the effects.
LEMMA EffectStep == Shape /\ [Next]_vars => \A t \in Tasks : Effect(t)
<1> SUFFICES ASSUME Shape, [Next]_vars, NEW t \in Tasks PROVE Effect(t)
  OBVIOUS
<1> USE DEF taskVars, workerVars, dispatchVars, agentVars, callVars
<1>1. Untaken(t)' => Untaken(t)
  BY UntakenKept
<1>2. run \in [Runs -> RunStates] /\ agent \in [Workers -> {"down", "starting", "up"}]
  BY DEF Shape, TypeOK
<1>3. CASE UNCHANGED <<disp, run, agent, faults>>
  BY <1>1, <1>3, StillEffect
<1>4. ASSUME NEW r \in Runs, RunStep(r) PROVE Effect(t)
  <2>1. UNCHANGED <<disp, agent, task>> /\ (faults' = faults \/ faults' = faults + 1)
    BY <1>4 DEF RunStep, StartRun, AnnounceReturns, EngineEnds, ReportReturns, RunAborts,
                Returned, Fault, NoFault
  <2>2. \A q \in Runs : run'[q].task = run[q].task
    <3>1. CASE \E v \in Verdicts : EngineEnds(r, v)
      BY <1>2, <3>1 DEF EngineEnds, RunStates
    <3>2. CASE \E p \in {"announcing", "engine", "ended"} : run' = [run EXCEPT ![r].pc = p]
      BY <1>2, <3>2 DEF RunStates
    <3> QED BY <1>4, <3>1, <3>2 DEF RunStep, StartRun, AnnounceReturns, ReportReturns,
                                    RunAborts, Leave
  <2> QED BY <1>1, <2>1, <2>2, StillEffect
<1>5. ASSUME NEW w \in Workers, Crash(w) PROVE Effect(t)
  <2>1. \A q \in Runs : run'[q].task = run[q].task
    BY <1>2, <1>5 DEF Crash, RunStates
  <2> QED BY <1>1, <1>5, <2>1, StillEffect DEF Crash, Fault
<1>6. ASSUME NEW w \in Workers, StartAgent(w) \/ Register(w) \/ FallSilent(w) PROVE Effect(t)
  <2>1. UNCHANGED <<disp, run, task>>
    BY <1>6 DEF StartAgent, Register, FallSilent
  <2>2. \/ faults' = faults + 1
        \/ faults' = faults /\ \A v \in Workers : agent[v] = "up" => agent'[v] = "up"
    BY <1>2, <1>6 DEF StartAgent, Register, FallSilent, Fault, NoFault
  <2> QED BY <1>1, <2>1, <2>2, StillEffect
<1>7. ASSUME NEW d \in Dispatchers, DispatchStep(d) \/ AcceptTask(d) PROVE Effect(t)
  BY <1>7, DispatchEffect, ThrownEffect, AcceptEffect DEF DispatchStep
<1>8. ASSUME NEW u \in Tasks, NEW d \in WebThreads, CreateDemoTask(u, d) PROVE Effect(t)
  <2>1. d \in Dispatchers
    BY DEF Dispatchers
  <2> QED BY <1>8, <2>1, DispatchEffect
<1>9. ASSUME NEW d \in Schedulers, ListPending(d) PROVE Effect(t)
  <2>1. d \in Dispatchers
    BY DEF Dispatchers
  <2> QED BY <1>9, <2>1, DispatchEffect
<1> QED
  BY <1>3, <1>4, <1>5, <1>6, <1>7, <1>8, <1>9
     DEF Next, CallbackStep, CreateTask, BecomeDue, RunningArrives, RunningSaves,
         ResultArrives, ResultCommits, SendHeartbeat, ApplyHeartbeat, MarkStale, vars

\* No task has a run yet.
LEMMA DuplicationInit == Init => DuplicationInv
<1> SUFFICES ASSUME Init, NEW t \in Tasks PROVE Bounded(t)
  BY DEF DuplicationInv
<1>1. Untaken(t)
  BY DEF Init, Untaken, AbsentTask
<1>2. RunsOf(t) = {}
  BY TasksAssumption DEF Init, RunsOf, UnusedRun, NoTask
<1>3. Cardinality(RunsOf(t)) = 0 /\ faults = 0
  BY <1>2, FS_EmptySet DEF Init
<1>4. DispatcherCount * faults = 0
  BY <1>3, Countable
<1> QED
  BY <1>1, <1>3, <1>4, Countable DEF Bounded

\* Every step keeps the bound of every task.
LEMMA DuplicationStep == Shape /\ DuplicationInv /\ [Next]_vars => DuplicationInv'
<1> SUFFICES ASSUME Shape, DuplicationInv, [Next]_vars, NEW t \in Tasks PROVE Bounded(t)'
  BY DEF DuplicationInv
<1>1. faults \in Nat
  BY BoundsAssumption DEF Shape, TypeOK
<1> QED
  BY <1>1, EffectStep, BoundKept DEF DuplicationInv, Effect

\* A task is executed at most once for each process that dispatches, and once
\* more for each of them and each fault, however their steps, the agents'
\* answers and the callbacks interleave.
THEOREM DuplicationIsBounded == Spec => []BoundedDuplication
<1>1. ASSUME Shape, DuplicationInv PROVE BoundedDuplication
  <2> SUFFICES ASSUME NEW t \in Tasks
               PROVE  Cardinality(RunsOf(t)) <= DispatcherCount * (1 + faults)
    BY DEF BoundedDuplication, DispatcherCount
  <2>1. faults \in Nat
    BY <1>1, BoundsAssumption DEF Shape, TypeOK
  <2>2. /\ Cardinality(RunsOf(t)) \in Nat /\ Cardinality(May(t)) \in Nat
        /\ Cardinality(Held(t)) \in Nat /\ DispatcherCount \in Nat
        /\ Cardinality(May(t)) + Cardinality(Held(t)) <= DispatcherCount
    BY Countable
  <2>3. DispatcherCount * (1 + faults) = DispatcherCount * faults + DispatcherCount
        /\ DispatcherCount * faults \in Nat
    BY <2>1, <2>2
  <2>4. Bounded(t)
    BY <1>1 DEF DuplicationInv
  <2> QED
    BY <2>2, <2>3, <2>4 DEF Bounded
<1> QED
  BY <1>1, DuplicationInit, DuplicationStep, ShapeInvariant, PTL DEF Spec

-----------------------------------------------------------------------------
(***************************************************************************)
(* NoRunningAfterResult.  A task is trusted while it has at most one run   *)
(* and no agent gave up on a notice of it.  An agent that did not give up  *)
(* goes on only with the answer of its notice (Answered), so that a        *)
(* trusted task with a result waits for no notice, and no start of it that *)
(* is stored or was read is late (Prompt).                                 *)
(***************************************************************************)
Trusted(t) == (\A q, r \in RunsOf(t) : q = r) /\ RunsOf(t) \cap givenUp = {}

Answered(r) ==
  r \notin givenUp /\ (run[r].pc \in {"engine", "reporting", "ended"} \/ report[r].pc # "none") =>
    announce[r].pc \in Answers

Prompt ==
  /\ \A t \in Tasks : task[t].started = "late" => ~ Trusted(t)
  /\ \A r \in Runs : announce[r].started = "late" \/ report[r].started = "late" =>
       \E t \in Tasks : run[r].task = t /\ ~ Trusted(t)

OrderInv == (\A r \in Runs : Answered(r)) /\ Prompt

\* Nothing is taken out of the history.
LEMMA HistoryGrows ==
  [Next]_vars =>
    givenUp \subseteq givenUp' /\ unheard \subseteq unheard' /\ contested \subseteq contested'
<1> SUFFICES ASSUME [Next]_vars
             PROVE  /\ givenUp \subseteq givenUp' /\ unheard \subseteq unheard'
                    /\ contested \subseteq contested'
  OBVIOUS
<1> USE DEF dispatchVars, dispatchHistory, callVars
<1>1. CASE UNCHANGED <<givenUp, unheard, contested>>
  BY <1>1
<1>2. ASSUME NEW d \in Dispatchers, Forget(d), UNCHANGED <<givenUp, contested>>
      PROVE  unheard \subseteq unheard'
  BY <1>2 DEF Forget
<1>3. ASSUME NEW d \in Dispatchers, RefreshTask(d)
      PROVE  contested \subseteq contested' /\ UNCHANGED <<givenUp, unheard>>
  BY <1>3 DEF RefreshTask
<1>4. ASSUME NEW r \in Runs, AnnounceReturns(r)
      PROVE  givenUp \subseteq givenUp' /\ UNCHANGED <<unheard, contested>>
  BY <1>4 DEF AnnounceReturns
<1>5. CASE UNCHANGED vars
  BY <1>5 DEF vars
<1> QED
  BY <1>1, <1>2, <1>3, <1>4, <1>5
     DEF Next, DispatchStep, RunStep, CallbackStep, CreateTask, BecomeDue, CreateDemoTask,
         ListPending, SelectWorker, DeliveryAccepted, DeliveryRefused, DeliveryTimesOut,
         SaveDiagnostic, SaveDispatched, DispatcherDies, AcceptTask, StartRun, EngineEnds,
         ReportReturns, RunAborts, RunningArrives, RunningSaves, ResultArrives, ResultCommits,
         SendHeartbeat, Crash, StartAgent, Register, ApplyHeartbeat, FallSilent, MarkStale

\* The runs of a task stay its runs, and a task is not trusted again.
LEMMA TrustLost ==
  ASSUME Shape, [Next]_vars, NEW t \in Tasks
  PROVE  RunsOf(t) \subseteq RunsOf(t)' /\ (~ Trusted(t) => ~ Trusted(t)')
<1>1. givenUp \subseteq givenUp'
  BY HistoryGrows
<1>2. \A q \in Runs : Kept(q) /\ RunShaped(q)
  BY RunFrame DEF Shape, RunShape
<1>3. t # NoTask
  BY TasksAssumption DEF NoTask
<1>4. RunsOf(t) \subseteq RunsOf(t)'
  BY <1>2, <1>3 DEF RunsOf, Kept, RunShaped
<1> QED
  BY <1>1, <1>4 DEF Trusted

\* An agent that does not give up goes on only with the answer of its notice,
\* and an answer stays.
LEMMA AnsweredStep ==
  ASSUME Shape, [Next]_vars, NEW q \in Runs, Answered(q)
  PROVE  Answered(q)'
<1> USE DEF Answered, agentVars, callVars
<1>0. /\ run \in [Runs -> RunStates] /\ announce \in [Runs -> Calls]
      /\ report \in [Runs -> Calls] /\ RunShaped(q) /\ faults \in Nat
  BY BoundsAssumption DEF Shape, TypeOK, RunShape
<1>h. givenUp \subseteq givenUp'
  BY HistoryGrows
<1>1. CASE UNCHANGED <<run, announce, report>>
  BY <1>1, <1>h
<1>2. ASSUME NEW d \in Dispatchers, AcceptTask(d) PROVE Answered(q)'
  BY <1>0, <1>2, <1>h DEF AcceptTask, RunStates
<1>3. ASSUME NEW r \in Runs, StartRun(r) PROVE Answered(q)'
  BY <1>0, <1>3, <1>h DEF StartRun, RunStates, RunShaped
<1>4. ASSUME NEW r \in Runs, AnnounceReturns(r) PROVE Answered(q)'
  <2>1. /\ run[r].pc = "announcing" /\ run' = [run EXCEPT ![r].pc = "engine"]
        /\ UNCHANGED <<announce, report>>
    BY <1>4 DEF AnnounceReturns
  <2>2. CASE q # r
    BY <1>0, <1>h, <2>1, <2>2
  <2>3. CASE q = r /\ announce[r].pc \in Answers
    BY <1>0, <1>h, <2>1, <2>3
  <2>4. CASE q = r /\ faults' = faults + 1
    <3>1. faults' # faults
      BY <1>0, <2>4
    <3> QED
      BY <1>4, <2>4, <3>1 DEF AnnounceReturns
  <2> QED
    BY <1>4, <2>2, <2>3, <2>4 DEF AnnounceReturns, Returned, Fault
<1>5. ASSUME NEW r \in Runs, NEW v \in Verdicts, EngineEnds(r, v) PROVE Answered(q)'
  BY <1>0, <1>5, <1>h DEF EngineEnds, RunStates, Calls
<1>6. ASSUME NEW r \in Runs, ReportReturns(r) \/ RunAborts(r) PROVE Answered(q)'
  BY <1>0, <1>6, <1>h DEF ReportReturns, RunAborts, Leave, RunStates
<1>7. ASSUME NEW w \in Workers, Crash(w) PROVE Answered(q)'
  BY <1>0, <1>7, <1>h DEF Crash, RunStates
<1>8. ASSUME NEW r \in Runs, RunningArrives(r) PROVE Answered(q)'
  BY <1>0, <1>8, <1>h DEF RunningArrives, ReadsRow, Calls, Answers
<1>9. ASSUME NEW r \in Runs, RunningSaves(r) PROVE Answered(q)'
  BY <1>0, <1>9, <1>h DEF RunningSaves, Calls, Answers
<1>10. ASSUME NEW r \in Runs, ResultArrives(r) \/ ResultCommits(r) PROVE Answered(q)'
  BY <1>0, <1>10, <1>h DEF ResultArrives, ReadsRow, ResultCommits, Calls
<1>11. CASE UNCHANGED vars
  BY <1>11, <1>h DEF vars
<1> QED
  BY <1>h, <1>1, <1>2, <1>3, <1>4, <1>5, <1>6, <1>7, <1>8, <1>9, <1>10, <1>11
     DEF Next, DispatchStep, RunStep, CallbackStep, CreateTask, BecomeDue, CreateDemoTask,
         ListPending, RefreshTask, SelectWorker, DeliveryAccepted, DeliveryRefused,
         DeliveryTimesOut, SaveDiagnostic, SaveDispatched, DispatcherDies, SendHeartbeat,
         StartAgent, Register, ApplyHeartbeat, FallSilent, MarkStale

\* A trusted task with a result waits for no notice.
LEMMA NoticesAreAnswered ==
  ASSUME Shape, VerdictInv, OrderInv, NEW t \in Tasks, HasResult(t), Trusted(t),
         NEW r \in RunsOf(t)
  PROVE  announce[r].pc \in Answers
<1>1. result[t] \in Runs /\ run[result[t]].task = t /\ report[result[t]].pc # "none"
  BY DEF Shape, TypeOK, VerdictInv, Recorded, HasResult
<1>2. result[t] = r /\ r \in Runs /\ r \notin givenUp
  BY <1>1 DEF Trusted, RunsOf
<1> QED
  BY <1>1, <1>2 DEF OrderInv, Answered

\* What a step does to the start that a handler has read.
Copied(call, r) ==
  \/ call'[r].started \in {call[r].started, "null"}
  \/ run[r].task \in Tasks /\ call'[r].started = task[run[r].task].started

\* The handlers read starts from rows only.
LEMMA CopiedStep ==
  Shape /\ [Next]_vars => \A q \in Runs : Copied(announce, q) /\ Copied(report, q)
<1> SUFFICES ASSUME Shape, [Next]_vars, NEW q \in Runs PROVE Copied(announce, q) /\ Copied(report, q)
  OBVIOUS
<1> USE DEF Copied, agentVars, callVars
<1>0. /\ announce \in [Runs -> Calls] /\ report \in [Runs -> Calls] /\ RunShaped(q)
  BY DEF Shape, TypeOK, RunShape
<1>1. CASE UNCHANGED <<announce, report>>
  BY <1>1
<1>2. ASSUME NEW r \in Runs, StartRun(r) PROVE Copied(announce, q) /\ Copied(report, q)
  BY <1>0, <1>2 DEF StartRun, Calls
<1>3. ASSUME NEW r \in Runs, NEW v \in Verdicts, EngineEnds(r, v)
      PROVE  Copied(announce, q) /\ Copied(report, q)
  BY <1>0, <1>3 DEF EngineEnds, Calls
<1>4. ASSUME NEW r \in Runs, RunningArrives(r) PROVE Copied(announce, q) /\ Copied(report, q)
  BY <1>0, <1>4 DEF RunningArrives, ReadsRow, RunShaped
<1>5. ASSUME NEW r \in Runs, RunningSaves(r) PROVE Copied(announce, q) /\ Copied(report, q)
  BY <1>0, <1>5 DEF RunningSaves, Calls
<1>6. ASSUME NEW r \in Runs, ResultArrives(r) PROVE Copied(announce, q) /\ Copied(report, q)
  BY <1>0, <1>6 DEF ResultArrives, ReadsRow, RunShaped
<1>7. ASSUME NEW r \in Runs, ResultCommits(r) PROVE Copied(announce, q) /\ Copied(report, q)
  <2>1. PICK p \in {"error", "created"} : report' = [report EXCEPT ![r].pc = p]
    BY <1>7 DEF ResultCommits
  <2>2. announce' = announce
    BY <1>7 DEF ResultCommits
  <2>3. report'[q].started = report[q].started
    BY <1>0, <2>1 DEF Calls
  <2> QED
    BY <2>2, <2>3
<1>8. CASE UNCHANGED vars
  BY <1>8 DEF vars
<1> QED
  BY <1>1, <1>2, <1>3, <1>4, <1>5, <1>6, <1>7, <1>8
     DEF Next, DispatchStep, RunStep, CallbackStep, CreateTask, BecomeDue, CreateDemoTask,
         ListPending, RefreshTask, SelectWorker, DeliveryAccepted, DeliveryRefused,
         DeliveryTimesOut, SaveDiagnostic, SaveDispatched, DispatcherDies, AcceptTask,
         AnnounceReturns, ReportReturns, RunAborts, Crash, SendHeartbeat,
         StartAgent, Register, ApplyHeartbeat, FallSilent, MarkStale

\* Notices of a trusted task are saved before its finish, so that none is
\* saved late.
LEMMA PromptStep ==
  ASSUME Shape, VerdictInv, OrderInv, [Next]_vars
  PROVE  Prompt'
<1>1. Prompt
  BY DEF OrderInv
<1>2. ASSUME NEW r \in Runs, announce'[r].started = "late" \/ report'[r].started = "late"
      PROVE  \E t \in Tasks : run'[r].task = t /\ ~ Trusted(t)'
  <2>1. PICK t \in Tasks : run[r].task = t /\ ~ Trusted(t)
    BY <1>1, <1>2, CopiedStep DEF Prompt, Copied
  <2>2. run'[r].task = t
    <3>1. Kept(r) /\ RunShaped(r) /\ NoTask \notin Tasks
      BY <1>1, RunFrame, TasksAssumption DEF Shape, RunShape, NoTask
    <3> QED
      BY <2>1, <3>1 DEF Kept, RunShaped
  <2> QED
    BY <2>1, <2>2, TrustLost
<1>3. ASSUME NEW t \in Tasks, task'[t].started = "late" PROVE ~ Trusted(t)'
  <2> SUFFICES ASSUME Trusted(t)' PROVE FALSE
    OBVIOUS
  <2>0. Trusted(t) /\ task[t].started # "late"
    BY <1>1, TrustLost DEF Prompt
  <2>1. RowWrite(t)
    BY <1>1, RowWrites
  <2>2. CASE Noticed(t)
    <3>1. PICK r \in Runs :
            /\ run[r].task = t /\ announce[r].pc = "checked"
            /\ task'[t].started =
                 StartedAt(announce[r].started, IF task[t].finished THEN "late" ELSE "set")
      BY <2>2 DEF Noticed
    <3>2. ~ HasResult(t)
      BY <2>0, <3>1, NoticesAreAnswered DEF RunsOf, Answers
    <3>3. ~ task[t].finished
      BY <3>2 DEF VerdictInv, Recorded
    <3>4. announce[r].started # "late"
      BY <1>1, <2>0, <3>1 DEF Prompt
    <3> QED
      BY <1>3, <3>1, <3>3, <3>4 DEF StartedAt
  <2>3. CASE Decided(t)
    <3>1. PICK r \in Runs : run[r].task = t /\ task'[t].started = StartedAt(report[r].started, "set")
      BY <2>3 DEF Decided
    <3>2. report[r].started # "late"
      BY <1>1, <2>0, <3>1 DEF Prompt
    <3> QED
      BY <1>3, <3>1, <3>2 DEF StartedAt
  <2> QED
    BY <1>3, <2>0, <2>1, <2>2, <2>3 DEF RowWrite, Created, Diagnosed, Dispatched
<1> QED
  BY <1>2, <1>3 DEF Prompt

\* Nothing has been delivered or sent.
LEMMA OrderInit == Init => OrderInv
<1> SUFFICES ASSUME Init PROVE OrderInv
  OBVIOUS
<1>1. \A t \in Tasks : task[t].started # "late"
  BY DEF Init, AbsentTask
<1>2. ASSUME NEW r \in Runs
      PROVE  Answered(r) /\ announce[r].started # "late" /\ report[r].started # "late"
  BY DEF Init, Answered, UnusedRun, NoCall
<1> QED
  BY <1>1, <1>2 DEF OrderInv, Prompt

\* A running notice reopens a decided task, or dates its start after its end,
\* only when the task was executed twice or an agent gave up on the notice
\* and ran on: for any number of dispatchers, tasks, workers and runs, and
\* whatever the faults.
THEOREM NoticesPrecedeResults == Spec => NoRunningAfterResult
<1>1. Shape /\ VerdictInv /\ OrderInv /\ [Next]_vars => OrderInv'
  BY AnsweredStep, PromptStep DEF OrderInv
<1>2. ASSUME Shape, VerdictInv, OrderInv, [Next]_vars, NEW t \in Tasks,
             RunsOf(t) = {result[t]}, result[t] \notin givenUp
      PROVE  /\ task[t].status # "running" => task'[t].status # "running"
             /\ task'[t].started # "late"
  <2>1. Trusted(t) /\ HasResult(t) /\ task[t].started # "late"
    <3>1. Trusted(t) /\ result[t] \in Runs
      BY <1>2 DEF Trusted, RunsOf
    <3> QED
      BY <3>1, <1>2 DEF HasResult, Runs, NoRun, OrderInv, Prompt
  <2>2. ~ Noticed(t)
    BY <1>2, <2>1, NoticesAreAnswered DEF Noticed, RunsOf, Answers
  <2>3. RowWrite(t) /\ ~ Decided(t)
    BY <1>2, <2>1, RowWrites DEF Decided
  <2> QED
    BY <2>1, <2>2, <2>3 DEF RowWrite, Created, Diagnosed, Dispatched
<1>3. Shape /\ VerdictInv /\ OrderInv /\ [Next]_vars =>
        [\A t \in Tasks : RunsOf(t) = {result[t]} /\ result[t] \notin givenUp =>
           /\ task[t].status # "running" => task'[t].status # "running"
           /\ task'[t].started # "late"]_vars
  BY <1>2
<1> QED
  BY <1>1, <1>3, InitShape, ShapeStep, VerdictInit, VerdictStep, OrderInit, PTL
     DEF Spec, NoRunningAfterResult

(***************************************************************************)
(* ErrorIsOfTheRun.  A task is clean while no delivery of it was given up  *)
(* on and no two processes had it at once.  Of a clean task a dispatcher   *)
(* that can still deliver or that ends in a diagnostic caused no run, and  *)
(* nobody else did; and one that caused a run holds the task until the row *)
(* is DISPATCHED, so that nobody takes it up again.                        *)
(***************************************************************************)
Clean(t) == t \notin contested /\ RunsOf(t) \cap unheard = {}

On(d, t) == disp[d].task = t
Delivering(d) == disp[d].delivered # NoRun
Undelivered(d) == ~ Delivering(d) /\ disp[d].pc \in {"select", "posting", "diagnose"}

Careful(t) ==
  /\ \A d, e \in Dispatchers : On(d, t) /\ On(e, t) => d = e
  /\ \A d \in Dispatchers : On(d, t) /\ disp[d].pc = "diagnose" => ~ Delivering(d)
  /\ \A d \in Dispatchers : On(d, t) /\ Undelivered(d) => RunsOf(t) = {}
  /\ RunsOf(t) # {} /\ Untaken(t) => \E d \in Dispatchers : On(d, t) /\ Delivering(d)

CarefulInv == \A t \in Tasks : Clean(t) => Careful(t)

(***************************************************************************)
(* What the history records of dispatchers.                                *)
(***************************************************************************)
Faulty == faults' # faults

\* Dispatcher d leaves the delivery that caused run r without recording it.
DeliveryForgotten(d, r) ==
  /\ disp[d].delivered = r /\ disp'[d] # disp[d]
  /\ Faulty \/ disp'[d].pc = "diagnose"

\* A delivery left without a record is in the history.
LEMMA ForgottenRecorded ==
  ASSUME Shape, [Next]_vars, NEW d \in Dispatchers, NEW r \in Runs, DeliveryForgotten(d, r)
  PROVE  r \in unheard'
<1> USE DEF DeliveryForgotten, Faulty, dispatchVars
<1>0. /\ disp \in [Dispatchers -> DispatcherStates] /\ Shaped(disp[d])
      /\ disp[d] \in DispatcherStates /\ r # NoRun
  BY DEF Shape, TypeOK, DispatcherShape, Runs, NoRun
<1>1. disp[d].pc \in {"posting", "save", "diagnose"}
  BY <1>0 DEF Shaped
<1>2. ASSUME NEW e \in Dispatchers, Forget(e), \E p : disp' = [disp EXCEPT ![e] = p]
      PROVE  r \in unheard'
  BY <1>0, <1>2 DEF Forget
<1>3. ASSUME NEW e \in Dispatchers, faults' = faults,
             \E p : disp' = [disp EXCEPT ![e] = p] /\ p.pc # "diagnose"
      PROVE  FALSE
  BY <1>0, <1>3
<1>4. ASSUME NEW e \in Dispatchers, disp[e].pc \in {"idle", "loop", "select"},
             \E p : disp' = [disp EXCEPT ![e] = p]
      PROVE  FALSE
  BY <1>0, <1>1, <1>4
<1>5. ASSUME NEW e \in Dispatchers,
             SaveDiagnostic(e) \/ SaveDispatched(e) \/ DeliveryAccepted(e) \/ AcceptTask(e)
      PROVE  FALSE
  <2>1. disp[e] \in DispatcherStates
    BY <1>0
  <2>2. Resume(disp[e]).pc # "diagnose"
    BY <2>1, ResumeIdle
  <2>3. CASE SaveDiagnostic(e) \/ SaveDispatched(e)
    BY <1>3, <2>2, <2>3 DEF SaveDiagnostic, SaveDispatched
  <2>4. CASE DeliveryAccepted(e)
    <3>1. disp' = [disp EXCEPT ![e] = [disp[e] EXCEPT !.pc = "save"]] /\ faults' = faults
      BY <2>4 DEF DeliveryAccepted
    <3> QED
      BY <1>3, <2>1, <3>1 DEF DispatcherStates
  <2>5. CASE AcceptTask(e)
    <3>1. PICK q : disp' = [disp EXCEPT ![e] = [disp[e] EXCEPT !.delivered = q]]
      BY <2>5 DEF AcceptTask
    <3>2. disp[e].pc = "posting" /\ faults' = faults
      BY <2>5 DEF AcceptTask
    <3> QED
      BY <1>3, <2>1, <3>1, <3>2 DEF DispatcherStates
  <2> QED
    BY <1>5, <2>3, <2>4, <2>5
<1>6. ASSUME NEW e \in Dispatchers,
             \/ RefreshTask(e) \/ SelectWorker(e) \/ ListPending(e)
             \/ \E t \in Tasks : CreateDemoTask(t, e)
      PROVE  FALSE
  BY <1>0, <1>4, <1>6 DEF RefreshTask, SelectWorker, ListPending, CreateDemoTask
<1>7. ASSUME NEW e \in Dispatchers, DeliveryRefused(e) \/ DeliveryTimesOut(e) \/ DispatcherDies(e)
      PROVE  r \in unheard'
  <2>1. Forget(e) /\ \E p : disp' = [disp EXCEPT ![e] = p]
    BY <1>7 DEF DeliveryRefused, DeliveryTimesOut, DispatcherDies
  <2> QED
    BY <1>2, <2>1
<1> QED
  BY <1>5, <1>6, <1>7
     DEF Next, vars, DispatchStep, RunStep, CallbackStep, CreateTask, BecomeDue, StartRun,
         AnnounceReturns, EngineEnds, ReportReturns, RunAborts, RunningArrives, RunningSaves,
         ResultArrives, ResultCommits, SendHeartbeat, Crash, StartAgent, Register,
         ApplyHeartbeat, FallSilent, MarkStale, Dispatchers

\* Two dispatchers that come to have one task are in the history.
LEMMA ContestRecorded ==
  ASSUME Shape, [Next]_vars, NEW t \in Tasks, NEW d \in Dispatchers, NEW e \in Dispatchers,
         d # e, On(d, t)', On(e, t)'
  PROVE  t \in contested' \/ (On(d, t) /\ On(e, t))
<1> USE DEF On
<1>0. /\ disp \in [Dispatchers -> DispatcherStates] /\ t # NoTask
      /\ \A x \in Dispatchers : disp[x] \in DispatcherStates
  BY TasksAssumption DEF Shape, TypeOK, NoTask
<1>1. ASSUME NEW x \in Dispatchers, RefreshTask(x)
      PROVE  t \in contested' \/ (On(d, t) /\ On(e, t))
  <2>1. \A y \in Dispatchers \ {x} : disp'[y] = disp[y]
    BY <1>0, <1>1 DEF RefreshTask
  <2>2. \A y \in Dispatchers \ {x} : disp'[x].task = t /\ disp[y].task = t => t \in contested'
    BY <1>1 DEF RefreshTask
  <2> QED
    BY <2>1, <2>2
<1>2. ASSUME NEW x \in Dispatchers,
             \E p : disp' = [disp EXCEPT ![x] = p] /\ p.task \in {disp[x].task, NoTask}
      PROVE  On(d, t) /\ On(e, t)
  BY <1>0, <1>2
<1>3. ASSUME NEW x \in Dispatchers,
             \/ ListPending(x) \/ SelectWorker(x) \/ DeliveryAccepted(x)
             \/ DeliveryRefused(x) \/ DeliveryTimesOut(x) \/ AcceptTask(x)
             \/ \E u \in Tasks : CreateDemoTask(u, x)
      PROVE  On(d, t) /\ On(e, t)
  <2>1. disp[x] \in DispatcherStates
    BY <1>0
  <2>2. ASSUME ListPending(x) \/ \E u \in Tasks : CreateDemoTask(u, x)
        PROVE  \E S : disp' = [disp EXCEPT ![x] = [disp[x] EXCEPT !.pc = "loop", !.todo = S]]
    BY <2>2 DEF ListPending, CreateDemoTask
  <2>3. ASSUME SelectWorker(x)
        PROVE  \/ \E w : disp' = [disp EXCEPT ![x] = [disp[x] EXCEPT !.pc = "posting", !.worker = w]]
               \/ disp' = [disp EXCEPT ![x] = [disp[x] EXCEPT !.pc = "diagnose"]]
    BY <2>3 DEF SelectWorker
  <2>4. ASSUME DeliveryAccepted(x) \/ DeliveryRefused(x) \/ DeliveryTimesOut(x)
        PROVE  \E c : disp' = [disp EXCEPT ![x] = [disp[x] EXCEPT !.pc = c]]
    BY <2>4 DEF DeliveryAccepted, DeliveryRefused, DeliveryTimesOut
  <2>5. ASSUME AcceptTask(x)
        PROVE  \E r : disp' = [disp EXCEPT ![x] = [disp[x] EXCEPT !.delivered = r]]
    BY <2>5 DEF AcceptTask
  <2>6. \A c, r : /\ [disp[x] EXCEPT !.pc = c].task = disp[x].task
                 /\ [disp[x] EXCEPT !.delivered = r].task = disp[x].task
    BY <2>1 DEF DispatcherStates
  <2>7. CASE ListPending(x) \/ \E u \in Tasks : CreateDemoTask(u, x)
    <3>1. PICK S : disp' = [disp EXCEPT ![x] = [disp[x] EXCEPT !.pc = "loop", !.todo = S]]
      BY <2>2, <2>7
    <3> DEFINE p == [disp[x] EXCEPT !.pc = "loop", !.todo = S]
    <3>2. disp' = [disp EXCEPT ![x] = p] /\ p.task = disp[x].task
      BY <2>1, <3>1 DEF DispatcherStates
    <3> HIDE DEF p
    <3> QED
      BY <1>2, <3>2
  <2>8. CASE SelectWorker(x)
    <3>1. CASE \E w : disp' = [disp EXCEPT ![x] = [disp[x] EXCEPT !.pc = "posting", !.worker = w]]
      <4>1. PICK w : disp' = [disp EXCEPT ![x] = [disp[x] EXCEPT !.pc = "posting", !.worker = w]]
        BY <3>1
      <4> DEFINE p == [disp[x] EXCEPT !.pc = "posting", !.worker = w]
      <4>2. disp' = [disp EXCEPT ![x] = p] /\ p.task = disp[x].task
        BY <2>1, <4>1 DEF DispatcherStates
      <4> HIDE DEF p
      <4> QED
        BY <1>2, <4>2
    <3>2. CASE disp' = [disp EXCEPT ![x] = [disp[x] EXCEPT !.pc = "diagnose"]]
      BY <1>2, <2>6, <3>2
    <3> QED
      BY <2>3, <2>8, <3>1, <3>2
  <2>9. CASE DeliveryAccepted(x) \/ DeliveryRefused(x) \/ DeliveryTimesOut(x)
    BY <1>2, <2>4, <2>6, <2>9
  <2>10. CASE AcceptTask(x)
    BY <1>2, <2>5, <2>6, <2>10
  <2> QED
    BY <1>3, <2>7, <2>8, <2>9, <2>10
<1>4. ASSUME NEW x \in Dispatchers, SaveDiagnostic(x) \/ SaveDispatched(x) \/ DispatcherDies(x)
      PROVE  On(d, t) /\ On(e, t)
  <2>1. disp[x] \in DispatcherStates
    BY <1>0
  <2>2. Resume(disp[x]).task = NoTask /\ IdleDispatcher.task = NoTask
    BY <2>1 DEF Resume, IdleDispatcher, DispatcherStates
  <2>3. \E p : disp' = [disp EXCEPT ![x] = p] /\ p.task = NoTask
    BY <1>4, <2>2 DEF SaveDiagnostic, SaveDispatched, DispatcherDies
  <2> QED
    BY <1>2, <2>3
<1>5. CASE UNCHANGED disp
  BY <1>5
<1> QED
  BY <1>1, <1>3, <1>4, <1>5
     DEF Next, vars, dispatchVars, DispatchStep, RunStep, CallbackStep, CreateTask, BecomeDue,
         StartRun, AnnounceReturns, EngineEnds, ReportReturns, RunAborts, RunningArrives,
         RunningSaves, ResultArrives, ResultCommits, SendHeartbeat, Crash, StartAgent,
         Register, ApplyHeartbeat, FallSilent, MarkStale, Dispatchers

(***************************************************************************)
(* What a step can do to dispatcher d.                                     *)
(***************************************************************************)
\* It takes up t, which is pending.
Takes(d, t) ==
  /\ disp[d].pc = "loop" /\ disp'[d].pc = "select" /\ disp'[d].delivered = NoRun
  /\ disp'[d].task = t /\ task[t].status = "pending" /\ task' = task

\* It goes on with the task it has.
GoesOn(d) ==
  /\ disp'[d].task = disp[d].task /\ disp'[d].delivered = disp[d].delivered
  /\ disp'[d].pc \in {"select", "posting", "diagnose"} => disp[d].pc \in {"select", "posting"}

\* It is done with its task, and has recorded its delivery but for a fault.
Leaves(d) ==
  /\ disp'[d].pc \in {"idle", "loop"} /\ disp'[d].delivered = NoRun /\ disp'[d].task = NoTask
  /\ \/ disp[d].delivered = NoRun \/ disp[d].pc = "diagnose" \/ Faulty
     \/ \A t \in Tasks : disp[d].task = t => task'[t].status = "dispatched"

Moves(d) == (\E t \in Tasks : Takes(d, t)) \/ GoesOn(d) \/ Leaves(d)

\* These are all, but for the acceptance of its delivery.
LEMMA DispatcherMoves ==
  ASSUME Shape, [Next]_vars, \A d \in Dispatchers : ~ AcceptTask(d)
  PROVE  UNCHANGED disp \/ \E d \in Dispatchers : OnlyStep(d) /\ Moves(d)
<1> USE DEF Moves, OnlyStep, dispatchVars
<1>0. /\ disp \in [Dispatchers -> DispatcherStates] /\ task \in [Tasks -> TaskRows]
      /\ \A d \in Dispatchers : Shaped(disp[d]) /\ disp[d] \in DispatcherStates
      /\ faults \in Nat
  BY BoundsAssumption DEF Shape, TypeOK, DispatcherShape
<1>1. ASSUME NEW d \in Dispatchers, (\E u \in Tasks : CreateDemoTask(u, d)) \/ ListPending(d)
      PROVE  OnlyStep(d) /\ Moves(d)
  <2>1. PICK S : disp' = [disp EXCEPT ![d] = [disp[d] EXCEPT !.pc = "loop", !.todo = S]]
    BY <1>0, <1>1 DEF CreateDemoTask, ListPending
  <2> QED
    BY <1>0, <2>1 DEF GoesOn, DispatcherStates
<1>2. ASSUME NEW d \in Dispatchers, RefreshTask(d) PROVE OnlyStep(d) /\ Moves(d)
  <2> DEFINE rest(u) == [disp[d] EXCEPT !.todo = @ \ {u}]
  <2>1. PICK u \in disp[d].todo :
          disp' = [disp EXCEPT ![d] = IF task[u].status = "pending"
                                      THEN [rest(u) EXCEPT !.pc = "select", !.task = u]
                                      ELSE Resume(rest(u))]
    BY <1>2 DEF RefreshTask
  <2>2. rest(u) \in DispatcherStates /\ u \in Tasks /\ rest(u).delivered = disp[d].delivered
    BY <1>0 DEF DispatcherStates
  <2> HIDE DEF rest
  <2>3. disp[d].pc = "loop" /\ disp[d].delivered = NoRun /\ task' = task
    BY <1>0, <1>2 DEF RefreshTask, Shaped, taskVars
  <2>4. OnlyStep(d)
    BY <1>0, <2>1
  <2>5. CASE task[u].status = "pending"
    <3>1. disp'[d] = [rest(u) EXCEPT !.pc = "select", !.task = u]
      BY <1>0, <2>1, <2>5
    <3>2. disp'[d].pc = "select" /\ disp'[d].task = u /\ disp'[d].delivered = NoRun
      BY <2>2, <2>3, <3>1 DEF DispatcherStates
    <3> QED
      BY <2>2, <2>3, <2>4, <2>5, <3>2 DEF Takes
  <2>6. CASE task[u].status # "pending"
    <3>1. disp'[d] = Resume(rest(u))
      BY <1>0, <2>1, <2>6
    <3>2. disp'[d].task = NoTask
      BY <2>2, <3>1 DEF Resume, DispatcherStates
    <3> QED
      BY <2>2, <2>3, <2>4, <3>1, <3>2, ResumeIdle DEF Leaves
  <2> QED
    BY <2>5, <2>6
<1>3. ASSUME NEW d \in Dispatchers, SelectWorker(d) PROVE OnlyStep(d) /\ Moves(d)
  <2>1. disp[d].pc = "select"
    BY <1>3 DEF SelectWorker
  <2>2. CASE \E w \in Available(disp[d].task) :
               disp' = [disp EXCEPT ![d].pc = "posting", ![d].worker = w]
    <3>1. PICK w : disp' = [disp EXCEPT ![d] = [disp[d] EXCEPT !.pc = "posting", !.worker = w]]
      BY <1>0, <2>2
    <3> QED
      BY <1>0, <2>1, <3>1 DEF GoesOn, DispatcherStates
  <2>3. CASE disp' = [disp EXCEPT ![d].pc = "diagnose"]
    BY <1>0, <2>1, <2>3 DEF GoesOn, DispatcherStates
  <2> QED
    BY <1>3, <2>2, <2>3 DEF SelectWorker
<1>4. ASSUME NEW d \in Dispatchers,
             DeliveryAccepted(d) \/ DeliveryRefused(d) \/ DeliveryTimesOut(d)
      PROVE  OnlyStep(d) /\ Moves(d)
  <2>1. PICK p \in {"save", "diagnose"} : disp' = [disp EXCEPT ![d].pc = p]
    BY <1>4 DEF DeliveryAccepted, DeliveryRefused, DeliveryTimesOut
  <2>2. disp[d].pc = "posting"
    BY <1>4 DEF DeliveryAccepted, DeliveryRefused, DeliveryTimesOut
  <2> QED
    BY <1>0, <2>1, <2>2 DEF GoesOn, DispatcherStates
<1>5. ASSUME NEW d \in Dispatchers, SaveDiagnostic(d) \/ SaveDispatched(d)
      PROVE  OnlyStep(d) /\ Moves(d)
  <2>1. disp' = [disp EXCEPT ![d] = Resume(disp[d])]
    BY <1>5 DEF SaveDiagnostic, SaveDispatched
  <2>2. OnlyStep(d) /\ disp'[d] = Resume(disp[d])
    BY <1>0, <2>1
  <2>3. disp'[d].task = NoTask
    BY <1>0, <2>2 DEF Resume, DispatcherStates
  <2>4. CASE SaveDiagnostic(d)
    BY <1>0, <2>2, <2>3, <2>4, ResumeIdle DEF Leaves, SaveDiagnostic
  <2>5. CASE SaveDispatched(d)
    <3>1. \A t \in Tasks : disp[d].task = t => task'[t].status = "dispatched"
      BY <1>0, <2>5 DEF SaveDispatched, TaskRows
    <3> QED
      BY <1>0, <2>2, <2>3, <3>1, ResumeIdle DEF Leaves
  <2> QED
    BY <1>5, <2>4, <2>5
<1>6. ASSUME NEW d \in Dispatchers, DispatcherDies(d) PROVE OnlyStep(d) /\ Moves(d)
  <2>1. disp' = [disp EXCEPT ![d] = IdleDispatcher] /\ Faulty
    BY <1>0, <1>6 DEF DispatcherDies, Fault, Faulty
  <2> QED
    BY <1>0, <2>1 DEF Leaves, IdleDispatcher
<1>7. CASE UNCHANGED vars
  BY <1>7 DEF vars
<1> QED
  BY <1>1, <1>2, <1>3, <1>4, <1>5, <1>6, <1>7
     DEF Next, DispatchStep, RunStep, CallbackStep, CreateTask, BecomeDue, StartRun,
         AnnounceReturns, EngineEnds, ReportReturns, RunAborts, RunningArrives, RunningSaves,
         ResultArrives, ResultCommits, SendHeartbeat, Crash, StartAgent, Register,
         ApplyHeartbeat, FallSilent, MarkStale, Dispatchers

\* A run belongs to its task for good, and a task is not clean again.
LEMMA CleanLost ==
  ASSUME Shape, [Next]_vars, NEW t \in Tasks, Clean(t)'
  PROVE  Clean(t)
BY HistoryGrows, TrustLost DEF Clean

\* While a task stays clean its delivery is not given up on.
LEMMA DeliveryKept ==
  ASSUME Shape, [Next]_vars, NEW t \in Tasks, Clean(t)', Careful(t), NEW d \in Dispatchers,
         On(d, t), Delivering(d), Moves(d)
  PROVE  \/ On(d, t)' /\ Delivering(d)' /\ disp'[d].pc # "diagnose"
         \/ ~ Untaken(t)' /\ ~ On(d, t)'
<1>0. Shaped(disp[d]) /\ disp[d] \in DispatcherStates /\ t # NoTask
  BY TasksAssumption DEF Shape, DispatcherShape, TypeOK, NoTask
<1>1. PICK r \in Runs : disp[d].delivered = r /\ r \in RunsOf(t) /\ r # NoRun
  BY <1>0 DEF Delivering, On, Shaped, DispatcherStates, RunsOf
<1>2. ~ DeliveryForgotten(d, r)
  BY <1>1, ForgottenRecorded, TrustLost DEF Clean
<1>3. ~ \E u \in Tasks : Takes(d, u)
  BY <1>0 DEF Takes, Shaped, Delivering
<1>4. CASE GoesOn(d)
  <2>1. On(d, t)' /\ Delivering(d)'
    BY <1>4 DEF GoesOn, On, Delivering
  <2>2. disp'[d].pc = "diagnose" => DeliveryForgotten(d, r)
    BY <1>1, <1>4 DEF GoesOn, DeliveryForgotten
  <2> QED
    BY <1>2, <2>1, <2>2
<1>5. CASE Leaves(d)
  <2>1. ~ Faulty
    BY <1>1, <1>2, <1>5 DEF Leaves, DeliveryForgotten
  <2>2. disp[d].pc # "diagnose"
    BY DEF Careful
  <2>3. task'[t].status = "dispatched" /\ ~ On(d, t)'
    BY <1>0, <1>1, <1>5, <2>1, <2>2 DEF Leaves, On
  <2> QED
    BY <2>3 DEF Untaken
<1> QED
  BY <1>3, <1>4, <1>5 DEF Moves

\* Every step keeps the dispatchers' knowledge of a task that stays clean.
LEMMA CarefulStep ==
  ASSUME Shape, [Next]_vars, NEW t \in Tasks, Clean(t)', Careful(t)
  PROVE  Careful(t)'
<1>0. /\ disp \in [Dispatchers -> DispatcherStates] /\ t # NoTask
      /\ \A d \in Dispatchers : Shaped(disp[d]) /\ disp[d] \in DispatcherStates
  BY TasksAssumption DEF Shape, TypeOK, DispatcherShape, NoTask
<1>1. Untaken(t)' => Untaken(t)
  BY UntakenKept
<1>2. \A d, e \in Dispatchers : On(d, t)' /\ On(e, t)' => d = e
  BY ContestRecorded DEF Clean, Careful
<1>3. ASSUME \A q \in Runs : run'[q].task = run[q].task PROVE RunsOf(t)' = RunsOf(t)
  BY <1>3 DEF RunsOf
<1>4. CASE UNCHANGED disp /\ RunsOf(t)' = RunsOf(t)
  BY <1>1, <1>4 DEF Careful, On, Delivering, Undelivered
<1>5. ASSUME NEW d \in Dispatchers, OnlyStep(d), Moves(d), RunsOf(t)' = RunsOf(t)
      PROVE  Careful(t)'
  <2>1. \A e \in Dispatchers \ {d} :
          /\ On(e, t)' <=> On(e, t)
          /\ Delivering(e)' <=> Delivering(e)
          /\ Undelivered(e)' <=> Undelivered(e)
          /\ disp'[e].pc = disp[e].pc
    BY <1>5 DEF OnlyStep, On, Delivering, Undelivered
  <2>2. ASSUME On(d, t)', disp'[d].pc = "diagnose" PROVE ~ Delivering(d)'
    <3>1. GoesOn(d) /\ On(d, t)
      BY <1>5, <2>2 DEF Moves, Takes, Leaves, GoesOn, On
    <3>2. Delivering(d)' => Delivering(d)
      BY <3>1 DEF GoesOn, Delivering
    <3> QED
      BY <1>5, <2>2, <3>1, <3>2, DeliveryKept
  <2>3. ASSUME Untaken(t)', RunsOf(t) # {}
        PROVE  \E e \in Dispatchers : On(e, t)' /\ Delivering(e)'
    <3>1. PICK e \in Dispatchers : On(e, t) /\ Delivering(e)
      BY <1>1, <2>3 DEF Careful
    <3>2. CASE e = d
      BY <1>5, <2>3, <3>1, <3>2, DeliveryKept
    <3>3. CASE e # d
      BY <2>1, <3>1, <3>3
    <3> QED
      BY <3>2, <3>3
  <2>4. ASSUME On(d, t)', Undelivered(d)' PROVE RunsOf(t) = {}
    <3>1. CASE \E u \in Tasks : Takes(d, u)
      <4>1. Takes(d, t)
        BY <2>4, <3>1 DEF Takes, On
      <4>2. Untaken(t)' /\ ~ Delivering(d)'
        BY <4>1 DEF Takes, Untaken, Delivering
      <4>3. ASSUME RunsOf(t) # {} PROVE FALSE
        <5>1. PICK e \in Dispatchers : On(e, t)' /\ Delivering(e)'
          BY <2>3, <4>2, <4>3
        <5> QED
          BY <1>2, <2>4, <4>2, <5>1
      <4> QED
        BY <4>3
    <3>2. CASE GoesOn(d)
      <4>1. On(d, t) /\ Undelivered(d)
        BY <2>4, <3>2 DEF GoesOn, On, Undelivered, Delivering
      <4> QED
        BY <4>1 DEF Careful
    <3>3. CASE Leaves(d)
      BY <1>0, <2>4, <3>3 DEF Leaves, On
    <3> QED
      BY <1>5, <3>1, <3>2, <3>3 DEF Moves
  <2>5. \A e \in Dispatchers : On(e, t)' /\ disp'[e].pc = "diagnose" => ~ Delivering(e)'
    BY <2>1, <2>2 DEF Careful
  <2>6. \A e \in Dispatchers : On(e, t)' /\ Undelivered(e)' => RunsOf(t)' = {}
    BY <1>5, <2>1, <2>4 DEF Careful
  <2> QED
    BY <1>2, <1>5, <2>3, <2>5, <2>6 DEF Careful
<1>6. ASSUME NEW d \in Dispatchers, AcceptTask(d) PROVE Careful(t)'
  <2>1. PICK r \in Runs : disp' = [disp EXCEPT ![d] = [disp[d] EXCEPT !.delivered = r]]
    BY <1>0, <1>6 DEF AcceptTask
  <2>2. /\ disp'[d].task = disp[d].task /\ disp'[d].pc = "posting" /\ disp'[d].delivered # NoRun
        /\ disp[d].pc = "posting" /\ disp[d].delivered = NoRun
        /\ \A e \in Dispatchers \ {d} : disp'[e] = disp[e]
    BY <1>0, <1>6, <2>1 DEF AcceptTask, DispatcherStates, Runs, NoRun
  <2>3. \A e \in Dispatchers \ {d} :
          /\ On(e, t)' <=> On(e, t)
          /\ Delivering(e)' <=> Delivering(e)
          /\ Undelivered(e)' <=> Undelivered(e)
          /\ disp'[e].pc = disp[e].pc
    BY <2>2 DEF On, Delivering, Undelivered
  <2>4. Delivering(d)' /\ ~ Undelivered(d)' /\ (On(d, t)' <=> On(d, t)) /\ Undelivered(d)
    BY <2>2 DEF Delivering, Undelivered, On
  <2>5. CASE disp[d].task = t
    <3>1. On(d, t) /\ On(d, t)'
      BY <2>4, <2>5 DEF On
    <3>2. \A e \in Dispatchers : On(e, t)' => e = d
      BY <1>2, <3>1
    <3> QED
      BY <1>2, <2>2, <2>4, <3>1, <3>2 DEF Careful
  <2>6. CASE disp[d].task # t
    <3>1. RunsOf(t)' = RunsOf(t)
      <4>1. run \in [Runs -> RunStates] /\ \A q \in Runs : RunShaped(q)
        BY DEF Shape, TypeOK, RunShape
      <4> QED
        BY <1>0, <1>6, <2>6, <4>1 DEF AcceptTask, RunStates, RunsOf, RunShaped
    <3>2. ~ On(d, t) /\ ~ On(d, t)'
      BY <2>4, <2>6 DEF On
    <3> QED
      BY <1>1, <1>2, <2>3, <3>1, <3>2 DEF Careful
  <2> QED
    BY <2>5, <2>6
<1>7. ASSUME \A d \in Dispatchers : ~ AcceptTask(d) PROVE Careful(t)'
  <2>1. RunsOf(t)' = RunsOf(t)
    BY <1>1, <1>3, <1>7, RunTasks
  <2> QED
    BY <1>1, <1>4, <1>5, <1>7, <2>1, DispatcherMoves
<1> QED
  BY <1>6, <1>7

ErrorInv == CarefulInv /\ ErrorIsOfTheRun

\* Every step keeps the errors of decided rows.
LEMMA ErrorStep ==
  ASSUME Shape, VerdictInv, ErrorInv, [Next]_vars
  PROVE  ErrorInv'
<1>1. ASSUME NEW t \in Tasks, Clean(t)' PROVE Clean(t) /\ Careful(t) /\ Careful(t)'
  BY <1>1, CleanLost, CarefulStep DEF ErrorInv, CarefulInv
<1>2. ASSUME NEW t \in Tasks, task'[t].status \in Verdicts, Clean(t)'
      PROVE  task'[t].error = IF task'[t].status = "failed" THEN "run" ELSE ""
  <2>1. RowWrite(t) /\ Clean(t) /\ Careful(t)
    BY <1>1, <1>2, RowWrites
  <2>2. ~ (Created(t) \/ Dispatched(t) \/ Noticed(t))
    BY <1>2 DEF Created, Dispatched, Noticed, Verdicts
  <2>3. ~ Diagnosed(t)
    <3>1. SUFFICES ASSUME Diagnosed(t) PROVE FALSE
      OBVIOUS
    <3>2. RunsOf(t) = {}
      BY <2>1, <3>1 DEF Diagnosed, Careful, On, Undelivered
    <3>3. task[t].status \in Verdicts
      BY <1>2, <3>1 DEF Diagnosed
    <3>4. result[t] \in Runs /\ run[result[t]].task = t
      BY <3>3 DEF VerdictInv, Recorded, HasResult, Shape, TypeOK
    <3> QED
      BY <3>2, <3>4 DEF RunsOf
  <2>4. CASE Decided(t)
    BY <2>4 DEF Decided
  <2>5. CASE task'[t] = task[t]
    BY <1>2, <2>1, <2>5 DEF ErrorInv, ErrorIsOfTheRun, Clean
  <2> QED
    BY <2>1, <2>2, <2>3, <2>4, <2>5 DEF RowWrite
<1> QED
  BY <1>1, <1>2 DEF ErrorInv, CarefulInv, ErrorIsOfTheRun, Clean

\* A decided row shows the error of its run and no diagnostic of a delivery,
\* unless a delivery that the agent took was given up on or two processes
\* dispatched the task at once: for any number of dispatchers, and whatever
\* the faults.
THEOREM ErrorsAreOfTheRun == Spec => []ErrorIsOfTheRun
<1>1. Init => ErrorInv
  <2> SUFFICES ASSUME Init PROVE ErrorInv
    OBVIOUS
  <2>1. ASSUME NEW t \in Tasks
        PROVE  task[t].status \notin Verdicts /\ RunsOf(t) = {} /\ \A d \in Dispatchers : ~ On(d, t)
    BY TasksAssumption DEF Init, AbsentTask, Verdicts, RunsOf, UnusedRun, On, IdleDispatcher, NoTask
  <2> QED
    BY <2>1 DEF ErrorInv, CarefulInv, Careful, ErrorIsOfTheRun
<1>2. Shape /\ VerdictInv /\ ErrorInv /\ [Next]_vars => ErrorInv'
  BY ErrorStep
<1>3. ErrorInv => ErrorIsOfTheRun
  BY DEF ErrorInv
<1> QED
  BY <1>1, <1>2, <1>3, InitShape, ShapeStep, VerdictInit, VerdictStep, PTL DEF Spec

-----------------------------------------------------------------------------
(***************************************************************************)
(* TaskLifecycle implements TaskOutcome.  Three kinds of step are steps of *)
(* TaskOutcome: the creation of a row, the acceptance of a delivery and    *)
(* the commit of a result.  Every other step leaves phase and verdict as   *)
(* they are.  Besides Shape and VerdictInv this needs Known: nobody works  *)
(* on a task without a row.                                                *)
(***************************************************************************)
Absent(t) == task[t].status = "absent"

KnownTo(d) ==
  /\ \A t \in disp[d].todo : ~ Absent(t)
  /\ disp[d].task # NoTask => ~ Absent(disp[d].task)

Known ==
  /\ \A d \in Dispatchers : KnownTo(d)
  /\ \A r \in Runs : run[r].task # NoTask => ~ Absent(run[r].task)

RefInv == Shape /\ VerdictInv /\ Known

-----------------------------------------------------------------------------
\* A row that is there stays, and only CreateRow makes one appear.
LEMMA RowsStay ==
  ASSUME RefInv, [Next]_vars
  PROVE  \A t \in Tasks : Absent(t)' = Absent(t) \/ Created(t)
<1> SUFFICES ASSUME NEW t \in Tasks, ~ Created(t) PROVE Absent(t)' = Absent(t)
  OBVIOUS
<1>0. NoTask \notin Tasks
  BY TasksAssumption DEF NoTask
<1>1. RowWrite(t)
  BY RowWrites DEF RefInv
<1>2. CASE task'[t] = task[t] \/ Diagnosed(t)
  BY <1>2 DEF Absent, Diagnosed
<1>3. CASE Dispatched(t)
  <2>1. ~ Absent(t)
    BY <1>0, <1>3 DEF RefInv, Known, KnownTo, Dispatched
  <2> QED
    BY <1>3, <2>1 DEF Absent, Dispatched
<1>4. CASE Noticed(t)
  <2>1. ~ Absent(t)
    BY <1>0, <1>4 DEF RefInv, Known, Noticed
  <2> QED
    BY <1>4, <2>1 DEF Absent, Noticed
<1>5. CASE Decided(t)
  <2>1. PICK r \in Runs : run[r].task = t /\ report[r].pc = "checked"
                          /\ task'[t].status = run[r].outcome
    BY <1>5 DEF Decided
  <2>2. ~ Absent(t)
    BY <1>0, <2>1 DEF RefInv, Known
  <2>3. run[r].outcome \in Verdicts
    BY <2>1 DEF RefInv, Shape, RunShape, RunShaped
  <2> QED
    BY <2>1, <2>2, <2>3 DEF Absent, Verdicts
<1> QED
  BY <1>1, <1>2, <1>3, <1>4, <1>5 DEF RowWrite

\* No row is deleted.
LEMMA NeverAbsentAgain ==
  ASSUME RefInv, [Next]_vars
  PROVE  \A t \in Tasks : ~ Absent(t) => ~ Absent(t)'
BY RowsStay DEF Created, Absent

\* A dispatcher takes up tasks that have rows, or those it had.
LEMMA DispatcherTasks ==
  ASSUME RefInv, [Next]_vars, NEW e \in Dispatchers
  PROVE  /\ \A t \in disp'[e].todo : t \in disp[e].todo \/ ~ Absent(t)'
         /\ disp'[e].task \in {disp[e].task, NoTask} \cup disp[e].todo
<1> USE DEF dispatchVars
<1>0. disp \in [Dispatchers -> DispatcherStates]
  BY DEF RefInv, Shape, TypeOK
<1>1. CASE disp'[e] = disp[e]
  BY <1>1
<1>2. ASSUME NEW t \in Tasks, NEW d \in WebThreads, CreateDemoTask(t, d), disp'[e] # disp[e]
      PROVE  disp'[e].todo = {t} /\ ~ Absent(t)' /\ disp'[e].task = disp[e].task
  <2>1. task[t] \in TaskRows /\ task \in [Tasks -> TaskRows]
    BY DEF RefInv, Shape, TypeOK
  <2>2. ~ Absent(t)'
    BY <1>2, <2>1 DEF CreateDemoTask, CreateRow, Absent, TaskRows
  <2> QED
    BY <1>0, <1>2, <2>2 DEF CreateDemoTask, DispatcherStates
<1>3. ASSUME NEW d \in Schedulers, ListPending(d), disp'[e] # disp[e]
      PROVE  disp'[e].task = disp[e].task /\ \A t \in disp'[e].todo : ~ Absent(t)'
  <2> DEFINE pending == {t \in due : task[t].status = "pending"}
  <2>1. task' = task /\ \A t \in pending : ~ Absent(t)
    BY <1>3 DEF ListPending, Absent, taskVars
  <2> HIDE DEF pending
  <2>2. disp' = [disp EXCEPT ![d].pc = "loop", ![d].todo = pending]
    BY <1>3 DEF ListPending, pending
  <2>3. disp'[e].todo = pending /\ disp'[e].task = disp[e].task
    BY <1>0, <1>3, <2>2 DEF DispatcherStates
  <2> QED
    BY <2>1, <2>3 DEF Absent
<1>4. ASSUME NEW d \in Dispatchers, RefreshTask(d), disp'[e] # disp[e]
      PROVE  disp'[e].todo \subseteq disp[e].todo /\ disp'[e].task \in disp[e].todo \cup {NoTask}
  <2>1. PICK t \in disp[d].todo :
          LET rest == [disp[d] EXCEPT !.todo = @ \ {t}] IN
          disp' = [disp EXCEPT ![d] = IF task[t].status = "pending"
                                      THEN [rest EXCEPT !.pc = "select", !.task = t]
                                      ELSE Resume(rest)]
    BY <1>4 DEF RefreshTask
  <2> DEFINE rest == [disp[d] EXCEPT !.todo = @ \ {t}]
             picked == [rest EXCEPT !.pc = "select", !.task = t]
  <2>2. e = d /\ disp'[e] \in {picked, Resume(rest)}
    <3> HIDE DEF rest
    <3> QED
      BY <1>0, <1>4, <2>1 DEF rest
  <2>3. disp[d] \in DispatcherStates /\ rest.todo = disp[d].todo \ {t} /\ rest \in DispatcherStates
    BY <1>0 DEF DispatcherStates
  <2>4. picked.todo = rest.todo /\ picked.task = t
    <3> HIDE DEF rest
    <3> QED
      BY <2>3 DEF DispatcherStates
  <2>5. Resume(rest).todo = rest.todo /\ Resume(rest).task = NoTask
    <3> HIDE DEF rest
    <3> QED
      BY <2>3 DEF Resume, DispatcherStates
  <2> QED
    BY <2>2, <2>3, <2>4, <2>5
<1>5. ASSUME NEW d \in Dispatchers,
             \/ SelectWorker(d) \/ DeliveryAccepted(d) \/ DeliveryRefused(d)
             \/ DeliveryTimesOut(d) \/ AcceptTask(d)
      PROVE  disp'[e].todo = disp[e].todo /\ disp'[e].task = disp[e].task
  <2>1. CASE SelectWorker(d)
    BY <1>0, <2>1 DEF SelectWorker, DispatcherStates
  <2>2. CASE DeliveryAccepted(d) \/ DeliveryRefused(d) \/ DeliveryTimesOut(d)
    BY <1>0, <2>2 DEF DeliveryAccepted, DeliveryRefused, DeliveryTimesOut, DispatcherStates
  <2>3. CASE AcceptTask(d)
    BY <1>0, <2>3 DEF AcceptTask, DispatcherStates
  <2> QED
    BY <1>5, <2>1, <2>2, <2>3
<1>6. ASSUME NEW d \in Dispatchers,
             SaveDiagnostic(d) \/ SaveDispatched(d) \/ DispatcherDies(d), disp'[e] # disp[e]
      PROVE  disp'[e].todo \subseteq disp[e].todo /\ disp'[e].task = NoTask
  <2>1. e = d /\ disp'[e] \in {Resume(disp[e]), IdleDispatcher}
    BY <1>0, <1>6 DEF SaveDiagnostic, SaveDispatched, DispatcherDies
  <2>2. Resume(disp[e]).todo = disp[e].todo /\ Resume(disp[e]).task = NoTask
    BY <1>0 DEF Resume, DispatcherStates
  <2>3. IdleDispatcher.todo = {} /\ IdleDispatcher.task = NoTask
    BY DEF IdleDispatcher
  <2> QED
    BY <2>1, <2>2, <2>3
<1>7. CASE UNCHANGED vars
  BY <1>7 DEF vars
<1> QED
  BY <1>1, <1>2, <1>3, <1>4, <1>5, <1>6, <1>7
     DEF Next, DispatchStep, RunStep, CallbackStep, CreateTask, BecomeDue, StartRun,
         AnnounceReturns, EngineEnds, ReportReturns, RunAborts, RunningArrives, RunningSaves,
         ResultArrives, ResultCommits, SendHeartbeat, Crash, StartAgent, Register,
         ApplyHeartbeat, FallSilent, MarkStale

\* Nobody works on a task yet.
LEMMA KnownInit == Init => Known
<1> SUFFICES ASSUME Init PROVE Known
  OBVIOUS
<1>1. /\ \A d \in Dispatchers : disp[d].todo = {} /\ disp[d].task = NoTask
      /\ \A r \in Runs : run[r].task = NoTask
  BY DEF Init, IdleDispatcher, UnusedRun
<1> QED
  BY <1>1 DEF Known, KnownTo

\* A dispatcher takes up rows it has read, and a run the task of its dispatcher.
LEMMA KnownStep ==
  ASSUME RefInv, [Next]_vars
  PROVE  Known'
<1>0. /\ \A d \in Dispatchers : disp[d] \in DispatcherStates /\ KnownTo(d)
      /\ \A r \in Runs : run[r] \in RunStates /\ (run[r].task # NoTask => ~ Absent(run[r].task))
  BY DEF RefInv, Shape, TypeOK, Known
<1>1. ASSUME NEW d \in Dispatchers PROVE KnownTo(d)'
  <2>1. disp[d].todo \subseteq Tasks /\ disp[d].task \in Tasks \cup {NoTask}
    BY <1>0 DEF DispatcherStates
  <2>2. \A t \in disp[d].todo : ~ Absent(t)'
    BY <1>0, <2>1, NeverAbsentAgain DEF KnownTo
  <2>3. disp[d].task # NoTask => task'[disp[d].task].status # "absent"
    BY <1>0, <2>1, NeverAbsentAgain DEF KnownTo, Absent
  <2> QED
    BY <2>2, <2>3, DispatcherTasks DEF KnownTo, Absent
<1>2. ASSUME NEW q \in Runs, run'[q].task # NoTask PROVE task'[run'[q].task].status # "absent"
  <2>1. CASE run'[q].task = run[q].task
    BY <1>0, <1>2, <2>1, NeverAbsentAgain DEF RunStates, Absent
  <2>2. CASE run'[q].task # run[q].task
    <3>1. PICK d \in Dispatchers : AcceptTask(d) /\ run'[q].task = disp[d].task
      BY <2>2, RunTasks DEF RefInv
    <3>2. disp[d].task \in Tasks /\ ~ Absent(disp[d].task)
      BY <1>0, <1>2, <3>1 DEF DispatcherStates, KnownTo
    <3> QED
      BY <3>1, <3>2, NeverAbsentAgain DEF Absent
  <2> QED
    BY <2>1, <2>2
<1> QED
  BY <1>1, <1>2 DEF Known, Absent

\* The invariant of the refinement is inductive.
LEMMA RefInvStep == RefInv /\ [Next]_vars => RefInv'
BY ShapeStep, VerdictStep, KnownStep DEF RefInv

-----------------------------------------------------------------------------
(***************************************************************************)
(* The refinement mapping of Outcome, named.                               *)
(***************************************************************************)
Phase(t) == IF Absent(t) THEN "absent" ELSE IF RunsOf(t) = {} THEN "waiting" ELSE "delivered"
Verdict(t) == IF HasResult(t) THEN run[result[t]].outcome ELSE "none"
SamePhase(t) == Phase(t)' = Phase(t)
SameVerdict(t) == Verdict(t)' = Verdict(t)

\* A result that stays keeps its verdict.
LEMMA VerdictStays ==
  ASSUME RefInv, [Next]_vars, NEW t \in Tasks, result'[t] = result[t]
  PROVE  SameVerdict(t)
<1>1. CASE ~ HasResult(t)
  BY <1>1 DEF SameVerdict, Verdict, HasResult
<1>2. CASE HasResult(t)
  <2>1. PICK q \in Runs : q = result[t] /\ report[q].pc # "none"
    BY <1>2 DEF RefInv, Shape, TypeOK, VerdictInv, Recorded, HasResult
  <2>2. run'[q].outcome = run[q].outcome
    BY <2>1, ReportFrame DEF ReportKept, RefInv
  <2> QED
    BY <1>2, <2>1, <2>2 DEF SameVerdict, Verdict, HasResult
<1> QED
  BY <1>1, <1>2

\* A task without a row has no runs.
LEMMA AbsentIdle ==
  ASSUME RefInv, NEW t \in Tasks, Absent(t)
  PROVE  RunsOf(t) = {}
<1>1. t # NoTask
  BY TasksAssumption DEF NoTask
<1> QED
  BY <1>1 DEF RefInv, Known, RunsOf

\* Runs that keep their tasks make no difference to a task that has its row.
LEMMA PhaseStays ==
  ASSUME NEW t, Absent(t)' = Absent(t), \A q \in Runs : run'[q].task = t <=> run[q].task = t
  PROVE  SamePhase(t)
<1>1. RunsOf(t)' = RunsOf(t)
  BY DEF RunsOf
<1> QED
  BY <1>1 DEF SamePhase, Phase

\* The acceptance of a delivery takes one task to "delivered".
LEMMA AcceptSimulates ==
  ASSUME RefInv, [Next]_vars, NEW d \in Dispatchers, AcceptTask(d)
  PROVE  \E t \in Tasks :
           /\ Phase(t) \in {"waiting", "delivered"} /\ Phase(t)' = "delivered"
           /\ \A u \in Tasks \ {t} : SamePhase(u)
           /\ \A u \in Tasks : SameVerdict(u)
<1>0. NoTask \notin Tasks
  BY TasksAssumption DEF NoTask
<1>1. Shaped(disp[d]) /\ KnownTo(d) /\ \A q \in Runs : RunShaped(q)
  BY DEF RefInv, Shape, DispatcherShape, RunShape, Known
<1>2. PICK t \in Tasks : t = disp[d].task
  BY <1>1 DEF Shaped, AcceptTask
<1>3. PICK r \in Runs : /\ run[r].task = NoTask /\ run'[r].task = t
                        /\ \A q \in Runs \ {r} : run'[q].task = run[q].task
  <2>1. run \in [Runs -> RunStates]
    BY DEF RefInv, Shape, TypeOK
  <2> QED
    BY <1>1, <1>2, <2>1 DEF AcceptTask, RunStates, RunShaped
<1>4. task' = task /\ result' = result
  BY DEF AcceptTask, taskVars
<1>5. ~ Absent(t) /\ \A u \in Tasks : Absent(u)' = Absent(u)
  BY <1>0, <1>1, <1>2, <1>4 DEF KnownTo, Absent
<1>6. Phase(t) \in {"waiting", "delivered"}
  BY <1>5 DEF Phase
<1>7. Phase(t)' = "delivered"
  BY <1>3, <1>5 DEF Phase, RunsOf
<1>8. \A u \in Tasks \ {t} : SamePhase(u)
  <2> SUFFICES ASSUME NEW u \in Tasks \ {t} PROVE SamePhase(u)
    OBVIOUS
  <2>1. \A q \in Runs : run'[q].task = u <=> run[q].task = u
    BY <1>0, <1>3
  <2> QED
    BY <1>5, <2>1, PhaseStays
<1>9. \A u \in Tasks : SameVerdict(u)
  BY <1>4, VerdictStays
<1> QED
  BY <1>6, <1>7, <1>8, <1>9

\* The creation of a row takes one task from "absent" to "waiting".
LEMMA CreateSimulates ==
  ASSUME RefInv, [Next]_vars, NEW t \in Tasks, CreateRow(t), result' = result, run' = run
  PROVE  /\ Phase(t) = "absent" /\ Phase(t)' = "waiting"
         /\ \A u \in Tasks \ {t} : SamePhase(u)
         /\ \A u \in Tasks : SameVerdict(u)
<1>1. task \in [Tasks -> TaskRows]
  BY DEF RefInv, Shape, TypeOK
<1>2. Absent(t) /\ ~ Absent(t)' /\ \A u \in Tasks \ {t} : Absent(u)' = Absent(u)
  BY <1>1 DEF CreateRow, Absent, TaskRows
<1>3. RunsOf(t)' = {}
  BY <1>2, AbsentIdle DEF RunsOf
<1>4. Phase(t) = "absent" /\ Phase(t)' = "waiting"
  BY <1>2, <1>3 DEF Phase
<1>5. \A u \in Tasks \ {t} : SamePhase(u)
  BY <1>2, PhaseStays
<1>6. \A u \in Tasks : SameVerdict(u)
  BY VerdictStays
<1> QED
  BY <1>4, <1>5, <1>6

\* The commit of a result decides one task.
LEMMA CommitSimulates ==
  ASSUME RefInv, [Next]_vars, NEW r \in Runs, ResultCommits(r), result' # result
  PROVE  \E t \in Tasks, v \in Verdicts :
           /\ Phase(t) = "delivered" /\ Verdict(t) = "none" /\ Verdict(t)' = v
           /\ \A u \in Tasks : SamePhase(u)
           /\ \A u \in Tasks \ {t} : SameVerdict(u)
<1>0. NoTask \notin Tasks /\ result \in [Tasks -> Runs \cup {NoRun}]
  BY TasksAssumption DEF NoTask, RefInv, Shape, TypeOK
<1>1. report[r].pc = "checked" /\ RunShaped(r)
  BY DEF ResultCommits, RefInv, Shape, RunShape
<1>2. run[r].task \in Tasks /\ run[r].outcome \in Verdicts
  BY <1>1 DEF RunShaped
<1>3. PICK t \in Tasks : t = run[r].task
  BY <1>2
<1>4. /\ ~ HasResult(t) /\ result' = [result EXCEPT ![t] = r] /\ run' = run
  BY <1>3 DEF ResultCommits, agentVars
<1>5. ~ Absent(t)
  BY <1>0, <1>3 DEF RefInv, Known
<1>6. \A u \in Tasks : ~ Created(u)
  <2>1. task \in [Tasks -> TaskRows]
    BY DEF RefInv, Shape, TypeOK
  <2>2. \A u \in Tasks \ {t} : task'[u] = task[u]
    BY <1>3, <2>1 DEF ResultCommits
  <2>3. \A u \in Tasks \ {t} : ~ Created(u)
    BY <2>2 DEF Created
  <2>4. ~ Created(t)
    BY <1>5 DEF Created, Absent
  <2> QED
    BY <2>3, <2>4
<1>7. \A u \in Tasks : SamePhase(u)
  BY <1>4, <1>6, RowsStay, PhaseStays
<1>8. Phase(t) = "delivered"
  BY <1>3, <1>5 DEF Phase, RunsOf
<1>9. Verdict(t) = "none" /\ Verdict(t)' = run[r].outcome
  <2>1. r # NoRun
    BY DEF Runs, NoRun
  <2> QED
    BY <1>0, <1>4, <2>1 DEF Verdict, HasResult
<1>10. \A u \in Tasks \ {t} : SameVerdict(u)
  BY <1>0, <1>4, VerdictStays
<1> QED
  BY <1>2, <1>7, <1>8, <1>9, <1>10

\* Every other step is a stutter.
LEMMA OthersStutter ==
  ASSUME RefInv, [Next]_vars, result' = result, \A d \in Dispatchers : ~ AcceptTask(d),
         \A t \in Tasks : ~ CreateTask(t) /\ \A d \in WebThreads : ~ CreateDemoTask(t, d)
  PROVE  \A t \in Tasks : SamePhase(t) /\ SameVerdict(t)
<1>1. \A q \in Runs : run'[q].task = run[q].task
  BY RunTasks DEF RefInv
<1>2. \A t \in Tasks : Absent(t)' = Absent(t)
  <2> SUFFICES ASSUME NEW t \in Tasks, Created(t) PROVE FALSE
    BY RowsStay
  <2>1. task'[t].status # task[t].status /\ task'[t].status = "pending"
    BY DEF Created
  <2>2. task \in [Tasks -> TaskRows]
    BY DEF RefInv, Shape, TypeOK
  <2>3. ASSUME NEW d \in Dispatchers, SaveDiagnostic(d) PROVE FALSE
    BY <2>1, <2>2, <2>3 DEF SaveDiagnostic, TaskRows
  <2>4. ASSUME NEW d \in Dispatchers, SaveDispatched(d) PROVE FALSE
    BY <2>1, <2>2, <2>4 DEF SaveDispatched, TaskRows
  <2>5. ASSUME NEW r \in Runs, RunningSaves(r) PROVE FALSE
    BY ZenonT(30), <2>1, <2>2, <2>5 DEF RunningSaves, TaskRows
  <2>6. ASSUME NEW r \in Runs, ResultCommits(r) PROVE FALSE
    <3>1. run[r].outcome \in Verdicts
      BY <2>6 DEF ResultCommits, RefInv, Shape, RunShape, RunShaped
    <3>2. task' # task
      BY <2>1
    <3>3. \E e, m : task' = [task EXCEPT ![run[r].task] =
            [task[run[r].task] EXCEPT !.status = run[r].outcome, !.error = e,
                                      !.started = m, !.finished = TRUE]]
      <4> DEFINE e == IF run[r].outcome = "failed" THEN "run" ELSE ""
                 m == StartedAt(report[r].started, "set")
      <4>1. task' = [task EXCEPT
              ![run[r].task].status = run[r].outcome, ![run[r].task].error = e,
              ![run[r].task].started = m, ![run[r].task].finished = TRUE]
        BY <2>6, <3>2 DEF ResultCommits
      <4> HIDE DEF e, m
      <4>2. task' = [task EXCEPT ![run[r].task] =
              [task[run[r].task] EXCEPT !.status = run[r].outcome, !.error = e,
                                        !.started = m, !.finished = TRUE]]
        BY <2>2, <4>1
      <4> QED
        BY <4>2
    <3>4. task'[t].status \in {task[t].status, run[r].outcome}
      <4>1. PICK e, m : task' = [task EXCEPT ![run[r].task] =
              [task[run[r].task] EXCEPT !.status = run[r].outcome, !.error = e,
                                        !.started = m, !.finished = TRUE]]
        BY <3>3
      <4>2. CASE run[r].task = t
        <5>1. task'[t] = [task[t] EXCEPT !.status = run[r].outcome, !.error = e,
                                         !.started = m, !.finished = TRUE]
          BY <2>2, <4>1, <4>2
        <5> QED
          BY <2>2, <5>1 DEF TaskRows
      <4>3. CASE run[r].task # t
        BY <2>2, <4>1, <4>3
      <4> QED
        BY <4>2, <4>3
    <3> QED
      BY <2>1, <3>1, <3>4 DEF Verdicts
  <2>7. task' # task
    BY <2>1
  <2> QED
    BY <2>3, <2>4, <2>5, <2>6, <2>7
       DEF Next, vars, taskVars, DispatchStep, RunStep, CallbackStep, BecomeDue,
           ListPending, RefreshTask, SelectWorker, DeliveryAccepted, DeliveryRefused,
           DeliveryTimesOut, DispatcherDies, StartRun, AnnounceReturns,
           EngineEnds, ReportReturns, RunAborts, RunningArrives, ResultArrives, SendHeartbeat,
           Crash, StartAgent, Register, ApplyHeartbeat, FallSilent, MarkStale
<1>3. \A t \in Tasks : SamePhase(t)
  BY <1>1, <1>2, PhaseStays
<1>4. \A t \in Tasks : SameVerdict(t)
  BY VerdictStays
<1> QED
  BY <1>3, <1>4

-----------------------------------------------------------------------------
\* The mapping of TaskLifecycle, by tasks.
LEMMA MappingOf ==
  /\ Outcome!Init <=> \A t \in Tasks : Phase(t) = "absent" /\ Verdict(t) = "none"
  /\ (\A t \in Tasks : SamePhase(t) /\ SameVerdict(t)) => UNCHANGED Outcome!vars
BY DEF Outcome!Init, Outcome!vars, Phase, Verdict, Absent, SamePhase, SameVerdict

\* Initial states are those of TaskOutcome.
LEMMA InitSimulates == Init => Outcome!Init
<1> SUFFICES ASSUME Init, NEW t \in Tasks PROVE Phase(t) = "absent" /\ Verdict(t) = "none"
  BY MappingOf
<1>1. AbsentTask.status = "absent"
  BY DEF AbsentTask
<1>2. Absent(t) /\ ~ HasResult(t)
  BY <1>1 DEF Init, Absent, HasResult
<1> QED
  BY <1>2 DEF Phase, Verdict

\* A task that goes from absent to waiting makes a step Create.
LEMMA CreateMaps ==
  ASSUME NEW t \in Tasks, Phase(t) = "absent", Phase(t)' = "waiting",
         \A u \in Tasks \ {t} : SamePhase(u), \A u \in Tasks : SameVerdict(u)
  PROVE  Outcome!Next
<1>1. Outcome!Create(t)
  BY DEF Outcome!Create, Phase, Verdict, Absent, SamePhase, SameVerdict
<1> QED
  BY <1>1 DEF Outcome!Next

\* A task that goes from waiting to delivered makes a step Deliver.
LEMMA DeliverMaps ==
  ASSUME NEW t \in Tasks, Phase(t) = "waiting", Phase(t)' = "delivered",
         \A u \in Tasks \ {t} : SamePhase(u), \A u \in Tasks : SameVerdict(u)
  PROVE  Outcome!Next
<1>1. Outcome!Deliver(t)
  BY DEF Outcome!Deliver, Phase, Verdict, Absent, SamePhase, SameVerdict
<1> QED
  BY <1>1 DEF Outcome!Next

\* A task that gets its verdict makes a step Decide.
LEMMA DecideMaps ==
  ASSUME NEW t \in Tasks, NEW v \in Verdicts, Phase(t) = "delivered", Verdict(t) = "none",
         Verdict(t)' = v, \A u \in Tasks : SamePhase(u),
         \A u \in Tasks \ {t} : SameVerdict(u)
  PROVE  Outcome!Next
<1>1. Outcome!Decide(t, v)
  BY DEF Outcome!Decide, Phase, Verdict, Absent, SamePhase, SameVerdict
<1> QED
  BY <1>1 DEF Outcome!Next

\* Every step of the loop is one of TaskOutcome or a stutter.
LEMMA StepSimulates == RefInv /\ [Next]_vars => [Outcome!Next]_(Outcome!vars)
<1> SUFFICES ASSUME RefInv, [Next]_vars PROVE Outcome!Next \/ UNCHANGED Outcome!vars
  OBVIOUS
<1>1. ASSUME NEW d \in Dispatchers, AcceptTask(d)
      PROVE  Outcome!Next \/ UNCHANGED Outcome!vars
  <2>1. PICK t \in Tasks : /\ Phase(t) \in {"waiting", "delivered"} /\ Phase(t)' = "delivered"
                           /\ \A u \in Tasks \ {t} : SamePhase(u)
                           /\ \A u \in Tasks : SameVerdict(u)
    BY <1>1, AcceptSimulates
  <2>2. CASE Phase(t) = "waiting"
    BY <2>1, <2>2, DeliverMaps
  <2>3. CASE Phase(t) = "delivered"
    BY <2>1, <2>3, MappingOf DEF SamePhase
  <2> QED
    BY <2>1, <2>2, <2>3
<1>2. ASSUME NEW t \in Tasks,
             CreateTask(t) \/ \E d \in WebThreads : CreateDemoTask(t, d)
      PROVE  Outcome!Next
  <2>1. CreateRow(t) /\ result' = result /\ run' = run
    BY <1>2 DEF CreateTask, CreateDemoTask, agentVars
  <2> QED
    BY <2>1, CreateSimulates, CreateMaps
<1>3. ASSUME NEW r \in Runs, ResultCommits(r), result' # result PROVE Outcome!Next
  BY <1>3, CommitSimulates, DecideMaps
<1>4. ASSUME result' = result, \A d \in Dispatchers : ~ AcceptTask(d),
             \A t \in Tasks : ~ CreateTask(t) /\ \A d \in WebThreads : ~ CreateDemoTask(t, d)
      PROVE  UNCHANGED Outcome!vars
  BY <1>4, OthersStutter, MappingOf
<1>5. result' = result \/ \E r \in Runs : ResultCommits(r)
  BY DEF Next, vars, taskVars, DispatchStep, RunStep, CallbackStep, CreateTask, BecomeDue,
         CreateDemoTask, ListPending, RefreshTask, SelectWorker, DeliveryAccepted,
         DeliveryRefused, DeliveryTimesOut, SaveDiagnostic, SaveDispatched, DispatcherDies,
         AcceptTask, StartRun, AnnounceReturns, EngineEnds, ReportReturns, RunAborts,
         RunningArrives, RunningSaves, ResultArrives, SendHeartbeat, Crash, StartAgent,
         Register, ApplyHeartbeat, FallSilent, MarkStale
<1> QED
  BY <1>1, <1>2, <1>3, <1>4, <1>5

\* Any execution of the control loop is one of TaskOutcome: each task is
\* decided at most once, for good, and only after an agent took it, however
\* often it was dispatched and whatever failed.
THEOREM LoopImplementsOutcome == Spec => ImplementsOutcome
<1>1. Init => RefInv
  BY InitShape, VerdictInit, KnownInit DEF RefInv
<1>2. RefInv /\ [Next]_vars => RefInv'
  BY RefInvStep
<1>3. Init => Outcome!Init
  BY InitSimulates
<1>4. RefInv /\ [Next]_vars => [Outcome!Next]_(Outcome!vars)
  BY StepSimulates
<1>5. Spec => Outcome!Init /\ [][Outcome!Next]_(Outcome!vars)
  BY <1>1, <1>2, <1>3, <1>4, PTL DEF Spec
<1> QED
  BY <1>5 DEF ImplementsOutcome, Outcome!Spec
=============================================================================
