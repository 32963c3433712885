------------------------ MODULE TaskLifecycleProofs ------------------------
(***************************************************************************)
(* Proofs about TaskLifecycle, for any tasks, workers, dispatchers and     *)
(* bounds.                                                                 *)
(***************************************************************************)
EXTENDS TaskLifecycle, FiniteSetTheorems, TLAPS

(***************************************************************************)
(* Shape: the invariant about processes.  A dispatcher past its reading of *)
(* the row works on a task, past its selection on a worker, and past a     *)
(* delivery it knows the run it caused; a run that was accepted has a task *)
(* and a worker, and has posted only the callbacks its phase is past.      *)
(***************************************************************************)
Shaped(p) ==
  /\ p.pc \in {"select", "posting", "save", "diagnose"} => p.task \in Tasks
  /\ p.pc \in {"posting", "save"} => p.worker \in Workers
  /\ p.pc = "save" => p.delivered # NoRun
  /\ p.delivered # NoRun =>
       /\ p.pc \in {"posting", "save", "diagnose"}
       /\ run[p.delivered].pc # "unused"
       /\ run[p.delivered].task = p.task /\ run[p.delivered].worker = p.worker

DispatcherShape == \A d \in Dispatchers : Shaped(disp[d])

RunShaped(r) ==
  /\ run[r].pc = "unused" => run[r].task = NoTask /\ run[r].worker = NoWorker
  /\ run[r].pc # "unused" => run[r].task \in Tasks /\ run[r].worker \in Workers
  /\ announce[r].pc # "none" => run[r].pc \notin {"unused", "accepted"}
  /\ report[r].pc # "none" =>
       run[r].pc \in {"reporting", "ended", "dead"} /\ run[r].outcome \in Verdicts

RunShape == \A r \in Runs : RunShaped(r)

Shape == TypeOK /\ DispatcherShape /\ RunShape /\ ActiveCountExact

USE DEF NoTask, NoRun, NoBeat

\* The invariant holds initially.
LEMMA InitShape == Init => Shape
<1> SUFFICES ASSUME Init PROVE Shape
  OBVIOUS
<1>1. TypeOK
  <2>1. task \in [Tasks -> TaskRows] /\ due \subseteq Tasks
    BY DEF Init, TaskRows, AbsentTask, TaskStatus, StartStamps, ErrorMessages
  <2>2. result \in [Tasks -> Runs \cup {NoRun}]
    BY DEF Init
  <2>3. row \in [Workers -> WorkerRows] /\ older \subseteq Workers \X Workers
    BY DEF Init, WorkerRows, AbsentWorker
  <2>4. disp \in [Dispatchers -> DispatcherStates]
    BY DEF Init, DispatcherStates, IdleDispatcher
  <2>5. /\ agent \in [Workers -> {"down", "starting", "up"}]
        /\ active \in [Workers -> Nat] /\ beat \in [Workers -> Nat \cup {NoBeat}]
    BY DEF Init
  <2>6. run \in [Runs -> RunStates]
    BY DEF Init, RunStates, UnusedRun
  <2>7. announce \in [Runs -> Calls] /\ report \in [Runs -> Calls]
    BY DEF Init, Calls, NoCall, Unanswered, StartStamps
  <2>8. faults \in 0 .. MaxFaults
    BY BoundsAssumption DEF Init
  <2>9. HistoryTypeOK
    BY DEF Init, HistoryTypeOK
  <2> QED
    BY <2>1, <2>2, <2>3, <2>4, <2>5, <2>6, <2>7, <2>8, <2>9 DEF TypeOK
<1>2. DispatcherShape /\ RunShape
  BY DEF Init, DispatcherShape, Shaped, RunShape, RunShaped, IdleDispatcher, UnusedRun, NoCall
<1>3. ActiveCountExact
  <2> SUFFICES ASSUME NEW w \in Workers PROVE active[w] = Cardinality(RunsOn(w))
    BY DEF ActiveCountExact
  <2>1. RunsOn(w) = {}
    BY WorkersAssumption DEF Init, RunsOn, UnusedRun, InProgress
  <2> QED
    BY <2>1, FS_EmptySet DEF Init
<1> QED
  BY <1>1, <1>2, <1>3 DEF Shape

\* What a dispatcher goes on with after a task is a dispatcher state.
LEMMA ResumeType ==
  ASSUME NEW p \in DispatcherStates PROVE Resume(p) \in DispatcherStates
BY DEF DispatcherStates, Resume

\* A dispatcher that starts its loop over S is in a dispatcher state.
LEMMA LoopType ==
  ASSUME NEW p \in DispatcherStates, NEW S \in SUBSET Tasks
  PROVE  [p EXCEPT !.pc = "loop", !.todo = S] \in DispatcherStates
BY DEF DispatcherStates

\* What SaveDispatched writes is a row.
LEMMA DispatchedRowType ==
  ASSUME NEW x \in TaskRows, NEW s \in TaskStatus, NEW w \in Workers, NEW e \in ErrorMessages
  PROVE  [x EXCEPT !.status = s, !.worker = w, !.error = e] \in TaskRows
BY DEF TaskRows

\* What the callbacks write are rows.
LEMMA CallbackRowType ==
  ASSUME NEW x \in TaskRows, NEW s \in TaskStatus, NEW e \in ErrorMessages,
         NEW m \in StartStamps
  PROVE  /\ [x EXCEPT !.status = s, !.error = e, !.started = m] \in TaskRows
         /\ [x EXCEPT !.status = s, !.error = e, !.started = m, !.finished = TRUE] \in TaskRows
BY DEF TaskRows

\* The executions of an agent are finite in number, and none or positively many.
LEMMA RunsOnFinite ==
  ASSUME NEW w PROVE IsFiniteSet(RunsOn(w)) /\ (RunsOn(w) # {} => Cardinality(RunsOn(w)) > 0)
<1>1. IsFiniteSet(Runs)
  BY FS_Interval, BoundsAssumption DEF Runs
<1>2. IsFiniteSet(RunsOn(w))
  BY <1>1, FS_Subset DEF RunsOn
<1> QED
  BY <1>2, FS_EmptySet, FS_CardinalityType

\* A callback that has looked at the rows of its task is a call.
LEMMA ReadsRowType ==
  ASSUME Shape, NEW r \in Runs, NEW call \in {announce, report}, NEW next,
         next = [call EXCEPT ![r] =
                   IF HasResult(run[r].task)
                   THEN [pc |-> "conflict", started |-> "null"]
                   ELSE [pc |-> "checked", started |-> task[run[r].task].started]],
         run[r].task \in Tasks
  PROVE  next \in [Runs -> Calls]
<1>1. call \in [Runs -> Calls]
  BY DEF Shape, TypeOK
<1>2. task[run[r].task].started \in StartStamps
  BY DEF Shape, TypeOK, TaskRows
<1>3. /\ [pc |-> "conflict", started |-> "null"] \in Calls
      /\ [pc |-> "checked", started |-> task[run[r].task].started] \in Calls
  BY <1>2 DEF Calls, Answers, Unanswered, StartStamps
<1> QED
  BY <1>1, <1>3

\* The history names runs and tasks.
LEMMA HistoryTypeStep == Shape /\ Next => HistoryTypeOK'
<1> SUFFICES ASSUME Shape, Next PROVE HistoryTypeOK'
  OBVIOUS
<1> USE DEF HistoryTypeOK, dispatchVars, dispatchHistory, callVars
<1>0. HistoryTypeOK /\ disp \in [Dispatchers -> DispatcherStates]
  BY DEF Shape, TypeOK
<1>1. CASE UNCHANGED <<givenUp, unheard, contested>>
  BY <1>0, <1>1
<1>2. ASSUME NEW d \in Dispatchers, Forget(d), UNCHANGED <<givenUp, contested>>
      PROVE  HistoryTypeOK'
  BY <1>0, <1>2 DEF Forget, DispatcherStates
<1>3. ASSUME NEW d \in Dispatchers, RefreshTask(d) PROVE HistoryTypeOK'
  BY <1>0, <1>3 DEF RefreshTask
<1>4. ASSUME NEW r \in Runs, AnnounceReturns(r) PROVE HistoryTypeOK'
  BY <1>0, <1>4 DEF AnnounceReturns
<1> QED
  BY <1>1, <1>2, <1>3, <1>4
     DEF Next, DispatchStep, RunStep, CallbackStep, CreateTask, BecomeDue, CreateDemoTask,
         ListPending, SelectWorker, DeliveryAccepted, DeliveryRefused, DeliveryTimesOut,
         SaveDiagnostic, SaveDispatched, DispatcherDies, AcceptTask, StartRun, EngineEnds,
         ReportReturns, RunAborts, RunningArrives, RunningSaves, ResultArrives, ResultCommits,
         SendHeartbeat, Crash, StartAgent, Register, ApplyHeartbeat, FallSilent, MarkStale

\* Every step from a state of the invariant leads to a well-typed state; for the
\* count of an agent this needs that a run which leaves was counted.
LEMMA TypeStep == Shape /\ Next => TypeOK'
<1> SUFFICES ASSUME Shape, Next, HistoryTypeOK' PROVE TypeOK'
  BY HistoryTypeStep
<1> USE DEF Shape, taskVars, workerVars, dispatchVars, agentVars, callVars
<1>1. ASSUME NEW t \in Tasks, CreateTask(t) PROVE TypeOK'
  BY <1>1, BoundsAssumption DEF TypeOK, CreateTask, CreateRow, TaskRows, TaskStatus
<1>2. ASSUME NEW t \in Tasks, BecomeDue(t) PROVE TypeOK'
  BY <1>2, BoundsAssumption DEF TypeOK, BecomeDue
<1>3. ASSUME NEW t \in Tasks, NEW d \in WebThreads, CreateDemoTask(t, d) PROVE TypeOK'
  <2>1. d \in Dispatchers
    BY <1>3 DEF Dispatchers
  <2>2. [disp[d] EXCEPT !.pc = "loop", !.todo = {t}] \in DispatcherStates
    BY <1>3, <2>1, LoopType DEF TypeOK
  <2>3. disp' \in [Dispatchers -> DispatcherStates]
    BY <1>3, <2>2 DEF CreateDemoTask, TypeOK
  <2>4. task' \in [Tasks -> TaskRows] /\ due' \subseteq Tasks
    BY <1>3 DEF CreateDemoTask, CreateRow, TaskRows, TaskStatus, TypeOK
  <2> QED
    BY <1>3, <2>1, <2>2, <2>3, <2>4 DEF TypeOK, CreateDemoTask
<1>4. ASSUME NEW d \in Schedulers, ListPending(d) PROVE TypeOK'
  <2>1. d \in Dispatchers
    BY <1>4 DEF Dispatchers
  <2>2. {t \in due : task[t].status = "pending"} \in SUBSET Tasks
    BY <1>4 DEF TypeOK
  <2>3. [disp[d] EXCEPT !.pc = "loop", !.todo = {t \in due : task[t].status = "pending"}]
          \in DispatcherStates
    BY <1>4, <2>1, <2>2, LoopType DEF TypeOK
  <2>4. disp' \in [Dispatchers -> DispatcherStates]
    BY <1>4, <2>3 DEF ListPending, TypeOK
  <2> QED
    BY <1>4, <2>1, <2>2, <2>3, <2>4 DEF TypeOK, ListPending
<1>5. ASSUME NEW d \in Dispatchers, RefreshTask(d) PROVE TypeOK'
  <2>1. PICK t \in disp[d].todo :
          LET rest == [disp[d] EXCEPT !.todo = @ \ {t}] IN
          disp' = [disp EXCEPT ![d] = IF task[t].status = "pending"
                                      THEN [rest EXCEPT !.pc = "select", !.task = t]
                                      ELSE Resume(rest)]
    BY <1>5 DEF RefreshTask
  <2> DEFINE rest == [disp[d] EXCEPT !.todo = @ \ {t}]
  <2>2. t \in Tasks /\ rest \in DispatcherStates
    BY DEF TypeOK, DispatcherStates
  <2>3. [rest EXCEPT !.pc = "select", !.task = t] \in DispatcherStates
    BY <2>2 DEF DispatcherStates
  <2>4. Resume(rest) \in DispatcherStates
    BY <2>2, ResumeType
  <2>5. disp' \in [Dispatchers -> DispatcherStates]
    <3> HIDE DEF rest
    <3> QED
      BY <2>1, <2>3, <2>4 DEF TypeOK, rest
  <2> QED
    BY <1>5, <2>5 DEF TypeOK, RefreshTask
<1>6. ASSUME NEW d \in Dispatchers, SelectWorker(d) PROVE TypeOK'
  <2>1. Available(disp[d].task) \subseteq Workers
    BY <1>6 DEF Available, Idle
  <2>2. disp' \in [Dispatchers -> DispatcherStates]
    BY <1>6, <2>1 DEF SelectWorker, TypeOK, DispatcherStates
  <2> QED
    BY <1>6, <2>1, <2>2 DEF TypeOK, SelectWorker
<1>7. ASSUME NEW d \in Dispatchers, DeliveryAccepted(d) PROVE TypeOK'
  BY <1>7, BoundsAssumption DEF TypeOK, DeliveryAccepted, DispatcherStates
<1>8. ASSUME NEW d \in Dispatchers, DeliveryRefused(d) PROVE TypeOK'
  <2>1. disp' \in [Dispatchers -> DispatcherStates]
    <3>1. disp' = [disp EXCEPT ![d] = [disp[d] EXCEPT !.pc = "diagnose"]]
      BY <1>8 DEF DeliveryRefused
    <3>2. [disp[d] EXCEPT !.pc = "diagnose"] \in DispatcherStates
      BY DEF TypeOK, DispatcherStates
    <3> QED
      BY <3>1, <3>2 DEF TypeOK
  <2>2. UNCHANGED <<task, due, result, row, older, agent, active, beat, run, announce, report,
                    faults>>
    BY <1>8 DEF DeliveryRefused
  <2> QED
    BY <2>1, <2>2 DEF TypeOK
<1>9. ASSUME NEW d \in Dispatchers, DeliveryTimesOut(d) PROVE TypeOK'
  BY <1>9, BoundsAssumption DEF TypeOK, DeliveryTimesOut, DispatcherStates, Fault
<1>10. ASSUME NEW d \in Dispatchers, SaveDiagnostic(d) PROVE TypeOK'
  <2>1. disp[d].task \in Tasks
    BY <1>10 DEF SaveDiagnostic, DispatcherShape, Shaped
  <2>2. disp' \in [Dispatchers -> DispatcherStates]
    BY <1>10, ResumeType DEF SaveDiagnostic, TypeOK
  <2>3. task' \in [Tasks -> TaskRows]
    BY ZenonT(30), <1>10, <2>1 DEF SaveDiagnostic, TypeOK, TaskRows, ErrorMessages
  <2> QED
    BY <1>10, <2>1, <2>2, <2>3 DEF TypeOK, SaveDiagnostic
<1>11. ASSUME NEW d \in Dispatchers, SaveDispatched(d) PROVE TypeOK'
  <2>1. disp[d].task \in Tasks /\ disp[d].worker \in Workers
    BY <1>11 DEF SaveDispatched, DispatcherShape, Shaped
  <2>2. disp' \in [Dispatchers -> DispatcherStates]
    BY <1>11, ResumeType DEF SaveDispatched, TypeOK
  <2>3. task[disp[d].task] \in TaskRows /\ "dispatched" \in TaskStatus /\ "" \in ErrorMessages
    BY <1>11, <2>1 DEF TypeOK, TaskStatus, ErrorMessages
  <2>4. [task[disp[d].task] EXCEPT !.status = "dispatched", !.worker = disp[d].worker,
                             !.error = ""] \in TaskRows
    BY <1>11, <2>1, <2>3, DispatchedRowType
  <2>5. task' \in [Tasks -> TaskRows]
    BY <1>11, <2>1, <2>4 DEF SaveDispatched, TypeOK
  <2> QED
    BY <1>11, <2>1, <2>2, <2>3, <2>4, <2>5 DEF TypeOK, SaveDispatched
<1>12. ASSUME NEW d \in Dispatchers, DispatcherDies(d) PROVE TypeOK'
  BY <1>12, BoundsAssumption DEF TypeOK, DispatcherDies, DispatcherStates, IdleDispatcher, Fault
<1>13. ASSUME NEW d \in Dispatchers, AcceptTask(d) PROVE TypeOK'
  <2>1. disp[d].task \in Tasks /\ disp[d].worker \in Workers
    BY <1>13 DEF AcceptTask, DispatcherShape, Shaped
  <2>2. PICK r \in Runs :
          /\ run' = [run EXCEPT ![r] = [run[r] EXCEPT !.pc = "accepted", !.task = disp[d].task,
                                                    !.worker = disp[d].worker]]
          /\ disp' = [disp EXCEPT ![d] = [disp[d] EXCEPT !.delivered = r]]
    BY <1>13 DEF AcceptTask, TypeOK
  <2>3. [run[r] EXCEPT !.pc = "accepted", !.task = disp[d].task,
                       !.worker = disp[d].worker] \in RunStates
    BY ZenonT(30), <2>1 DEF TypeOK, RunStates
  <2>4. [disp[d] EXCEPT !.delivered = r] \in DispatcherStates
    BY DEF TypeOK, DispatcherStates
  <2>5. run' \in [Runs -> RunStates] /\ disp' \in [Dispatchers -> DispatcherStates]
    BY <2>2, <2>3, <2>4 DEF TypeOK
  <2> QED
    BY <1>13, <2>5 DEF TypeOK, AcceptTask
<1>14. ASSUME NEW r \in Runs, StartRun(r) PROVE TypeOK'
  <2>1. run[r].worker \in Workers
    BY <1>14 DEF StartRun, RunShape, RunShaped
  <2>2. [run[r] EXCEPT !.pc = "announcing"] \in RunStates
    BY <1>14 DEF TypeOK, RunStates
  <2>3. run' = [run EXCEPT ![r] = [run[r] EXCEPT !.pc = "announcing"]]
    BY <1>14 DEF StartRun, TypeOK
  <2>4. announce' \in [Runs -> Calls]
    BY <1>14 DEF StartRun, TypeOK, Calls, Unanswered
  <2>5. active' \in [Workers -> Nat]
    BY <1>14, <2>1 DEF StartRun, TypeOK
  <2> QED
    BY <1>14, <2>1, <2>2, <2>3, <2>4, <2>5 DEF TypeOK, StartRun
<1>15. ASSUME NEW r \in Runs, AnnounceReturns(r) PROVE TypeOK'
  <2>1. [run[r] EXCEPT !.pc = "engine"] \in RunStates
    BY SMTT(30), <1>15 DEF TypeOK, RunStates
  <2>2. run' = [run EXCEPT ![r] = [run[r] EXCEPT !.pc = "engine"]]
    BY <1>15 DEF AnnounceReturns, TypeOK
  <2>3. faults' \in 0 .. MaxFaults
    BY <1>15, BoundsAssumption DEF AnnounceReturns, Returned, Fault, NoFault, TypeOK
  <2> QED
    BY <1>15, <2>1, <2>2, <2>3 DEF TypeOK, AnnounceReturns
<1>16. ASSUME NEW r \in Runs, NEW v \in Verdicts, EngineEnds(r, v) PROVE TypeOK'
  <2>1. [run[r] EXCEPT !.pc = "reporting", !.outcome = v] \in RunStates
    BY ZenonT(30), <1>16 DEF TypeOK, RunStates
  <2>2. run' = [run EXCEPT ![r] = [run[r] EXCEPT !.pc = "reporting", !.outcome = v]]
    BY <1>16 DEF EngineEnds, TypeOK
  <2>3. report' \in [Runs -> Calls]
    BY <1>16 DEF EngineEnds, TypeOK, Calls, Unanswered
  <2> QED
    BY <1>16, <2>1, <2>2, <2>3 DEF TypeOK, EngineEnds
<1>17. ASSUME NEW r \in Runs, ReportReturns(r) \/ RunAborts(r) PROVE TypeOK'
  <2>1. run[r].worker \in Workers /\ r \in RunsOn(run[r].worker)
    BY <1>17 DEF ReportReturns, RunAborts, RunShape, RunShaped, RunsOn, InProgress
  <2>2. active[run[r].worker] - 1 \in Nat
    BY <2>1, RunsOnFinite, FS_EmptySet DEF TypeOK, ActiveCountExact
  <2>3. active' \in [Workers -> Nat]
    BY <1>17, <2>2 DEF ReportReturns, RunAborts, Leave, TypeOK
  <2>4. [run[r] EXCEPT !.pc = "ended"] \in RunStates
    BY DEF TypeOK, RunStates
  <2>5. run' = [run EXCEPT ![r] = [run[r] EXCEPT !.pc = "ended"]]
    BY <1>17 DEF ReportReturns, RunAborts, Leave, TypeOK
  <2>6. faults' \in 0 .. MaxFaults
    BY <1>17, BoundsAssumption DEF ReportReturns, RunAborts, Returned, Fault, NoFault, TypeOK
  <2> QED
    BY <1>17, <2>3, <2>4, <2>5, <2>6 DEF TypeOK, ReportReturns, RunAborts
<1>18. ASSUME NEW r \in Runs, RunningArrives(r) PROVE TypeOK'
  <2>1. run[r].task \in Tasks
    BY <1>18 DEF RunningArrives, ReadsRow, RunShape, RunShaped
  <2>2. announce' \in [Runs -> Calls]
    BY <1>18, <2>1, ReadsRowType DEF RunningArrives, ReadsRow
  <2> QED
    BY <1>18, <2>2 DEF TypeOK, RunningArrives
<1>19. ASSUME NEW r \in Runs, RunningSaves(r) PROVE TypeOK'
  <2>1. run[r].task \in Tasks
    BY <1>19 DEF RunningSaves, RunShape, RunShaped
  <2>2. StartedAt(announce[r].started, IF task[run[r].task].finished THEN "late" ELSE "set") \in StartStamps
    BY <1>19 DEF TypeOK, Calls, StartedAt, StartStamps
  <2>3. announce' \in [Runs -> Calls]
    BY <1>19 DEF RunningSaves, TypeOK, Calls, Answers
  <2>4. task[run[r].task] \in TaskRows /\ "running" \in TaskStatus /\ "" \in ErrorMessages
    BY <1>19, <2>1 DEF TypeOK, TaskStatus, ErrorMessages
  <2>5. [task[run[r].task] EXCEPT !.status = "running", !.error = "",
          !.started = StartedAt(announce[r].started,
                        IF task[run[r].task].finished THEN "late" ELSE "set")] \in TaskRows
    BY <1>19, <2>2, <2>4, CallbackRowType
  <2>6. task' \in [Tasks -> TaskRows]
    BY <1>19, <2>1, <2>5 DEF RunningSaves, TypeOK
  <2> QED
    BY <1>19, <2>1, <2>2, <2>3, <2>4, <2>5, <2>6 DEF TypeOK, RunningSaves
<1>20. ASSUME NEW r \in Runs, ResultArrives(r) PROVE TypeOK'
  <2>1. run[r].task \in Tasks
    BY <1>20 DEF ResultArrives, ReadsRow, RunShape, RunShaped
  <2>2. report' \in [Runs -> Calls]
    BY <1>20, <2>1, ReadsRowType DEF ResultArrives, ReadsRow
  <2> QED
    BY <1>20, <2>2 DEF TypeOK, ResultArrives
<1>21. ASSUME NEW r \in Runs, ResultCommits(r) PROVE TypeOK'
  <2>1. run[r].task \in Tasks /\ run[r].outcome \in Verdicts
    BY <1>21 DEF ResultCommits, RunShape, RunShaped
  <2>2. /\ StartedAt(report[r].started, "set") \in StartStamps
        /\ task[run[r].task] \in TaskRows /\ run[r].outcome \in TaskStatus
        /\ (IF run[r].outcome = "failed" THEN "run" ELSE "") \in ErrorMessages
    BY <2>1 DEF TypeOK, Calls, StartedAt, StartStamps, Verdicts, TaskStatus, ErrorMessages
  <2>3. [task[run[r].task] EXCEPT
           !.status = run[r].outcome,
           !.error = IF run[r].outcome = "failed" THEN "run" ELSE "",
           !.started = StartedAt(report[r].started, "set"),
           !.finished = TRUE] \in TaskRows
    BY <2>2, CallbackRowType
  <2>4. task' \in [Tasks -> TaskRows]
    <3>1. \/ task' = task
          \/ task' = [task EXCEPT ![run[r].task] = [task[run[r].task] EXCEPT
               !.status = run[r].outcome,
               !.error = IF run[r].outcome = "failed" THEN "run" ELSE "",
               !.started = StartedAt(report[r].started, "set"),
               !.finished = TRUE]]
      BY <1>21 DEF ResultCommits
    <3>2. task \in [Tasks -> TaskRows]
      BY DEF TypeOK
    <3> QED
      BY <2>1, <2>3, <3>1, <3>2
  <2>5. result' = result \/ result' = [result EXCEPT ![run[r].task] = r]
    BY <1>21 DEF ResultCommits
  <2>6. \E c \in Answers : report' = [report EXCEPT ![r] = [report[r] EXCEPT !.pc = c]]
    BY <1>21 DEF ResultCommits, TypeOK, Answers
  <2>7. \A c \in Answers : [report[r] EXCEPT !.pc = c] \in Calls
    BY DEF TypeOK, Calls
  <2>8. result' \in [Tasks -> Runs \cup {NoRun}] /\ report' \in [Runs -> Calls]
    BY <2>5, <2>6, <2>7 DEF TypeOK
  <2>9. UNCHANGED <<due, row, older, disp, agent, active, beat, run, announce, faults>>
    BY <1>21 DEF ResultCommits
  <2> QED
    BY <2>4, <2>8, <2>9 DEF TypeOK
<1>22. ASSUME NEW w \in Workers, SendHeartbeat(w) PROVE TypeOK'
  BY <1>22, BoundsAssumption DEF TypeOK, SendHeartbeat
<1>23. ASSUME NEW w \in Workers, Crash(w) PROVE TypeOK'
  BY SMTT(30), <1>23, BoundsAssumption DEF TypeOK, Crash, RunStates, Fault
<1>24. ASSUME NEW w \in Workers, StartAgent(w) PROVE TypeOK'
  BY <1>24, BoundsAssumption DEF TypeOK, StartAgent
<1>25. ASSUME NEW w \in Workers, Register(w) PROVE TypeOK'
  BY <1>25, BoundsAssumption DEF TypeOK, Register, WorkerRows, HeardFrom, Registered, NoFault, Fault
<1>26. ASSUME NEW w \in Workers, ApplyHeartbeat(w) PROVE TypeOK'
  BY <1>26, BoundsAssumption DEF TypeOK, ApplyHeartbeat, WorkerRows, HeardFrom, Registered
<1>27. ASSUME NEW w \in Workers, FallSilent(w) PROVE TypeOK'
  <2>1. row' \in [Workers -> WorkerRows]
    BY <1>27 DEF FallSilent, TypeOK, WorkerRows
  <2>2. faults' \in 0 .. MaxFaults
    BY <1>27, BoundsAssumption DEF FallSilent, Fault, NoFault, TypeOK
  <2> QED
    BY <1>27, <2>1, <2>2 DEF TypeOK, FallSilent
<1>28. ASSUME MarkStale PROVE TypeOK'
  <2>1. row' \in [Workers -> WorkerRows]
    BY <1>28 DEF MarkStale, TypeOK, WorkerRows
  <2> QED
    BY <1>28, <2>1 DEF TypeOK, MarkStale
<1> QED
  BY <1>1, <1>2, <1>3, <1>4, <1>5, <1>6, <1>7, <1>8, <1>9, <1>10, <1>11, <1>12, <1>13, <1>14,
     <1>15, <1>16, <1>17, <1>18, <1>19, <1>20, <1>21, <1>22, <1>23, <1>24, <1>25, <1>26, <1>27,
     <1>28
     DEF Next, DispatchStep, RunStep, CallbackStep

(***************************************************************************)
(* RunFrame: a run that was accepted keeps its task and its worker.        *)
(***************************************************************************)
Kept(q) ==
  run[q].pc # "unused" =>
    run'[q].pc # "unused" /\ run'[q].task = run[q].task /\ run'[q].worker = run[q].worker

\* No step takes an accepted run's task or worker from it.
LEMMA RunFrame == Shape /\ [Next]_vars => \A q \in Runs : Kept(q)
<1> SUFFICES ASSUME Shape, [Next]_vars, NEW q \in Runs PROVE Kept(q)
  OBVIOUS
<1> USE DEF Kept, agentVars
<1>0. run \in [Runs -> RunStates]
  BY DEF Shape, TypeOK
<1>1. CASE run' = run
  BY <1>1
<1>2. ASSUME NEW d \in Dispatchers, AcceptTask(d) PROVE Kept(q)
  BY <1>0, <1>2 DEF AcceptTask, RunStates
<1>3. ASSUME NEW r \in Runs, StartRun(r) \/ AnnounceReturns(r) PROVE Kept(q)
  BY <1>0, <1>3 DEF StartRun, AnnounceReturns, RunStates
<1>4. ASSUME NEW r \in Runs, NEW v \in Verdicts, EngineEnds(r, v) PROVE Kept(q)
  BY <1>0, <1>4 DEF EngineEnds, RunStates
<1>5. ASSUME NEW r \in Runs, ReportReturns(r) \/ RunAborts(r) PROVE Kept(q)
  BY <1>0, <1>5 DEF ReportReturns, RunAborts, Leave, RunStates
<1>6. ASSUME NEW w \in Workers, Crash(w) PROVE Kept(q)
  BY <1>0, <1>6 DEF Crash, RunStates
<1>7. CASE UNCHANGED vars
  BY <1>7 DEF vars
<1> QED
  BY <1>1, <1>2, <1>3, <1>4, <1>5, <1>6, <1>7
     DEF Next, DispatchStep, RunStep, CallbackStep, CreateTask, BecomeDue, CreateDemoTask,
         ListPending, RefreshTask, SelectWorker, DeliveryAccepted, DeliveryRefused,
         DeliveryTimesOut, SaveDiagnostic, SaveDispatched, DispatcherDies, RunningArrives,
         RunningSaves, ResultArrives, ResultCommits, SendHeartbeat, StartAgent, Register,
         ApplyHeartbeat, FallSilent, MarkStale

\* A dispatcher that is done with a task has forgotten the delivery.
LEMMA ResumeIdle ==
  ASSUME NEW p \in DispatcherStates
  PROVE  Resume(p).pc \in {"idle", "loop"} /\ Resume(p).delivered = NoRun
BY DEF DispatcherStates, Resume

\* Starting the loop leaves the delivery alone.
LEMMA LoopFields ==
  ASSUME NEW p \in DispatcherStates, NEW S
  PROVE  LET q == [p EXCEPT !.pc = "loop", !.todo = S] IN
         q.pc = "loop" /\ q.delivered = p.delivered
BY DEF DispatcherStates

\* Of the dispatchers only d moves.
OnlyStep(d) == \A e \in Dispatchers \ {d} : disp'[e] = disp[e]

\* Every step keeps the dispatchers' part of the invariant.
LEMMA DispatcherShapeStep == Shape /\ Next => DispatcherShape'
<1> SUFFICES ASSUME Shape, Next PROVE DispatcherShape'
  OBVIOUS
<1> USE DEF taskVars, workerVars, dispatchVars, agentVars, callVars
<1>1. \A d \in Dispatchers : Shaped(disp[d]) /\ disp[d] \in DispatcherStates
  BY DEF Shape, TypeOK, DispatcherShape
<1>2. disp \in [Dispatchers -> DispatcherStates] /\ disp' \in [Dispatchers -> DispatcherStates]
  BY TypeStep DEF Shape, TypeOK
<1>3. ASSUME NEW e \in Dispatchers, disp'[e] = disp[e] PROVE Shaped(disp[e])'
  BY <1>1, <1>3, RunFrame DEF Shaped, Kept, DispatcherStates
<1>4. ASSUME NEW d \in Dispatchers, Shaped(disp[d])', OnlyStep(d) PROVE DispatcherShape'
  BY <1>3, <1>4 DEF DispatcherShape, OnlyStep
<1>a. ASSUME NEW d \in Dispatchers, NEW x, disp' = [disp EXCEPT ![d] = x]
      PROVE  OnlyStep(d) /\ disp'[d] = x
  BY <1>2, <1>a DEF OnlyStep
<1>5. CASE UNCHANGED disp
  BY <1>3, <1>5 DEF DispatcherShape
<1>6. ASSUME NEW d \in Dispatchers, disp'[d].pc \in {"idle", "loop"}, disp'[d].delivered = NoRun
      PROVE  Shaped(disp[d])'
  BY <1>6 DEF Shaped
<1>7. ASSUME NEW t \in Tasks, NEW d \in WebThreads, CreateDemoTask(t, d) PROVE DispatcherShape'
  <2>1. d \in Dispatchers /\ disp[d].delivered = NoRun /\ disp[d] \in DispatcherStates
    BY <1>1, <1>7 DEF CreateDemoTask, Shaped, Dispatchers
  <2>2. disp' = [disp EXCEPT ![d] = [disp[d] EXCEPT !.pc = "loop", !.todo = {t}]]
    BY <1>2, <1>7 DEF CreateDemoTask
  <2>3. OnlyStep(d) /\ disp'[d] = [disp[d] EXCEPT !.pc = "loop", !.todo = {t}]
    BY <1>a, <2>1, <2>2
  <2>4. disp'[d].pc = "loop" /\ disp'[d].delivered = NoRun
    BY <2>1, <2>3, LoopFields
  <2> QED
    BY <1>4, <1>6, <2>1, <2>3, <2>4
<1>8. ASSUME NEW d \in Schedulers, ListPending(d) PROVE DispatcherShape'
  <2> DEFINE pending == {t \in due : task[t].status = "pending"}
  <2>1. d \in Dispatchers /\ disp[d].delivered = NoRun /\ disp[d] \in DispatcherStates
    BY <1>1, <1>8 DEF ListPending, Shaped, Dispatchers
  <2>2. disp' = [disp EXCEPT ![d].pc = "loop", ![d].todo = pending]
    BY <1>8 DEF ListPending
  <2> HIDE DEF pending
  <2>3. disp' = [disp EXCEPT ![d] = [disp[d] EXCEPT !.pc = "loop", !.todo = pending]]
    BY <1>2, <2>2
  <2>4. OnlyStep(d) /\ disp'[d] = [disp[d] EXCEPT !.pc = "loop", !.todo = pending]
    BY <1>a, <2>1, <2>3
  <2>5. disp'[d].pc = "loop" /\ disp'[d].delivered = NoRun
    BY <2>1, <2>4, LoopFields
  <2> QED
    BY <1>4, <1>6, <2>1, <2>4, <2>5
<1>9. ASSUME NEW d \in Dispatchers, RefreshTask(d) PROVE DispatcherShape'
  <2>1. disp[d].delivered = NoRun /\ disp[d] \in DispatcherStates
    BY <1>1, <1>9 DEF RefreshTask, Shaped
  <2>2. PICK t \in disp[d].todo :
          LET rest == [disp[d] EXCEPT !.todo = @ \ {t}] IN
          disp' = [disp EXCEPT ![d] = IF task[t].status = "pending"
                                      THEN [rest EXCEPT !.pc = "select", !.task = t]
                                      ELSE Resume(rest)]
    BY <1>9 DEF RefreshTask
  <2> DEFINE rest == [disp[d] EXCEPT !.todo = @ \ {t}]
  <2>3. t \in Tasks /\ rest \in DispatcherStates /\ rest.delivered = NoRun
    BY <2>1 DEF DispatcherStates
  <2>4. CASE task[t].status = "pending"
    <3>1. disp' = [disp EXCEPT ![d] = [rest EXCEPT !.pc = "select", !.task = t]]
      BY <2>2, <2>4
    <3> HIDE DEF rest
    <3>2. OnlyStep(d) /\ disp'[d] = [rest EXCEPT !.pc = "select", !.task = t]
      BY <1>a, <3>1
    <3>3. disp'[d].pc = "select" /\ disp'[d].task = t /\ disp'[d].delivered = NoRun
      BY <2>3, <3>2 DEF DispatcherStates
    <3>4. Shaped(disp[d])'
      BY <2>3, <3>3 DEF Shaped
    <3> QED
      BY <1>4, <3>2, <3>4
  <2>5. CASE task[t].status # "pending"
    <3>1. disp' = [disp EXCEPT ![d] = Resume(rest)]
      BY <2>2, <2>5
    <3> HIDE DEF rest
    <3>2. OnlyStep(d) /\ disp'[d] = Resume(rest)
      BY <1>a, <3>1
    <3>3. disp'[d].pc \in {"idle", "loop"} /\ disp'[d].delivered = NoRun
      BY <2>3, <3>2, ResumeIdle
    <3> QED
      BY <1>4, <1>6, <3>2, <3>3
  <2> QED
    BY <2>4, <2>5
<1>10. ASSUME NEW d \in Dispatchers, SelectWorker(d) PROVE DispatcherShape'
  <2>1. Available(disp[d].task) \subseteq Workers
    BY DEF Available, Idle
  <2>2. disp[d].delivered = NoRun /\ disp[d].task \in Tasks
    BY <1>1, <1>10 DEF SelectWorker, Shaped
  <2>3. /\ disp'[d].task = disp[d].task /\ disp'[d].delivered = NoRun
        /\ disp'[d].pc \in {"posting", "diagnose"}
        /\ disp'[d].pc = "posting" => disp'[d].worker \in Workers
    BY <1>2, <1>10, <2>1, <2>2 DEF SelectWorker, DispatcherStates
  <2>4. Shaped(disp[d])'
    BY <2>2, <2>3 DEF Shaped
  <2>5. OnlyStep(d)
    BY <1>2, <1>10 DEF SelectWorker, OnlyStep
  <2> QED
    BY <1>4, <2>4, <2>5
<1>11. ASSUME NEW d \in Dispatchers,
              DeliveryAccepted(d) \/ DeliveryRefused(d) \/ DeliveryTimesOut(d)
       PROVE  DispatcherShape'
  <2>1. disp[d].task \in Tasks /\ disp[d].worker \in Workers
    BY <1>1, <1>11 DEF DeliveryAccepted, DeliveryRefused, DeliveryTimesOut, Shaped
  <2>2. /\ disp'[d].task = disp[d].task /\ disp'[d].worker = disp[d].worker
        /\ disp'[d].delivered = disp[d].delivered
        /\ \/ disp'[d].pc = "save" /\ disp[d].delivered # NoRun
           \/ disp'[d].pc = "diagnose"
    BY <1>2, <1>11 DEF DeliveryAccepted, DeliveryRefused, DeliveryTimesOut, DispatcherStates
  <2>3. run' = run /\ Shaped(disp[d])
    BY <1>1, <1>11 DEF DeliveryAccepted, DeliveryRefused, DeliveryTimesOut
  <2>4. Shaped(disp[d])'
    BY <2>1, <2>2, <2>3 DEF Shaped
  <2>5. OnlyStep(d)
    BY <1>2, <1>11 DEF DeliveryAccepted, DeliveryRefused, DeliveryTimesOut, OnlyStep
  <2> QED
    BY <1>4, <2>4, <2>5
<1>12. ASSUME NEW d \in Dispatchers, SaveDiagnostic(d) \/ SaveDispatched(d) \/ DispatcherDies(d)
       PROVE  DispatcherShape'
  <2>1. \/ disp' = [disp EXCEPT ![d] = Resume(disp[d])]
        \/ disp' = [disp EXCEPT ![d] = IdleDispatcher]
    BY <1>12 DEF SaveDiagnostic, SaveDispatched, DispatcherDies
  <2>2. OnlyStep(d) /\ (disp'[d] = Resume(disp[d]) \/ disp'[d] = IdleDispatcher)
    BY <1>a, <2>1
  <2>3. IdleDispatcher.pc = "idle" /\ IdleDispatcher.delivered = NoRun
    BY DEF IdleDispatcher
  <2>4. disp'[d].pc \in {"idle", "loop"} /\ disp'[d].delivered = NoRun
    BY <1>1, <2>2, <2>3, ResumeIdle
  <2> QED
    BY <1>4, <1>6, <2>2, <2>4
<1>13. ASSUME NEW d \in Dispatchers, AcceptTask(d) PROVE DispatcherShape'
  <2>1. disp[d].task \in Tasks /\ disp[d].worker \in Workers
    BY <1>1, <1>13 DEF AcceptTask, Shaped
  <2>2. PICK r \in Runs :
          /\ run' = [run EXCEPT ![r] = [run[r] EXCEPT !.pc = "accepted", !.task = disp[d].task,
                                                    !.worker = disp[d].worker]]
          /\ disp' = [disp EXCEPT ![d] = [disp[d] EXCEPT !.delivered = r]]
    BY <1>2, <1>13 DEF AcceptTask, Shape, TypeOK
  <2>3. /\ run'[r].pc = "accepted" /\ run'[r].task = disp[d].task
        /\ run'[r].worker = disp[d].worker
    BY <2>2 DEF Shape, TypeOK, RunStates
  <2>4. /\ disp'[d].pc = "posting" /\ disp'[d].task = disp[d].task
        /\ disp'[d].worker = disp[d].worker /\ disp'[d].delivered = r
    BY <1>1, <1>2, <1>13, <2>2 DEF AcceptTask, DispatcherStates
  <2>5. Shaped(disp[d])'
    BY <2>1, <2>3, <2>4 DEF Shaped
  <2> QED
    BY <1>4, <1>a, <2>2, <2>5
<1> QED
  BY <1>5, <1>7, <1>8, <1>9, <1>10, <1>11, <1>12, <1>13
     DEF Next, DispatchStep, RunStep, CallbackStep, CreateTask, BecomeDue, StartRun,
         AnnounceReturns, EngineEnds, ReportReturns, RunAborts, RunningArrives, RunningSaves,
         ResultArrives, ResultCommits, SendHeartbeat, Crash, StartAgent, Register,
         ApplyHeartbeat, FallSilent, MarkStale

\* Every step keeps the runs' part of the invariant.
LEMMA RunShapeStep == Shape /\ Next => RunShape'
<1> SUFFICES ASSUME Shape, Next, NEW q \in Runs PROVE RunShaped(q)'
  BY DEF RunShape
<1> USE DEF agentVars, callVars
<1>1. /\ run \in [Runs -> RunStates]
      /\ announce \in [Runs -> Calls] /\ report \in [Runs -> Calls]
  BY DEF Shape, TypeOK
<1>2. \A r \in Runs : RunShaped(r)
  BY DEF Shape, RunShape
<1>3. CASE UNCHANGED <<run, announce, report>>
  BY <1>2, <1>3 DEF RunShaped
<1>4. ASSUME NEW d \in Dispatchers, AcceptTask(d) PROVE RunShaped(q)'
  <2>1. disp[d].task \in Tasks /\ disp[d].worker \in Workers
    BY <1>4 DEF AcceptTask, Shape, DispatcherShape, Shaped
  <2>2. PICK r \in Runs :
          /\ run[r].pc = "unused"
          /\ run' = [run EXCEPT ![r] = [run[r] EXCEPT !.pc = "accepted", !.task = disp[d].task,
                                                    !.worker = disp[d].worker]]
    BY <1>1, <1>4 DEF AcceptTask
  <2>3. CASE q = r
    <3>1. /\ run'[q].pc = "accepted" /\ run'[q].task = disp[d].task
          /\ run'[q].worker = disp[d].worker
      BY <1>1, <2>2, <2>3 DEF RunStates
    <3>2. /\ announce'[q].pc = "none" /\ report'[q].pc = "none"
      BY <1>2, <1>4, <2>2, <2>3 DEF AcceptTask, RunShaped
    <3> QED
      BY <2>1, <3>1, <3>2 DEF RunShaped
  <2>4. CASE q # r
    <3>1. run'[q] = run[q] /\ announce' = announce /\ report' = report
      BY <1>1, <1>4, <2>2, <2>4 DEF AcceptTask
    <3> QED
      BY <1>2, <3>1 DEF RunShaped
  <2> QED
    BY <2>3, <2>4
<1>5. ASSUME NEW r \in Runs, StartRun(r) PROVE RunShaped(q)'
  <2>1. /\ run'[q].task = run[q].task /\ run'[q].worker = run[q].worker
        /\ run'[q].outcome = run[q].outcome
        /\ run'[q].pc = IF q = r THEN "announcing" ELSE run[q].pc
        /\ report' = report
    BY <1>1, <1>5 DEF StartRun, RunStates
  <2>2. q # r => announce'[q] = announce[q]
    BY <1>1, <1>5 DEF StartRun
  <2>3. run[r].pc = "accepted" /\ RunShaped(q)
    BY <1>2, <1>5 DEF StartRun
  <2> QED
    BY <2>1, <2>2, <2>3 DEF RunShaped
<1>6. ASSUME NEW r \in Runs, AnnounceReturns(r) PROVE RunShaped(q)'
  <2>1. /\ run'[q].task = run[q].task /\ run'[q].worker = run[q].worker
        /\ run'[q].outcome = run[q].outcome
        /\ run'[q].pc = IF q = r THEN "engine" ELSE run[q].pc
        /\ announce' = announce /\ report' = report
    BY <1>1, <1>6 DEF AnnounceReturns, RunStates
  <2>2. run[r].pc = "announcing" /\ RunShaped(q)
    BY <1>2, <1>6 DEF AnnounceReturns
  <2> QED
    BY <2>1, <2>2 DEF RunShaped
<1>7. ASSUME NEW r \in Runs, NEW v \in Verdicts, EngineEnds(r, v) PROVE RunShaped(q)'
  <2>1. /\ run'[q].task = run[q].task /\ run'[q].worker = run[q].worker
        /\ run'[q].outcome = IF q = r THEN v ELSE run[q].outcome
        /\ run'[q].pc = IF q = r THEN "reporting" ELSE run[q].pc
        /\ announce' = announce
    BY <1>1, <1>7 DEF EngineEnds, RunStates
  <2>2. q # r => report'[q] = report[q]
    BY <1>1, <1>7 DEF EngineEnds
  <2>3. run[r].pc = "engine" /\ RunShaped(q)
    BY <1>2, <1>7 DEF EngineEnds
  <2> QED
    BY <2>1, <2>2, <2>3 DEF RunShaped
<1>8. ASSUME NEW r \in Runs, ReportReturns(r) \/ RunAborts(r) PROVE RunShaped(q)'
  <2>1. /\ run'[q].task = run[q].task /\ run'[q].worker = run[q].worker
        /\ run'[q].outcome = run[q].outcome
        /\ run'[q].pc = IF q = r THEN "ended" ELSE run[q].pc
        /\ announce' = announce /\ report' = report
    BY <1>1, <1>8 DEF ReportReturns, RunAborts, Leave, RunStates
  <2>2. run[r].pc \in {"reporting", "engine"} /\ RunShaped(q)
    BY <1>2, <1>8 DEF ReportReturns, RunAborts
  <2> QED
    BY <2>1, <2>2 DEF RunShaped
<1>9. ASSUME NEW w \in Workers, Crash(w) PROVE RunShaped(q)'
  <2>1. /\ run'[q].task = run[q].task /\ run'[q].worker = run[q].worker
        /\ run'[q].outcome = run[q].outcome
        /\ \/ run'[q].pc = run[q].pc
           \/ run'[q].pc = "dead" /\ run[q].pc \in InProgress \cup {"accepted"}
        /\ announce' = announce /\ report' = report
    BY <1>1, <1>9 DEF Crash, RunStates
  <2> QED
    BY <1>2, <2>1 DEF RunShaped, InProgress
<1>10. ASSUME NEW r \in Runs, RunningArrives(r) \/ RunningSaves(r) PROVE RunShaped(q)'
  <2>1. run' = run /\ report' = report /\ announce[r].pc # "none"
    BY <1>10 DEF RunningArrives, RunningSaves, ReadsRow
  <2>2. q # r => announce'[q] = announce[q]
    BY <1>1, <1>10 DEF RunningArrives, RunningSaves, ReadsRow
  <2> QED
    BY <1>2, <2>1, <2>2 DEF RunShaped
<1>11. ASSUME NEW r \in Runs, ResultArrives(r) \/ ResultCommits(r) PROVE RunShaped(q)'
  <2>1. run' = run /\ announce' = announce /\ report[r].pc # "none"
    BY <1>11 DEF ResultArrives, ResultCommits, ReadsRow
  <2>2. q # r => report'[q] = report[q]
    BY <1>1, <1>11 DEF ResultArrives, ResultCommits, ReadsRow
  <2> QED
    BY <1>2, <2>1, <2>2 DEF RunShaped
<1> QED
  BY <1>3, <1>4, <1>5, <1>6, <1>7, <1>8, <1>9, <1>10, <1>11
     DEF Next, DispatchStep, RunStep, CallbackStep, CreateTask, BecomeDue, CreateDemoTask,
         ListPending, RefreshTask, SelectWorker, DeliveryAccepted, DeliveryRefused,
         DeliveryTimesOut, SaveDiagnostic, SaveDispatched, DispatcherDies, SendHeartbeat,
         StartAgent, Register, ApplyHeartbeat, FallSilent, MarkStale

\* Every step keeps the agents' counts exact: a run is counted when it starts,
\* taken off when it leaves, and a crash clears the runs with the count.
LEMMA ActiveCountStep == Shape /\ Next => ActiveCountExact'
<1> SUFFICES ASSUME Shape, Next, NEW w \in Workers
             PROVE  active'[w] = Cardinality(RunsOn(w)')
  BY DEF ActiveCountExact
<1> USE DEF agentVars
<1>1. run \in [Runs -> RunStates] /\ active \in [Workers -> Nat]
  BY DEF Shape, TypeOK
<1>2. active[w] = Cardinality(RunsOn(w)) /\ IsFiniteSet(RunsOn(w))
  BY RunsOnFinite DEF Shape, ActiveCountExact
<1>3. ASSUME RunsOn(w)' = RunsOn(w), active'[w] = active[w]
      PROVE  active'[w] = Cardinality(RunsOn(w)')
  BY <1>2, <1>3
<1>4. CASE UNCHANGED <<run, active>>
  BY <1>3, <1>4 DEF RunsOn
<1>5. ASSUME NEW d \in Dispatchers, AcceptTask(d) PROVE active'[w] = Cardinality(RunsOn(w)')
  <2>1. PICK r \in Runs :
          /\ run[r].pc = "unused"
          /\ run' = [run EXCEPT ![r] = [run[r] EXCEPT !.pc = "accepted", !.task = disp[d].task,
                                                    !.worker = disp[d].worker]]
    BY <1>1, <1>5 DEF AcceptTask
  <2>2. run'[r].pc = "accepted" /\ \A q \in Runs \ {r} : run'[q] = run[q]
    BY <1>1, <2>1 DEF RunStates
  <2>3. RunsOn(w)' = RunsOn(w)
    BY <2>1, <2>2 DEF RunsOn, InProgress
  <2> QED
    BY <1>3, <1>5, <2>3 DEF AcceptTask
<1>6. ASSUME NEW r \in Runs, StartRun(r) PROVE active'[w] = Cardinality(RunsOn(w)')
  <2>1. run[r].pc = "accepted" /\ run[r].worker \in Workers
    BY <1>6 DEF StartRun, Shape, RunShape, RunShaped
  <2>2. /\ run'[r].pc = "announcing" /\ run'[r].worker = run[r].worker
        /\ \A q \in Runs \ {r} : run'[q] = run[q]
    BY <1>1, <1>6 DEF StartRun, RunStates
  <2>3. active' = [active EXCEPT ![run[r].worker] = @ + 1]
    BY <1>6 DEF StartRun
  <2>4. CASE run[r].worker = w
    <3>1. r \notin RunsOn(w) /\ RunsOn(w)' = RunsOn(w) \cup {r}
      BY <2>1, <2>2, <2>4 DEF RunsOn, InProgress
    <3>2. Cardinality(RunsOn(w)') = Cardinality(RunsOn(w)) + 1
      BY <1>2, <3>1, FS_AddElement
    <3> QED
      BY <1>1, <1>2, <2>3, <2>4, <3>2
  <2>5. CASE run[r].worker # w
    <3>1. RunsOn(w)' = RunsOn(w)
      BY <2>1, <2>2, <2>5 DEF RunsOn, InProgress
    <3> QED
      BY <1>1, <1>3, <2>3, <2>5, <3>1
  <2> QED
    BY <2>4, <2>5
<1>7. ASSUME NEW r \in Runs, NEW phase, run' = [run EXCEPT ![r].pc = phase],
             phase \in {"engine", "reporting"}, run[r].pc \in InProgress, active' = active
      PROVE  active'[w] = Cardinality(RunsOn(w)')
  <2>1. \A q \in Runs : /\ run'[q].worker = run[q].worker
                        /\ run'[q].pc = IF q = r THEN phase ELSE run[q].pc
    BY <1>1, <1>7 DEF RunStates
  <2>2. RunsOn(w)' = RunsOn(w)
    BY <1>7, <2>1 DEF RunsOn, InProgress
  <2> QED
    BY <1>3, <1>7, <2>2
<1>8. ASSUME NEW r \in Runs, AnnounceReturns(r) PROVE active'[w] = Cardinality(RunsOn(w)')
  BY <1>7, <1>8 DEF AnnounceReturns, InProgress
<1>9. ASSUME NEW r \in Runs, NEW v \in Verdicts, EngineEnds(r, v)
      PROVE  active'[w] = Cardinality(RunsOn(w)')
  <2>1. \A q \in Runs : /\ run'[q].worker = run[q].worker
                        /\ run'[q].pc = IF q = r THEN "reporting" ELSE run[q].pc
    BY <1>1, <1>9 DEF EngineEnds, RunStates
  <2>2. RunsOn(w)' = RunsOn(w) /\ active' = active
    BY <1>9, <2>1 DEF RunsOn, InProgress, EngineEnds
  <2> QED
    BY <1>3, <2>2
<1>10. ASSUME NEW r \in Runs, ReportReturns(r) \/ RunAborts(r)
       PROVE  active'[w] = Cardinality(RunsOn(w)')
  <2>1. run[r].pc \in InProgress /\ run[r].worker \in Workers
    BY <1>10 DEF ReportReturns, RunAborts, InProgress, Shape, RunShape, RunShaped
  <2>2. /\ run'[r].pc = "ended" /\ run'[r].worker = run[r].worker
        /\ \A q \in Runs \ {r} : run'[q] = run[q]
    BY <1>1, <1>10 DEF ReportReturns, RunAborts, Leave, RunStates
  <2>3. active' = [active EXCEPT ![run[r].worker] = @ - 1]
    BY <1>10 DEF ReportReturns, RunAborts, Leave
  <2>4. CASE run[r].worker = w
    <3>1. r \in RunsOn(w) /\ RunsOn(w)' = RunsOn(w) \ {r}
      BY <2>1, <2>2, <2>4 DEF RunsOn, InProgress
    <3>2. Cardinality(RunsOn(w)') = Cardinality(RunsOn(w)) - 1
      BY <1>2, <3>1, FS_RemoveElement
    <3> QED
      BY <1>1, <1>2, <2>3, <2>4, <3>2
  <2>5. CASE run[r].worker # w
    <3>1. RunsOn(w)' = RunsOn(w)
      BY <2>1, <2>2, <2>5 DEF RunsOn, InProgress
    <3> QED
      BY <1>1, <1>3, <2>3, <2>5, <3>1
  <2> QED
    BY <2>4, <2>5
<1>11. ASSUME NEW v \in Workers, Crash(v) PROVE active'[w] = Cardinality(RunsOn(w)')
  <2>1. run' = [r \in Runs |->
                 IF run[r].worker = v /\ run[r].pc \in InProgress \cup {"accepted"}
                 THEN [run[r] EXCEPT !.pc = "dead"] ELSE run[r]]
    BY <1>11 DEF Crash
  <2>2. \A r \in Runs : /\ run'[r].worker = run[r].worker
                        /\ run'[r].pc = IF run[r].worker = v /\ run[r].pc \in InProgress \cup {"accepted"}
                                        THEN "dead" ELSE run[r].pc
    BY <1>1, <2>1 DEF RunStates
  <2>3. CASE v = w
    <3>1. RunsOn(w)' = {}
      BY <2>2, <2>3 DEF RunsOn, InProgress
    <3> QED
      BY <1>1, <1>11, <2>3, <3>1, FS_EmptySet DEF Crash
  <2>4. CASE v # w
    <3>1. RunsOn(w)' = RunsOn(w)
      BY <2>2, <2>4 DEF RunsOn
    <3> QED
      BY <1>1, <1>3, <1>11, <2>4, <3>1 DEF Crash
  <2> QED
    BY <2>3, <2>4
<1> QED
  BY <1>4, <1>5, <1>6, <1>8, <1>9, <1>10, <1>11
     DEF Next, DispatchStep, RunStep, CallbackStep, CreateTask, BecomeDue, CreateDemoTask,
         ListPending, RefreshTask, SelectWorker, DeliveryAccepted, DeliveryRefused,
         DeliveryTimesOut, SaveDiagnostic, SaveDispatched, DispatcherDies, RunningArrives,
         RunningSaves, ResultArrives, ResultCommits, SendHeartbeat,
         StartAgent, Register, ApplyHeartbeat, FallSilent, MarkStale

\* The invariant is inductive.
LEMMA ShapeStep == Shape /\ [Next]_vars => Shape'
<1> SUFFICES ASSUME Shape, [Next]_vars PROVE Shape'
  OBVIOUS
<1>1. CASE Next
  BY <1>1, TypeStep, DispatcherShapeStep, RunShapeStep, ActiveCountStep DEF Shape
<1>2. CASE UNCHANGED vars
  BY <1>2 DEF vars, Shape, TypeOK, HistoryTypeOK, DispatcherShape, Shaped, RunShape,
              RunShaped, ActiveCountExact, RunsOn
<1> QED
  BY <1>1, <1>2

\* The invariant holds in every reachable state.
THEOREM ShapeInvariant == Spec => []Shape
<1>1. Init => Shape
  BY InitShape
<1>2. Shape /\ [Next]_vars => Shape'
  BY ShapeStep
<1> QED
  BY <1>1, <1>2, PTL DEF Spec

\* Every reachable state is well typed (PlatformState).
THEOREM TypeCorrect == Spec => []TypeOK
<1>1. Shape => TypeOK
  BY DEF Shape
<1> QED
  BY <1>1, ShapeInvariant, PTL

\* The active_task_count of every agent is the number of its executions in
\* progress, however they end (the "finally" of execute_task).
THEOREM CountsAreExact == Spec => []ActiveCountExact
<1>1. Shape => ActiveCountExact
  BY DEF Shape
<1> QED
  BY <1>1, ShapeInvariant, PTL
=============================================================================
