--------------------------- MODULE TaskLifecycle ---------------------------
(***************************************************************************)
(* The control loop of pLoadtesting: tasks are created, dispatched to idle *)
(* workers, executed and reported on, while workers register, beat, fall   *)
(* silent, crash and come back.                                            *)
(***************************************************************************)
EXTENDS Dispatcher, WorkerAgent, ResultCallback, WorkerRegistry

Next ==
  \/ \E t \in Tasks : CreateTask(t) \/ BecomeDue(t)
  \/ \E t \in Tasks, d \in WebThreads : CreateDemoTask(t, d)
  \/ \E d \in Schedulers : ListPending(d)
  \/ \E d \in Dispatchers : DispatchStep(d) \/ AcceptTask(d)
  \/ \E r \in Runs : RunStep(r) \/ CallbackStep(r)
  \/ \E w \in Workers :
       \/ SendHeartbeat(w) \/ Crash(w) \/ StartAgent(w)
       \/ Register(w) \/ ApplyHeartbeat(w) \/ FallSilent(w)
  \/ MarkStale

Spec == Init /\ [][Next]_vars

(***************************************************************************)
(* Fairness.  Celery beat fires both periodic jobs for ever and code that  *)
(* has started runs on; HTTP calls to a live server are served; an agent   *)
(* beats every 10 s and retries its registration; time passes.  A crashed  *)
(* agent need not come back: only its first start is promised.  No fault   *)
(* and no creation is promised.                                            *)
(***************************************************************************)
Fairness ==
  /\ \A t \in Tasks : WF_vars(BecomeDue(t))
  /\ \A d \in Schedulers : WF_vars(ListPending(d))
  /\ \A d \in Dispatchers : WF_vars(DispatchStep(d)) /\ WF_vars(AcceptTask(d))
  /\ \A r \in Runs : WF_vars(RunStep(r)) /\ WF_vars(CallbackStep(r))
  /\ \A w \in Workers :
       /\ WF_vars(row[w].status = "unregistered" /\ StartAgent(w))
       /\ WF_vars(Register(w))
       /\ WF_vars(SendHeartbeat(w)) /\ WF_vars(ApplyHeartbeat(w))
       /\ WF_vars(FallSilent(w))
  /\ WF_vars(MarkStale)

FairSpec == Spec /\ Fairness

RunsOf(t) == {r \in Runs : run[r].task = t}

-----------------------------------------------------------------------------
(***************************************************************************)
(* Safety                                                                  *)
(***************************************************************************)
\* A finished row and its result agree: a terminal status is the verdict of
\* the run whose result is stored, finished_at is set exactly when there is a
\* result, and then started_at is set too, even when the running callback was
\* lost (results/views.py, the transaction of post).
VerdictRecorded ==
  \A t \in Tasks :
    /\ task[t].status \in Verdicts =>
         /\ HasResult(t)
         /\ run[result[t]].task = t /\ run[result[t]].outcome = task[t].status
    /\ HasResult(t) <=> task[t].finished
    /\ task[t].finished => task[t].started # "null"

\* A task is DISPATCHED to a worker only after that worker's agent took it:
\* the worker named by the row has a run of the task (dispatch_pending_tasks,
\* "only after successful worker delivery").
DeliveredBeforeDispatched ==
  \A t \in Tasks :
    /\ task[t].status = "dispatched" => task[t].worker # NoWorker
    /\ task[t].worker # NoWorker =>
         \E r \in RunsOf(t) : run[r].worker = task[t].worker

\* The count an agent reports is the number of executions it has in progress,
\* whatever way each of them ends (the "finally" of execute_task).
ActiveCountExact ==
  \A w \in Workers : active[w] = Cardinality(RunsOn(w))

\* How often one task can be executed: once for each process that dispatches,
\* since each reads the row again before it posts and writes DISPATCHED when
\* the post succeeds; and once more for each of them and each fault, for one
\* crash can fail the calls of all of them (dispatch_task_once).
BoundedDuplication ==
  \A t \in Tasks :
    Cardinality(RunsOf(t)) <= Cardinality(Dispatchers) * (1 + faults)

\* A decided row shows an error other than that of its run only if a delivery
\* that the agent took was given up on, or two processes dispatched the task
\* at once: the saves of dispatch_task_once write error_message whatever the
\* row has become.
ErrorIsOfTheRun ==
  \A t \in Tasks :
    task[t].status \in Verdicts /\ t \notin contested /\ RunsOf(t) \cap unheard = {} =>
      task[t].error = IF task[t].status = "failed" THEN "run" ELSE ""

\* A running notice reopens a decided task, or dates its start after its end,
\* only if the task was executed twice or the agent gave up on that notice
\* and ran on: post_task_running is awaited before the engine starts, and the
\* handler of results/views.py refuses a task that has its result.
NoRunningAfterResult ==
  [][\A t \in Tasks : RunsOf(t) = {result[t]} /\ result[t] \notin givenUp =>
       /\ task[t].status # "running" => task'[t].status # "running"
       /\ task'[t].started # "late"]_vars

\* The loop keeps the promise of TaskOutcome: one verdict for each task, never
\* changed, after a delivery.
Outcome == INSTANCE TaskOutcome WITH
  Undecided <- "none",
  phase <- [t \in Tasks |-> IF task[t].status = "absent" THEN "absent"
                            ELSE IF RunsOf(t) = {} THEN "waiting" ELSE "delivered"],
  verdict <- [t \in Tasks |-> IF HasResult(t) THEN run[result[t]].outcome ELSE "none"]
ImplementsOutcome == Outcome!Spec

-----------------------------------------------------------------------------
(***************************************************************************)
(* Liveness                                                                *)
(***************************************************************************)
\* Without faults every created task gets its result, however the row of the
\* worker lags behind the agent and however the tasks compete for workers.
EveryTaskIsDecided ==
  \A t \in Tasks : task[t].status # "absent" ~> HasResult(t)

\* Pending tasks are retried until they are delivered even when the worker
\* that _select_available_worker prefers is dead: the sweep takes it out.
PendingIsDelivered ==
  \A t \in Tasks : task[t].status = "pending" ~> task[t].status # "pending"

\* Once an agent stays up with n executions its row comes to say so and stays
\* so, whatever the row was before: OFFLINE after held-back heartbeats, reset
\* by a registration whose answer was lost, or set by a heartbeat of before a
\* crash that arrived after the registration.
RowFollowsAgent ==
  \A w \in Workers, n \in 0 .. MaxRuns :
    <>[](agent[w] = "up" /\ active[w] = n) =>
      <>[](row[w] = [status |-> IF n > 0 THEN "busy" ELSE "online", count |-> n, fresh |-> TRUE])

-----------------------------------------------------------------------------
(***************************************************************************)
(* Statements of the repository that the code does not keep                *)
(***************************************************************************)
\* The lifecycle ends in COMPLETED or FAILED: a task that has its result comes
\* to rest in its verdict (the success list of TaskResultCreateView and the
\* state diagram of docs/architecture-interaction.md).
ResultSettlesStatus ==
  \A t \in Tasks : HasResult(t) ~> [](task[t].status \in Verdicts)

\* LoadTestTask's state machine: RUNNING comes before COMPLETED and FAILED,
\* which are final but for a cancellation.
RunningNeverReopens ==
  [][\A t \in Tasks : task[t].status \in Verdicts => task'[t].status # "running"]_vars

\* TaskResultCreateView: a second result is answered 409 Conflict.
DuplicateIsConflict == \A r \in Runs : report[r].pc # "error"
=============================================================================
