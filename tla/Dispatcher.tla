----------------------------- MODULE Dispatcher -----------------------------
(***************************************************************************)
(* Task creation and dispatch in the control plane (apps/tasks/tasks.py    *)
(* and the create handler of apps/tasks/views.py).  A dispatcher process   *)
(* runs dispatch_task_once for one task after another; it is a Celery      *)
(* process inside dispatch_pending_tasks, or a web thread inside the       *)
(* creation of a demo task.  Each query, save and HTTP call is a step of   *)
(* its own: the database is in autocommit mode, and the other processes    *)
(* run in between.                                                         *)
(***************************************************************************)
EXTENDS PlatformState

\* dispatch_task_once has returned: its caller goes on with the tasks left.
Resume(p) == [p EXCEPT !.pc = IF p.todo = {} THEN "idle" ELSE "loop",
                       !.task = NoTask, !.worker = NoWorker, !.delivered = NoRun]

\* The row a creation writes: PENDING with every other field at its default.
CreateRow(t) ==
  /\ task[t].status = "absent"
  /\ \A u \in Tasks : u < t => task[u].status # "absent"
  /\ task' = [task EXCEPT ![t].status = "pending"]
  /\ due' = due \cup ({t} \ Scheduled)

\* POST /api/tasks/ with the shared token.
CreateTask(t) ==
  /\ t \notin Demo
  /\ CreateRow(t)
  /\ UNCHANGED <<result, workerVars, dispatchVars, agentVars, callVars, faults>>

\* POST /api/tasks/ through the demo API: the request's own thread d goes on
\* to dispatch the task it has created.
CreateDemoTask(t, d) ==
  /\ t \in Demo
  /\ disp[d].pc = "idle"
  /\ CreateRow(t)
  /\ disp' = [disp EXCEPT ![d].pc = "loop", ![d].todo = {t}]
  /\ UNCHANGED <<result, dispatchHistory, workerVars, agentVars, callVars, faults>>

\* The scheduled_at of t passes.
BecomeDue(t) ==
  /\ task[t].status # "absent" /\ t \notin due
  /\ due' = due \cup {t}
  /\ UNCHANGED <<task, result, workerVars, dispatchVars, agentVars, callVars, faults>>

\* dispatch_pending_tasks evaluates its queryset.
ListPending(d) ==
  LET pending == {t \in due : task[t].status = "pending"} IN
  /\ disp[d].pc = "idle"
  /\ pending # {}
  /\ disp' = [disp EXCEPT ![d].pc = "loop", ![d].todo = pending]
  /\ UNCHANGED <<dispatchHistory, taskVars, workerVars, agentVars, callVars, faults>>

\* The loop reaches its next task, the newest one left (the ordering of the
\* model's Meta), and dispatch_task_once reads its row again.
RefreshTask(d) ==
  \E t \in disp[d].todo :
    /\ disp[d].pc = "loop"
    /\ \A u \in disp[d].todo : u <= t
    /\ LET rest == [disp[d] EXCEPT !.todo = @ \ {t}] IN
       disp' = [disp EXCEPT ![d] =
                  IF task[t].status = "pending"
                  THEN [rest EXCEPT !.pc = "select", !.task = t]
                  ELSE Resume(rest)]
    /\ contested' = contested \cup {u \in Tasks : \E e \in Dispatchers \ {d} :
                                      disp'[d].task = u /\ disp[e].task = u}
    /\ UNCHANGED <<unheard, taskVars, workerVars, agentVars, callVars, faults>>

\* The workers that _select_available_worker may return for t: of those that
\* are ONLINE with a count of 0 and support the engine, the one heard from
\* least recently.
Idle(t) == {w \in Workers : /\ row[w].status = "online" /\ row[w].count = 0
                            /\ <<w, t>> \in Supports}
Available(t) == {w \in Idle(t) : \A v \in Idle(t) : <<v, w>> \notin older}

SelectWorker(d) ==
  /\ disp[d].pc = "select"
  /\ \/ \E w \in Available(disp[d].task) :
          disp' = [disp EXCEPT ![d].pc = "posting", ![d].worker = w]
     \/ /\ Available(disp[d].task) = {}
        /\ disp' = [disp EXCEPT ![d].pc = "diagnose"]
  /\ UNCHANGED <<dispatchHistory, taskVars, workerVars, agentVars, callVars, faults>>

\* _dispatch_to_worker returns: the agent has answered 202.
DeliveryAccepted(d) ==
  /\ disp[d].pc = "posting"
  /\ disp[d].delivered # NoRun
  /\ disp' = [disp EXCEPT ![d].pc = "save"]
  /\ UNCHANGED <<dispatchHistory, taskVars, workerVars, agentVars, callVars, faults>>

\* A delivery that the agent took, if d had one, is left without a record.
Forget(d) == unheard' = unheard \cup ({disp[d].delivered} \ {NoRun})

\* Mutation: the failure of the call is swallowed.
DeliveryRefusedSwallowed(d) ==
  /\ disp[d].pc = "posting"
  /\ agent[disp[d].worker] # "up"
  /\ disp' = [disp EXCEPT ![d].pc = "save"]
  /\ UNCHANGED <<dispatchHistory, taskVars, workerVars, agentVars, callVars, faults>>

\* _dispatch_to_worker raises because nobody listens on the worker's port.
DeliveryRefused(d) ==
  /\ disp[d].pc = "posting"
  /\ agent[disp[d].worker] # "up"
  /\ disp' = [disp EXCEPT ![d].pc = "diagnose"]
  /\ Forget(d)
  /\ UNCHANGED <<contested, taskVars, workerVars, agentVars, callVars, faults>>

\* _dispatch_to_worker raises after its 5 s, whether or not the agent took
\* the request.
DeliveryTimesOut(d) ==
  /\ disp[d].pc = "posting"
  /\ Fault("timeout")
  /\ disp' = [disp EXCEPT ![d].pc = "diagnose"]
  /\ Forget(d)
  /\ UNCHANGED <<contested, taskVars, workerVars, agentVars, callVars>>

\* The saves of dispatch_task_once write the named fields whatever the row
\* has become since RefreshTask.
SaveDiagnostic(d) ==
  /\ disp[d].pc = "diagnose"
  /\ task' = [task EXCEPT ![disp[d].task].error = "dispatch"]
  /\ disp' = [disp EXCEPT ![d] = Resume(@)]
  /\ UNCHANGED <<due, result, dispatchHistory, workerVars, agentVars, callVars, faults>>

\* Mutation: the row stays PENDING until the agent's notice.
SaveDispatchedKeepsPending(d) ==
  /\ disp[d].pc = "save"
  /\ task' = [task EXCEPT ![disp[d].task].worker = disp[d].worker,
                          ![disp[d].task].error = ""]
  /\ disp' = [disp EXCEPT ![d] = Resume(@)]
  /\ UNCHANGED <<due, result, dispatchHistory, workerVars, agentVars, callVars, faults>>

SaveDispatched(d) ==
  /\ disp[d].pc = "save"
  /\ task' = [task EXCEPT ![disp[d].task].status = "dispatched",
                          ![disp[d].task].worker = disp[d].worker,
                          ![disp[d].task].error = ""]
  /\ disp' = [disp EXCEPT ![d] = Resume(@)]
  /\ UNCHANGED <<due, result, dispatchHistory, workerVars, agentVars, callVars, faults>>

\* The process dies between two steps, or a query of it raises: what it was
\* doing is forgotten, and the database keeps what was saved.
DispatcherDies(d) ==
  /\ disp[d].pc # "idle"
  /\ Fault("abort")
  /\ disp' = [disp EXCEPT ![d] = IdleDispatcher]
  /\ Forget(d)
  /\ UNCHANGED <<contested, taskVars, workerVars, agentVars, callVars>>

\* A step of the code of dispatch_task_once in process d.
DispatchStep(d) ==
  \/ RefreshTask(d) \/ SelectWorker(d)
  \/ DeliveryAccepted(d) \/ DeliveryRefused(d) \/ DeliveryTimesOut(d)
  \/ SaveDiagnostic(d) \/ SaveDispatched(d) \/ DispatcherDies(d)
=============================================================================
