--------------------------- MODULE ResultCallback ---------------------------
(***************************************************************************)
(* POST /api/tasks/<id>/results/ (apps/results/views.py): the "running"    *)
(* notice and the result of a run.  A handler reads the task's row and     *)
(* whether it has a result, and writes later; handlers of several requests *)
(* for one task interleave, and one runs on when its client gave up.       *)
(***************************************************************************)
EXTENDS PlatformState

HasResult(t) == result[t] # NoRun

\* Mutation: a null started_at is saved as it was read.
StartedAtAsSeen(seen, now) == seen

\* started_at after a save of the object read earlier with "seen": kept when
\* it was set, the present when it was null.
StartedAt(seen, now) == IF seen = "null" THEN now ELSE seen

\* The handler reads the row and refuses a task that has a result.
ReadsRow(call, r) ==
  /\ call[r].pc = "sent"
  /\ LET t == run[r].task IN
     call' = [call EXCEPT ![r] =
                IF HasResult(t) THEN [pc |-> "conflict", started |-> "null"]
                                ELSE [pc |-> "checked", started |-> task[t].started]]

RunningArrives(r) ==
  /\ ReadsRow(announce, r)
  /\ UNCHANGED <<taskVars, workerVars, dispatchVars, agentVars, report, givenUp, faults>>

\* task.save of the running branch.  The present is "late" once the row has
\* a finished_at.
RunningSaves(r) ==
  LET t == run[r].task
      now == IF task[t].finished THEN "late" ELSE "set"
  IN /\ announce[r].pc = "checked"
     /\ task' = [task EXCEPT ![t].status = "running", ![t].error = "",
                             ![t].started = StartedAt(announce[r].started, now)]
     /\ announce' = [announce EXCEPT ![r].pc = "accepted"]
     /\ UNCHANGED <<due, result, workerVars, dispatchVars, agentVars, report, givenUp, faults>>

ResultArrives(r) ==
  /\ ReadsRow(report, r)
  /\ UNCHANGED <<taskVars, workerVars, dispatchVars, agentVars, announce, givenUp, faults>>

\* Mutation: nothing keeps a second result out (no one-to-one key).
ResultOverwrites(r) ==
  LET t == run[r].task
      verdict == run[r].outcome
  IN /\ report[r].pc = "checked"
     /\ result' = [result EXCEPT ![t] = r]
     /\ task' = [task EXCEPT
          ![t].status = verdict,
          ![t].error = IF verdict = "failed" THEN "run" ELSE "",
          ![t].started = StartedAt(report[r].started, "set"),
          ![t].finished = TRUE]
     /\ report' = [report EXCEPT ![r].pc = "created"]
     /\ UNCHANGED <<due, workerVars, dispatchVars, agentVars, announce, givenUp, faults>>

\* The transaction: the TestResult and the row of the task together.  The
\* one-to-one key lets one result in; the second insert is an IntegrityError.
ResultCommits(r) ==
  LET t == run[r].task
      verdict == run[r].outcome
  IN /\ report[r].pc = "checked"
     /\ \/ /\ HasResult(t)
           /\ report' = [report EXCEPT ![r].pc = "error"]
           /\ UNCHANGED <<task, result>>
        \/ /\ ~ HasResult(t)
           /\ result' = [result EXCEPT ![t] = r]
           /\ task' = [task EXCEPT
                ![t].status = verdict,
                ![t].error = IF verdict = "failed" THEN "run" ELSE "",
                ![t].started = StartedAt(report[r].started, "set"),
                ![t].finished = TRUE]
           /\ report' = [report EXCEPT ![r].pc = "created"]
     /\ UNCHANGED <<due, workerVars, dispatchVars, agentVars, announce, givenUp, faults>>

\* A step of a handler of run r's callbacks.
CallbackStep(r) ==
  RunningArrives(r) \/ RunningSaves(r) \/ ResultArrives(r) \/ ResultCommits(r)
=============================================================================
