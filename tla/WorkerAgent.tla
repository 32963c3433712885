---------------------------- MODULE WorkerAgent ----------------------------
(***************************************************************************)
(* The worker agent (workers/agent.py): POST /execute, the background      *)
(* execution of a task and the heartbeat it sends.  Runs of one agent are  *)
(* concurrent: each is a background task in a thread of its own.           *)
(***************************************************************************)
EXTENDS PlatformState

\* The phases of a run that have incremented active_task_count.
InProgress == {"announcing", "engine", "reporting"}
RunsOn(w) == {r \in Runs : run[r].worker = w /\ run[r].pc \in InProgress}

\* POST /execute from dispatcher d: the agent answers 202 and has queued
\* execute_task in the background.  A late answer is DeliveryTimesOut.
AcceptTask(d) ==
  /\ disp[d].pc = "posting" /\ disp[d].delivered = NoRun
  /\ agent[disp[d].worker] = "up"
  /\ \E r \in Runs :
       /\ run[r].pc = "unused"
       /\ \A q \in Runs : q < r => run[q].pc # "unused"
       /\ run' = [run EXCEPT ![r].pc = "accepted", ![r].task = disp[d].task,
                             ![r].worker = disp[d].worker]
       /\ disp' = [disp EXCEPT ![d].delivered = r]
  /\ UNCHANGED <<taskVars, workerVars, dispatchHistory, agent, active, beat, callVars, faults>>

\* Mutation: the run is not counted.
StartRunUncounted(r) ==
  /\ run[r].pc = "accepted"
  /\ run' = [run EXCEPT ![r].pc = "announcing"]
  /\ announce' = [announce EXCEPT ![r].pc = "sent"]
  /\ UNCHANGED <<taskVars, workerVars, dispatchVars, agent, active, beat, report, givenUp, faults>>

\* execute_task begins: it counts itself and posts "running".
StartRun(r) ==
  /\ run[r].pc = "accepted"
  /\ run' = [run EXCEPT ![r].pc = "announcing"]
  /\ active' = [active EXCEPT ![run[r].worker] = @ + 1]
  /\ announce' = [announce EXCEPT ![r].pc = "sent"]
  /\ UNCHANGED <<taskVars, workerVars, dispatchVars, agent, beat, report, givenUp, faults>>

\* Mutation: the notice is posted without waiting for its answer.
ReturnedUnanswered(call) == NoFault

\* A callback returns to the agent: answered, or given up on after 10 s or a
\* connection error while the request may still be on its way.
Returned(call) ==
  \/ call.pc \in Answers /\ NoFault
  \/ Fault("callback")

\* post_task_running returned or failed, which is only logged: the engine is
\* started either way.
AnnounceReturns(r) ==
  /\ run[r].pc = "announcing"
  /\ Returned(announce[r])
  /\ run' = [run EXCEPT ![r].pc = "engine"]
  /\ givenUp' = IF faults' = faults THEN givenUp ELSE givenUp \cup {r}
  /\ UNCHANGED <<taskVars, workerVars, dispatchVars, agent, active, beat, announce, report>>

\* The engine exits, or is killed at its timeout (a failure), or is one that
\* the agent does not know (a failure): the summary is posted.
EngineEnds(r, verdict) ==
  /\ run[r].pc = "engine"
  /\ run' = [run EXCEPT ![r].pc = "reporting", ![r].outcome = verdict]
  /\ report' = [report EXCEPT ![r].pc = "sent"]
  /\ UNCHANGED <<taskVars, workerVars, dispatchVars, agent, active, beat, announce, givenUp,
                 faults>>

\* Mutation: the count is not taken back.
LeaveCounted(r) ==
  /\ run' = [run EXCEPT ![r].pc = "ended"]
  /\ UNCHANGED active

\* execute_task leaves, and its "finally" takes the run off the count.
Leave(r) ==
  /\ run' = [run EXCEPT ![r].pc = "ended"]
  /\ active' = [active EXCEPT ![run[r].worker] = @ - 1]

\* post_task_result returned or failed, which is only logged.
ReportReturns(r) ==
  /\ run[r].pc = "reporting"
  /\ Returned(report[r])
  /\ Leave(r)
  /\ UNCHANGED <<taskVars, workerVars, dispatchVars, agent, beat, callVars>>

\* Mutation: an exception skips the "finally".
RunAbortsCounted(r) ==
  /\ run[r].pc = "engine"
  /\ Fault("exception")
  /\ LeaveCounted(r)
  /\ UNCHANGED <<taskVars, workerVars, dispatchVars, agent, beat, callVars>>

\* Any other exception in the try is only logged.  The lines between the notice
\* and the try look up fields and join paths, and are taken not to raise.
RunAborts(r) ==
  /\ run[r].pc = "engine"
  /\ Fault("exception")
  /\ Leave(r)
  /\ UNCHANGED <<taskVars, workerVars, dispatchVars, agent, beat, callVars>>

\* send_heartbeat: the payload is fixed here and processed when it arrives.
SendHeartbeat(w) ==
  /\ agent[w] = "up" /\ beat[w] = NoBeat
  /\ beat' = [beat EXCEPT ![w] = active[w]]
  /\ UNCHANGED <<taskVars, workerVars, dispatchVars, agent, active, run, callVars, faults>>

\* The agent dies with the runs it has; the callbacks it sent are on their way.
Crash(w) ==
  /\ agent[w] # "down"
  /\ Fault("crash")
  /\ agent' = [agent EXCEPT ![w] = "down"]
  /\ active' = [active EXCEPT ![w] = 0]
  /\ run' = [r \in Runs |->
               IF run[r].worker = w /\ run[r].pc \in InProgress \cup {"accepted"}
               THEN [run[r] EXCEPT !.pc = "dead"] ELSE run[r]]
  /\ UNCHANGED <<taskVars, workerVars, dispatchVars, beat, callVars>>

\* The process starts (again); it serves requests once it has registered.
StartAgent(w) ==
  /\ agent[w] = "down"
  /\ agent' = [agent EXCEPT ![w] = "starting"]
  /\ UNCHANGED <<taskVars, workerVars, dispatchVars, active, beat, run, callVars, faults>>

\* A step of the code of execute_task in run r.
RunStep(r) ==
  \/ StartRun(r) \/ AnnounceReturns(r)
  \/ \E verdict \in Verdicts : EngineEnds(r, verdict)
  \/ ReportReturns(r) \/ RunAborts(r)
=============================================================================
