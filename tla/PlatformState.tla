--------------------------- MODULE PlatformState ---------------------------
(***************************************************************************)
(* The state shared by the parts of the pLoadtesting control loop: the     *)
(* rows of the control plane's database, the processes that dispatch       *)
(* tasks, the worker agents and the HTTP calls between them.  The modules  *)
(* Dispatcher, WorkerAgent, ResultCallback and WorkerRegistry define the   *)
(* actions of one part each; TaskLifecycle composes them.                  *)
(***************************************************************************)
EXTENDS Integers, FiniteSets

CONSTANTS
  Tasks,       \* load test tasks; their ids are in the order of created_at
  Scheduled,   \* the tasks created with a scheduled_at in the future
  Demo,        \* the tasks created through the demo API of the web process
  Workers,     \* worker agents, by name
  NoWorker,    \* the null of the task's worker foreign key
  Supports,    \* <<w, t>>: the capabilities of w contain the engine of t
  Schedulers,  \* Celery processes that may run dispatch_pending_tasks
  WebThreads,  \* request threads that serve task creation
  MaxRuns,     \* bound: how many POST /execute calls agents accept in all
  FaultKinds,  \* the kinds of fault a behaviour may contain
  MaxFaults    \* bound: how many faults a behaviour may contain

ASSUME TasksAssumption ==
  /\ Tasks \subseteq Nat \ {0}
  /\ Scheduled \subseteq Tasks /\ Demo \subseteq Tasks
  /\ Scheduled \cap Demo = {}
ASSUME WorkersAssumption ==
  /\ NoWorker \notin Workers
  /\ Supports \subseteq Workers \X Tasks
ASSUME DispatchersAssumption == IsFiniteSet(Schedulers) /\ IsFiniteSet(WebThreads)
ASSUME BoundsAssumption == MaxRuns \in Nat /\ MaxFaults \in Nat
ASSUME FaultsAssumption ==
  FaultKinds \subseteq
    {"abort", "crash", "timeout", "callback", "exception", "silence"}

Dispatchers == Schedulers \cup WebThreads
Runs == 1 .. MaxRuns
NoTask == 0
NoRun == 0
NoBeat == -1

VARIABLES
  task,      \* the LoadTestTask rows
  due,       \* tasks whose scheduled_at is null or has passed
  result,    \* the TestResult of a task, named by the run that reported it
  row,       \* the WorkerNode rows
  older,     \* <<v, w>>: v's last_heartbeat_at is before w's
  disp,      \* dispatch_task_once and its callers, one record per process
  agent,     \* the life of the agent process: "down", "starting" or "up"
  active,    \* worker_state["active_task_count"] of each agent
  beat,      \* the count in the heartbeat an agent has in flight
  run,       \* the executions of execute_task
  announce,  \* the "running" callback of each run
  report,    \* the result callback of each run
  faults,    \* the number of faults so far
  \* what no row keeps: the causes of what may go wrong with the rows
  givenUp,   \* the runs whose agent gave up on the answer of its notice
  unheard,   \* the runs whose dispatcher gave up on the delivery after the
             \* agent took it, or died before it saved DISPATCHED
  contested  \* the tasks that two processes dispatched at the same time

dispatchHistory == <<unheard, contested>>
dispatchVars == <<disp, dispatchHistory>>
agentVars == <<agent, active, beat, run>>
callVars == <<announce, report, givenUp>>
taskVars == <<task, due, result>>
workerVars == <<row, older>>
vars == <<task, due, result, row, older, disp, agent, active, beat, run,
          announce, report, faults, givenUp, unheard, contested>>

(***************************************************************************)
(* Types                                                                   *)
(***************************************************************************)
\* "absent" stands for a row that is not there.  SCHEDULED and CANCELLED are
\* declared by the code and never assigned.
TaskStatus == {"absent", "pending", "dispatched", "running", "completed", "failed"}
Verdicts == {"completed", "failed"}

\* A task's error_message: empty, a diagnostic of the dispatcher, or the
\* failure that a run reported.
ErrorMessages == {"", "dispatch", "run"}

\* started_at: null, set, or set later than finished_at was.
StartStamps == {"null", "set", "late"}

TaskRows == [status : TaskStatus, worker : Workers \cup {NoWorker},
             error : ErrorMessages, started : StartStamps, finished : BOOLEAN]

\* fresh: last_heartbeat_at is not older than the 30 s of mark_stale_workers.
WorkerRows == [status : {"unregistered", "online", "busy", "offline"},
               count : Nat, fresh : BOOLEAN]

DispatcherStates ==
  [pc : {"idle", "loop", "select", "posting", "save", "diagnose"},
   todo : SUBSET Tasks, task : Tasks \cup {NoTask},
   worker : Workers \cup {NoWorker}, delivered : Runs \cup {NoRun}]

RunStates ==
  [pc : {"unused", "accepted", "announcing", "engine", "reporting", "ended", "dead"},
   task : Tasks \cup {NoTask}, worker : Workers \cup {NoWorker},
   outcome : Verdicts \cup {"none"}]

\* A callback request: not sent, in flight, past the handler's look at the
\* rows (with the started_at it read), or answered with an HTTP status.
Unanswered == {"none", "sent", "checked"}
Answers == {"accepted", "created", "conflict", "error"}
Calls == [pc : Unanswered \cup Answers, started : StartStamps]

HistoryTypeOK == givenUp \subseteq Runs /\ unheard \subseteq Runs /\ contested \subseteq Tasks

TypeOK ==
  /\ task \in [Tasks -> TaskRows]
  /\ due \subseteq Tasks
  /\ result \in [Tasks -> Runs \cup {NoRun}]
  /\ row \in [Workers -> WorkerRows]
  /\ older \subseteq Workers \X Workers
  /\ disp \in [Dispatchers -> DispatcherStates]
  /\ agent \in [Workers -> {"down", "starting", "up"}]
  /\ active \in [Workers -> Nat]
  /\ beat \in [Workers -> Nat \cup {NoBeat}]
  /\ run \in [Runs -> RunStates]
  /\ announce \in [Runs -> Calls]
  /\ report \in [Runs -> Calls]
  /\ faults \in 0 .. MaxFaults
  /\ HistoryTypeOK

(***************************************************************************)
(* An empty database, idle dispatchers and agents that are not running.    *)
(***************************************************************************)
AbsentTask == [status |-> "absent", worker |-> NoWorker, error |-> "",
               started |-> "null", finished |-> FALSE]
AbsentWorker == [status |-> "unregistered", count |-> 0, fresh |-> FALSE]
IdleDispatcher == [pc |-> "idle", todo |-> {}, task |-> NoTask,
                   worker |-> NoWorker, delivered |-> NoRun]
UnusedRun == [pc |-> "unused", task |-> NoTask, worker |-> NoWorker, outcome |-> "none"]
NoCall == [pc |-> "none", started |-> "null"]

Init ==
  /\ task = [t \in Tasks |-> AbsentTask]
  /\ due = {}
  /\ result = [t \in Tasks |-> NoRun]
  /\ row = [w \in Workers |-> AbsentWorker]
  /\ older = {}
  /\ disp = [d \in Dispatchers |-> IdleDispatcher]
  /\ agent = [w \in Workers |-> "down"]
  /\ active = [w \in Workers |-> 0]
  /\ beat = [w \in Workers |-> NoBeat]
  /\ run = [r \in Runs |-> UnusedRun]
  /\ announce = [r \in Runs |-> NoCall]
  /\ report = [r \in Runs |-> NoCall]
  /\ faults = 0 /\ givenUp = {} /\ unheard = {} /\ contested = {}

\* A step that needs a fault of kind k: one the configuration allows, within
\* the bound on their number.
Fault(k) ==
  /\ k \in FaultKinds
  /\ faults < MaxFaults
  /\ faults' = faults + 1

NoFault == faults' = faults
=============================================================================
