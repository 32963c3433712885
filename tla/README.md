# pLoadtesting in TLA+

This directory holds a formal model of pLoadtesting: TLA+ modules translated from the source, TLC
configurations that check them on small instances, and TLAPS proofs of the main results for every value of
the constants. Paths below are relative to the repository; `tasks.py:98` stands for a line of a file named
nearby.

pLoadtesting runs load tests. A Django control plane keeps tasks, results and workers in a database; a Celery
beat dispatches pending tasks to worker agents over HTTP; an agent runs k6 or JMeter as a subprocess and posts
a "running" notice and a result back; a suite of small FastAPI applications is there to be tested.

| Check or proof | Command |
|---|---|
| parse a module | `tlasany M.tla` |
| a run | `tlc -workers 2 -config X.cfg MCxxx.tla` |
| the proofs of a module | `tlapm M.tla` |

## 1. Inventory

### Control loop

**Task creation and dispatch** (`control-plane/apps/tasks/tasks.py`, `views.py`, `models.py`).
*State:* the `LoadTestTask` row: status, worker, error message, `scheduled_at`, `started_at`, `finished_at`.
*Operations:* create; create through the demo API, which dispatches in the request's own thread; the periodic
`dispatch_pending_tasks`, every 10 s; `dispatch_task_once`: read the row again, select a worker, POST with a
5 s timeout, save DISPATCHED or a diagnostic. *Hard:* every query and save is a transaction of its own, so two
dispatchers, the callbacks and the sweep run between any two of them; a POST can fail after the agent took it;
a process can die after the POST. *Correct when:* a row says DISPATCHED only of a worker that took the task; a
task is not lost; the number of executions of a task is bounded by what went wrong.

**Worker agent** (`workers/agent.py`). *State:* `worker_state` (a count of executions), the background
executions, each in a thread. *Operations:* register with retries, beat every 10 s, accept `/execute` with a
202, execute: count, notice, engine, summary, result, un-count in a `finally`. *Hard:* executions overlap;
callbacks are sent once and given up on after 10 s; a crash forgets everything. *Correct when:* the count is
that of the executions in progress, however each of them ends.

**Result callback** (`control-plane/apps/results/views.py`). *State:* the `TestResult` (one per task) and
`TaskArtifact` rows. *Operations:* the running notice; the result, stored with its artifacts and the task's
verdict in one transaction. *Hard:* each handler reads the row first and writes later, and goes on after its
client gave up. *Correct when:* a finished row agrees with its result; the first result stands.

**Worker registry** (`control-plane/apps/workers`). *State:* the `WorkerNode` rows. *Operations:* register
(create or reset), heartbeat, the sweep that marks workers OFFLINE after 30 s, every 60 s. *Hard:* the row lags
behind the agent; a late heartbeat overwrites a newer truth. *Correct when:* a dead worker is taken out of the
selection, and a live one always comes back.

**Interactions.** Database rows are shared by the web threads and the Celery processes; HTTP calls go from
dispatcher to agent (`/execute`) and from agent to control plane (register, heartbeat, notice, result). Nothing
else is shared.

### What a run leaves behind

**Run output, summary, artifacts** (`workers/agent.py`, `workers/artifacts.py`, `tasks/read_models.py`,
`tasks/artifact_registry.py`). *State:* the output file in the results directory, named after the task; the
manifest; the result and artifact rows. *Operations:* the engine opens and writes its file; the agent parses
it whole, posts summary and manifest; the control plane merges persisted artifact rows with derived ones.
*Hard:* a task can be executed twice on one agent, also at once, on one file; a kill cuts a row in two; agent
and control plane decide the state of one artifact by rules of their own. *Correct when:* a summary counts the
requests of its own execution; "available" is backed by evidence; what is shown never turns back.

**Execution policy** (`tasks/execution.py`, `agent.py:141`, `engines/k6/lib/execution.js`). *State:* the
`execution` object of a task. *Operations:* resolve defaults, template and request; validate; derive the
process timeout; build the k6 scenario. *Hard:* three programs compute times from the same fields. *Correct
when:* every accepted run ends, and none at constant load is killed before its time.

### Targets

**WebSocket target** (`target-apps/apps/ws_api.py`). *State:* a count of connections, rooms with members and a
numbering, one lock. *Operations:* accept, join, echo, broadcast, leave, release. *Hard:* every await lets the
other handlers run; a broadcast goes to peers that may have left. *Correct when:* slots and seats are given
back exactly once; rooms stay within their limit; no number is used twice; every handler ends.

**Auth-flow target and its scripts** (`target-apps/apps/auth_flow_api.py`,
`engines/k6/target_apps_auth_*.js`). *State:* tables of access tokens, refresh tokens, sessions and MFA
challenges, a counter they are all numbered from; a script's iteration holds a few of them. *Operations:* log
in, show, refresh, log out, start and verify a challenge. *Hard:* all virtual users of all runs log in as one
user, into the same tables; a restart gives the same numbers out again; the challenges run out. *Correct
when:* no credential is used more often than it was issued for, nobody holds another's, and a script's checks
fail only for a reason outside of it.

**Other targets and their scripts** (crud, db, echo, error, latency, payload, resource, sse, the legacy app,
and the other eighteen scripts of `engines/k6`). *State:* the items and the rows; the measurements of a run.
*Operations:* the requests of each script with its checks and thresholds. *Hard:* a lost answer makes a check
throw in some scripts and not in others; every target has limits of its own, and the scripts have timeouts and
thresholds of theirs. *Correct when:* a check fails for a reason, and the verdict of an undisturbed run is what
its settings decide.

### The JMeter report

**HTML report** (`engines/jmeter/html-report/content/js`: `graph.js`, `dashboard-commons.js`). *State:* for each
panel whether it is open, its graph, legend, overview and chevron. *Operations:* open and close, with a
transition of 350 ms; check boxes; display and hide all; zoom in graph and overview; the resize icon. *Hard:*
they are callbacks which fall into each other's transitions, and drawing in a closed panel throws. *Correct
when:* what a reader sees is what the legend, the overview and the chevron say.

### Supporting parts of the control plane

Template registry and coverage (a relation between catalogue entries), manual shard plan (pure construction,
but saved in a second step after the row is visible), demo access (what a client without the token may create
and read), read models (formatting), the artifact contract (string checks), settings, migrations, admin.

`PROJECT.json` lists all components with their status, and the hazards at the lines where they bite.

## 2. Plan

| Step | Modules | Abstract specification, properties, proofs | State |
|---|---|---|---|
| 1 | PlatformState, Dispatcher, WorkerAgent, ResultCallback, WorkerRegistry, composed in TaskLifecycle | TaskOutcome; verdicts, deliveries, counts, duplication, order of the callbacks, liveness | done |
| 2 | TaskLifecycleProofs, TaskOutcomeProofs | types, counts, verdicts, deliveries, duplication, order of the callbacks, refinement of TaskOutcome | done, the safety part proved |
| 3 | RunOutput, RunOutputProofs | own samples, artifacts of the stored result, evidence | done, all proved |
| 4 | ExecutionPolicy, ExecutionPolicyProofs | not cut short, precedence, every run ends | done |
| 5 | WsRooms, WsRoomsProofs | rooms and slots exact, numbering, every handler ends | done, the safety part proved |
| 6 | AuthFlow, composed with its scripts in AuthScripts; AuthScriptsProofs | one holder, spent stays spent, checks fail for a reason | done, all proved |
| 7 | TargetScripts, TargetScriptsProofs | the other targets with their scripts; checks, verdicts | done, all proved |
| 8 | ReportGraphs, ReportGraphsProofs | times, legends, zoom, open panels | done, all proved |
| 9 | WorkerRegistry, timed | the 10/30/60 s periods as a clock; how long a dead worker is still selected | not done |
| 10 | RunOutput, extended | latencies and their percentile index; the push to InfluxDB | not done |
| 11 | TemplateCoverage | the relation of equivalent profiles over small catalogues | not done |

The order follows importance: the control loop is the program's reason to exist and the place of its races.
Twelve runs are kept, one for each question. Of the statements that a module states and TLC refutes one has a
run of its own (section 7).

## 3. Modules and the code they model

### The control loop

| Module | Code | Correspondence |
|---|---|---|
| PlatformState | models of the three Django apps, memory of the agents | variables, types, `Init`; `Fault` bounds what may go wrong; three history variables, read by no action: `givenUp`, `unheard`, `contested` |
| Dispatcher | `tasks/tasks.py`, create in `tasks/views.py` | `CreateTask`, `CreateDemoTask`, `ListPending`; one action per query, call and save of `dispatch_task_once`: `RefreshTask`, `SelectWorker`, `Delivery*`, `SaveDiagnostic`, `SaveDispatched`; `DispatcherDies` |
| WorkerAgent | `workers/agent.py` | `AcceptTask`, `StartRun`, `AnnounceReturns`, `EngineEnds`, `ReportReturns`, `RunAborts`, `SendHeartbeat`, `Crash`, `StartAgent` |
| ResultCallback | `results/views.py` | each of the two callbacks as a read (`RunningArrives`, `ResultArrives`) and a write (`RunningSaves`, `ResultCommits`) |
| WorkerRegistry | `workers/views.py`, `workers/tasks.py` | `Register`, `ApplyHeartbeat`, `FallSilent` (30 s pass), `MarkStale` |
| TaskLifecycle | all of them | `Next`, fairness, properties, the mapping to TaskOutcome |
| TaskOutcome | the promise | a task is created, delivered, and decided once |

`task`, `row` and `result` are the database; `disp` holds the local variables of each dispatching process
(`todo` is the evaluated queryset, `delivered` the run its POST has caused); `run` the executions; `announce`
and `report` the two callbacks of each run; `beat` the heartbeat in flight. Time is abstracted: `fresh` says
whether the last heartbeat is younger than 30 s, `older` orders heartbeats for the selection, `due` says
whether `scheduled_at` has passed.

Faults are explicit and counted: `abort` (a dispatcher dies), `crash` (an agent dies), `timeout` (the POST is
given up on), `callback` (a callback or a registration is given up on, served or not), `exception` (between the
callbacks of a run), `silence` (heartbeats held back for 30 s). `FaultKinds` and `MaxFaults` say which and how
many a behaviour may contain; `MaxRuns` bounds the executions.

Choices: SCHEDULED, CANCELLED and DRAINING are declared in the code and never assigned, so they are not states.
A POST that arrives and is answered late is an acceptance followed by `DeliveryTimesOut`. The `get` and the
`hasattr` of a callback handler are one step: nothing distinguishes a result stored between them from one stored
before. An agent's capabilities do not change. `active_task_count += 1` is one step (Python 3.11 does not switch
threads inside it). The lines of `run_task` between the count and the `try` (`agent.py:541-549`: a name, a log
line, a policy, a clock) are taken not to raise. The 400 answers of the callback are left out: the agent's own
payloads pass its checks. The second save of `parameters` (the shard plan, the demo mark) writes keys that
neither dispatcher nor agent reads, and is left out.

### RunOutput

Executions of one task on one agent. `file` is the set of rows in the output file, each with the execution
that wrote it; `run` the executions with their exit, streams and summary; `stored` and `items` the result and
artifact rows. The engines are modelled from how the agent starts them and reads their output: k6 truncates its
file, JMeter appends; a killed process may leave half a row (`Torn`). `Shown` is the merged artifact list.

### ExecutionPolicy

`Resolve`, `Normalized` and `Valid` are `resolve_execution` and `validate_execution`: a value is a number in
tenths, a text of a number, or something that `int()` refuses (a boolean among them), and `IntOf` drops the
fraction as `int()` does. `Timeout` is `execution_timeout_seconds` with the cases in which it is None (no
execution object, no or zero `max_run_seconds` without a duration): those are out of the API's reach, whose
tasks have a positive duration, but `CreateInAdmin` writes what it is given. `Executor`, `LoadEnd` and
`MayBeDone` are the k6 helper for the scripts that use it, and `own` the stages of those that hard-code theirs
and never read the execution object. A created task is followed second by second until its engine exits or is
killed. The engine may exit once its load has ended and may hang for ever. NaN, which `int()`
refuses like a text that is no number, and an infinite number, at which it raises an OverflowError that nothing
catches, are left out.

### WsRooms

Each connection is a handler with a program counter; between two awaits it runs alone, so each action is the
code between two awaits. `lock` is `_room_lock` where it is held across one (the refusal closes the connection
under it). A send to a client that has gone raises or is dropped (`SendRaises`), and raises when the server has
closed the connection itself. A handler that has had its last message tells its client and closes in a step of
its own (`CloseAtLimit`), which other handlers may come before.

### AuthFlow and AuthScripts

AuthFlow is the service: the tables are its dictionaries, `TOKEN_COUNTER` the next number. A handler is an
`async def` without an await, so it is one step; `<Name>Status` is what it answers, `<Name>` what it does.
A credential is the number it was hashed from. AuthScripts runs virtual users against it: `hand` is what an
iteration has been given, `pc` the request it sends next, `failed` the checks that failed. One request with its
check is one step, since k6 waits for the answer; the requests of different users interleave. A request may lose
its answer, whether the target handled it or not (`Lose`): its check fails, and where the script reads the body
with `json()` the iteration ends there. `lost` keeps which ones, for the properties to name. `setting` are
ACCESS_TOKEN_USES, REFRESH_USES and SESSION_USES, which a task may set to anything: the refresh flow expects its
first profile to use the token up, which holds for the default of 1 only (`Sensible`). A person with a client of
his own (`ManualClient`) sends what no script does: the order query and a wrong code. The only thresholds of
these scripts are on response times; their verdict is not stated, only their checks.

### TargetScripts

The other scripts, each an action per run with one disjunct per request; `setting` are the values of its
environment, `run` what k6 measures (requests, `http_req_failed`, the script's own error rate, failed checks).
A request may be lost, with its effect or without; whether the iteration goes on after that depends on whether
the script reads JSON from the body, which is null then (k6: it throws), and whether it catches that. `Passes`
is the exit status of k6, with every threshold of the scripts, those on times included. A time is slow or not
against the threshold of its script: an answer is slow because the setting asks for that time (a delay, events an
interval apart) or for no reason of the run (`Slowness`), and a percentile is over its threshold when more
than its share of the answers are slow; between two values k6 interpolates, so that there it may be either
(`Lateness`). `MaxLost` bounds the lost answers and the answers slow without a reason together. Where a check
itself asks for a time (`TimeChecked`), a slow answer fails it.

### ReportGraphs

`Graph` says what tells the sixteen graphs apart, `panel` is the state of each. A callback is one step: `Show`
and `Hide` start a transition, `Shown` and `Hidden` are the handlers at its end, `ClickLabel` and `ToggleAll`
the menus, `SelectInGraph` and the others the zoom. From the libraries next to it: Flot 0.8.3 throws "Invalid
dimensions" when a placeholder has no width, and jQuery gives width 0 inside of a panel that is not displayed;
Bootstrap ignores a toggle during a transition. `createLegend` binds the labels' handlers again with each legend
it adds, so a click colours the label once per legend that came later (`ClickLabel`). An overview takes a
selection whenever it is drawn with mode "xy" (`HasOverview`, Flot's selection plugin), but the graph follows
only if `setGraphZoomable` has bound the handlers (`bound`), which only the refresh does that finds no plot.
`mishap` is a history variable: a menu entry was used on a panel that was closed, or not drawn yet.

## 4. Runs

| Run | Instance | What it shows |
|---|---|---|
| overlap | a Celery process and a web thread, one demo task, one worker, up to 3 executions, no faults (179 000 states) | a task dispatched twice: executions are bounded by the dispatchers (what a fault adds is proved, section 6), TaskOutcome is implemented |
| faults | 2 workers, one task, one fault of any of six kinds, up to 3 executions (486 000) | for every single failure: rows and result agree, the count of an agent is exact, a row names only a worker that took the task; a notice reopens a finished row only after a second execution or a notice given up on, and a decided row has a foreign error only after a delivery given up on |
| reliable | 2 tasks, one scheduled, one worker, heartbeats may be held up once (104 000) | both tasks are decided, through stale selections and a worker that is OFFLINE for a while |
| crash | 2 workers, one of which crashes, or whose heartbeats are held up, or whose registration loses its answer (326 000) | the sweep takes the dead worker out, the pending task reaches the other; whatever a row was made to say by a late heartbeat, a repeated registration or the sweep, it comes to agree with its agent |
| output | 2 executions, 2 samples each, both engines and an unknown one, with and without manifest (3.4 million) | a k6 run alone reports its own samples; artifacts belong to the stored result; "available" is backed; what is shown never turns back |
| policy | all pairs of execution objects around the limits, with fractions, texts and booleans, tasks of the API and of the admin, both engines, scripts with and without stages of their own, up to 60 s (232 000) | the request wins, its fractions apart; no run that takes its load from the execution object is cut short, but for ramps; every run of the API ends |
| rooms | 3 clients, a room of 2, one message each (529 000) | rooms are exact and within their limit, no number is received twice |
| slots | 3 clients, 2 slots, a room of 1, echo and broadcast (178 000) | the count of slots is exact, every accepted handler ends |
| auth | 2 virtual users of any two scripts, 3 iterations, 2 challenges, tokens of 1 and 5 uses, one lost answer, one restart (3.8 million) | checks fail only after a lost answer or a restart of their iteration, or for want of challenges; no credential has two holders; what is spent stays spent |
| targets | every other script, 2 runs of 2 iterations, settings on both sides of each limit, 2 answers lost or slow, one restart (713 000) | why a check can fail; the verdict of an undisturbed run is what its settings decide, by every threshold; what a passing verdict leaves out |
| report | each of the 16 graphs by itself and two of one page, 2 series, one range (738 000) | times are fixed once, legend and plot agree, zoom and selection agree, an open panel is drawn |
| stuck | the smallest instance that shows it (expects a violation) | the finding of section 7 |

**Why the bounds are enough.** The races of the control loop are between two processes over one row: a second
dispatcher and a second execution bring all of them; a third adds the same again. One fault separates the
failures, and the theorems cover any number. No run has two dispatchers and a fault: the theorems on the
properties of "faults" hold of any number of both, with their exception for two processes at once (`contested`).
Two workers are what the selection needs to have a choice, two tasks what they need to compete. `RunOutput`
needs two executions to have an earlier and a later file, or two writers, and two samples for the file of the
one to be longer. `ExecutionPolicy` takes values on both sides of the comparisons that matter: a
`max_run_seconds` of 12 and 13 around 3 s and the default grace of 10 s, of 5 and 6 around 3 s and 3 s, zeros
and nulls everywhere, 3.9 as a number and as a text, and a duration just past the cap of 86400 s; own loads of 0
(a number of iterations), 20 s (crud_flow) and 100 s (stress_cpu). `WsRooms` needs two members and one refused
or a third that joins late. `AuthScripts` needs two users, who share the service whether they belong to one run
or two, a second iteration of one of them to meet the leftovers of an earlier one, and one challenge less than
iterations to see the cap; an `AccessUses` of 1 is the script's default and 5 the target's cap, which the script
exceeds by asking for one more at the refresh (`AccessUses` + 1). `TargetScripts` has the limits of the code
itself, and settings on either side of them; in the three scripts whose runs meet in the target, the settings of
the runs differ. In `ReportGraphs` panels share nothing but the filter and the resize icon, which the page with
two panels covers; two series tell "all", "some" and "none" apart, and one left-behind legend is the first that
repeats.

Deadlock is checked where the system runs for ever (the beat of the control loop). It is switched off for
RunOutput, ExecutionPolicy, WsRooms, AuthScripts and TargetScripts: their executions, engines, connections and
iterations are finite and end.

Virtual users, runs and series are symmetric where the configuration says so: none of these runs checks a liveness
property, and no definition tells one from another.

**Mutants.** For each property of a passing run `PROJECT.json` names an operator "Mutation: ..." in the
modules, a plausible bug in one definition (a dropped guard, a missing reset, a lost heartbeat rule), under
which the run finds the property violated.

## 5. Fairness

*Control loop* (`TaskLifecycle!Fairness`). Celery beat fires the dispatch every 10 s and the sweep every 60 s,
so `ListPending` and `MarkStale` are weakly fair. Code that has started runs on: the steps of a dispatcher, of a
run and of a callback handler are weakly fair. An agent beats every 10 s and repeats its registration until it
succeeds: `SendHeartbeat`, `Register`, `ApplyHeartbeat`. Time passes: `BecomeDue`, `FallSilent` (of an agent that
is down; one that is up falls silent only by a fault). Agents are started once; nothing promises that a
crashed one is started again, and no creation or fault is promised. Liveness is stated without the faults
that lose a result: the code has no recovery for them (see hazards, `agent.py:457`).

*WsRooms.* The event loop runs every handler that can go on, and the 5 s idle timeout enables one that waits.
One weak fairness per handler is enough.

*ExecutionPolicy.* The control plane and the agent do their part and time passes. Nothing is promised of the
engine: the timeout alone ends a hung one.

*AuthScripts, TargetScripts, ReportGraphs, RunOutput.* Safety only. A load test may be stopped at any time and a
reader may stop clicking, so nothing is promised to happen.

## 6. Proofs

All theorems hold for every value of the constants under the ASSUMEs of the modules: tasks are positive numbers
in the order of creation, `NoWorker` is no worker, the bounds are natural numbers, execution objects have known
fields whose numeric ones are null, numbers in tenths, texts of such or booleans, the dispatching processes and
the connections are finitely many, the limits are positive, the auth target's limits leave room for the uses
that its scripts write themselves (3, 2 and 2), the labels of a report are finitely many, and the limits of the
other targets are the documented ones (`LimitsAssumption`: the constants of the code, which the run gives them
too).

| Theorem | Property | Argument |
|---|---|---|
| TaskLifecycleProofs!TypeCorrect | TypeOK | `Shape`: types need that a run which leaves was counted |
| TaskLifecycleProofs!CountsAreExact | ActiveCountExact | `Shape` = TypeOK, DispatcherShape, RunShape, ActiveCountExact |
| TaskOutcomeProofs!VerdictsAreRecorded | VerdictRecorded | `VerdictInv`: the run of a stored result has posted its report |
| TaskOutcomeProofs!DeliveryPrecedesDispatch | DeliveredBeforeDispatched | inductive with `Shape`: a dispatcher about to save knows the run its POST caused |
| TaskOutcomeProofs!DuplicationIsBounded | BoundedDuplication | `DuplicationInv`: runs against deliveries under way, before and after the row leaves PENDING |
| TaskOutcomeProofs!NoticesPrecedeResults | NoRunningAfterResult | `OrderInv`, over the tasks of one run whose notice was not given up on (`Trusted`): no report before the answer of the notice (Answered), no late start read or stored (Prompt) |
| TaskOutcomeProofs!ErrorsAreOfTheRun | ErrorIsOfTheRun | `ErrorInv`: over the tasks nobody else dispatches and no delivery of which was forgotten (`Clean`), the dispatcher holds the only delivery until the row is dispatched (CarefulInv) |
| TaskOutcomeProofs!LoopImplementsOutcome | ImplementsOutcome | `RefInv` = Shape, VerdictInv, Known: nobody works on a task without a row |
| ExecutionPolicyProofs!NeverCutShort, RequestTakesPrecedence, PolicyTypeCorrect | NotCutShort, RequestWins, TypeOK | `PolicyInv`: a created task has the resolved, valid object; a killed one stands at its timeout |
| WsRoomsProofs!RoomsAreExact, SlotsAreExact, WsTypeCorrect | RoomsExact, SlotsExact, TypeOK | `WsInv` adds Stations: a handler is only where its kind of connection can be |
| WsRoomsProofs!NumbersAreHeardOnce | NumberedOnce | `NumInv` adds Numbered, Awaited and Listening: what is on its way, and who is to hear it |
| RunOutputProofs!SamplesAreOwn, ArtifactsAreOfResult, AvailabilityIsBacked, TheStreamsAgree, ShownNeverTurnsBack, OutputTypeCorrect | OwnSamples, ArtifactsOfResult, AvailableIsBacked, StreamsAgree, NeverBackToPlanned, TypeOK | `OInv` adds Lone, Fresh, OwnFile and Settled: who has the file, what is in it, whose the rows are |
| AuthScriptsProofs!CredentialsHaveOneHolder, ChecksFailForAReason, SpentCredentialsStaySpent, AuthTypeCorrect | OneHolder, ChecksHold, SpentStaysSpent, TypeOK | `AInv` adds Numbered, Held and Pocket: what a user holds, and what its table entry must still be good for |
| TargetScriptsProofs!ChecksFailForAReason, VerdictsAreSettings, PassesAreChecked, ErrorRatesCountFailures, TargetsTypeCorrect | ChecksHold, VerdictIsSettings, PassMeansChecked, ErrorsCountFailures, TypeOK | `TargetInv`: measurements with their reasons (Good), what a run was given where it stands (Placed), what a connection hears (Hears) |
| ReportGraphsProofs!TimesAreShiftedOnce, LegendsTellPlots, ZoomsAreSelections, OpenPanelsAreDrawn, ReportTypeCorrect | TimesShiftedOnce, LegendTellsPlot, ZoomIsSelection, OpenIsDrawn, TypeOK | `RInv`: every panel is Good for its graph |

*Shape.* A dispatcher past its selection has a task and a worker; one that saves knows a run of that task on
that worker; a run has posted only what its phase is past. `ActiveCountExact` is part of it because the
decrement in the `finally` stays a natural number only if the run was counted.

*The outcome.* `RowWrites` lists the five ways in which a step can change a row: created, diagnosed,
dispatched, noticed, decided. `RunFrame` and `ReportFrame` say that runs keep their task, worker and, once
posted, outcome. VerdictRecorded and DeliveredBeforeDispatched then need one case each per way. Note what is
not among them: that the status stays a verdict, which is false (section 7).

*Duplication.* The obvious bound is not inductive: it says nothing of how many executions are still to come.
While the row is PENDING, the executions beyond `faults` times the number of processes are deliveries that
their dispatcher will still save (`Held`), unless the agent crashes, which is a fault and may fail all of them at
once. Once the row is not PENDING it never is again, no dispatcher takes the task up, and executions and
deliveries that may still happen (`May`) together stay within the bound. The two meet because a dispatcher is
never in both sets. `Effect` says which of three things a step does to these sets; `BoundKept` does the counting.

*The order of the callbacks.* That a decided row is not reopened, and that it shows the error of its run, is false
of the code as it stands: two processes overlap, a lost answer lets the agent or the dispatcher go on too early.
The theorems say that nothing else does it, for any number of processes and faults of all kinds. Three
history variables of PlatformState record the causes, for no row keeps them: the notices given up on (`givenUp`,
set by `AnnounceReturns`), the deliveries given up on after the agent took them (`unheard`, set by `Forget` in the
three ways a dispatcher has of not recording one), the tasks two processes had in hand at once (`contested`, set
by `RefreshTask`). `OrderInv` holds the tasks to account that have one run, whose notice was not given up on; a
step either leaves a task Trusted or takes it out for good (`TrustLost`), so that every case is about a task that
was Trusted before. There the agent posts the result only after the answer of its notice, so that a task with a
result waits for no notice. `ErrorInv` follows the one dispatcher of a Clean task: it takes the task while the row is PENDING,
holds its delivery until it saves DISPATCHED, and lets go of it otherwise only by forgetting, which ends Clean
(`CleanLost`). A delivery of a Clean task that fails is one that no agent took, so that its diagnostic is saved
before anything can decide the task.

*The refinement.* Creation, acceptance and commit are steps of TaskOutcome (`CreateSimulates`,
`AcceptSimulates`, `CommitSimulates`); a second acceptance of a task and every other step is a stutter.

*WsRooms.* Seats and slots are sets of handlers by program counter (`Seated`, `Unslotted`), so each action
has to move its handler in the one and the other exactly as it moves the sets and counters of the program.

*The numbering.* A counter that is dropped when a room empties could hand out the same numbers again to somebody
who heard them. It does not: a connection enters one room once, a sender is a member, so no counter is dropped
while a broadcast is on its way (`RoomsExact` is needed here), and a number heard is never above the counter
while its hearer is a member (`Listening`), nor one that is still to be delivered to it (`Awaited`). A handler
that left may still be sent to: Awaited speaks of it, Listening no longer does.

*RunOutput.* The file of a k6 execution that is alone consists of its own rows and at most one cut one (`OwnFile`):
opening it empties it, and nobody else writes while it is `alone` (`Lone`). The rows of the database are those
of the execution whose result is stored, which has ended (`Settled`), so nothing changes what they say.

*AuthScripts.* Why does a check hold whatever the others do? Every number held is below the counter and has one
holder (`Numbered`, `Held`), so a request of another user, and a credential newly issued, leave the table
entries of this user alone; and where a user stands in its script says what its entries must be worth (`Pocket`:
after the login one use and as many refreshes as were asked for, after the logout a revoked token, ...), as far
as the answers it relies on were not lost (`Spoils`). A step of the user itself moves it from one Pocket to the
next, which is the check. All this is claimed of the iterations that met no restart, nor ran beside one that
began before it (`exposed`, `old`): a target that counts from 1 again gives out what those still hold.

*TargetScripts.* The properties relate the measurements of a whole run to its settings, so `Good` says of every
run what its refusals, errors, slow answers and failed checks are evidence of: `Counted` (errors are told only of
lost answers), `Explained` (nothing fails without a reason) and `Noticed` (nothing outside of the limits goes
unnoticed). Each of the script actions is shown to be one `Exchange`, which adds one or nothing to each measure for
the reasons of `Reasoned`; that Exchanges keep Good is proved once (`ExchangeKeeps`). The reasons depend on the
state the run has been brought into: an id that was handed out still exists unless the target was started again,
a selection is fetched only from an accepted manifest, an upload of nothing follows a lost download (`Placed`), and
a connection that hears something while it waits to be welcome hears somebody else (`Hears`). Other runs do not
disturb this: tables only grow, and a run that is disturbed stays so (`Onward`, `OthersGood`, `OthersPlaced`).

*ReportGraphs.* `Good` is a predicate on one panel and its graph: `Shape` (types, one legend), `Told` (plot,
boxes and labels agree), `Opened` (an open panel is drawn, its chevron up), `Pointed` (zoom and selection). Each
helper of the code keeps Shape and states what it does to the others, so that Told, which is broken between the
halves of a callback, holds again when it returns. The resize icon is the only step on several panels.

**Only model-checked:** the liveness properties, none of which TLAPS proves under fairness. Every other property
of a passing run is stated by a theorem.

## 7. Findings

**stuck** (`tasks.py:98`). `dispatch_task_once` saves DISPATCHED after the POST, whatever the row has become.
When the agent is faster, a task that has its result stays DISPATCHED for ever (against
`results/views.py:34-36` and `tasks/models.py:19`).

Statements of the documentation that the code does not keep, written as properties in the modules, without a
run of their own (TLC refutes each on the instances above):

- `TaskLifecycle!RunningNeverReopens`: a running notice the agent gave up on is saved after the result
  (`results/views.py:66`): COMPLETED becomes RUNNING (against the state machine of `tasks/models.py:18-21`);
- `TaskLifecycle!DuplicateIsConflict`: two results that pass the check together end in an IntegrityError,
  answered 500 (`results/views.py:108`, against "409 Conflict", `results/views.py:42`);
- `RunOutput!UnprovedIsMissing`: a manifest entry without evidence is stored as planned and hides the derived
  "missing" (`workers/artifacts.py:163`, against `docs/v3/specs/artifact-lifecycle.md:100`);
- `ExecutionPolicy!OnlyWholeDurations`: `int()` takes a number with a fraction, a request for 3.9 s is accepted and
  runs for 3 s (`execution.py:118`, against `docs/v3/specs/task-execution-model.md:76` and the message of the check
  itself, "Must be a positive integer.");
- `AuthScripts!CapCountsActive`: the cap on "active" challenges counts used ones (`auth_flow_api.py:90`);
- `ReportGraphs!HideAllHides`: "Hide all samples" on a graph that was not drawn shows them all afterwards
  (`dashboard-commons.js:454`).

Noticed while reading, without a run:

- the selection reads "idle" from the last heartbeat, up to 10 s old, so one tick can give several tasks to one
  worker (`tasks.py:23-24`);
- when the POST times out after the agent took it, its diagnostic can be saved into a completed row
  (`tasks.py:94`, against `models.py:115`); `ErrorIsOfTheRun` and its theorem say from what else it can come (two
  processes at once);
- the summary of a run that timed out is not pushed to InfluxDB (`agent.py:599`, `682`, against the docstring at
  `483-484`);
- `total_requests` of a k6 result is stored as 0: the agent does not send it (`agent.py:356-361`, against
  `results/models.py:49`);
- scripts with stages or durations of their own are killed by the default `max_run_seconds` before these end
  (`stress_cpu.js` 100 s, `stress_data.js` 70 s, `stress_io.js` 60 s, and with some defaults `target_apps_resource_cpu.js`
  30 s and the JMeter plan's 60 s), and never read `duration_seconds`;
- a task that is created in the admin without an execution object has no timeout (`agent.py:142-149`, as
  `docs/v3/specs/task-execution-model.md:175` says): a hung engine keeps its worker busy for ever;
- with ramps or iterations the k6 helper loads past `duration_seconds` (`execution.js:33`, `45-47`, against
  `docs/v3/specs/task-execution-model.md:96`).

## 8. Not modelled

Formatting of read models, string checks of the artifact contract, admin, settings, migrations, URL tables,
dashboards and deployment files have no behaviour of their own. Template registry, shard plan and the filters
of demo access are pure functions of one request and a catalogue read once per process; the shard plan is kept in
a key of `parameters` that the agent does not read (`agent.py:184` looks for others).

Of the JMeter report, the tables of `dashboard.js`, the export to PNG, the custom graph (a template without a
graph in this report) and the libraries next to it (`hashtable.js`, `curvedLines.js`, `jquery.flot.stack.js`,
`jquery.cookie.js`) are left out: they compute a value from their arguments, character by character or point by
point, and keep no state that an order of events could break. The JMeter plans are XML with the flows of the k6
scripts; what a plan does with an answer is decided by JMeter itself.

Of the targets, endpoints that no script sends are left out where they touch no table, and the update of a
database record, which adds and removes none. In the WebSocket target, what `accept()` does when the client left
during the handshake depends on the ASGI server, which the repository does not fix. Two agents of one name, whose
first registrations race for the unique name, do not occur in the deployment of the repository. The clock of the
registry, latencies with their percentiles and the push to InfluxDB are steps 9 and 10 of the plan.
