-------------------------- MODULE ExecutionPolicy --------------------------
(***************************************************************************)
(* How long a load test runs: the resolution and validation of the         *)
(* execution object at task creation (apps/tasks/execution.py), the        *)
(* timeout the agent derives of it (workers/agent.py), and the scenario    *)
(* that the k6 helper builds of it (engines/k6/lib/execution.js).  Not     *)
(* every script calls the helper: the stress tests and others have options *)
(* of their own.  Nor does every task come from the API: a row that is     *)
(* written in the Django admin has the execution object that was typed, or *)
(* none.  Time is counted in seconds from the start of the engine process. *)
(***************************************************************************)
EXTENDS Integers

CONSTANTS
  Null,       \* JSON null, and Python's None
  Overrides,  \* execution objects of templates, requests and the admin, partial
  OwnLoads,   \* how long the load of scripts with options of their own takes
  MaxTime     \* bound: the second up to which a run is followed

MAX_DURATION_SECONDS == 86400

Required == {"duration", "ramp_up", "ramp_down", "graceful", "stop", "data"}
Optional == {"max_run", "limit"}
Fields == Required \cup Optional
Numbers == {"duration", "ramp_up", "ramp_down", "graceful", "max_run", "limit"}

\* A JSON value for a field that is a number, in tenths: numbers with and
\* without a fraction, texts that spell one, and booleans.  What int()
\* understands as neither (lists, other texts) is refused as a text with a
\* fraction is.
JsonValues == [kind : {"number", "text", "boolean"}, tenths : Int]

ASSUME OverridesAssumption ==
  \A o \in Overrides :
    /\ DOMAIN o \subseteq Fields
    /\ \A f \in Numbers \cap DOMAIN o : o[f] = Null \/ o[f] \in JsonValues
ASSUME LoadsAssumption == OwnLoads \subseteq Nat
ASSUME TimeAssumption == MaxTime \in Nat /\ Null \notin JsonValues \cup Int

VARIABLES
  engine,    \* the engine of the task
  own,       \* the load of its script in seconds, Null when the script takes
             \* it from the execution object
  template,  \* the execution object of its template, {} when it has none
  request,   \* the execution object of the request
  origin,    \* who created the task: "api" or "admin", "none" before
  execution, \* parameters["execution"] of the task, NoExecution when there is none
  phase,     \* "request", "rejected", "created", "running", "finished" or "killed"
  clock      \* seconds since the engine was started

inputs == <<engine, own, template, request>>
vars == <<engine, own, template, request, origin, execution, phase, clock>>

\* The number of n seconds or iterations, as JSON has it.
N(n) == [kind |-> "number", tenths |-> 10 * n]

\* ENGINE_DEFAULT_EXECUTION
Defaults ==
  [k6 |-> [duration |-> N(10), ramp_up |-> N(0), ramp_down |-> N(0), stop |-> "graceful_stop",
           graceful |-> N(10), max_run |-> N(30), limit |-> Null, data |-> "duration_first"],
   jmeter |-> [duration |-> N(20), ramp_up |-> N(5), ramp_down |-> N(0), stop |-> "graceful_stop",
               graceful |-> N(10), max_run |-> N(40), limit |-> Null, data |-> "duration_first"]]
Engines == DOMAIN Defaults

NoExecution == [f \in {} |-> Null]

\* dict.update
Update(a, b) ==
  [f \in DOMAIN a \cup DOMAIN b |-> IF f \in DOMAIN b THEN b[f] ELSE a[f]]

\* Mutation: the template overrides the request.
ResolveTemplateLast(e, t, q) == Update(Update(Defaults[e], q), t)

\* resolve_execution before its validation.
Resolve(e, t, q) == Update(Update(Defaults[e], t), q)

\* int(value): towards zero.
IntOf(v) == IF v.tenths >= 0 THEN v.tenths \div 10 ELSE - ((- v.tenths) \div 10)

\* int() raises nothing: any number, and a text without a fraction.
Convertible(v) == v.kind = "text" => v.tenths % 10 = 0

\* _positive_int (low = 1) and _non_negative_int (low = 0) accept the field.
AtLeast(x, f, low) ==
  /\ x[f] # Null /\ x[f].kind # "boolean" /\ Convertible(x[f])
  /\ IntOf(x[f]) >= low

\* Mutation: the grace time is left out of the least max_run_seconds.
CoveredWithoutGrace(x) ==
  \/ x["max_run"] = Null
  \/ AtLeast(x, "max_run", 1) /\ IntOf(x["max_run"]) >= IntOf(x["duration"])

\* max_run_seconds is null or covers the duration and the grace time.
Covered(x) ==
  \/ x["max_run"] = Null
  \/ /\ AtLeast(x, "max_run", 1)
     /\ IntOf(x["max_run"]) >= IntOf(x["duration"]) + IntOf(x["graceful"])

\* validate_execution raises nothing.  Missing keys read as null.
Valid(x) ==
  /\ AtLeast(x, "duration", 1) /\ IntOf(x["duration"]) <= MAX_DURATION_SECONDS
  /\ \A f \in {"ramp_up", "ramp_down", "graceful"} : AtLeast(x, f, 0)
  /\ x["limit"] = Null \/ AtLeast(x, "limit", 1)
  /\ x["stop"] \in {"graceful_stop", "hard_stop"}
  /\ x["data"] \in {"duration_first", "iteration_first"}
  /\ Covered(x)

\* Mutation: a fraction is rounded up.
NormalizedUp(x) ==
  [f \in DOMAIN x |->
    IF f \in Numbers /\ x[f] # Null THEN N((x[f].tenths + 9) \div 10) ELSE x[f]]

\* What validate_execution returns: whole numbers in place of what was given.
Normalized(x) ==
  [f \in DOMAIN x |-> IF f \in Numbers /\ x[f] # Null THEN N(IntOf(x[f])) ELSE x[f]]

\* The agent's _optional_int, with 0 for its None: every use treats them alike.
OptionalInt(x, f) ==
  IF f \in DOMAIN x /\ x[f] # Null /\ Convertible(x[f]) THEN IntOf(x[f]) ELSE 0

\* Mutation: max_run_seconds is the only source of a timeout.
TimeoutOfMaxRun(x) ==
  IF OptionalInt(x, "max_run") # 0 THEN OptionalInt(x, "max_run") ELSE Null

\* execution_timeout_seconds: the timeout of the engine process, Null for none.
Timeout(x) ==
  IF OptionalInt(x, "max_run") # 0 THEN OptionalInt(x, "max_run")
  ELSE IF OptionalInt(x, "duration") = 0 THEN Null
  ELSE OptionalInt(x, "duration") + OptionalInt(x, "ramp_up")
       + OptionalInt(x, "ramp_down") + OptionalInt(x, "graceful") + 5

(***************************************************************************)
(* The engine, for an execution object that was validated.                 *)
(***************************************************************************)
\* The executor of k6 that executionOptions chooses.
Executor(x) ==
  IF x["limit"] # Null /\ x["data"] = "iteration_first" THEN "shared-iterations"
  ELSE IF IntOf(x["ramp_up"]) > 0 \/ IntOf(x["ramp_down"]) > 0 THEN "ramping-vus"
  ELSE "constant-vus"

\* The second from which no new iteration starts.  JMeter's thread group ends
\* at the duration, whatever the ramp.  Stages and durations that are written
\* in the script or plan itself end when they end; a fixed number of
\* iterations is a load that may have ended at any time, an own load of 0.
LoadEnd(e, o, x) ==
  IF o # Null THEN o
  ELSE IF e = "jmeter" \/ Executor(x) = "constant-vus" THEN IntOf(x["duration"])
  ELSE IF Executor(x) = "ramping-vus"
       THEN IntOf(x["ramp_up"]) + IntOf(x["duration"]) + IntOf(x["ramp_down"])
  ELSE IntOf(x["duration"]) + IntOf(x["graceful"])

\* Whether the engine may be done: its load has ended, or its iterations have.
\* How long the requests in flight take is not bounded: it may hang.
MayBeDone(e, o, x, t) ==
  \/ t >= LoadEnd(e, o, x)
  \/ o = Null /\ x["limit"] # Null /\ (e = "jmeter" \/ Executor(x) = "shared-iterations")

-----------------------------------------------------------------------------
Init ==
  /\ engine \in Engines /\ own \in OwnLoads \cup {Null}
  /\ template \in Overrides /\ request \in Overrides
  /\ origin = "none" /\ execution = NoExecution
  /\ phase = "request" /\ clock = 0

\* Mutation: what a template says is not validated.
CreateUnvalidated ==
  LET x == Resolve(engine, template, request) IN
  /\ phase = "request" /\ origin' = "api"
  /\ IF Valid(x) \/ request = NoExecution THEN phase' = "created" /\ execution' = Normalized(x)
     ELSE phase' = "rejected" /\ UNCHANGED execution
  /\ UNCHANGED <<inputs, clock>>

\* The API: the object is resolved, validated and normalized, or refused.
CreateTask ==
  LET x == Resolve(engine, template, request) IN
  /\ phase = "request" /\ origin' = "api"
  /\ IF Valid(x) THEN phase' = "created" /\ execution' = Normalized(x)
                 ELSE phase' = "rejected" /\ UNCHANGED execution
  /\ UNCHANGED <<inputs, clock>>

\* The admin's form: no template, no default and no validation; the row has
\* what was typed.
CreateInAdmin ==
  /\ phase = "request" /\ template = NoExecution
  /\ origin' = "admin" /\ phase' = "created" /\ execution' = request
  /\ UNCHANGED <<inputs, clock>>

StartEngine ==
  /\ phase = "created"
  /\ phase' = "running"
  /\ UNCHANGED <<inputs, origin, execution, clock>>

\* A second passes.
Tick ==
  /\ phase = "running"
  /\ Timeout(execution) # Null => clock < Timeout(execution)
  /\ clock < MaxTime
  /\ clock' = clock + 1
  /\ UNCHANGED <<inputs, origin, execution, phase>>

\* With an object that was not validated a script falls back on what it likes:
\* its load may have ended at any time.
EngineExits ==
  /\ phase = "running"
  /\ origin = "api" => MayBeDone(engine, own, execution, clock)
  /\ phase' = "finished"
  /\ UNCHANGED <<inputs, origin, execution, clock>>

\* subprocess.TimeoutExpired: the process is killed.
EngineKilled ==
  /\ phase = "running"
  /\ Timeout(execution) # Null /\ clock >= Timeout(execution)
  /\ phase' = "killed"
  /\ UNCHANGED <<inputs, origin, execution, clock>>

Next == CreateTask \/ CreateInAdmin \/ StartEngine \/ Tick \/ EngineExits \/ EngineKilled
Spec == Init /\ [][Next]_vars

\* The control plane and the agent do their part and time passes.  Nothing is
\* promised of the engine.
FairSpec ==
  Spec /\ WF_vars(CreateTask) /\ WF_vars(StartEngine) /\ WF_vars(Tick) /\ WF_vars(EngineKilled)

-----------------------------------------------------------------------------
TypeOK ==
  /\ engine \in Engines /\ own \in OwnLoads \cup {Null}
  /\ template \in Overrides /\ request \in Overrides
  /\ phase \in {"request", "rejected", "created", "running", "finished", "killed"}
  /\ clock \in 0 .. MaxTime
  /\ IF phase \in {"request", "rejected"} THEN execution = NoExecution
     ELSE IF origin = "admin" THEN execution \in Overrides
     ELSE /\ DOMAIN execution = Fields /\ Valid(execution)
          /\ \A f \in Numbers : execution[f] # Null =>
               execution[f].kind = "number" /\ execution[f].tenths % 10 = 0

\* A run of the API whose script takes its load from the execution object is
\* never cut short: when the agent kills it, the load and the whole grace time
\* have passed (validate_execution's least max_run_seconds, against
\* execution_timeout_seconds and the k6 helper).  With ramps k6 has this only
\* when max_run_seconds is null, for the least max_run_seconds leaves them out;
\* scripts with stages of their own never have it.
NotCutShort ==
  /\ phase = "killed" /\ origin = "api" /\ own = Null
  /\ \/ engine = "jmeter" \/ Executor(execution) = "constant-vus"
     \/ Executor(execution) = "ramping-vus" /\ execution["max_run"] = Null
  => clock >= LoadEnd(engine, own, execution) + IntOf(execution["graceful"])

\* The whole seconds or iterations n are what is left of the value v when its
\* fraction is dropped.
WholePart(n, v) ==
  /\ n.kind = "number"
  /\ IF v.tenths >= 0 THEN n.tenths <= v.tenths /\ v.tenths < n.tenths + 10
     ELSE v.tenths <= n.tenths /\ n.tenths < v.tenths + 10

Follows(stored, said) ==
  \A f \in DOMAIN said \cap DOMAIN stored :
    IF f \in Numbers /\ said[f] # Null
    THEN stored[f] # Null /\ WholePart(stored[f], said[f])
    ELSE stored[f] = said[f]

\* What the request says of a field is what a task of the API runs with, less
\* the fraction of a number that has one; then what the template says (the
\* precedence of resolve_execution, and int() in _positive_int).
RequestWins ==
  origin = "api" /\ phase \in {"created", "running", "finished", "killed"} =>
    /\ Follows(execution, request)
    /\ Follows(execution, [f \in DOMAIN template \ DOMAIN request |-> template[f]])

\* Every task that the API created ends: no execution object that it accepts
\* leaves the engine process without a timeout (the final guard).  A task of
\* the admin with no execution object, or one without a duration, has none.
EveryRunEnds ==
  phase = "created" /\ origin = "api" ~> phase \in {"finished", "killed"}

\* docs/v3/specs/task-execution-model.md: "duration_seconds must be a positive
\* integer": a task is created only if the durations that were asked for are.
OnlyWholeDurations ==
  origin = "api" /\ phase \notin {"request", "rejected"} /\ "duration" \in DOMAIN request =>
    request["duration"].tenths % 10 = 0
=============================================================================
