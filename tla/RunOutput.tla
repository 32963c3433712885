----------------------------- MODULE RunOutput -----------------------------
(***************************************************************************)
(* What the executions of one task on one agent leave behind: the samples  *)
(* in the engine's output file, the summary and the artifact manifest the  *)
(* agent makes of it (workers/agent.py, workers/artifacts.py), the         *)
(* TestResult and TaskArtifact rows of the result callback, and the        *)
(* artifact list shown to clients (apps/tasks/read_models.py).  A task can *)
(* be executed more than once (TaskLifecycle), one after the other or at   *)
(* once, and the file is named after the task, not after the execution.    *)
(***************************************************************************)
EXTENDS Naturals, FiniteSets

CONSTANTS
  Runs,          \* the executions of the task on this agent
  NoResult,      \* the absence of a TestResult row
  MaxRows        \* bound: samples that one execution writes

ASSUME RunOutputAssumption ==
  MaxRows \in Nat /\ NoResult \notin Runs

VARIABLES
  engine,   \* the engine of the task
  envelope, \* whether the agent sends an artifact_manifest (older ones do not)
  exists,   \* whether the output file is there
  file,     \* its rows
  run,      \* the executions
  stored,   \* the execution whose result is the TestResult row, or NoResult
  items     \* the TaskArtifact rows: the state of each artifact

fileVars == <<exists, file>>
rowVars == <<stored, items>>
vars == <<engine, envelope, exists, file, run, rowVars>>

Engines == {"k6", "jmeter", "other"}

\* A row as the agent's parser finds it: a request that passed or failed, a
\* row it skips, or one that makes it give up on the whole file.
Shapes == {"passed", "failed", "skipped", "poison"}
Rows == [run : Runs, n : 1 .. MaxRows + 1, shape : Shapes]

Streams == {"stdout", "stderr"}
States == {"planned", "available", "missing"}
Phases == {"new", "engine", "ended engine", "reporting", "ended"}
RunRecords ==
  [pc : Phases, wrote : 0 .. MaxRows, exit : {"none", "zero", "nonzero", "killed"},
   total : Nat, failed : Nat, parsed : BOOLEAN, streams : SUBSET Streams,
   output : BOOLEAN, alone : BOOLEAN, opened : BOOLEAN]

(***************************************************************************)
(* Artifacts.  Each engine has one output file: k6 its JSON lines, JMeter  *)
(* its JTL.                                                                *)
(***************************************************************************)
\* Mutation: the JTL goes by a name the control plane does not know.
ReportedUnknown(e) ==
  CASE e = "k6" -> {"summary_json", "stdout", "stderr", "engine_output"}
    [] e = "jmeter" -> {"results_jtl", "html_report", "stdout", "stderr", "engine_output"}
    [] OTHER -> {"engine_output"}

\* The artifacts of the manifest an agent posts.
Reported(e) ==
  CASE e = "k6" -> {"summary_json", "stdout", "stderr", "engine_output"}
    [] e = "jmeter" -> {"jtl", "html_report", "stdout", "stderr", "engine_output"}
    [] OTHER -> {"engine_output"}

\* The artifacts a client is shown of every task.
Expected(e) ==
  CASE e = "k6" -> {"summary_json", "stdout", "stderr", "engine_output", "html_report"}
    [] e = "jmeter" -> {"jtl", "raw_log", "stdout", "stderr", "engine_output", "html_report"}
    [] OTHER -> {"engine_output", "unknown"}
Artifacts == UNION {Expected(e) : e \in Engines}

\* Mutation: a stream that was captured and is empty counts as evidence.
CapturedEvidence(r, a) ==
  \/ a \in Streams \cup {"engine_output"}
  \/ a \in {"summary_json", "jtl"} /\ run[r].output

\* What the agent has to show for artifact a of run r.  raw_report is never
\* empty; an HTML report is never made.
Evidence(r, a) ==
  \/ a = "engine_output"
  \/ a \in run[r].streams
  \/ a \in {"summary_json", "jtl"} /\ run[r].output

Manifest(r) == [a \in Reported(engine) |-> IF Evidence(r, a) THEN "available" ELSE "planned"]

\* What the control plane derives of the result alone.
Derived(a) ==
  IF stored = NoResult THEN "planned"
  ELSE IF a = "engine_output" \/ a \in run[stored].streams THEN "available"
  ELSE IF a \in {"summary_json", "jtl", "raw_log"} THEN "missing"
  ELSE "planned"

\* The artifact list: a persisted row wins over what is derived.
Shown(a) == IF a \in DOMAIN items THEN items[a] ELSE Derived(a)
Listed == Expected(engine) \cup DOMAIN items

-----------------------------------------------------------------------------
NoItems == [a \in {} |-> "planned"]
NewRun == [pc |-> "new", wrote |-> 0, exit |-> "none", total |-> 0, failed |-> 0,
           parsed |-> TRUE, streams |-> {}, output |-> FALSE, alone |-> TRUE,
           opened |-> FALSE]

Init ==
  /\ engine \in Engines /\ envelope \in BOOLEAN
  /\ exists = FALSE /\ file = {}
  /\ run = [r \in Runs |-> NewRun]
  /\ stored = NoResult /\ items = NoItems

Active == {r \in Runs : run[r].pc \in {"engine", "ended engine"}}

\* A run is alone as long as no other one of the task is between the start of
\* its engine and the reading of the file.
Start(r) ==
  [q \in Runs |-> IF q = r THEN [run[r] EXCEPT !.pc = "engine", !.alone = Active = {}]
                  ELSE IF q \in Active THEN [run[q] EXCEPT !.alone = FALSE] ELSE run[q]]

StartEngine(r) ==
  /\ run[r].pc = "new" /\ engine # "other"
  /\ run' = Start(r)
  /\ UNCHANGED <<engine, envelope, fileVars, rowVars>>

\* Mutation: k6 appends to the file of an earlier execution.
OpenAppends(r) ==
  /\ run[r].pc = "engine" /\ ~ run[r].opened
  /\ exists' = TRUE
  /\ UNCHANGED file
  /\ run' = [run EXCEPT ![r].opened = TRUE]
  /\ UNCHANGED <<engine, envelope, rowVars>>

\* The engine opens its output: k6 truncates the file, JMeter appends to it.
\* An engine whose script is missing or broken ends before that.
OpenOutput(r) ==
  /\ run[r].pc = "engine" /\ ~ run[r].opened
  /\ exists' = TRUE
  /\ file' = IF engine = "k6" THEN {} ELSE file
  /\ run' = [run EXCEPT ![r].opened = TRUE]
  /\ UNCHANGED <<engine, envelope, rowVars>>

\* One request; k6's summary does not tell failures.  Two k6 processes write
\* at offsets of their own, so a row may fall on rows of the other one.
WriteRow(r) ==
  /\ run[r].pc = "engine" /\ run[r].opened
  /\ run[r].wrote < MaxRows
  /\ \E shape \in IF engine = "k6" THEN {"passed"} ELSE {"passed", "failed"},
        hit \in SUBSET {row \in file : engine = "k6" /\ row.run # r} :
       file' = (file \ hit) \cup {[run |-> r, n |-> run[r].wrote + 1, shape |-> shape]}
  /\ run' = [run EXCEPT ![r].wrote = @ + 1]
  /\ UNCHANGED <<engine, envelope, exists, rowVars>>

\* The process exits with what it wrote to its streams.
ExitEngine(r) ==
  /\ run[r].pc = "engine"
  /\ \E code \in {"zero", "nonzero"}, s \in SUBSET Streams :
       /\ code = "zero" => run[r].opened
       /\ run' = [run EXCEPT ![r].pc = "ended engine", ![r].exit = code, ![r].streams = s]
  /\ UNCHANGED <<engine, envelope, fileVars, rowVars>>

\* A row cut short by the kill: a line of JSON does not parse and is skipped;
\* of a row of CSV it depends on the column whether the parser skips it,
\* reads "success" as false, or meets a None it does not expect.
Torn(e) == IF e = "k6" THEN {"skipped"} ELSE Shapes

\* The process is killed at its timeout.
KillEngine(r) ==
  /\ run[r].pc = "engine"
  /\ \E s \in SUBSET Streams :
       run' = [run EXCEPT ![r].pc = "ended engine", ![r].exit = "killed", ![r].streams = s]
  /\ \/ UNCHANGED file
     \/ /\ run[r].opened
        /\ \E shape \in Torn(engine) :
             file' = file \cup {[run |-> r, n |-> run[r].wrote + 1, shape |-> shape]}
  /\ UNCHANGED <<engine, envelope, exists, rowVars>>

Counted == {row \in file : row.shape \in {"passed", "failed"}}
Failures == {row \in file : row.shape = "failed"}
Poisoned == \E row \in file : row.shape = "poison"

\* The agent reads the whole file and looks whether it is there.  k6's
\* summary has no failures.
Summarise(r) ==
  /\ run[r].pc = "ended engine"
  /\ run' = [run EXCEPT
       ![r].pc = "reporting",
       ![r].total = IF Poisoned THEN 0 ELSE Cardinality(Counted),
       ![r].failed = IF Poisoned \/ engine = "k6" THEN 0 ELSE Cardinality(Failures),
       ![r].parsed = ~ Poisoned,
       ![r].output = exists]
  /\ UNCHANGED <<engine, envelope, fileVars, rowVars>>

\* An engine the agent does not know: a failure without output.
RejectEngine(r) ==
  /\ run[r].pc = "new" /\ engine = "other"
  /\ run' = [run EXCEPT ![r].pc = "reporting", ![r].exit = "nonzero"]
  /\ UNCHANGED <<engine, envelope, fileVars, rowVars>>

\* The end of an execution; the push of its summary to InfluxDB is left out.
AfterReport(r) == run' = [run EXCEPT ![r].pc = "ended"]

\* Mutation: the artifacts are registered before the result is refused.
DeliverReportRegisterFirst(r) ==
  /\ run[r].pc = "reporting"
  /\ stored' = IF stored = NoResult THEN r ELSE stored
  /\ items' = IF envelope THEN Manifest(r) ELSE items
  /\ AfterReport(r)
  /\ UNCHANGED <<engine, envelope, fileVars>>

\* The callback: the first result is stored with its manifest in one
\* transaction; any later one is refused with all it carries.
DeliverReport(r) ==
  /\ run[r].pc = "reporting"
  /\ IF stored = NoResult
     THEN stored' = r /\ items' = IF envelope THEN Manifest(r) ELSE items
     ELSE UNCHANGED rowVars
  /\ AfterReport(r)
  /\ UNCHANGED <<engine, envelope, fileVars>>

\* The callback fails, which is only logged.
LoseReport(r) ==
  /\ run[r].pc = "reporting"
  /\ AfterReport(r)
  /\ UNCHANGED <<engine, envelope, fileVars, rowVars>>

RunStep(r) ==
  \/ StartEngine(r) \/ OpenOutput(r) \/ WriteRow(r) \/ ExitEngine(r) \/ KillEngine(r)
  \/ Summarise(r) \/ RejectEngine(r) \/ DeliverReport(r) \/ LoseReport(r)

Next == \E r \in Runs : RunStep(r)
Spec == Init /\ [][Next]_vars

-----------------------------------------------------------------------------
TypeOK ==
  /\ engine \in Engines /\ envelope \in BOOLEAN
  /\ exists \in BOOLEAN /\ file \subseteq Rows
  /\ run \in [Runs -> RunRecords]
  /\ stored \in Runs \cup {NoResult}
  /\ DOMAIN items \subseteq Artifacts /\ \A a \in DOMAIN items : items[a] \in States

Summarised(r) == run[r].pc \in {"reporting", "ended"} /\ engine # "other"

\* A k6 execution that opened its file and ran alone reports the requests it
\* made and no others, whatever earlier executions of the task left behind
\* and wherever a kill cut the file (calculate_k6_summary).
OwnSamples ==
  \A r \in Runs :
    engine = "k6" /\ Summarised(r) /\ run[r].opened /\ run[r].alone
      => run[r].total = run[r].wrote /\ run[r].parsed

\* The manifest rows of a task are those of the execution whose result is
\* stored: a refused or lost result leaves no artifact behind
\* (TaskResultCreateView.post, the transaction).
ArtifactsOfResult ==
  items # NoItems => stored # NoResult /\ items = Manifest(stored)

\* A client is told "available" only of what the stored result has evidence
\* for: output that was captured or a file that was there (docs:
\* artifact-lifecycle, "must depend on evidence").
AvailableIsBacked ==
  \A a \in Listed : Shown(a) = "available" =>
    /\ stored # NoResult
    /\ \/ a = "engine_output" \/ a \in run[stored].streams
       \/ a \in {"summary_json", "jtl"} /\ run[stored].output

\* Whether the agent sends a manifest or the control plane has to derive the
\* list, a captured stream is shown in the same state: the two programs
\* decide it by rules of their own (workers/artifacts.py, read_models.py).
StreamsAgree ==
  \A a \in (Streams \cup {"engine_output"}) \cap DOMAIN items : items[a] = Derived(a)

\* What is shown of a task never turns back to planned, and never away from
\* available, whichever executions end later.
NeverBackToPlanned ==
  [][\A a \in Listed :
       /\ Shown(a) # "planned" => Shown(a)' # "planned"
       /\ Shown(a) = "available" => Shown(a)' = "available"]_vars

(***************************************************************************)
(* Statements of the repository that the code does not keep                *)
(***************************************************************************)
\* artifact-lifecycle: after the result, an expected worker file without
\* evidence is missing.
UnprovedIsMissing ==
  stored # NoResult =>
    \A a \in Expected(engine) \cap {"summary_json", "jtl", "raw_log"} :
      Shown(a) \in {"available", "missing"}
=============================================================================
