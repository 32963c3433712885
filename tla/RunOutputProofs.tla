-------------------------- MODULE RunOutputProofs --------------------------
(***************************************************************************)
(* Proofs about RunOutput, for any number of executions of the task and of *)
(* samples.  What the rows say of the stored result holds because that     *)
(* execution has ended and nothing touches it any more; a k6 execution     *)
(* counts its own samples because nobody else has the file while it is     *)
(* alone, and its opening leaves no row of earlier ones.                   *)
(***************************************************************************)
EXTENDS RunOutput, FiniteSetTheorems, TLAPS

\* An execution that is alone has the output file to itself.
Lone ==
  \A r, q \in Runs : r \in Active /\ q \in Active /\ run[r].alone => q = r

\* Nothing is written before the file is opened, nor opened before the start.
Fresh ==
  \A r \in Runs : /\ ~ run[r].opened => run[r].wrote = 0
                  /\ run[r].pc = "new" => ~ run[r].opened

\* The samples of an execution, and the row that a kill may cut short.
Samples(r) == {[run |-> r, n |-> i, shape |-> "passed"] : i \in 1 .. run[r].wrote}
Cut(r) == [run |-> r, n |-> run[r].wrote + 1, shape |-> "skipped"]

Writing(r) == engine = "k6" /\ run[r].opened /\ run[r].alone

\* What a k6 execution that is alone finds in its file.
OwnFile ==
  \A r \in Runs : Writing(r) =>
    /\ run[r].pc = "engine" => file = Samples(r)
    /\ run[r].pc = "ended engine" => file \in {Samples(r), Samples(r) \cup {Cut(r)}}

\* The rows of the database are those of one execution that has ended.
Settled ==
  /\ stored = NoResult => items = NoItems
  /\ stored # NoResult => /\ run[stored].pc = "ended"
                          /\ items \in {NoItems, Manifest(stored)}

OInv ==
  /\ TypeOK
  /\ IsFiniteSet(file)
  /\ Lone
  /\ Fresh
  /\ OwnFile
  /\ OwnSamples
  /\ Settled

-----------------------------------------------------------------------------
(***************************************************************************)
(* Types.                                                                  *)
(***************************************************************************)
LEMMA ManifestType ==
  ASSUME NEW r, engine \in Engines
  PROVE  /\ DOMAIN Manifest(r) \subseteq Artifacts
         /\ \A a \in DOMAIN Manifest(r) : Manifest(r)[a] \in States
<1>1. Reported(engine) \subseteq Expected(engine)
  BY DEF Reported, Expected, Engines
<1>2. Expected(engine) \subseteq Artifacts
  BY DEF Artifacts
<1>3. DOMAIN Manifest(r) = Reported(engine)
  BY DEF Manifest
<1>4. \A a \in Reported(engine) : Manifest(r)[a] \in States
  BY DEF Manifest, States
<1> QED BY <1>1, <1>2, <1>3, <1>4

LEMMA CountType ==
  ASSUME IsFiniteSet(file)
  PROVE  Cardinality(Counted) \in Nat /\ Cardinality(Failures) \in Nat
<1>1. IsFiniteSet(Counted) /\ IsFiniteSet(Failures)
  BY FS_Subset DEF Counted, Failures
<1> QED BY <1>1, FS_CardinalityType

LEMMA EndedRun ==
  ASSUME run \in [Runs -> RunRecords], NEW r \in Runs,
         NEW code \in {"zero", "nonzero", "killed"}, NEW s \in SUBSET Streams
  PROVE  [run EXCEPT ![r].pc = "ended engine", ![r].exit = code, ![r].streams = s]
            \in [Runs -> RunRecords]
<1>1. run[r] \in RunRecords /\ "ended engine" \in Phases
  BY DEF Phases
<1>2. [run[r] EXCEPT !.pc = "ended engine", !.exit = code, !.streams = s] \in RunRecords
  BY <1>1 DEF RunRecords
<1> QED BY <1>2

LEMMA InitType == Init => TypeOK /\ IsFiniteSet(file)
<1> SUFFICES ASSUME Init PROVE TypeOK /\ IsFiniteSet(file)
  OBVIOUS
<1>1. NewRun \in RunRecords
  BY RunOutputAssumption DEF NewRun, RunRecords, Phases
<1>2. IsFiniteSet(file)
  BY FS_EmptySet DEF Init
<1> QED BY <1>1, <1>2 DEF Init, TypeOK, NoItems

LEMMA StepType ==
  ASSUME TypeOK, IsFiniteSet(file), NEW r \in Runs, RunStep(r)
  PROVE  TypeOK' /\ IsFiniteSet(file)'
<1> USE DEF TypeOK
<1>0. /\ run[r] \in RunRecords
      /\ {"engine", "ended engine", "reporting", "ended"} \subseteq Phases
  BY DEF Phases
<1>1. CASE StartEngine(r)
  <2>1. \A q \in Runs : Start(r)[q] \in RunRecords
    BY <1>0 DEF Start, RunRecords
  <2>2. Start(r) \in [Runs -> RunRecords]
    BY <2>1 DEF Start
  <2> QED BY <1>1, <2>2 DEF StartEngine, fileVars, rowVars
<1>2. CASE OpenOutput(r)
  <2>1. run' \in [Runs -> RunRecords]
    BY ZenonT(30), <1>2 DEF OpenOutput, RunRecords
  <2>2. file' \subseteq Rows /\ IsFiniteSet(file')
    BY <1>2, FS_EmptySet DEF OpenOutput
  <2> QED BY <1>2, <2>1, <2>2 DEF OpenOutput, rowVars
<1>3. CASE WriteRow(r)
  <2>1. run' \in [Runs -> RunRecords]
    BY <1>3, RunOutputAssumption DEF WriteRow, RunRecords
  <2>2. PICK shape \in Shapes, hit \in SUBSET file :
          file' = (file \ hit) \cup {[run |-> r, n |-> run[r].wrote + 1, shape |-> shape]}
    BY <1>3 DEF WriteRow, Shapes
  <2>3. run[r].wrote + 1 \in 1 .. MaxRows + 1
    BY RunOutputAssumption DEF RunRecords
  <2>4. file' \subseteq Rows
    BY <2>2, <2>3 DEF Rows
  <2>5. IsFiniteSet(file')
    BY ZenonT(30), <2>2, FS_Subset, FS_AddElement
  <2> QED BY <1>3, <2>1, <2>4, <2>5 DEF WriteRow, rowVars
<1>4. CASE ExitEngine(r)
  <2>1. run' \in [Runs -> RunRecords]
    <3>1. PICK code \in {"zero", "nonzero"}, s \in SUBSET Streams :
            run' = [run EXCEPT ![r].pc = "ended engine", ![r].exit = code, ![r].streams = s]
      BY <1>4 DEF ExitEngine
    <3> QED BY <1>0, <3>1, EndedRun
  <2> QED BY <1>4, <2>1 DEF ExitEngine, fileVars, rowVars
<1>5. CASE KillEngine(r)
  <2>1. run' \in [Runs -> RunRecords]
    <3>1. PICK s \in SUBSET Streams :
            run' = [run EXCEPT ![r].pc = "ended engine", ![r].exit = "killed", ![r].streams = s]
      BY <1>5 DEF KillEngine
    <3> QED BY <1>0, <3>1, EndedRun
  <2>2. run[r].wrote + 1 \in 1 .. MaxRows + 1
    BY RunOutputAssumption DEF RunRecords
  <2>3. Torn(engine) \subseteq Shapes
    BY DEF Torn, Shapes
  <2>4. CASE file' = file
    BY <1>5, <2>1, <2>4 DEF KillEngine, rowVars
  <2>5. CASE file' # file
    <3>1. PICK shape \in Shapes :
            file' = file \cup {[run |-> r, n |-> run[r].wrote + 1, shape |-> shape]}
      BY <1>5, <2>3, <2>5 DEF KillEngine
    <3>2. file' \subseteq Rows
      BY <2>2, <3>1 DEF Rows
    <3>3. IsFiniteSet(file')
      BY <3>1, FS_AddElement
    <3> QED BY <1>5, <2>1, <3>2, <3>3 DEF KillEngine, rowVars
  <2> QED BY <2>4, <2>5
<1>6. CASE Summarise(r)
  <2>1. Cardinality(Counted) \in Nat /\ Cardinality(Failures) \in Nat
    BY CountType
  <2>2. Poisoned \in BOOLEAN
    BY DEF Poisoned
  <2>3. run' \in [Runs -> RunRecords]
    BY <1>0, <1>6, <2>1, <2>2 DEF Summarise, RunRecords
  <2> QED BY <1>6, <2>3 DEF Summarise, fileVars, rowVars
<1>7. CASE RejectEngine(r)
  <2>1. run' \in [Runs -> RunRecords]
    BY <1>0, <1>7 DEF RejectEngine, RunRecords
  <2> QED BY <1>7, <2>1 DEF RejectEngine, fileVars, rowVars
<1>8. CASE DeliverReport(r)
  <2>1. run' \in [Runs -> RunRecords]
    BY <1>0, <1>8 DEF DeliverReport, AfterReport, RunRecords
  <2>2. /\ stored' \in Runs \cup {NoResult}
        /\ DOMAIN items' \subseteq Artifacts /\ \A a \in DOMAIN items' : items'[a] \in States
    BY <1>8, ManifestType DEF DeliverReport, rowVars
  <2> QED BY <1>8, <2>1, <2>2 DEF DeliverReport, fileVars
<1>9. CASE LoseReport(r)
  <2>1. run' \in [Runs -> RunRecords]
    BY <1>0, <1>9 DEF LoseReport, AfterReport, RunRecords
  <2> QED BY <1>9, <2>1 DEF LoseReport, fileVars, rowVars
<1> QED BY <1>1, <1>2, <1>3, <1>4, <1>5, <1>6, <1>7, <1>8, <1>9 DEF RunStep

-----------------------------------------------------------------------------
(***************************************************************************)
(* What a step leaves alone.  Only the start of another execution touches  *)
(* one that is not its own, and then one that is between its start and the *)
(* reading of the file.                                                    *)
(***************************************************************************)
LEMMA Fields ==
  ASSUME TypeOK
  PROVE  /\ DOMAIN run = Runs
         /\ \A q \in Runs :
              DOMAIN run[q] = {"pc", "wrote", "exit", "total", "failed", "parsed",
                               "streams", "output", "alone", "opened"}
  BY DEF TypeOK, RunRecords

LEMMA StartFrame ==
  ASSUME TypeOK, NEW r \in Runs, StartEngine(r)
  PROVE  /\ run'[r] = [run[r] EXCEPT !.pc = "engine", !.alone = Active = {}]
         /\ \A q \in Runs \ {r} :
              run'[q] = IF q \in Active THEN [run[q] EXCEPT !.alone = FALSE] ELSE run[q]
         /\ run[r].pc = "new" /\ engine' = engine /\ file' = file
         /\ stored' = stored /\ items' = items
  BY DEF StartEngine, Start, fileVars, rowVars

\* The steps but that one move only their own execution.
LEMMA OthersKeep ==
  ASSUME TypeOK, NEW r \in Runs, RunStep(r), ~ StartEngine(r)
  PROVE  /\ \A q \in Runs \ {r} : run'[q] = run[q]
         /\ engine' = engine /\ envelope' = envelope
         /\ run[r].pc # "ended" /\ run'[r].pc # "new"
<1>1. CASE OpenOutput(r)
  BY Fields, <1>1 DEF OpenOutput
<1>2. CASE WriteRow(r)
  BY Fields, <1>2 DEF WriteRow
<1>3. CASE ExitEngine(r)
  BY ZenonT(30), Fields, <1>3 DEF ExitEngine
<1>4. CASE KillEngine(r)
  BY ZenonT(30), Fields, <1>4 DEF KillEngine
<1>5. CASE Summarise(r)
  BY Fields, <1>5 DEF Summarise
<1>6. CASE RejectEngine(r)
  BY Fields, <1>6 DEF RejectEngine
<1>7. CASE DeliverReport(r)
  BY Fields, <1>7 DEF DeliverReport, AfterReport
<1>8. CASE LoseReport(r)
  BY Fields, <1>8 DEF LoseReport, AfterReport
<1> QED BY <1>1, <1>2, <1>3, <1>4, <1>5, <1>6, <1>7, <1>8 DEF RunStep

\* The fields of the execution that a step moves.
LEMMA OwnFields ==
  ASSUME TypeOK, NEW r \in Runs, RunStep(r), ~ StartEngine(r)
  PROVE  /\ run'[r].alone = run[r].alone
         /\ run'[r].pc \in {"engine", "ended engine"} => run[r].pc = "engine"
         /\ ~ run'[r].opened => ~ run[r].opened /\ run'[r].wrote = run[r].wrote
<1>1. CASE OpenOutput(r)
  BY Fields, <1>1 DEF OpenOutput
<1>2. CASE WriteRow(r)
  BY Fields, <1>2 DEF WriteRow
<1>3. CASE ExitEngine(r)
  <2>1. PICK code \in {"zero", "nonzero"}, s \in SUBSET Streams :
          run' = [run EXCEPT ![r].pc = "ended engine", ![r].exit = code, ![r].streams = s]
    BY <1>3 DEF ExitEngine
  <2>2. run[r].pc = "engine"
    BY <1>3 DEF ExitEngine
  <2> QED BY <2>1, <2>2, Fields
<1>4. CASE KillEngine(r)
  <2>1. PICK s \in SUBSET Streams :
          run' = [run EXCEPT ![r].pc = "ended engine", ![r].exit = "killed", ![r].streams = s]
    BY <1>4 DEF KillEngine
  <2>2. run[r].pc = "engine"
    BY <1>4 DEF KillEngine
  <2> QED BY <2>1, <2>2, Fields
<1>5. CASE Summarise(r)
  BY ZenonT(30), Fields, <1>5 DEF Summarise
<1>6. CASE RejectEngine(r)
  BY Fields, <1>6 DEF RejectEngine
<1>7. CASE DeliverReport(r)
  BY Fields, <1>7 DEF DeliverReport, AfterReport
<1>8. CASE LoseReport(r)
  BY Fields, <1>8 DEF LoseReport, AfterReport
<1> QED BY <1>1, <1>2, <1>3, <1>4, <1>5, <1>6, <1>7, <1>8 DEF RunStep

LEMMA StepLone ==
  ASSUME TypeOK, Lone, Fresh, NEW r \in Runs, RunStep(r)
  PROVE  Lone' /\ Fresh'
<1>0. run \in [Runs -> RunRecords]
  BY DEF TypeOK
<1>1. CASE StartEngine(r)
  <2>1. /\ \A q \in Runs \ {r} : q \in Active' => ~ run'[q].alone /\ q \in Active
        /\ run'[r].alone => Active = {}
    BY ZenonT(30), <1>0, <1>1, StartFrame DEF Active, RunRecords
  <2>2. Lone'
    BY <2>1 DEF Lone
  <2>3. ASSUME NEW q \in Runs
        PROVE  /\ run'[q].opened = run[q].opened /\ run'[q].wrote = run[q].wrote
               /\ run'[q].pc = "new" => run[q].pc = "new"
    <3>1. CASE q = r
      BY ZenonT(30), <1>1, <3>1, StartFrame, Fields
    <3>2. CASE q # r
      <4>1. run'[q] = run[q] \/ run'[q] = [run[q] EXCEPT !.alone = FALSE]
        BY <1>1, <3>2, StartFrame
      <4> QED BY <4>1, Fields
    <3> QED BY <3>1, <3>2
  <2> QED BY <2>2, <2>3 DEF Fresh
<1>2. CASE ~ StartEngine(r)
  <2>1. \A q \in Runs : /\ q \in Active' => q \in Active
                        /\ run'[q].alone = run[q].alone
    BY <1>2, OthersKeep, OwnFields DEF Active
  <2>2. Lone'
    BY <2>1 DEF Lone
  <2>3. Fresh'
    BY <1>2, OthersKeep, OwnFields DEF Fresh
  <2> QED BY <2>2, <2>3
<1> QED BY <1>1, <1>2

-----------------------------------------------------------------------------
(***************************************************************************)
(* The file of an execution that is alone.                                 *)
(***************************************************************************)
\* One more request is one more row.
LEMMA SamplesGrow ==
  ASSUME NEW n \in Nat, NEW r
  PROVE  {[run |-> r, n |-> i, shape |-> "passed"] : i \in 1 .. n + 1}
           = {[run |-> r, n |-> i, shape |-> "passed"] : i \in 1 .. n}
               \cup {[run |-> r, n |-> n + 1, shape |-> "passed"]}
<1>1. 1 .. n + 1 = (1 .. n) \cup {n + 1}
  OBVIOUS
<1> QED BY <1>1

\* The steps of other executions keep the file of one that is alone.
LEMMA OthersFile ==
  ASSUME TypeOK, Lone, OwnFile, NEW r \in Runs, RunStep(r), ~ StartEngine(r),
         NEW q \in Runs \ {r}, Writing(q)'
  PROVE  /\ (run[q].pc = "engine" => file = Samples(q))'
         /\ (run[q].pc = "ended engine" => file \in {Samples(q), Samples(q) \cup {Cut(q)}})'
<1>1. run'[q] = run[q] /\ engine' = engine
  BY OthersKeep
<1>2. Writing(q) /\ Samples(q)' = Samples(q) /\ Cut(q)' = Cut(q)
  BY <1>1 DEF Writing, Samples, Cut
<1>3. CASE q \in Active
  <2>1. r \notin Active
    BY <1>2, <1>3 DEF Lone, Writing
  <2>2. file' = file
    BY <2>1 DEF RunStep, Active, OpenOutput, WriteRow, ExitEngine, KillEngine, Summarise,
                RejectEngine, DeliverReport, LoseReport, fileVars
  <2> QED BY <1>1, <1>2, <2>2 DEF OwnFile
<1>4. CASE q \notin Active
  BY <1>1, <1>4 DEF Active
<1> QED BY <1>3, <1>4

LEMMA WriteOwnFile ==
  ASSUME TypeOK, Lone, OwnFile, NEW r \in Runs, WriteRow(r), Writing(r)'
  PROVE  file' = Samples(r)' /\ run'[r].pc = "engine"
<1>1. run' = [run EXCEPT ![r].wrote = @ + 1] /\ engine' = engine /\ run[r].pc = "engine"
  BY DEF WriteRow
<1>2. /\ run'[r].wrote = run[r].wrote + 1 /\ run'[r].pc = "engine"
      /\ run'[r].opened = run[r].opened /\ run'[r].alone = run[r].alone
  BY <1>1, Fields
<1>3. Writing(r)
  BY <1>1, <1>2 DEF Writing
<1>4. file = Samples(r) /\ engine = "k6"
  BY <1>1, <1>3 DEF OwnFile, Writing
<1>5. PICK hit \in SUBSET {row \in file : row.run # r} :
        file' = (file \ hit) \cup {[run |-> r, n |-> run[r].wrote + 1, shape |-> "passed"]}
  BY <1>4 DEF WriteRow
<1>6. hit = {}
  BY <1>4 DEF Samples
<1>7. run[r].wrote \in Nat
  BY RunOutputAssumption DEF TypeOK, RunRecords
<1>8. file' = {[run |-> r, n |-> i, shape |-> "passed"] : i \in 1 .. run[r].wrote}
                \cup {[run |-> r, n |-> run[r].wrote + 1, shape |-> "passed"]}
  BY <1>4, <1>5, <1>6 DEF Samples
<1>9. file' = {[run |-> r, n |-> i, shape |-> "passed"] : i \in 1 .. run[r].wrote + 1}
  BY <1>7, <1>8, SamplesGrow
<1> QED BY <1>2, <1>9 DEF Samples

LEMMA EndOwnFile ==
  ASSUME TypeOK, OwnFile, NEW r \in Runs, ExitEngine(r) \/ KillEngine(r), Writing(r)'
  PROVE  /\ file' \in {Samples(r)', Samples(r)' \cup {Cut(r)'}}
         /\ run'[r].pc = "ended engine"
<1>1. PICK code \in {"zero", "nonzero", "killed"}, s \in SUBSET Streams :
        run' = [run EXCEPT ![r].pc = "ended engine", ![r].exit = code, ![r].streams = s]
  <2>1. CASE ExitEngine(r)
    BY <2>1 DEF ExitEngine
  <2>2. CASE KillEngine(r)
    BY <2>2 DEF KillEngine
  <2> QED BY <2>1, <2>2
<1>2. /\ run'[r].wrote = run[r].wrote /\ run'[r].pc = "ended engine"
      /\ run'[r].opened = run[r].opened /\ run'[r].alone = run[r].alone
  BY <1>1, Fields
<1>3. engine' = engine /\ run[r].pc = "engine"
  BY DEF ExitEngine, KillEngine
<1>4. Writing(r) /\ Samples(r)' = Samples(r) /\ Cut(r)' = Cut(r)
  BY <1>2, <1>3 DEF Writing, Samples, Cut
<1>5. file = Samples(r) /\ engine = "k6"
  BY <1>3, <1>4 DEF OwnFile, Writing
<1>6. file' = file \/ file' = file \cup {Cut(r)}
  <2>1. Torn(engine) = {"skipped"}
    BY <1>5 DEF Torn
  <2> QED BY <2>1 DEF ExitEngine, KillEngine, fileVars, Cut
<1> QED BY <1>2, <1>4, <1>5, <1>6

LEMMA StepOwnFile ==
  ASSUME TypeOK, Lone, Fresh, OwnFile, NEW r \in Runs, RunStep(r)
  PROVE  OwnFile'
<1>1. CASE StartEngine(r)
  <2> SUFFICES ASSUME NEW q \in Runs, Writing(q)', run'[q].pc \in {"engine", "ended engine"}
               PROVE  FALSE
    BY DEF OwnFile
  <2>1. CASE q = r
    <3>1. ~ run[r].opened
      BY <1>1, StartFrame DEF Fresh
    <3>2. run'[r].opened = run[r].opened
      <4>1. PICK b : run'[r] = [run[r] EXCEPT !.pc = "engine", !.alone = b]
        BY <1>1, StartFrame
      <4> QED BY <4>1, Fields
    <3> QED BY <2>1, <3>1, <3>2 DEF Writing
  <2>2. CASE q # r
    <3>1. run'[q] = IF q \in Active THEN [run[q] EXCEPT !.alone = FALSE] ELSE run[q]
      BY <1>1, <2>2, StartFrame
    <3>2. q \in Active
      BY <3>1 DEF Active
    <3>3. ~ run'[q].alone
      BY <3>1, <3>2, Fields
    <3> QED BY <3>3 DEF Writing
  <2> QED BY <2>1, <2>2
<1>2. CASE ~ StartEngine(r)
  <2> SUFFICES ASSUME NEW q \in Runs, Writing(q)'
               PROVE  /\ (run[q].pc = "engine" => file = Samples(q))'
                      /\ (run[q].pc = "ended engine"
                             => file \in {Samples(q), Samples(q) \cup {Cut(q)}})'
    BY DEF OwnFile
  <2>1. CASE q # r
    BY <1>2, <2>1, OthersFile
  <2>2. CASE q = r
    <3>1. CASE OpenOutput(r)
      <4>1. engine = "k6" /\ file' = {}
        BY <2>2, <3>1 DEF OpenOutput, Writing
      <4>2. run'[r].wrote = 0 /\ run'[r].pc = "engine"
        BY <3>1, Fields DEF OpenOutput, Fresh
      <4>3. Samples(r)' = {}
        BY <4>2 DEF Samples
      <4> QED BY <2>2, <4>1, <4>2, <4>3
    <3>2. CASE WriteRow(r)
      BY <2>2, <3>2, WriteOwnFile
    <3>3. CASE ExitEngine(r) \/ KillEngine(r)
      BY <2>2, <3>3, EndOwnFile
    <3>4. CASE Summarise(r) \/ RejectEngine(r) \/ DeliverReport(r) \/ LoseReport(r)
      <4>1. run'[r].pc \in {"reporting", "ended"}
        <5>1. CASE Summarise(r)
          BY <5>1, Fields DEF Summarise
        <5>2. CASE RejectEngine(r)
          BY <5>2, Fields DEF RejectEngine
        <5>3. CASE DeliverReport(r) \/ LoseReport(r)
          BY <5>3, Fields DEF DeliverReport, LoseReport, AfterReport
        <5> QED BY <3>4, <5>1, <5>2, <5>3
      <4> QED BY <2>2, <4>1
    <3> QED BY <1>2, <3>1, <3>2, <3>3, <3>4 DEF RunStep
  <2> QED BY <2>1, <2>2
<1> QED BY <1>1, <1>2

-----------------------------------------------------------------------------
(***************************************************************************)
(* The summary of an execution that had its file to itself.                *)
(***************************************************************************)
LEMMA SamplesCount ==
  ASSUME NEW r, NEW n \in Nat
  PROVE  Cardinality({[run |-> r, n |-> i, shape |-> "passed"] : i \in 1 .. n}) = n
<1> DEFINE row(i) == [run |-> r, n |-> i, shape |-> "passed"]
           S == {row(i) : i \in 1 .. n}
           f == [i \in 1 .. n |-> row(i)]
<1>1. f \in Bijection(1 .. n, S)
  <2>1. f \in Injection(1 .. n, S)
    <3>1. f \in [1 .. n -> S]
      OBVIOUS
    <3>2. ASSUME NEW i \in 1 .. n, NEW j \in 1 .. n, f[i] = f[j] PROVE i = j
      <4>1. row(i) = row(j)
        BY <3>2
      <4>2. row(i).n = i /\ row(j).n = j
        OBVIOUS
      <4> HIDE DEF row
      <4> QED BY <4>1, <4>2
    <3> QED BY <3>1, <3>2 DEF Injection, IsInjective
  <2>2. f \in Surjection(1 .. n, S)
    BY DEF Surjection
  <2> QED BY <2>1, <2>2 DEF Bijection
<1>2. IsFiniteSet(1 .. n) /\ Cardinality(1 .. n) = n
  BY FS_Interval
<1>3. Cardinality(S) = Cardinality(1 .. n)
  <2> HIDE DEF S, f
  <2> QED BY <1>1, <1>2, FS_Bijection DEF ExistsBijection
<1> QED BY <1>2, <1>3

LEMMA WroteType ==
  ASSUME TypeOK, NEW r \in Runs
  PROVE  run[r].wrote \in Nat
<1>1. run[r] \in RunRecords
  BY DEF TypeOK
<1> QED BY <1>1, RunOutputAssumption DEF RunRecords

LEMMA SamplesPassed ==
  ASSUME NEW r, NEW row \in Samples(r)
  PROVE  row.shape = "passed"
<1>1. PICK i \in 1 .. run[r].wrote : row = [run |-> r, n |-> i, shape |-> "passed"]
  BY DEF Samples
<1> QED BY <1>1

LEMMA OwnSummary ==
  ASSUME TypeOK, OwnFile, NEW r \in Runs, Writing(r), run[r].pc = "ended engine"
  PROVE  Cardinality(Counted) = run[r].wrote /\ ~ Poisoned
<1>1. file \in {Samples(r), Samples(r) \cup {Cut(r)}}
  BY DEF OwnFile
<1>2. \A row \in Samples(r) : row.shape = "passed"
  BY SamplesPassed
<1>3. Cut(r).shape = "skipped"
  BY DEF Cut
<1>4. Counted = Samples(r)
  BY <1>1, <1>2, <1>3 DEF Counted
<1>5. ~ Poisoned
  BY <1>1, <1>2, <1>3 DEF Poisoned
<1>6. run[r].wrote \in Nat
  BY WroteType
<1>7. Cardinality(Samples(r)) = run[r].wrote
  BY <1>6, SamplesCount DEF Samples
<1> QED BY <1>4, <1>5, <1>7

LEMMA StepOwnSamples ==
  ASSUME TypeOK, OwnFile, OwnSamples, NEW r \in Runs, RunStep(r)
  PROVE  OwnSamples'
<1> SUFFICES ASSUME NEW q \in Runs, engine' = "k6", Summarised(q)', run'[q].opened,
                    run'[q].alone
             PROVE  run'[q].total = run'[q].wrote /\ run'[q].parsed
  BY DEF OwnSamples
<1>0. engine = "k6"
  BY StartFrame, OthersKeep
<1>1. CASE Summarise(q)
  <2>1. /\ run'[q].total = (IF Poisoned THEN 0 ELSE Cardinality(Counted))
        /\ run'[q].parsed = ~ Poisoned
        /\ run'[q].wrote = run[q].wrote /\ run'[q].opened = run[q].opened
        /\ run'[q].alone = run[q].alone /\ run[q].pc = "ended engine"
    BY ZenonT(30), <1>1, Fields DEF Summarise
  <2>2. Writing(q)
    BY <1>0, <2>1 DEF Writing
  <2> QED BY <2>1, <2>2, OwnSummary
<1>2. CASE ~ Summarise(q)
  <2>1. /\ run[q].pc \in {"reporting", "ended"}
        /\ run'[q].total = run[q].total /\ run'[q].wrote = run[q].wrote
        /\ run'[q].parsed = run[q].parsed /\ run'[q].opened = run[q].opened
        /\ run'[q].alone = run[q].alone
    <3>1. CASE StartEngine(r)
      <4>1. q # r
        <5>1. PICK b : run'[r] = [run[r] EXCEPT !.pc = "engine", !.alone = b]
          BY <3>1, StartFrame
        <5>2. run'[r].pc = "engine"
          BY <5>1, Fields
        <5> QED BY <5>2 DEF Summarised
      <4>2. run'[q].pc \notin {"engine", "ended engine"}
        BY DEF Summarised
      <4>3. q \notin Active
        BY <3>1, <4>1, <4>2, StartFrame, Fields DEF Active
      <4>4. run'[q] = run[q]
        BY <3>1, <4>1, <4>3, StartFrame
      <4> QED BY <4>4 DEF Summarised
    <3>2. CASE ~ StartEngine(r) /\ q # r
      BY <3>2, OthersKeep DEF Summarised
    <3>3. CASE DeliverReport(r) \/ LoseReport(r)
      <4>1. run' = [run EXCEPT ![r].pc = "ended"] /\ run[r].pc = "reporting"
        BY <3>3 DEF DeliverReport, LoseReport, AfterReport
      <4>2. CASE q = r
        BY <4>1, <4>2, Fields
      <4>3. CASE q # r
        <5>1. run'[q] = run[q]
          BY <4>1, <4>3, Fields
        <5> QED BY <5>1 DEF Summarised
      <4> QED BY <4>2, <4>3
    <3>4. CASE q = r /\ (OpenOutput(r) \/ WriteRow(r))
      BY <3>4, Fields DEF OpenOutput, WriteRow, Summarised
    <3>5. CASE q = r /\ (ExitEngine(r) \/ KillEngine(r))
      <4>1. PICK code \in {"zero", "nonzero", "killed"}, s \in SUBSET Streams :
              run' = [run EXCEPT ![r].pc = "ended engine", ![r].exit = code, ![r].streams = s]
        <5>1. CASE ExitEngine(r)
          BY <5>1 DEF ExitEngine
        <5>2. CASE KillEngine(r)
          BY <5>2 DEF KillEngine
        <5> QED BY <3>5, <5>1, <5>2
      <4> QED BY <3>5, <4>1, Fields DEF Summarised
    <3>6. CASE RejectEngine(r)
      BY <1>0, <3>6 DEF RejectEngine
    <3>7. CASE Summarise(r)
      BY <1>2, <3>2, <3>7 DEF Summarise, StartEngine
    <3> QED BY <3>1, <3>2, <3>3, <3>4, <3>5, <3>6, <3>7 DEF RunStep
  <2> QED BY <1>0, <2>1 DEF OwnSamples, Summarised
<1> QED BY <1>1, <1>2

-----------------------------------------------------------------------------
(***************************************************************************)
(* The rows of the database.                                               *)
(***************************************************************************)
\* A step moves no execution that has ended.
LEMMA EndedKeeps ==
  ASSUME TypeOK, NEW r \in Runs, RunStep(r), NEW q \in Runs, run[q].pc = "ended"
  PROVE  run'[q] = run[q] /\ engine' = engine
<1>1. CASE StartEngine(r)
  <2>1. q # r /\ q \notin Active
    BY <1>1, StartFrame DEF Active
  <2> QED BY <1>1, <2>1, StartFrame
<1>2. CASE ~ StartEngine(r)
  BY <1>2, OthersKeep
<1> QED BY <1>1, <1>2

\* The rows change only when the first result is stored.
LEMMA RowWrites ==
  ASSUME NEW r \in Runs, RunStep(r)
  PROVE  \/ stored' = stored /\ items' = items
         \/ /\ DeliverReport(r) /\ stored = NoResult /\ stored' = r
            /\ items' = IF envelope THEN Manifest(r) ELSE items
  BY DEF RunStep, StartEngine, OpenOutput, WriteRow, ExitEngine, KillEngine, Summarise,
         RejectEngine, DeliverReport, LoseReport, rowVars

\* The report of an execution ends it, and leaves its manifest as it is.
LEMMA ReportedManifest ==
  ASSUME TypeOK, NEW r \in Runs, DeliverReport(r)
  PROVE  Manifest(r)' = Manifest(r) /\ run'[r].pc = "ended"
<1>1. run' = [run EXCEPT ![r].pc = "ended"] /\ engine' = engine
  BY DEF DeliverReport, AfterReport
<1>2. /\ run'[r].pc = "ended" /\ run'[r].streams = run[r].streams
      /\ run'[r].output = run[r].output
  BY <1>1, Fields
<1> QED BY <1>1, <1>2 DEF Manifest, Evidence

LEMMA StepSettled ==
  ASSUME TypeOK, Settled, NEW r \in Runs, RunStep(r)
  PROVE  Settled'
<1>1. CASE stored' = stored /\ items' = items
  <2>1. CASE stored = NoResult
    BY <1>1, <2>1 DEF Settled, NoItems
  <2>2. CASE stored # NoResult
    <3>1. stored \in Runs /\ run[stored].pc = "ended" /\ items \in {NoItems, Manifest(stored)}
      BY <2>2 DEF Settled, TypeOK
    <3>2. run'[stored] = run[stored] /\ engine' = engine
      BY <3>1, EndedKeeps
    <3>3. Manifest(stored)' = Manifest(stored)
      BY <1>1, <3>2 DEF Manifest, Evidence
    <3> QED BY <1>1, <2>2, <3>1, <3>2, <3>3 DEF Settled, NoItems
  <2> QED BY <2>1, <2>2
<1>2. CASE /\ DeliverReport(r) /\ stored = NoResult /\ stored' = r
           /\ items' = IF envelope THEN Manifest(r) ELSE items
  <2>1. Manifest(r)' = Manifest(r) /\ run'[r].pc = "ended"
    BY <1>2, ReportedManifest
  <2>2. items = NoItems /\ r # NoResult
    BY <1>2, RunOutputAssumption DEF Settled
  <2>3. items' \in {NoItems, Manifest(r)}
    BY <1>2, <2>2
  <2>4. Manifest(stored)' = Manifest(r)
    BY <1>2, <2>1 DEF Manifest, Evidence
  <2> QED BY <1>2, <2>1, <2>2, <2>3, <2>4 DEF Settled, NoItems
<1> QED BY <1>1, <1>2, RowWrites

-----------------------------------------------------------------------------
(***************************************************************************)
(* The invariant.                                                          *)
(***************************************************************************)
LEMMA InitOInv == Init => OInv
<1> SUFFICES ASSUME Init PROVE OInv
  OBVIOUS
<1>1. \A r \in Runs : run[r] = NewRun
  BY DEF Init
<1>2. \A r \in Runs : run[r].pc = "new" /\ ~ run[r].opened /\ run[r].wrote = 0
  BY <1>1 DEF NewRun
<1>3. Lone /\ Fresh /\ OwnFile /\ OwnSamples
  BY <1>2 DEF Lone, Active, Fresh, OwnFile, Writing, OwnSamples
<1>4. Settled
  BY DEF Init, Settled
<1> QED BY <1>3, <1>4, InitType DEF OInv

LEMMA StepOInv == OInv /\ [Next]_vars => OInv'
<1> SUFFICES ASSUME OInv, [Next]_vars PROVE OInv'
  OBVIOUS
<1> USE DEF OInv
<1>1. ASSUME NEW r \in Runs, RunStep(r) PROVE OInv'
  BY <1>1, StepType, StepLone, StepOwnFile, StepOwnSamples, StepSettled
<1>2. CASE UNCHANGED vars
  BY <1>2 DEF vars, fileVars, rowVars, TypeOK, Lone, Active, Fresh, OwnFile, Writing, Samples,
              Cut, OwnSamples, Summarised, Settled, Manifest, Evidence, NoItems
<1> QED BY <1>1, <1>2 DEF Next

LEMMA OutputInvariant == Spec => []OInv
  BY InitOInv, StepOInv, PTL DEF Spec

(***************************************************************************)
(* What is shown of a task.                                                *)
(***************************************************************************)
LEMMA PersistedState ==
  ASSUME TypeOK, Settled, NEW a \in DOMAIN items
  PROVE  /\ stored \in Runs /\ items = Manifest(stored)
         /\ items[a] = IF Evidence(stored, a) THEN "available" ELSE "planned"
<1>1. items # NoItems
  BY DEF NoItems
<1>2. stored \in Runs /\ items = Manifest(stored)
  BY <1>1 DEF Settled, TypeOK
<1>3. DOMAIN Manifest(stored) = Reported(engine)
  BY DEF Manifest
<1>4. a \in Reported(engine)
  BY <1>2, <1>3
<1> QED BY <1>2, <1>4 DEF Manifest

-----------------------------------------------------------------------------
(***************************************************************************)
(* The output file, the executions and the rows are well typed, for any    *)
(* number of executions of the task on the agent.                          *)
(***************************************************************************)
THEOREM OutputTypeCorrect == Spec => []TypeOK
<1>1. OInv => TypeOK
  BY DEF OInv
<1> QED BY <1>1, OutputInvariant, PTL

(***************************************************************************)
(* A k6 execution that opened its file and ran alone reports the requests  *)
(* it made and no others, however many executions of the task came before  *)
(* it (workers/agent.py, calculate_k6_summary).                            *)
(***************************************************************************)
THEOREM SamplesAreOwn == Spec => []OwnSamples
<1>1. OInv => OwnSamples
  BY DEF OInv
<1> QED BY <1>1, OutputInvariant, PTL

(***************************************************************************)
(* The persisted artifact rows are those of the execution whose result is  *)
(* stored (results/views.py, the transaction of the result).               *)
(***************************************************************************)
THEOREM ArtifactsAreOfResult == Spec => []ArtifactsOfResult
<1>1. OInv => ArtifactsOfResult
  BY DEF OInv, Settled, ArtifactsOfResult
<1> QED BY <1>1, OutputInvariant, PTL

(***************************************************************************)
(* A client is told "available" only of what the stored result has         *)
(* evidence for, from a manifest or derived.                               *)
(***************************************************************************)
THEOREM AvailabilityIsBacked == Spec => []AvailableIsBacked
<1>1. OInv => AvailableIsBacked
  <2> SUFFICES ASSUME OInv, NEW a \in Listed, Shown(a) = "available"
               PROVE  /\ stored # NoResult
                      /\ \/ a = "engine_output" \/ a \in run[stored].streams
                         \/ a \in {"summary_json", "jtl"} /\ run[stored].output
    BY DEF AvailableIsBacked
  <2>1. CASE a \in DOMAIN items
    <3>1. stored \in Runs /\ Evidence(stored, a)
      BY <2>1, PersistedState DEF OInv, Shown
    <3> QED BY <3>1, RunOutputAssumption DEF Evidence
  <2>2. CASE a \notin DOMAIN items
    BY <2>2 DEF Shown, Derived
  <2> QED BY <2>1, <2>2
<1> QED BY <1>1, OutputInvariant, PTL

(***************************************************************************)
(* The agent's manifest and the control plane's derivation agree on every  *)
(* captured stream, though each has rules of its own.                      *)
(***************************************************************************)
THEOREM TheStreamsAgree == Spec => []StreamsAgree
<1>1. OInv => StreamsAgree
  <2> SUFFICES ASSUME OInv, NEW a \in Streams \cup {"engine_output"}, a \in DOMAIN items
               PROVE  items[a] = Derived(a)
    BY DEF StreamsAgree
  <2>1. /\ stored \in Runs
        /\ items[a] = IF Evidence(stored, a) THEN "available" ELSE "planned"
    BY PersistedState DEF OInv
  <2>2. a \notin {"summary_json", "jtl", "raw_log"} /\ stored # NoResult
    BY <2>1, RunOutputAssumption DEF Streams
  <2> QED BY <2>1, <2>2 DEF Derived, Evidence
<1> QED BY <1>1, OutputInvariant, PTL

(***************************************************************************)
(* Whatever executions end later, what a client was shown of an artifact   *)
(* does not turn back to planned, nor away from available.                 *)
(***************************************************************************)
THEOREM ShownNeverTurnsBack == Spec => NeverBackToPlanned
<1> DEFINE Onward == \A a \in Listed :
             /\ Shown(a) # "planned" => Shown(a)' # "planned"
             /\ Shown(a) = "available" => Shown(a)' = "available"
<1>1. OInv /\ [Next]_vars => Onward \/ UNCHANGED vars
  <2> SUFFICES ASSUME OInv, NEW r \in Runs, RunStep(r), NEW a \in Listed
               PROVE  Shown(a)' = Shown(a) \/ Shown(a) = "planned"
    BY DEF Next
  <2> USE DEF OInv
  <2>1. CASE stored = NoResult
    BY <2>1 DEF Settled, NoItems, Shown, Derived
  <2>2. CASE stored # NoResult
    <3>1. stored' = stored /\ items' = items
      BY <2>2, RowWrites
    <3>2. stored \in Runs /\ run[stored].pc = "ended"
      BY <2>2 DEF Settled, TypeOK
    <3>3. run'[stored] = run[stored]
      BY <3>2, EndedKeeps
    <3>4. Derived(a)' = Derived(a)
      BY <3>1, <3>3 DEF Derived
    <3> QED BY <3>1, <3>4 DEF Shown
  <2> QED BY <2>1, <2>2
<1>2. Spec => [][Onward]_vars
  BY <1>1, OutputInvariant, PTL DEF Spec
<1> QED BY <1>2 DEF NeverBackToPlanned
=============================================================================
