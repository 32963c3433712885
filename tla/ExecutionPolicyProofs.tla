------------------------ MODULE ExecutionPolicyProofs ------------------------
(***************************************************************************)
(* Proofs about ExecutionPolicy, for every set of execution objects and    *)
(* every bound on time: the type invariant, the precedence of the request, *)
(* and that a run at constant load is never cut short.                     *)
(*                                                                         *)
(* The inductive invariant says of a task that the API created that its    *)
(* execution is the resolved object, valid and with every number made      *)
(* whole, and of a killed one that its clock has reached the timeout.      *)
(* Making the numbers whole changes none that int() reads of them, so the  *)
(* stored object is as valid as the resolved one, and validity bounds the  *)
(* timeout from below by the duration and the grace time, which is what    *)
(* NotCutShort needs.                                                      *)
(***************************************************************************)
EXTENDS ExecutionPolicy, TLAPS

Accepted == {"created", "running", "finished", "killed"}

Inputs ==
  /\ engine \in Engines /\ own \in OwnLoads \cup {Null}
  /\ template \in Overrides /\ request \in Overrides
  /\ phase \in Accepted \cup {"request", "rejected"}
  /\ clock \in 0 .. MaxTime

Stored ==
  LET x == Resolve(engine, template, request) IN
  IF phase \notin Accepted THEN execution = NoExecution
  ELSE IF origin = "admin" THEN execution = request
  ELSE Valid(x) /\ execution = Normalized(x)

KilledAtTimeout ==
  phase = "killed" => Timeout(execution) # Null /\ clock >= Timeout(execution)

PolicyInv == Inputs /\ Stored /\ KilledAtTimeout

\* Every field of x is there, and those that are numbers hold JSON values or null.
Complete(x) ==
  DOMAIN x = Fields /\ \A f \in Numbers : x[f] = Null \/ x[f] \in JsonValues

-----------------------------------------------------------------------------
\* The defaults of both engines are complete.
LEMMA DefaultsComplete == \A e \in Engines : Complete(Defaults[e])
<1>1. Engines = {"k6", "jmeter"}
  BY DEF Engines, Defaults
<1>2. Complete(Defaults["k6"])
  BY DEF Complete, Defaults, Fields, Required, Optional, Numbers, N, JsonValues
<1>3. Complete(Defaults["jmeter"])
  BY DEF Complete, Defaults, Fields, Required, Optional, Numbers, N, JsonValues
<1> QED
  BY <1>1, <1>2, <1>3

\* dict.update with an override keeps an execution object complete.
LEMMA UpdateComplete ==
  ASSUME NEW x, Complete(x), NEW o \in Overrides
  PROVE  Complete(Update(x, o))
<1>1. DOMAIN o \subseteq Fields
  BY OverridesAssumption
<1>2. \A f \in Numbers \cap DOMAIN o : o[f] = Null \/ o[f] \in JsonValues
  BY OverridesAssumption
<1>3. DOMAIN Update(x, o) = Fields
  BY <1>1 DEF Update, Complete
<1>4. Numbers \subseteq Fields
  BY DEF Numbers, Fields, Required, Optional
<1>5. \A f \in Numbers : Update(x, o)[f] = Null \/ Update(x, o)[f] \in JsonValues
  BY <1>1, <1>2, <1>4 DEF Update, Complete
<1> QED
  BY <1>3, <1>5 DEF Complete

\* What resolve_execution builds is complete.
LEMMA ResolveComplete ==
  ASSUME NEW e \in Engines, NEW t \in Overrides, NEW q \in Overrides
  PROVE  Complete(Resolve(e, t, q))
<1>1. Complete(Defaults[e])
  BY DefaultsComplete
<1>2. Complete(Update(Defaults[e], t))
  BY <1>1, UpdateComplete
<1> QED
  BY <1>2, UpdateComplete DEF Resolve

\* What int() makes of a value, back as a JSON number, is whole, is read by
\* int() as before, and is the value less its fraction.
LEMMA IntOfN ==
  ASSUME NEW v \in JsonValues
  PROVE  /\ IntOf(v) \in Int
         /\ N(IntOf(v)) \in JsonValues
         /\ N(IntOf(v)).kind = "number" /\ N(IntOf(v)).tenths % 10 = 0
         /\ IntOf(N(IntOf(v))) = IntOf(v)
         /\ WholePart(N(IntOf(v)), v)
<1> DEFINE t == v.tenths
           n == IntOf(v)
<1>1. t \in Int
  BY DEF JsonValues
<1>2. n \in Int /\ (t >= 0 => n >= 0 /\ 10 * n <= t /\ t < 10 * n + 10)
       /\ (t < 0 => n <= 0 /\ t <= 10 * n /\ 10 * n < t + 10)
  BY <1>1 DEF IntOf
<1> HIDE DEF t, n
<1>3. N(n).kind = "number" /\ N(n).tenths = 10 * n
  BY DEF N
<1>4. N(n) \in JsonValues
  BY <1>2 DEF N, JsonValues
<1>5. (10 * n) % 10 = 0 /\ (10 * n) \div 10 = n /\ (-(10 * n)) \div 10 = -n
  BY <1>2
<1>6. IntOf(N(n)) = n
  BY <1>2, <1>3, <1>5 DEF IntOf
<1>7. WholePart(N(n), v)
  BY <1>1, <1>2, <1>3 DEF WholePart, t
<1> QED
  BY <1>2, <1>3, <1>4, <1>5, <1>6, <1>7 DEF n

\* The normalized object is complete, as valid as the one given, and its
\* numbers are whole.
LEMMA NormalizedValid ==
  ASSUME NEW x, Complete(x), Valid(x)
  PROVE  /\ Complete(Normalized(x)) /\ Valid(Normalized(x))
         /\ \A f \in Numbers : Normalized(x)[f] # Null =>
              Normalized(x)[f].kind = "number" /\ Normalized(x)[f].tenths % 10 = 0
<1> DEFINE y == Normalized(x)
<1>1. DOMAIN y = Fields /\ Numbers \subseteq Fields
  BY DEF Normalized, Complete, Numbers, Fields, Required, Optional
<1>2. \A f \in Fields \ Numbers : y[f] = x[f]
  BY <1>1 DEF Normalized, Complete
<1>3. \A f \in Numbers : IF x[f] = Null THEN y[f] = Null ELSE y[f] = N(IntOf(x[f]))
  BY <1>1 DEF Normalized, Complete
<1> HIDE DEF y
<1>4. ASSUME NEW f \in Numbers, x[f] # Null
      PROVE  /\ y[f] # Null /\ y[f] \in JsonValues
             /\ y[f].kind = "number" /\ y[f].tenths % 10 = 0
             /\ IntOf(y[f]) = IntOf(x[f]) /\ IntOf(x[f]) \in Int
  <2>1. x[f] \in JsonValues
    BY <1>4 DEF Complete
  <2>2. y[f] = N(IntOf(x[f]))
    BY <1>3, <1>4
  <2> QED
    BY <2>1, <2>2, IntOfN, TimeAssumption
<1>5. Complete(y)
  BY <1>1, <1>3, <1>4 DEF Complete
<1>6. ASSUME NEW f \in Numbers, NEW low \in Int, AtLeast(x, f, low)
      PROVE  AtLeast(y, f, low)
  <2>1. x[f] # Null /\ IntOf(x[f]) >= low
    BY <1>6 DEF AtLeast
  <2> QED
    BY <1>4, <2>1 DEF AtLeast, Convertible
<1>7. {"duration", "ramp_up", "ramp_down", "graceful", "max_run", "limit"} = Numbers
  BY DEF Numbers
<1>8. AtLeast(y, "duration", 1) /\ IntOf(y["duration"]) = IntOf(x["duration"])
  <2>1. AtLeast(x, "duration", 1)
    BY DEF Valid
  <2> QED
    BY <1>4, <1>6, <1>7, <2>1 DEF AtLeast
<1>9. \A f \in {"ramp_up", "ramp_down", "graceful"} :
        AtLeast(y, f, 0) /\ IntOf(y[f]) = IntOf(x[f])
  <2>1. \A f \in {"ramp_up", "ramp_down", "graceful"} : AtLeast(x, f, 0)
    BY DEF Valid
  <2> QED
    BY <1>4, <1>6, <1>7, <2>1 DEF AtLeast
<1>10. y["limit"] = Null \/ AtLeast(y, "limit", 1)
  BY <1>3, <1>6, <1>7 DEF Valid
<1>11. "stop" \in Fields \ Numbers /\ "data" \in Fields \ Numbers
  BY DEF Numbers, Fields, Required, Optional
<1>12. Covered(y)
  <2>1. CASE x["max_run"] = Null
    BY <1>3, <1>7, <2>1 DEF Covered
  <2>2. CASE x["max_run"] # Null
    <3>1. AtLeast(x, "max_run", 1)
          /\ IntOf(x["max_run"]) >= IntOf(x["duration"]) + IntOf(x["graceful"])
      BY <2>2 DEF Valid, Covered
    <3>2. AtLeast(y, "max_run", 1) /\ IntOf(y["max_run"]) = IntOf(x["max_run"])
      BY <1>4, <1>6, <1>7, <2>2, <3>1
    <3> QED
      BY <1>8, <1>9, <3>1, <3>2 DEF Covered
  <2> QED
    BY <2>1, <2>2
<1>13. Valid(y)
  <2>1. IntOf(y["duration"]) <= MAX_DURATION_SECONDS
    BY <1>8 DEF Valid
  <2>2. y["stop"] \in {"graceful_stop", "hard_stop"}
        /\ y["data"] \in {"duration_first", "iteration_first"}
    BY <1>2, <1>11 DEF Valid
  <2> QED
    BY <1>8, <1>9, <1>10, <1>12, <2>1, <2>2 DEF Valid
<1> QED
  BY <1>4, <1>3, <1>5, <1>13 DEF y

\* The timeout of a valid execution with whole numbers covers its duration and
\* grace time.
LEMMA TimeoutCovers ==
  ASSUME NEW x, Complete(x), Valid(x)
  PROVE  /\ IntOf(x["duration"]) \in Int /\ IntOf(x["graceful"]) \in Int
         /\ Timeout(x) \in Int /\ Timeout(x) >= IntOf(x["duration"]) + IntOf(x["graceful"])
         /\ IntOf(x["ramp_up"]) \in Int /\ IntOf(x["ramp_down"]) \in Int
         /\ x["max_run"] = Null =>
              Timeout(x) >= IntOf(x["ramp_up"]) + IntOf(x["duration"])
                            + IntOf(x["ramp_down"]) + IntOf(x["graceful"])
<1>1. {"duration", "ramp_up", "ramp_down", "graceful", "max_run"} \subseteq Numbers \cap DOMAIN x
  BY DEF Complete, Numbers, Fields, Required, Optional
<1>2. \A f \in {"ramp_up", "ramp_down", "graceful"} : AtLeast(x, f, 0)
  BY DEF Valid
<1>3. AtLeast(x, "duration", 1)
  BY DEF Valid
<1>4. ASSUME NEW f \in Numbers, NEW low \in Int, AtLeast(x, f, low)
      PROVE  IntOf(x[f]) \in Int /\ IntOf(x[f]) >= low
  <2>1. x[f] \in JsonValues
    BY <1>4 DEF Complete, AtLeast
  <2> QED
    BY <1>4, <2>1, IntOfN DEF AtLeast
<1>5. ASSUME NEW f \in Numbers, f \in DOMAIN x, NEW low \in Int, AtLeast(x, f, low)
      PROVE  OptionalInt(x, f) = IntOf(x[f])
  BY <1>5 DEF OptionalInt, AtLeast
<1>6. \A f \in {"ramp_up", "ramp_down", "graceful"} :
        IntOf(x[f]) \in Int /\ IntOf(x[f]) >= 0 /\ OptionalInt(x, f) = IntOf(x[f])
  BY <1>1, <1>2, <1>4, <1>5
<1>7. IntOf(x["duration"]) \in Int /\ IntOf(x["duration"]) >= 1
      /\ OptionalInt(x, "duration") = IntOf(x["duration"])
  BY <1>1, <1>3, <1>4, <1>5
<1>8. CASE x["max_run"] = Null
  <2>1. OptionalInt(x, "max_run") = 0
    BY <1>8 DEF OptionalInt
  <2>2. Timeout(x) = IntOf(x["duration"]) + IntOf(x["ramp_up"])
                     + IntOf(x["ramp_down"]) + IntOf(x["graceful"]) + 5
    BY <1>6, <1>7, <2>1 DEF Timeout
  <2> QED
    BY <1>6, <1>7, <2>2
<1>9. CASE x["max_run"] # Null
  <2>1. AtLeast(x, "max_run", 1)
        /\ IntOf(x["max_run"]) >= IntOf(x["duration"]) + IntOf(x["graceful"])
    BY <1>9 DEF Valid, Covered
  <2>2. OptionalInt(x, "max_run") = IntOf(x["max_run"]) /\ IntOf(x["max_run"]) >= 1
        /\ IntOf(x["max_run"]) \in Int
    BY <1>1, <1>4, <1>5, <2>1
  <2> QED
    BY <1>6, <1>7, <1>9, <2>1, <2>2 DEF Timeout
<1> QED
  BY <1>6, <1>7, <1>8, <1>9

-----------------------------------------------------------------------------
\* No task is created yet: the invariant holds.
LEMMA PolicyInit == Init => PolicyInv
  BY TimeAssumption
  DEF Init, PolicyInv, Inputs, Stored, KilledAtTimeout, Accepted

\* Creation stores what its origin makes of the inputs; every later step leaves
\* the execution object alone.
LEMMA PolicyNext == PolicyInv /\ [Next]_vars => PolicyInv'
<1> SUFFICES ASSUME PolicyInv, [Next]_vars PROVE PolicyInv'
  OBVIOUS
<1> USE DEF PolicyInv, Inputs, Stored, KilledAtTimeout, Accepted, inputs
<1>1. CASE CreateTask
  <2>1. CASE Valid(Resolve(engine, template, request))
    BY <1>1, <2>1 DEF CreateTask
  <2>2. CASE ~ Valid(Resolve(engine, template, request))
    BY <1>1, <2>2 DEF CreateTask
  <2> QED
    BY <2>1, <2>2
<1>2. CASE CreateInAdmin
  BY <1>2 DEF CreateInAdmin
<1>3. CASE StartEngine
  BY <1>3 DEF StartEngine
<1>4. CASE Tick
  <2>1. clock' \in 0 .. MaxTime
    BY <1>4, TimeAssumption DEF Tick
  <2> QED
    BY <1>4, <2>1 DEF Tick
<1>5. CASE EngineExits
  BY <1>5 DEF EngineExits
<1>6. CASE EngineKilled
  BY <1>6 DEF EngineKilled
<1>7. CASE UNCHANGED vars
  BY <1>7 DEF vars
<1> QED
  BY <1>1, <1>2, <1>3, <1>4, <1>5, <1>6, <1>7 DEF Next

\* In every reachable state the execution of a created task is the resolved,
\* validated and normalized one, or what was typed in the admin, and a killed
\* engine was killed at its timeout.
THEOREM PolicyInvariant == Spec => []PolicyInv
  BY PolicyInit, PolicyNext, PTL DEF Spec

\* What the invariant says of a task of the API.
LEMMA ApiTask ==
  ASSUME PolicyInv, phase \in Accepted, origin # "admin"
  PROVE  LET x == Resolve(engine, template, request) IN
         /\ Complete(x) /\ Valid(x)
         /\ execution = Normalized(x)
         /\ Complete(execution) /\ Valid(execution)
<1>1. Complete(Resolve(engine, template, request))
  BY ResolveComplete DEF PolicyInv, Inputs
<1>2. Valid(Resolve(engine, template, request))
      /\ execution = Normalized(Resolve(engine, template, request))
  BY DEF PolicyInv, Stored
<1> QED
  BY <1>1, <1>2, NormalizedValid

\* Every reachable state is well typed: the API creates a task with a complete
\* and valid execution object of whole numbers, or not at all.
THEOREM PolicyTypeCorrect == Spec => []TypeOK
<1>1. PolicyInv => TypeOK
  <2> SUFFICES ASSUME PolicyInv PROVE TypeOK
    OBVIOUS
  <2>1. CASE phase \notin Accepted
    BY <2>1 DEF PolicyInv, Inputs, Stored, Accepted, TypeOK
  <2>2. CASE phase \in Accepted /\ origin = "admin"
    BY <2>2 DEF PolicyInv, Inputs, Stored, Accepted, TypeOK
  <2>3. CASE phase \in Accepted /\ origin # "admin"
    <3>1. DOMAIN execution = Fields /\ Valid(execution)
      BY <2>3, ApiTask DEF Complete
    <3>2. \A f \in Numbers : execution[f] # Null =>
            execution[f].kind = "number" /\ execution[f].tenths % 10 = 0
      BY <2>3, ApiTask, NormalizedValid
    <3> QED
      BY <2>3, <3>1, <3>2 DEF PolicyInv, Inputs, Accepted, TypeOK
  <2> QED
    BY <2>1, <2>2, <2>3
<1> QED
  BY <1>1, PolicyInvariant, PTL

\* A stored object follows what was said, when it is the normalization of an
\* object that agrees with what was said.
LEMMA NormalizedFollows ==
  ASSUME NEW x, Complete(x), NEW said, \A f \in DOMAIN said : x[f] = said[f]
  PROVE  Follows(Normalized(x), said)
<1> SUFFICES ASSUME NEW f \in DOMAIN said \cap DOMAIN Normalized(x)
             PROVE  IF f \in Numbers /\ said[f] # Null
                    THEN Normalized(x)[f] # Null /\ WholePart(Normalized(x)[f], said[f])
                    ELSE Normalized(x)[f] = said[f]
  BY DEF Follows
<1>1. x[f] = said[f] /\ f \in DOMAIN x
  BY DEF Normalized
<1>2. CASE f \in Numbers /\ said[f] # Null
  <2>1. x[f] \in JsonValues
    BY <1>1, <1>2 DEF Complete
  <2>2. Normalized(x)[f] = N(IntOf(x[f]))
    BY <1>1, <1>2 DEF Normalized
  <2> QED
    BY <1>1, <1>2, <2>1, <2>2, IntOfN, TimeAssumption
<1>3. CASE ~ (f \in Numbers /\ said[f] # Null)
  BY <1>1, <1>3 DEF Normalized
<1> QED
  BY <1>2, <1>3

\* resolve_execution: the request's fields win over the template's, and these
\* over the defaults, for any objects; int() takes no more than the fraction
\* off a number.
THEOREM RequestTakesPrecedence == Spec => []RequestWins
<1>1. PolicyInv => RequestWins
  <2> DEFINE mine == [f \in DOMAIN template \ DOMAIN request |-> template[f]]
             x == Resolve(engine, template, request)
  <2> SUFFICES ASSUME PolicyInv, phase \in Accepted, origin = "api"
               PROVE  Follows(execution, request) /\ Follows(execution, mine)
    BY DEF RequestWins, Accepted
  <2>1. Complete(x) /\ execution = Normalized(x)
    BY ApiTask
  <2>2. \A f \in DOMAIN request : x[f] = request[f]
    BY DEF Resolve, Update
  <2>3. \A f \in DOMAIN mine : x[f] = mine[f]
    BY DEF Resolve, Update
  <2> HIDE DEF x, mine
  <2> QED
    BY <2>1, <2>2, <2>3, NormalizedFollows
<1> QED
  BY <1>1, PolicyInvariant, PTL

\* Whatever execution object is accepted, an engine whose script takes its load
\* from it, when the agent kills it, has had its whole load and its whole grace
\* time, ramps being covered when max_run_seconds is null.
THEOREM NeverCutShort == Spec => []NotCutShort
<1>1. PolicyInv => NotCutShort
  <2> SUFFICES ASSUME PolicyInv, phase = "killed", origin = "api", own = Null,
                      \/ engine = "jmeter" \/ Executor(execution) = "constant-vus"
                      \/ Executor(execution) = "ramping-vus" /\ execution["max_run"] = Null
               PROVE  clock >= LoadEnd(engine, own, execution) + IntOf(execution["graceful"])
    BY DEF NotCutShort
  <2>1. Complete(execution) /\ Valid(execution)
    BY ApiTask DEF Accepted
  <2>2. clock >= Timeout(execution) /\ clock \in Int
    BY DEF PolicyInv, KilledAtTimeout, Inputs
  <2>3. CASE engine = "jmeter" \/ Executor(execution) = "constant-vus"
    <3>1. LoadEnd(engine, own, execution) = IntOf(execution["duration"])
      BY <2>3 DEF LoadEnd
    <3> QED
      BY <2>1, <2>2, <3>1, TimeoutCovers
  <2>4. CASE ~ (engine = "jmeter" \/ Executor(execution) = "constant-vus")
    <3>1. Executor(execution) = "ramping-vus" /\ execution["max_run"] = Null
      BY <2>4
    <3>2. LoadEnd(engine, own, execution)
            = IntOf(execution["ramp_up"]) + IntOf(execution["duration"])
              + IntOf(execution["ramp_down"])
      BY <2>4, <3>1 DEF LoadEnd
    <3> QED
      BY <2>1, <2>2, <3>1, <3>2, TimeoutCovers
  <2> QED
    BY <2>3, <2>4
<1> QED
  BY <1>1, PolicyInvariant, PTL
=============================================================================
