------------------------- MODULE MCExecutionPolicy -------------------------
EXTENDS ExecutionPolicy, TLC
\* What a template or a request may say: nothing, one field, or the fields of
\* a profile together.
Text(n) == [kind |-> "text", tenths |-> n]
Fraction(n) == [kind |-> "number", tenths |-> n]
True == [kind |-> "boolean", tenths |-> 10]
OneField ==
  {f :> v : f \in {"duration", "graceful"},
            v \in {Null, N(0), N(3), Fraction(39), Fraction(-5), Text(30), Text(39), True}}
  \cup {f :> N(2) : f \in {"ramp_up", "ramp_down", "limit"}}
  \cup {"max_run" :> v : v \in {Null, N(0), N(12), N(13), N(33)}}
  \cup {"data" :> "iteration_first", "stop" :> "drain_inflight"}
Profiles ==
  {[duration |-> N(3), graceful |-> N(g), max_run |-> m] : g \in {0, 3}, m \in {N(5), N(6), Null}}
  \cup {[duration |-> N(MAX_DURATION_SECONDS + 1), max_run |-> Null],
        [duration |-> Fraction(39), graceful |-> Fraction(29), max_run |-> Text(50)],
        [limit |-> N(4), data |-> "iteration_first"],
        [ramp_up |-> N(4), ramp_down |-> N(2), max_run |-> Null]}
AllOverrides == {NoExecution} \cup OneField \cup Profiles

\* A fixed number of iterations, crud_flow's 20 s, stress_cpu's 100 s.
SomeLoads == {0, 20, 100}
=============================================================================
