---------------------------- MODULE TaskOutcome ----------------------------
(***************************************************************************)
(* What the control loop promises of a task: it is decided at most once,   *)
(* for good, and only after some worker has taken it.  How often it is     *)
(* taken, by whom, and what its status row says meanwhile is left open.    *)
(***************************************************************************)
CONSTANTS
  Tasks,     \* the tasks
  Verdicts,  \* what a task can be decided to be
  Undecided  \* the verdict of a task that is not decided, no verdict

VARIABLES phase, verdict

vars == <<phase, verdict>>

Init ==
  /\ phase = [t \in Tasks |-> "absent"]
  /\ verdict = [t \in Tasks |-> Undecided]

Create(t) ==
  /\ phase[t] = "absent"
  /\ phase' = [phase EXCEPT ![t] = "waiting"]
  /\ UNCHANGED verdict

Deliver(t) ==
  /\ phase[t] = "waiting"
  /\ phase' = [phase EXCEPT ![t] = "delivered"]
  /\ UNCHANGED verdict

Decide(t, v) ==
  /\ phase[t] = "delivered" /\ verdict[t] = Undecided
  /\ verdict' = [verdict EXCEPT ![t] = v]
  /\ UNCHANGED phase

Next ==
  \E t \in Tasks : Create(t) \/ Deliver(t) \/ \E v \in Verdicts : Decide(t, v)

Spec == Init /\ [][Next]_vars
=============================================================================
