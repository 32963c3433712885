--------------------------- MODULE WorkerRegistry ---------------------------
(***************************************************************************)
(* The control plane's rows about workers (apps/workers): registration,    *)
(* heartbeat and the sweep of stale workers.  Time is abstracted to the    *)
(* order of the workers' last heartbeats and to whether 30 s have passed   *)
(* since.                                                                  *)
(***************************************************************************)
EXTENDS PlatformState

Registered == {w \in Workers : row[w].status # "unregistered"}

\* The last heartbeat of w is now the most recent one.
HeardFrom(w) ==
  older' = {p \in older : p[1] # w} \cup ((Registered \ {w}) \X {w})

\* POST /api/workers/ of a starting agent: the row of its name is created or
\* reset.  The agent repeats the call until it gets the answer.
Register(w) ==
  /\ agent[w] = "starting"
  /\ row' = [row EXCEPT ![w] = [status |-> "online", count |-> 0, fresh |-> TRUE]]
  /\ HeardFrom(w)
  /\ \/ agent' = [agent EXCEPT ![w] = "up"] /\ NoFault
     \/ UNCHANGED agent /\ Fault("callback")
  /\ UNCHANGED <<taskVars, dispatchVars, active, beat, run, callVars>>

\* Mutation: a heartbeat does not lift a worker out of OFFLINE.
ApplyHeartbeatKeepsOffline(w) ==
  /\ beat[w] # NoBeat
  /\ row' = [row EXCEPT ![w] = [status |-> IF @.status = "offline" THEN "offline"
                                           ELSE IF beat[w] > 0 THEN "busy" ELSE "online",
                                count |-> beat[w], fresh |-> TRUE]]
  /\ HeardFrom(w)
  /\ beat' = [beat EXCEPT ![w] = NoBeat]
  /\ UNCHANGED <<taskVars, dispatchVars, agent, active, run, callVars, faults>>

\* POST /api/workers/<id>/heartbeat/: the row becomes what the payload says.
ApplyHeartbeat(w) ==
  /\ beat[w] # NoBeat
  /\ row' = [row EXCEPT ![w] = [status |-> IF beat[w] > 0 THEN "busy" ELSE "online",
                                count |-> beat[w], fresh |-> TRUE]]
  /\ HeardFrom(w)
  /\ beat' = [beat EXCEPT ![w] = NoBeat]
  /\ UNCHANGED <<taskVars, dispatchVars, agent, active, run, callVars, faults>>

\* 30 s pass without a heartbeat of w: it is down, or the heartbeats of an
\* agent that is up are held back that long.
FallSilent(w) ==
  /\ row[w].fresh
  /\ \/ agent[w] # "up" /\ NoFault
     \/ agent[w] = "up" /\ Fault("silence")
  /\ row' = [row EXCEPT ![w].fresh = FALSE]
  /\ UNCHANGED <<taskVars, older, dispatchVars, agentVars, callVars>>

\* Mutation: only workers that reported executions are swept.
StaleBusy == {w \in Registered : row[w].status = "busy" /\ ~ row[w].fresh}

\* mark_stale_workers: one UPDATE over the stale rows, of the status only.
Stale == {w \in Registered : row[w].status # "offline" /\ ~ row[w].fresh}

MarkStale ==
  /\ Stale # {}
  /\ row' = [w \in Workers |-> IF w \in Stale THEN [row[w] EXCEPT !.status = "offline"]
                                              ELSE row[w]]
  /\ UNCHANGED <<taskVars, older, dispatchVars, agentVars, callVars, faults>>
=============================================================================
