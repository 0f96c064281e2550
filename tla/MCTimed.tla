------------------------------ MODULE MCTimed ------------------------------
(***************************************************************************)
(* Instances of the two components that go by the wall clock for TLC.      *)
(* They share nothing: a behaviour is one of the heartbeats or one of the  *)
(* workspaces.                                                             *)
(***************************************************************************)
EXTENDS Workspace, Heartbeat

VARIABLE component  \* which of the two

TimedInit == component \in {"heartbeats", "workspaces"} /\ Init /\ HeartbeatInit

TimedNext ==
  \/ component = "workspaces" /\ Next /\ UNCHANGED <<component, heartbeat>>
  \/ component = "heartbeats" /\ HeartbeatNext /\ UNCHANGED <<component, vars>>

TimedSpec ==
  /\ TimedInit /\ [][TimedNext]_<<component, vars, heartbeat>>
  /\ Fairness /\ HeartbeatFairness
=============================================================================
