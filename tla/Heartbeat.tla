----------------------------- MODULE Heartbeat -----------------------------
(***************************************************************************)
(* Layer 2, core/layer2_orchestrator.py: one OrchestrationEngine that      *)
(* sends heartbeats for its agents, one request after the other, and       *)
(* judges their health from the time of the last acknowledged one.  The    *)
(* ClawMolt server may answer anything, late or not at all.  The clock is  *)
(* the wall clock, which may be put forward and set back.                  *)
(***************************************************************************)
EXTENDS Integers, Sequences

CONSTANTS Agents,
          Nobody,      \* no agent
          Never,       \* no time, no status
          Interval,    \* heartbeat_interval
          Threshold,   \* offline_threshold
          MaxBatch,    \* bound: agents in a batch
          MaxClock     \* bound: the clock

ASSUME HeartbeatAssumption ==
  /\ Nobody \notin Agents
  /\ Never \notin Nat /\ Never \notin {"LIVE", "STALE", "OFFLINE", "ERROR"}
  /\ Interval \in Nat \ {0} /\ Threshold \in Nat
  /\ MaxBatch \in Nat /\ MaxClock \in Nat

VARIABLES last,      \* _last_heartbeat: a time, or Never
          clock,     \* time.time()
          batch,     \* the agents of the last batch_heartbeat
          results,   \* the results of it so far
          current,   \* the agent of the request under way, or Nobody
          phase,     \* is a batch under way, or how did the last one end
          reported   \* history: the status last returned for each agent

heartbeat == <<last, clock, batch, results, current, phase, reported>>

HeartbeatStatus == {"LIVE", "STALE", "OFFLINE", "ERROR"}

HeartbeatResult == [agent: Agents, status: HeartbeatStatus]

\* Answers of the server that decode: an acknowledgement with a status that
\* is alive or with another one, and the error responses.
Acknowledged == {"alive", "other"}
Errors == {"401", "404", "5xx"}

HeartbeatInit ==
  /\ last = [a \in Agents |-> Never]
  /\ clock = 0
  /\ batch = <<>>
  /\ results = <<>>
  /\ current = Nobody
  /\ phase = "idle"
  /\ reported = [a \in Agents |-> Never]

\* How send_heartbeat maps an answer, or the lack of one.
StatusOf(answer) ==
  CASE answer = "alive" -> "LIVE"
    [] answer = "other" -> "STALE"
    [] answer = "404" -> "OFFLINE"
    [] OTHER -> "ERROR"

BatchHeartbeat(agents) ==
  /\ phase # "batch"
  /\ batch' = agents
  /\ results' = <<>>
  /\ phase' = "batch"
  /\ UNCHANGED <<last, clock, current, reported>>

SendHeartbeat ==
  /\ phase = "batch" /\ current = Nobody
  /\ Len(results) < Len(batch)
  /\ current' = batch[Len(results) + 1]
  /\ UNCHANGED <<last, clock, batch, results, phase, reported>>

\* send_heartbeat returns.
Ends(status) ==
  /\ results' = Append(results, [agent |-> current, status |-> status])
  /\ reported' = [reported EXCEPT ![current] = status]
  /\ current' = Nobody
  /\ UNCHANGED <<clock, batch, phase>>

\* Mutant: every answer counts as a heartbeat.
AnsweredAlways(answer) ==
  /\ current # Nobody
  /\ last' = [last EXCEPT ![current] = clock]
  /\ Ends(StatusOf(answer))

\* Only an acknowledgement is recorded, at the time it arrives.
Answered(answer) ==
  /\ current # Nobody
  /\ last' = IF answer \in Acknowledged THEN [last EXCEPT ![current] = clock]
             ELSE last
  /\ Ends(StatusOf(answer))

\* Mutant: urlopen is called without a timeout.
UnansweredNever == FALSE /\ UNCHANGED heartbeat

\* No connection, or the request times out.
Unanswered ==
  /\ current # Nobody
  /\ Ends("ERROR")
  /\ UNCHANGED last

\* A body that is not text, or an acknowledgement that is not JSON, raises
\* through send_heartbeat and ends the batch.
Raised ==
  /\ current # Nobody
  /\ current' = Nobody
  /\ phase' = "raised"
  /\ UNCHANGED <<last, clock, batch, results, reported>>

BatchReturns ==
  /\ phase = "batch" /\ current = Nobody
  /\ Len(results) = Len(batch)
  /\ phase' = "idle"
  /\ UNCHANGED <<last, clock, batch, results, current, reported>>

\* time.time() shows another time: later as time passes, any other when the
\* clock is set.
HeartbeatTick ==
  /\ \E time \in 0..MaxClock : time # clock /\ clock' = time
  /\ UNCHANGED <<last, batch, results, current, phase, reported>>

\* check_agent_health
CheckAgentHealth(a) ==
  IF last[a] = Never THEN "OFFLINE"
  ELSE IF clock - last[a] < 2 * Interval THEN "LIVE"
  ELSE IF clock - last[a] < Threshold THEN "STALE"
  ELSE "OFFLINE"

HeartbeatNext ==
  \/ \E n \in 0..MaxBatch : \E agents \in [1..n -> Agents] : BatchHeartbeat(agents)
  \/ SendHeartbeat
  \/ \E answer \in Acknowledged \cup Errors : Answered(answer)
  \/ Unanswered
  \/ Raised
  \/ BatchReturns
  \/ HeartbeatTick

\* The caller keeps running, and a request that is not answered times out.
\* (The timeout of urlopen bounds each wait for data: a server that sends its
\* response byte by byte without end is outside of this assumption.)
HeartbeatFairness ==
  /\ WF_heartbeat(SendHeartbeat) /\ WF_heartbeat(BatchReturns) /\ WF_heartbeat(Unanswered)

HeartbeatSpec == HeartbeatInit /\ [][HeartbeatNext]_heartbeat /\ HeartbeatFairness
-----------------------------------------------------------------------------
(***************************************************************************)
(* Properties.                                                             *)
(***************************************************************************)

\* Every variable has its type.
HeartbeatTypeOK ==
  /\ last \in [Agents -> Nat \cup {Never}]
  /\ clock \in Nat
  /\ batch \in Seq(Agents)
  /\ results \in Seq(HeartbeatResult)
  /\ current \in Agents \cup {Nobody}
  /\ phase \in {"idle", "batch", "raised"}
  /\ reported \in [Agents -> HeartbeatStatus \cup {Never}]

Health == <<"OFFLINE", "STALE", "LIVE">>
Rank(status) == CHOOSE i \in 1..3 : Health[i] = status

\* The request under way for an agent is acknowledged.
Acknowledges(a) ==
  current = a /\ results' # results /\ reported'[a] \in {"LIVE", "STALE"}

\* While nothing is acknowledged, the health of an agent only gets worse, as
\* long as the clock is not set back: no passing of time, and no refused or
\* lost heartbeat, makes it live again.  Where the clock was set back before,
\* heartbeats of the future included, it only gets worse from there on.
HealthOnlyFades ==
  [][ \A a \in Agents :
        clock' >= clock /\ ~Acknowledges(a)
          => Rank(CheckAgentHealth(a)') <= Rank(CheckAgentHealth(a)) ]_heartbeat

\* "tracks agent status, and detects offline agents": an agent found offline
\* stays so until it is heard of again.
OfflineUntilHeard ==
  [][ \A a \in Agents :
        CheckAgentHealth(a) = "OFFLINE" /\ ~Acknowledges(a)
          => CheckAgentHealth(a)' = "OFFLINE" ]_heartbeat

\* batch_heartbeat ends, whatever the server answers and also if it does not.
BatchEnds == phase = "batch" ~> phase # "batch"

\* "Returns list of HeartbeatResult in same order" for every agent of the
\* batch, whatever the server answered.
BatchAnswersAll == phase # "batch" => Len(results) = Len(batch)

\* "Returns OFFLINE if no heartbeat recorded or beyond threshold."
OfflineBeyondThreshold ==
  \A a \in Agents :
    last[a] # Never /\ clock - last[a] > Threshold => CheckAgentHealth(a) = "OFFLINE"

\* "tracks agent status, and detects offline agents": an agent the server
\* does not know, as its last heartbeat was told, is not live.
UnknownAgentNotLive ==
  \A a \in Agents :
    reported[a] = "OFFLINE" => CheckAgentHealth(a) # "LIVE"
=============================================================================
