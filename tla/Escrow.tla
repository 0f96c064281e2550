------------------------------- MODULE Escrow -------------------------------
(***************************************************************************)
(* Layer 3: the escrow engine of core/layer3_escrow.py.                    *)
(*                                                                         *)
(* The engine keeps two dictionaries, bounties and reputations, and is     *)
(* called by clients and agents in any order.  Each public method is one   *)
(* action; a call that the method refuses (it returns False and writes     *)
(* nothing) is a stuttering step and has no action.                        *)
(*                                                                         *)
(* Amounts of money are only logged by the engine, so a payment is         *)
(* modelled by the settlement that stands for it: settled[b] counts how    *)
(* often settled_at of b has been written.                                 *)
(***************************************************************************)
EXTENDS Integers, Sequences, FiniteSetsExt

CONSTANTS Agents, Clients, BountyIds,
          Hashes,            \* SHA-256 digests of submitted outputs
          None,              \* Python's None
          ConsensusAgents,   \* EscrowConfig.consensus_agents
          PanelDecisions,    \* what a panel member may vote for
          MinReputation,     \* EscrowConfig.min_reputation, in 1/10000
          DecayNum, DecayDen,\* reputation_decay_factor = DecayNum/DecayDen
          MaxTasks           \* bound: tasks recorded per reputation

DisputeResolution == {"client_favor", "agent_favor", "split"}

ASSUME EscrowAssumption ==
  /\ None \notin Agents \cup Clients \cup Hashes
  /\ ConsensusAgents \in Nat
  /\ PanelDecisions \subseteq DisputeResolution
  /\ MinReputation \in 0..10000
  /\ DecayNum \in Nat /\ DecayDen \in Nat \ {0}
  /\ MaxTasks \in Nat

VARIABLES bounties,     \* bounty_id -> the fields of Bounty that change
          reputations,  \* agent_id -> Reputation, None being a key too
          known,        \* the keys present in the reputations dictionary
          settled       \* history: how often each bounty was settled

vars == <<bounties, reputations, known, settled>>

(***************************************************************************)
(* Data.  "absent" stands for an id that is not a key of the dictionary;   *)
(* the states no method ever assigns are not part of BountyState.          *)
(***************************************************************************)
BountyState == {"absent", "open", "claimed", "submitted", "disputed",
                "settled"}

Bounty == [state: BountyState, client: Clients \cup {None},
           claimed_by: Agents \cup {None}, snapshot: Hashes \cup {None}]

AgentKeys == Agents \cup {None}

\* Scores are kept in halves: 0, 1 and 2 are 0.0, 0.5 and 1.0.
HistoryEntry == [score: 0..2, verified: BOOLEAN, disputed: BOOLEAN]

Reputation == [history: Seq(HistoryEntry), total_tasks: Nat,
               completed_tasks: Nat, disputed_count: Nat]

NewReputation == [history |-> <<>>, total_tasks |-> 0,
                  completed_tasks |-> 0, disputed_count |-> 0]

(***************************************************************************)
(* calculate_rs, in units of 1/10000 as round(rs, 4) leaves it: the scores *)
(* weighted by decay^(n-i), numerator and total both scaled by             *)
(* DecayDen^(n-1).  A reputation without history has the score 0.5.        *)
(***************************************************************************)
\* Mutant: the oldest task gets the weight 1.0.
CalculateRsOldestFirst(history) ==
  LET n == Len(history)
      Decay[i \in 0..n] == IF i = 0 THEN 1 ELSE DecayNum * Decay[i - 1]
      Scored[i \in 0..n] ==
        IF i = 0 THEN 0
        ELSE DecayDen * Scored[i - 1] + Decay[i - 1] * history[i].score
      Total[i \in 0..n] ==
        IF i = 0 THEN 0 ELSE DecayDen * Total[i - 1] + Decay[i - 1]
  IN IF n = 0 THEN 5000
     ELSE (10000 * Scored[n] + Total[n]) \div (2 * Total[n])

CalculateRs(history) ==
  LET n == Len(history)
      Scale[i \in 0..n] == IF i = 0 THEN 1 ELSE DecayDen * Scale[i - 1]
      Scored[i \in 0..n] ==
        IF i = 0 THEN 0
        ELSE DecayNum * Scored[i - 1] + Scale[i - 1] * history[i].score
      Total[i \in 0..n] ==
        IF i = 0 THEN 0 ELSE DecayNum * Total[i - 1] + Scale[i - 1]
  IN IF n = 0 THEN 5000
     ELSE (10000 * Scored[n] + Total[n]) \div (2 * Total[n])

Eligible(a) == CalculateRs(reputations[a].history) >= MinReputation

\* Mutant: the counter is not kept in step with the history.
UpdatedForgetsTotal(rep, score, wasVerified, wasDisputed) ==
  [history |-> Append(rep.history, [score |-> score, verified |-> wasVerified,
                                    disputed |-> wasDisputed]),
   total_tasks |-> rep.total_tasks,
   completed_tasks |-> rep.completed_tasks,
   disputed_count |-> rep.disputed_count]

\* Reputation.update: a disputed task is never also a completed one.
Updated(rep, score, wasVerified, wasDisputed) ==
  [history |-> Append(rep.history, [score |-> score, verified |-> wasVerified,
                                    disputed |-> wasDisputed]),
   total_tasks |-> rep.total_tasks + 1,
   completed_tasks |-> rep.completed_tasks
                         + (IF ~wasDisputed /\ score = 2 THEN 1 ELSE 0),
   disputed_count |-> rep.disputed_count + (IF wasDisputed THEN 1 ELSE 0)]

(***************************************************************************)
(* _run_consensus: the decision with the most votes, and among equals the  *)
(* one that was voted for first (max keeps the first of the dictionary's   *)
(* insertion order).  With no votes max raises ValueError.                 *)
(***************************************************************************)
Tally(votes, d) == Cardinality({i \in DOMAIN votes : votes[i] = d})

RunConsensus(votes) ==
  LET winning == {i \in DOMAIN votes : \A j \in DOMAIN votes :
                     Tally(votes, votes[i]) >= Tally(votes, votes[j])}
  IN IF votes = <<>> THEN "raises"
     ELSE votes[CHOOSE i \in winning : \A j \in winning : i <= j]

-----------------------------------------------------------------------------
Init ==
  /\ bounties = [b \in BountyIds |-> [state |-> "absent", client |-> None,
                                      claimed_by |-> None, snapshot |-> None]]
  /\ reputations = [a \in AgentKeys |-> NewReputation]
  /\ known = {}
  /\ settled = [b \in BountyIds |-> 0]

\* create_bounty: the uuid is one no bounty has yet.
CreateBounty(b, c) ==
  /\ bounties[b].state = "absent"
  /\ bounties' = [bounties EXCEPT ![b] =
                    [state |-> "open", client |-> c,
                     claimed_by |-> None, snapshot |-> None]]
  /\ UNCHANGED <<reputations, known, settled>>

\* Mutant: the OPEN check is missing.
ClaimBountyAnyState(b, a) ==
  /\ bounties[b].state # "absent"
  /\ known' = known \cup {a}
  /\ bounties' = IF Eligible(a)
                 THEN [bounties EXCEPT ![b].state = "claimed",
                                       ![b].claimed_by = a]
                 ELSE bounties
  /\ UNCHANGED <<reputations, settled>>

\* Mutant: the reputation threshold is missing.
ClaimBountyNoThreshold(b, a) ==
  /\ bounties[b].state = "open"
  /\ known' = known \cup {a}
  /\ bounties' = [bounties EXCEPT ![b].state = "claimed",
                                  ![b].claimed_by = a]
  /\ UNCHANGED <<reputations, settled>>

\* claim_bounty: the reputation entry is created even when the claim is
\* refused for being below the threshold.
ClaimBounty(b, a) ==
  /\ bounties[b].state = "open"
  /\ known' = known \cup {a}
  /\ bounties' = IF Eligible(a)
                 THEN [bounties EXCEPT ![b].state = "claimed",
                                       ![b].claimed_by = a]
                 ELSE bounties
  /\ UNCHANGED <<reputations, settled>>

\* Mutant: anybody may submit.
SubmitWorkAnybody(b, a, h) ==
  /\ bounties[b].state # "absent"
  /\ bounties' = [bounties EXCEPT ![b].state = "submitted",
                                  ![b].snapshot = h]
  /\ UNCHANGED <<reputations, known, settled>>

\* submit_work: the only check is that the caller claimed the bounty.
SubmitWork(b, a, h) ==
  /\ bounties[b].claimed_by = a
  /\ bounties' = [bounties EXCEPT ![b].state = "submitted",
                                  ![b].snapshot = h]
  /\ UNCHANGED <<reputations, known, settled>>

\* Settling b: settled_at is written and the claimant's reputation updated.
Settle(b, score, wasVerified, wasDisputed) ==
  LET a == bounties[b].claimed_by IN
  /\ Len(reputations[a].history) < MaxTasks
  /\ bounties' = [bounties EXCEPT ![b].state = "settled"]
  /\ settled' = [settled EXCEPT ![b] = @ + 1]
  /\ known' = known \cup {a}
  /\ reputations' = [reputations EXCEPT ![a] =
                       Updated(@, score, wasVerified, wasDisputed)]

\* approve_bounty.
ApproveBounty(b, c) ==
  /\ bounties[b].state = "submitted"
  /\ bounties[b].client = c
  /\ Settle(b, 2, TRUE, FALSE)

\* dispute_bounty: no check of the state.  An exception in the consensus
\* leaves the bounty in DISPUTED.
DisputeBounty(b, c, votes) ==
  /\ bounties[b].state # "absent"
  /\ bounties[b].client = c
  /\ LET resolution == RunConsensus(votes) IN
     CASE resolution = "agent_favor"  -> Settle(b, 2, TRUE, FALSE)
       [] resolution = "client_favor" -> Settle(b, 0, FALSE, TRUE)
       [] resolution = "split"        -> Settle(b, 1, FALSE, FALSE)
       [] OTHER ->
            /\ bounties' = [bounties EXCEPT ![b].state = "disputed"]
            /\ UNCHANGED <<reputations, known, settled>>

\* get_agent_reputation, the query that creates what it does not find.
GetAgentReputation(a) ==
  /\ known' = known \cup {a}
  /\ UNCHANGED <<bounties, reputations, settled>>

Votes == [1..ConsensusAgents -> PanelDecisions]

Next ==
  \/ \E b \in BountyIds, c \in Clients : CreateBounty(b, c)
  \/ \E b \in BountyIds, a \in Agents : ClaimBounty(b, a)
  \/ \E b \in BountyIds, a \in Agents, h \in Hashes : SubmitWork(b, a, h)
  \/ \E b \in BountyIds, c \in Clients : ApproveBounty(b, c)
  \/ \E b \in BountyIds, c \in Clients, v \in Votes : DisputeBounty(b, c, v)
  \/ \E a \in Agents : GetAgentReputation(a)

Spec == Init /\ [][Next]_vars
-----------------------------------------------------------------------------
(***************************************************************************)
(* Properties.                                                             *)
(***************************************************************************)

\* Every variable holds values of the types the engine's dataclasses declare.
TypeOK ==
  /\ bounties \in [BountyIds -> Bounty]
  /\ reputations \in [AgentKeys -> Reputation]
  /\ known \subseteq AgentKeys
  /\ settled \in [BountyIds -> Nat]

\* A bounty's state agrees with its other fields whatever the order of the
\* calls: it is only under review with a claimant and a snapshot of the
\* output, a claimed one has a claimant and has never been settled, and an
\* open one carries no trace of work (claim_bounty, submit_work,
\* approve_bounty and dispute_bounty each write only some of these fields).
LifecycleInv ==
  \A b \in BountyIds : LET r == bounties[b] IN
    /\ r.state = "submitted" => r.claimed_by # None /\ r.snapshot # None
    /\ r.snapshot # None => r.claimed_by # None
    /\ r.state = "claimed" =>
         r.claimed_by # None /\ r.snapshot = None /\ settled[b] = 0
    /\ r.state \in {"absent", "open"} =>
         r.claimed_by = None /\ r.snapshot = None /\ settled[b] = 0
    /\ r.state = "settled" => settled[b] > 0
    /\ r.state = "absent" <=> r.client = None

\* dispute_bounty never leaves a dispute pending: a bounty rests in DISPUTED
\* only when the engine is configured without panel members and the tally
\* has raised.
DisputesAreDecided ==
  \A b \in BountyIds : bounties[b].state = "disputed" => ConsensusAgents = 0

\* Every settlement of a bounty shows up as one task of the agent that holds
\* it, and there are no other tasks: claim_bounty fixes the holder before
\* the first settlement and nothing moves a bounty to another agent later.
CreditsMatchSettlements ==
  \A a \in AgentKeys :
    reputations[a].total_tasks =
      MapThenSumSet(LAMBDA b : settled[b],
                    {b \in BountyIds : bounties[b].claimed_by = a})

\* The counters of a reputation agree with its history, and no task is
\* counted both as completed and as disputed (Reputation.update).
ReputationInv ==
  \A a \in AgentKeys : LET r == reputations[a] IN
    /\ r.total_tasks = Len(r.history)
    /\ r.completed_tasks + r.disputed_count <= r.total_tasks

\* No reputation without a bounty of one's own: an agent with a recorded
\* task holds a bounty that has been settled, and so is in the dictionary.
CreditBacked ==
  \A a \in AgentKeys :
    reputations[a].history # <<>> =>
      /\ a \in known
      /\ \E b \in BountyIds : bounties[b].claimed_by = a /\ settled[b] > 0

\* Once claimed, a bounty keeps its claimant, and once posted its client: no
\* later call of claim_bounty, submit_work, approve_bounty or
\* dispute_bounty reassigns it.
ClaimIsPermanent ==
  [][\A b \in BountyIds :
       /\ bounties[b].claimed_by # None =>
            bounties'[b].claimed_by = bounties[b].claimed_by
       /\ bounties[b].client # None =>
            bounties'[b].client = bounties[b].client]_vars

\* An agent whose score is below min_reputation gets no further bounty from
\* any call, and becomes eligible again only by the settlement, late or
\* repeated, of a bounty that it claimed before its score fell.
RecoveryNeedsOwnBounty ==
  [][\A a \in Agents : ~Eligible(a) =>
       /\ \A b \in BountyIds :
            bounties'[b].claimed_by = a => bounties[b].claimed_by = a
       /\ Eligible(a)' =>
            \E b \in BountyIds : /\ bounties[b].claimed_by = a
                                 /\ settled'[b] > settled[b]]_vars

Swap(h, i, j) == [h EXCEPT ![i] = h[j], ![j] = h[i]]

\* "More recent tasks have higher weight" (calculate_rs): exchanging the
\* newest task with an older, worse one never raises the score, and the
\* score stays within 0.0 and 1.0.
RecentTasksWeighMore ==
  \A a \in AgentKeys : LET h == reputations[a].history IN
    /\ CalculateRs(h) \in 0..10000
    /\ \A i \in DOMAIN h :
         h[i].score <= h[Len(h)].score =>
           CalculateRs(Swap(h, i, Len(h))) <= CalculateRs(h)

(***************************************************************************)
(* The engine implements the ledger of credits.                            *)
(***************************************************************************)
Ledger == INSTANCE BountyLedger WITH
            Ids <- BountyIds, Workers <- Agents,
            worker <- [b \in BountyIds |-> bounties[b].claimed_by],
            closed <- {b \in BountyIds : settled[b] > 0},
            credits <- [a \in AgentKeys |-> reputations[a].total_tasks]

\* Seen through claimed_by, settled_at and total_tasks, the engine only ever
\* assigns a worker to a bounty that has none and was never settled, and
\* credits one task at a time to the worker of the bounty it settles.
ImplementsLedger == Ledger!Spec

(***************************************************************************)
(* What the comments of the engine say and the code does not do.           *)
(***************************************************************************)

\* The flow in the docstring of EscrowEngine ends in SETTLED: a settled
\* bounty is never taken up, and settled, again.
SettledIsFinal ==
  [][\A b \in BountyIds : bounties[b].state = "settled" =>
                             bounties'[b].state = "settled"]_vars

\* claim_bounty: "Agent is not already working on another active bounty".
OneActiveBountyPerAgent ==
  \A a \in Agents :
    Cardinality({b \in BountyIds : /\ bounties[b].claimed_by = a
                                   /\ bounties[b].state = "claimed"}) <= 1

\* README: "funds held until deliverable is verified".  A bounty is settled
\* only when a snapshot of its output exists.  approve_bounty ensures it;
\* dispute_bounty does not look at the state, so this holds only for an
\* engine whose disputes cannot settle anything.
PaidOnlyForDeliverable ==
  \A b \in BountyIds : settled[b] > 0 => bounties[b].snapshot # None
=============================================================================
