---------------------------- MODULE EscrowProofs ----------------------------
(***************************************************************************)
(* Proofs about the escrow engine, for any number of agents, clients and   *)
(* bounties, any panel and any decay factor.                               *)
(***************************************************************************)
EXTENDS Escrow, WellFoundedInduction, FiniteSetTheorems, TLAPS

(***************************************************************************)
(* The consensus.                                                          *)
(***************************************************************************)

\* A tally is a number between 0 and the size of the panel.
LEMMA TallyBound ==
  ASSUME NEW n \in Nat, NEW S, NEW votes \in [1..n -> S], NEW d
  PROVE  Tally(votes, d) \in 0..n
<1> DEFINE V == {i \in 1..n : votes[i] = d}
<1>1. IsFiniteSet(1..n) /\ Cardinality(1..n) = n
  BY FS_Interval, n = 0 \/ n > 0
<1>2. IsFiniteSet(V) /\ Cardinality(V) <= Cardinality(1..n)
  BY <1>1, FS_Subset
<1>3. Cardinality(V) \in Nat
  BY <1>2, FS_CardinalityType
<1>4. Tally(votes, d) = Cardinality(V)
  BY DEF Tally
<1> QED BY <1>1, <1>2, <1>3, <1>4

\* A nonempty set of naturals has a least element.
LEMMA LeastNatural ==
  ASSUME NEW T, T \subseteq Nat, T # {}
  PROVE  \E x \in T : \A y \in T : x <= y
<1>1. PICK x \in T : \A y \in T : ~ (<<y, x>> \in OpToRel(<, Nat))
  BY NatLessThanWellFounded, WFMin
<1>2. \A y \in T : ~ (y < x)
  BY <1>1 DEF OpToRel
<1> QED BY <1>2

\* _run_consensus: a panel with members always reaches one of the decisions
\* its members voted for (max over the tallies is never empty).
LEMMA ConsensusDecides ==
  ASSUME NEW n \in Nat \ {0}, NEW S, NEW votes \in [1..n -> S]
  PROVE  RunConsensus(votes) \in S
<1> DEFINE T(i) == Tally(votes, votes[i])
           winning == {i \in 1..n : \A j \in 1..n : T(i) >= T(j)}
           Lacking == {n - T(i) : i \in 1..n}
<1>1. \A i \in 1..n : T(i) \in 0..n
  BY TallyBound
<1>2. Lacking \subseteq Nat /\ Lacking # {}
  <2>1. Lacking \subseteq Nat
    BY <1>1
  <2>2. n - T(1) \in Lacking
    OBVIOUS
  <2> QED BY <2>1, <2>2
<1>3. PICK m \in Lacking : \A y \in Lacking : m <= y
  BY <1>2, LeastNatural
<1>4. PICK i \in 1..n : m = n - T(i)
  BY <1>3
<1>5. i \in winning
  <2> SUFFICES ASSUME NEW j \in 1..n PROVE T(i) >= T(j)
    OBVIOUS
  <2>1. n - T(i) <= n - T(j)
    BY <1>3, <1>4
  <2> HIDE DEF T
  <2> QED BY <2>1, <1>1
<1>6. winning \subseteq Nat /\ winning # {}
  BY <1>5
<1>7. \E k \in winning : \A j \in winning : k <= j
  <2> HIDE DEF winning
  <2> QED BY <1>6, LeastNatural
<1> DEFINE first == CHOOSE k \in winning : \A j \in winning : k <= j
<1>8. first \in winning
  <2> HIDE DEF winning
  <2> QED BY <1>7
<1>9. votes # <<>> /\ DOMAIN votes = 1..n
  OBVIOUS
<1>10. RunConsensus(votes) = votes[first]
  BY <1>9 DEF RunConsensus
<1>11. first \in 1..n
  BY <1>8
<1> HIDE DEF first
<1> QED BY <1>10, <1>11
-----------------------------------------------------------------------------
(***************************************************************************)
(* Types.                                                                  *)
(***************************************************************************)

\* Reputation.update keeps the type of a reputation.
LEMMA UpdatedType ==
  ASSUME NEW rep \in Reputation, NEW score \in 0..2,
         NEW wasVerified \in BOOLEAN, NEW wasDisputed \in BOOLEAN
  PROVE  Updated(rep, score, wasVerified, wasDisputed) \in Reputation
<1> DEFINE e == [score |-> score, verified |-> wasVerified,
                 disputed |-> wasDisputed]
<1>1. e \in HistoryEntry
  BY DEF HistoryEntry
<1>2. Append(rep.history, e) \in Seq(HistoryEntry)
  BY <1>1 DEF Reputation
<1> QED BY <1>2 DEF Reputation, Updated

\* The step every settlement shares: approve_bounty and the three outcomes of
\* dispute_bounty all end in it.
LEMMA SettleType ==
  ASSUME TypeOK, NEW b \in BountyIds, NEW score \in 0..2,
         NEW wasVerified \in BOOLEAN, NEW wasDisputed \in BOOLEAN,
         Settle(b, score, wasVerified, wasDisputed)
  PROVE  TypeOK'
<1> DEFINE a == bounties[b].claimed_by
<1>1. bounties[b] \in Bounty /\ a \in AgentKeys
  BY DEF TypeOK, Bounty, AgentKeys
<1>2. Updated(reputations[a], score, wasVerified, wasDisputed) \in Reputation
  BY <1>1, UpdatedType DEF TypeOK
<1>3. bounties' \in [BountyIds -> Bounty]
  BY <1>1 DEF TypeOK, Settle, Bounty, BountyState
<1>4. reputations' \in [AgentKeys -> Reputation]
  BY <1>1, <1>2 DEF TypeOK, Settle
<1>5. known' \subseteq AgentKeys /\ settled' \in [BountyIds -> Nat]
  BY <1>1 DEF TypeOK, Settle
<1> QED BY <1>3, <1>4, <1>5 DEF TypeOK

\* dispute_bounty settles with one of three scores or, only for an engine
\* without panel members, leaves the bounty disputed.
LEMMA DisputeCases ==
  ASSUME NEW b \in BountyIds, NEW c, NEW votes \in Votes,
         DisputeBounty(b, c, votes)
  PROVE  \/ Settle(b, 2, TRUE, FALSE)
         \/ Settle(b, 0, FALSE, TRUE)
         \/ Settle(b, 1, FALSE, FALSE)
         \/ /\ ConsensusAgents = 0
            /\ bounties' = [bounties EXCEPT ![b].state = "disputed"]
            /\ UNCHANGED <<reputations, known, settled>>
<1> DEFINE r == RunConsensus(votes)
<1>1. ConsensusAgents # 0 => r \in DisputeResolution
  BY ConsensusDecides, EscrowAssumption DEF Votes
<1> HIDE DEF r
<1>2. CASE r \in DisputeResolution
  BY <1>2 DEF DisputeResolution, DisputeBounty, r
<1>3. CASE r \notin DisputeResolution
  <2>1. ConsensusAgents = 0
    BY <1>1, <1>3
  <2>2. /\ bounties' = [bounties EXCEPT ![b].state = "disputed"]
        /\ UNCHANGED <<reputations, known, settled>>
    BY <1>3 DEF DisputeResolution, DisputeBounty, r
  <2> QED BY <2>1, <2>2
<1> QED BY <1>2, <1>3

\* No call takes a variable of the engine out of its type.
LEMMA TypeStep == TypeOK /\ [Next]_vars => TypeOK'
<1> SUFFICES ASSUME TypeOK, [Next]_vars PROVE TypeOK'
  OBVIOUS
<1>a. /\ 0 \in 0..2 /\ 1 \in 0..2 /\ 2 \in 0..2
      /\ TRUE \in BOOLEAN /\ FALSE \in BOOLEAN
  OBVIOUS
<1>1. ASSUME NEW b \in BountyIds, NEW c \in Clients, CreateBounty(b, c)
      PROVE  TypeOK'
  BY <1>1 DEF CreateBounty, TypeOK, Bounty, BountyState
<1>2. ASSUME NEW b \in BountyIds, NEW a \in Agents, ClaimBounty(b, a)
      PROVE  TypeOK'
  <2> DEFINE r == [bounties[b] EXCEPT !.state = "claimed", !.claimed_by = a]
  <2>1. bounties[b] \in Bounty
    BY DEF TypeOK
  <2>2. r \in Bounty
    BY <2>1 DEF Bounty, BountyState
  <2>3. bounties' = bounties \/ bounties' = [bounties EXCEPT ![b] = r]
    BY <1>2 DEF ClaimBounty
  <2>4. bounties' \in [BountyIds -> Bounty]
    <3> HIDE DEF r
    <3> QED BY <2>2, <2>3 DEF TypeOK
  <2> QED BY <1>2, <2>4 DEF ClaimBounty, TypeOK, AgentKeys
<1>3. ASSUME NEW b \in BountyIds, NEW a \in Agents, NEW h \in Hashes,
             SubmitWork(b, a, h)
      PROVE  TypeOK'
  <2> DEFINE r == [bounties[b] EXCEPT !.state = "submitted", !.snapshot = h]
  <2>1. bounties[b] \in Bounty
    BY DEF TypeOK
  <2>2. r \in Bounty
    BY <2>1 DEF Bounty, BountyState
  <2>3. bounties' = [bounties EXCEPT ![b] = r]
    BY <1>3 DEF SubmitWork
  <2>4. bounties' \in [BountyIds -> Bounty]
    <3> HIDE DEF r
    <3> QED BY <2>2, <2>3 DEF TypeOK
  <2> QED BY <1>3, <2>4 DEF SubmitWork, TypeOK
<1>4. ASSUME NEW b \in BountyIds, NEW c \in Clients, ApproveBounty(b, c)
      PROVE  TypeOK'
  <2>1. Settle(b, 2, TRUE, FALSE)
    BY <1>4 DEF ApproveBounty
  <2> QED BY <2>1, <1>a, SettleType
<1>5. ASSUME NEW b \in BountyIds, NEW c \in Clients, NEW v \in Votes,
             DisputeBounty(b, c, v)
      PROVE  TypeOK'
  <2>1. CASE /\ bounties' = [bounties EXCEPT ![b].state = "disputed"]
             /\ UNCHANGED <<reputations, known, settled>>
    BY <2>1 DEF TypeOK, Bounty, BountyState
  <2>2. CASE Settle(b, 2, TRUE, FALSE)
    BY <2>2, <1>a, SettleType
  <2>3. CASE Settle(b, 0, FALSE, TRUE)
    BY <2>3, <1>a, SettleType
  <2>4. CASE Settle(b, 1, FALSE, FALSE)
    BY <2>4, <1>a, SettleType
  <2> QED BY <1>5, <2>1, <2>2, <2>3, <2>4, DisputeCases
<1>6. ASSUME NEW a \in Agents, GetAgentReputation(a)
      PROVE  TypeOK'
  BY <1>6 DEF GetAgentReputation, TypeOK, AgentKeys
<1>7. CASE UNCHANGED vars
  BY <1>7 DEF vars, TypeOK
<1> QED BY <1>1, <1>2, <1>3, <1>4, <1>5, <1>6, <1>7 DEF Next

\* Every variable of the engine keeps its type, whatever is called.
THEOREM TypeCorrect == Spec => []TypeOK
<1>1. Init => TypeOK
  BY DEF Init, TypeOK, Bounty, BountyState, AgentKeys, Reputation,
         NewReputation
<1>2. TypeOK /\ [Next]_vars => TypeOK'
  BY TypeStep
<1> QED BY <1>1, <1>2, PTL DEF Spec
-----------------------------------------------------------------------------
(***************************************************************************)
(* The invariant.  LifecycleInv, DisputesAreDecided, ReputationInv and     *)
(* CreditBacked are inductive together: CreditBacked needs LifecycleInv to *)
(* know that a settled bounty is not open, so that no claim moves it.      *)
(***************************************************************************)
EscrowInv == TypeOK /\ LifecycleInv /\ DisputesAreDecided /\ ReputationInv
               /\ CreditBacked

\* What LifecycleInv says of one bounty, r, that was settled n times.
Legal(r, n) ==
  /\ r.state = "submitted" => r.claimed_by # None /\ r.snapshot # None
  /\ r.snapshot # None => r.claimed_by # None
  /\ r.state = "claimed" => r.claimed_by # None /\ r.snapshot = None /\ n = 0
  /\ r.state \in {"absent", "open"} =>
       r.claimed_by = None /\ r.snapshot = None /\ n = 0
  /\ r.state = "settled" => n > 0
  /\ r.state = "absent" <=> r.client = None

\* LifecycleInv says that each bounty of the engine is legal.
LEMMA LifecycleIsLegal ==
  LifecycleInv <=> \A b \in BountyIds : Legal(bounties[b], settled[b])
BY DEF LifecycleInv, Legal

\* The same, of the state after a call.
LEMMA LifecycleIsLegalNext ==
  LifecycleInv' <=> \A b \in BountyIds : Legal(bounties'[b], settled'[b])
BY DEF LifecycleInv, Legal

\* A call that writes one bounty, and leaves it legal, keeps the lifecycle.
LEMMA LifecycleStep ==
  ASSUME TypeOK, LifecycleInv, NEW b \in BountyIds, NEW r,
         bounties' = [bounties EXCEPT ![b] = r], settled' = settled,
         Legal(r, settled[b])
  PROVE  LifecycleInv'
<1>1. bounties'[b] = r
  BY DEF TypeOK
<1>2. ASSUME NEW e \in BountyIds, e # b PROVE bounties'[e] = bounties[e]
  BY <1>2 DEF TypeOK
<1> QED BY <1>1, <1>2, LifecycleIsLegal, LifecycleIsLegalNext

\* A settlement of a bounty that has been posted keeps the invariant.
LEMMA SettleInv ==
  ASSUME EscrowInv, NEW b \in BountyIds, NEW score \in 0..2,
         NEW wasVerified \in BOOLEAN, NEW wasDisputed \in BOOLEAN,
         bounties[b].state # "absent",
         Settle(b, score, wasVerified, wasDisputed)
  PROVE  EscrowInv'
<1> DEFINE a == bounties[b].claimed_by
<1>1. TypeOK'
  BY SettleType DEF EscrowInv
<1>2. /\ bounties[b] \in Bounty /\ a \in AgentKeys
      /\ reputations[a] \in Reputation /\ settled[b] \in Nat
  BY DEF EscrowInv, TypeOK, Bounty, AgentKeys
<1>3. /\ bounties' = [bounties EXCEPT ![b].state = "settled"]
      /\ settled' = [settled EXCEPT ![b] = @ + 1]
      /\ known' = known \cup {a}
      /\ reputations' = [reputations EXCEPT ![a] =
                           Updated(@, score, wasVerified, wasDisputed)]
  BY DEF Settle
<1>4. LifecycleInv'
  BY <1>2, <1>3 DEF EscrowInv, TypeOK, LifecycleInv, Bounty
<1>5. DisputesAreDecided'
  BY <1>2, <1>3 DEF EscrowInv, TypeOK, DisputesAreDecided, Bounty
<1>6. ReputationInv'
  <2> SUFFICES ASSUME NEW k \in AgentKeys
               PROVE  /\ reputations'[k].total_tasks = Len(reputations'[k].history)
                      /\ reputations'[k].completed_tasks
                           + reputations'[k].disputed_count
                           <= reputations'[k].total_tasks
    BY DEF ReputationInv
  <2>1. CASE k = a
    <3>1. reputations'[k] = Updated(reputations[a], score, wasVerified, wasDisputed)
      BY <1>2, <1>3, <2>1 DEF EscrowInv, TypeOK
    <3>2. /\ reputations[a].total_tasks = Len(reputations[a].history)
          /\ reputations[a].completed_tasks + reputations[a].disputed_count
               <= reputations[a].total_tasks
      BY <1>2 DEF EscrowInv, ReputationInv
    <3> QED BY <1>2, <3>1, <3>2 DEF Updated, Reputation
  <2>2. CASE k # a
    BY <1>3, <2>2 DEF EscrowInv, TypeOK, ReputationInv
  <2> QED BY <2>1, <2>2
<1>7. CreditBacked'
  <2> SUFFICES ASSUME NEW k \in AgentKeys, reputations'[k].history # <<>>
               PROVE  /\ k \in known'
                      /\ \E e \in BountyIds :
                           bounties'[e].claimed_by = k /\ settled'[e] > 0
    BY DEF CreditBacked
  <2>1. CASE k = a
    BY <1>2, <1>3, <2>1 DEF EscrowInv, TypeOK, Bounty
  <2>2. CASE k # a
    BY <1>2, <1>3, <2>2 DEF EscrowInv, TypeOK, Bounty, CreditBacked
  <2> QED BY <2>1, <2>2
<1> QED BY <1>1, <1>4, <1>5, <1>6, <1>7 DEF EscrowInv

\* The invariant holds in every reachable state of the engine.
THEOREM EscrowCorrect == Spec => []EscrowInv
<1>1. Init => EscrowInv
  BY DEF Init, EscrowInv, TypeOK, Bounty, BountyState, AgentKeys, Reputation,
         NewReputation, LifecycleInv, DisputesAreDecided, ReputationInv,
         CreditBacked
<1>2. EscrowInv /\ [Next]_vars => EscrowInv'
  <2> SUFFICES ASSUME EscrowInv, TypeOK', [Next]_vars PROVE EscrowInv'
    BY TypeStep DEF EscrowInv
  <2>a. /\ 0 \in 0..2 /\ 1 \in 0..2 /\ 2 \in 0..2
        /\ TRUE \in BOOLEAN /\ FALSE \in BOOLEAN
    OBVIOUS
  <2>1. ASSUME NEW b \in BountyIds, NEW c \in Clients, CreateBounty(b, c)
        PROVE  EscrowInv'
    <3>1. LifecycleInv'
      <4> DEFINE r == [state |-> "open", client |-> c,
                       claimed_by |-> None, snapshot |-> None]
      <4>1. settled[b] = 0
        BY <2>1 DEF CreateBounty, EscrowInv, LifecycleInv
      <4>2. Legal(r, settled[b])
        BY <4>1, EscrowAssumption DEF Legal
      <4>3. bounties' = [bounties EXCEPT ![b] = r] /\ settled' = settled
        BY <2>1 DEF CreateBounty
      <4> HIDE DEF r
      <4> QED BY <4>2, <4>3, LifecycleStep DEF EscrowInv
    <3>2. DisputesAreDecided'
      BY <2>1 DEF CreateBounty, EscrowInv, TypeOK, DisputesAreDecided
    <3>3. CreditBacked'
      BY <2>1 DEF CreateBounty, EscrowInv, TypeOK, LifecycleInv, CreditBacked
    <3> QED BY <2>1, <3>1, <3>2, <3>3
            DEF CreateBounty, EscrowInv, ReputationInv
  <2>2. ASSUME NEW b \in BountyIds, NEW a \in Agents, ClaimBounty(b, a)
        PROVE  EscrowInv'
    <3>1. \/ bounties' = bounties
          \/ bounties' = [bounties EXCEPT ![b].state = "claimed",
                                          ![b].claimed_by = a]
      BY <2>2 DEF ClaimBounty
    <3>2. LifecycleInv'
      <4> DEFINE r == [bounties[b] EXCEPT !.state = "claimed",
                                          !.claimed_by = a]
      <4>1. bounties[b] \in Bounty /\ settled' = settled
        BY <2>2 DEF EscrowInv, TypeOK, ClaimBounty
      <4>2. bounties[b].state = "open" /\ Legal(bounties[b], settled[b])
        BY <2>2, LifecycleIsLegal DEF EscrowInv, ClaimBounty
      <4>3. Legal(r, settled[b])
        BY <4>1, <4>2, EscrowAssumption DEF Legal, Bounty
      <4>4. CASE bounties' = bounties
        BY <4>1, <4>4 DEF EscrowInv, LifecycleInv
      <4>5. CASE bounties' = [bounties EXCEPT ![b] = r]
        <5> HIDE DEF r
        <5> QED BY <4>1, <4>3, <4>5, LifecycleStep DEF EscrowInv
      <4> QED BY <3>1, <4>4, <4>5
    <3>3. DisputesAreDecided'
      BY <2>2, <3>1 DEF EscrowInv, TypeOK, DisputesAreDecided, Bounty
    <3>4. CreditBacked'
      <4> SUFFICES ASSUME NEW k \in AgentKeys, reputations[k].history # <<>>
                   PROVE  /\ k \in known'
                          /\ \E e \in BountyIds :
                               bounties'[e].claimed_by = k /\ settled[e] > 0
        BY <2>2 DEF CreditBacked, ClaimBounty
      <4>1. PICK e \in BountyIds : bounties[e].claimed_by = k /\ settled[e] > 0
        BY DEF EscrowInv, CreditBacked
      <4>2. k \in known
        BY DEF EscrowInv, CreditBacked
      <4>3. e # b
        BY <2>2, <4>1 DEF ClaimBounty, EscrowInv, LifecycleInv
      <4>4. bounties'[e] = bounties[e]
        BY <3>1, <4>3 DEF EscrowInv, TypeOK
      <4> QED BY <2>2, <4>1, <4>2, <4>4 DEF ClaimBounty
    <3> QED BY <2>2, <3>2, <3>3, <3>4
            DEF ClaimBounty, EscrowInv, ReputationInv
  <2>3. ASSUME NEW b \in BountyIds, NEW a \in Agents, NEW h \in Hashes,
               SubmitWork(b, a, h)
        PROVE  EscrowInv'
    <3>1. LifecycleInv'
      <4> DEFINE r == [bounties[b] EXCEPT !.state = "submitted",
                                          !.snapshot = h]
      <4>1. bounties[b] \in Bounty /\ settled' = settled
        BY <2>3 DEF EscrowInv, TypeOK, SubmitWork
      <4>2. bounties[b].claimed_by = a /\ Legal(bounties[b], settled[b])
        BY <2>3, LifecycleIsLegal DEF EscrowInv, SubmitWork
      <4>3. Legal(r, settled[b])
        BY <4>1, <4>2, EscrowAssumption DEF Legal, Bounty
      <4>4. bounties' = [bounties EXCEPT ![b] = r]
        BY <2>3 DEF SubmitWork
      <4> HIDE DEF r
      <4> QED BY <4>1, <4>3, <4>4, LifecycleStep DEF EscrowInv
    <3>2. DisputesAreDecided'
      BY <2>3 DEF SubmitWork, EscrowInv, TypeOK, DisputesAreDecided, Bounty
    <3>3. CreditBacked'
      BY <2>3 DEF SubmitWork, EscrowInv, TypeOK, CreditBacked, Bounty
    <3> QED BY <2>3, <3>1, <3>2, <3>3
            DEF SubmitWork, EscrowInv, ReputationInv
  <2>4. ASSUME NEW b \in BountyIds, NEW c \in Clients, ApproveBounty(b, c)
        PROVE  EscrowInv'
    <3>1. Settle(b, 2, TRUE, FALSE) /\ bounties[b].state # "absent"
      BY <2>4 DEF ApproveBounty
    <3> QED BY <3>1, <2>a, SettleInv
  <2>5. ASSUME NEW b \in BountyIds, NEW c \in Clients, NEW v \in Votes,
               DisputeBounty(b, c, v)
        PROVE  EscrowInv'
    <3>0. bounties[b].state # "absent"
      BY <2>5 DEF DisputeBounty
    <3>1. CASE /\ ConsensusAgents = 0
               /\ bounties' = [bounties EXCEPT ![b].state = "disputed"]
               /\ UNCHANGED <<reputations, known, settled>>
      <4>1. LifecycleInv'
        BY <3>0, <3>1 DEF EscrowInv, TypeOK, LifecycleInv, Bounty
      <4>2. DisputesAreDecided'
        BY <3>1 DEF DisputesAreDecided
      <4>3. CreditBacked' /\ ReputationInv'
        BY <3>1 DEF EscrowInv, TypeOK, CreditBacked, ReputationInv, Bounty
      <4> QED BY <4>1, <4>2, <4>3 DEF EscrowInv
    <3>2. CASE Settle(b, 2, TRUE, FALSE)
      BY <3>0, <3>2, <2>a, SettleInv
    <3>3. CASE Settle(b, 0, FALSE, TRUE)
      BY <3>0, <3>3, <2>a, SettleInv
    <3>4. CASE Settle(b, 1, FALSE, FALSE)
      BY <3>0, <3>4, <2>a, SettleInv
    <3> QED BY <2>5, <3>1, <3>2, <3>3, <3>4, DisputeCases
  <2>6. ASSUME NEW a \in Agents, GetAgentReputation(a)
        PROVE  EscrowInv'
    BY <2>6 DEF GetAgentReputation, EscrowInv, LifecycleInv,
                DisputesAreDecided, ReputationInv, CreditBacked
  <2>7. CASE UNCHANGED vars
    BY <2>7 DEF vars, EscrowInv, LifecycleInv, DisputesAreDecided,
                ReputationInv, CreditBacked
  <2> QED BY <2>1, <2>2, <2>3, <2>4, <2>5, <2>6, <2>7 DEF Next
<1> QED BY <1>1, <1>2, PTL DEF Spec

\* claim_bounty, submit_work, approve_bounty and dispute_bounty never reassign
\* a claimed bounty, and no call gives a posted one to another client.
THEOREM ClaimIsPermanentTheorem == Spec => ClaimIsPermanent
<1>1. EscrowInv /\ [Next]_vars
        => [\A b \in BountyIds :
              /\ bounties[b].claimed_by # None =>
                   bounties'[b].claimed_by = bounties[b].claimed_by
              /\ bounties[b].client # None =>
                   bounties'[b].client = bounties[b].client]_vars
  <2> SUFFICES ASSUME EscrowInv, Next, NEW e \in BountyIds
               PROVE  /\ bounties[e].claimed_by # None =>
                           bounties'[e].claimed_by = bounties[e].claimed_by
                      /\ bounties[e].client # None =>
                           bounties'[e].client = bounties[e].client
    OBVIOUS
  <2>1. ASSUME NEW b \in BountyIds, NEW s \in BountyState,
               bounties' = [bounties EXCEPT ![b].state = s]
        PROVE  /\ bounties'[e].claimed_by = bounties[e].claimed_by
               /\ bounties'[e].client = bounties[e].client
    BY <2>1 DEF EscrowInv, TypeOK, Bounty
  <2>2. ASSUME NEW b \in BountyIds, NEW c \in Clients, CreateBounty(b, c)
        PROVE  e # b => bounties'[e] = bounties[e]
    BY <2>2 DEF CreateBounty, EscrowInv, TypeOK
  <2>3. ASSUME NEW b \in BountyIds, NEW c \in Clients, CreateBounty(b, c)
        PROVE  bounties[b].claimed_by = None /\ bounties[b].client = None
    BY <2>3 DEF CreateBounty, EscrowInv, LifecycleInv
  <2>4. ASSUME NEW b \in BountyIds, NEW a \in Agents, ClaimBounty(b, a)
        PROVE  /\ bounties'[e].client = bounties[e].client
               /\ bounties[e].claimed_by # None =>
                    bounties'[e].claimed_by = bounties[e].claimed_by
    BY <2>4 DEF ClaimBounty, EscrowInv, TypeOK, LifecycleInv, Bounty
  <2>5. ASSUME NEW b \in BountyIds, NEW a \in Agents, NEW h \in Hashes,
               SubmitWork(b, a, h)
        PROVE  /\ bounties'[e].claimed_by = bounties[e].claimed_by
               /\ bounties'[e].client = bounties[e].client
    BY <2>5 DEF SubmitWork, EscrowInv, TypeOK, Bounty
  <2>6. ASSUME NEW b \in BountyIds, NEW c \in Clients, ApproveBounty(b, c)
        PROVE  bounties' = [bounties EXCEPT ![b].state = "settled"]
    BY <2>6 DEF ApproveBounty, Settle
  <2>7. ASSUME NEW b \in BountyIds, NEW c \in Clients, NEW v \in Votes,
               DisputeBounty(b, c, v)
        PROVE  \/ bounties' = [bounties EXCEPT ![b].state = "settled"]
               \/ bounties' = [bounties EXCEPT ![b].state = "disputed"]
    BY <2>7, DisputeCases DEF Settle
  <2>8. ASSUME NEW a \in Agents, GetAgentReputation(a)
        PROVE  bounties' = bounties
    BY <2>8 DEF GetAgentReputation
  <2>9. "settled" \in BountyState /\ "disputed" \in BountyState
    BY DEF BountyState
  <2> QED BY <2>1, <2>2, <2>3, <2>4, <2>5, <2>6, <2>7, <2>8, <2>9 DEF Next
<1> QED BY <1>1, EscrowCorrect, PTL DEF Spec, ClaimIsPermanent

\* Every step of the engine is a step of the ledger of credits or leaves the
\* ledger alone: assignments happen once and before the first settlement, and
\* a settlement credits one task to the holder of the bounty it settles.
THEOREM ImplementsLedgerTheorem == Spec => ImplementsLedger
<1>1. Init => Ledger!Init
  BY DEF Init, Ledger!Init, AgentKeys, NewReputation
<1>2. EscrowInv /\ EscrowInv' /\ [Next]_vars => [Ledger!Next]_(Ledger!ledger)
  <2> SUFFICES ASSUME EscrowInv, EscrowInv', [Next]_vars
               PROVE  [Ledger!Next]_(Ledger!ledger)
    OBVIOUS
  <2>1. ASSUME NEW b \in BountyIds, NEW score \in 0..2,
               NEW wasVerified \in BOOLEAN, NEW wasDisputed \in BOOLEAN,
               Settle(b, score, wasVerified, wasDisputed)
        PROVE  Ledger!Next
    <3> DEFINE a == bounties[b].claimed_by
    <3>0. /\ bounties[b] \in Bounty /\ a \in AgentKeys
          /\ reputations[a] \in Reputation
      BY DEF EscrowInv, TypeOK, Bounty, AgentKeys
    <3>1. [e \in BountyIds |-> bounties'[e].claimed_by]
            = [e \in BountyIds |-> bounties[e].claimed_by]
      BY <2>1 DEF Settle, EscrowInv, TypeOK, Bounty
    <3>2. {e \in BountyIds : settled'[e] > 0}
            = {e \in BountyIds : settled[e] > 0} \cup {b}
      BY <2>1 DEF Settle, EscrowInv, TypeOK
    <3>3. [k \in AgentKeys |-> reputations'[k].total_tasks]
            = [[k \in AgentKeys |-> reputations[k].total_tasks] EXCEPT
                 ![[e \in BountyIds |-> bounties[e].claimed_by][b]] = @ + 1]
      <4>1. reputations' = [reputations EXCEPT ![a] =
                              Updated(@, score, wasVerified, wasDisputed)]
        BY <2>1 DEF Settle
      <4>2. \A k \in AgentKeys : reputations'[k].total_tasks =
              IF k = a THEN reputations[k].total_tasks + 1
                       ELSE reputations[k].total_tasks
        BY <3>0, <4>1 DEF Updated, EscrowInv, TypeOK
      <4> QED BY <3>0, <4>2
    <3>4. Ledger!Credit(b)
      BY <3>1, <3>2, <3>3 DEF Ledger!Credit
    <3> QED BY <3>4 DEF Ledger!Next
  <2>2. ASSUME [e \in BountyIds |-> bounties'[e].claimed_by]
                 = [e \in BountyIds |-> bounties[e].claimed_by],
               settled' = settled, reputations' = reputations
        PROVE  UNCHANGED Ledger!ledger
    BY <2>2 DEF Ledger!ledger
  <2>a. /\ 0 \in 0..2 /\ 1 \in 0..2 /\ 2 \in 0..2
        /\ TRUE \in BOOLEAN /\ FALSE \in BOOLEAN
    OBVIOUS
  <2>3. ASSUME NEW b \in BountyIds, NEW c \in Clients, CreateBounty(b, c)
        PROVE  UNCHANGED Ledger!ledger
    <3>1. [e \in BountyIds |-> bounties'[e].claimed_by]
            = [e \in BountyIds |-> bounties[e].claimed_by]
      BY <2>3 DEF CreateBounty, EscrowInv, TypeOK, LifecycleInv
    <3> QED BY <2>2, <2>3, <3>1 DEF CreateBounty
  <2>4. ASSUME NEW b \in BountyIds, NEW a \in Agents, ClaimBounty(b, a)
        PROVE  [Ledger!Next]_(Ledger!ledger)
    <3>1. CASE bounties' = bounties
      BY <2>2, <2>4, <3>1 DEF ClaimBounty
    <3>2. CASE bounties' = [bounties EXCEPT ![b].state = "claimed",
                                           ![b].claimed_by = a]
      <4>1. [e \in BountyIds |-> bounties'[e].claimed_by]
              = [[e \in BountyIds |-> bounties[e].claimed_by] EXCEPT ![b] = a]
        BY <3>2 DEF EscrowInv, TypeOK, Bounty
      <4>2. bounties[b].claimed_by = None /\ ~ (settled[b] > 0)
        BY <2>4 DEF ClaimBounty, EscrowInv, LifecycleInv
      <4>3. settled' = settled /\ reputations' = reputations
        BY <2>4 DEF ClaimBounty
      <4>4. Ledger!Assign(b, a)
        BY <4>1, <4>2, <4>3 DEF Ledger!Assign
      <4> QED BY <4>4 DEF Ledger!Next
    <3> QED BY <2>4, <3>1, <3>2 DEF ClaimBounty
  <2>5. ASSUME NEW b \in BountyIds, NEW a \in Agents, NEW h \in Hashes,
               SubmitWork(b, a, h)
        PROVE  UNCHANGED Ledger!ledger
    <3>1. [e \in BountyIds |-> bounties'[e].claimed_by]
            = [e \in BountyIds |-> bounties[e].claimed_by]
      BY <2>5 DEF SubmitWork, EscrowInv, TypeOK, Bounty
    <3> QED BY <2>2, <2>5, <3>1 DEF SubmitWork
  <2>6. ASSUME NEW b \in BountyIds, NEW c \in Clients, ApproveBounty(b, c)
        PROVE  Ledger!Next
    <3>1. Settle(b, 2, TRUE, FALSE)
      BY <2>6 DEF ApproveBounty
    <3> QED BY <3>1, <2>a, <2>1
  <2>7. ASSUME NEW b \in BountyIds, NEW c \in Clients, NEW v \in Votes,
               DisputeBounty(b, c, v)
        PROVE  [Ledger!Next]_(Ledger!ledger)
    <3>1. CASE /\ bounties' = [bounties EXCEPT ![b].state = "disputed"]
               /\ UNCHANGED <<reputations, known, settled>>
      <4>1. [e \in BountyIds |-> bounties'[e].claimed_by]
              = [e \in BountyIds |-> bounties[e].claimed_by]
        BY <3>1 DEF EscrowInv, TypeOK, Bounty
      <4> QED BY <2>2, <3>1, <4>1
    <3>2. CASE Settle(b, 2, TRUE, FALSE)
      BY <3>2, <2>a, <2>1
    <3>3. CASE Settle(b, 0, FALSE, TRUE)
      BY <3>3, <2>a, <2>1
    <3>4. CASE Settle(b, 1, FALSE, FALSE)
      BY <3>4, <2>a, <2>1
    <3> QED BY <2>7, <3>1, <3>2, <3>3, <3>4, DisputeCases
  <2>8. ASSUME NEW a \in Agents, GetAgentReputation(a)
        PROVE  UNCHANGED Ledger!ledger
    BY <2>2, <2>8 DEF GetAgentReputation
  <2>9. CASE UNCHANGED vars
    BY <2>2, <2>9 DEF vars
  <2> QED BY <2>3, <2>4, <2>5, <2>6, <2>7, <2>8, <2>9 DEF Next
<1> QED BY <1>1, <1>2, EscrowCorrect, PTL DEF Spec, ImplementsLedger, Ledger!Spec

\* The named parts of the invariant, as the runs check them.
THEOREM EscrowSafety ==
  Spec => [](LifecycleInv /\ DisputesAreDecided /\ ReputationInv /\ CreditBacked)
<1>1. EscrowInv => LifecycleInv /\ DisputesAreDecided /\ ReputationInv /\ CreditBacked
  BY DEF EscrowInv
<1> QED BY <1>1, EscrowCorrect, PTL

\* An agent below the threshold is refused every claim, and only a settlement
\* of a bounty that it already holds changes its score.
THEOREM RecoveryNeedsOwnBountyTheorem == Spec => RecoveryNeedsOwnBounty
<1> DEFINE Kept(x) ==
             \A e \in BountyIds :
               bounties'[e].claimed_by = x => bounties[e].claimed_by = x
           OwnSettled(x) ==
             \E e \in BountyIds : /\ bounties[e].claimed_by = x
                                  /\ settled'[e] > settled[e]
<1>1. EscrowInv /\ [Next]_vars
        => [\A a \in Agents : ~Eligible(a) =>
              /\ \A b \in BountyIds :
                   bounties'[b].claimed_by = a => bounties[b].claimed_by = a
              /\ Eligible(a)' =>
                   \E b \in BountyIds : /\ bounties[b].claimed_by = a
                                        /\ settled'[b] > settled[b]]_vars
  <2> SUFFICES ASSUME EscrowInv, Next, NEW x \in Agents, ~Eligible(x)
               PROVE  Kept(x) /\ (Eligible(x)' => OwnSettled(x))
    OBVIOUS
  <2>0. x \in AgentKeys
    BY DEF AgentKeys
  <2>a. ASSUME reputations'[x] = reputations[x]
        PROVE  ~ (Eligible(x)')
    BY <2>a DEF Eligible
  <2>1. ASSUME NEW b \in BountyIds, NEW score, NEW wasVerified,
               NEW wasDisputed, Settle(b, score, wasVerified, wasDisputed)
        PROVE  Kept(x) /\ (Eligible(x)' => OwnSettled(x))
    <3>1. Kept(x)
      BY <2>1 DEF Settle, EscrowInv, TypeOK, Bounty
    <3>2. CASE bounties[b].claimed_by = x
      <4>1. settled[b] \in Nat /\ settled'[b] = settled[b] + 1
        BY <2>1 DEF Settle, EscrowInv, TypeOK
      <4>2. settled'[b] > settled[b]
        BY <4>1
      <4> QED BY <3>1, <3>2, <4>2
    <3>3. CASE bounties[b].claimed_by # x
      <4>1. reputations'[x] = reputations[x]
        BY <2>0, <2>1, <3>3 DEF Settle, EscrowInv, TypeOK
      <4> QED BY <2>a, <3>1, <4>1
    <3> QED BY <3>2, <3>3
  <2>2. ASSUME NEW b \in BountyIds, NEW c \in Clients, CreateBounty(b, c)
        PROVE  Kept(x) /\ reputations'[x] = reputations[x]
    BY <2>2, EscrowAssumption DEF CreateBounty, EscrowInv, TypeOK
  <2>3. ASSUME NEW b \in BountyIds, NEW a \in Agents, ClaimBounty(b, a)
        PROVE  Kept(x) /\ reputations'[x] = reputations[x]
    <3>1. CASE bounties' = bounties
      BY <2>3, <3>1 DEF ClaimBounty
    <3>2. CASE /\ Eligible(a)
               /\ bounties' = [bounties EXCEPT ![b].state = "claimed",
                                              ![b].claimed_by = a]
      <4>1. a # x
        BY <3>2
      <4> QED BY <2>3, <3>2, <4>1
              DEF ClaimBounty, EscrowInv, TypeOK, Bounty
    <3> QED BY <2>3, <3>1, <3>2 DEF ClaimBounty
  <2>4. ASSUME NEW b \in BountyIds, NEW a \in Agents, NEW h \in Hashes,
               SubmitWork(b, a, h)
        PROVE  Kept(x) /\ reputations'[x] = reputations[x]
    BY <2>4 DEF SubmitWork, EscrowInv, TypeOK, Bounty
  <2>5. ASSUME NEW b \in BountyIds, NEW c \in Clients, ApproveBounty(b, c)
        PROVE  Kept(x) /\ (Eligible(x)' => OwnSettled(x))
    BY <2>1, <2>5 DEF ApproveBounty
  <2>6. ASSUME NEW b \in BountyIds, NEW c \in Clients, NEW v \in Votes,
               DisputeBounty(b, c, v)
        PROVE  Kept(x) /\ (Eligible(x)' => OwnSettled(x))
    <3>1. CASE /\ bounties' = [bounties EXCEPT ![b].state = "disputed"]
               /\ UNCHANGED <<reputations, known, settled>>
      <4>1. Kept(x)
        BY <3>1 DEF EscrowInv, TypeOK, Bounty
      <4> QED BY <2>a, <3>1, <4>1
    <3> QED BY <2>1, <2>6, <3>1, DisputeCases
  <2>7. ASSUME NEW a \in Agents, GetAgentReputation(a)
        PROVE  Kept(x) /\ reputations'[x] = reputations[x]
    BY <2>7 DEF GetAgentReputation
  <2> QED BY <2>a, <2>2, <2>3, <2>4, <2>5, <2>6, <2>7 DEF Next
<1> QED BY <1>1, EscrowCorrect, PTL DEF Spec, RecoveryNeedsOwnBounty
-----------------------------------------------------------------------------
(***************************************************************************)
(* Sums over sets of bounties.  MapThenSumSet is a recursive function on   *)
(* the subsets of its argument, which takes one element away in each step; *)
(* what it computes does not depend on which.                              *)
(***************************************************************************)

\* A set of natural numbers that holds 0 and the successor of each of its
\* members holds them all.
LEMMA AllNaturals ==
  ASSUME NEW T, 0 \in T, \A n \in Nat : n \in T => n + 1 \in T
  PROVE  Nat \subseteq T
<1> SUFFICES ASSUME NEW m \in Nat, m \notin T PROVE FALSE
  OBVIOUS
<1> DEFINE Missing == {n \in Nat : n \notin T}
<1>1. Missing \subseteq Nat /\ Missing # {}
  OBVIOUS
<1>2. PICK k \in Missing : \A y \in Missing : ~ (<<y, k>> \in OpToRel(<, Nat))
  <2> HIDE DEF Missing
  <2> QED BY <1>1, NatLessThanWellFounded, WFMin
<1>3. \A y \in Missing : ~ (y < k)
  BY <1>1, <1>2 DEF OpToRel
<1>4. k # 0 /\ k \in Nat /\ k \notin T
  OBVIOUS
<1>5. k - 1 \in Nat /\ k - 1 \notin Missing
  BY <1>3, <1>4
<1>6. (k - 1) + 1 \in T
  BY <1>5
<1> QED BY <1>4, <1>6

\* A property of sets that a set has if it has it without each one of its
\* elements.
LEMMA SubsetInduction ==
  ASSUME NEW U, IsFiniteSet(U), NEW Good,
         \A t \in SUBSET U : (\A b \in t : t \ {b} \in Good) => t \in Good
  PROVE  SUBSET U \subseteq Good
<1> DEFINE T == {n \in Nat : \A t \in SUBSET U : Cardinality(t) = n => t \in Good}
<1>1. \A t \in SUBSET U : IsFiniteSet(t) /\ Cardinality(t) \in Nat
  BY FS_Subset, FS_CardinalityType
<1>2. 0 \in T
  <2>1. ASSUME NEW t \in SUBSET U, Cardinality(t) = 0 PROVE t \in Good
    <3>1. t = {}
      BY <1>1, <2>1, FS_EmptySet
    <3> QED BY <3>1
  <2> QED BY <2>1
<1>3. ASSUME NEW n \in Nat, n \in T PROVE n + 1 \in T
  <2>1. ASSUME NEW t \in SUBSET U, Cardinality(t) = n + 1 PROVE t \in Good
    <3>1. ASSUME NEW b \in t PROVE t \ {b} \in Good
      <4>1. Cardinality(t \ {b}) = n
        BY <1>1, <2>1, FS_RemoveElement
      <4> QED BY <1>3, <4>1
    <3> QED BY <3>1
  <2> QED BY <2>1
<1>4. Nat \subseteq T
  <2> HIDE DEF T
  <2> QED BY <1>2, <1>3, AllNaturals
<1> QED BY <1>1, <1>4

One(S) == CHOOSE x \in S : TRUE

SumStep(g, iter, t) == IF t = {} THEN 0 ELSE g[One(t)] + iter[t \ {One(t)}]

SumOk(g, iter, S) == iter = [t \in SUBSET S |-> SumStep(g, iter, t)]

Sum(g, S) == (CHOOSE iter : SumOk(g, iter, S))[S]

AgreeOn(g, h, S) == \A x \in S : g[x] = h[x]

\* The function the sum is defined by exists.
LEMMA SumExists ==
  ASSUME NEW U, IsFiniteSet(U), NEW g
  PROVE  \E iter : SumOk(g, iter, U)
<1> DEFINE UpTo(f, n) == \A t \in SUBSET U :
                           Cardinality(t) <= n => f[t] = SumStep(g, f, t)
           T == {n \in Nat : \E f : f = [t \in SUBSET U |-> f[t]] /\ UpTo(f, n)}
<1>1. \A t \in SUBSET U : IsFiniteSet(t) /\ Cardinality(t) \in Nat
  BY FS_Subset, FS_CardinalityType
<1>2. \A t \in SUBSET U : t # {} =>
        /\ One(t) \in t /\ t \ {One(t)} \in SUBSET U
        /\ Cardinality(t \ {One(t)}) = Cardinality(t) - 1
  BY <1>1, FS_RemoveElement DEF One
<1>3. 0 \in T
  <2> DEFINE f == [t \in SUBSET U |-> 0]
  <2>1. f = [t \in SUBSET U |-> f[t]]
    OBVIOUS
  <2>2. ASSUME NEW t \in SUBSET U, Cardinality(t) <= 0
        PROVE  f[t] = SumStep(g, f, t)
    <3>1. t = {}
      BY <1>1, <2>2, FS_EmptySet
    <3> QED BY <3>1 DEF SumStep
  <2> HIDE DEF f
  <2>3. \E h : h = [t \in SUBSET U |-> h[t]] /\ UpTo(h, 0)
    BY <2>1, <2>2
  <2> QED BY <2>3
<1>4. ASSUME NEW n \in Nat, n \in T PROVE n + 1 \in T
  <2>1. PICK f : f = [t \in SUBSET U |-> f[t]] /\ UpTo(f, n)
    BY <1>4
  <2> DEFINE h == [t \in SUBSET U |->
                     IF Cardinality(t) = n + 1 THEN SumStep(g, f, t) ELSE f[t]]
  <2>2. h = [t \in SUBSET U |-> h[t]]
    OBVIOUS
  <2>3. ASSUME NEW t \in SUBSET U, Cardinality(t) <= n + 1
        PROVE  h[t] = SumStep(g, h, t)
    <3>1. t # {} => h[t \ {One(t)}] = f[t \ {One(t)}]
      <4> SUFFICES ASSUME t # {} PROVE h[t \ {One(t)}] = f[t \ {One(t)}]
        OBVIOUS
      <4>1. Cardinality(t \ {One(t)}) # n + 1
        BY <1>1, <1>2, <2>3
      <4> QED BY <1>2, <4>1
    <3>2. h[t] = SumStep(g, f, t)
      <4>1. CASE Cardinality(t) = n + 1
        <5> HIDE DEF UpTo
        <5> QED BY <4>1
      <4>2. CASE Cardinality(t) # n + 1
        <5>1. Cardinality(t) <= n
          BY <1>1, <2>3, <4>2
        <5>2. f[t] = SumStep(g, f, t)
          BY <2>1, <5>1
        <5>3. h[t] = f[t]
          <6> HIDE DEF UpTo
          <6> QED BY <4>2
        <5> HIDE DEF h, UpTo
        <5> QED BY <5>2, <5>3
      <4> QED BY <4>1, <4>2
    <3> HIDE DEF h, UpTo
    <3> QED BY <3>1, <3>2 DEF SumStep
  <2> HIDE DEF h
  <2>4. UpTo(h, n + 1)
    BY <2>3
  <2> HIDE DEF UpTo
  <2>5. \E k : k = [t \in SUBSET U |-> k[t]] /\ UpTo(k, n + 1)
    BY <2>2, <2>4
  <2> QED BY <2>5
<1>5. Nat \subseteq T
  <2> HIDE DEF T
  <2> QED BY <1>3, <1>4, AllNaturals
<1>6. Cardinality(U) \in T
  <2> HIDE DEF T
  <2> QED BY <1>5, FS_CardinalityType
<1>7. PICK f : f = [t \in SUBSET U |-> f[t]] /\ UpTo(f, Cardinality(U))
  BY <1>6
<1>8. \A t \in SUBSET U : f[t] = SumStep(g, f, t)
  <2>1. \A t \in SUBSET U : Cardinality(t) <= Cardinality(U)
    BY FS_Subset
  <2> QED BY <1>7, <2>1
<1>9. [t \in SUBSET U |-> f[t]] = [t \in SUBSET U |-> SumStep(g, f, t)]
  <2> HIDE DEF UpTo
  <2> QED BY <1>8
<1>10. SumOk(g, f, U)
  <2>1. f = [t \in SUBSET U |-> SumStep(g, f, t)]
    <3> HIDE DEF UpTo
    <3> QED BY <1>7, <1>9, Zenon
  <2> QED BY <2>1 DEF SumOk
<1> QED BY <1>10

LEMMA SumPoints ==
  ASSUME NEW U, NEW g, NEW iter, SumOk(g, iter, U)
  PROVE  \A t \in SUBSET U :
           iter[t] = SumStep(g, iter, t)
BY DEF SumOk

\* Two ways to add up what agrees come to the same.
LEMMA SumsAgree ==
  ASSUME NEW U, IsFiniteSet(U), NEW S \in SUBSET U, NEW g, NEW h,
         NEW p, SumOk(g, p, S), NEW q, SumOk(h, q, U),
         AgreeOn(g, h, S)
  PROVE  \A t \in SUBSET S : p[t] = q[t]
<1>a. \A t \in SUBSET S :
        p[t] = SumStep(g, p, t)
  BY SumPoints
<1>b. \A t \in SUBSET U :
        q[t] = SumStep(h, q, t)
  BY SumPoints
<1> DEFINE Good == {t \in SUBSET S : p[t] = q[t]}
<1>1. IsFiniteSet(S)
  BY FS_Subset
<1>2. ASSUME NEW t \in SUBSET S, \A b \in t : t \ {b} \in Good
      PROVE  t \in Good
  <2>1. p[t] = IF t = {} THEN 0 ELSE g[One(t)] + p[t \ {One(t)}]
    BY <1>a DEF SumStep
  <2>2. q[t] = IF t = {} THEN 0 ELSE h[One(t)] + q[t \ {One(t)}]
    BY <1>b, t \in SUBSET U DEF SumStep
  <2>3. t # {} => One(t) \in t
    BY DEF One
  <2>4. t # {} => g[One(t)] = h[One(t)] /\ p[t \ {One(t)}] = q[t \ {One(t)}]
    BY <1>2, <2>3 DEF AgreeOn
  <2> QED BY <2>1, <2>2, <2>4
<1> HIDE DEF Good
<1>3. SUBSET S \subseteq Good
  BY <1>1, <1>2, SubsetInduction
<1> QED BY <1>3 DEF Good

LEMMA SumIsNat ==
  ASSUME NEW U, IsFiniteSet(U), NEW g \in [U -> Nat],
         NEW iter, SumOk(g, iter, U)
  PROVE  \A t \in SUBSET U : iter[t] \in Nat
<1>a. \A t \in SUBSET U :
        iter[t] = SumStep(g, iter, t)
  BY SumPoints
<1> DEFINE Good == {t \in SUBSET U : iter[t] \in Nat}
<1>1. ASSUME NEW t \in SUBSET U, \A b \in t : t \ {b} \in Good
      PROVE  t \in Good
  <2>1. iter[t] = IF t = {} THEN 0 ELSE g[One(t)] + iter[t \ {One(t)}]
    BY <1>a DEF SumStep
  <2>2. t # {} => One(t) \in t
    BY DEF One
  <2>3. t # {} => g[One(t)] \in Nat /\ iter[t \ {One(t)}] \in Nat
    BY <1>1, <2>2
  <2> QED BY <2>1, <2>3
<1> HIDE DEF Good
<1>2. SUBSET U \subseteq Good
  BY <1>1, SubsetInduction
<1> QED BY <1>2 DEF Good

\* Any element may be taken away first.
LEMMA SumWithout ==
  ASSUME NEW U, IsFiniteSet(U), NEW g \in [U -> Nat],
         NEW iter, SumOk(g, iter, U)
  PROVE  \A t \in SUBSET U :
           \A b \in t : iter[t] = g[b] + iter[t \ {b}]
<1>a. \A t \in SUBSET U :
        iter[t] = SumStep(g, iter, t)
  BY SumPoints
<1> DEFINE Good == {t \in SUBSET U :
             \A b \in t : iter[t] = g[b] + iter[t \ {b}]}
<1>1. ASSUME NEW t \in SUBSET U, \A b \in t : t \ {b} \in Good
      PROVE  t \in Good
  <2>1. CASE t = {}
    BY <2>1
  <2>2. CASE t # {}
    <3> DEFINE x == One(t)
    <3>1. x \in t /\ iter[t] = g[x] + iter[t \ {x}]
      BY <1>a, <2>2 DEF One, SumStep
    <3> HIDE DEF x
    <3>2. \A b \in t : g[b] \in Nat /\ iter[t \ {b}] \in Nat
      BY SumIsNat
    <3>3. ASSUME NEW b \in t PROVE iter[t] = g[b] + iter[t \ {b}]
      <4>1. CASE b = x
        BY <3>1, <4>1
      <4>2. CASE b # x
        <5> DEFINE r == (t \ {x}) \ {b}
        <5>1. r = (t \ {b}) \ {x} /\ b \in t \ {x} /\ x \in t \ {b}
          BY <3>1, <4>2
        <5>2. iter[t \ {x}] = g[b] + iter[r]
          BY <1>1, <3>1, <5>1
        <5>3. iter[t \ {b}] = g[x] + iter[(t \ {b}) \ {x}]
          BY <1>1, <5>1
        <5>4. iter[r] \in Nat
          <6>1. r \in SUBSET U
            OBVIOUS
          <6> QED BY <6>1, SumIsNat
        <5> HIDE DEF r, Good
        <5>5. iter[t \ {b}] = g[x] + iter[r]
          BY <5>1, <5>3
        <5> QED BY <3>1, <3>2, <5>2, <5>4, <5>5
      <4> QED BY <4>1, <4>2
    <3> QED BY <3>3
  <2> QED BY <2>1, <2>2
<1> HIDE DEF Good
<1>2. SUBSET U \subseteq Good
  BY <1>1, SubsetInduction
<1> QED BY <1>2 DEF Good

\* The sum over a set of what a function gives for its elements.
LEMMA SumFacts ==
  ASSUME NEW U, IsFiniteSet(U), NEW g, g \in [U -> Nat], NEW S \in SUBSET U
  PROVE  /\ Sum(g, S) \in Nat
         /\ \A b \in S : Sum(g, S) = g[b] + Sum(g, S \ {b})
<1>1. PICK total : SumOk(g, total, U)
  BY SumExists
<1>2. ASSUME NEW s \in SUBSET U PROVE Sum(g, s) = total[s]
  <2> DEFINE iter == CHOOSE f : SumOk(g, f, s)
  <2>1. IsFiniteSet(s)
    BY FS_Subset
  <2>2. SumOk(g, iter, s)
    <3> HIDE DEF SumOk
    <3> QED BY <2>1, SumExists
  <2>3. Sum(g, s) = iter[s]
    BY DEF Sum
  <2> HIDE DEF iter
  <2>4. iter[s] = total[s]
    <3>1. AgreeOn(g, g, s)
      BY DEF AgreeOn
    <3> QED BY <1>1, <2>2, <3>1, SumsAgree
  <2> QED BY <2>3, <2>4
<1>3. total[S] \in Nat /\ \A b \in S : total[S] = g[b] + total[S \ {b}]
  BY <1>1, SumIsNat, SumWithout
<1>4. Sum(g, S) = total[S] /\ \A b \in S : Sum(g, S \ {b}) = total[S \ {b}]
  BY <1>2
<1> QED BY <1>3, <1>4

LEMMA SumSame ==
  ASSUME NEW S, IsFiniteSet(S), NEW g, NEW h, \A x \in S : g[x] = h[x]
  PROVE  Sum(g, S) = Sum(h, S)
<1> DEFINE p == CHOOSE f : SumOk(g, f, S)
           q == CHOOSE f : SumOk(h, f, S)
<1>1. SumOk(g, p, S) /\ SumOk(h, q, S)
  <2> HIDE DEF SumOk
  <2> QED BY SumExists
<1>2. Sum(g, S) = p[S] /\ Sum(h, S) = q[S]
  BY DEF Sum
<1> HIDE DEF p, q
<1>3. p[S] = q[S]
  <2>1. S \in SUBSET S
    OBVIOUS
  <2>2. AgreeOn(g, h, S)
    BY DEF AgreeOn
  <2>3. \A t \in SUBSET S : p[t] = q[t]
    BY <1>1, <2>1, <2>2, SumsAgree
  <2> QED BY <2>1, <2>3
<1> QED BY <1>2, <1>3

\* Nothing adds up to nothing.
LEMMA SumZero ==
  ASSUME NEW S, IsFiniteSet(S), NEW g, g \in [S -> {0}]
  PROVE  Sum(g, S) = 0
<1> DEFINE Good == {t \in SUBSET S : Sum(g, t) = 0}
<1>0. g \in [S -> Nat]
  OBVIOUS
<1>1. ASSUME NEW t \in SUBSET S, \A b \in t : t \ {b} \in Good
      PROVE  t \in Good
  <2>1. CASE t = {}
    <3> DEFINE iter == CHOOSE f : SumOk(g, f, t)
    <3>1. SumOk(g, iter, t)
      <4>1. IsFiniteSet(t)
        BY FS_Subset
      <4> HIDE DEF SumOk
      <4> QED BY <4>1, SumExists
    <3>2. Sum(g, t) = iter[t]
      BY DEF Sum
    <3> HIDE DEF iter
    <3>3. iter[t] = SumStep(g, iter, t)
      BY <3>1 DEF SumOk
    <3> QED BY <2>1, <3>2, <3>3 DEF SumStep
  <2>2. CASE t # {}
    <3>1. PICK b \in t : TRUE
      BY <2>2
    <3>2. Sum(g, t) = g[b] + Sum(g, t \ {b})
      BY <1>0, SumFacts
    <3>3. g[b] = 0 /\ Sum(g, t \ {b}) = 0
      BY <1>1
    <3> QED BY <3>2, <3>3
  <2> QED BY <2>1, <2>2
<1> HIDE DEF Good
<1>2. SUBSET S \subseteq Good
  BY <1>1, SubsetInduction
<1> QED BY <1>2 DEF Good
-----------------------------------------------------------------------------
(***************************************************************************)
(* Credits and settlements.                                                *)
(***************************************************************************)
HeldBy(bs, a) == {b \in BountyIds : bs[b].claimed_by = a}

Credited(g, bs, rs) ==
  \A a \in AgentKeys : rs[a].total_tasks = Sum(g, HeldBy(bs, a))

CreditInv == Credited(settled, bounties, reputations)

\* A settlement counts one more of the bounties of its holder.
LEMMA CreditSettle ==
  ASSUME IsFiniteSet(BountyIds), EscrowInv, CreditInv,
         NEW b \in BountyIds, NEW score, NEW wasVerified, NEW wasDisputed,
         Settle(b, score, wasVerified, wasDisputed)
  PROVE  CreditInv'
<1> DEFINE a == bounties[b].claimed_by
           g == settled
           h == settled'
<1>1. /\ a \in AgentKeys /\ g \in [BountyIds -> Nat] /\ h \in [BountyIds -> Nat]
      /\ h[b] = g[b] + 1 /\ \A e \in BountyIds \ {b} : h[e] = g[e]
  BY DEF Settle, EscrowInv, TypeOK, Bounty, AgentKeys
<1>2. \A k \in AgentKeys : HeldBy(bounties', k) = HeldBy(bounties, k)
  BY DEF Settle, EscrowInv, TypeOK, Bounty, HeldBy
<1>3. \A k \in AgentKeys : reputations'[k].total_tasks =
        IF k = a THEN reputations[k].total_tasks + 1
                 ELSE reputations[k].total_tasks
  <2>1. reputations' = [reputations EXCEPT ![a] =
                          Updated(@, score, wasVerified, wasDisputed)]
    BY DEF Settle
  <2>2. reputations \in [AgentKeys -> Reputation]
    BY DEF EscrowInv, TypeOK
  <2> HIDE DEF a
  <2> QED BY <1>1, <2>1, <2>2 DEF Updated
<1>4. ASSUME NEW k \in AgentKeys
      PROVE  Sum(h, HeldBy(bounties, k)) =
               Sum(g, HeldBy(bounties, k)) + (IF k = a THEN 1 ELSE 0)
  <2> DEFINE S == HeldBy(bounties, k)
  <2>1. S \in SUBSET BountyIds /\ (b \in S <=> k = a)
    BY DEF HeldBy
  <2> HIDE DEF S, g, h, a
  <2>2. IsFiniteSet(S) /\ IsFiniteSet(S \ {b})
    BY <2>1, FS_Subset
  <2>3. Sum(g, S) \in Nat
    BY <1>1, <2>1, SumFacts
  <2>4. CASE b \notin S
    <3>1. Sum(h, S) = Sum(g, S)
      <4>1. \A x \in S : h[x] = g[x]
        BY <1>1, <2>1, <2>4
      <4> QED BY <2>2, <4>1, SumSame
    <3> QED BY <2>1, <2>3, <2>4, <3>1 DEF S
  <2>5. CASE b \in S
    <3>1. /\ Sum(h, S) = h[b] + Sum(h, S \ {b})
          /\ Sum(g, S) = g[b] + Sum(g, S \ {b})
      BY <1>1, <2>1, <2>5, SumFacts
    <3>2. Sum(h, S \ {b}) = Sum(g, S \ {b})
      <4>1. \A x \in S \ {b} : h[x] = g[x]
        BY <1>1, <2>1
      <4> QED BY <2>2, <4>1, SumSame
    <3>3. Sum(g, S \ {b}) \in Nat /\ g[b] \in Nat
      <4>1. S \ {b} \in SUBSET BountyIds
        BY <2>1
      <4> QED BY <1>1, <4>1, SumFacts
    <3>4. Sum(h, S) = Sum(g, S) + 1
      BY <1>1, <3>1, <3>2, <3>3
    <3> QED BY <2>1, <2>5, <3>4 DEF S
  <2> QED BY <2>4, <2>5
<1>5. ASSUME NEW k \in AgentKeys
      PROVE  reputations'[k].total_tasks = Sum(h, HeldBy(bounties', k))
  <2>1. reputations[k].total_tasks = Sum(g, HeldBy(bounties, k))
    BY DEF CreditInv, Credited
  <2>2. Sum(g, HeldBy(bounties, k)) \in Nat
    <3>1. HeldBy(bounties, k) \in SUBSET BountyIds
      BY DEF HeldBy
    <3> QED BY <1>1, <3>1, SumFacts
  <2> HIDE DEF a, g, h
  <2> QED BY <1>2, <1>3, <1>4, <2>1, <2>2
<1> QED BY <1>5 DEF CreditInv, Credited

\* A claim gives the agent a bounty that was never settled.
LEMMA CreditClaim ==
  ASSUME IsFiniteSet(BountyIds), EscrowInv, CreditInv,
         NEW b \in BountyIds, NEW a \in Agents,
         bounties[b].claimed_by = None, settled[b] = 0,
         bounties' = [bounties EXCEPT ![b].state = "claimed",
                                      ![b].claimed_by = a],
         settled' = settled, reputations' = reputations
  PROVE  CreditInv'
<1>1. settled \in [BountyIds -> Nat] /\ a # None /\ a \in AgentKeys
  BY EscrowAssumption DEF EscrowInv, TypeOK, EscrowAssumption, AgentKeys
<1>2. \A e \in BountyIds : bounties'[e].claimed_by =
        IF e = b THEN a ELSE bounties[e].claimed_by
  BY DEF EscrowInv, TypeOK, Bounty
<1>3. ASSUME NEW k \in AgentKeys
      PROVE  Sum(settled, HeldBy(bounties', k)) = Sum(settled, HeldBy(bounties, k))
  <2> DEFINE S == HeldBy(bounties, k)
             T == HeldBy(bounties', k)
  <2>1. S \in SUBSET BountyIds /\ T \in SUBSET BountyIds
    BY DEF HeldBy
  <2>2. /\ \A b1 \in S : Sum(settled, S) = settled[b1] + Sum(settled, S \ {b1})
        /\ \A b1 \in T : Sum(settled, T) = settled[b1] + Sum(settled, T \ {b1})
        /\ Sum(settled, S) \in Nat /\ Sum(settled, T) \in Nat
    <3> HIDE DEF S, T
    <3> QED BY <1>1, <2>1, SumFacts
  <2>3. CASE k = a
    <3>1. b \in T /\ b \notin S /\ S = T \ {b}
      BY <1>1, <1>2, <2>3 DEF HeldBy
    <3>2. Sum(settled, T) = settled[b] + Sum(settled, S)
      BY <2>2, <3>1
    <3>3. Sum(settled, T) = Sum(settled, S)
      <4> HIDE DEF S, T
      <4> QED BY <2>2, <3>2
    <3> QED BY <3>3
  <2>4. CASE k = None
    <3>1. b \in S /\ b \notin T /\ T = S \ {b}
      BY <1>1, <1>2, <2>4 DEF HeldBy
    <3>2. Sum(settled, S) = settled[b] + Sum(settled, T)
      BY <2>2, <3>1
    <3>3. Sum(settled, T) = Sum(settled, S)
      <4> HIDE DEF S, T
      <4> QED BY <2>2, <3>2
    <3> QED BY <3>3
  <2>5. CASE k # a /\ k # None
    <3>1. S = T
      BY <1>2, <2>5 DEF HeldBy
    <3> QED BY <3>1
  <2> QED BY <2>3, <2>4, <2>5
<1>4. ASSUME NEW k \in AgentKeys
      PROVE  reputations'[k].total_tasks = Sum(settled', HeldBy(bounties', k))
  <2>1. reputations[k].total_tasks = Sum(settled, HeldBy(bounties, k))
    BY DEF CreditInv, Credited
  <2> QED BY <1>3, <2>1
<1> QED BY <1>4 DEF CreditInv, Credited

\* Whatever else happens leaves holders, settlements and credits alone.
LEMMA CreditSame ==
  ASSUME CreditInv, settled' = settled, reputations' = reputations,
         \A e \in BountyIds : bounties'[e].claimed_by = bounties[e].claimed_by
  PROVE  CreditInv'
<1>1. \A k \in AgentKeys : HeldBy(bounties', k) = HeldBy(bounties, k)
  BY DEF HeldBy
<1> QED BY <1>1 DEF CreditInv, Credited

\* However often and in whatever order bounties are submitted, approved and
\* disputed: the tasks credited to an agent are the settlements of the bounties
\* it holds, no more and no fewer.
THEOREM CreditsAlwaysMatch ==
  ASSUME IsFiniteSet(BountyIds) PROVE Spec => []CreditsMatchSettlements
<1>1. Init => CreditInv
  <2> SUFFICES ASSUME Init, NEW a \in AgentKeys
               PROVE  reputations[a].total_tasks = Sum(settled, HeldBy(bounties, a))
    BY DEF CreditInv, Credited
  <2>1. reputations[a].total_tasks = 0
    BY DEF Init, NewReputation
  <2> DEFINE S == HeldBy(bounties, a)
             zero == [b \in S |-> 0]
  <2>2. S \in SUBSET BountyIds /\ IsFiniteSet(S)
    <3>1. S \in SUBSET BountyIds
      BY DEF HeldBy
    <3> QED BY <3>1, FS_Subset
  <2>3. zero \in [S -> {0}] /\ \A b \in S : zero[b] = settled[b]
    BY <2>2 DEF Init
  <2> HIDE DEF S, zero
  <2>4. Sum(zero, S) = 0 /\ Sum(zero, S) = Sum(settled, S)
    BY <2>2, <2>3, SumZero, SumSame
  <2> QED BY <2>1, <2>4 DEF S
<1>2. EscrowInv /\ CreditInv /\ [Next]_vars => CreditInv'
  <2> SUFFICES ASSUME EscrowInv, CreditInv, [Next]_vars PROVE CreditInv'
    OBVIOUS
  <2>1. ASSUME NEW b \in BountyIds, NEW c \in Clients, CreateBounty(b, c)
        PROVE  CreditInv'
    <3>1. \A e \in BountyIds : bounties'[e].claimed_by = bounties[e].claimed_by
      BY <2>1 DEF CreateBounty, EscrowInv, TypeOK, LifecycleInv
    <3> QED BY <2>1, <3>1, CreditSame DEF CreateBounty
  <2>2. ASSUME NEW b \in BountyIds, NEW a \in Agents, ClaimBounty(b, a)
        PROVE  CreditInv'
    <3>1. settled' = settled /\ reputations' = reputations
      BY <2>2 DEF ClaimBounty
    <3>2. CASE bounties' = bounties
      BY <3>1, <3>2, CreditSame
    <3>3. CASE bounties' = [bounties EXCEPT ![b].state = "claimed",
                                           ![b].claimed_by = a]
      <4>1. bounties[b].claimed_by = None /\ settled[b] = 0
        BY <2>2 DEF ClaimBounty, EscrowInv, LifecycleInv
      <4> QED BY <3>1, <3>3, <4>1, CreditClaim
    <3> QED BY <2>2, <3>2, <3>3 DEF ClaimBounty
  <2>3. ASSUME NEW b \in BountyIds, NEW a \in Agents, NEW h \in Hashes,
               SubmitWork(b, a, h)
        PROVE  CreditInv'
    <3>1. \A e \in BountyIds : bounties'[e].claimed_by = bounties[e].claimed_by
      BY <2>3 DEF SubmitWork, EscrowInv, TypeOK, Bounty
    <3> QED BY <2>3, <3>1, CreditSame DEF SubmitWork
  <2>4. ASSUME NEW b \in BountyIds, NEW c \in Clients, ApproveBounty(b, c)
        PROVE  CreditInv'
    BY <2>4, CreditSettle DEF ApproveBounty
  <2>5. ASSUME NEW b \in BountyIds, NEW c \in Clients, NEW v \in Votes,
               DisputeBounty(b, c, v)
        PROVE  CreditInv'
    <3>1. CASE /\ bounties' = [bounties EXCEPT ![b].state = "disputed"]
               /\ UNCHANGED <<reputations, known, settled>>
      <4>1. \A e \in BountyIds : bounties'[e].claimed_by = bounties[e].claimed_by
        BY <3>1 DEF EscrowInv, TypeOK, Bounty
      <4> QED BY <3>1, <4>1, CreditSame
    <3> QED BY <2>5, <3>1, CreditSettle, DisputeCases
  <2>6. ASSUME NEW a \in Agents, GetAgentReputation(a) PROVE CreditInv'
    BY <2>6, CreditSame DEF GetAgentReputation
  <2>7. CASE UNCHANGED vars
    BY <2>7, CreditSame DEF vars
  <2> QED BY <2>1, <2>2, <2>3, <2>4, <2>5, <2>6, <2>7 DEF Next
<1>3. CreditInv => CreditsMatchSettlements
  <2>1. ASSUME NEW S
        PROVE  MapThenSumSet(LAMBDA b : settled[b], S) = Sum(settled, S)
    BY DEF MapThenSumSet, MapThenFoldSet, Sum, SumOk, SumStep, One
  <2> HIDE DEF Sum
  <2> SUFFICES ASSUME CreditInv, NEW a \in AgentKeys
               PROVE  reputations[a].total_tasks =
                        MapThenSumSet(LAMBDA b : settled[b], HeldBy(bounties, a))
    BY DEF CreditsMatchSettlements, HeldBy
  <2> QED BY <2>1 DEF CreditInv, Credited
<1> QED BY <1>1, <1>2, <1>3, EscrowCorrect, PTL DEF Spec

(***************************************************************************)
(* The score.  The three functions of calculate_rs are linear recursions:  *)
(* each exists, and is known by its values.                                *)
(***************************************************************************)

Linear(c, p, B, f, n) == f[0] = c /\ \A i \in 1..n : f[i] = p * f[i - 1] + B[i]

HasLinear(c, p, B, n) == \E f \in [0..n -> Nat] : Linear(c, p, B, f, n)

LEMMA LinearOneMore ==
  ASSUME NEW m \in Nat, NEW c \in Nat, NEW p \in Nat,
         NEW B, B[m + 1] \in Nat, HasLinear(c, p, B, m)
  PROVE  HasLinear(c, p, B, m + 1)
<1>1. PICK f \in [0..m -> Nat] : Linear(c, p, B, f, m)
  BY DEF HasLinear
<1> DEFINE v == p * f[m] + B[m + 1]
           g == [i \in 0..(m + 1) |-> IF i = m + 1 THEN v ELSE f[i]]
<1>2. v \in Nat
  <2>1. f[m] \in Nat
    BY <1>1
  <2>2. p * f[m] \in Nat
    BY <2>1
  <2> QED BY <2>2
<1>3. g[m + 1] = v /\ \A i \in 0..m : g[i] = f[i]
  <2> HIDE DEF v
  <2> QED OBVIOUS
<1>4. g \in [0..(m + 1) -> Nat]
  <2> HIDE DEF v
  <2> QED BY <1>2
<1> HIDE DEF g
<1>5. ASSUME NEW i \in 1..(m + 1) PROVE g[i] = p * g[i - 1] + B[i]
  <2>1. CASE i = m + 1
    <3>1. g[i - 1] = f[m]
      BY <1>3, <2>1
    <3> QED BY <1>3, <2>1, <3>1
  <2>2. CASE i # m + 1
    <3>1. i \in 1..m /\ i \in 0..m /\ i - 1 \in 0..m
      BY <2>2
    <3>2. g[i] = f[i] /\ g[i - 1] = f[i - 1]
      BY <1>3, <3>1
    <3>3. f[i] = p * f[i - 1] + B[i]
      BY <1>1, <3>1 DEF Linear
    <3> QED BY <3>2, <3>3
  <2> QED BY <2>1, <2>2
<1>6. g[0] = c
  <2>1. f[0] = c
    BY <1>1 DEF Linear
  <2> QED BY <1>3, <2>1
<1>7. Linear(c, p, B, g, m + 1)
  BY <1>5, <1>6 DEF Linear
<1> QED BY <1>4, <1>7 DEF HasLinear

\* A sequence of naturals may be given by its first value and its steps.
LEMMA LinearExists ==
  ASSUME NEW n \in Nat, NEW c \in Nat, NEW p \in Nat, NEW B,
         \A i \in 1..n : B[i] \in Nat
  PROVE  HasLinear(c, p, B, n)
<1> DEFINE T == {m \in Nat : m <= n => HasLinear(c, p, B, m)}
<1>1. 0 \in T
  <2> DEFINE f == [i \in 0..0 |-> c]
  <2>1. f \in [0..0 -> Nat] /\ Linear(c, p, B, f, 0)
    BY DEF Linear
  <2>2. HasLinear(c, p, B, 0)
    BY <2>1 DEF HasLinear
  <2> QED BY <2>2
<1>2. ASSUME NEW m \in Nat, m \in T PROVE m + 1 \in T
  <2>1. ASSUME m + 1 <= n PROVE HasLinear(c, p, B, m + 1)
    <3>1. HasLinear(c, p, B, m) /\ B[m + 1] \in Nat
      BY <1>2, <2>1
    <3> QED BY <3>1, LinearOneMore
  <2> QED BY <2>1
<1>3. Nat \subseteq T
  <2> HIDE DEF T
  <2> QED BY <1>1, <1>2, AllNaturals
<1> QED BY <1>3

\* Its values are naturals, all of them.
LEMMA LinearIsNat ==
  ASSUME NEW n \in Nat, NEW c \in Nat, NEW p \in Nat, NEW B,
         \A i \in 1..n : B[i] \in Nat,
         NEW f, Linear(c, p, B, f, n)
  PROVE  \A i \in 0..n : f[i] \in Nat
<1> DEFINE T == {m \in Nat : m <= n => f[m] \in Nat}
<1>1. 0 \in T
  BY DEF Linear
<1>2. ASSUME NEW m \in Nat, m \in T PROVE m + 1 \in T
  <2>1. ASSUME m + 1 <= n PROVE f[m + 1] \in Nat
    <3>1. m + 1 \in 1..n /\ (m + 1) - 1 = m /\ f[m] \in Nat
      BY <1>2, <2>1
    <3>2. f[m + 1] = p * f[m] + B[m + 1] /\ B[m + 1] \in Nat
      BY <3>1 DEF Linear
    <3>3. p * f[m] \in Nat
      BY <3>1
    <3> QED BY <3>2, <3>3
  <2> QED BY <2>1
<1>3. Nat \subseteq T
  <2> HIDE DEF T
  <2> QED BY <1>1, <1>2, AllNaturals
<1> QED BY <1>3

ScaleStep(f, i) == IF i = 0 THEN 1 ELSE DecayDen * f[i - 1]
ScoredStep(h, s, f, i) ==
  IF i = 0 THEN 0 ELSE DecayNum * f[i - 1] + s[i - 1] * h[i].score
TotalStep(s, f, i) == IF i = 0 THEN 0 ELSE DecayNum * f[i - 1] + s[i - 1]

ScaleOf(n) == CHOOSE f : f = [i \in 0..n |-> ScaleStep(f, i)]
ScoredOf(h, s, n) == CHOOSE f : f = [i \in 0..n |-> ScoredStep(h, s, f, i)]
TotalOf(s, n) == CHOOSE f : f = [i \in 0..n |-> TotalStep(s, f, i)]

\* What is known of the weights and of the tasks they apply to.
Weights(s, n) == \A i \in 0..n : s[i] \in Nat
Marked(h, n) == \A i \in 1..n : h[i].score \in 0..2

IsScored(h, s, f, n) ==
  /\ \A i \in 0..n : f[i] \in Nat
  /\ f[0] = 0
  /\ \A i \in 1..n : f[i] = DecayNum * f[i - 1] + s[i - 1] * h[i].score

IsTotal(s, f, n) ==
  /\ \A i \in 0..n : f[i] \in Nat
  /\ f[0] = 0
  /\ \A i \in 1..n : f[i] = DecayNum * f[i - 1] + s[i - 1]

Rounded(x, t) == (10000 * x + t) \div (2 * t)

\* The score in terms of the three functions.
LEMMA ScoreIs ==
  ASSUME NEW h, Len(h) # 0
  PROVE  LET n == Len(h)
             s == ScaleOf(n)
             t == TotalOf(s, n)[n]
         IN  CalculateRs(h) = Rounded(ScoredOf(h, s, n)[n], t)
BY DEF CalculateRs, Rounded, ScaleOf, ScoredOf, TotalOf,
       ScaleStep, ScoredStep, TotalStep

\* A function given point by point is the one its definition chooses.
LEMMA ScaleFacts ==
  ASSUME EscrowAssumption, NEW n \in Nat
  PROVE  LET s == ScaleOf(n) IN
         /\ \A i \in 0..n : s[i] \in Nat \ {0}
         /\ s[0] = 1
         /\ \A i \in 1..n : s[i] = DecayDen * s[i - 1]
<1> DEFINE s == ScaleOf(n)
           zero == [i \in 1..n |-> 0]
<1>a. DecayDen \in Nat \ {0}
  BY DEF EscrowAssumption
<1>1. \E f : f = [i \in 0..n |-> ScaleStep(f, i)]
  <2>1. HasLinear(1, DecayDen, zero, n)
    <3>1. \A i \in 1..n : zero[i] \in Nat
      OBVIOUS
    <3> HIDE DEF zero
    <3> QED BY <1>a, <3>1, LinearExists
  <2>2. PICK f \in [0..n -> Nat] : Linear(1, DecayDen, zero, f, n)
    BY <2>1 DEF HasLinear
  <2>3. ASSUME NEW i \in 0..n PROVE f[i] = ScaleStep(f, i)
    <3>1. CASE i = 0
      BY <2>2, <3>1 DEF ScaleStep, Linear
    <3>2. CASE i # 0
      <4>1. i \in 1..n /\ i - 1 \in 0..n /\ zero[i] = 0
        BY <3>2
      <4>2. f[i] = DecayDen * f[i - 1] + 0
        BY <2>2, <4>1 DEF Linear
      <4>3. DecayDen * f[i - 1] \in Nat
        <5>1. f[i - 1] \in Nat
          BY <2>2, <4>1
        <5> QED BY <1>a, <5>1
      <4> QED BY <3>2, <4>2, <4>3 DEF ScaleStep
    <3> QED BY <3>1, <3>2
  <2>4. f = [i \in 0..n |-> ScaleStep(f, i)]
    <3> DEFINE u == [i \in 0..n |-> f[i]]
               w == [i \in 0..n |-> ScaleStep(f, i)]
    <3>1. f = u
      BY <2>2
    <3>2. u = w
      BY <2>3
    <3> HIDE DEF u
    <3> QED BY <3>1, <3>2
  <2> QED BY <2>4
<1>2. s = [i \in 0..n |-> ScaleStep(s, i)]
  BY <1>1 DEF ScaleOf
<1> HIDE DEF s
<1>3. \A i \in 0..n : s[i] = ScaleStep(s, i)
  BY <1>2
<1>4. s[0] = 1
  BY <1>3 DEF ScaleStep
<1>5. ASSUME NEW i \in 1..n PROVE s[i] = DecayDen * s[i - 1]
  <2>1. i \in 0..n /\ i # 0
    OBVIOUS
  <2> QED BY <1>3, <2>1 DEF ScaleStep
<1>6. \A i \in 0..n : s[i] \in Nat \ {0}
  <2> DEFINE T == {m \in Nat : m <= n => s[m] \in Nat \ {0}}
  <2>1. 0 \in T
    BY <1>4
  <2>2. ASSUME NEW m \in Nat, m \in T PROVE m + 1 \in T
    <3>1. ASSUME m + 1 <= n PROVE s[m + 1] \in Nat \ {0}
      <4>1. s[m] \in Nat \ {0} /\ m + 1 \in 1..n /\ (m + 1) - 1 = m
        BY <2>2, <3>1
      <4>2. s[m + 1] = DecayDen * s[m]
        BY <1>5, <4>1
      <4> QED BY <1>a, <4>1, <4>2
    <3> QED BY <3>1
  <2>3. Nat \subseteq T
    <3> HIDE DEF T
    <3> QED BY <2>1, <2>2, AllNaturals
  <2> QED BY <2>3
<1> QED BY <1>4, <1>5, <1>6 DEF s

\* The scores weighted by the decay, as the sum of the first i of them.
LEMMA ScoredFacts ==
  ASSUME EscrowAssumption, NEW n \in Nat,
         NEW s, Weights(s, n), NEW h, Marked(h, n)
  PROVE  IsScored(h, s, ScoredOf(h, s, n), n)
<1> DEFINE g == ScoredOf(h, s, n)
           add == [i \in 1..n |-> s[i - 1] * h[i].score]
<1>a. DecayNum \in Nat
  BY DEF EscrowAssumption
<1>b. \A i \in 1..n : add[i] \in Nat
  <2>1. ASSUME NEW i \in 1..n PROVE s[i - 1] * h[i].score \in Nat
    <3>1. s[i - 1] \in Nat /\ h[i].score \in Nat
      <4>1. i - 1 \in 0..n /\ h[i].score \in 0..2
        BY DEF Marked
      <4> QED BY <4>1 DEF Weights
    <3> QED BY <3>1
  <2> QED BY <2>1
<1>c. \A i \in 1..n : add[i] = s[i - 1] * h[i].score
  OBVIOUS
<1> HIDE DEF add
<1>1. \E f : f = [i \in 0..n |-> ScoredStep(h, s, f, i)]
  <2>1. HasLinear(0, DecayNum, add, n)
    BY <1>a, <1>b, LinearExists
  <2>2. PICK f \in [0..n -> Nat] : Linear(0, DecayNum, add, f, n)
    BY <2>1 DEF HasLinear
  <2>3. ASSUME NEW i \in 0..n PROVE f[i] = ScoredStep(h, s, f, i)
    <3>1. CASE i = 0
      BY <2>2, <3>1 DEF ScoredStep, Linear
    <3>2. CASE i # 0
      <4>1. i \in 1..n
        BY <3>2
      <4>2. f[i] = DecayNum * f[i - 1] + add[i]
        BY <2>2, <4>1 DEF Linear
      <4> QED BY <1>c, <3>2, <4>1, <4>2 DEF ScoredStep
    <3> QED BY <3>1, <3>2
  <2>4. f = [i \in 0..n |-> ScoredStep(h, s, f, i)]
    <3> DEFINE u == [i \in 0..n |-> f[i]]
               w == [i \in 0..n |-> ScoredStep(h, s, f, i)]
    <3>1. f = u
      BY <2>2
    <3>2. u = w
      BY <2>3
    <3> HIDE DEF u
    <3> QED BY <3>1, <3>2
  <2> QED BY <2>4
<1>2. g = [i \in 0..n |-> ScoredStep(h, s, g, i)]
  <2> DEFINE Eq(f) == f = [i \in 0..n |-> ScoredStep(h, s, f, i)]
             c == CHOOSE f : Eq(f)
  <2>1. \E f : Eq(f)
    BY <1>1
  <2>2. g = c
    BY DEF ScoredOf
  <2>3. Eq(c)
    <3> HIDE DEF Eq
    <3> QED BY <2>1
  <2> HIDE DEF c, g
  <2> QED BY <2>2, <2>3
<1> HIDE DEF g
<1>3. \A i \in 0..n : g[i] = ScoredStep(h, s, g, i)
  BY <1>2
<1>4. g[0] = 0
  BY <1>3 DEF ScoredStep
<1>5. ASSUME NEW i \in 1..n
      PROVE  g[i] = DecayNum * g[i - 1] + s[i - 1] * h[i].score
  <2>1. i \in 0..n /\ i # 0
    OBVIOUS
  <2> QED BY <1>3, <2>1 DEF ScoredStep
<1>6. Linear(0, DecayNum, add, g, n)
  BY <1>c, <1>4, <1>5 DEF Linear
<1>7. \A i \in 0..n : g[i] \in Nat
  BY <1>a, <1>b, <1>6, LinearIsNat
<1> QED BY <1>4, <1>5, <1>7 DEF g, IsScored

\* The weights themselves.
LEMMA TotalFacts ==
  ASSUME EscrowAssumption, NEW n \in Nat,
         NEW s, Weights(s, n)
  PROVE  IsTotal(s, TotalOf(s, n), n)
<1> DEFINE g == TotalOf(s, n)
           add == [i \in 1..n |-> s[i - 1]]
<1>a. DecayNum \in Nat
  BY DEF EscrowAssumption
<1>b. \A i \in 1..n : add[i] \in Nat
  <2>1. \A i \in 1..n : i - 1 \in 0..n
    OBVIOUS
  <2> QED BY <2>1 DEF Weights
<1>c. \A i \in 1..n : add[i] = s[i - 1]
  OBVIOUS
<1> HIDE DEF add
<1>1. \E f : f = [i \in 0..n |-> TotalStep(s, f, i)]
  <2>1. HasLinear(0, DecayNum, add, n)
    BY <1>a, <1>b, LinearExists
  <2>2. PICK f \in [0..n -> Nat] : Linear(0, DecayNum, add, f, n)
    BY <2>1 DEF HasLinear
  <2>3. ASSUME NEW i \in 0..n PROVE f[i] = TotalStep(s, f, i)
    <3>1. CASE i = 0
      BY <2>2, <3>1 DEF TotalStep, Linear
    <3>2. CASE i # 0
      <4>1. i \in 1..n
        BY <3>2
      <4> QED BY <1>c, <2>2, <3>2, <4>1 DEF Linear, TotalStep
    <3> QED BY <3>1, <3>2
  <2>4. f = [i \in 0..n |-> TotalStep(s, f, i)]
    <3> DEFINE u == [i \in 0..n |-> f[i]]
               w == [i \in 0..n |-> TotalStep(s, f, i)]
    <3>1. f = u
      BY <2>2
    <3>2. u = w
      BY <2>3
    <3> HIDE DEF u
    <3> QED BY <3>1, <3>2
  <2> QED BY <2>4
<1>2. g = [i \in 0..n |-> TotalStep(s, g, i)]
  BY <1>1 DEF TotalOf
<1> HIDE DEF g
<1>3. \A i \in 0..n : g[i] = TotalStep(s, g, i)
  <2> DEFINE w == [i \in 0..n |-> TotalStep(s, g, i)]
  <2>1. g = w
    BY <1>2
  <2>2. \A i \in 0..n : w[i] = TotalStep(s, g, i)
    OBVIOUS
  <2> HIDE DEF w
  <2> QED BY <2>1, <2>2
<1>4. g[0] = 0
  BY <1>3 DEF TotalStep
<1>5. ASSUME NEW i \in 1..n PROVE g[i] = DecayNum * g[i - 1] + s[i - 1]
  <2>1. i \in 0..n /\ i # 0
    OBVIOUS
  <2> QED BY <1>3, <2>1 DEF TotalStep
<1>6. Linear(0, DecayNum, add, g, n)
  BY <1>c, <1>4, <1>5 DEF Linear
<1>7. \A i \in 0..n : g[i] \in Nat
  BY <1>a, <1>b, <1>6, LinearIsNat
<1> QED BY <1>4, <1>5, <1>7 DEF g, IsTotal

(***************************************************************************)
(* Products, a step at a time.                                             *)
(***************************************************************************)
LEMMA TimesLeq ==
  ASSUME NEW p \in Nat, NEW x \in Int, NEW y \in Int, x <= y
  PROVE  p * x <= p * y /\ p * x \in Int /\ p * y \in Int
OBVIOUS

LEMMA TimesPlus ==
  ASSUME NEW p \in Nat, NEW x \in Int, NEW y \in Int
  PROVE  p * (x + y) = p * x + p * y
OBVIOUS

LEMMA TimesNat ==
  ASSUME NEW p \in Nat, NEW x \in Nat PROVE p * x \in Nat
OBVIOUS

LEMMA TimesSwap ==
  ASSUME NEW p \in Int, NEW q \in Int, NEW x \in Int
  PROVE  p * (q * x) = q * (p * x)
OBVIOUS

\* A larger numerator gives no smaller quotient.
LEMMA QuotientLeq ==
  ASSUME NEW x \in Nat, NEW y \in Nat, x <= y, NEW c \in Nat \ {0}
  PROVE  x \div c <= y \div c
<1> DEFINE a == x \div c
           b == y \div c
<1>1. a \in Int /\ b \in Int /\ c * a <= x /\ y < c * b + c
  OBVIOUS
<1> HIDE DEF a, b
<1>2. ASSUME b + 1 <= a PROVE FALSE
  <2>1. c * (b + 1) <= c * a /\ c * (b + 1) \in Int /\ c * a \in Int
    BY <1>1, <1>2, TimesLeq
  <2>2. c * (b + 1) = c * b + c
    BY <1>1
  <2>3. c * b \in Int
    BY <1>1
  <2> QED BY <1>1, <2>1, <2>2, <2>3
<1>3. a <= b
  BY <1>1, <1>2
<1> QED BY <1>3 DEF a, b

ScoreRange == 0..10000

IsScore(v) == v \in ScoreRange

\* A score between 0.0 and 1.0.
LEMMA QuotientBounds ==
  ASSUME NEW x \in Nat, NEW t \in Nat \ {0}, x <= 2 * t
  PROVE  IsScore(Rounded(x, t))
<1> DEFINE a == Rounded(x, t)
<1>1. a \in Int /\ 0 <= a
  BY DEF Rounded
<1>2. (2 * t) * a <= 10000 * x + t
  BY DEF Rounded
<1> HIDE DEF a
<1> DEFINE whole == 10000
<1>3. ~ (a >= whole + 1)
  <2> SUFFICES ASSUME a >= 10001 PROVE FALSE
    OBVIOUS
  <2>1. (2 * t) * 10001 <= (2 * t) * a
    BY <1>1, TimesLeq
  <2>2. (2 * t) * a \in Int
    BY <1>1
  <2> QED BY <1>2, <2>1, <2>2
<1>w. whole \in Int
  OBVIOUS
<1> HIDE DEF whole
<1>4. a \in 0..whole
  <2>1. a \in Int /\ 0 <= a
    BY <1>1
  <2> HIDE DEF a
  <2>2. a <= whole
    BY <1>3, <1>w, <2>1
  <2> QED BY <1>w, <2>1, <2>2
<1> QED BY <1>4 DEF a, whole, IsScore, ScoreRange

LEMMA ScoreIsInt ==
  ASSUME NEW v, IsScore(v) PROVE v \in Int
BY DEF IsScore, ScoreRange

IsHistory(h) == h \in Seq(HistoryEntry)

\* The weighted scores never exceed the weights, which are not all zero.
LEMMA ScoredWithin ==
  ASSUME EscrowAssumption, NEW h, IsHistory(h), Len(h) # 0
  PROVE  LET n == Len(h)
             s == ScaleOf(n)
             f == ScoredOf(h, s, n)
             t == TotalOf(s, n)
         IN  /\ n \in Nat \ {0}
             /\ f[n] \in Nat /\ t[n] \in Nat \ {0}
             /\ f[n] <= 2 * t[n]
<1> DEFINE n == Len(h)
           s == ScaleOf(n)
           f == ScoredOf(h, s, n)
           t == TotalOf(s, n)
<1>1. n \in Nat \ {0} /\ \A i \in 1..n : h[i].score \in 0..2
  <2>1. h \in Seq(HistoryEntry) /\ n \in Nat /\ n # 0
    BY DEF IsHistory
  <2>2. ASSUME NEW i \in 1..n PROVE h[i].score \in 0..2
    <3>1. h[i] \in HistoryEntry
      BY <2>1
    <3> QED BY <3>1 DEF HistoryEntry
  <2> QED BY <2>1, <2>2
<1>2. DecayNum \in Nat
  BY DEF EscrowAssumption
<1> HIDE DEF n
<1>3. \A i \in 0..n : s[i] \in Nat \ {0}
  <2>1. n \in Nat
    BY <1>1
  <2> QED BY <2>1, ScaleFacts
<1> HIDE DEF s
<1>w. n \in Nat /\ Weights(s, n) /\ Marked(h, n)
  BY <1>1, <1>3 DEF Weights, Marked
<1>f. IsScored(h, s, f, n) /\ IsTotal(s, t, n)
  <2>1. IsScored(h, s, f, n)
    BY <1>w, ScoredFacts
  <2>2. IsTotal(s, t, n)
    BY <1>w, TotalFacts
  <2> QED BY <2>1, <2>2
<1> HIDE DEF f, t
<1>4. /\ \A i \in 0..n : f[i] \in Nat
      /\ f[0] = 0
      /\ \A i \in 1..n : f[i] = DecayNum * f[i - 1] + s[i - 1] * h[i].score
  BY <1>f DEF IsScored
<1>5. /\ \A i \in 0..n : t[i] \in Nat
      /\ t[0] = 0
      /\ \A i \in 1..n : t[i] = DecayNum * t[i - 1] + s[i - 1]
  BY <1>f DEF IsTotal
<1> DEFINE T == {m \in Nat : m <= n => f[m] <= 2 * t[m]}
<1>6. 0 \in T
  BY <1>4, <1>5
<1>7. ASSUME NEW m \in Nat, m \in T PROVE m + 1 \in T
  <2>1. ASSUME m + 1 <= n PROVE f[m + 1] <= 2 * t[m + 1]
    <3> DEFINE x == DecayNum * f[m]
               y == DecayNum * t[m]
               z == s[m] * h[m + 1].score
    <3>1. m + 1 \in 1..n /\ (m + 1) - 1 = m /\ m \in 0..n
      BY <1>1, <2>1
    <3>2. f[m] \in Nat /\ t[m] \in Nat /\ s[m] \in Nat /\ f[m] <= 2 * t[m]
      BY <1>3, <1>4, <1>5, <1>7, <2>1, <3>1
    <3>3. f[m + 1] = x + z /\ t[m + 1] = y + s[m]
      <4>0. f[m + 1] = DecayNum * f[(m + 1) - 1] + s[(m + 1) - 1] * h[m + 1].score
        <5>1. m + 1 \in 1..n
          BY <3>1
        <5> QED BY <1>4, <5>1
      <4>1. f[m + 1] = DecayNum * f[m] + s[m] * h[m + 1].score
        BY <3>1, <4>0
      <4>2. t[m + 1] = DecayNum * t[m] + s[m]
        BY <1>5, <3>1
      <4> QED BY <4>1, <4>2
    <3>4. x <= 2 * y /\ x \in Int /\ y \in Int
      <4>1. DecayNum * f[m] <= DecayNum * (2 * t[m])
        BY <1>2, <3>2, TimesLeq
      <4>2. DecayNum * (2 * t[m]) = 2 * (DecayNum * t[m])
        BY <1>2, <3>2, TimesSwap
      <4>3. DecayNum * f[m] \in Int /\ DecayNum * t[m] \in Int
        BY <1>2, <3>2
      <4> QED BY <4>1, <4>2, <4>3
    <3>5. z <= 2 * s[m] /\ z \in Int
      <4>1. h[m + 1].score \in 0..2
        BY <1>1, <3>1
      <4>2. s[m] * h[m + 1].score <= s[m] * 2 /\ s[m] * h[m + 1].score \in Int
        BY <3>2, <4>1, TimesLeq
      <4> QED BY <3>2, <4>2
    <3> HIDE DEF x, y, z
    <3> QED BY <3>2, <3>3, <3>4, <3>5
  <2> QED BY <2>1
<1>8. Nat \subseteq T
  <2> HIDE DEF T
  <2> QED BY <1>6, <1>7, AllNaturals
<1>9. f[n] <= 2 * t[n] /\ f[n] \in Nat
  BY <1>1, <1>4, <1>8
<1>10. t[n] \in Nat \ {0}
  <2>1. n \in 1..n /\ n - 1 \in 0..n
    BY <1>1
  <2>2. t[n] = DecayNum * t[n - 1] + s[n - 1]
    BY <1>5, <2>1
  <2>3. t[n - 1] \in Nat /\ s[n - 1] \in Nat \ {0}
    BY <1>3, <1>5, <2>1
  <2>4. DecayNum * t[n - 1] \in Nat
    BY <1>2, <2>3
  <2> QED BY <2>2, <2>3, <2>4
<1> QED BY <1>1, <1>9, <1>10 DEF n, s, f, t

\* A score is between 0 and 10000 ten-thousandths.
LEMMA ScoreBounds ==
  ASSUME EscrowAssumption, NEW h, IsHistory(h)
  PROVE  IsScore(CalculateRs(h))
<1>1. CASE Len(h) = 0
  BY <1>1 DEF CalculateRs, IsScore, ScoreRange
<1>2. CASE Len(h) # 0
  <2> DEFINE n == Len(h)
             s == ScaleOf(n)
             x == ScoredOf(h, s, n)[n]
             t == TotalOf(s, n)[n]
  <2>1. CalculateRs(h) = Rounded(x, t)
    BY <1>2, ScoreIs
  <2>2. x \in Nat /\ t \in Nat \ {0} /\ x <= 2 * t
    BY <1>2, ScoredWithin
  <2> HIDE DEF x, t
  <2>3. IsScore(Rounded(x, t))
    BY <2>2, QuotientBounds
  <2> QED BY <2>1, <2>3
<1> QED BY <1>1, <1>2

(***************************************************************************)
(* Exchanging the newest task with an older one.                           *)
(***************************************************************************)
LEMMA SwapFacts ==
  ASSUME NEW h, IsHistory(h), NEW i \in 1..Len(h)
  PROVE  LET n == Len(h)
             k == Swap(h, i, n)
         IN  /\ IsHistory(k) /\ Len(k) = n
             /\ k[n] = h[i] /\ k[i] = h[n]
             /\ \A j \in 1..n : j # i /\ j # n => k[j] = h[j]
<1>1. h \in Seq(HistoryEntry) /\ Len(h) \in Nat /\ Len(h) \in 1..Len(h)
  BY DEF IsHistory
<1> QED BY <1>1 DEF Swap, IsHistory

\* The weighted scores with an older, worse task in the place of the newest.
LEMMA ScoredSwap ==
  ASSUME EscrowAssumption, DecayNum <= DecayDen,
         NEW h, IsHistory(h), NEW i \in 1..Len(h), i # Len(h),
         h[i].score <= h[Len(h)].score
  PROVE  LET n == Len(h)
             s == ScaleOf(n)
         IN  ScoredOf(Swap(h, i, n), s, n)[n] <= ScoredOf(h, s, n)[n]
<1> DEFINE n == Len(h)
           s == ScaleOf(n)
           k == Swap(h, i, n)
           f == ScoredOf(h, s, n)
           g == ScoredOf(k, s, n)
           new == h[n].score
           old == h[i].score
           d == new - old
<1>1. /\ n \in Nat /\ i \in 1..n /\ i < n
      /\ \A j \in 1..n : h[j].score \in 0..2 /\ k[j].score \in 0..2
      /\ k[n] = h[i] /\ k[i] = h[n]
      /\ \A j \in 1..n : j # i /\ j # n => k[j] = h[j]
  <2> HIDE DEF k
  <2>1. n \in Nat /\ h \in Seq(HistoryEntry)
    BY DEF IsHistory
  <2>2. /\ IsHistory(k) /\ Len(k) = n
        /\ k[n] = h[i] /\ k[i] = h[n]
        /\ \A j \in 1..n : j # i /\ j # n => k[j] = h[j]
    BY SwapFacts DEF k
  <2>3. ASSUME NEW j \in 1..n PROVE h[j].score \in 0..2 /\ k[j].score \in 0..2
    <3>1. h[j] \in HistoryEntry /\ k[j] \in HistoryEntry
      BY <2>1, <2>2 DEF IsHistory
    <3> QED BY <3>1 DEF HistoryEntry
  <2> QED BY <2>1, <2>2, <2>3
<1>2. DecayNum \in Nat /\ DecayDen \in Nat
  BY DEF EscrowAssumption
<1>n. n \in Nat
  BY <1>1
<1>3. /\ \A m \in 0..n : s[m] \in Nat
      /\ \A m \in 1..n : s[m] = DecayDen * s[m - 1]
  <2> HIDE DEF n
  <2>1. /\ \A m \in 0..n : s[m] \in Nat \ {0}
        /\ \A m \in 1..n : s[m] = DecayDen * s[m - 1]
    BY <1>n, ScaleFacts
  <2> QED BY <2>1
<1>d. d \in Nat /\ new \in Nat /\ old \in Nat /\ new = old + d
  <2>1. n \in 1..n /\ i \in 1..n
    BY <1>1
  <2>2. new \in 0..2 /\ old \in 0..2 /\ old <= new
    BY <1>1, <2>1
  <2> HIDE DEF new, old
  <2> QED BY <2>2
<1> HIDE DEF d
<1>z. \A x \in Nat : x * new = x * old + x * d
  <2> HIDE DEF new, old
  <2> QED BY <1>d, TimesPlus
<1> HIDE DEF n, s, k
<1>w. Weights(s, n) /\ Marked(h, n) /\ Marked(k, n)
  BY <1>1, <1>3 DEF Weights, Marked
<1>f. IsScored(h, s, f, n) /\ IsScored(k, s, g, n)
  BY <1>n, <1>w, ScoredFacts
<1> HIDE DEF f, g
<1>4. /\ \A m \in 0..n : f[m] \in Nat
      /\ f[0] = 0
      /\ \A m \in 1..n : f[m] = DecayNum * f[m - 1] + s[m - 1] * h[m].score
  BY <1>f DEF IsScored
<1>5. /\ \A m \in 0..n : g[m] \in Nat
      /\ g[0] = 0
      /\ \A m \in 1..n : g[m] = DecayNum * g[m - 1] + s[m - 1] * k[m].score
  BY <1>f DEF IsScored
<1>6. \A m \in Nat : m < i => g[m] = f[m]
  <2> DEFINE T == {m \in Nat : m < i => g[m] = f[m]}
  <2>1. 0 \in T
    BY <1>4, <1>5
  <2>2. ASSUME NEW m \in Nat, m \in T PROVE m + 1 \in T
    <3>1. ASSUME m + 1 < i PROVE g[m + 1] = f[m + 1]
      <4>1. m + 1 \in 1..n /\ (m + 1) - 1 = m /\ m + 1 # i /\ m + 1 # n
        BY <1>1, <3>1
      <4>2. g[m] = f[m] /\ k[m + 1] = h[m + 1]
        BY <1>1, <2>2, <3>1, <4>1
      <4>3. /\ g[m + 1] = DecayNum * g[m] + s[m] * k[m + 1].score
            /\ f[m + 1] = DecayNum * f[m] + s[m] * h[m + 1].score
        BY <1>4, <1>5, <4>1
      <4> QED BY <4>2, <4>3
    <3> QED BY <3>1
  <2>3. Nat \subseteq T
    <3> HIDE DEF T
    <3> QED BY <2>1, <2>2, AllNaturals
  <2> QED BY <2>3
<1> DEFINE Behind(m) == g[m + 1] <= f[m + 1] + s[m] * d
<1>7. ASSUME NEW m \in Nat, m + 1 = i PROVE Behind(m)
  <2>1. m \in 0..n /\ i \in 1..n /\ i - 1 = m
    BY <1>1, <1>7
  <2>2. /\ g[i] = DecayNum * g[m] + s[m] * new
        /\ f[i] = DecayNum * f[m] + s[m] * old
    <3>0. i \in 1..n
      BY <2>1
    <3>a. g[i] = DecayNum * g[i - 1] + s[i - 1] * k[i].score
      BY <1>5, <3>0
    <3>b. f[i] = DecayNum * f[i - 1] + s[i - 1] * old
      BY <1>4, <3>0
    <3>1. /\ g[i] = DecayNum * g[i - 1] + s[i - 1] * k[i].score
          /\ f[i] = DecayNum * f[i - 1] + s[i - 1] * old
      BY <3>a, <3>b
    <3>2. k[i].score = new
      BY <1>1
    <3> HIDE DEF new, old
    <3> QED BY <2>1, <3>1, <3>2
  <2>3. g[m] = f[m] /\ f[m] \in Nat /\ s[m] \in Nat
    BY <1>1, <1>3, <1>4, <1>6, <1>7, <2>1
  <2> DEFINE u == DecayNum * f[m]
             v == s[m] * old
             w == s[m] * d
  <2>4. u \in Nat /\ v \in Nat /\ w \in Nat
    <3> DEFINE a == f[m]
               x == s[m]
    <3>1. a \in Nat /\ x \in Nat /\ old \in Nat
      BY <1>d, <2>3
    <3> HIDE DEF a, x, old
    <3>2. DecayNum * a \in Nat /\ x * old \in Nat /\ x * d \in Nat
      BY <1>2, <1>d, <3>1, TimesNat
    <3> QED BY <3>2 DEF a, x
  <2>5. g[i] = u + (v + w) /\ f[i] = u + v
    <3> HIDE DEF new, old
    <3> QED BY <1>z, <2>2, <2>3
  <2> HIDE DEF u, v, w
  <2>6. g[i] <= f[i] + w
    BY <2>4, <2>5
  <2> QED BY <1>7, <2>6 DEF w
\* What the newest task is ahead is carried on by every later step, and the
\* decay never enlarges it.
<1>8. ASSUME NEW m \in Nat, m + 2 <= n, Behind(m)
      PROVE  DecayNum * g[m + 1] <= DecayNum * f[m + 1] + s[m + 1] * d
  <2>1. m \in 0..n /\ m + 1 \in 0..n /\ m + 1 \in 1..n /\ (m + 1) - 1 = m
    BY <1>n, <1>8
  <2>2. /\ g[m + 1] \in Nat /\ f[m + 1] \in Nat /\ s[m] \in Nat /\ s[m + 1] \in Nat
        /\ s[m + 1] = DecayDen * s[m]
    BY <1>3, <1>4, <1>5, <2>1
  <2>a. PICK a \in Nat, b \in Nat : a = g[m + 1] /\ b = f[m + 1]
    BY <2>2
  <2>b. PICK x \in Nat, y \in Nat : x = s[m] /\ y = s[m + 1]
    BY <2>2
  <2>3. a = g[m + 1] /\ b = f[m + 1] /\ x = s[m] /\ y = s[m + 1]
    BY <2>a, <2>b
  <2>4. a <= b + x * d /\ y = DecayDen * x
    BY <1>8, <2>2, <2>3
  <2>5. DecayNum * a <= DecayNum * b + y * d
    <3> DEFINE p == DecayNum
               q == DecayDen
               c == x * d
    <3>1. p \in Nat /\ q \in Nat /\ p <= q /\ d \in Nat
      BY <1>2, <1>d
    <3>2. c \in Nat /\ y * d = q * c /\ a <= b + c
      BY <2>4, <3>1
    <3> HIDE DEF c, p, q
    <3>3. p * a <= p * (b + c) /\ p * a \in Int
      BY <3>1, <3>2, TimesLeq
    <3>4. p * (b + c) = p * b + p * c /\ p * b \in Int /\ p * c \in Int
      BY <3>1, <3>2, TimesPlus
    <3>5. c * p <= c * q /\ c * p = p * c /\ c * q = q * c /\ c * q \in Int
      BY <3>1, <3>2, TimesLeq
    <3>6. p * a <= p * b + y * d
      BY <3>2, <3>3, <3>4, <3>5
    <3> QED BY <3>6 DEF p
  <2> QED BY <2>3, <2>5
<1>9. \A m \in Nat : i <= m + 1 /\ m + 1 < n => Behind(m)
  <2> HIDE DEF Behind
  <2> DEFINE T == {m \in Nat : i <= m + 1 /\ m + 1 < n => Behind(m)}
  <2>1. 0 \in T
    <3>1. i <= 0 + 1 => 0 + 1 = i
      BY <1>1
    <3> QED BY <1>7, <3>1
  <2>2. ASSUME NEW m \in Nat, m \in T PROVE m + 1 \in T
    <3>1. ASSUME i <= (m + 1) + 1, (m + 1) + 1 < n PROVE Behind(m + 1)
      <4>1. CASE (m + 1) + 1 = i
        BY <1>7, <4>1
      <4>2. CASE (m + 1) + 1 # i
        <5>1. i <= m + 1 /\ m + 1 < n /\ m + 2 <= n
          BY <1>1, <3>1, <4>2
        <5>2. DecayNum * g[m + 1] <= DecayNum * f[m + 1] + s[m + 1] * d
          BY <1>8, <2>2, <5>1
        <5>3. m + 2 \in 1..n /\ (m + 2) - 1 = m + 1 /\ m + 2 # i /\ m + 2 # n
          BY <1>1, <3>1, <4>2
        <5>4. /\ g[m + 2] = DecayNum * g[m + 1] + s[m + 1] * h[m + 2].score
              /\ f[m + 2] = DecayNum * f[m + 1] + s[m + 1] * h[m + 2].score
          <6>1. k[m + 2] = h[m + 2]
            BY <1>1, <5>3
          <6>2. /\ g[m + 2] = DecayNum * g[m + 1] + s[m + 1] * k[m + 2].score
                /\ f[m + 2] = DecayNum * f[m + 1] + s[m + 1] * h[m + 2].score
            BY <1>4, <1>5, <5>3
          <6> QED BY <6>1, <6>2
        <5>5. /\ s[m + 1] \in Nat /\ g[m + 1] \in Nat /\ f[m + 1] \in Nat
              /\ h[m + 2].score \in Nat
          <6>1. m + 1 \in 0..n
            BY <1>1, <5>1
          <6>2. h[m + 2].score \in 0..2
            BY <1>1, <5>3
          <6>3. s[m + 1] \in Nat
            BY <1>3, <6>1
          <6>4. g[m + 1] \in Nat /\ f[m + 1] \in Nat
            BY <1>4, <1>5, <6>1
          <6> QED BY <6>2, <6>3, <6>4
        <5>a. PICK a \in Nat, b \in Nat : a = g[m + 1] /\ b = f[m + 1]
          BY <5>5
        <5>b. PICK x \in Nat : x = s[m + 1]
          BY <5>5
        <5>c. PICK z \in Nat : z = h[m + 2].score
          BY <5>5
        <5>6. /\ a = g[m + 1] /\ b = f[m + 1]
              /\ x = s[m + 1] /\ z = h[m + 2].score
          BY <5>a, <5>b, <5>c
        <5>7. /\ DecayNum * a <= DecayNum * b + x * d
              /\ g[m + 2] = DecayNum * a + x * z /\ f[m + 2] = DecayNum * b + x * z
          BY <5>2, <5>4, <5>6
        <5>8. g[m + 2] <= f[m + 2] + s[m + 1] * d
          <6>1. /\ DecayNum * a \in Nat /\ DecayNum * b \in Nat
                /\ x * d \in Nat /\ x * z \in Nat
            BY <1>2, <1>d, TimesNat
          <6>2. DecayNum * a + x * z <= (DecayNum * b + x * z) + x * d
            BY <5>7, <6>1
          <6> QED BY <5>6, <5>7, <6>2
        <5>9. (m + 1) + 1 = m + 2
          OBVIOUS
        <5> QED BY <5>8, <5>9 DEF Behind
      <4> QED BY <4>1, <4>2
    <3> QED BY <3>1
  <2>3. Nat \subseteq T
    <3> HIDE DEF T
    <3> QED BY <2>1, <2>2, AllNaturals
  <2> QED BY <2>3
<1>10. g[n] <= f[n]
  <2>1. /\ n - 2 \in Nat /\ i <= (n - 2) + 1 /\ (n - 2) + 1 < n
        /\ (n - 2) + 2 <= n /\ (n - 2) + 1 = n - 1
    BY <1>1
  <2>2. Behind(n - 2)
    <3> HIDE DEF Behind
    <3> QED BY <1>9, <2>1
  <2>3. DecayNum * g[n - 1] <= DecayNum * f[n - 1] + s[n - 1] * d
    <3> HIDE DEF Behind
    <3>1. DecayNum * g[(n - 2) + 1] <= DecayNum * f[(n - 2) + 1] + s[(n - 2) + 1] * d
      BY <1>8, <2>1, <2>2
    <3> QED BY <2>1, <3>1
  <2>4. n \in 1..n /\ n - 1 \in 0..n
    BY <1>1
  <2>5. /\ g[n] = DecayNum * g[n - 1] + s[n - 1] * old
        /\ f[n] = DecayNum * f[n - 1] + s[n - 1] * new
        /\ s[n - 1] \in Nat /\ g[n - 1] \in Nat /\ f[n - 1] \in Nat
    BY <1>1, <1>3, <1>4, <1>5, <2>4
  <2> HIDE DEF new, old
  <2>6. PICK a \in Nat, b \in Nat, x \in Nat :
          a = g[n - 1] /\ b = f[n - 1] /\ x = s[n - 1]
    BY <2>5
  <2>7. /\ DecayNum * a <= DecayNum * b + x * d
        /\ g[n] = DecayNum * a + x * old /\ f[n] = DecayNum * b + x * new
    BY <2>3, <2>5, <2>6
  <2>8. x * new = x * old + x * d
    BY <1>z
  <2>9. /\ DecayNum * a \in Nat /\ DecayNum * b \in Nat
        /\ x * d \in Nat /\ x * old \in Nat
    BY <1>2, <1>d, TimesNat
  <2>10. DecayNum * a + x * old <= DecayNum * b + x * new
    <3> DEFINE p == DecayNum * a
               q == DecayNum * b
               v == x * d
               w == x * old
    <3>1. x * new = w + v /\ p <= q + v
      BY <2>7, <2>8, <2>9
    <3>2. p \in Nat /\ q \in Nat /\ v \in Nat /\ w \in Nat
      BY <2>9
    <3> HIDE DEF p, q, v, w
    <3>3. p + w <= q + (w + v)
      BY <3>1, <3>2
    <3>4. p + w <= q + x * new
      BY <3>1, <3>3
    <3> QED BY <3>4 DEF p, q, w
  <2> QED BY <2>7, <2>10
<1> QED BY <1>10 DEF n, s, k, f, g

\* Rounding keeps the order.
LEMMA RoundedLeq ==
  ASSUME NEW x \in Nat, NEW y \in Nat, x <= y, NEW t \in Nat \ {0}
  PROVE  Rounded(x, t) <= Rounded(y, t)
<1> DEFINE a == 10000 * x + t
           b == 10000 * y + t
           c == 2 * t
<1>1. a \in Nat /\ b \in Nat /\ a <= b /\ c \in Nat \ {0}
  OBVIOUS
<1>2. Rounded(x, t) = a \div c /\ Rounded(y, t) = b \div c
  BY DEF Rounded
<1> HIDE DEF a, b, c
<1>3. a \div c <= b \div c
  BY <1>1, QuotientLeq
<1> QED BY <1>2, <1>3

LEMMA SwapNeverRaises ==
  ASSUME EscrowAssumption, DecayNum <= DecayDen,
         NEW h, IsHistory(h), NEW i \in 1..Len(h),
         h[i].score <= h[Len(h)].score
  PROVE  CalculateRs(Swap(h, i, Len(h))) <= CalculateRs(h)
<1>0. IsScore(CalculateRs(h))
  BY ScoreBounds
<1>1. CASE i = Len(h)
  <2>1. Swap(h, i, Len(h)) = h
    BY <1>1 DEF Swap, IsHistory
  <2>2. CalculateRs(h) \in Int
    BY <1>0, ScoreIsInt
  <2> QED BY <2>1, <2>2
<1>2. CASE i # Len(h)
  <2> DEFINE n == Len(h)
             s == ScaleOf(n)
             k == Swap(h, i, n)
             x == ScoredOf(k, s, n)[n]
             y == ScoredOf(h, s, n)[n]
             t == TotalOf(s, n)[n]
  <2>1. Len(h) # 0 /\ IsHistory(k) /\ Len(k) = n
    <3>1. Len(h) \in Nat
      BY DEF IsHistory
    <3> QED BY <3>1, SwapFacts
  <2>2. y \in Nat /\ t \in Nat \ {0} /\ CalculateRs(h) = Rounded(y, t)
    BY <2>1, ScoredWithin, ScoreIs
  <2>3. x \in Nat /\ CalculateRs(k) = Rounded(x, t)
    <3> HIDE DEF k
    <3> QED BY <2>1, ScoredWithin, ScoreIs
  <2>4. x <= y
    BY <1>2, ScoredSwap
  <2> HIDE DEF x, y, t
  <2>5. Rounded(x, t) <= Rounded(y, t)
    BY <2>2, <2>3, <2>4, RoundedLeq
  <2> QED BY <2>2, <2>3, <2>5
<1> QED BY <1>1, <1>2

RecentWeighs(h) ==
  /\ IsScore(CalculateRs(h))
  /\ \A i \in DOMAIN h :
       h[i].score <= h[Len(h)].score =>
         CalculateRs(Swap(h, i, Len(h))) <= CalculateRs(h)

\* The factor decays (reputation_decay_factor is 0.95 by default, and above
\* 1 the oldest task would weigh most): whatever an agent's history is,
\* exchanging its newest task with an older, worse one never raises its
\* score, and no score leaves the range from 0.0 to 1.0.
THEOREM RecentAlwaysWeighMore ==
  ASSUME DecayNum <= DecayDen PROVE Spec => []RecentTasksWeighMore
<1>1. TypeOK => \A a \in AgentKeys : IsHistory(reputations[a].history)
  BY DEF TypeOK, Reputation, IsHistory
<1>2. ASSUME NEW h, IsHistory(h) PROVE RecentWeighs(h)
  <2>1. IsScore(CalculateRs(h)) /\ DOMAIN h = 1..Len(h)
    BY <1>2, EscrowAssumption, ScoreBounds DEF IsHistory
  <2>2. ASSUME NEW i \in DOMAIN h, h[i].score <= h[Len(h)].score
        PROVE  CalculateRs(Swap(h, i, Len(h))) <= CalculateRs(h)
    <3>1. i \in 1..Len(h)
      BY <2>1
    <3>2. EscrowAssumption
      BY EscrowAssumption
    <3> QED BY <1>2, <2>2, <3>1, <3>2, SwapNeverRaises
  <2> QED BY <2>1, <2>2 DEF RecentWeighs
<1>3. RecentTasksWeighMore <=> \A a \in AgentKeys : RecentWeighs(reputations[a].history)
  BY DEF RecentTasksWeighMore, RecentWeighs, IsScore, ScoreRange
<1>4. TypeOK => RecentTasksWeighMore
  BY <1>1, <1>2, <1>3
<1> QED BY <1>4, TypeCorrect, PTL
=============================================================================
