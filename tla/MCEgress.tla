------------------------------ MODULE MCEgress ------------------------------
(***************************************************************************)
(* Instances of Egress for TLC.                                            *)
(***************************************************************************)
EXTENDS Egress, TLC

CONSTANTS h1, h2, w

WildcardMatches == [p \in Patterns |-> {h2}]

RuleOf(n) == [protocol |-> "https", size |-> 1, rate |-> n]
OnlyThree == {RuleOf(3)}
Two == RuleOf(2)

AgentsAlike == Permutations(Agents)
=============================================================================
