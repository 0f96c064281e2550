---------------------------- MODULE MCRateLimit ----------------------------
(***************************************************************************)
(* Instances of the two limiters of ratelimit.py for TLC.  They share      *)
(* nothing: a behaviour is one of the token buckets or one of the window.  *)
(***************************************************************************)
EXTENDS RateLimit, SlidingWindow, TLC

VARIABLE limiter  \* which of the two

LimiterInit == limiter \in {"buckets", "window"} /\ Init /\ WindowInit

LimiterNext ==
  \/ limiter = "buckets" /\ Next /\ UNCHANGED <<limiter, window>>
  \/ limiter = "window" /\ WindowNext /\ UNCHANGED <<limiter, vars>>

LimiterSpec == LimiterInit /\ [][LimiterNext]_<<limiter, vars, window>>

\* A token takes three and a half ticks for an agent and less than two for all
\* together; an address gets one token and no other.
ScopeConfig ==
  [k \in Keys |-> IF k = Global THEN [rate |-> 4, burst |-> 14, cooldown |-> 2]
                  ELSE IF k \in Agents THEN [rate |-> 2, burst |-> 7, cooldown |-> 2]
                  ELSE [rate |-> 0, burst |-> 7, cooldown |-> 2]]
=============================================================================
