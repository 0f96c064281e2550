---------------------------- MODULE BountyLedger ----------------------------
(***************************************************************************)
(* What the escrow engine promises about credit for work, without the      *)
(* lifecycle that produces it: a bounty gets a worker at most once and     *)
(* never after it has been settled, and every settlement credits exactly   *)
(* one task to the worker the bounty has at that moment (to None when a    *)
(* bounty nobody claimed is settled by a dispute).                         *)
(***************************************************************************)
EXTENDS Naturals

CONSTANTS Ids, Workers, None

VARIABLES worker,   \* bounty -> its worker, or None
          closed,   \* bounties settled at least once
          credits   \* worker or None -> tasks credited so far

ledger == <<worker, closed, credits>>

Init ==
  /\ worker = [b \in Ids |-> None]
  /\ closed = {}
  /\ credits = [w \in Workers \cup {None} |-> 0]

Assign(b, w) ==
  /\ worker[b] = None
  /\ b \notin closed
  /\ worker' = [worker EXCEPT ![b] = w]
  /\ UNCHANGED <<closed, credits>>

Credit(b) ==
  /\ closed' = closed \cup {b}
  /\ credits' = [credits EXCEPT ![worker[b]] = @ + 1]
  /\ UNCHANGED worker

Next == \E b \in Ids : Credit(b) \/ \E w \in Workers : Assign(b, w)

Spec == Init /\ [][Next]_ledger
=============================================================================
