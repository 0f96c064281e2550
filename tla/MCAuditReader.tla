--------------------------- MODULE MCAuditReader ---------------------------
(***************************************************************************)
(* Instances of AuditReader for TLC.  The readers and what is anchored or  *)
(* damaged share nothing but the log: a behaviour has the one or the       *)
(* other.                                                                  *)
(***************************************************************************)
EXTENDS AuditReader

VARIABLE side  \* which of the two

\* A reader of one category, oldest first, and one in the default order.
BothOrders == [category: {"auth"}, asc: BOOLEAN]

SideInit == side \in {"pages", "trees"} /\ Init

SideNext ==
  /\ Next
  /\ side = "pages" => UNCHANGED <<anchor, damages>>
  /\ side = "trees" => UNCHANGED seen
  /\ UNCHANGED side

SideSpec == SideInit /\ [][SideNext]_<<side, vars>>
=============================================================================
