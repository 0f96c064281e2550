------------------------------ MODULE MCEscrow ------------------------------
(***************************************************************************)
(* Instances of Escrow for TLC.                                            *)
(***************************************************************************)
EXTENDS Escrow, TLC
=============================================================================
