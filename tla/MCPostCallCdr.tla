---------------------------- MODULE MCPostCallCdr ----------------------------
(***************************************************************************)
(* Instances of PostCallCdr for TLC.                                       *)
(***************************************************************************)
EXTENDS PostCallCdr, TLC

Symmetry == Permutations(Workers)
=============================================================================
