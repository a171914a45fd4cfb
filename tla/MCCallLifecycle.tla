-------------------------- MODULE MCCallLifecycle --------------------------
(***************************************************************************)
(* Instances of CallLifecycle for TLC.                                     *)
(***************************************************************************)
EXTENDS CallLifecycle, TLC

Symmetry == Permutations(Calls) \cup Permutations(Sessions) \cup Permutations(Listeners)
                \cup Permutations(Agents)
=============================================================================
