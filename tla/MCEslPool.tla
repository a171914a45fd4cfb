----------------------------- MODULE MCEslPool -----------------------------
(* Instances of EslPool for TLC. *)
EXTENDS EslPool, TLC

\* Connections are interchangeable, and so are the workers.
Symmetry == Permutations(Conns) \cup Permutations(Workers)
=============================================================================
