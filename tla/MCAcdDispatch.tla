--------------------------- MODULE MCAcdDispatch ---------------------------
(***************************************************************************)
(* Values for AcdDispatch: queues for one call each; the first group       *)
(* overflows into the second, where there is one; c2 is the urgent call.   *)
(***************************************************************************)
EXTENDS AcdDispatch, TLC

CONSTANTS c1, c2, g1, g2

MCTarget == [c \in Calls |-> g1]
MCPriority == [c \in Calls |-> IF c = c2 THEN 1 ELSE 0]
MCMembers == [g \in Groups |-> Agents]
MCMaxQueueSize == [g \in Groups |-> 1]
MCOverflowGroup == [g \in Groups |-> IF g = g1 /\ g2 \in Groups THEN g2 ELSE None]

Symmetry == Permutations(Dispatchers)
=============================================================================
