------------------------------ MODULE MCAgents ------------------------------
(***************************************************************************)
(* The presence of an agent, safety and liveness, and that calls do not    *)
(* wait in a queue for ever. The two share no state (the dispatcher reads  *)
(* the status of an agent as an input), so a behaviour is one of one       *)
(* component: "focus" says which, the other stays in its initial state.    *)
(***************************************************************************)
EXTENDS AgentPresence, TLC

CONSTANTS
    Focus,     \* the components a run looks at
    s1,        \* a goroutine that runs requests
    w1, w2     \* timers, and calls

VARIABLES
    focus,
    call, ivr, queue, stamp, active, overdue, idle, claim, disp, rings, rung, unseen, lost, acdFaults

acdVars == <<call, ivr, queue, stamp, active, overdue, idle, claim, disp, rings, rung, unseen,
             lost, acdFaults>>

-----------------------------------------------------------------------------
Two == {w1, w2}

\* Two calls, the second urgent, for a group of one agent with room for one,
\* which overflows into a group that has no agents.
Acd == INSTANCE AcdDispatch WITH
    Calls <- Two, Agents <- {"a1"}, Groups <- {"g1", "g2"}, Dispatchers <- {"d1"},
    Target <- [c \in Two |-> "g1"], Priority <- (w1 :> 0 @@ w2 :> 1),
    Members <- [g \in {"g1", "g2"} |-> IF g = "g1" THEN {"a1"} ELSE {}],
    MaxQueueSize <- [g \in {"g1", "g2"} |-> 1],
    OverflowGroup <- [g \in {"g1", "g2"} |-> IF g = "g1" THEN "g2" ELSE None],
    Expiring <- {"g1", "g2"}, MaxFaults <- 1, faults <- acdFaults

AgentsInit == focus \in Focus /\ Init /\ Acd!Init

AgentsNext ==
    \/ focus = "presence" /\ Next /\ UNCHANGED <<focus, acdVars>>
    \/ focus = "acd" /\ Acd!Next /\ UNCHANGED <<focus, vars>>

agentsVars == <<focus, vars, acdVars>>

In(component) == focus = component /\ focus' = focus
focusVars == IF focus = "presence" THEN vars ELSE acdVars

\* The conjunction of what the modules state (Fairness of AgentPresence and of
\* AcdDispatch). As the focus stays, the fairness of an action of each is the
\* fairness of their disjunction.
AgentsFairness ==
    /\ WF_focusVars(In("presence") /\ Continue(s1))
    /\ WF_focusVars(In("presence") /\ Continue(Sweeper))
    /\ WF_focusVars(\/ In("presence") /\ ContinueSession(s1)
                    \/ In("acd") /\ Acd!Dispatch("d1"))
    /\ \A w \in Two :
         /\ WF_focusVars(In("presence") /\ Continue(w))
         /\ WF_focusVars(\/ In("presence") /\ TimerStep(w)
                         \/ In("acd") /\ Acd!WaitTooLong(w))

AgentsSpec == AgentsInit /\ [][AgentsNext]_agentsVars /\ AgentsFairness

-----------------------------------------------------------------------------
\* A call that waits in a queue that expires leaves it: see AcdDispatch.
WaitEnds == Acd!WaitEnds
=============================================================================
