----------------------------- MODULE MCLiveness -----------------------------
(***************************************************************************)
(* What must eventually happen in the components whose own goroutines make *)
(* it happen, under the fairness that each of their modules states. The    *)
(* components share no state, so a behaviour is one of one component:      *)
(* "focus" says which, and the others stay in their initial states. The    *)
(* dialer's campaigns have all modes here.                                 *)
(***************************************************************************)
EXTENDS EslPool, Dialer, Callback, Webhook, WsHub, IvrEngine, TLC

CONSTANTS
    Focus,     \* the components a run looks at
    w1, w2,    \* goroutines and connections
    g1,        \* a caller of Grow
    k1, e1     \* a webhook, the key of a hub; an event

VARIABLE focus

-----------------------------------------------------------------------------
\* The two goroutines, and the numbers of their loops and events.
Two == {w1, w2}
Nth(w) == IF w = w1 THEN 1 ELSE 2

\* Dialer: one process, a Monday morning, no days configured.
MCInstOf == [w \in DialWorkers |-> 1]
Monday == [day |-> "mon", hour |-> 10]
MCClock == {Monday}

\* Webhook: a good URL or a bad one.
MCForms == {[url |-> u, events |-> {e1}, isActive |-> TRUE] : u \in {"good", "bad"}}

\* IVR: a flow with a cycle, which another one runs, again when it failed.
Node(id, type, exits, flow) ==
    [id |-> id, type |-> type, exits |-> exits, cfg |-> [vars |-> {}, url |-> FALSE, flow |-> flow]]
Cycle(type) ==
    <<Node(1, "start", [x \in {"default"} |-> 2], "none"),
      Node(2, type, [x \in {"default", "error"} |-> IF x = "error" THEN 1 ELSE 3], "leaf"),
      Node(3, "end", <<>>, "none")>>
MCFlowGraphs == [main |-> {Cycle("sub_flow")}, leaf |-> {Cycle("play")}]

-----------------------------------------------------------------------------
LiveInit ==
    /\ focus \in Focus
    /\ Init
    /\ DialerInit
    /\ CallbackInit
    /\ WebhookInit
    /\ HubInit
    /\ EngineInit /\ FlowInit
    \* The components that are not looked at have one initial state.
    /\ focus # "hub" => hubKind = "agent"

\* A step of one component leaves the others alone.
LiveNext ==
    \/ /\ focus = "pool" /\ Next
       /\ UNCHANGED <<focus, diallingVars, callbackVars, webhookVars, hubVars, engineVars, flowVars>>
    \/ /\ focus = "dialer" /\ DialerNext
       /\ UNCHANGED <<focus, vars, callbackVars, webhookVars, hubVars, engineVars, flowVars>>
    \/ /\ focus = "callbacks" /\ CallbackNext
       /\ UNCHANGED <<focus, vars, diallingVars, webhookVars, hubVars, engineVars, flowVars>>
    \/ /\ focus = "webhooks" /\ WebhookNext
       /\ UNCHANGED <<focus, vars, diallingVars, callbackVars, hubVars, engineVars, flowVars>>
    \/ /\ focus = "hub" /\ HubNext
       /\ UNCHANGED <<focus, vars, diallingVars, callbackVars, webhookVars, engineVars, flowVars>>
    \/ /\ focus = "engine" /\ EngineNext
       /\ UNCHANGED <<focus, vars, diallingVars, callbackVars, webhookVars, hubVars, flowVars>>

liveVars == <<focus, vars, diallingVars, callbackVars, webhookVars, hubVars, engineVars, flowVars>>

In(component) == focus = component /\ focus' = focus
focusVars ==
    CASE focus = "pool" -> vars
      [] focus = "dialer" -> diallingVars
      [] focus = "callbacks" -> callbackVars
      [] focus = "webhooks" -> webhookVars
      [] focus = "hub" -> hubVars
      [] focus = "engine" -> engineVars

\* The conjunction of what the modules state (Fairness of EslPool,
\* DialerFairness, CallbackFairness, WebhookFairness, HubFairness and
\* EngineFairness). As the focus stays, the fairness of an action of each
\* component is the fairness of their disjunction.
LiveFairness ==
    /\ \A w \in Two : SF_focusVars(
         \/ In("pool") /\ AcquireReceive(w)
         \/ In("dialer") /\ (\E v \in Two : BatchDial(Nth(w), v))
         \/ In("webhooks") /\ Acquire(<<Nth(w), k1>>)
         \/ In("hub") /\ (w = w1 /\ Unregister(w)))
    /\ \A w \in Two : WF_focusVars(
         \/ In("pool") /\ Progress(w)
         \/ In("dialer") /\ (Running(w) /\ UNCHANGED errors)
         \/ In("callbacks") /\ SchedulerStep(w)
         \/ /\ In("webhooks")
            /\ LET d == <<Nth(w), k1>> IN
               \/ NoRequest(d)
               \/ LogDelivery(d)
               \/ \E answer \in Answers : Post(d, answer)
         \/ In("hub") /\ (w = w1 /\ WriteFails(w))
         \/ In("engine") /\ EngineStep)
    /\ \A w \in Two : WF_focusVars(
         \/ In("pool") /\ Grow(IF w = w1 THEN g1 ELSE AutoScaler)
         \/ In("dialer") /\ (TickStops(Nth(w)) \/ Batch(Nth(w)) \/ BatchEnds(Nth(w)))
         \/ /\ In("hub")
            /\ LET b == IF w = w1 THEN w1 ELSE e1 IN
               EndCast(b) \/ SendOne(b, w1))
    /\ \A w \in Two : WF_focusVars(
         \/ In("pool") /\ AutoScale
         \/ In("dialer") /\ Tick(Nth(w), Monday))
    /\ WF_focusVars(In("dialer") /\ RetryDue(1) /\ UNCHANGED dialerVars)

LiveSpec == LiveInit /\ [][LiveNext]_liveVars /\ LiveFairness

-----------------------------------------------------------------------------
\* What was begun comes to its end: a callback is completed or given up, a
\* webhook delivery is through, a client that is gone leaves its hub and the
\* flow of a call ends, whatever fails, restarts or is overwritten on the way.
WorkEnds == CallbackSettles /\ DeliveryEnds /\ GoneClientsLeave /\ ExecutionEnds
=============================================================================
