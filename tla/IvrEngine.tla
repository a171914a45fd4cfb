----------------------------- MODULE IvrEngine -----------------------------
(***************************************************************************)
(* The IVR engine (application/ivr): Execute interprets the graph of a     *)
(* flow node by node, a sub_flow node runs another flow in a session of    *)
(* its own inside the handler. The session's variables are represented by  *)
(* the set of those that are not empty, one for each outcome that a later  *)
(* node can look at; those that only copy the node's configuration are     *)
(* left out. What the caller, FreeSWITCH and the HTTP services answer is   *)
(* any of the outcomes a handler tells apart.                              *)
(* A handler is the set of its results [exit, vars].                       *)
(***************************************************************************)
EXTENDS IvrFlow

CONSTANTS
    IvrFlows,      \* the flows of the tenant
    FlowGraphs,    \* flow -> the graphs it may have been given
    IvrProviders,  \* what is wired: subset of {"nlu", "queue", "sentiment", "crm"}
    MaxSteps,      \* maxSteps of Execute, 1000
    MaxDepth       \* bound: sub-flows inside sub-flows

ASSUME EngineAssumption ==
    /\ \A f \in IvrFlows : \A g \in FlowGraphs[f] : Len(g) \in Nat /\ DOMAIN g = 1..Len(g)
    /\ MaxSteps \in Nat \ {0}
    /\ MaxDepth \in Nat \ {0}
    /\ IvrProviders \subseteq {"nlu", "queue", "sentiment", "crm"}

VARIABLES
    graphOf,   \* flow -> graph, as stored
    stack,     \* the sessions, the innermost last
    ivrRun,    \* "none", "running", "ended", "failed"
    ivrError,  \* why a session failed (history)
    visits     \* nodes handled by all sessions together (history)

engineVars == <<graphOf, stack, ivrRun, ivrError, visits>>

Outcome(exit, got) == [exit |-> exit, vars |-> got]
Ok(got, name) == Outcome("success", got \cup {name})

StartHandle(n, got) == {Outcome("default", got \cup n.cfg.vars)}
SetVariableHandle(n, got) == {Outcome("default", got \cup n.cfg.vars)}
PlayHandle(n, got) == {Outcome("default", got), Outcome("error", got \cup {"play_error"})}
HangupReasonHandle(n, got) == {Outcome("default", got \cup {"hangup_reason"})}
CollectDTMFHandle(n, got) == {Ok(got, "dtmf_input"), Outcome("timeout", got \ {"dtmf_input"})}
VoicemailHandle(n, got) == {Outcome("default", got \cup {"voicemail_file"}),
                             Outcome("error", got \cup {"voicemail_error"})}
SatisfactionRatingHandle(n, got) == {Ok(got, "csat_rating"), Outcome("timeout", got \ {"csat_rating"})}
\* Without a provider, and when nothing was said, the result is empty.
ASRHandle(n, got) == {Ok(got, "asr_result")}
                      \cup {Outcome(x, got \ {"asr_result"}) : x \in {"success", "error"}}
\* The conditions examined ask whether a variable is not empty.
BranchHandle(n, got) == {Outcome(IF n.cfg.vars \subseteq got THEN "match" ELSE "default", got)}
TransferToAgentHandle(n, got) == {Outcome("success", got), Outcome("error", got \cup {"transfer_error"})}
TransferToExternalHandle(n, got) == {Outcome("success", got), Outcome("error", got \cup {"transfer_error"})}
BlindTransferHandle(n, got) == {Outcome("success", got), Outcome("error", got \cup {"transfer_error"})}
CallbackHandle(n, got) == {Outcome("confirm", got \cup {"callback_requested"}), Outcome("reject", got)}
\* No URL, or one that validateURL refuses: the exit "error". A status other
\* than 2xx takes it too, with the body in the variable.
FunctionHandle(n, got) ==
    IF ~n.cfg.url THEN {Outcome("error", got)}
    ELSE {Ok(got, "response"), Outcome("error", got \ {"response"}), Outcome("error", got \cup {"response"})}
HTTPRequestHandle(n, got) ==
    IF ~n.cfg.url THEN {Outcome("error", got)}
    ELSE {Ok(got, "response"), Outcome("error", got), Outcome("error", got \cup {"response"})}
JSONParserHandle(n, got) ==
    IF n.cfg.vars \cap got = {} THEN {Outcome("error", got)}
    ELSE {Outcome("error", got), Outcome("success", got), Ok(got, "field")}
SMSHandle(n, got) == {Ok(got, "sms_sent")} \cup (IF n.cfg.url THEN {Outcome("error", got)} ELSE {})
DigitalEmployeeHandle(n, got) == {Ok(got, "digital_employee_id")}
\* A recognised intent is an exit of the node, or else "default".
NLUHandle(n, got) ==
    {Outcome("fallback", got)}
    \cup (IF "asr_result" \in got /\ "nlu" \in IvrProviders
          THEN {Outcome(x, got \cup {"nlu_intent"}) : x \in DOMAIN n.exits \cup {"default"}} ELSE {})
QueuePositionHandle(n, got) ==
    {Outcome(x, got \cup {"queue_position"}) :
        x \in IF "queue" \in IvrProviders THEN {"default", "empty", "error"} ELSE {"default"}}
SentimentGateHandle(n, got) ==
    {Outcome(x, got \cup {"sentiment_score"}) :
        x \in IF "sentiment" \in IvrProviders /\ n.cfg.vars \subseteq got
              THEN {"negative", "neutral", "positive", "error"} ELSE {"neutral"}}
CustomerLookupHandle(n, got) ==
    {Outcome(x, got \cup {"customer_level"}) :
        x \in IF "crm" \in IvrProviders /\ "caller_number" \in got
              THEN {"svip", "vip", "default", "not_found"} ELSE {"default"}}

\* The registry of DefaultEngine.
Handle(n, got) ==
    CASE n.type = "start"                -> StartHandle(n, got)
      [] n.type = "set_variable"         -> SetVariableHandle(n, got)
      [] n.type = "play"                 -> PlayHandle(n, got)
      [] n.type = "hangup_reason"        -> HangupReasonHandle(n, got)
      [] n.type = "collect_dtmf"         -> CollectDTMFHandle(n, got)
      [] n.type = "voicemail"            -> VoicemailHandle(n, got)
      [] n.type = "satisfaction_rating"  -> SatisfactionRatingHandle(n, got)
      [] n.type = "asr"                  -> ASRHandle(n, got)
      [] n.type = "branch"               -> BranchHandle(n, got)
      [] n.type = "transfer_to_agent"    -> TransferToAgentHandle(n, got)
      [] n.type = "transfer_to_external" -> TransferToExternalHandle(n, got)
      [] n.type = "blind_transfer"       -> BlindTransferHandle(n, got)
      [] n.type = "callback"             -> CallbackHandle(n, got)
      [] n.type = "function"             -> FunctionHandle(n, got)
      [] n.type = "http_request"         -> HTTPRequestHandle(n, got)
      [] n.type = "json_parser"          -> JSONParserHandle(n, got)
      [] n.type = "sms"                  -> SMSHandle(n, got)
      [] n.type = "digital_employee"     -> DigitalEmployeeHandle(n, got)
      [] n.type = "nlu"                  -> NLUHandle(n, got)
      [] n.type = "queue_position"       -> QueuePositionHandle(n, got)
      [] n.type = "sentiment_gate"       -> SentimentGateHandle(n, got)
      [] n.type = "customer_lookup"      -> CustomerLookupHandle(n, got)

-----------------------------------------------------------------------------
\* nodeMap: the last node of an id counts.
NodeAt(g, id) == g[CHOOSE i \in DOMAIN g : g[i].id = id /\ \A j \in (i + 1)..Len(g) : g[j].id # id]
StartOf(g) == CHOOSE i \in DOMAIN g : g[i].type = "start"
SessionOn(g, got) == [graph |-> g, node |-> g[StartOf(g)].id, steps |-> 0, vars |-> got]

EngineInit ==
    /\ graphOf \in {h \in [IvrFlows -> UNION {FlowGraphs[f] : f \in IvrFlows}] :
                      \A f \in IvrFlows : h[f] \in FlowGraphs[f] /\ ValidateGraph(h[f])}
    /\ stack = <<>>
    /\ ivrRun = "none"
    /\ ivrError = "none"
    /\ visits = 0

\* maxSteps bounds a session, not a call: a sub-flow counts anew each time it
\* is entered.
VisitBound ==
    LET bound[d \in 0..MaxDepth] == IF d = 0 THEN 0 ELSE MaxSteps + MaxSteps * bound[d - 1]
    IN  bound[MaxDepth]
CountVisit == IF visits > VisitBound THEN visits ELSE visits + 1

TopFrame == stack[Len(stack)]
Below == SubSeq(stack, 1, Len(stack) - 1)
Current == NodeAt(TopFrame.graph, TopFrame.node)

\* The exit of the node, or its exit "default", or the session fails; the
\* failure of a sub-flow is the exit "error" of the node it was started from.
Onward(frames, n, result) ==
    LET top  == frames[Len(frames)]
        exit == IF result.exit \in DOMAIN n.exits THEN result.exit ELSE "default"
        fails(why) == [frames |-> SubSeq(frames, 1, Len(frames) - 1), failed |-> TRUE, why |-> why]
    IN  IF exit \notin DOMAIN n.exits THEN fails("no exit")
        ELSE IF n.exits[exit] \notin NodesOf(top.graph) THEN fails("no target")
        ELSE [frames |-> Append(SubSeq(frames, 1, Len(frames) - 1),
                  [top EXCEPT !.node = n.exits[exit], !.steps = @ + 1, !.vars = result.vars]),
              failed |-> FALSE, why |-> "none"]

\* A session that ends with an error: of the call, or of a sub-flow, whose
\* node then takes its exit "error".
Fail(why) ==
    /\ ivrError' = why
    /\ IF Len(stack) = 1 THEN stack' = <<>> /\ ivrRun' = "failed"
       ELSE /\ stack' = [Below EXCEPT ![Len(stack) - 1].vars = @ \cup {"sub_error"}]
            /\ UNCHANGED ivrRun
    /\ UNCHANGED graphOf

\* A sub_flow node is left when the session above it is gone; the mark says how.
Returned == {"sub_ok", "sub_error"} \cap TopFrame.vars # {}

ExecuteFlow(f) ==
    /\ ivrRun = "none"
    /\ stack' = <<SessionOn(graphOf[f], {"caller_number"})>>
    /\ ivrRun' = "running"
    /\ UNCHANGED <<graphOf, ivrError, visits>>

\* Mutant: the step is not counted.
MutantTakeExit(n, result) ==
    LET next == Onward(stack, n, result) IN
    /\ visits' = CountVisit
    /\ IF next.failed THEN Fail(next.why)
       ELSE /\ stack' = [next.frames EXCEPT ![Len(stack)].steps = TopFrame.steps]
            /\ UNCHANGED <<graphOf, ivrRun, ivrError>>

TakeExit(n, result) ==
    LET next == Onward(stack, n, result) IN
    /\ visits' = CountVisit
    /\ IF next.failed THEN Fail(next.why)
       ELSE /\ stack' = next.frames
            /\ UNCHANGED <<graphOf, ivrRun, ivrError>>

\* Mutant: one step too many.
MutantInStep == ivrRun = "running" /\ TopFrame.steps <= MaxSteps

InStep == ivrRun = "running" /\ TopFrame.steps < MaxSteps

StepNode ==
    /\ InStep
    /\ Current.type \notin {"end", "sub_flow"}
    /\ \E result \in Handle(Current, TopFrame.vars) : TakeExit(Current, result)

\* SubFlowHandler: an unknown flow is the exit "error"; a known one runs in
\* a session with a copy of the variables and a step counter of its own.
SubFlowHandle ==
    /\ InStep /\ Current.type = "sub_flow" /\ ~Returned
    /\ Current.cfg.flow \in IvrFlows
    /\ Len(stack) < MaxDepth
    /\ stack' = Append(stack, SessionOn(graphOf[Current.cfg.flow], TopFrame.vars))
    /\ visits' = visits
    /\ UNCHANGED <<graphOf, ivrRun, ivrError>>
SubFlowUnknown ==
    /\ InStep /\ Current.type = "sub_flow" /\ ~Returned
    /\ Current.cfg.flow \notin IvrFlows
    /\ TakeExit(Current, Outcome("error", TopFrame.vars))
SubFlowReturns ==
    /\ InStep /\ Current.type = "sub_flow" /\ Returned
    /\ TakeExit(Current, Outcome(IF "sub_ok" \in TopFrame.vars THEN "default" ELSE "error",
                                TopFrame.vars \ {"sub_ok", "sub_error"}))

\* The end of a flow; the output variables of a sub-flow go to its caller.
EndNode ==
    /\ InStep /\ Current.type = "end"
    /\ IF Len(stack) = 1 THEN stack' = <<>> /\ ivrRun' = "ended"
       ELSE LET caller == stack[Len(stack) - 1]
                out    == NodeAt(caller.graph, caller.node).cfg.vars
            IN  /\ stack' = [Below EXCEPT ![Len(stack) - 1].vars =
                                 @ \cup (out \cap TopFrame.vars) \cup {"sub_ok"}]
                /\ UNCHANGED ivrRun
    /\ visits' = CountVisit
    /\ UNCHANGED <<graphOf, ivrError>>

OutOfSteps ==
    /\ ivrRun = "running" /\ TopFrame.steps = MaxSteps
    /\ Fail("max steps")
    /\ visits' = visits

EngineStep == StepNode \/ SubFlowHandle \/ SubFlowUnknown \/ SubFlowReturns \/ EndNode \/ OutOfSteps
EngineNext == EngineStep \/ \E f \in IvrFlows : ExecuteFlow(f)
EngineSpec == EngineInit /\ [][EngineNext]_engineVars

-----------------------------------------------------------------------------
EngineTypeOK ==
    /\ ivrRun \in {"none", "running", "ended", "failed"}
    /\ Len(stack) \in 0..MaxDepth /\ (ivrRun = "running" <=> stack # <<>>)
    /\ \A i \in DOMAIN stack : stack[i].steps \in 0..MaxSteps

\* A flow whose graph was validated is never lost: a session fails because a
\* node lacks the exit its handler names and a "default", or because it takes
\* too long; never because an exit leads nowhere.
NeverLost == ivrError \in {"none", "no exit", "max steps"}

\* The nodes a call can go through with one level of sub-flows are at most
\* MaxSteps + MaxSteps^2, and a power more for each further level, whatever
\* cycles the graphs have: each session stops at its own limit and a sub-flow
\* that failed costs its caller a step.
VisitsBounded == visits <= VisitBound

\* The flow of a call ends, although graphs may have cycles.
EngineFairness == WF_engineVars(EngineStep)
ExecutionEnds == ivrRun = "running" ~> ivrRun \in {"ended", "failed"}
=============================================================================
