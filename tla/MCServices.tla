----------------------------- MODULE MCServices -----------------------------
(***************************************************************************)
(* The components that share no state with one another, for TLC. Each is   *)
(* an instance of its own; "focus" says which one a behaviour is of, and   *)
(* the others stay in their initial states. What such a component shares   *)
(* with the rest of the system (a call that ends, a customer, an agent) is *)
(* an input of its actions.                                                *)
(* The model values stand for different things in different components:    *)
(* x1 and x2 are interchangeable in every one of them, and so are y1, y2.  *)
(***************************************************************************)
EXTENDS
    Dialer, Webhook, Callback, OutboundRouting, TrunkHealth, ImSessions,
    WsHub, IvrEngine, Ticket, QualityInspection, Administration,
    Annotation, CommAgents, AiJobs, Crm, Identity, TLC

CONSTANTS
    Focus,              \* the components a run looks at
    x1, x2, y1, y2,     \* goroutines, tenants, rows
    z1, z2,             \* what is not interchangeable
    i1                  \* the one process of the dialer

VARIABLE focus

-----------------------------------------------------------------------------
\* Dialer: one process, a Monday morning, no days configured.
MCInstOf == [w \in DialWorkers |-> i1]
MCClock == {[day |-> "mon", hour |-> 10]}
MCEveryDay == {}

\* Webhook: a subscription with a good URL, one with a bad URL, one inactive.
MCForms == {[url |-> "good", events |-> {z1}, isActive |-> TRUE],
            [url |-> "bad", events |-> {z1}, isActive |-> TRUE],
            [url |-> "good", events |-> {z1}, isActive |-> FALSE]}

-----------------------------------------------------------------------------
\* IVR: nodes of every type, with the configuration the handlers look at.
MCNodeTypes == {
    "start", "end", "set_variable", "play", "hangup_reason",
    "collect_dtmf", "voicemail", "satisfaction_rating", "asr", "branch",
    "transfer_to_agent", "transfer_to_external", "blind_transfer",
    "callback", "function", "http_request", "json_parser", "sms",
    "digital_employee", "nlu", "queue_position", "sentiment_gate",
    "customer_lookup", "sub_flow"}

ConfiguredNode(id, type, exits, got, url, flow) ==
    [id |-> id, type |-> type, exits |-> exits, cfg |-> [vars |-> got, url |-> url, flow |-> flow]]
Node(id, type, exits) == ConfiguredNode(id, type, exits, {}, FALSE, "none")
All(exits, target) == [x \in exits |-> target]
NoExits == <<>>

\* What an editor may save: two good graphs, then an exit into nothing, a node
\* that cannot be reached, two nodes with one id, and two starts.
MCGraphs == {
    <<Node(1, "start", All({"default"}, 2)), Node(2, "end", NoExits)>>,
    <<Node(1, "start", All({"default"}, 2)),
      Node(2, "play", [x \in {"default", "error"} |-> IF x = "error" THEN 1 ELSE 3]),
      Node(3, "end", NoExits)>>,
    <<Node(1, "start", All({"default"}, 4)), Node(2, "end", NoExits)>>,
    <<Node(1, "start", All({"default"}, 3)), Node(2, "play", All({"default"}, 3)),
      Node(3, "end", NoExits)>>,
    <<Node(1, "start", All({"default"}, 2)), Node(2, "play", All({"default"}, 2)),
      Node(2, "end", NoExits)>>,
    <<Node(1, "start", All({"default"}, 2)), Node(2, "start", All({"default"}, 3)),
      Node(3, "end", NoExits)>>}

\* A node of each type behind the start, from which errors lead back to it.
Around(type, got, url) ==
    <<ConfiguredNode(1, "start", All({"default"}, 2), {"lang"}, FALSE, "none"),
      ConfiguredNode(2, type, [x \in {"default", "error", "timeout", "fallback"} |->
                                  IF x = "default" THEN 3 ELSE 2], got, url, "none"),
      Node(3, "end", NoExits)>>
\* The same, and then a branch on whether it got a response.
Branched(type, got, url) ==
    <<ConfiguredNode(1, "start", All({"default"}, 2), {"lang"}, FALSE, "none"),
      ConfiguredNode(2, type, All({"success", "match", "error"}, 3), got, url, "none"),
      ConfiguredNode(3, "branch", [x \in {"match", "default"} |-> IF x = "match" THEN 4 ELSE 1],
                     {"response"}, FALSE, "none"),
      Node(4, "end", NoExits)>>
\* A flow that runs another one.
Calling(flow) ==
    <<Node(1, "start", All({"default"}, 2)),
      ConfiguredNode(2, "sub_flow", [x \in {"default", "error"} |-> IF x = "error" THEN 2 ELSE 3],
                     {"response"}, FALSE, flow),
      Node(3, "end", NoExits)>>
Dangling == <<Node(1, "start", All({"default"}, 4)), Node(2, "end", NoExits)>>

Direct == <<Node(1, "start", All({"default"}, 2)), Node(2, "end", NoExits)>>

MCFlowGraphs == [
    main |-> {Calling("leaf"), Calling("none"), Direct, Dangling},
    leaf |-> {Around(t, {"lang"}, TRUE) : t \in MCNodeTypes \ {"start", "end", "sub_flow"}}
             \cup {Branched("http_request", {}, FALSE), Branched("json_parser", {"x"}, FALSE),
                   Branched("function", {}, TRUE), Direct, Dangling}]

-----------------------------------------------------------------------------
\* Quality inspection: rules about speed and hangup; a transcript with gaps, and no measured speed.
MCHangupRule == [type |-> "abnormal_hangup", config |-> InvalidConfig]
MCBodies == {[type |-> "speed", config |-> [max |-> 100, min |-> 20]], MCHangupRule}
MCRuleBodies == z1 :> MCBodies @@ z2 :> {MCHangupRule}
MCSchemeLists == {<<[rule |-> z1, weight |-> 1], [rule |-> z2, weight |-> 3]>>}
MCTranscript ==
    [phrases |-> {"hello", "closing", "phone"}, lastLine |-> {}, silences |-> {2, 7},
     speeds |-> <<>>, durations |-> <<60>>, length |-> 50, energies |-> <<50, 80>>,
     interruptions |-> 2, abnormal |-> FALSE]
MCTranscripts == {MCTranscript}

\* A rule of each kind, with and without its limits, and an unreadable one.
MCSampleRules == MCBodies \cup {
    [type |-> "keyword", config |-> [keywords |-> {"hello", ""}, require |-> r]]
        : r \in {"present", "absent", "often"}} \cup {
    [type |-> t, config |-> [max |-> m, min |-> n]]
        : t \in {"silence", "speed", "interruption", "energy", "duration"},
          m \in {0, 60}, n \in {0, 55}} \cup {
    [type |-> "entity", config |-> [entities |-> {"phone", "card"}, require |-> r]]
        : r \in {"all", "any"}} \cup {
    [type |-> "role", config |-> [greeting |-> TRUE, closing |-> c, required |-> {"phone"}]]
        : c \in BOOLEAN} \cup {
    [type |-> "regex", config |-> [pattern |-> "phone", require |-> r]]
        : r \in {"match", "no_match"}} \cup {
    [type |-> "llm", config |-> [threshold |-> m]] : m \in {0, 90}} \cup {
    [type |-> "regex", config |-> InvalidConfig]}
MCSampleTranscripts == {
    MCTranscript,
    [MCTranscript EXCEPT !.phrases = @ \cup {"greeting", "card"}, !.lastLine = {"closing"},
        !.silences = {}, !.interruptions = 4],
    [MCTranscript EXCEPT !.phrases = {}, !.speeds = <<70, 20>>, !.durations = <<>>,
        !.energies = <<>>, !.abnormal = TRUE]}

-----------------------------------------------------------------------------
Symmetry == Permutations({x1, x2}) \cup Permutations({y1, y2})

\* A component that is not looked at has only one initial state.
ServicesInit ==
    /\ focus \in Focus
    /\ DialerInit
    /\ WebhookInit
    /\ CallbackInit
    /\ OutboundInit
    /\ TrunkInit
    /\ ChatInit
    /\ HubInit
    /\ FlowInit
    /\ EngineInit
    /\ TicketInit
    /\ QaInit
    /\ AdministrationInit
    /\ AnnotationInit
    /\ CommInit
    /\ JobsInit
    /\ CrmInit
    /\ IdentityInit
    /\ focus # "hub" => hubKind = "agent"
    /\ focus # "engine" => graphOf = [main |-> Direct, leaf |-> Direct]
    /\ focus # "administration" => adminTable = CHOOSE t \in Tables : TRUE

\* The variables of all components but one rest.
ServicesNext ==
    \/ /\ focus = "dialer"
       /\ DialerNext
       /\ UNCHANGED <<
              focus, webhookVars, callbackVars, outboundVars, trunkVars,
              chatVars, hubVars, flowVars, engineVars, ticketVars, qaVars,
              adminVars, annotationVars, commVars, jobVars, crmVars,
              identityVars>>
    \/ /\ focus = "webhooks"
       /\ WebhookNext
       /\ UNCHANGED <<
              focus, diallingVars, callbackVars, outboundVars, trunkVars,
              chatVars, hubVars, flowVars, engineVars, ticketVars, qaVars,
              adminVars, annotationVars, commVars, jobVars, crmVars,
              identityVars>>
    \/ /\ focus = "callbacks"
       /\ CallbackNext
       /\ UNCHANGED <<
              focus, diallingVars, webhookVars, outboundVars, trunkVars,
              chatVars, hubVars, flowVars, engineVars, ticketVars, qaVars,
              adminVars, annotationVars, commVars, jobVars, crmVars,
              identityVars>>
    \/ /\ focus = "outbound"
       /\ OutboundNext
       /\ UNCHANGED <<
              focus, diallingVars, webhookVars, callbackVars, trunkVars,
              chatVars, hubVars, flowVars, engineVars, ticketVars, qaVars,
              adminVars, annotationVars, commVars, jobVars, crmVars,
              identityVars>>
    \/ /\ focus = "trunks"
       /\ TrunkNext
       /\ UNCHANGED <<
              focus, diallingVars, webhookVars, callbackVars, outboundVars,
              chatVars, hubVars, flowVars, engineVars, ticketVars, qaVars,
              adminVars, annotationVars, commVars, jobVars, crmVars,
              identityVars>>
    \/ /\ focus = "chats"
       /\ ChatNext
       /\ UNCHANGED <<
              focus, diallingVars, webhookVars, callbackVars, outboundVars,
              trunkVars, hubVars, flowVars, engineVars, ticketVars, qaVars,
              adminVars, annotationVars, commVars, jobVars, crmVars,
              identityVars>>
    \/ /\ focus = "hub"
       /\ HubNext
       /\ UNCHANGED <<
              focus, diallingVars, webhookVars, callbackVars, outboundVars,
              trunkVars, chatVars, flowVars, engineVars, ticketVars,
              qaVars, adminVars, annotationVars, commVars, jobVars,
              crmVars, identityVars>>
    \/ /\ focus = "flows"
       /\ FlowNext
       /\ UNCHANGED <<
              focus, diallingVars, webhookVars, callbackVars, outboundVars,
              trunkVars, chatVars, hubVars, engineVars, ticketVars, qaVars,
              adminVars, annotationVars, commVars, jobVars, crmVars,
              identityVars>>
    \/ /\ focus = "engine"
       /\ EngineNext
       /\ UNCHANGED <<
              focus, diallingVars, webhookVars, callbackVars, outboundVars,
              trunkVars, chatVars, hubVars, flowVars, ticketVars, qaVars,
              adminVars, annotationVars, commVars, jobVars, crmVars,
              identityVars>>
    \/ /\ focus = "tickets"
       /\ TicketNext
       /\ UNCHANGED <<
              focus, diallingVars, webhookVars, callbackVars, outboundVars,
              trunkVars, chatVars, hubVars, flowVars, engineVars, qaVars,
              adminVars, annotationVars, commVars, jobVars, crmVars,
              identityVars>>
    \/ /\ focus = "inspection"
       /\ QaNext
       /\ UNCHANGED <<
              focus, diallingVars, webhookVars, callbackVars, outboundVars,
              trunkVars, chatVars, hubVars, flowVars, engineVars,
              ticketVars, adminVars, annotationVars, commVars, jobVars,
              crmVars, identityVars>>
    \/ /\ focus = "administration"
       /\ AdministrationNext
       /\ UNCHANGED <<
              focus, diallingVars, webhookVars, callbackVars, outboundVars,
              trunkVars, chatVars, hubVars, flowVars, engineVars,
              ticketVars, qaVars, annotationVars, commVars, jobVars,
              crmVars, identityVars>>
    \/ /\ focus = "annotation"
       /\ AnnotationNext
       /\ UNCHANGED <<
              focus, diallingVars, webhookVars, callbackVars, outboundVars,
              trunkVars, chatVars, hubVars, flowVars, engineVars,
              ticketVars, qaVars, adminVars, commVars, jobVars, crmVars,
              identityVars>>
    \/ /\ focus = "commagents"
       /\ CommNext
       /\ UNCHANGED <<
              focus, diallingVars, webhookVars, callbackVars, outboundVars,
              trunkVars, chatVars, hubVars, flowVars, engineVars,
              ticketVars, qaVars, adminVars, annotationVars, jobVars,
              crmVars, identityVars>>
    \/ /\ focus = "jobs"
       /\ JobsNext
       /\ UNCHANGED <<
              focus, diallingVars, webhookVars, callbackVars, outboundVars,
              trunkVars, chatVars, hubVars, flowVars, engineVars,
              ticketVars, qaVars, adminVars, annotationVars, commVars,
              crmVars, identityVars>>
    \/ /\ focus = "crm"
       /\ CrmNext
       /\ UNCHANGED <<
              focus, diallingVars, webhookVars, callbackVars, outboundVars,
              trunkVars, chatVars, hubVars, flowVars, engineVars,
              ticketVars, qaVars, adminVars, annotationVars, commVars,
              jobVars, identityVars>>
    \/ /\ focus = "identity"
       /\ IdentityNext
       /\ UNCHANGED <<
              focus, diallingVars, webhookVars, callbackVars, outboundVars,
              trunkVars, chatVars, hubVars, flowVars, engineVars,
              ticketVars, qaVars, adminVars, annotationVars, commVars,
              jobVars, crmVars>>

servicesVars == <<
    focus, diallingVars, webhookVars, callbackVars, outboundVars,
    trunkVars, chatVars, hubVars, flowVars, engineVars, ticketVars, qaVars,
    adminVars, annotationVars, commVars, jobVars, crmVars, identityVars>>

ServicesSpec == ServicesInit /\ [][ServicesNext]_servicesVars

-----------------------------------------------------------------------------
\* What each component promises, by subject: in each group the type invariants
\* and the invariants that its modules state and explain.

\* Dialling (domain/campaign, application/dialer): goroutines, loops and
\* processes that take the same case and count the same calls neither lose a
\* slot, nor exceed the pace or the daily limit, nor leave a loop behind.
DiallingSafe == focus = "dialer" =>
    DialerTypeOK /\ OneLoop /\ SlotsReturn /\ PaceKept /\ FrequencyKept

\* Webhooks, callbacks, outbound calls and trunks: deliveries that retry,
\* schedulers that overwrite each other's counts, a cache of rules that tenants
\* share and checks that age while a call is placed neither lose an event nor
\* lead to the wrong call or receiver.
OutreachSafe ==
    /\ focus = "webhooks" =>
          HookTypeOK /\ TokensReturn /\ LogTellsTruth /\ NoSilentLoss /\ EventsStayHome
    /\ focus = "callbacks" =>
          CallbackTypeOK /\ CallsBounded /\ GivenUpAfterAttempts /\ CompletedWasCalled
    /\ focus = "outbound" => OutboundTypeOK /\ RoutedByOwnRule /\ ListedNotCalled
    /\ focus = "trunks" => TrunkTypeOK /\ DownAfterThreeMisses /\ FailoverFindsTrunk

\* Chats and hubs: what stale copies of a session can do is bounded, and what
\* is broadcast to sockets that come and go reaches every open one.
ChatsSafe ==
    /\ focus = "chats" =>
          ChatTypeOK /\ SessionShape /\ SlotsOvershoot /\ ClosesBounded /\ LateMessagesBounded
    /\ focus = "hub" => HubTypeOK /\ NoSendOnClosed /\ EveryClientReached

\* IVR flows: whatever editors write over each other, what is stored can be
\* run, the validator accepts exactly what can be run, what is published can
\* be restored, and no caller is lost in a flow or kept in it for ever.
FlowsSafe ==
    /\ focus = "flows" =>
          FlowTypeOK /\ StoredGraphsWellFormed /\ PublishedIsRecorded /\ ValidatorExact
    /\ focus = "engine" => EngineTypeOK /\ NeverLost /\ VisitsBounded

\* Tickets and quality inspection: rows that are read, decided about and
\* written as a whole make sense, a score is the mean of its rules, and both
\* leave their course only where requests overlapped.
CaseworkSafe ==
    /\ focus = "tickets" =>
          TicketTypeOK /\ ResolvedHasTime /\ TemplateWasPublished /\ JumpsOnlyWhereOverlapped
    /\ focus = "inspection" =>
          QaTypeOK /\ ScoreIsMean /\ FailingScoresLess /\ ReviewAnswersAppeal /\ ReviewStands

\* Customers, tenants with their users, and the tables kept by REST: requests
\* of several statements leave nothing half made unless they were mixed or
\* failed, and limits are exceeded by no more than the requests of a moment.
RecordsSafe ==
    /\ focus = "administration" =>
          /\ AdminTypeOK /\ DeletedStaysDeleted /\ UndoneOnlyWhereContested
          /\ AnswersAreStored /\ CheckedRowsAreOwn
    /\ focus = "crm" => CrmTypeOK /\ OnePrimary /\ CreatedAsTold /\ RefusedOnlyWhereMixed
    /\ focus = "identity" => IdentityTypeOK /\ SeatsBounded /\ TenantsComplete

\* Labelling, conversations of communication agents, AI jobs: a copy is held
\* while a person, a model or a provider works; what is counted, told or
\* computed in the meantime is not lost, unless two of them crossed.
AiWorkSafe ==
    /\ focus = "annotation" =>
          /\ AnnotationTypeOK /\ CountedAreStored /\ TwiceOnlyWhereUnseen
          /\ RevivedOnlyWhereCrossed /\ LabelledIsCompleted
    /\ focus = "commagents" =>
          /\ CommTypeOK /\ ActiveWithinLimit /\ ReopenedOnlyWhereEntwined
          /\ ToldEndIsStored /\ RepliesAreKept
    /\ focus = "jobs" =>
          JobsTypeOK /\ RunningIsWorkedOn /\ ResultsStay /\ TrainedAtProvider /\ GradesAreExact
=============================================================================
