SPECIFICATION ServicesSpec
CONSTANTS
    Focus = {"dialer", "webhooks", "callbacks", "outbound", "trunks", "chats", "hub", "flows", "engine", "tickets", "inspection", "administration", "annotation", "commagents", "jobs", "crm", "identity"}
    x1 = x1
    x2 = x2
    y1 = y1
    y2 = y2
    z1 = z1
    z2 = z2
    i1 = i1
    Tenants = {z1}
    HookTenants = {y1, y2}
    DialTenants = {y1, y2}
    AdminTenants = {y1, y2}
    NoRow = NoRow
    Cases = {1}
    CampaignModes = {"progressive", "predictive", "preview"}
    DialWorkers = {y1, y2}
    MaxRetries = 1
    MaxEvents = 2
    Instances = {i1}
    InstOf <- MCInstOf
    MaxLoops = 2
    MaxDialed = 3
    FreqLimit = 1
    MaxAbandonPct = 3
    ScheduleDays <- MCEveryDay
    Clock <- MCClock
    Hooks = {x1, x2}
    HookEvents = {z1}
    HookForms <- MCForms
    SemSize = 1
    MaxRetry = 2
    MaxRaised = 2
    MaxHookEdits = 2
    MaxHookFaults = 1
    Callbacks = {1}
    Schedulers = {y1, y2}
    MaxAttempts = 2
    MaxCbFaults = 1
    Rules = {x1, x2}
    Priorities = {1}
    Callees = {z1}
    DncIds = {z1}
    PhoneIds = {z1, z2}
    Phones = {z1}
    AreaPhones = {z1}
    Diallers = {y1, y2}
    MaxRuleEdits = 2
    MaxDials = 2
    TrunkCount = 2
    FailLimit = 3
    Selectors = {z1}
    Channels = {z1}
    Sessions = {x1, x2}
    ChatAgents = {z1}
    ChatRequests = {y1, y2}
    NoAgent = NoAgent
    MaxChatSlots = 1
    MaxChats = 5
    Sockets = {y1, y2}
    HubKeys = {z1}
    Casters = {z1}
    SendCap = 1
    MaxCasts = 2
    Flows = {x1, x2}
    Codes = {y1, y2}
    Graphs <- MCGraphs
    NodeTypes <- MCNodeTypes
    Editors = {y1, y2}
    NoUser = NoUser
    MaxFlowEdits = 5
    IvrFlows = {"main", "leaf"}
    FlowGraphs <- MCFlowGraphs
    IvrProviders = {"nlu", "queue", "sentiment", "crm"}
    MaxSteps = 4
    MaxDepth = 2
    Clerks = {y1, y2}
    TicketIds = {z1}
    TemplateIds = {z1}
    Assignees = {z1}
    RuleIds = {z1, z2}
    SchemeIds = {z1}
    ResultIds = {z1}
    Examiners = {y1, y2}
    RuleBodies <- MCRuleBodies
    SchemeLists <- MCSchemeLists
    Transcripts <- MCTranscripts
    LlmAnswers = {70}
    NewScores = {50}
    SampleRules <- MCSampleRules
    SampleTranscripts <- MCSampleTranscripts
    Admins = {x1, x2}
    RowIds = {z1}
    Values = {0, 1}
    Annotators = {y1, y2}
    TaskIds = {z1}
    Items = {1, 2}
    Totals = {0, 2}
    MaxResults = 2
    Turns = {y1, y2}
    CommSessions = {z1}
    MaxTurns = 2
    MaxReplies = 4
    JobWorkers = {y1, y2}
    Analyses = {z1}
    Voices = {z1}
    Courses = {z1}
    PassScores = {66}
    Scores = {2, 3}
    MaxJobs = 1
    MaxExams = 1
    Brokers = {y1, y2}
    CustomerIds = {z1}
    Numbers = {x1, x2}
    MaxPhones = 2
    MaxRecords = 2
    Officers = {y1, y2}
    UserIds = {x1, x2}
    UserNames = {x1, x2}
    GroupIds = {z1}
    GroupCodes = {z1}
    DefaultSeats = 0
    MaxSeats = 1
SYMMETRY Symmetry
INVARIANTS
    DiallingSafe OutreachSafe ChatsSafe FlowsSafe
    CaseworkSafe RecordsSafe AiWorkSafe
CHECK_DEADLOCK FALSE
