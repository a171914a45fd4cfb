SPECIFICATION LiveSpec
CONSTANTS
    w1 = w1
    w2 = w2
    g1 = g1
    k1 = k1
    e1 = e1
    Focus = {"pool", "dialer", "callbacks", "webhooks", "hub", "engine"}
    Workers = {w1, w2}
    Growers = {g1}
    AutoScaler = as
    Conns = {c1}
    NoConn = nil
    MinPool = 1
    InitPool = 1
    MaxPool = 1
    Threshold = 1
    Cases = {1}
    CampaignModes = {"progressive", "power", "predictive", "preview"}
    DialWorkers = {w1, w2}
    MaxRetries = 2
    MaxEvents = 1
    Instances = {1}
    InstOf <- MCInstOf
    MaxLoops = 2
    MaxDialed = 2
    FreqLimit = 1
    MaxAbandonPct = 3
    ScheduleDays = {}
    Clock <- MCClock
    Callbacks = {1}
    Schedulers = {w1, w2}
    MaxAttempts = 2
    MaxCbFaults = 1
    Tenants = {k1}
    NoRow = nil
    HookTenants = {k1}
    Hooks = {k1}
    HookEvents = {e1}
    HookForms <- MCForms
    SemSize = 1
    MaxRetry = 2
    MaxRaised = 2
    MaxHookEdits = 1
    MaxHookFaults = 1
    Sockets = {w1}
    HubKeys = {k1}
    Casters = {e1}
    SendCap = 1
    MaxCasts = 2
    Flows = {}
    Codes = {}
    Graphs = {}
    NodeTypes = {"start", "end", "play", "sub_flow"}
    Editors = {}
    NoUser = nil
    MaxFlowEdits = 0
    IvrFlows = {"main", "leaf"}
    FlowGraphs <- MCFlowGraphs
    IvrProviders = {}
    MaxSteps = 4
    MaxDepth = 2
PROPERTIES
    NoStarvation
    DueCaseTaken
    WorkEnds
CHECK_DEADLOCK FALSE
