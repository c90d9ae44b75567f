SPECIFICATION SessionsSpec
CONSTANTS
    home = home
    fleet = fleet
    NoKey = NoKey
    Key = {home, fleet}
    StartScopes <- AllStartScopes
    MaxTerminals = 3
    MaxRequests = 4
    MaxSessions = 4
    MaxOperations = 3
    MaxKillFailures = 1
    Moving = {"sessions", "threads", "posts", "reads", "routes", "launches", "messages", "controls", "records", "files"}
    AskKind = {"question", "plan", "form"}
    Scope = {"races", "retries", "losses"}
    MaxAsks = 3
    MaxReplies = 3
    MaxAppAnswers = 3
    MaxTimeouts = 1
    MaxFailures = 1
    MaxOffline = 1
    MaxResets = 1
    MaxWrites = 1
    MaxCrashes = 1
    MaxPrompts = 3
    MaxRedraws = 2
    MaxConnections = 2
    MaxEvents = 2
    MaxControls = 2
    MaxSwitches = 1
    MaxRead = 2
    Channel = {"one", "two"}
    NoChannel = "none"
    Config <- Configs
    Ttl = 2
    MaxNotices = 1
    MaxChanges = 2
    MaxUnread = 1
    MaxIds = 4
    MaxSteps = 4
INVARIANTS
    NoTerminalIsLost
    SessionsAgree
    PromptOnce
    
    AnsweredOnce
    NoticesAreTrue
    OfflineFreesTheTurn
    
    RoutesAreConfigured
    
PROPERTY
    RecoverySparesTheUsed
CHECK_DEADLOCK FALSE
