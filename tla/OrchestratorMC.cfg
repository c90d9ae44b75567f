SPECIFICATION AppSpec
CONSTANTS
    c1 = c1
    c2 = c2
    Call <- TwoCalls
    NoCall = NoCall
    MaxStarts = 2
    MaxEnds = 1
    MaxCloses = 1
    MaxErrors = 1
    MaxRegistrations = 1
    AgentSession = {1, 2}
    MaxProcesses = 2
    MaxPrompts = 3
    MaxAsks = 3
    MaxReplies = 2
SYMMETRY Symmetry
INVARIANTS
    EndedGatesStayClosed
    RelayedGateIsAnswerable
    TargetsHold
    InputIsAcknowledged
    ConversationIsKept
    ToolsReportTruly
