SPECIFICATION FairServiceSpec
CONSTANTS
    MaxBodyBytes = 4
    Issues = {"ST-1"}
    StoryIds = {"ST-1"}
    Inv = {i1, i2}
    Events <- TwoEvents
    Evaluations <- TwoEvaluations
    Fine = 10
    Threshold = 7000
    Sections = {s1}
    MaxAttempts = 1
    LastDay = 1
    JiraReplies = {"accepted", "lost"}
    Ends = {"ok", "unexpected", "cancelled"}
    None = None
INVARIANTS
    NoCallOnClosedClient
    NothingLeaks
PROPERTIES
    WordOfAllAgents
    ImplementsOrchestrator
    Termination
CHECK_DEADLOCK FALSE
