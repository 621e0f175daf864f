SPECIFICATION FairSpec
CONSTANTS
    MaxBodyBytes = 4
    Issues = {"ST-1", "epic"}
    StoryIds = {"ST-1"}
    Inv = {i1, i2}
    Events <- SmallEvents
    Evaluations <- SmallEvaluations
    Fine = 10
    Threshold = 7000
    Sections = {s1}
    MaxAttempts = 2
    LastDay = 1
    JiraReplies = {"accepted", "refused", "lost"}
    None = None
INVARIANT SuccessIsComplete
PROPERTIES
    Delivers
    Termination
CHECK_DEADLOCK FALSE
