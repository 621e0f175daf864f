SPECIFICATION Spec
CONSTANTS
    MaxBodyBytes = 4
    Issues = {"ST-1", "epic"}
    StoryIds = {"ST-1"}
    Inv = {i1, i2}
    Events <- SmallEvents
    Evaluations <- SmallEvaluations
    Fine = 10
    Threshold = 7000
    Sections = {s1}
    MaxAttempts = 3
    LastDay = 2
    JiraReplies = {"accepted", "redirected", "refused", "lost"}
    None = None
SYMMETRY InvSymmetry
INVARIANTS
    TypeOK
    LinkedSpecExists
    GateRespected
    EffectsAreAuthorised
    JiraWrittenOnce
    OneObjectPerInvocation
    CallsBounded
PROPERTY QuietAfterAnswer
CHECK_DEADLOCK FALSE
