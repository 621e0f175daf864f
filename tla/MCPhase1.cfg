SPECIFICATION AgentFairSpec
CONSTANTS
    Phase = 1
    N = 3
INVARIANTS
    ResultFromGoodReplies
    AnonymousErrorIsUnforeseen
PROPERTY ImplementsPipeline
CHECK_DEADLOCK FALSE
