SPECIFICATION Spec
CONSTANTS
    MaxBodyBytes = 4
    MaxChars = 9
    Issues = {"ST-1"}
    Fine = 10
    Grid = {0, 6994, 6995, 6996, 7000, 7004, 10000}
    Thresholds = {0, 7000, 7004, 10000}
    MaxLines = 3
    MaxListed = 2
INVARIANTS
    OnlyAuthenticPayloads
    EveryDeliveryFits
    StrangersLearnNothing
    UnanimityDecides
    BetterNeverFails
    EightSections
    NothingLost
    SuggestionsFirstSeenFirst
CHECK_DEADLOCK FALSE
