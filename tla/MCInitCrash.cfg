SPECIFICATION FairSpec
CONSTANTS
    url = url
    threshold = threshold
    stray = stray
    Names <- SmallNames
    Prefixed = {url, threshold}
    Values <- SmallValues
    Boots = {b1}
    Tasks <- ScriptOnly
    Edits <- SmallEdits
    MaxEdits = 1
    None = None
    Containers = {c1}
    ParamOrder <- SmallOrder
    Threshold = threshold
    Blanks = {"blank"}
    Floats = {"7.0"}
    Envs <- OneEnv
PROPERTY InitErrorsAreServed
