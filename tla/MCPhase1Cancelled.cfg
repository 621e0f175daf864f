SPECIFICATION Spec
CONSTANTS
    Phase = 1
    N = 3
INVARIANT CancellationPropagates
CHECK_DEADLOCK FALSE
