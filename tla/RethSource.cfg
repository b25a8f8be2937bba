SPECIFICATION Spec
CONSTANTS
    p = p
    q = q
    MaxKey = 0
    MaxWord = 1
    Window = 2
    Chains <- MCChains
    Requested <- MCRequested
    BlockArguments <- MCBlockArguments
    State <- MCState
    RangeReads <- MCRangeReads
    MaxPages = 1
INVARIANT AnchorOfOneChain
INVARIANT TakenAsAnchored
INVARIANT NoFalseAlarm
PROPERTY ReturnedWhileCanonical
CHECK_DEADLOCK FALSE
