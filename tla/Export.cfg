SPECIFICATION Spec
CONSTANTS
    p = p
    q = q
    command = command
    Previous = Previous
    MaxKey = 1
    MaxWord = 1
    Window = 2
    Chains <- MCChains
    Requested <- MCRequested
    BlockArguments = {{}, {2}}
    State <- MCState
    RangeReads <- MCRangeReads
    Pages <- MCPages
    CountLimit = 2
PROPERTIES ImplementsPublication ExportEnds
CHECK_DEADLOCK FALSE
