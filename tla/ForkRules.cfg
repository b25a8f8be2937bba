SPECIFICATION Spec
CONSTANTS
    MaxKey = 0
    MaxWord = 1
    Window = 1
    Values = {0, 1}
    Fractions = {0, 1, 2}
    MaxFraction = 1
INVARIANT RulesKept
INVARIANT EvmFieldsFitFork
INVARIANT WellFormedLoads
CHECK_DEADLOCK FALSE
