SPECIFICATION Spec
CONSTANTS
    a = a
    b = b
    x = x
    y = y
    z = z
    None = None
    New = New
    Addresses = {a}
    Abis = {x, y}
    Unparsable = {}
    Saved <- SavedAlone
    Loads <- OneFile
    MaxCalls = 2
CHECK_DEADLOCK FALSE
INVARIANT InForceIsSaved
