SPECIFICATION Spec
CONSTANTS
    a = a
    b = b
    x = x
    y = y
    z = z
    None = None
    New = New
    Addresses = {a, b}
    Abis = {x, y}
    Unparsable = {z}
    Saved <- OneSaved
    Loads <- Drops
    MaxCalls = 4
INVARIANT TypeOK
INVARIANT DescribedIsInstalled
INVARIANT ExecutedAsShown
INVARIANT AccountsMirrored
INVARIANT BusyWhileCalling
PROPERTY OnlyValidatedPersisted
CHECK_DEADLOCK FALSE
