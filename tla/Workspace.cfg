SPECIFICATION Spec
CONSTANTS
    MaxKey = 2
    MaxWord = 1
    Window = 2
    Documents <- MCDocuments
    Addresses = {"a", "b", "c"}
    Malformed = "malformed"
    RefusedCode = {"refused"}
    Unresolvable = {"odd"}
    Abis <- MCAbis
    NoAbi = NoAbi
    Requests <- MCRequests
    Data <- MCData
    MaxFraction = 7
INVARIANTS ContextCoherent CodeServesAccounts LoadedRecordsValid NoInternalError ResultAsDescribed
PROPERTIES BatchAtomic ImplementsLoadedContracts
