SPECIFICATION Spec
CONSTANTS
    MaxKey = 3
    MaxWord = 2
    Window = 2
    AccountLists <- MCAccountLists
    Anchors <- MCAnchors
    PageSizes = {0, 1, 2}
    Pages <- MCPages
    CountLimit = 4
INVARIANTS TypeOK RecordsFaithful OutputLoads CallsBounded PagesTile NoSpuriousFailure
PROPERTY ImplementsOracle
