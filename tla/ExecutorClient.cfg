SPECIFICATION FairSpec
CONSTANT MaxCalls = 4
INVARIANT TypeOK
INVARIANT MessagesInOrder
INVARIANT NoCallForgotten
PROPERTY ImplementsService
PROPERTY EveryCallSettles
CHECK_DEADLOCK FALSE
