SPECIFICATION Spec
CONSTANTS
    first = first
    second = second
    piped = piped
    Previous = Previous
    Runs = {first, second, piped}
    ToFile = {first, second}
SYMMETRY Symmetric
INVARIANT DestinationWhole
INVARIANT NothingLeftBehind
PROPERTY OnlySuccessReplaces
