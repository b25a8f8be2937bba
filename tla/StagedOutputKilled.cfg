SPECIFICATION Spec
CONSTANTS
    first = first
    second = second
    piped = piped
    Previous = Previous
    Runs = {first, piped}
    ToFile = {first}
INVARIANT NoStaleFile
