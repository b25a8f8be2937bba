SPECIFICATION TextSpec
CONSTANTS
    Base = 3
    Letter = 2
    Limit <- LimitOf
    Width <- WidthOf
    MaxLength = 4
CHECK_DEADLOCK FALSE
INVARIANT RoundTrip
INVARIANT OneText
