SPECIFICATION LinkSpec
CONSTANTS
    Events = events
    Stream = {s}
    Tiers = 2
    MaxOutages = 5
CHECK_DEADLOCK FALSE
INVARIANTS
    LinkTypeOK
    ConnectionIsTrue
PROPERTIES
    Recovers
