\* One client and the loop, two pictures, two segments; a crash or a failed call, two keys at most.
SPECIFICATION Spec
CONSTANTS
    Clients = {c1}
    Loop = loop
    Pictures = {0, 1}
    Distance = 0
    Lines = {alarm}
    Alarming = {alarm}
    Windows = {1}
    AutoWindow = 1
    Ttl = 1
    AutoTtl = 1
    EnvKeys = {env}
    Garbage = garbage
    Nothing = nothing
    MaxSegments = 2
    MaxPins = 2
    MaxKeys = 2
    MaxNow = 2
    MaxTroubles = 1
INVARIANTS
    RowsHaveTheirCopies
    PinsAreReadable
    OrphansAreSpoiled
CHECK_DEADLOCK FALSE
