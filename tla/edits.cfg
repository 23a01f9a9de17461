\* The shell, whose calls are repeated, and a CLI edit one file; its owner writes it or makes it unreadable once, one fault.
SPECIFICATION Spec
CONSTANTS
    Paths = {p1}
    Contents = {empty, torn, mixed, a, b}
    Empty = empty
    Torn = torn
    Mixed = mixed
    NoFile = nofile
    Clients = {shell, cli}
    Managed = {shell}
    MaxEdits = 3
    MaxForeign = 1
    MaxFaults = 1
INVARIANTS
    RowsHaveTheirBlobs
    LoneWritesAreAtomic
    FeedMatchesFile
    ReplacedIsKept
    RevertedOnce
SYMMETRY Symmetry
CHECK_DEADLOCK FALSE
