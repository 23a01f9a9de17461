\* A fault between the write and the storing of the old contents.
SPECIFICATION Spec
CONSTANTS
    Paths = {p1}
    Contents = {empty, torn, mixed, a, b}
    Empty = empty
    Torn = torn
    Mixed = mixed
    NoFile = nofile
    Clients = {shell, cli}
    Managed = {shell}
    MaxEdits = 2
    MaxForeign = 0
    MaxFaults = 1
INVARIANTS
    BeforeIsStored
CHECK_DEADLOCK FALSE
