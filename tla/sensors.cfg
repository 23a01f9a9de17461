\* Two processes, two clips, one repository; a channel of one place, three moves, two troubles.
SPECIFICATION SensorsSpec
CONSTANTS
    Pids = {1, 2}
    Ttys = {}
    Commands = {cargo}
    Allowed = {cargo}
    NoTty = NoTty
    Gone = Gone
    None = None
    Texts = {x1, x2}
    Ignorable = {x1}
    Repos = {repo}
    Commits = {h1, h2}
    ChannelSize = 1
    AwayThreshold = 1
    MaxMoves = 3
    MaxTroubles = 2
INVARIANTS
    EventsAreChanges
PROPERTIES
    SensorsCatchUp
CHECK_DEADLOCK FALSE
