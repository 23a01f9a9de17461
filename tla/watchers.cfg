\* Two processes and terminals, three transcripts, one operator; four moves, two troubles.
SPECIFICATION Spec
CONSTANTS
    t1 = t1
    t2 = t2
    f1 = f1
    f2 = f2
    f3 = f3
    Pids = {1, 2}
    Ttys = {t1, t2}
    Commands = {claude}
    Agents = {claude}
    PaneOf <- OnePane
    NoTty = NoTty
    Gone = Gone
    NoRow = NoRow
    NoPane = NoPane
    Operators = {c1}
    Files = {f1, f2, f3}
    RunOf <- TwoAndOne
    RunCount = 2
    Scanned = {1, 2}
    Torn = {1}
    RecentRuns = 1
    FilesOfRun = 1
    RecentKeys = 1
    MaxMoves = 4
    MaxTroubles = 2
INVARIANTS
    NothingTwice
PROPERTIES
    MarksAreKept
    TerminalsAreListed
    TranscriptsAreIngested
CHECK_DEADLOCK FALSE
