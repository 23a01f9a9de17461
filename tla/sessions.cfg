\* Two emitters and the ticker, two sessions of one project, one crash.
SPECIFICATION FairSpec
CONSTANTS
    Projects = {p1}
    Sessions = {s1, s2, s3}
    NoSession = NoSession
    Emitters = {e1, e2}
    Ticker = ticker
    Gap = 2
    MaxDelay = 1
    MaxTime = 7
    MaxCrashes = 1
    MaxFaults = 1
INVARIANTS
    OpenRowsAreTracked
    SessionsAreApart
PROPERTIES
    ClosedRowsAreFinal
    HeldSessionsClose
\* The clock is bounded: the instance comes to rest.
CHECK_DEADLOCK FALSE
