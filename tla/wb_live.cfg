\* Proposals nobody decides, and runs that finished, come to an end: two runs,
\* of which a poll looks at the newer one and one of which has an agent that
\* prints RATO_EXIT=0 itself; one proposal, an error and a crash.
SPECIFICATION FairSpec
CONSTANTS
    Projects = {p1}
    Slugs = {s1, s2}
    Runs = {r1, r2}
    NoRun = NoRun
    Approvals = {a1}
    NoApproval = NoApproval
    Conns = {c1}
    Starters = {c1}
    Listers = {}
    Proposers = {c1}
    Deciders = {}
    Sweep = sweep
    Voices = {}
    Quoters = {r2}
    ApprovalExpiry = 1
    PollLimit = 1
    FindLimit = 50
    MaxCommits = 0
    MaxTime = 1
    MaxCrashes = 1
    MaxFaults = 1
PROPERTIES
    PendingSettles
    FinishedRunsSettle
\* Bounded time and commits: the instance may come to rest.
CHECK_DEADLOCK FALSE
