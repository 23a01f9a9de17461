\* Two connections, the voice loop and the expiry sweep race for one approval,
\* the poll sweep looks at its run, with an error and a crash at any point.
SPECIFICATION Spec
CONSTANTS
    Projects = {p1}
    Slugs = {s1}
    Runs = {r1}
    NoRun = NoRun
    Approvals = {a1}
    NoApproval = NoApproval
    Conns = {c1, c2}
    Starters = {c1, c2}
    Listers = {}
    Proposers = {c1, c2}
    Deciders = {c1, c2}
    Sweep = sweep
    Voices = {v1}
    Quoters = {}
    ApprovalExpiry = 1
    PollLimit = 1
    FindLimit = 1
    MaxCommits = 1
    MaxTime = 1
    MaxCrashes = 1
    MaxFaults = 1
SYMMETRY Symmetry
INVARIANTS
    OneExecutor
    MergesAreApproved
    ExecutionInWindow
    LandedIsRecorded
PROPERTIES
    DecisionIsFinal
    ImplementsLedger
    DoneBranchIsStable
\* Bounded time and commits: the instance may come to rest.
CHECK_DEADLOCK FALSE
