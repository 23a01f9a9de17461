\* Both jobs, a sensor, two sessions of which the model refuses one; three days and a fault.
SPECIFICATION Spec
CONSTANTS
    o1 = o1
    o2 = o2
    s1 = s1
    s2 = s2
    p = p
    Observations = {o1}
    Sessions = {s1, s2}
    Projects = {p}
    ProjectOf <- OneProject
    Embeddable = {o1}
    Wide = {}
    WideAnswers = {}
    Refused = {s1}
    Nothing = nothing
    EmbedLimit = 1
    Batch = 2
    ShownLimit = 1
    PruneBatch = 1
    Day = 1
    DecayAge = 1
    PruneAge = 1
    Span = 1
    ArchiveAfter = 1
    MaxNow = 3
    MaxMemories = 3
    MaxTroubles = 1
INVARIANTS
    OneEpisodeEach
    DaysAreApart
PROPERTIES
    CitedStay
    SessionsAreSummarised
CHECK_DEADLOCK FALSE
