\* Popups and what they cite, with feedback, one failing store call or crash, and a model that takes any time.
SPECIFICATION Spec
CONSTANTS
    Modes = {mentor}
    Mode = mentor
    Capacity <- MentorCapacity
    Refill <- MentorRefill
    Cap = 2
    Hour = 3
    Observations = {o1}
    Fabricated = {f1}
    Citations <- SomeCitations
    Pushbacks = {p1, p2, p3}
    Verdicts = {dismissed}
    Failures = 1
    SignalWindow = 3
    DigestWindow = 3
    Day = 1
    MaxTime = 3
    MaxTroubles = 1
SYMMETRY Symmetry
INVARIANTS
    
    PopupsAreNotRepeated
    HourlyCap
    ModeRate
    PopupsAreRationed
CHECK_DEADLOCK FALSE
