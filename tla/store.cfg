\* Two clients send commands of every shape to a store of any older version; one crash.
SPECIFICATION Spec
CONSTANTS
    Clients = {c1, c2}
    Names = {"upsert_project", "insert_approval", "decide_approval",
             "delete_observations_older_than"}
    Keys = {k}
    MaxCalls = 3
    MaxCrashes = 1
INVARIANTS
    InsertsNeverClash
    OpensAgain
PROPERTIES
    Implements
    CallsAreAnswered
CHECK_DEADLOCK FALSE
