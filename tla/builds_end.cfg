SPECIFICATION FairSpec
CONSTANTS
    Envs = {e1}
    Procs = {p1}
    Sweepers = {}
    Reapers = {r1}
    MaxTasks = 2
    MaxRetry = 1
    MaxCrashes = 1
    NeedsDb = {e1}
    Handlers = {"create", "restart", "delete"}
    Faults = {"crash"}
    NoRow = NoRow
    Nil = Nil
PROPERTIES BuildingEnds TasksSettle OrphansReaped
CHECK_DEADLOCK FALSE
