SPECIFICATION Spec
CONSTANTS
    Envs = {e1}
    Procs = {p1, p2}
    Sweepers = {}
    Reapers = {}
    MaxTasks = 2
    MaxRetry = 1
    MaxCrashes = 1
    NeedsDb = {e1}
    Handlers = {"create", "restart", "delete", "edit"}
    Faults = {"clone", "sidecar", "enqueue", "crash", "runtime", "provision", "slow", "shutdown"}
    NoRow = NoRow
    Nil = Nil
INVARIANTS TypeOK OwnershipInv BuildingIsOwned
SYMMETRY Symmetry
CHECK_DEADLOCK FALSE
