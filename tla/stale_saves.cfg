SPECIFICATION Spec
CONSTANTS
    Envs = {e1, e2}
    Procs = {p1}
    Sweepers = {"ticker"}
    Reapers = {}
    MaxTasks = 2
    MaxRetry = 0
    MaxCrashes = 0
    NeedsDb = {}
    Handlers = {"create", "fork", "restart", "delete", "git"}
    Faults = {"enqueue"}
    NoRow = NoRow
    Nil = Nil
INVARIANT RunningHasContainerId
PROPERTIES SweepSparesNewContainer LifecycleSpec
CHECK_DEADLOCK FALSE
