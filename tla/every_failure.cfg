SPECIFICATION Spec
CONSTANTS
    Envs = {e1}
    Procs = {p1}
    Sweepers = {"cron"}
    Reapers = {r1}
    MaxTasks = 1
    MaxRetry = 0
    MaxCrashes = 1
    NeedsDb = {e1}
    Handlers = {"create", "delete", "git", "touch", "edit", "start_command"}
    Faults = {"enqueue", "clone", "sidecar", "runtime", "script", "provision", "slow", "exit", "docker", "dbread", "shutdown"}
    NoRow = NoRow
    Nil = Nil
INVARIANT CidInv
CHECK_DEADLOCK FALSE
