SPECIFICATION Spec
CONSTANTS
    a = a
    b = b
    None = None
    Files = {a, b}
    Folder = {b}
    Revs = {0, 1}
    MaxOps = 3
    TypeKeys = {"type", "Type"}
INVARIANTS TypeOK SavedTextIsOnDisk WaitingHasRequest
PROPERTIES IndicatorsSettle
CHECK_DEADLOCK FALSE
