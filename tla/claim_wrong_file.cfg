SPECIFICATION Spec
CONSTANTS
    a = a
    b = b
    None = None
    Files = {a, b}
    Folder = {b}
    Revs = {0, 1}
    MaxOps = 3
    TypeKeys = {"Type"}
INVARIANT SavesGoToTheirFile
CHECK_DEADLOCK FALSE
