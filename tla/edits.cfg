SPECIFICATION Spec
CONSTANTS
    Files = {f1}
    Branches = {main, topic}
    Main = main
    Requests = {r1, r2}
    Handlers = {"save", "create", "delete", "commit", "checkout", "branch", "pull", "push", "others", "rebuild"}
    MaxSteps = 5
    Nil = Nil
INVARIANTS TypeOK EditsSurvive
SYMMETRY Symmetry
CHECK_DEADLOCK FALSE
