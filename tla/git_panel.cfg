SPECIFICATION GitSpec
CONSTANTS
    e1 = e1
    r = r
    Edits = {e1}
    Foreign = r
    Main = "main"
    Feat = "feat"
    Detached = "detached"
INVARIANTS GitTypeOK PushFollowsCommit
PROPERTIES CommitsSurvive EditsLeaveTreeOnRequest GitButtonsComeBack
CHECK_DEADLOCK FALSE
