SPECIFICATION CreateSpec
CONSTANTS
    u1 = u1
    u2 = u2
    Blank = Blank
    New = New
    Repos = {u1, u2}
    MaxProjects = 2
    MaxUrls = 2
    MaxClicks = 1
INVARIANT NewProjectIsUsed
CHECK_DEADLOCK FALSE
