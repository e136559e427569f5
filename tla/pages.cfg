SPECIFICATION PagesSpec
CONSTANTS
    LogLimit = 2
    MaxLines = 4
    MaxOutput = 1
    MaxInits = 2
    MaxChecks = 2
    Repos = {u1, u2}
    Blank = Blank
    New = New
    MaxProjects = 2
    MaxUrls = 2
    MaxClicks = 1
    MaxInvites = 2
    MaxCalls = 3
    Inputs = {x}
    NoInput = NoInput
    MaxSends = 3
    NoAnswer = NoAnswer
    MaxValue = 1
    Span = 8
    ClockChanges = {12, 15}
    Pause = 11
    MaxDays = 8
    MaxLog = 1
INVARIANTS
    PagesTypeOK
    TerminalShowsLog
    NoFalseSignOut
    ListedBranchIsChosen SandboxAsSubmitted
    WithdrawnIsNotOffered
    BusyHasRequest
    OldActivityIsCounted
PROPERTIES
    OwnerStays
    OutputIsShown
    SignedOutPagesAreLeft
    ViewsCatchUp
CHECK_DEADLOCK FALSE
