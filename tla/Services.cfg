SPECIFICATION ServicesSpec
CONSTANTS
    Requests = {r1, r2}
    Texts = {t1}
    Plans = {p1}
    Stops = {x1}
    MaxBreaks = 1
    NoRequest = NoRequest
    Commands <- Breaths
    MaxSubtasks = 2
    AllowedActions = {"a"}
    Proposals <- Graphs
    Catalogues <- Catalogued
    Models = {"one", "two", "other size"}
    QueryTexts = {"q", "r"}
    QueryCacheSize = 1
    NoPoint = NoPoint
    Windows = {w1, w2}
    Items = {i1, i2}
    MaxJobs = 2
    MaxMoves = 1
    NoJob = NoJob
    NoWindow = NoWindow
    Nothing = Nothing
    Costs = {"message", "errand"}
    Vocabulary = {"go", "halt"}
    QueueSize = 1
    MaxListens = 2
    MaxConnections = 2
    MaxMessages = 2
    NoUtterance = NoUtterance
CHECK_DEADLOCK FALSE
INVARIANTS
    ServicesTypeOK HeardAsSaid PlansAreHandedRightly NothingRunsAfterStop CommandsStayWhole IndexIsWhole
    ContextStaysWhereAllowed OnlyWhatWasMeant
PROPERTY EveryTurnEnds
