SPECIFICATION StoresSpec
CONSTANTS
    Sessions = {s1, s2}
    Imported = {i1}
    CapturedIn = {m1}
    CapturedOut = {o1}
    ArchiveAudio = TRUE
    MaxAudio = 1
    MaxFaults = 1
    NoSession = NoSession
    NoChunk = NoChunk
    Events = {e1}
    Episodes = {g1}
    EpisodeOf <- OneEpisode
    MaxTime = 1
    MaxIngests = 2
    MaxFailures = 1
    MaxDisturbed = 1
    NoRow = NoRow
    Meetings = {k1, k2}
    MeetingOf <- OneMeeting
    Blocked = {k2}
    ScreenChunks = {c1}
    Buckets = {1, 2}
    Contents = {x1}
    DualWrite = TRUE
    MaxMishaps = 1
    None = None
    MaxMemories = 2
    MaxTroubles = 2
    Grace = 1
    MaxDays = 4
    Texts = {t1, t2}
    Talks = {d1, d2}
    Releases = {1, 2}
    MaxObserved = 2
    QueueLimit = 1
    NoRun = NoRun
    Requests = {r1, r2}
    Items = {x1}
    QMax = 3
    WaveSize = 2
    MinEvidence = 1
    Limit = 2
    MaxInflight = 1
    MaxStops = 2
    Names = {n1}
    Spellings = {w1, w2}
    Normal <- SameNormal
    Sources = {a1, a2}
    Offers <- Halves
    Submitters = {u1, u2}
    Reviewers = {v1}
    OldTables <- TablesLeft
    OldColumns <- ColumnsLeft
    OldRows = {p1, p2}
    Ids = {y1, y2}
    Offered <- Brought
    Promotions <- Asked
    MaxEvents = 2
    MaxRefs = 2
CHECK_DEADLOCK FALSE
INVARIANTS
    StoresTypeOK TailBelongsToActive SearchFollowsRows WithdrawnIsNotServed PaidOnce
    ProbabilityIsHeldOut SlotsComeBack CanonicalIsBacked UpgradesAreSound LedgerStandsOnEvidence
PROPERTIES
    DecisionsStand EndedStaysEnded PruneLeavesNoFile ExpiredPointsGo MeetingsGetDone FreshGrace
