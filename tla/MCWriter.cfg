SPECIFICATION Spec
CONSTANTS
    Parts = {"queue", "derived", "reads"}
    Request = {p1, b1, d1, s1}
    MaxMsgs = 3
    MaxEvents = 2
    MaxBytes = 2
    MaxPanics = 1
    BufferMax = 1
    MayDrain = TRUE
    MaxCrashes = 1
    MaxFaults = 1
    p1 = p1
    b1 = b1
    d1 = d1
    s1 = s1
    s2 = s2
    Stop = Stop
    Kind <- MCKind
    Events <- MCEvents
    Bytes <- MCBytes
    Batch = 3
    g1 = g1
    g2 = g2
    Event = {1, 2}
    Group = {g1, g2}
    GroupOf <- MCGroupOf
    Unresolved = {2}
    NoSnap = NoSnap
    NoTask = NoTask
    Rebuilder = Rebuilder
    Saver = Saver
    DeleteEarly = FALSE
    Preempted = FALSE
    MaxReads = 2
    MaxApi = 1
    MaxReadBytes = 3
    Readers = 2
    Page = 2
    Keys = {1, 2, 3, 4, 5}
    Missing = Missing
    ReadMenus <- MCReadMenus
INVARIANTS
    QueueAccounted
    AnswersTrue
    
    
    AckedStaysLive
    ReadsWhole
CHECK_DEADLOCK FALSE
