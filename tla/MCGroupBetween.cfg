SPECIFICATION Spec
CONSTANTS
    Parts = {"derived"}
    Request = {p1, d1, s1, s2}
    MaxMsgs = 4
    MaxEvents = 4
    MaxBytes = 0
    MaxPanics = 0
    BufferMax = 1
    MayDrain = FALSE
    MaxCrashes = 0
    MaxFaults = 0
    p1 = p1
    b1 = b1
    d1 = d1
    s1 = s1
    s2 = s2
    Stop = Stop
    Kind <- MCKind
    Events <- MCEvents
    Bytes <- MCBytes
    Batch = 3
    g1 = g1
    g2 = g2
    Event = {1, 2}
    Group = {g1, g2}
    GroupOf <- MCGroupOf
    Unresolved = {2}
    NoSnap = NoSnap
    NoTask = NoTask
    Rebuilder = Rebuilder
    Saver = Saver
    DeleteEarly = FALSE
    Preempted = FALSE
    MaxReads = 2
    MaxApi = 1
    MaxReadBytes = 3
    Readers = 2
    Page = 2
    Keys = {1, 2, 3, 4, 5}
    Missing = Missing
    ReadMenus <- MCReadMenus
INVARIANT NeverBetween
CHECK_DEADLOCK FALSE
