SPECIFICATION ConnectionsSpec
CONSTANTS
    c1 = c1
    c2 = c2
    c3 = c3
    c4 = c4
    host = host
    proxy = proxy
    None = None
    Conn = {c1, c2, c3, c4}
    Addr = {host, proxy}
    Peer <- PeerOf
    TrustedProxies = {proxy}
    MaxConnections = 3
    MaxPerIp = 2
    SubIds <- MCSubIds
    Filters <- MCFilters
    Events <- MCEvents
    Keys <- MCKeys
    Menus <- MCMenus
    MaxPending = 1
    OutLimit = 1
    LiveBacklog = 1
    QueueLimit = 1
    BatchSize = 1
    BusLimit = 1
    MaxSubs = 2
    SubBytesLimit = 3
    PageLimit = 3
    RespLimit = 2
    RelayBudget = 5
    MaxAuths = 1
    NoSub = NoSub
    NoQueue = NoQueue
INVARIANTS
    SlotsAccounted
    NothingFallsBetween
    AccountsExact
PROPERTIES
    Drained
    WireFollowsProtocol
    ReqEnds
CHECK_DEADLOCK FALSE
