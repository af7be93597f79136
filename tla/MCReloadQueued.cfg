SPECIFICATION ReadsSpec
CONSTANTS
    Points = 4
    IdListThreshold = 1
    MaxRangesIn = 4
    MaxRangesOut = 4
    Conns <- MCConns
    NegIds <- MCNegIds
    Filters <- MCFilters
    Protected <- MCProtected
    LongIds <- MCLongIds
    BadMsgs <- MCBadMsgs
    MaxItems = 4
    AnonItems = 3
    Factor = 2
    ReplyBudget = 12
    RespLimit = 8
    OutCap = 1
    OutFrames = 2
    MaxSubs = 2
    MaxOpens = 2
    MaxRounds = 2
    NegMenus <- MCNegMenus
    None = None
    Chunk = 1
    Nobody = Nobody
    DfSample = 3
    ByteCap = 8
    SearchMult = 2
    IndexMenus <- MCIndexMenus
    Anyone = Anyone
    EndOfTime = 99999
    MaxMembers = 2
    HttpMenus <- MCHttpMenus
    ApiPermits = 1
    MaxApiLimit = 3
    MaxApiOffset = 3
    MaxApiFetch = 6
    ResponseBytes = 3
    MaxCount = 3
    DefaultLimit = 3
    Rounds = 2
    ProbeFetch = 1
    ProbeMax = 3
    Sample = 4
    MaxMonths = 2
    HourSecs = 1
    MaxBridgeFilters = 3
    BridgeDefault = 3
    BridgeMax = 3
    BridgePer = 2
    BridgePad = 1
    BridgeFetch = 6
    BridgeCount = 3
    BridgeBytes = 6
    WindowDefault = 2
    WindowMax = 4
    WindowPer = 1
    WindowPad = 1
    WindowFetchMin = 2
    WindowFetchMax = 5
    WindowRounds = 2
    MaxWindowEvents = 7
    AuxLimit = 4
    ThreadDepthMax = 4
    SummaryTreeMax = 6
    MaxReplies = 5
    TreeDefault = 3
    TreeMax = 4
    TreeDepth = 2
    TreeReplies = 5
    MaxPeople = 1
    Admin = "root"
    Grantable = {"banpubkey", "unbanpubkey"}
    RoleEvents <- MCRoleEvents
    Params <- MCParams
    MaxEntries = 2
    CompactAfter = 3
    NoKey = NoKey
    AccessMenus <- MCAccessMenus
    Window = 2
    MaxSeen = 3
    MaxOwn = 2
    Tokens <- MCTokens
    Managers = {"root", "mod"}
    MaxClock = 4
    MaxPresented = 5
    Parts = {"access"}
INVARIANTS
    QueuedSurvivesReload
CHECK_DEADLOCK FALSE
