SPECIFICATION RelaySpec
CONSTANTS
    Window = 2
    Tracked = 2
    Conns = {"c1", "c2"}
    Authors = {1, 2, 3, 4, 9}
    JoinLimit = 2
    MaxPrevious = 3
    MaxRoleMembers = 3
    HeldLimit = 1
    Codes = {"good"}
    RelayKey = 9
    Menus <- MCHeldMenus
    Unset = Unset
    Clients = {"c1", "c2"}
    RoleIds = {"mod", "vip", "new"}
    Members = {"ann", "bob"}
    Cap = 2
    BufferMax = 2
    RoleMenus <- MCRoleMenus
    Absent = Absent
    Keys = {"a", "b", "c"}
    Gids = {"g", "h"}
    Relay = "relay"
    MaxGroups = 2
    MaxMembers = 2
    MaxTotal = 3
    Seconds = 3
    Nil = Nil
    GroupMenus <- MCGroupMenus
    Owners = {"a", "b"}
    Shas = {"x", "y"}
    MinFree = 1
    MaxUpload = 2
    UploadBudget = 3
    MaxPerKey = 2
    MaxOwners = 2
    Attempts = 2
    Later <- MCLater
    None = None
    BlobMenus <- MCBlobMenus
    NoList = NoList
    Gone = Gone
    Foreign = Foreign
    LiveMenus <- MCLiveMenus
    Parts = {"intake"}
INVARIANT AckedRemovalKept
CHECK_DEADLOCK FALSE
