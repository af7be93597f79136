SPECIFICATION SceneSpec
CONSTANTS
    Event = {1, 2, 3, 4, 5, 6, 7, 8, 9, 10, 11, 12, 13, 14, 15, 16, 17}
    Pubkey = {alice, bob}
    Address = {profile, about}
    Group = {g1}
    Ev <- StoreEv
    Owner <- TheOwner
    None = None
    Anyone = Anyone
    alice = alice
    bob = bob
    profile = profile
    about = about
    g1 = g1
    DeletionRequests <- AllRequests
    VanishRequests <- VanishRequestSet
    ListedEvents = {15, 16, 17}
    PurgeBounds = {1, 9}
    Chunk = 1
    ScopedMax = 1
    MarkerMax = 1
    ExpiryEnabled = TRUE
    Forever = 9
    MaxTime = 2
    MaxCounter = 2
    MaxFaults = 2
INVARIANTS
    TablesAgree
    DeletionHonoured
    VanishHonoured
    PurgedHistoryStaysOut
PROPERTIES
    GenerationMovesWithRemoval
    RecoveryFinishesTheWork
