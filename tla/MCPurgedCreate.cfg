CONSTANTS
    Event = {1, 2, 3}
    Pubkey = {alice, bob}
    Address = {profile, about}
    Group = {g1}
    Ev <- RecreateEv
    Owner <- TheOwner
    None = None
    Anyone = Anyone
    alice = alice
    bob = bob
    profile = profile
    about = about
    g1 = g1
    DeletionRequests = {}
    VanishRequests = {}
    ListedEvents = {}
    PurgeBounds = {9}
    Chunk = 1
    ScopedMax = 1
    MarkerMax = 1
    ExpiryEnabled = FALSE
    Forever = 9
    MaxTime = 1
    MaxCounter = 1
    MaxFaults = 0
SPECIFICATION RelaySpec
INVARIANT
    PurgedCreateStaysOut
