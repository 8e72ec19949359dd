SPECIFICATION DealersSpec
CONSTANTS
    Clients = {c1, c2}
    Users = {u1, u2}
    None = None
    MaxVersion = 4
    Invited = {"owner"}
    Patches <- AllPatches
    Operations = {"create", "invite", "accept", "update", "leave", "crash", "capabilities", "account", "review", "suspend"}
SYMMETRY Symmetry
INVARIANTS TypeOK ActiveOwner CacheNotStale
PROPERTY AtomicSpec
CHECK_DEADLOCK FALSE
