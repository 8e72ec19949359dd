SPECIFICATION OverlapSpec
CONSTANTS
    Clients = {c1, c2}
    Families = {f1, f2}
    Tokens = {t1, t2, t3}
    Challenges = {h1, h2}
    UserRow = user
    Passwords = {p1, p2}
    None = None
    Threshold = 2
    MaxHashes = 2
    Operations = {"login", "refresh", "logout", "logout_all", "expiry", "crash", "change", "reset", "recover", "status"}
SYMMETRY Symmetry
INVARIANTS TypeOK OneUnusedToken LiveFamiliesKnowPassword OneOpenChallenge
PROPERTY AtomicSpec
