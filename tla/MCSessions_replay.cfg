SPECIFICATION Spec
CONSTANTS
    Clients = {c1, c2}
    Families = {f1}
    Tokens = {t1, t2, t3}
    Challenges = {h1}
    UserRow = user
    Passwords = {p1}
    None = None
    Threshold = 1
    MaxHashes = 0
    Operations <- Replays
PROPERTY ReplayRevokes
