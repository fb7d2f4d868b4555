SPECIFICATION AccountSpec
CONSTANTS
    Nobody = Nobody
    Users = {ann, bob, cal}
    Founders = {ann, bob, cal}
    Tokens = {1, 2, 3}
    Codes = {c1}
    Requests = {r1, r2}
    Kinds = {"login", "role", "suspend"}
    Processes = {p1}
    Identities = {ann}
    Watched = ann
    Calls = {r1, r2}
    Limit = 1
    Window = 1
    Cooldown = 1
    MaxEntries = 1
    Shared = Shared
    MaxClock = 1
SYMMETRY Interchangeable
PROPERTIES
    AnOwnerRemains
