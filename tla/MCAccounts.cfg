SPECIFICATION AccountSpec
CONSTANTS
    Nobody = Nobody
    Users = {ann, bob}
    Founders = {ann}
    Tokens = {1, 2, 3}
    Codes = {c1, c2}
    Requests = {r1, r2}
    Kinds <- AllKinds
    Processes = {p1}
    Identities = {ann, bob}
    Watched = ann
    Calls = {r1, r2}
    Limit = 1
    Window = 2
    Cooldown = 1
    MaxEntries = 1
    Shared = Shared
    MaxClock = 3
SYMMETRY Interchangeable
INVARIANTS
    AccountTypeOK
    NothingEscapes
    OnlyTheseDeadlock
    AdmissionsAreBounded
    OneProbe
PROPERTIES
    TokensAreExchangedOnce
    ResetSpendsEveryCode
