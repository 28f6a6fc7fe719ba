SPECIFICATION AccessSpec
CONSTANTS
    c1 = c1
    c2 = c2
    i1 = i1
    i2 = i2
    p1 = p1
    p2 = p2
    Client = {c1, c2}
    Nobody = Nobody
    Ip = {i1, i2}
    Calls <- MCCalls
    ProxyDepth = 1
    Typed = {"admin", "Admin", "ghost"}
    Username = {"admin", "ghost"}
    Lower <- MCLower
    Password = {p1, p2}
    NoUser = NoUser
    FirstUsers <- MCFirstUsers
    Threshold = 2
    Window = 2
    MaxTime = 3
    MaxRows = 3
    Tab = {t1, t2}
    Lifetime = 1
    Overlap = 1
    NoToken = NoToken
    NoSecret = NoSecret
    EndOfTime = 1
    MaxTokens = 2
    MaxRotations = 1
    MaxCalls = 2
SYMMETRY AccessSymmetry
INVARIANTS FailuresWithinBudget HintIsEnough EndedSessionsStayEnded
PROPERTIES TokenForTheRightPassword OneRotationIsSeamless SessionLostForAReason
