SPECIFICATION MCSpec
CONSTANTS
    c1 = c1
    c2 = c2
    s1 = s1
    s2 = s2
    k1 = k1
    k2 = k2
    Caller = {c1, c2}
    Nobody = Nobody
    SkuValue = {s1, s2}
    CategoryName = {k1, k2}
    Requests <- MCRequests
    FirstProducts <- MCProducts
    FirstAlerts <- MCAlerts
    FirstNames <- MCNames
    Attempts = 2
    MaxProducts = 2
    MaxTexts = 3
    MaxAlerts = 2
    MaxJournal = 2
SYMMETRY CallerSymmetry
INVARIANTS EmbeddingOfCurrentText
PROPERTIES  ListFlagWasTrue
