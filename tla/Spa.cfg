SPECIFICATION SpaSpec
CONSTANTS
    p1 = p1
    p2 = p2
    p3 = p3
    a1 = a1
    a2 = a2
    i1 = i1
    i2 = i2
    Product = {p1, p2, p3}
    First = {p1, p2}
    Elsewhere = {p2}
    LastSeen = p2
    ProductJumps = {p2}
    NoProduct = NoProduct
    NoText = NoText
    PageSize = 1
    MaxStock = 1
    MaxEdits = 1
    MaxMoves = 2
    MaxVisits = 2
    MaxCalls = 3
    Alert = {a1, a2}
    Item = {i1, i2}
    ItemOf <- MCItemOf
    Category = {"n1"}
    None = None
    MaxPages = 3
    MaxAsked = 2
INVARIANTS
    TextStaysHome
    HistoryIsCurrent
    OneMovementPerSubmission
    RowsUnderTheirTab
CHECK_DEADLOCK FALSE
