SPECIFICATION Spec
CONSTANTS
    p1 = p1
    p2 = p2
    o1 = o1
    o2 = o2
    a1 = a1
    r1 = r1
    r2 = r2
    r3 = r3
    Nobody = Nobody
    NoAlert = NoAlert
    Request = {r1, r2}
    Earlier = {o1, o2}
    EarlierRow <- MCEarlierRow
    Product = {p1, p2}
    Catalog = {p1}
    Alert = {}
    AlertProduct <- MCAlertProduct
    Calls <- Decisions
    MaxInt = 4
    Minima = {1}
    OpeningStock = 1
    Sold = {}
    ContextHasQueries = FALSE
INVARIANTS RowsWellFormed
