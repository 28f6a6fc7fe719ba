SPECIFICATION OrdersConsoleSpec
CONSTANTS
    Order = {1, 2}
    FirstStatus <- MCFirstStatus
    Shared = {2}
    OrderJumps = {1}
    Slot = {s1, s2}
    Hand = {h1}
    NoOrder = NoOrder
    NoAnswer = NoAnswer
SYMMETRY SlotSymmetry
INVARIANTS
    RestsOnTheRoute
    ShownWasTrue
    SpinnersHaveACall
CHECK_DEADLOCK FALSE
