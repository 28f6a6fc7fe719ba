SPECIFICATION OperationsSpec
CONSTANTS
    Client = {c1, c2}
    Segment <- MCSegment
    Calls <- MCCalls
    Outside = Outside
    NoCall = NoCall
    i1 = i1
    i2 = i2
    Installer = {i1, i2}
    Product = {p1, p2}
    FirstSchemas <- MCFirstSchemas
    MaxStores = 2
INVARIANTS
    RoutedLikeTheGateway
    CleanExitAnsweredAll
    ReadyUnlessCut
    EmbeddingSurvivesTheSwap
PROPERTY
    SignalEndsProcess
