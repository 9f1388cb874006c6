\* Later masters, under parents that are there or not.
SPECIFICATION Spec
CONSTANTS
    a1 = a1
    a2 = a2
    a3 = a3
    r1 = r1
    r2 = r2
    NoAccount = NoAccount
    NoRow = NoRow
    BaseGraph = BaseGraph
    NoStore = NoStore
    Producer = Producer
    Account <- MCAccount
    Reader <- MCOne
    LaterMaster <- MCLater
SYMMETRY SymmetryLater
INVARIANTS TypeOK GraphsSound RoutingEndsUnlessEarly NamedGraphsKeep
PROPERTIES AccountsPermanent
