\* Three servers that may die, the top one no block server.
SPECIFICATION Spec
CONSTANTS
    g = g
    p = p
    c = c
    x = x
    y = y
    m1 = m1
    m2 = m2
    m3 = m3
    NoAccount = NoAccount
    NoRoute = NoRoute
    NoNode = NoNode
    Node <- MCNode
    Account <- MCAccount
    Message <- MCMessage
    source <- MCSource
    target <- MCTarget
    Entry <- MCEntry
    Upstream <- MCUpstream
    Known <- MCKnown
    Parent <- MCParent
    BlockNode <- MCTwoNodes
    MayCrash = TRUE
CHECK_DEADLOCK FALSE
INVARIANTS TypeOK QueueInProcessingOrder RepliesHonest
PROPERTIES ImplementsLife
