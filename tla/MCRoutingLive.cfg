\* Two servers that stay up: which requests end.
SPECIFICATION FairSpec
CONSTANTS
    g = g
    p = p
    c = c
    x = x
    y = y
    m1 = m1
    m2 = m2
    m3 = m3
    NoAccount = NoAccount
    NoRoute = NoRoute
    NoNode = NoNode
    Node <- MCTwoNodes
    Account <- MCAccount
    Message <- MCLiveMessage
    source <- MCLiveSource
    target <- MCLiveTarget
    Entry <- MCLiveEntry
    Upstream <- MCTwoUpstream
    Known <- MCTwoKnown
    Parent <- MCParent
    BlockNode <- MCTwoNodes
    MayCrash = FALSE
CHECK_DEADLOCK FALSE
PROPERTIES RequestsEnd
