SPECIFICATION FairSpec
CONSTANTS
    Conns <- MCConns
    Node <- MCNode
    Nodes = {"S", "A"}
    Near <- MCNear
    Far <- MCFar
    Threads <- MCThreads
    Timer <- MCTimer
    NodeOf <- MCNodeOf
    Generators <- MCGenerators
    MayAlter <- MCMayAlter
    Scripts <- MCScripts
    Length <- MCLength
    Garbled = "garbled"
    SessionKeys <- MCSessionKeys
    Keys = {"k1", "k2"}
    NoKey = "none"
    None = "nobody"
    Server = "S"
    Peered = {"p"}
    MaxProcess = 2
    MaxRoutes = 1
    MayLose = {"c", "p"}
INVARIANTS TypeOK Vouched SessionsServed PeersComplete
PROPERTIES HandshakesEnd
CHECK_DEADLOCK FALSE
