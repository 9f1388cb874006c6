\* The producer may wake while postStart is still running, a commit of "childs" or
\* "transactions" may fail unseen, and the genesis file may be missing.
SPECIFICATION Spec
CONSTANTS
    b1 = b1  b2 = b2  b3 = b3  b4 = b4
    m1 = m1  m2 = m2
    h1 = h1
    Block = {b1, b2, b3}
    Message = {m1, m2}
    Hash = {h1}
    transactionHash <- MCHashOfTwo
    GENESIS_KEY = GENESIS_KEY
    NoBlock = NoBlock
    Thread <- MCThread
    SilentFailures <- IndexDatabases
    StartupRace = TRUE
    GenesisConfig <- Either
    ProducerEnabled <- Either
    MayCrash = TRUE
    MaxCount = 4
    EmptyBlocks = TRUE
INVARIANTS
    IndexesFollowBlocks NoAcceptedLost EachMessageOnce
