\* Start, run, crash and stop with a healthy RocksDB and a start that fits in
\* the producer's first wait; both threads are scheduled.
SPECIFICATION FairSpec
CONSTANTS
    b1 = b1  b2 = b2  b3 = b3  b4 = b4
    m1 = m1  m2 = m2
    h1 = h1
    Block = {b1, b2, b3, b4}
    Message = {m1, m2}
    Hash = {h1}
    transactionHash <- MCHashOfTwo
    GENESIS_KEY = GENESIS_KEY
    NoBlock = NoBlock
    Thread <- MCThread
    SilentFailures <- NoDatabases
    StartupRace = FALSE
    GenesisConfig <- Always
    ProducerEnabled <- Either
    MayCrash = TRUE
    MaxCount = 3
    EmptyBlocks = TRUE
INVARIANTS TypeOK ChainIntact StoreAgrees
PROPERTIES ImplementsLedger ProducerProgress
