\* Threads that write the same rows, a block database whose commits may fail,
\* crashes.
SPECIFICATION FairSpec
CONSTANTS
    t1 = t1
    t2 = t2
    x1 = x1
    x2 = x2
    NoTxn = NoTxn
    Thread <- MCThread
    Txn <- MCTwo
    Resource <- MCResource
    Database <- MCDatabase
    Graph = {"graph"}
    Owner <- MCOwner
    Position <- MCPosition
    Row <- MCRow
    RowsOf <- MCShared
    Unreliable = {"blocks"}
    MayCrash = TRUE
CHECK_DEADLOCK FALSE
INVARIANTS TypeOK ThreadsClean NothingBeforeCommit Atomic
PROPERTIES TransactionsEnd
