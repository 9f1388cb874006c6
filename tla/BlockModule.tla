----------------------------- MODULE BlockModule -----------------------------
(***************************************************************************)
(* The block module around the block database.  Two threads reach the     *)
(* store: the main thread, which starts the module, loads the genesis      *)
(* block in postStart and stops the module, and the producer thread, which *)
(* wakes every 20 seconds, empties the queue of accepted transactions and  *)
(* writes them as one block; a server has one only if it is configured to  *)
(* produce.  Request threads only add to the queue, on every server.       *)
(* The process may die between any two steps and be started again.         *)
(***************************************************************************)
EXTENDS BlockChainStore

CONSTANTS
    StartupRace,    \* may the producer's first wait end before postStart has?
    GenesisConfig,  \* on a start, is the genesis file there?  a set of answers
    ProducerEnabled,\* on a start, is BLOCK_PRODUCER_ENABLED "true"?  a set of answers
    MayCrash,       \* bound: is a crash of the process explored?
    EmptyBlocks,    \* bound: are blocks without transactions explored?
    MaxCount        \* bound: no block is begun once the count has reached it

Main == "main"
Producer == "producer"

ASSUME ModuleAssumption ==
    /\ Thread = {Main, Producer}
    /\ StartupRace \in BOOLEAN
    /\ GenesisConfig \in (SUBSET BOOLEAN) \ {{}}
    /\ ProducerEnabled \in (SUBSET BOOLEAN) \ {{}}
    /\ MayCrash \in BOOLEAN
    /\ EmptyBlocks \in BOOLEAN
    /\ MaxCount \in Nat

VARIABLES
    mainPc,         \* where the main thread is
    producerPc,     \* where the producer thread is
    currentState,   \* BlockProducer::currentState
    queue,          \* BlockProducer::transactions: accepted, not yet taken
    taken,          \* generateBlock's parameter: the producer's own copy
    parentHash,     \* generateBlock's parentHash
    delivery        \* what the sender of each transaction can know of it

moduleVars == <<mainPc, producerPc, currentState, queue, taken, parentHash, delivery>>
vars == <<storeVars, moduleVars>>

Starting == {"postStart", "readCount", "cacheCount", "readHead", "cacheHead",
             "load", "counting", "commit", "failed"}
MainPc == {"down", "serving", "stopping", "joining"} \cup Starting
Generating == {"parent", "cacheParent", "applying", "counting", "commit"}
ProducerPc == {"none", "waiting", "taking", "exited"} \cup Generating

TypeOK ==
    /\ StoreTypeOK
    /\ mainPc \in MainPc
    /\ producerPc \in ProducerPc
    /\ currentState \in {"inited", "terminated"}
    /\ queue \subseteq Message
    /\ taken \subseteq Message
    /\ parentHash \in Block \cup {NoBlock}
    /\ delivery \in [Message -> {"new", "accepted", "lost"}]

Init ==
    /\ StoreInit
    /\ mainPc = "down"
    /\ producerPc = "none"
    /\ currentState = "inited"
    /\ queue = {}
    /\ taken = {}
    /\ parentHash = NoBlock
    /\ delivery = [m \in Message |-> "new"]

\* The messages that are in some block of the database.
InBlocks == UNION {blocks[b].messages : b \in Stored}

\* Everything in memory goes; an accepted transaction that is in no block by
\* then is lost.
ProcessGone ==
    /\ LoseMemory
    /\ mainPc' = "down"
    /\ producerPc' = "none"
    /\ currentState' = "inited"
    /\ queue' = {}
    /\ taken' = {}
    /\ parentHash' = NoBlock
    /\ delivery' = [m \in Message |->
                      IF delivery[m] = "accepted" /\ m \notin InBlocks THEN "lost" ELSE delivery[m]]

----------------------------------------------------------------------------
(* The main thread: start, postStart, stop.                                *)

\* BlockProducer::enabled: the server runs a producer thread.
isEnabled == producerPc # "none"

\* BlockModuleManager::start: the producer thread is launched first, on a server
\* that is configured to produce blocks.
Start ==
    /\ mainPc = "down"
    /\ mainPc' = "postStart"
    /\ \E enabled \in ProducerEnabled :
          producerPc' = IF enabled THEN "waiting" ELSE "none"
    /\ UNCHANGED <<storeVars, currentState, queue, taken, parentHash, delivery>>

\* A slip in requireGenesis: an existing chain is not noticed.
RequireGenesisAlways ==
    /\ mainPc = "postStart"
    /\ mainPc' = "load"
    /\ UNCHANGED <<storeVars, producerPc, currentState, queue, taken, parentHash, delivery>>

\* postStart opens a transaction and asks requireGenesis.
RequireGenesis ==
    /\ mainPc = "postStart"
    /\ mainPc' = IF HasGenesis THEN "readCount" ELSE "load"
    /\ UNCHANGED <<storeVars, producerPc, currentState, queue, taken, parentHash, delivery>>

\* A chain is there: requireGenesis fills the caches from the database.
LoadBlockCount ==
    /\ \/ /\ mainPc = "readCount"
          /\ blockCount # NoCount
          /\ mainPc' = "readHead"
          /\ UNCHANGED storeVars
       \/ /\ mainPc = "readCount"
          /\ ReadBlockCount(Main)
          /\ mainPc' = "cacheCount"
       \/ /\ mainPc = "cacheCount"
          /\ CacheBlockCount(Main)
          /\ mainPc' = "readHead"
    /\ UNCHANGED <<producerPc, currentState, queue, taken, parentHash, delivery>>

LoadParentHash ==
    /\ \/ /\ mainPc = "readHead"
          /\ parentBlock # NoBlock
          /\ mainPc' = "serving"
          /\ UNCHANGED storeVars
       \/ /\ mainPc = "readHead"
          /\ ReadParentHash(Main)
          /\ mainPc' = "cacheHead"
       \/ /\ mainPc = "cacheHead"
          /\ CacheParentHash(Main)
          /\ mainPc' = "serving"
    /\ UNCHANGED <<producerPc, currentState, queue, taken, parentHash, delivery>>

\* No chain: GenesisLoader::load ends in writeBlock, unless there is no
\* genesis file, when postStart goes on without a chain.
LoadGenesis ==
    /\ \/ /\ mainPc = "load"
          /\ FALSE \in GenesisConfig
          /\ mainPc' = "serving"
          /\ UNCHANGED storeVars
       \/ /\ mainPc = "load"
          /\ TRUE \in GenesisConfig
          /\ \E b \in Fresh : PutBlock(Main, b, GENESIS_KEY, {})
          /\ mainPc' = "counting"
       \/ /\ mainPc = "counting"
          /\ PutBlockCount(Main)
          /\ mainPc' = "commit"
    /\ UNCHANGED <<producerPc, currentState, queue, taken, parentHash, delivery>>

\* postStart's commit.
CommitGenesis ==
    /\ mainPc = "commit"
    /\ \/ CommitBlocks(Main) /\ UNCHANGED mainPc
       \/ CommitChilds(Main) /\ UNCHANGED mainPc
       \/ CommitTransactions(Main) /\ mainPc' = "serving"
    /\ UNCHANGED <<producerPc, currentState, queue, taken, parentHash, delivery>>

\* An exception in postStart before the genesis block is written (an account
\* that cannot be applied, a database that names no head): main unloads.
StartFails ==
    /\ \/ mainPc = "load" /\ TRUE \in GenesisConfig
       \/ mainPc = "readHead" /\ parentBlock = NoBlock /\ parentKey = NoBlock
    /\ mainPc' = "failed"
    /\ UNCHANGED <<storeVars, producerPc, currentState, queue, taken, parentHash, delivery>>

\* ModuleManager::terminate, then the unload that stops the request threads.
Stop ==
    /\ mainPc = "serving"
    /\ mainPc' = "stopping"
    /\ UNCHANGED <<storeVars, producerPc, currentState, queue, taken, parentHash, delivery>>

\* BlockProducer::fin: terminate, where there is a producer ...
Terminate ==
    /\ mainPc \in {"failed", "stopping"}
    /\ isEnabled
    /\ mainPc' = "joining"
    /\ currentState' = "terminated"
    /\ UNCHANGED <<storeVars, producerPc, queue, taken, parentHash, delivery>>

\* ... join, and the singletons are freed, the queue with them.
Join ==
    /\ \/ mainPc = "joining" /\ producerPc = "exited"
       \/ mainPc \in {"failed", "stopping"} /\ ~isEnabled
    /\ ProcessGone

----------------------------------------------------------------------------
(* The producer thread: run() and generateBlock.                           *)

\* A slip in checkState: it waits for a batch of work.
WakeOnBatch ==
    /\ producerPc = "waiting"
    /\ mainPc \in Starting => StartupRace
    /\ currentState = "terminated" \/ Cardinality(queue) > 1
    /\ producerPc' = IF currentState = "terminated" THEN "exited" ELSE "taking"
    /\ UNCHANGED <<storeVars, mainPc, currentState, queue, taken, parentHash, delivery>>

\* wait_for has no predicate: it ends on the notification, after 20 seconds
\* or spuriously, and only then is the state looked at.
Wake ==
    /\ producerPc = "waiting"
    /\ mainPc \in Starting => StartupRace
    /\ \/ /\ currentState = "terminated"
          /\ producerPc' = "exited"
       \/ /\ currentState # "terminated"
          /\ Fresh # {} /\ blockCount < MaxCount /\ (EmptyBlocks \/ queue # {})
          /\ producerPc' = "taking"
    /\ UNCHANGED <<storeVars, mainPc, currentState, queue, taken, parentHash, delivery>>

\* A slip in getTransactions: the queue is copied and not cleared.
GetTransactionsKeeping ==
    /\ producerPc = "taking"
    /\ taken' = queue
    /\ producerPc' = "parent"
    /\ UNCHANGED <<storeVars, mainPc, currentState, queue, parentHash, delivery>>

GetTransactions ==
    /\ producerPc = "taking"
    /\ taken' = queue
    /\ queue' = {}
    /\ producerPc' = "parent"
    /\ UNCHANGED <<storeVars, mainPc, currentState, parentHash, delivery>>

\* generateBlock opens its transaction and asks for the parent.
GetParentHash ==
    /\ \/ /\ producerPc = "parent"
          /\ parentBlock # NoBlock
          /\ parentHash' = parentBlock
          /\ producerPc' = "applying"
          /\ UNCHANGED storeVars
       \/ /\ producerPc = "parent"
          /\ ReadParentHash(Producer)
          /\ producerPc' = "cacheParent"
          /\ UNCHANGED parentHash
       \/ /\ producerPc = "cacheParent"
          /\ CacheParentHash(Producer)
          /\ parentHash' = value[Producer].head
          /\ producerPc' = "applying"
    /\ UNCHANGED <<mainPc, currentState, queue, taken, delivery>>

\* No head anywhere: the exception leaves the thread and ends the process.
NoParentHash ==
    /\ producerPc = "parent"
    /\ parentBlock = NoBlock
    /\ parentKey = NoBlock
    /\ ProcessGone

\* The transactions are applied, the block is built, signed and written.
WriteBlock ==
    /\ \/ /\ producerPc = "applying"
          /\ \E b \in Fresh : PutBlock(Producer, b, parentHash, taken)
          /\ producerPc' = "counting"
          /\ UNCHANGED <<taken, parentHash>>
       \/ /\ producerPc = "counting"
          /\ PutBlockCount(Producer)
          /\ producerPc' = "commit"
          /\ UNCHANGED <<taken, parentHash>>
    /\ UNCHANGED <<mainPc, currentState, queue, delivery>>

\* A slip in generateBlock: the queue is cleared once the block is written.
CommitBlockClearing ==
    /\ producerPc = "commit"
    /\ \/ /\ CommitBlocks(Producer) \/ CommitChilds(Producer)
          /\ UNCHANGED <<producerPc, queue, taken, parentHash>>
       \/ /\ CommitTransactions(Producer)
          /\ producerPc' = "waiting"
          /\ queue' = {}
          /\ taken' = {}
          /\ parentHash' = NoBlock
    /\ UNCHANGED <<mainPc, currentState, delivery>>

\* A slip in generateBlock: a block without transactions is not committed.
CommitBlockIfFilled ==
    /\ producerPc = "commit"
    /\ \/ /\ taken # {}
          /\ CommitBlocks(Producer) \/ CommitChilds(Producer)
          /\ UNCHANGED <<producerPc, taken, parentHash>>
       \/ /\ \/ taken # {} /\ CommitTransactions(Producer)
             \/ /\ taken = {}
                /\ resource' = [resource EXCEPT ![Producer] = NoResource]
                /\ UNCHANGED <<durable, caches, value, torn>>
          /\ producerPc' = "waiting"
          /\ taken' = {}
          /\ parentHash' = NoBlock
    /\ UNCHANGED <<mainPc, currentState, queue, delivery>>

CommitBlock ==
    /\ producerPc = "commit"
    /\ \/ /\ CommitBlocks(Producer) \/ CommitChilds(Producer)
          /\ UNCHANGED <<producerPc, taken, parentHash>>
       \/ /\ CommitTransactions(Producer)
          /\ producerPc' = "waiting"
          /\ taken' = {}
          /\ parentHash' = NoBlock
    /\ UNCHANGED <<mainPc, currentState, queue, delivery>>

----------------------------------------------------------------------------
(* The request threads, and the end of the process.                        *)

\* BlockService::blockMessage up to the reply: the transaction is queued.
BlockMessage(m) ==
    /\ mainPc \in Starting \cup {"serving"}
    /\ currentState # "terminated"
    /\ delivery[m] = "new"
    /\ queue' = queue \cup {m}
    /\ delivery' = [delivery EXCEPT ![m] = "accepted"]
    /\ UNCHANGED <<storeVars, mainPc, producerPc, currentState, taken, parentHash>>

\* A signal, a power cut or an exception no thread catches; a transaction the
\* account module refuses in generateBlock is one of these.
Crash ==
    /\ MayCrash
    /\ mainPc # "down"
    /\ ProcessGone

MainStep == RequireGenesis \/ LoadBlockCount \/ LoadParentHash \/ LoadGenesis
                \/ CommitGenesis \/ Terminate \/ Join
ProducerStep == Wake \/ GetTransactions \/ GetParentHash \/ NoParentHash
                    \/ WriteBlock \/ CommitBlock

Next ==
    \/ Start \/ MainStep \/ StartFails \/ Stop
    \/ ProducerStep
    \/ \E m \in Message : BlockMessage(m)
    \/ Crash

Spec == Init /\ [][Next]_vars

\* Neither thread is stopped by its scheduler, and wait_for always ends; no
\* request, no signal and no start is promised.
Fairness == WF_vars(MainStep) /\ WF_vars(ProducerStep)
FairSpec == Spec /\ Fairness
=============================================================================
