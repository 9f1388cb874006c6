--------------------------- MODULE BlockChainStore ---------------------------
(***************************************************************************)
(* The block database: BlockChainStore over three RocksDB databases        *)
(* ("blocks", "childs", "transactions"), reached through a BlockResource   *)
(* per thread.  Durable state and the memory of the process are separate:  *)
(* a crash keeps the first and loses the second.                           *)
(*                                                                         *)
(* A thread's BlockResource holds one RocksDB transaction per database;    *)
(* commit() ends them one after the other in the order of a std::map, so   *)
(* the three databases do not change together.  RocksDB itself (pessimistic*)
(* locks, one atomic commit per database, a status the code never reads)   *)
(* is external and modelled from the calls the code makes.                 *)
(***************************************************************************)
EXTENDS Integers, FiniteSets

CONSTANTS
    Block,            \* hashes of signed blocks
    GENESIS_KEY,      \* the parent hash a genesis block names
    NoBlock,          \* no block: a missing key, an empty HashHelper
    Message,          \* transactions as delivered to the block service
    Hash,             \* transaction hashes
    transactionHash,  \* the hash each delivered transaction carries
    Thread,           \* the threads that reach the store
    SilentFailures    \* databases whose Commit may fail, its status unread

ASSUME StoreAssumption ==
    /\ NoBlock \notin Block
    /\ GENESIS_KEY \notin Block \cup {NoBlock}
    /\ transactionHash \in [Message -> Hash]
    /\ SilentFailures \subseteq {"blocks", "childs", "transactions"}

VARIABLES
    blocks,           \* database "blocks": each block's record, under its hash
    parentKey,        \* database "blocks": the entry PARENT_KEY
    blockCountKey,    \* database "blocks": the entry BLOCK_COUNT
    childs,           \* database "childs": the block that names this parent
    transactions,     \* database "transactions": the block holding this hash
    parentBlock,      \* memory: BlockChainStore::parentBlock
    blockCount,       \* memory: BlockChainStore::blockCount
    resource,         \* memory: each thread's BlockResource
    value,            \* memory: what each thread read and has not yet cached
    torn              \* history: blocks some of whose index entries were lost

durable == <<blocks, parentKey, blockCountKey, childs, transactions>>
caches == <<parentBlock, blockCount>>
storeVars == <<durable, caches, resource, value, torn>>

Parent == Block \cup {GENESIS_KEY, NoBlock}
Entry == [parent : Parent, messages : SUBSET Message]
NoEntry == [parent |-> NoBlock, messages |-> {}]

\* The count is -1 until BLOCK_COUNT has been read or a block written.
NoCount == -1
Count == Nat \cup {NoCount}

\* Where a thread's resource is: no pending write, between the two halves of
\* writeBlock, or with the named database the next one to commit.
Phase == {"idle", "counting", "blocks", "childs", "transactions"}

\* writeBlock is over, then the databases in the order of transactionMap (and a
\* slip: another order).
ChildsFirst == [counting |-> "childs", childs |-> "blocks",
                blocks |-> "transactions", transactions |-> "idle"]
After == [counting |-> "blocks", blocks |-> "childs",
          childs |-> "transactions", transactions |-> "idle"]

\* The writes a thread has pending, and whether the Puts of the two keys every
\* block writes were granted their lock.
Resource == [block : Block \cup {NoBlock}, parent : Parent, messages : SUBSET Message,
             count : Count, headPut : BOOLEAN, countPut : BOOLEAN, next : Phase]
NoResource == [block |-> NoBlock, parent |-> NoBlock, messages |-> {},
               count |-> NoCount, headPut |-> FALSE, countPut |-> FALSE, next |-> "idle"]

Value == [head : Block \cup {NoBlock}, count : Count]
NoValue == [head |-> NoBlock, count |-> NoCount]

StoreTypeOK ==
    /\ blocks \in [Block -> Entry]
    /\ parentKey \in Block \cup {NoBlock}
    /\ blockCountKey \in Count
    /\ childs \in [Block \cup {GENESIS_KEY} -> Block \cup {NoBlock}]
    /\ transactions \in [Hash -> Block \cup {NoBlock}]
    /\ parentBlock \in Block \cup {NoBlock}
    /\ blockCount \in Count
    /\ resource \in [Thread -> Resource]
    /\ value \in [Thread -> Value]
    /\ torn \subseteq Block

\* The blocks the database holds.
Stored == {b \in Block : blocks[b].parent # NoBlock}

\* Hashes nothing refers to: the next block's hash is one of these.
Fresh ==
    {b \in Block \ (Stored \cup {parentBlock, parentKey}) :
        /\ \A t \in Thread : resource[t].block # b
        /\ \A p \in DOMAIN childs : childs[p] # b
        /\ \A h \in Hash : transactions[h] # b}

StoreInit ==
    /\ blocks = [b \in Block |-> NoEntry]
    /\ parentKey = NoBlock
    /\ blockCountKey = NoCount
    /\ childs = [p \in Block \cup {GENESIS_KEY} |-> NoBlock]
    /\ transactions = [h \in Hash |-> NoBlock]
    /\ parentBlock = NoBlock
    /\ blockCount = NoCount
    /\ resource = [t \in Thread |-> NoResource]
    /\ value = [t \in Thread |-> NoValue]
    /\ torn = {}

----------------------------------------------------------------------------
(* Reading: the cached value if there is one, else a Get whose result is   *)
(* cached in a later step (nothing protects the caches between the two).   *)

\* The head of requireGenesis: does "childs" know a genesis block?
HasGenesis == childs[GENESIS_KEY] # NoBlock

\* getBlockCount on an empty cache: Get(BLOCK_COUNT) ...
ReadBlockCount(t) ==
    /\ blockCount = NoCount
    /\ value' = [value EXCEPT ![t].count = blockCountKey]
    /\ UNCHANGED <<durable, caches, resource, torn>>

\* ... and the assignment of what it returned, unless the key was missing.
CacheBlockCount(t) ==
    /\ blockCount' = IF value[t].count = NoCount THEN blockCount ELSE value[t].count
    /\ value' = [value EXCEPT ![t].count = NoCount]
    /\ UNCHANGED <<durable, parentBlock, resource, torn>>

\* getParentHash on an empty cache: Get(PARENT_KEY); a missing key throws, so
\* there is no step then ...
ReadParentHash(t) ==
    /\ parentBlock = NoBlock
    /\ parentKey # NoBlock
    /\ value' = [value EXCEPT ![t].head = parentKey]
    /\ UNCHANGED <<durable, caches, resource, torn>>

\* ... and the assignment of what it returned.
CacheParentHash(t) ==
    /\ parentBlock' = value[t].head
    /\ value' = [value EXCEPT ![t].head = NoBlock]
    /\ UNCHANGED <<durable, blockCount, resource, torn>>

----------------------------------------------------------------------------
(* writeBlock.  The Puts go into the thread's open RocksDB transactions.   *)
(* PARENT_KEY and BLOCK_COUNT are written by every block: a Put of a key   *)
(* another thread's open transaction has locked waits, and after the lock  *)
(* timeout fails with a status nobody reads.                               *)

HeadLocked(t) ==
    \E u \in Thread \ {t} : resource[u].headPut /\ resource[u].next \in {"counting", "blocks"}
CountLocked(t) ==
    \E u \in Thread \ {t} : resource[u].countPut /\ resource[u].next = "blocks"

\* The first half: the block, its parent's child, the head, and the cached head.
PutBlock(t, b, p, ms) ==
    /\ resource[t].next = "idle"
    /\ resource' = [resource EXCEPT ![t] =
                      [block |-> b, parent |-> p, messages |-> ms, count |-> NoCount,
                       headPut |-> ~HeadLocked(t), countPut |-> FALSE, next |-> "counting"]]
    /\ parentBlock' = b
    /\ UNCHANGED <<durable, blockCount, value, torn>>

\* A slip in writeBlock: the count is raised after it was written out.
PutBlockCountStale(t) ==
    /\ resource[t].next = "counting"
    /\ resource' = [resource EXCEPT ![t].count = IF blockCount = NoCount THEN 0 ELSE blockCount,
                                    ![t].countPut = ~CountLocked(t),
                                    ![t].next = After["counting"]]
    /\ blockCount' = IF blockCount = NoCount THEN 1 ELSE blockCount + 1
    /\ UNCHANGED <<durable, parentBlock, value, torn>>

\* The second half: the count and the index of the block's transactions.
PutBlockCount(t) ==
    LET count == IF blockCount = NoCount THEN 1 ELSE blockCount + 1
    IN  /\ resource[t].next = "counting"
        /\ resource' = [resource EXCEPT ![t].count = count,
                                        ![t].countPut = ~CountLocked(t),
                                        ![t].next = After["counting"]]
        /\ blockCount' = count
        /\ UNCHANGED <<durable, parentBlock, value, torn>>

----------------------------------------------------------------------------
(* BlockResource::commit: one database after the other.                    *)

\* What Commit of a database may come to; the code does not tell the cases apart.
Outcome(db) == IF db \in SilentFailures THEN BOOLEAN ELSE {TRUE}

CommitBlocks(t) ==
    LET r == resource[t]
    IN  /\ r.next = "blocks"
        /\ \E ok \in Outcome("blocks") :
             IF ok
             THEN /\ blocks' = [blocks EXCEPT ![r.block] =
                                  [parent |-> r.parent, messages |-> r.messages]]
                  /\ parentKey' = IF r.headPut THEN r.block ELSE parentKey
                  /\ blockCountKey' = IF r.countPut THEN r.count ELSE blockCountKey
             ELSE UNCHANGED <<blocks, parentKey, blockCountKey>>
        /\ resource' = [resource EXCEPT ![t].next = After["blocks"]]
        /\ UNCHANGED <<childs, transactions, caches, value, torn>>

\* A slip in writeBlock: key and value of the child index are swapped.
CommitChildsSwapped(t) ==
    LET r == resource[t]
    IN  /\ r.next = "childs"
        /\ childs' = [childs EXCEPT ![r.block] = r.parent]
        /\ resource' = [resource EXCEPT ![t].next = After["childs"]]
        /\ UNCHANGED <<blocks, parentKey, blockCountKey, transactions, caches, value, torn>>

CommitChilds(t) ==
    LET r == resource[t]
    IN  /\ r.next = "childs"
        /\ \E ok \in Outcome("childs") :
             /\ childs' = IF ok THEN [childs EXCEPT ![r.parent] = r.block] ELSE childs
             /\ torn' = IF ok THEN torn ELSE torn \cup {r.block}
        /\ resource' = [resource EXCEPT ![t].next = After["childs"]]
        /\ UNCHANGED <<blocks, parentKey, blockCountKey, transactions, caches, value>>

\* The keys writeBlock puts into "transactions".
HashesOf(ms) == {transactionHash[m] : m \in ms}

CommitTransactions(t) ==
    LET r == resource[t]
        hashes == HashesOf(r.messages)
    IN  /\ r.next = "transactions"
        /\ \E ok \in Outcome("transactions") :
             /\ transactions' = IF ok
                                THEN [h \in Hash |-> IF h \in hashes THEN r.block ELSE transactions[h]]
                                ELSE transactions
             /\ torn' = IF ok THEN torn ELSE torn \cup {r.block}
        /\ resource' = [resource EXCEPT ![t] = NoResource]
        /\ UNCHANGED <<blocks, parentKey, blockCountKey, childs, caches, value>>

\* How the next start finds the caches.
CachesLost == parentBlock' = NoBlock /\ blockCount' = NoCount

\* The process is gone, or the store is freed: open transactions and caches go,
\* the databases stay as they are.
LoseMemory ==
    /\ CachesLost
    /\ resource' = [t \in Thread |-> NoResource]
    /\ value' = [t \in Thread |-> NoValue]
    /\ torn' = torn \cup {resource[t].block : t \in
                            {u \in Thread : resource[u].next \in {"childs", "transactions"}}}
    /\ UNCHANGED durable
=============================================================================
