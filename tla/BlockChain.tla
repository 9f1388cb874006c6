----------------------------- MODULE BlockChain -----------------------------
(***************************************************************************)
(* What the block module has to keep true of its databases, its caches and *)
(* the transactions it accepted.                                           *)
(***************************************************************************)
EXTENDS BlockModule

\* A block whose record is in "blocks" while its index entries are still to come.
InCommit(b) == \E t \in Thread : resource[t].block = b
                                  /\ resource[t].next \in {"childs", "transactions"}

\* A thread whose block is written but not yet in the database "blocks".
Writing(t) == resource[t].next \in {"counting", "blocks"}

Founding == {b \in Stored : blocks[b].parent = GENESIS_KEY}

(* The chain can be walked from PARENT_KEY down: the head and the parent of
   every stored block are stored, whatever step the process died at.  The
   parent comes from a cache that is written before the commit
   (BlockChainStore::writeBlock, getParentHash). *)
ChainIntact ==
    /\ parentKey # NoBlock => parentKey \in Stored
    /\ \A b \in Stored : blocks[b].parent \in Stored \cup {GENESIS_KEY}

(* The chain never forks: no two stored blocks name the same parent, except
   genesis blocks whose loading was interrupted and done again; and nothing has
   been built on the head (BlockProducer::generateBlock on getParentHash). *)
NoFork ==
    /\ \A b, c \in Stored : blocks[b].parent = blocks[c].parent
                              => b = c \/ blocks[b].parent = GENESIS_KEY
    /\ \A b \in Stored : blocks[b].parent # parentKey

(* BLOCK_COUNT is the length of the chain below PARENT_KEY: every stored block
   is on it but the genesis blocks that were given up.  The count is kept in a
   cache that starts at -1 and is raised before the commit. *)
CountIsHeight ==
    blockCountKey = IF parentKey = NoBlock THEN NoCount
                    ELSE Cardinality(Stored) - Cardinality(Founding) + 1

(* The indexes never run ahead of the blocks: what "childs" and "transactions"
   point to is a stored block that names that parent, or holds a transaction
   with that hash.  It rests on the order the databases are committed in
   (BlockResource::commit walks a std::map). *)
IndexesFollowBlocks ==
    /\ \A p \in DOMAIN childs : childs[p] # NoBlock =>
          childs[p] \in Stored /\ blocks[childs[p]].parent = p
    /\ \A h \in Hash : transactions[h] # NoBlock =>
          /\ transactions[h] \in Stored
          /\ \E m \in blocks[transactions[h]].messages : transactionHash[m] = h

(* A block is found through both indexes once its commit is over, unless the
   process died, or a commit failed unseen, between the three databases. *)
IndexedUnlessTorn ==
    \A b \in Stored : b \in torn \/ InCommit(b) \/
        /\ childs[blocks[b].parent] # NoBlock
        /\ blocks[b].parent # GENESIS_KEY => childs[blocks[b].parent] = b
        /\ \A m \in blocks[b].messages : transactions[transactionHash[m]] # NoBlock

(* The caches agree with the database whenever no block is between its write
   and its commit, and then they name that block: a thread that reads the
   parent from memory sees what a restart would read from disk. *)
CachesMatchStore ==
    \/ \E t \in Thread :
         /\ Writing(t)
         /\ parentBlock = resource[t].block
         /\ resource[t].parent \in {parentKey, GENESIS_KEY}
         /\ resource[t].next = "blocks" => blockCount = resource[t].count
    \/ /\ \A t \in Thread : ~Writing(t)
       /\ parentBlock \in {NoBlock, parentKey}
       /\ blockCount \in {NoCount, blockCountKey}

(* Blocks, count, indexes and caches tell one story of the chain. *)
StoreAgrees == NoFork /\ CountIsHeight /\ IndexedUnlessTorn /\ CachesMatchStore

(* While the process lives, a transaction it accepted is in the queue, in the
   producer's hands or in a stored block: getTransactions and addTransaction
   share the queue between two threads. *)
NoAcceptedLost ==
    \A m \in Message : delivery[m] = "accepted" =>
        \/ m \in queue \cup taken
        \/ m \in InBlocks

(* One delivery, at most one place: never in two blocks, and not waiting to be
   written again while it is in a block, whose three commits are still going on
   or not. *)
EachMessageOnce ==
    /\ \A b, c \in Stored : b # c => blocks[b].messages \cap blocks[c].messages = {}
    /\ queue \cap (taken \cup InBlocks) = {}
    /\ taken \cap InBlocks # {} => /\ producerPc = "commit"
                                   /\ resource[Producer].next \in {"childs", "transactions"}

(* The detailed store implements an append-only ledger: a stored block never
   changes, every block extends the tip, and a chain is founded again only while
   nothing was built on the first genesis block. *)
LedgerView == INSTANCE Ledger WITH
                 parentOf <- [b \in Block |-> blocks[b].parent],
                 tip <- parentKey
ImplementsLedger == LedgerView!Spec

(* fin() returns: terminate may notify while nobody waits, yet the producer
   looks at the state again and the join ends. *)
StopCompletes == mainPc \in {"failed", "stopping"} ~> mainPc = "down"

(* An accepted transaction ends up in a block, or the process goes first, or
   the bounds of the instance leave no block to write.  A server without a
   producer accepts transactions too (BlockProducer::addTransaction asks only for
   the state): there they stay in the queue until the process goes. *)
Exhausted == Fresh = {} \/ blockCount >= MaxCount
AcceptedReachesBlock ==
    \A m \in Message : delivery[m] = "accepted" ~>
        \/ m \in InBlocks
        \/ delivery[m] = "lost"
        \/ Exhausted
        \/ ~isEnabled /\ m \in queue

(* The producer comes round to both, to what it accepted and to its end; and
   without one the server ends too. *)
ProducerProgress == StopCompletes /\ AcceptedReachesBlock
----------------------------------------------------------------------------
(* The facts the properties above rest on, step by step.                   *)

(* A thread's open transaction is where its code is. *)
Placed ==
    /\ mainPc = "down" => producerPc = "none"
    /\ mainPc = "counting" <=> resource[Main].next = "counting"
    /\ mainPc = "commit" <=> resource[Main].next \in {"blocks", "childs", "transactions"}
    /\ producerPc = "counting" <=> resource[Producer].next = "counting"
    /\ producerPc = "commit" <=> resource[Producer].next \in {"blocks", "childs", "transactions"}
    /\ producerPc = "cacheParent" => value[Producer].head # NoBlock
    /\ producerPc = "applying" => parentHash # NoBlock

(* It names a block that no other thread names and no database holds until
   "blocks" is committed. *)
Unshared ==
    /\ \A t \in Thread : resource[t].next # "idle" =>
          resource[t].block # NoBlock /\ resource[t].parent # NoBlock
    /\ \A t \in Thread : Writing(t) => resource[t].block \notin Stored
    /\ \A t, u \in Thread : resource[t].next # "idle" /\ resource[u].next # "idle" =>
          t = u \/ resource[t].block # resource[u].block

(* From then on the database holds exactly what the thread wrote. *)
Written ==
    \A t \in Thread : resource[t].next \in {"childs", "transactions"} =>
        blocks[resource[t].block] =
            [parent |-> resource[t].parent, messages |-> resource[t].messages]

(* The producer writes exactly what it took; nothing else holds a transaction
   that was never delivered. *)
Carried ==
    /\ resource[Main].messages = {}
    /\ resource[Producer].next # "idle" => resource[Producer].messages = taken
    /\ producerPc \in {"none", "waiting", "taking", "exited"} => taken = {}
    /\ \A m \in Message : delivery[m] = "new" => m \notin queue \cup taken \cup InBlocks

(* Unless the producer may wake during postStart, one thread writes at a time:
   every lock is granted, and what a thread read of the head and the count is
   still so when it is cached or built upon. *)
OneWriter ==
    /\ mainPc \in Starting => producerPc \in {"none", "waiting"}
    /\ \A t \in Thread : Writing(t) => resource[t].headPut
    /\ \A t \in Thread : resource[t].next = "blocks" => resource[t].countPut
    /\ resource[Main].next # "idle" => resource[Main].parent = GENESIS_KEY
    /\ Writing(Producer) => resource[Producer].parent = parentKey
    /\ mainPc = "cacheHead" => value[Main].head = parentKey
    /\ mainPc = "cacheCount" => value[Main].count = blockCountKey
    /\ producerPc = "cacheParent" => value[Producer].head = parentKey
    /\ producerPc = "applying" => parentHash = parentKey

(* With a genesis file and sound indexes, a chain with more than its genesis
   block is noticed by requireGenesis, and no block is built before there is
   one. *)
Founded ==
    /\ HasGenesis \/ Stored \subseteq Founding
    /\ mainPc \in {"serving", "stopping", "readCount", "cacheCount", "readHead", "cacheHead"}
          => HasGenesis
    /\ producerPc \in {"taking"} \cup Generating => HasGenesis
    /\ mainPc = "commit" /\ resource[Main].next = "transactions" => HasGenesis
    /\ mainPc = "load" \/ Writing(Main) => Stored \subseteq Founding
    /\ mainPc = "joining" => currentState = "terminated"

(* The count in memory is the one on disk whenever the producer builds on it, and
   there is none while the genesis block is loaded; a chain that has a block has a
   head and a count. *)
Counted ==
    /\ IsFiniteSet(Stored)
    /\ Stored # {} => parentKey # NoBlock /\ blockCountKey # NoCount
    /\ mainPc \in {"down", "postStart", "load", "counting"} => blockCount = NoCount
    /\ mainPc \in {"readHead", "cacheHead", "commit", "serving", "stopping"}
          => blockCount # NoCount
    /\ producerPc \in {"taking"} \cup Generating => blockCount # NoCount
    /\ resource[Producer].next = "counting" => blockCount = blockCountKey
    /\ resource[Producer].next = "blocks" => resource[Producer].count = blockCountKey + 1
    /\ resource[Main].next = "blocks" => resource[Main].count = 1

(* Once "childs" is committed, the block's parent leads to it, unless that commit
   failed. *)
ChildIndexed ==
    \A t \in Thread : resource[t].next = "transactions" =>
        \/ resource[t].block \in torn
        \/ /\ childs[resource[t].parent] # NoBlock
           /\ resource[t].parent # GENESIS_KEY => childs[resource[t].parent] = resource[t].block
=============================================================================
