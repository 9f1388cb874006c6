-------------------------- MODULE BlockChainProofs --------------------------
(***************************************************************************)
(* Proofs about the block module, for any blocks, transactions and hashes. *)
(* First the operators of the store, then one invariant after the other.   *)
(***************************************************************************)
EXTENDS BlockChain, TLAPS, FiniteSetTheorems

\* There are two threads and they are not the same.
LEMMA Threads ==
    Thread = {Main, Producer} /\ Main # Producer
BY ModuleAssumption DEF Main, Producer

\* The constants that stand for "none" are not blocks.
LEMMA Sentinels ==
    NoBlock \notin Block /\ GENESIS_KEY \notin Block /\ GENESIS_KEY # NoBlock
BY StoreAssumption

----------------------------------------------------------------------------
(* Types: every operator of the store keeps the types of its variables.    *)

LEMMA NothingTyped ==
    ASSUME StoreTypeOK, UNCHANGED storeVars
    PROVE  StoreTypeOK'
BY DEF StoreTypeOK, storeVars, durable, caches

LEMMA InitTyped == StoreInit => StoreTypeOK
BY DEF StoreInit, StoreTypeOK, Entry, NoEntry, Parent, Count, NoCount, Resource,
       NoResource, Phase, Value, NoValue

LEMMA ReadsTyped ==
    ASSUME StoreTypeOK, NEW t \in Thread,
           \/ ReadBlockCount(t) \/ CacheBlockCount(t)
           \/ ReadParentHash(t) \/ CacheParentHash(t)
    PROVE  StoreTypeOK'
<1>1. value' \in [Thread -> Value]
  BY DEF StoreTypeOK, ReadBlockCount, CacheBlockCount, ReadParentHash, CacheParentHash,
         Value, Count, NoCount
<1>2. value[t] \in Value
  BY DEF StoreTypeOK
<1>3. parentBlock' \in Block \cup {NoBlock} /\ blockCount' \in Count
  BY <1>2 DEF StoreTypeOK, ReadBlockCount, CacheBlockCount, ReadParentHash, CacheParentHash,
              caches, Value, Count, NoCount
<1> QED
  BY <1>1, <1>3 DEF StoreTypeOK, ReadBlockCount, CacheBlockCount, ReadParentHash,
                    CacheParentHash, durable, caches

LEMMA PutsTyped ==
    ASSUME StoreTypeOK, NEW t \in Thread,
           \/ \E b \in Block, p \in Parent, ms \in SUBSET Message : PutBlock(t, b, p, ms)
           \/ PutBlockCount(t)
    PROVE  StoreTypeOK'
<1>1. CASE PutBlockCount(t)
  <2>1. blockCount' \in Count
    BY <1>1 DEF StoreTypeOK, PutBlockCount, Count, NoCount
  <2>2. (~CountLocked(t)) \in BOOLEAN
    OBVIOUS
  <2>3. ASSUME NEW k \in Count, NEW c \in BOOLEAN
        PROVE  [resource[t] EXCEPT !.count = k, !.countPut = c, !.next = "blocks"] \in Resource
    <3>1. resource[t] \in Resource
      BY DEF StoreTypeOK
    <3> QED BY <3>1 DEF Resource, Phase
  <2>4. [resource[t] EXCEPT !.count = blockCount', !.countPut = ~CountLocked(t),
                            !.next = "blocks"] \in Resource
    BY <2>1, <2>2, <2>3
  <2>5. resource' = [resource EXCEPT ![t] = [resource[t] EXCEPT
                        !.count = blockCount', !.countPut = ~CountLocked(t), !.next = "blocks"]]
    BY <1>1 DEF StoreTypeOK, PutBlockCount, After
  <2>6. resource' \in [Thread -> Resource]
    BY <2>4, <2>5 DEF StoreTypeOK
  <2> QED BY <1>1, <2>1, <2>6 DEF StoreTypeOK, PutBlockCount, durable
<1>2. CASE \E b \in Block, p \in Parent, ms \in SUBSET Message : PutBlock(t, b, p, ms)
  <2>1. resource' \in [Thread -> Resource]
    BY <1>2 DEF StoreTypeOK, PutBlock, Resource, Phase, HeadLocked, Count, NoCount
  <2> QED BY <1>2, <2>1 DEF StoreTypeOK, PutBlock, durable
<1> QED BY <1>1, <1>2

LEMMA CommitsTyped ==
    ASSUME StoreTypeOK, NEW t \in Thread,
           resource[t].next # "idle" => resource[t].block # NoBlock /\ resource[t].parent # NoBlock,
           \/ CommitBlocks(t) \/ CommitChilds(t) \/ CommitTransactions(t)
    PROVE  StoreTypeOK'
<1> DEFINE r == resource[t]
<1>0. r \in Resource
  BY DEF StoreTypeOK
<1>1. r.block \in Block /\ r.parent \in Block \cup {GENESIS_KEY}
  BY <1>0 DEF Resource, Parent, CommitBlocks, CommitChilds, CommitTransactions
<1>2. CASE CommitBlocks(t)
  <2>1. resource' \in [Thread -> Resource]
    BY <1>2, <1>0 DEF StoreTypeOK, CommitBlocks, Resource, Phase, After
  <2>2. blocks' \in [Block -> Entry]
    BY <1>2, <1>0, <1>1 DEF StoreTypeOK, CommitBlocks, Entry, Resource
  <2>3. parentKey' \in Block \cup {NoBlock} /\ blockCountKey' \in Count
    BY <1>2, <1>0, <1>1 DEF StoreTypeOK, CommitBlocks, Resource
  <2> QED BY <1>2, <2>1, <2>2, <2>3 DEF StoreTypeOK, CommitBlocks, caches
<1>3. CASE CommitChilds(t)
  <2>1. resource' \in [Thread -> Resource]
    BY <1>3, <1>0 DEF StoreTypeOK, CommitChilds, Resource, Phase, After
  <2>2. childs' \in [Block \cup {GENESIS_KEY} -> Block \cup {NoBlock}]
    BY <1>3, <1>1 DEF StoreTypeOK, CommitChilds
  <2> QED BY <1>3, <1>1, <2>1, <2>2 DEF StoreTypeOK, CommitChilds, caches
<1>4. CASE CommitTransactions(t)
  <2>1. NoResource \in Resource
    BY DEF NoResource, Resource, Parent, Count, NoCount, Phase
  <2>2. resource' \in [Thread -> Resource]
    BY <1>4, <2>1 DEF StoreTypeOK, CommitTransactions
  <2>3. transactions' \in [Hash -> Block \cup {NoBlock}]
    BY <1>4, <1>1 DEF StoreTypeOK, CommitTransactions
  <2> QED BY <1>4, <1>1, <2>2, <2>3 DEF StoreTypeOK, CommitTransactions, caches
<1> QED BY <1>2, <1>3, <1>4

LEMMA LossTyped ==
    ASSUME StoreTypeOK,
           \A t \in Thread : resource[t].next # "idle" => resource[t].block # NoBlock,
           LoseMemory
    PROVE  StoreTypeOK'
<1>1. NoResource \in Resource /\ NoValue \in Value
  BY DEF NoResource, Resource, Parent, Count, NoCount, Phase, NoValue, Value
<1>2. torn' \subseteq Block
  <2>1. \A t \in Thread : resource[t].next \in {"childs", "transactions"}
                            => resource[t].block \in Block
    BY DEF StoreTypeOK, Resource
  <2> QED BY <2>1 DEF StoreTypeOK, LoseMemory
<1> QED BY <1>1, <1>2 DEF StoreTypeOK, LoseMemory, CachesLost, durable, Count, NoCount

----------------------------------------------------------------------------
(* Type correctness, with the invariant that ties each open transaction to *)
(* the place its thread is at.                                             *)

TypeInv == TypeOK /\ Placed /\ Unshared

\* The hash of a new block is one that nothing refers to.
LEMMA FreshBlock ==
    ASSUME NEW b \in Fresh
    PROVE  /\ b \in Block /\ b \notin Stored /\ b # NoBlock
           /\ \A t \in Thread : resource[t].block # b
BY Sentinels DEF Fresh

\* The end of the process leaves no transaction open.
LEMMA GoneResets ==
    ASSUME ProcessGone
    PROVE  /\ mainPc' = "down" /\ producerPc' = "none"
           /\ resource' = [t \in Thread |-> NoResource]
           /\ UNCHANGED durable
BY DEF ProcessGone, LoseMemory

LEMMA InitInv == Init => TypeInv
<1> SUFFICES ASSUME Init PROVE TypeInv
  OBVIOUS
<1>1. TypeOK
  BY InitTyped DEF Init, TypeOK, MainPc, ProducerPc
<1>2. Placed /\ Unshared
  BY Threads DEF Init, StoreInit, Placed, Unshared, NoResource, Writing, NoValue
<1> QED BY <1>1, <1>2 DEF TypeInv

\* writeBlock opens a transaction on a block of its own.
LEMMA PutMoves ==
    ASSUME TypeInv, NEW t \in Thread, NEW b \in Fresh, NEW p \in Parent \ {NoBlock},
           NEW ms \in SUBSET Message, PutBlock(t, b, p, ms)
    PROVE  /\ StoreTypeOK' /\ Unshared'
           /\ resource'[t].next = "counting"
           /\ \A u \in Thread \ {t} : resource'[u] = resource[u]
           /\ value' = value
<1>1. b \in Block
  BY FreshBlock
<1>2. /\ resource'[t].next = "counting" /\ resource'[t].block = b /\ resource'[t].parent = p
      /\ \A u \in Thread \ {t} : resource'[u] = resource[u]
  BY DEF TypeInv, TypeOK, StoreTypeOK, PutBlock
<1>3. Stored' = Stored
  BY DEF PutBlock, durable, Stored
<1>4. Unshared'
  BY <1>2, <1>3, FreshBlock DEF TypeInv, Unshared, Writing
<1>5. StoreTypeOK'
  BY <1>1, PutsTyped DEF TypeInv, TypeOK
<1> QED BY <1>2, <1>4, <1>5 DEF PutBlock

LEMMA CountMoves ==
    ASSUME TypeInv, NEW t \in Thread, PutBlockCount(t)
    PROVE  /\ StoreTypeOK' /\ Unshared'
           /\ resource'[t].next = "blocks"
           /\ resource'[t].block = resource[t].block
           /\ resource'[t].parent = resource[t].parent
           /\ resource'[t].messages = resource[t].messages
           /\ \A u \in Thread \ {t} : resource'[u] = resource[u]
           /\ value' = value
<1>1. /\ resource'[t].next = "blocks"
      /\ resource'[t].block = resource[t].block
      /\ resource'[t].parent = resource[t].parent
      /\ resource'[t].messages = resource[t].messages
      /\ \A u \in Thread \ {t} : resource'[u] = resource[u]
  BY DEF TypeInv, TypeOK, StoreTypeOK, Resource, PutBlockCount, After
<1>2. Stored' = Stored /\ resource[t].next = "counting"
  BY DEF PutBlockCount, durable, Stored
<1>3. Unshared'
  BY <1>1, <1>2 DEF TypeInv, Unshared, Writing
<1>4. StoreTypeOK'
  BY PutsTyped DEF TypeInv, TypeOK
<1> QED BY <1>1, <1>3, <1>4 DEF PutBlockCount

\* Committing "blocks" adds at most the pending block and changes no other.
LEMMA CommitBlocksMoves ==
    ASSUME TypeInv, NEW t \in Thread, CommitBlocks(t)
    PROVE  /\ StoreTypeOK' /\ Unshared'
           /\ resource[t].next = "blocks" /\ resource'[t].next = "childs"
           /\ resource'[t].block = resource[t].block
           /\ resource'[t].parent = resource[t].parent
           /\ resource'[t].messages = resource[t].messages
           /\ \A u \in Thread \ {t} : resource'[u] = resource[u]
           /\ value' = value
           /\ resource[t].block \in Block \ Stored
           /\ Stored \subseteq Stored'
           /\ Stored' \subseteq Stored \cup {resource[t].block}
           /\ \A b \in Block : b # resource[t].block => blocks'[b] = blocks[b]
<1>1. /\ resource[t].next = "blocks" /\ resource'[t].next = "childs"
      /\ resource'[t].block = resource[t].block
      /\ resource'[t].parent = resource[t].parent
      /\ resource'[t].messages = resource[t].messages
      /\ \A u \in Thread \ {t} : resource'[u] = resource[u]
  BY DEF TypeInv, TypeOK, StoreTypeOK, Resource, CommitBlocks, After
<1>2. resource[t].block \in Block \ Stored /\ resource[t].parent # NoBlock
  BY <1>1 DEF TypeInv, TypeOK, StoreTypeOK, Resource, Unshared, Writing
<1>3. /\ Stored \subseteq Stored'
      /\ Stored' \subseteq Stored \cup {resource[t].block}
      /\ \A b \in Block : b # resource[t].block => blocks'[b] = blocks[b]
  BY <1>2 DEF TypeInv, TypeOK, StoreTypeOK, Stored, CommitBlocks, Entry
<1>4. Unshared'
  BY <1>1, <1>3 DEF TypeInv, Unshared, Writing
<1>5. StoreTypeOK'
  BY CommitsTyped DEF TypeInv, TypeOK, Unshared
<1> QED BY <1>1, <1>2, <1>3, <1>4, <1>5 DEF CommitBlocks

LEMMA CommitChildsMoves ==
    ASSUME TypeInv, NEW t \in Thread, CommitChilds(t)
    PROVE  /\ StoreTypeOK' /\ Unshared'
           /\ resource[t].next = "childs" /\ resource'[t].next = "transactions"
           /\ resource'[t].block = resource[t].block
           /\ resource'[t].parent = resource[t].parent
           /\ resource'[t].messages = resource[t].messages
           /\ \A u \in Thread \ {t} : resource'[u] = resource[u]
           /\ value' = value /\ Stored' = Stored
<1>1. /\ resource[t].next = "childs" /\ resource'[t].next = "transactions"
      /\ resource'[t].block = resource[t].block
      /\ resource'[t].parent = resource[t].parent
      /\ resource'[t].messages = resource[t].messages
      /\ \A u \in Thread \ {t} : resource'[u] = resource[u]
  BY DEF TypeInv, TypeOK, StoreTypeOK, Resource, CommitChilds, After
<1>2. Stored' = Stored
  BY DEF CommitChilds, Stored
<1>3. Unshared'
  BY <1>1, <1>2 DEF TypeInv, Unshared, Writing
<1>4. StoreTypeOK'
  BY CommitsTyped DEF TypeInv, TypeOK, Unshared
<1> QED BY <1>1, <1>2, <1>3, <1>4 DEF CommitChilds

LEMMA CommitTransactionsMoves ==
    ASSUME TypeInv, NEW t \in Thread, CommitTransactions(t)
    PROVE  /\ StoreTypeOK' /\ Unshared'
           /\ resource[t].next = "transactions"
           /\ resource'[t] = NoResource /\ resource'[t].next = "idle"
           /\ \A u \in Thread \ {t} : resource'[u] = resource[u]
           /\ value' = value /\ Stored' = Stored
<1>1. /\ resource[t].next = "transactions"
      /\ resource'[t] = NoResource /\ resource'[t].next = "idle"
      /\ \A u \in Thread \ {t} : resource'[u] = resource[u]
  BY DEF TypeInv, TypeOK, StoreTypeOK, CommitTransactions, NoResource
<1>2. Stored' = Stored
  BY DEF CommitTransactions, Stored
<1>3. Unshared'
  BY <1>1, <1>2 DEF TypeInv, Unshared, Writing
<1>4. StoreTypeOK'
  BY CommitsTyped DEF TypeInv, TypeOK, Unshared
<1> QED BY <1>1, <1>2, <1>3, <1>4 DEF CommitTransactions

\* A read moves no transaction.
LEMMA ReadMoves ==
    ASSUME TypeInv, NEW t \in Thread,
           \/ ReadBlockCount(t) \/ CacheBlockCount(t)
           \/ ReadParentHash(t) \/ CacheParentHash(t)
    PROVE  /\ StoreTypeOK' /\ Unshared'
           /\ resource' = resource /\ blocks' = blocks /\ Stored' = Stored
           /\ \A u \in Thread \ {t} : value'[u] = value[u]
<1>1. /\ resource' = resource /\ blocks' = blocks
      /\ \A u \in Thread \ {t} : value'[u] = value[u]
  BY DEF ReadBlockCount, CacheBlockCount, ReadParentHash, CacheParentHash, durable,
         TypeInv, TypeOK, StoreTypeOK
<1>2. StoreTypeOK'
  BY ReadsTyped DEF TypeInv, TypeOK
<1> QED BY <1>1, <1>2 DEF TypeInv, Unshared, Stored, Writing

\* A step that leaves the store alone leaves every transaction where it is.
LEMMA QuietMoves ==
    ASSUME TypeInv, UNCHANGED storeVars
    PROVE  /\ StoreTypeOK' /\ Unshared'
           /\ resource' = resource /\ Stored' = Stored /\ value' = value
<1>1. resource' = resource /\ blocks' = blocks /\ value' = value
  BY DEF storeVars, durable
<1> QED BY <1>1, NothingTyped DEF TypeInv, TypeOK, Unshared, Stored, Writing

\* The process goes: every transaction is closed.
LEMMA GoneMoves ==
    ASSUME TypeInv, ProcessGone
    PROVE  TypeInv'
<1>1. \A t \in Thread : resource'[t] = NoResource
  BY GoneResets
<1>2. StoreTypeOK'
  BY LossTyped DEF TypeInv, TypeOK, Unshared, ProcessGone
<1>3. TypeOK'
  BY <1>2 DEF ProcessGone, TypeInv, TypeOK, MainPc, ProducerPc
<1>4. Unshared' /\ Placed'
  BY <1>1, Threads, GoneResets DEF Unshared, Placed, NoResource, Writing
<1> QED BY <1>3, <1>4 DEF TypeInv

LEMMA NextTyped == TypeInv /\ [Next]_vars => TypeInv'
<1> SUFFICES ASSUME TypeInv, [Next]_vars PROVE TypeInv'
  OBVIOUS
<1> USE Threads DEF MainPc, ProducerPc, Starting, Generating
<1> DEFINE Types == /\ mainPc' \in MainPc /\ producerPc' \in ProducerPc
                    /\ currentState' \in {"inited", "terminated"}
                    /\ queue' \subseteq Message /\ taken' \subseteq Message
                    /\ parentHash' \in Block \cup {NoBlock}
                    /\ delivery' \in [Message -> {"new", "accepted", "lost"}]
<1>a. StoreTypeOK' /\ Types /\ Unshared' /\ Placed' => TypeInv'
  BY DEF TypeInv, TypeOK
<1> HIDE DEF Types
<1>1. CASE Start \/ RequireGenesis \/ StartFails \/ Stop \/ Terminate
  <2>1. UNCHANGED storeVars
    BY <1>1 DEF Start, RequireGenesis, StartFails, Stop, Terminate
  <2>2. Types
    BY <1>1 DEF Start, RequireGenesis, StartFails, Stop, Terminate, TypeInv, TypeOK, Types
  <2>3. Placed'
    BY <1>1, <2>1, QuietMoves DEF Start, RequireGenesis, StartFails, Stop, Terminate,
                                  TypeInv, Placed
  <2> QED BY <1>a, <2>1, <2>2, <2>3, QuietMoves
<1>2. CASE LoadBlockCount \/ LoadParentHash
  <2>1. Types
    BY <1>2 DEF LoadBlockCount, LoadParentHash, TypeInv, TypeOK, Types
  <2>2. \/ UNCHANGED storeVars
        \/ \/ ReadBlockCount(Main) \/ CacheBlockCount(Main)
           \/ ReadParentHash(Main) \/ CacheParentHash(Main)
    BY <1>2 DEF LoadBlockCount, LoadParentHash
  <2>3. /\ StoreTypeOK' /\ Unshared'
        /\ resource' = resource /\ value'[Producer] = value[Producer]
    BY <2>2, QuietMoves, ReadMoves
  <2>4. Placed'
    BY <1>2, <2>3 DEF LoadBlockCount, LoadParentHash, TypeInv, Placed
  <2> QED BY <1>a, <2>1, <2>3, <2>4
<1>3. CASE LoadGenesis
  <2>1. Types
    BY <1>3 DEF LoadGenesis, TypeInv, TypeOK, Types
  <2>2. CASE mainPc = "load" /\ UNCHANGED storeVars /\ mainPc' = "serving"
    <3>1. Placed'
      BY <1>3, <2>2, QuietMoves DEF LoadGenesis, TypeInv, Placed
    <3> QED BY <1>a, <2>1, <2>2, <3>1, QuietMoves
  <2>3. CASE /\ mainPc = "load" /\ mainPc' = "counting"
             /\ \E b \in Fresh : PutBlock(Main, b, GENESIS_KEY, {})
    <3>1. PICK b \in Fresh : PutBlock(Main, b, GENESIS_KEY, {})
      BY <2>3
    <3>2. GENESIS_KEY \in Parent \ {NoBlock}
      BY Sentinels DEF Parent
    <3>3. /\ StoreTypeOK' /\ Unshared' /\ resource'[Main].next = "counting"
          /\ resource'[Producer] = resource[Producer] /\ value' = value
      BY <3>1, <3>2, PutMoves
    <3>4. Placed'
      BY <1>3, <2>3, <3>3 DEF LoadGenesis, TypeInv, Placed
    <3> QED BY <1>a, <2>1, <3>3, <3>4
  <2>4. CASE mainPc = "counting" /\ PutBlockCount(Main) /\ mainPc' = "commit"
    <3>1. Placed'
      BY <1>3, <2>4, CountMoves DEF LoadGenesis, TypeInv, Placed
    <3> QED BY <1>a, <2>1, <2>4, <3>1, CountMoves
  <2> QED BY <1>3, <2>2, <2>3, <2>4 DEF LoadGenesis
<1>4. CASE CommitGenesis
  <2>1. Types
    BY <1>4 DEF CommitGenesis, TypeInv, TypeOK, Types
  <2>2. /\ StoreTypeOK' /\ Unshared' /\ resource'[Producer] = resource[Producer]
        /\ value' = value
        /\ \/ mainPc' = mainPc /\ resource'[Main].next \in {"childs", "transactions"}
           \/ mainPc' = "serving" /\ resource'[Main].next = "idle"
    BY <1>4, CommitBlocksMoves, CommitChildsMoves, CommitTransactionsMoves DEF CommitGenesis
  <2>3. Placed'
    BY <1>4, <2>2 DEF CommitGenesis, TypeInv, Placed
  <2> QED BY <1>a, <2>1, <2>2, <2>3
<1>5. CASE Join \/ NoParentHash \/ Crash
  BY <1>5, GoneMoves DEF Join, NoParentHash, Crash
<1>6. CASE Wake \/ GetTransactions \/ \E m \in Message : BlockMessage(m)
  <2>1. UNCHANGED storeVars
    BY <1>6 DEF Wake, GetTransactions, BlockMessage
  <2>2. Types
    BY <1>6 DEF Wake, GetTransactions, BlockMessage, TypeInv, TypeOK, Types
  <2>3. Placed'
    BY <1>6, <2>1, QuietMoves DEF Wake, GetTransactions, BlockMessage, TypeInv, Placed
  <2> QED BY <1>a, <2>1, <2>2, <2>3, QuietMoves
<1>7. CASE GetParentHash
  <2>1. /\ value[Producer].head \in Block \cup {NoBlock}
        /\ parentBlock \in Block \cup {NoBlock}
    BY DEF TypeInv, TypeOK, StoreTypeOK, Value
  <2>2. Types
    BY <1>7, <2>1 DEF GetParentHash, TypeInv, TypeOK, Types
  <2>3. UNCHANGED storeVars \/ ReadParentHash(Producer) \/ CacheParentHash(Producer)
    BY <1>7 DEF GetParentHash
  <2>4. StoreTypeOK' /\ Unshared' /\ resource' = resource
    BY <2>3, QuietMoves, ReadMoves
  <2>5. producerPc' = "cacheParent" => value'[Producer].head # NoBlock
    BY <1>7 DEF GetParentHash, ReadParentHash, TypeInv, TypeOK, StoreTypeOK, Value
  <2>6. Placed'
    BY <1>7, <2>4, <2>5 DEF GetParentHash, TypeInv, Placed
  <2> QED BY <1>a, <2>2, <2>4, <2>6
<1>8. CASE WriteBlock
  <2>1. Types
    BY <1>8 DEF WriteBlock, TypeInv, TypeOK, Types
  <2>2. CASE /\ producerPc = "applying" /\ producerPc' = "counting"
             /\ \E b \in Fresh : PutBlock(Producer, b, parentHash, taken)
    <3>1. PICK b \in Fresh : PutBlock(Producer, b, parentHash, taken)
      BY <2>2
    <3>2. parentHash \in Parent \ {NoBlock} /\ taken \in SUBSET Message
      BY <2>2 DEF TypeInv, TypeOK, Placed, Parent
    <3>3. /\ StoreTypeOK' /\ Unshared' /\ resource'[Producer].next = "counting"
          /\ resource'[Main] = resource[Main] /\ value' = value
      BY <3>1, <3>2, PutMoves
    <3>4. Placed'
      BY <1>8, <2>2, <3>3 DEF WriteBlock, TypeInv, Placed
    <3> QED BY <1>a, <2>1, <3>3, <3>4
  <2>3. CASE producerPc = "counting" /\ PutBlockCount(Producer) /\ producerPc' = "commit"
    <3>1. Placed'
      BY <1>8, <2>3, CountMoves DEF WriteBlock, TypeInv, Placed
    <3> QED BY <1>a, <2>1, <2>3, <3>1, CountMoves
  <2> QED BY <1>8, <2>2, <2>3 DEF WriteBlock
<1>9. CASE CommitBlock
  <2>1. Types
    BY <1>9 DEF CommitBlock, TypeInv, TypeOK, Types
  <2>2. /\ StoreTypeOK' /\ Unshared' /\ resource'[Main] = resource[Main]
        /\ value' = value
        /\ \/ producerPc' = producerPc /\ resource'[Producer].next \in {"childs", "transactions"}
           \/ producerPc' = "waiting" /\ resource'[Producer].next = "idle"
    BY <1>9, CommitBlocksMoves, CommitChildsMoves, CommitTransactionsMoves DEF CommitBlock
  <2>3. Placed'
    BY <1>9, <2>2 DEF CommitBlock, TypeInv, Placed
  <2> QED BY <1>a, <2>1, <2>2, <2>3
<1>10. CASE UNCHANGED vars
  <2>1. UNCHANGED storeVars /\ UNCHANGED moduleVars
    BY <1>10 DEF vars
  <2>2. Types
    BY <2>1 DEF moduleVars, TypeInv, TypeOK, Types
  <2>3. Placed'
    BY <2>1, QuietMoves DEF moduleVars, TypeInv, Placed
  <2> QED BY <1>a, <2>1, <2>2, <2>3, QuietMoves
<1> QED BY <1>1, <1>2, <1>3, <1>4, <1>5, <1>6, <1>7, <1>8, <1>9, <1>10
        DEF Next, MainStep, ProducerStep

(* Every variable keeps its type, and every open transaction its place, in every
   behaviour of the module, however the threads interleave, whatever commits
   fail and wherever the process dies. *)
THEOREM TypeCorrect == Spec => []TypeOK
<1>1. TypeInv /\ [Next]_vars => TypeInv'
  BY NextTyped
<1>2. TypeInv => TypeOK
  BY DEF TypeInv
<1> QED BY <1>1, <1>2, InitInv, PTL DEF Spec

----------------------------------------------------------------------------
(* The indexes.  Only the store matters: every step of the module is one of *)
(* its operators or leaves it alone.                                       *)

LEMMA StoreSteps ==
    ASSUME TypeInv, [Next]_vars
    PROVE  \/ UNCHANGED storeVars
           \/ \E t \in Thread : \/ ReadBlockCount(t) \/ CacheBlockCount(t)
                              \/ ReadParentHash(t) \/ CacheParentHash(t)
           \/ \E t \in Thread, b \in Fresh, p \in Parent \ {NoBlock}, ms \in SUBSET Message :
                 PutBlock(t, b, p, ms)
           \/ \E t \in Thread : PutBlockCount(t)
           \/ \E t \in Thread : CommitBlocks(t)
           \/ \E t \in Thread : CommitChilds(t)
           \/ \E t \in Thread : CommitTransactions(t)
           \/ LoseMemory
<1> USE Threads
<1>1. CASE Start \/ RequireGenesis \/ StartFails \/ Stop \/ Terminate \/ UNCHANGED vars
  BY <1>1 DEF Start, RequireGenesis, StartFails, Stop, Terminate, vars
<1>2. CASE Wake \/ GetTransactions \/ \E m \in Message : BlockMessage(m)
  BY <1>2 DEF Wake, GetTransactions, BlockMessage
<1>3. CASE LoadBlockCount \/ LoadParentHash \/ GetParentHash
  BY <1>3 DEF LoadBlockCount, LoadParentHash, GetParentHash
<1>4. CASE LoadGenesis
  <2>1. GENESIS_KEY \in Parent \ {NoBlock}
    BY Sentinels DEF Parent
  <2> QED BY <1>4, <2>1 DEF LoadGenesis
<1>5. CASE WriteBlock
  <2>1. producerPc = "applying" => parentHash \in Parent \ {NoBlock} /\ taken \in SUBSET Message
    BY DEF TypeInv, TypeOK, Placed, Parent
  <2> QED BY <1>5, <2>1 DEF WriteBlock
<1>6. CASE CommitGenesis \/ CommitBlock
  BY <1>6 DEF CommitGenesis, CommitBlock
<1>7. CASE Join \/ NoParentHash \/ Crash
  BY <1>7 DEF Join, NoParentHash, Crash, ProcessGone
<1> QED BY <1>1, <1>2, <1>3, <1>4, <1>5, <1>6, <1>7 DEF Next, MainStep, ProducerStep

IndexInv == TypeInv /\ Written /\ IndexesFollowBlocks

\* What is stored stays as it was written, whatever the operator.
LEMMA StoredKept ==
    ASSUME TypeInv, [Next]_vars
    PROVE  /\ Stored \subseteq Stored'
           /\ \A b \in Stored : blocks'[b] = blocks[b]
<1>1. CASE \E t \in Thread : CommitBlocks(t)
  BY <1>1, CommitBlocksMoves DEF Stored
<1>2. CASE ~ \E t \in Thread : CommitBlocks(t)
  <2>1. blocks' = blocks
    BY <1>2, StoreSteps
       DEF storeVars, durable, ReadBlockCount, CacheBlockCount, ReadParentHash, CacheParentHash,
           PutBlock, PutBlockCount, CommitChilds, CommitTransactions, LoseMemory
  <2> QED BY <2>1 DEF Stored
<1> QED BY <1>1, <1>2

\* A thread committing its indexes has its block stored as it wrote it.
LEMMA InCommitStored ==
    ASSUME TypeInv, Written, NEW t \in Thread, resource[t].next \in {"childs", "transactions"}
    PROVE  /\ blocks[resource[t].block].parent = resource[t].parent
           /\ blocks[resource[t].block].messages = resource[t].messages
           /\ resource[t].block \in Stored
<1>0. blocks[resource[t].block] =
          [parent |-> resource[t].parent, messages |-> resource[t].messages]
  BY DEF Written
<1>1. /\ blocks[resource[t].block].parent = resource[t].parent
      /\ blocks[resource[t].block].messages = resource[t].messages
  BY <1>0
<1>2. resource[t] \in Resource /\ resource[t].next # "idle"
  BY DEF TypeInv, TypeOK, StoreTypeOK
<1>3. resource[t].block # NoBlock /\ resource[t].parent # NoBlock
  BY <1>2 DEF TypeInv, Unshared
<1> QED BY <1>1, <1>2, <1>3 DEF Stored, Resource

LEMMA IndexStep ==
    ASSUME "blocks" \notin SilentFailures, IndexInv, [Next]_vars
    PROVE  Written' /\ IndexesFollowBlocks'
<1>0. TypeInv
  BY DEF IndexInv
<1>i. ASSUME UNCHANGED <<childs, transactions>> PROVE IndexesFollowBlocks'
  <2>1. /\ \A p \in DOMAIN childs : childs[p] # NoBlock =>
              childs[p] \in Stored' /\ blocks'[childs[p]].parent = p
        /\ \A h \in Hash : transactions[h] # NoBlock => transactions[h] \in Stored'
                          /\ blocks'[transactions[h]] = blocks[transactions[h]]
    BY <1>0, StoredKept DEF IndexInv, IndexesFollowBlocks
  <2> QED BY <1>i, <2>1 DEF IndexInv, IndexesFollowBlocks
<1>1. CASE \/ UNCHANGED storeVars
           \/ \E t \in Thread : \/ ReadBlockCount(t) \/ CacheBlockCount(t)
                              \/ ReadParentHash(t) \/ CacheParentHash(t)
  <2>1. UNCHANGED <<blocks, resource, childs, transactions>>
    BY <1>1 DEF storeVars, durable, ReadBlockCount, CacheBlockCount, ReadParentHash,
                CacheParentHash
  <2> QED BY <2>1, <1>i DEF IndexInv, Written
<1>2. CASE \E t \in Thread, b \in Fresh, p \in Parent \ {NoBlock}, ms \in SUBSET Message :
             PutBlock(t, b, p, ms)
  <2>1. PICK t \in Thread, b \in Fresh, p \in Parent \ {NoBlock}, ms \in SUBSET Message :
             PutBlock(t, b, p, ms)
    BY <1>2
  <2>2. resource'[t].next = "counting" /\ \A u \in Thread \ {t} : resource'[u] = resource[u]
    BY <1>0, <2>1, PutMoves
  <2>3. UNCHANGED <<blocks, childs, transactions>>
    BY <2>1 DEF PutBlock, durable
  <2> QED BY <2>2, <2>3, <1>i DEF IndexInv, Written
<1>3. CASE \E t \in Thread : PutBlockCount(t)
  <2>1. PICK t \in Thread : PutBlockCount(t)
    BY <1>3
  <2>2. resource'[t].next = "blocks" /\ \A u \in Thread \ {t} : resource'[u] = resource[u]
    BY <1>0, <2>1, CountMoves
  <2>3. UNCHANGED <<blocks, childs, transactions>>
    BY <2>1 DEF PutBlockCount, durable
  <2> QED BY <2>2, <2>3, <1>i DEF IndexInv, Written
<1>4. CASE \E t \in Thread : CommitBlocks(t)
  <2>1. PICK t \in Thread : CommitBlocks(t)
    BY <1>4
  <2>2. blocks' = [blocks EXCEPT ![resource[t].block] =
                      [parent |-> resource[t].parent, messages |-> resource[t].messages]]
    BY <2>1 DEF CommitBlocks, Outcome
  <2>3. UNCHANGED <<childs, transactions>>
    BY <2>1 DEF CommitBlocks
  <2>4. ASSUME NEW u \in Thread, resource'[u].next \in {"childs", "transactions"}
        PROVE  blocks'[resource'[u].block] =
                  [parent |-> resource'[u].parent, messages |-> resource'[u].messages]
    <3>1. CASE u = t
      BY <1>0, <2>1, <2>2, <3>1, CommitBlocksMoves DEF TypeInv, TypeOK, StoreTypeOK
    <3>2. CASE u # t
      <4>1. resource'[u] = resource[u]
        BY <1>0, <2>1, <3>2, CommitBlocksMoves
      <4>2. resource[u].block \in Block /\ resource[u].block # resource[t].block
        BY <1>0, <2>1, <2>4, <3>2, <4>1, CommitBlocksMoves
           DEF TypeInv, TypeOK, StoreTypeOK, Unshared, Resource
      <4> QED BY <1>0, <2>1, <2>4, <4>1, <4>2, CommitBlocksMoves DEF IndexInv, Written
    <3> QED BY <3>1, <3>2
  <2> QED BY <2>3, <2>4, <1>i DEF Written
<1>5. CASE \E t \in Thread : CommitChilds(t)
  <2>1. PICK t \in Thread : CommitChilds(t)
    BY <1>5
  <2>2. blocks' = blocks /\ transactions' = transactions /\ Stored' = Stored
    BY <2>1 DEF CommitChilds, Stored
  <2>3. childs' \in {childs, [childs EXCEPT ![resource[t].parent] = resource[t].block]}
    BY <2>1 DEF CommitChilds, Outcome
  <2>4. Written'
    BY <1>0, <2>1, <2>2, CommitChildsMoves DEF IndexInv, Written
  <2>5. blocks[resource[t].block].parent = resource[t].parent /\ resource[t].block \in Stored
    BY <1>0, <2>1, CommitChildsMoves, InCommitStored DEF IndexInv
  <2>6. IndexesFollowBlocks'
    BY <2>2, <2>3, <2>5 DEF IndexInv, IndexesFollowBlocks, TypeInv, TypeOK, StoreTypeOK
  <2> QED BY <2>4, <2>6
<1>6. CASE \E t \in Thread : CommitTransactions(t)
  <2>1. PICK t \in Thread : CommitTransactions(t)
    BY <1>6
  <2>2. blocks' = blocks /\ childs' = childs /\ Stored' = Stored
    BY <2>1 DEF CommitTransactions, Stored
  <2>3. transactions' \in {transactions,
            [h \in Hash |-> IF h \in HashesOf(resource[t].messages) THEN resource[t].block
                                                                   ELSE transactions[h]]}
    BY <2>1 DEF CommitTransactions, Outcome
  <2>4. Written'
    BY <1>0, <2>1, <2>2, CommitTransactionsMoves DEF IndexInv, Written
  <2>5. /\ blocks[resource[t].block].messages = resource[t].messages
        /\ resource[t].block \in Stored
    BY <1>0, <2>1, CommitTransactionsMoves, InCommitStored DEF IndexInv
  <2>6. IndexesFollowBlocks'
    BY <2>2, <2>3, <2>5 DEF IndexInv, IndexesFollowBlocks, HashesOf
  <2> QED BY <2>4, <2>6
<1>7. CASE LoseMemory
  <2>1. UNCHANGED <<childs, transactions>>
    BY <1>7 DEF LoseMemory, durable
  <2>2. Written'
    BY <1>7 DEF LoseMemory, Written, NoResource
  <2> QED BY <2>1, <2>2, <1>i
<1> QED BY <1>0, <1>1, <1>2, <1>3, <1>4, <1>5, <1>6, <1>7, StoreSteps

(* The indexes never name a block that "blocks" does not hold, or that does not
   match them: whatever the interleaving of the two threads (a producer awake
   during postStart included), whatever index commits fail unread, and between
   whichever databases the process dies.  Only a failed commit of "blocks"
   itself is excluded. *)
THEOREM IndexesCorrect ==
    "blocks" \notin SilentFailures => (Spec => []IndexesFollowBlocks)
<1> SUFFICES ASSUME "blocks" \notin SilentFailures PROVE Spec => []IndexesFollowBlocks
  OBVIOUS
<1>1. Init => IndexInv
  BY InitInv DEF IndexInv, Init, StoreInit, Written, IndexesFollowBlocks, NoResource
<1>2. IndexInv /\ [Next]_vars => IndexInv'
  BY IndexStep, NextTyped DEF IndexInv
<1>3. IndexInv => IndexesFollowBlocks
  BY DEF IndexInv
<1> QED BY <1>1, <1>2, <1>3, PTL DEF Spec

----------------------------------------------------------------------------
(* The transactions: from the queue through the producer into one block.   *)

Disjoint == \A b, c \in Stored : b # c => blocks[b].messages \cap blocks[c].messages = {}

OnceInv == TypeInv /\ Carried /\ EachMessageOnce

\* What is in blocks changes only with "blocks".
LEMMA SameBlocks ==
    ASSUME blocks' = blocks
    PROVE  InBlocks' = InBlocks /\ Disjoint' = Disjoint
BY DEF InBlocks, Disjoint, Stored

\* A commit of "blocks" brings in at most the transactions of its block.
LEMMA CommitBlocksBrings ==
    ASSUME TypeInv, NEW t \in Thread, CommitBlocks(t), Disjoint,
           resource[t].messages \cap InBlocks = {}
    PROVE  /\ InBlocks \subseteq InBlocks'
           /\ InBlocks' \subseteq InBlocks \cup resource[t].messages
           /\ Disjoint'
<1> DEFINE b == resource[t].block
<1>1. /\ b \in Block \ Stored /\ Stored \subseteq Stored' /\ Stored' \subseteq Stored \cup {b}
      /\ \A c \in Block : c # b => blocks'[c] = blocks[c]
  BY CommitBlocksMoves
<1>2. b \in Stored' => blocks'[b].messages = resource[t].messages
  <2>1. CASE blocks' = blocks
    BY <1>1, <2>1 DEF Stored
  <2>2. CASE blocks' = [blocks EXCEPT ![resource[t].block] =
                  [parent |-> resource[t].parent, messages |-> resource[t].messages]]
    BY <1>1, <2>2 DEF TypeInv, TypeOK, StoreTypeOK
  <2> QED BY <2>1, <2>2 DEF CommitBlocks
<1>3. \A c \in Stored : blocks'[c] = blocks[c] /\ c # b
  BY <1>1 DEF Stored
<1>4. \A c \in Stored : blocks[c].messages \subseteq InBlocks
  BY DEF InBlocks
<1> HIDE DEF b
<1> QED BY <1>1, <1>2, <1>3, <1>4 DEF InBlocks, Disjoint

LEMMA OnceStep ==
    ASSUME OnceInv, [Next]_vars
    PROVE  Carried' /\ EachMessageOnce'
<1> USE Threads DEF Generating
<1>0. TypeInv /\ Carried /\ Disjoint /\ EachMessageOnce
  BY DEF OnceInv, EachMessageOnce, Disjoint
<1>a. ASSUME Disjoint', queue' \cap (taken' \cup InBlocks') = {},
             taken' \cap InBlocks' # {} => /\ producerPc' = "commit"
                                   /\ resource'[Producer].next \in {"childs", "transactions"}
      PROVE  EachMessageOnce'
  BY <1>a DEF EachMessageOnce, Disjoint
\* Nobody touches a transaction.
<1>1. CASE \/ Start \/ RequireGenesis \/ StartFails \/ Stop \/ Terminate \/ Wake
           \/ LoadBlockCount \/ LoadParentHash \/ GetParentHash \/ UNCHANGED vars
  <2>1. UNCHANGED <<blocks, resource, queue, taken, delivery>>
    BY <1>1 DEF Start, RequireGenesis, StartFails, Stop, Terminate, Wake, LoadBlockCount,
                LoadParentHash, GetParentHash, ReadBlockCount, CacheBlockCount, ReadParentHash,
                CacheParentHash, vars, moduleVars, storeVars, durable
  <2>2. producerPc = "none" => taken = {}
    BY <1>0 DEF Carried
  <2>3. /\ producerPc' \in {"none", "waiting", "taking", "exited"}
              => producerPc \in {"none", "waiting", "taking", "exited"} \/ taken = {}
        /\ producerPc = "commit" => producerPc' = "commit"
    BY <1>0, <1>1 DEF Start, RequireGenesis, StartFails, Stop, Terminate, Wake, LoadBlockCount,
                LoadParentHash, GetParentHash, vars, moduleVars, TypeInv, Placed
  <2>4. InBlocks' = InBlocks /\ Disjoint'
    BY <1>0, <2>1, SameBlocks
  <2>5. Carried'
    BY <1>0, <2>1, <2>3, <2>4 DEF Carried
  <2>6. EachMessageOnce'
    BY <1>0, <1>a, <2>1, <2>3, <2>4 DEF EachMessageOnce
  <2> QED BY <2>5, <2>6
\* The main thread's block carries none.
<1>2. CASE LoadGenesis \/ CommitGenesis
  <2>1. /\ resource'[Producer] = resource[Producer] /\ resource'[Main].messages = {}
        /\ InBlocks' = InBlocks /\ Disjoint'
    <3>1. CASE UNCHANGED storeVars
      BY <1>0, <3>1, SameBlocks DEF storeVars, durable, Carried
    <3>2. CASE \E b \in Fresh : PutBlock(Main, b, GENESIS_KEY, {})
      <4>1. blocks' = blocks
        BY <3>2 DEF PutBlock, durable
      <4> QED BY <1>0, <3>2, <4>1, SameBlocks
              DEF PutBlock, TypeInv, TypeOK, StoreTypeOK
    <3>3. CASE PutBlockCount(Main)
      <4>1. blocks' = blocks
        BY <3>3 DEF PutBlockCount, durable
      <4> QED BY <1>0, <3>3, <4>1, SameBlocks, CountMoves DEF Carried
    <3>4. CASE CommitBlocks(Main)
      <4>1. resource[Main].messages = {}
        BY <1>0 DEF Carried
      <4>2. InBlocks' = InBlocks /\ Disjoint'
        BY <1>0, <3>4, <4>1, CommitBlocksBrings
      <4> QED BY <1>0, <3>4, <4>1, <4>2, CommitBlocksMoves
    <3>5. CASE CommitChilds(Main)
      <4>1. blocks' = blocks
        BY <3>5 DEF CommitChilds
      <4> QED BY <1>0, <3>5, <4>1, SameBlocks, CommitChildsMoves DEF Carried
    <3>6. CASE CommitTransactions(Main)
      <4>1. blocks' = blocks
        BY <3>6 DEF CommitTransactions
      <4>2. NoResource.messages = {}
        BY DEF NoResource
      <4> QED BY <1>0, <3>6, <4>1, <4>2, SameBlocks, CommitTransactionsMoves
    <3> QED BY <1>2, <3>1, <3>2, <3>3, <3>4, <3>5, <3>6 DEF LoadGenesis, CommitGenesis
  <2>2. UNCHANGED <<producerPc, queue, taken, delivery>>
    BY <1>2 DEF LoadGenesis, CommitGenesis
  <2>3. Carried'
    BY <1>0, <2>1, <2>2 DEF Carried
  <2>4. EachMessageOnce'
    BY <1>0, <1>a, <2>1, <2>2 DEF EachMessageOnce
  <2> QED BY <2>3, <2>4
\* Everything but the databases is gone.
<1>3. CASE Join \/ NoParentHash \/ Crash
  <2>1. ProcessGone
    BY <1>3 DEF Join, NoParentHash, Crash
  <2>2. /\ queue' = {} /\ taken' = {} /\ resource' = [t \in Thread |-> NoResource]
        /\ InBlocks' = InBlocks /\ Disjoint'
    BY <1>0, <2>1, GoneResets, SameBlocks DEF ProcessGone, durable
  <2>3. \A m \in Message : delivery'[m] = "new" => delivery[m] = "new"
    BY <2>1 DEF ProcessGone
  <2>4. resource'[Main] = NoResource /\ resource'[Producer] = NoResource
    BY <2>2
  <2>5. Carried'
    BY <1>0, <2>2, <2>3, <2>4 DEF Carried, NoResource
  <2>6. EachMessageOnce'
    BY <1>a, <2>2
  <2> QED BY <2>5, <2>6
\* A delivery enters the queue once.
<1>4. CASE \E m \in Message : BlockMessage(m)
  <2>1. PICK m \in Message : BlockMessage(m)
    BY <1>4
  <2>2. /\ delivery[m] = "new" /\ queue' = queue \cup {m}
        /\ delivery' = [delivery EXCEPT ![m] = "accepted"]
        /\ UNCHANGED <<blocks, resource, producerPc, taken>>
    BY <2>1 DEF BlockMessage, storeVars, durable
  <2>3. InBlocks' = InBlocks /\ Disjoint' /\ m \notin taken \cup InBlocks
    BY <1>0, <2>2, SameBlocks DEF Carried
  <2>4. \A n \in Message : delivery'[n] = "new" => delivery[n] = "new" /\ n # m
    BY <1>0, <2>2 DEF TypeInv, TypeOK
  <2>5. Carried'
    BY <1>0, <2>2, <2>3, <2>4 DEF Carried
  <2>6. EachMessageOnce'
    BY <1>0, <1>a, <2>2, <2>3 DEF EachMessageOnce
  <2> QED BY <2>5, <2>6
\* It moves from the queue into the producer's hands.
<1>5. CASE GetTransactions
  <2>1. /\ taken = {} /\ taken' = queue /\ queue' = {} /\ producerPc' = "parent"
        /\ producerPc = "taking" /\ UNCHANGED <<blocks, resource, delivery>>
    BY <1>0, <1>5 DEF GetTransactions, Carried, storeVars, durable
  <2>2. InBlocks' = InBlocks /\ Disjoint' /\ resource[Producer].next = "idle"
    BY <1>0, <2>1, SameBlocks DEF TypeInv, TypeOK, StoreTypeOK, Placed, Resource, Phase
  <2>3. Carried'
    BY <1>0, <2>1, <2>2 DEF Carried
  <2>4. EachMessageOnce'
    BY <1>0, <1>a, <2>1, <2>2 DEF EachMessageOnce
  <2> QED BY <2>3, <2>4
\* The block under construction holds what was taken.
<1>6. CASE WriteBlock
  <2>1. /\ UNCHANGED <<blocks, queue, taken, delivery>>
        /\ resource'[Main] = resource[Main] /\ resource'[Producer].messages = taken
        /\ producerPc \in {"applying", "counting"} /\ producerPc' \in {"counting", "commit"}
    <3>1. CASE producerPc = "applying"
      <4>1. PICK b \in Fresh : PutBlock(Producer, b, parentHash, taken)
        BY <1>0, <1>6, <3>1 DEF WriteBlock
      <4> QED BY <1>0, <1>6, <3>1, <4>1 DEF WriteBlock, PutBlock, durable, TypeInv, TypeOK, StoreTypeOK
    <3>2. CASE producerPc = "counting"
      <4>1. PutBlockCount(Producer) /\ resource[Producer].messages = taken
        BY <1>0, <1>6, <3>2 DEF WriteBlock, Carried, TypeInv, Placed
      <4> QED BY <1>0, <1>6, <3>2, <4>1, CountMoves DEF WriteBlock, PutBlockCount, durable
    <3> QED BY <1>6, <3>1, <3>2 DEF WriteBlock
  <2>2. InBlocks' = InBlocks /\ Disjoint' /\ taken \cap InBlocks = {}
    BY <1>0, <2>1, SameBlocks DEF EachMessageOnce
  <2>3. Carried'
    BY <1>0, <2>1, <2>2 DEF Carried
  <2>4. EachMessageOnce'
    BY <1>0, <1>a, <2>1, <2>2 DEF EachMessageOnce
  <2> QED BY <2>3, <2>4
\* It is in a block when "blocks" is committed, and the producer's copy goes last.
<1>7. CASE CommitBlock
  <2>0. /\ producerPc = "commit" /\ resource[Producer].messages = taken
        /\ UNCHANGED <<queue, delivery>>
    BY <1>0, <1>7 DEF CommitBlock, Carried, TypeInv, Placed
  <2>1. CASE CommitBlocks(Producer)
    <3>1. UNCHANGED <<producerPc, taken>>
      BY <1>7, <2>1, <1>0, CommitBlocksMoves DEF CommitBlock, CommitTransactions
    <3>2. taken \cap InBlocks = {}
      BY <1>0, <2>1, CommitBlocksMoves DEF EachMessageOnce
    <3>3. /\ InBlocks' \subseteq InBlocks \cup taken /\ Disjoint'
          /\ resource'[Producer].next = "childs" /\ resource'[Producer].messages = taken
          /\ resource'[Main] = resource[Main]
      BY <1>0, <2>0, <2>1, <3>2, CommitBlocksBrings, CommitBlocksMoves
    <3>4. \A m \in Message : delivery[m] = "new" => m \notin InBlocks'
      BY <1>0, <3>3 DEF Carried
    <3>5. Carried'
      BY <1>0, <2>0, <3>1, <3>3, <3>4 DEF Carried
    <3>6. EachMessageOnce'
      BY <1>0, <1>a, <2>0, <3>1, <3>3 DEF EachMessageOnce
    <3> QED BY <3>5, <3>6
  <2>2. CASE CommitChilds(Producer)
    <3>1. UNCHANGED <<blocks, producerPc, taken>>
      BY <1>7, <2>2, <1>0, CommitChildsMoves DEF CommitBlock, CommitTransactions, CommitChilds
    <3>2. InBlocks' = InBlocks /\ Disjoint'
      BY <1>0, <3>1, SameBlocks
    <3>3. /\ resource'[Producer].next = "transactions" /\ resource'[Producer].messages = taken
          /\ resource'[Main] = resource[Main]
      BY <1>0, <2>0, <2>2, CommitChildsMoves
    <3>4. Carried'
      BY <1>0, <2>0, <3>1, <3>2, <3>3 DEF Carried
    <3>5. EachMessageOnce'
      BY <1>0, <1>a, <2>0, <3>1, <3>2, <3>3 DEF EachMessageOnce
    <3> QED BY <3>4, <3>5
  <2>3. CASE CommitTransactions(Producer)
    <3>1. blocks' = blocks /\ taken' = {} /\ producerPc' = "waiting"
      BY <1>7, <2>3, <1>0, CommitTransactionsMoves
         DEF CommitBlock, CommitTransactions, CommitBlocks, CommitChilds
    <3>2. InBlocks' = InBlocks /\ Disjoint'
      BY <1>0, <3>1, SameBlocks
    <3>3. resource'[Producer].next = "idle" /\ resource'[Main] = resource[Main]
      BY <1>0, <2>3, CommitTransactionsMoves
    <3>4. Carried'
      BY <1>0, <2>0, <3>1, <3>2, <3>3 DEF Carried
    <3>5. EachMessageOnce'
      BY <1>0, <1>a, <2>0, <3>1, <3>2, <3>3 DEF EachMessageOnce
    <3> QED BY <3>4, <3>5
  <2> QED BY <1>7, <2>1, <2>2, <2>3 DEF CommitBlock
<1> QED BY <1>1, <1>2, <1>3, <1>4, <1>5, <1>6, <1>7 DEF Next, MainStep, ProducerStep

(* A delivered transaction is written into at most one block, and never waits in
   the queue while it is in one: for any threads' interleaving, any failed
   commit and any crash. *)
THEOREM OnceCorrect == Spec => []EachMessageOnce
<1>1. Init => OnceInv
  BY InitInv, Threads DEF OnceInv, Init, StoreInit, Carried, EachMessageOnce, InBlocks, Stored,
                          NoResource, NoEntry
<1>2. OnceInv /\ [Next]_vars => OnceInv'
  BY OnceStep, NextTyped DEF OnceInv
<1>3. OnceInv => EachMessageOnce
  BY DEF OnceInv
<1> QED BY <1>1, <1>2, <1>3, PTL DEF Spec

LEMMA KeptStep ==
    ASSUME OnceInv, Written, NoAcceptedLost, [Next]_vars
    PROVE  NoAcceptedLost'
<1> USE Threads
<1>0. InBlocks \subseteq InBlocks'
  BY StoredKept DEF OnceInv, InBlocks
<1>a. ASSUME queue \cup taken \subseteq queue' \cup taken' \cup InBlocks', delivery' = delivery
      PROVE  NoAcceptedLost'
  BY <1>0, <1>a DEF NoAcceptedLost
<1>1. CASE Join \/ NoParentHash \/ Crash
  <2>1. ProcessGone
    BY <1>1 DEF Join, NoParentHash, Crash
  <2>2. \A m \in Message : delivery'[m] = "accepted" => m \in InBlocks
    BY <2>1 DEF ProcessGone
  <2> QED BY <1>0, <2>2 DEF NoAcceptedLost
<1>2. CASE \E m \in Message : BlockMessage(m)
  <2>1. PICK m \in Message : BlockMessage(m)
    BY <1>2
  <2>2. \A n \in Message : n # m => delivery'[n] = delivery[n]
    BY <2>1 DEF BlockMessage, OnceInv, TypeInv, TypeOK
  <2> QED BY <1>0, <2>1, <2>2 DEF BlockMessage, NoAcceptedLost
<1>3. CASE GetTransactions
  <2>1. taken = {}
    BY <1>3 DEF GetTransactions, OnceInv, Carried
  <2> QED BY <1>a, <1>3, <2>1 DEF GetTransactions
<1>4. CASE CommitBlock
  <2>1. CASE UNCHANGED <<queue, taken, delivery>>
    BY <1>a, <2>1
  <2>2. CASE CommitTransactions(Producer)
    <3>1. /\ resource[Producer].next = "transactions"
          /\ resource[Producer].messages = taken
      BY <2>2 DEF CommitTransactions, OnceInv, Carried
    <3>2. /\ resource[Producer].block \in Stored
          /\ blocks[resource[Producer].block].messages = taken
      BY <3>1, InCommitStored DEF OnceInv
    <3>3. taken \subseteq InBlocks
      BY <3>2 DEF InBlocks
    <3> QED BY <1>0, <1>a, <1>4, <3>3 DEF CommitBlock
  <2> QED BY <1>4, <2>1, <2>2 DEF CommitBlock
<1>5. CASE \/ Start \/ RequireGenesis \/ StartFails \/ Stop \/ Terminate \/ Wake
           \/ LoadBlockCount \/ LoadParentHash \/ LoadGenesis \/ CommitGenesis
           \/ GetParentHash \/ WriteBlock \/ UNCHANGED vars
  <2>1. UNCHANGED <<queue, taken, delivery>>
    BY <1>5 DEF Start, RequireGenesis, StartFails, Stop, Terminate, Wake, LoadBlockCount,
                LoadParentHash, LoadGenesis, CommitGenesis, GetParentHash, WriteBlock, vars,
                moduleVars
  <2> QED BY <1>a, <2>1
<1> QED BY <1>1, <1>2, <1>3, <1>4, <1>5 DEF Next, MainStep, ProducerStep

(* While the process lives no accepted transaction gets lost on its way from the
   queue into a block, unless a commit of "blocks" fails unread. *)
THEOREM NothingLost ==
    "blocks" \notin SilentFailures => (Spec => []NoAcceptedLost)
<1> SUFFICES ASSUME "blocks" \notin SilentFailures PROVE Spec => []NoAcceptedLost
  OBVIOUS
<1> DEFINE LostInv == OnceInv /\ IndexInv /\ NoAcceptedLost
<1>1. Init => LostInv
  <2>1. Init => OnceInv
    BY InitInv, Threads DEF OnceInv, Init, StoreInit, Carried, EachMessageOnce, InBlocks, Stored,
                            NoResource, NoEntry
  <2>2. Init => IndexInv
    BY InitInv DEF IndexInv, Init, StoreInit, Written, IndexesFollowBlocks, NoResource
  <2>3. Init => NoAcceptedLost
    BY DEF Init, NoAcceptedLost
  <2> QED BY <2>1, <2>2, <2>3
<1>2. LostInv /\ [Next]_vars => LostInv'
  <2> SUFFICES ASSUME LostInv, [Next]_vars PROVE LostInv'
    OBVIOUS
  <2>1. OnceInv'
    BY OnceStep, NextTyped DEF OnceInv
  <2>2. IndexInv'
    BY IndexStep, NextTyped DEF IndexInv
  <2>3. NoAcceptedLost'
    BY KeptStep DEF IndexInv
  <2> QED BY <2>1, <2>2, <2>3
<1>3. LostInv => NoAcceptedLost
  OBVIOUS
<1> QED BY <1>1, <1>2, <1>3, PTL DEF Spec

----------------------------------------------------------------------------
(* The chain, when postStart is over before the producer first wakes.      *)

ChainInv == TypeInv /\ OneWriter /\ ChainIntact /\ NoFork /\ CachesMatchStore

\* Only one thread is ever between its write and its commit of "blocks".
LEMMA Alone ==
    ASSUME TypeInv, OneWriter
    PROVE  /\ mainPc \in Starting => resource[Producer].next = "idle"
           /\ ~(Writing(Main) /\ Writing(Producer))
<1>1. resource[Producer].next \in Phase /\ resource[Main].next \in Phase
  BY Threads DEF TypeInv, TypeOK, StoreTypeOK, Resource
<1> QED BY <1>1 DEF TypeInv, Placed, OneWriter, Starting, Writing, Phase

\* What holds of the chain and of the caches depends on these variables only.
LEMMA ChainKept ==
    ASSUME UNCHANGED <<blocks, parentKey>>
    PROVE  /\ ChainIntact => ChainIntact'
           /\ NoFork => NoFork'
BY DEF ChainIntact, NoFork, Stored

\* Nobody writes: then the caches are empty or the database's.
LEMMA CachesIdle ==
    ASSUME ChainInv, ~Writing(Main), ~Writing(Producer)
    PROVE  parentBlock \in {NoBlock, parentKey} /\ blockCount \in {NoCount, blockCountKey}
BY Threads DEF ChainInv, CachesMatchStore

\* A block enters the database on top of the head, or as a genesis block.
LEMMA ChainCommit ==
    ASSUME "blocks" \notin SilentFailures, ChainInv, NEW t \in Thread, CommitBlocks(t)
    PROVE  /\ ChainIntact' /\ NoFork' /\ CachesMatchStore'
           /\ parentKey' = resource[t].block
<1> DEFINE r == resource[t]
<1> USE Threads
<1>1. /\ r.next = "blocks" /\ r.block \in Block \ Stored
      /\ r.parent # NoBlock /\ r.parent \in Parent
      /\ resource'[t].next = "childs"
      /\ \A u \in Thread \ {t} : resource'[u] = resource[u]
  BY CommitBlocksMoves DEF ChainInv, TypeInv, TypeOK, StoreTypeOK, Resource, Unshared
<1>2. r.headPut /\ r.countPut
  BY <1>1 DEF ChainInv, OneWriter, Writing
<1>3. /\ blocks' = [blocks EXCEPT ![r.block] = [parent |-> r.parent, messages |-> r.messages]]
      /\ parentKey' = r.block /\ blockCountKey' = r.count
      /\ UNCHANGED caches
  BY <1>2 DEF CommitBlocks, Outcome
<1>4. r.parent \in {parentKey, GENESIS_KEY}
  BY <1>1 DEF ChainInv, OneWriter, Writing
<1>5. /\ Stored' = Stored \cup {r.block}
      /\ blocks'[r.block].parent = r.parent
      /\ \A b \in Stored : blocks'[b].parent = blocks[b].parent
  BY <1>1, <1>3 DEF Stored, ChainInv, TypeInv, TypeOK, StoreTypeOK
<1>6. r.parent # GENESIS_KEY => r.parent \in Stored
  BY <1>1, <1>4 DEF ChainInv, ChainIntact
<1>7. ChainIntact'
  BY <1>3, <1>5, <1>6 DEF ChainInv, ChainIntact
<1>8. NoFork'
  <2>1. ASSUME NEW b \in Stored', NEW c \in Stored', blocks'[b].parent = blocks'[c].parent
        PROVE  b = c \/ blocks'[b].parent = GENESIS_KEY
    <3>1. CASE b \in Stored /\ c \in Stored
      BY <1>5, <2>1, <3>1 DEF ChainInv, NoFork
    <3>2. CASE b = r.block \/ c = r.block
      <4>1. \A d \in Stored : blocks[d].parent # parentKey
        BY DEF ChainInv, NoFork
      <4> QED BY <1>4, <1>5, <2>1, <3>2, <4>1
    <3> QED BY <1>5, <3>1, <3>2
  <2>2. ASSUME NEW b \in Stored' PROVE blocks'[b].parent # parentKey'
    <3>1. CASE b \in Stored
      BY <1>1, <1>3, <1>5, <3>1, Sentinels DEF ChainInv, ChainIntact
    <3>2. CASE b = r.block
      BY <1>1, <1>3, <1>5, <1>6, <3>2, Sentinels
    <3> QED BY <1>5, <3>1, <3>2
  <2> QED BY <2>1, <2>2 DEF NoFork
<1>9. CachesMatchStore'
  <2>1. Writing(t)
    BY <1>1 DEF Writing
  <2>2. \A u \in Thread : Writing(u) => u = t
    BY <2>1, Alone DEF ChainInv
  <2>3. parentBlock = r.block /\ blockCount = r.count
    BY <1>1, <2>1, <2>2 DEF ChainInv, CachesMatchStore
  <2>4. \A u \in Thread : ~Writing(u)'
    BY <1>1, <2>2 DEF Writing
  <2> QED BY <1>3, <2>3, <2>4 DEF CachesMatchStore, caches
<1> QED BY <1>3, <1>7, <1>8, <1>9

\* A thread begins a write when no other is at it.
LEMMA ChainPut ==
    ASSUME ChainInv, NEW t \in Thread, NEW b \in Fresh, NEW p \in {parentKey, GENESIS_KEY},
           NEW ms \in SUBSET Message, PutBlock(t, b, p, ms), p # NoBlock,
           \A u \in Thread \ {t} : resource[u].next = "idle"
    PROVE  /\ ChainIntact' /\ NoFork' /\ CachesMatchStore'
           /\ parentKey' = parentKey /\ resource'[t].headPut
           /\ resource'[t].next = "counting" /\ resource'[t].parent = p
           /\ \A u \in Thread \ {t} : resource'[u] = resource[u]
<1>1. /\ resource'[t].next = "counting" /\ resource'[t].parent = p /\ resource'[t].block = b
      /\ \A u \in Thread \ {t} : resource'[u] = resource[u]
      /\ parentBlock' = b /\ UNCHANGED <<blocks, parentKey>>
  BY DEF ChainInv, TypeInv, TypeOK, StoreTypeOK, PutBlock, durable
<1>2. resource'[t].headPut
  <2>1. ~HeadLocked(t)
    BY DEF HeadLocked
  <2> QED BY <2>1 DEF ChainInv, TypeInv, TypeOK, StoreTypeOK, PutBlock
<1>3. CachesMatchStore'
  BY <1>1 DEF CachesMatchStore, Writing
<1> QED BY <1>1, <1>2, <1>3, ChainKept DEF ChainInv

LEMMA ChainCount ==
    ASSUME ChainInv, NEW t \in Thread, PutBlockCount(t),
           \A u \in Thread \ {t} : resource[u].next = "idle"
    PROVE  /\ ChainIntact' /\ NoFork' /\ CachesMatchStore'
           /\ parentKey' = parentKey /\ resource'[t].headPut /\ resource'[t].countPut
           /\ resource'[t].next = "blocks" /\ resource'[t].parent = resource[t].parent
           /\ \A u \in Thread \ {t} : resource'[u] = resource[u]
<1>1. /\ resource[t].next = "counting" /\ resource'[t].next = "blocks"
      /\ resource'[t].parent = resource[t].parent /\ resource'[t].block = resource[t].block
      /\ resource'[t].headPut = resource[t].headPut /\ resource'[t].count = blockCount'
      /\ \A u \in Thread \ {t} : resource'[u] = resource[u]
      /\ UNCHANGED <<blocks, parentKey, parentBlock>>
  BY DEF ChainInv, TypeInv, TypeOK, StoreTypeOK, Resource, PutBlockCount, After, durable
<1>2. resource'[t].countPut
  <2>1. ~CountLocked(t)
    BY DEF CountLocked
  <2> QED BY <2>1 DEF ChainInv, TypeInv, TypeOK, StoreTypeOK, Resource, PutBlockCount
<1>3. Writing(t) /\ \A u \in Thread \ {t} : ~Writing(u)
  BY <1>1 DEF Writing
<1>4. parentBlock = resource[t].block /\ resource[t].parent \in {parentKey, GENESIS_KEY}
  BY <1>3 DEF ChainInv, CachesMatchStore
<1>5. CachesMatchStore'
  BY <1>1, <1>4 DEF CachesMatchStore, Writing
<1>6. resource'[t].headPut
  BY <1>1, <1>3 DEF ChainInv, OneWriter
<1> QED BY <1>1, <1>2, <1>5, <1>6, ChainKept DEF ChainInv

LEMMA ChainStep ==
    ASSUME ~StartupRace, "blocks" \notin SilentFailures, ChainInv, [Next]_vars
    PROVE  OneWriter' /\ ChainIntact' /\ NoFork' /\ CachesMatchStore'
<1> USE Threads DEF Starting, Generating
<1>0. TypeInv /\ OneWriter /\ ChainIntact /\ NoFork /\ CachesMatchStore
  BY DEF ChainInv
<1>t. TypeInv'
  BY <1>0, NextTyped
\* The store is left alone.
<1>q. ASSUME UNCHANGED storeVars PROVE ChainIntact' /\ NoFork' /\ CachesMatchStore'
  <2>1. UNCHANGED <<blocks, parentKey, blockCountKey, resource, parentBlock, blockCount>>
    BY <1>q DEF storeVars, durable, caches
  <2> QED BY <1>0, <2>1, ChainKept DEF CachesMatchStore, Writing
<1>1. CASE \/ Start \/ RequireGenesis \/ StartFails \/ Stop \/ Terminate \/ Wake
           \/ GetTransactions \/ (\E m \in Message : BlockMessage(m)) \/ UNCHANGED vars
  <2>1. UNCHANGED storeVars
    BY <1>1 DEF Start, RequireGenesis, StartFails, Stop, Terminate, Wake, GetTransactions,
                BlockMessage, vars
  <2>2. UNCHANGED <<resource, value, parentKey, blockCountKey>>
    BY <2>1 DEF storeVars, durable
  <2>3. OneWriter'
    BY <1>0, <1>1, <2>2
       DEF Start, RequireGenesis, StartFails, Stop, Terminate, Wake, GetTransactions,
           BlockMessage, vars, moduleVars, OneWriter, Writing
  <2> QED BY <1>q, <2>1, <2>3
\* The main thread reads while the producer waits.
<1>2. CASE LoadBlockCount \/ LoadParentHash
  <2>1. /\ UNCHANGED <<blocks, parentKey, blockCountKey, resource, producerPc, parentHash>>
        /\ producerPc \in {"none", "waiting"}
        /\ mainPc' \in {"cacheCount", "readHead", "cacheHead", "serving"}
        /\ mainPc \in Starting
    BY <1>0, <1>2 DEF LoadBlockCount, LoadParentHash, ReadBlockCount, CacheBlockCount,
             ReadParentHash, CacheParentHash, storeVars, durable, OneWriter
  <2>2. ~Writing(Main) /\ ~Writing(Producer)
    BY <1>0, <1>2 DEF LoadBlockCount, LoadParentHash, TypeInv, Placed, Writing, OneWriter
  <2>3. parentBlock \in {NoBlock, parentKey} /\ blockCount \in {NoCount, blockCountKey}
    BY <2>2, CachesIdle
  <2>4. /\ mainPc' = "cacheCount" => value'[Main].count = blockCountKey
        /\ mainPc' = "cacheHead" => value'[Main].head = parentKey
    BY <1>2 DEF LoadBlockCount, LoadParentHash, ReadBlockCount, ReadParentHash,
                ChainInv, TypeInv, TypeOK, StoreTypeOK, Value
  <2>5. parentBlock' \in {NoBlock, parentKey} /\ blockCount' \in {NoCount, blockCountKey}
    BY <1>0, <1>2, <2>3 DEF LoadBlockCount, LoadParentHash, ReadBlockCount, CacheBlockCount,
              ReadParentHash, CacheParentHash, storeVars, caches, OneWriter
  <2>6. OneWriter'
    BY <1>0, <2>1, <2>4 DEF OneWriter, Writing
  <2>7. CachesMatchStore'
    BY <2>1, <2>2, <2>5 DEF CachesMatchStore, Writing
  <2> QED BY <1>0, <2>1, <2>6, <2>7, ChainKept
\* The main thread writes the genesis block while the producer waits.
<1>3. CASE LoadGenesis
  <2>1. /\ producerPc \in {"none", "waiting"} /\ producerPc' = producerPc
        /\ resource[Producer].next = "idle" /\ UNCHANGED parentHash
    BY <1>0, <1>3, Alone DEF LoadGenesis, OneWriter
  <2>2. CASE mainPc = "load" /\ mainPc' = "serving" /\ UNCHANGED storeVars
    <3>1. UNCHANGED <<resource, value, parentKey, blockCountKey>>
      BY <2>2 DEF storeVars, durable
    <3> QED BY <1>0, <1>q, <2>1, <2>2, <3>1 DEF OneWriter, Writing
  <2>3. CASE mainPc' = "counting" /\ \E b \in Fresh : PutBlock(Main, b, GENESIS_KEY, {})
    <3>1. PICK b \in Fresh : PutBlock(Main, b, GENESIS_KEY, {})
      BY <2>3
    <3>2. /\ ChainIntact' /\ NoFork' /\ CachesMatchStore'
          /\ resource'[Main].headPut /\ resource'[Main].next = "counting"
          /\ resource'[Main].parent = GENESIS_KEY
          /\ resource'[Producer] = resource[Producer]
      BY <2>1, <3>1, ChainPut, Sentinels
    <3> QED BY <1>0, <2>1, <2>3, <3>2 DEF OneWriter, Writing
  <2>4. CASE mainPc' = "commit" /\ PutBlockCount(Main)
    <3>1. resource[Main].next = "counting"
      BY <2>4 DEF PutBlockCount
    <3> QED BY <1>0, <2>1, <2>4, <3>1, ChainCount DEF OneWriter, Writing
  <2> QED BY <1>3, <2>2, <2>3, <2>4 DEF LoadGenesis
<1>4. CASE CommitGenesis
  <2>1. /\ producerPc \in {"none", "waiting"} /\ producerPc' = producerPc /\ mainPc = "commit"
        /\ resource[Producer].next = "idle"
        /\ mainPc' \in {"commit", "serving"}
    BY <1>0, <1>4, Alone DEF CommitGenesis, OneWriter
  <2>2. resource[Main].parent = GENESIS_KEY /\ resource[Main].next # "idle"
    BY <1>0, <2>1 DEF OneWriter, TypeInv, Placed
  <2>3. CASE CommitBlocks(Main)
    <3>1. /\ ChainIntact' /\ NoFork' /\ CachesMatchStore'
          /\ resource'[Main].next = "childs" /\ resource'[Main].parent = GENESIS_KEY
          /\ resource'[Producer] = resource[Producer]
      BY <1>0, <2>2, <2>3, ChainCommit, CommitBlocksMoves
    <3> QED BY <2>1, <3>1 DEF OneWriter, Writing
  <2>4. CASE CommitChilds(Main) \/ CommitTransactions(Main)
    <3>1. /\ resource'[Main].next \in {"transactions", "idle"}
          /\ resource[Main].next \in {"childs", "transactions"}
          /\ resource'[Main].next # "idle" => resource'[Main].parent = GENESIS_KEY
          /\ resource'[Producer] = resource[Producer]
      BY <1>0, <2>2, <2>4, CommitChildsMoves, CommitTransactionsMoves
    <3>2. UNCHANGED <<blocks, parentKey, blockCountKey, parentBlock, blockCount>>
      BY <2>4 DEF CommitChilds, CommitTransactions, caches
    <3>3. ~Writing(Main) /\ ~Writing(Producer) /\ ~Writing(Main)' /\ ~Writing(Producer)'
      BY <2>1, <3>1 DEF Writing
    <3>4. CachesMatchStore'
      BY <3>2, <3>3, CachesIdle DEF CachesMatchStore
    <3> QED BY <1>0, <2>1, <3>1, <3>2, <3>4, ChainKept DEF OneWriter, Writing
  <2> QED BY <1>4, <2>3, <2>4 DEF CommitGenesis
<1>5. CASE Join \/ NoParentHash \/ Crash
  <2>1. ProcessGone
    BY <1>5 DEF Join, NoParentHash, Crash
  <2>2. /\ UNCHANGED <<blocks, parentKey, blockCountKey>>
        /\ parentBlock' = NoBlock /\ blockCount' = NoCount
        /\ \A t \in Thread : resource'[t].next = "idle"
        /\ mainPc' = "down" /\ producerPc' = "none"
    BY <2>1 DEF ProcessGone, LoseMemory, CachesLost, durable, NoResource
  <2> QED BY <1>0, <2>2, ChainKept DEF OneWriter, CachesMatchStore, Writing
\* The producer reads the head while the main thread is past postStart.
<1>6. CASE GetParentHash
  <2>1. /\ UNCHANGED <<blocks, parentKey, blockCountKey, resource, mainPc, blockCount>>
        /\ mainPc \notin Starting /\ producerPc' \in {"cacheParent", "applying"}
        /\ producerPc \in {"parent", "cacheParent"} /\ value'[Main] = value[Main]
    BY <1>0, <1>6 DEF GetParentHash, ReadParentHash, CacheParentHash, storeVars, durable, caches,
             OneWriter, TypeInv, TypeOK, StoreTypeOK
  <2>2. ~Writing(Main) /\ ~Writing(Producer)
    BY <1>0, <2>1 DEF TypeInv, Placed, Writing
  <2>3. parentBlock \in {NoBlock, parentKey} /\ blockCount \in {NoCount, blockCountKey}
    BY <2>2, CachesIdle
  <2>4. /\ producerPc' = "cacheParent" => value'[Producer].head = parentKey
        /\ producerPc' = "applying" => parentHash' = parentKey
        /\ parentBlock' \in {NoBlock, parentKey}
    BY <1>0, <1>6, <2>3 DEF GetParentHash, ReadParentHash, CacheParentHash, storeVars, caches,
             OneWriter, TypeInv, TypeOK, StoreTypeOK, Value
  <2>5. OneWriter'
    BY <1>0, <2>1, <2>4 DEF OneWriter, Writing
  <2>6. CachesMatchStore'
    BY <2>1, <2>2, <2>3, <2>4 DEF CachesMatchStore, Writing
  <2> QED BY <1>0, <2>1, <2>5, <2>6, ChainKept
\* The producer writes on top of the head it read.
<1>7. CASE WriteBlock
  <2>1. /\ mainPc \notin Starting /\ mainPc' = mainPc
        /\ resource[Main].next = "idle"
    <3>1. mainPc \notin Starting /\ mainPc' = mainPc
      BY <1>0, <1>7 DEF WriteBlock, OneWriter
    <3>2. resource[Main].next \in Phase
      BY <1>0 DEF TypeInv, TypeOK, StoreTypeOK, Resource
    <3> QED BY <1>0, <3>1, <3>2 DEF TypeInv, Placed, Phase
  <2>2. CASE /\ producerPc = "applying" /\ producerPc' = "counting"
             /\ \E b \in Fresh : PutBlock(Producer, b, parentHash, taken)
    <3>1. PICK b \in Fresh : PutBlock(Producer, b, parentHash, taken)
      BY <2>2
    <3>2. parentHash = parentKey /\ parentHash # NoBlock /\ taken \in SUBSET Message
      BY <1>0, <2>2 DEF OneWriter, TypeInv, TypeOK, Placed
    <3>3. /\ ChainIntact' /\ NoFork' /\ CachesMatchStore' /\ parentKey' = parentKey
          /\ resource'[Producer].headPut /\ resource'[Producer].next = "counting"
          /\ resource'[Producer].parent = parentKey
          /\ resource'[Main] = resource[Main]
      BY <2>1, <3>1, <3>2, ChainPut
    <3> QED BY <1>0, <2>1, <2>2, <3>3 DEF OneWriter, Writing
  <2>3. CASE producerPc' = "commit" /\ PutBlockCount(Producer)
    <3>1. resource[Producer].next = "counting"
      BY <2>3 DEF PutBlockCount
    <3> QED BY <1>0, <2>1, <2>3, <3>1, ChainCount DEF OneWriter, Writing
  <2> QED BY <1>7, <2>2, <2>3 DEF WriteBlock
<1>8. CASE CommitBlock
  <2>1. /\ mainPc \notin Starting /\ mainPc' = mainPc
        /\ resource[Main].next = "idle" /\ producerPc' \in {"commit", "waiting"}
    <3>1. mainPc \notin Starting /\ mainPc' = mainPc /\ producerPc' \in {"commit", "waiting"}
      BY <1>0, <1>8 DEF CommitBlock, OneWriter
    <3>2. resource[Main].next \in Phase
      BY <1>0 DEF TypeInv, TypeOK, StoreTypeOK, Resource
    <3> QED BY <1>0, <3>1, <3>2 DEF TypeInv, Placed, Phase
  <2>2. CASE CommitBlocks(Producer)
    <3>1. /\ ChainIntact' /\ NoFork' /\ CachesMatchStore'
          /\ resource'[Producer].next = "childs" /\ resource'[Main] = resource[Main]
      BY <1>0, <2>2, ChainCommit, CommitBlocksMoves
    <3> QED BY <2>1, <3>1 DEF OneWriter, Writing
  <2>3. CASE CommitChilds(Producer) \/ CommitTransactions(Producer)
    <3>1. /\ resource'[Producer].next \in {"transactions", "idle"}
          /\ resource[Producer].next \in {"childs", "transactions"}
          /\ resource'[Main] = resource[Main]
      BY <1>0, <2>3, CommitChildsMoves, CommitTransactionsMoves
    <3>2. UNCHANGED <<blocks, parentKey, blockCountKey, parentBlock, blockCount>>
      BY <2>3 DEF CommitChilds, CommitTransactions, caches
    <3>3. ~Writing(Main) /\ ~Writing(Producer) /\ ~Writing(Main)' /\ ~Writing(Producer)'
      BY <2>1, <3>1 DEF Writing
    <3>4. CachesMatchStore'
      BY <3>2, <3>3, CachesIdle DEF CachesMatchStore
    <3> QED BY <1>0, <2>1, <3>1, <3>2, <3>4, ChainKept DEF OneWriter, Writing
  <2> QED BY <1>8, <2>2, <2>3 DEF CommitBlock
<1> QED BY <1>1, <1>2, <1>3, <1>4, <1>5, <1>6, <1>7, <1>8 DEF Next, MainStep, ProducerStep

LEMMA ChainInit == Init => ChainInv
<1> SUFFICES ASSUME Init PROVE ChainInv
  OBVIOUS
<1>1. Stored = {} /\ parentKey = NoBlock /\ \A t \in Thread : resource[t].next = "idle"
  BY DEF Init, StoreInit, Stored, NoEntry, NoResource
<1>2. OneWriter /\ CachesMatchStore
  BY <1>1, Threads DEF Init, StoreInit, OneWriter, CachesMatchStore, Writing, Starting
<1>3. ChainIntact /\ NoFork
  BY <1>1 DEF ChainIntact, NoFork
<1> QED BY <1>2, <1>3, InitInv DEF ChainInv

(* The chain can be walked from the head, it never forks, and the caches agree
   with the database, for any number of blocks, crashes and restarts, if
   postStart is over before the producer's first wait ends and no commit of
   "blocks" fails unread. *)
THEOREM ChainCorrect ==
    ~StartupRace /\ "blocks" \notin SilentFailures
        => (Spec => [](ChainIntact /\ NoFork /\ CachesMatchStore))
<1> SUFFICES ASSUME ~StartupRace, "blocks" \notin SilentFailures
             PROVE  Spec => [](ChainIntact /\ NoFork /\ CachesMatchStore)
  OBVIOUS
<1>1. ChainInv /\ [Next]_vars => ChainInv'
  BY ChainStep, NextTyped DEF ChainInv
<1>2. ChainInv => ChainIntact /\ NoFork /\ CachesMatchStore
  BY DEF ChainInv
<1> QED BY <1>1, <1>2, ChainInit, PTL DEF Spec

----------------------------------------------------------------------------
(* The store implements the append-only ledger, when there is a genesis    *)
(* file and no commit fails unread.                                        *)

LedgerInv == ChainInv /\ Founded

\* A genesis block once indexed stays so.
LEMMA GenesisKept ==
    ASSUME TypeInv, [Next]_vars
    PROVE  HasGenesis => HasGenesis'
<1>1. CASE \E t \in Thread : CommitChilds(t)
  <2>1. PICK t \in Thread : CommitChilds(t)
    BY <1>1
  <2>2. resource[t].block # NoBlock
    BY <2>1, CommitChildsMoves DEF TypeInv, Unshared
  <2>3. childs' \in {childs, [childs EXCEPT ![resource[t].parent] = resource[t].block]}
    BY <2>1 DEF CommitChilds
  <2> QED BY <2>2, <2>3 DEF HasGenesis, TypeInv, TypeOK, StoreTypeOK
<1>2. CASE ~ \E t \in Thread : CommitChilds(t)
  <2>1. childs' = childs
    BY <1>2, StoreSteps
       DEF storeVars, durable, ReadBlockCount, CacheBlockCount, ReadParentHash, CacheParentHash,
           PutBlock, PutBlockCount, CommitBlocks, CommitTransactions, LoseMemory
  <2> QED BY <2>1 DEF HasGenesis
<1> QED BY <1>1, <1>2

LEMMA FoundedStep ==
    ASSUME ~StartupRace, SilentFailures = {}, GenesisConfig = {TRUE}, LedgerInv, [Next]_vars
    PROVE  Founded'
<1> USE Threads DEF Starting, Generating
<1>0. TypeInv /\ ChainInv /\ OneWriter /\ Founded /\ (HasGenesis => HasGenesis')
  BY GenesisKept DEF LedgerInv, ChainInv
<1>b. ASSUME blocks' = blocks PROVE Stored' = Stored /\ Founding' = Founding
  BY <1>b DEF Stored, Founding
<1>1. CASE \/ Start \/ RequireGenesis \/ StartFails \/ Stop \/ Terminate \/ Wake
           \/ GetTransactions \/ (\E m \in Message : BlockMessage(m)) \/ UNCHANGED vars
  <2>1. blocks' = blocks /\ resource' = resource /\ (HasGenesis' <=> HasGenesis)
    BY <1>1 DEF Start, RequireGenesis, StartFails, Stop, Terminate, Wake, GetTransactions,
                BlockMessage, vars, storeVars, durable, HasGenesis
  <2>2. CASE Wake
    <3>1. mainPc \in MainPc /\ producerPc = "waiting"
      BY <1>0, <2>2 DEF TypeInv, TypeOK, Wake
    <3>2. producerPc' = "taking" => HasGenesis
      BY <1>0, <2>2, <3>1 DEF Wake, Founded, MainPc, TypeInv, Placed
    <3> QED BY <1>0, <1>b, <2>1, <2>2, <3>2 DEF Wake, Founded, Writing
  <2>3. CASE RequireGenesis
    BY <1>0, <1>b, <2>1, <2>3 DEF RequireGenesis, Founded, Writing
  <2>4. CASE \/ Start \/ StartFails \/ Stop \/ Terminate \/ GetTransactions
             \/ (\E m \in Message : BlockMessage(m)) \/ UNCHANGED vars
    BY <1>0, <1>b, <2>1, <2>4 DEF Start, StartFails, Stop, Terminate, GetTransactions,
                BlockMessage, vars, moduleVars, Founded, Writing
  <2> QED BY <1>1, <2>2, <2>3, <2>4
<1>2. CASE LoadBlockCount \/ LoadParentHash \/ GetParentHash
  <2>1. UNCHANGED <<blocks, childs, resource, currentState>>
    BY <1>2 DEF LoadBlockCount, LoadParentHash, GetParentHash, ReadBlockCount, CacheBlockCount,
                ReadParentHash, CacheParentHash, storeVars, durable
  <2> QED BY <1>0, <1>b, <1>2, <2>1
          DEF LoadBlockCount, LoadParentHash, GetParentHash, Founded, Writing, HasGenesis
<1>3. CASE LoadGenesis
  <2>1. /\ UNCHANGED <<blocks, childs, producerPc, currentState>>
        /\ mainPc \in {"load", "counting"} /\ mainPc' \in {"counting", "commit"}
        /\ resource'[Main].next # "transactions"
    <3>1. PutBlockCount(Main) => resource'[Main].next = "blocks"
      BY <1>0, CountMoves
    <3>2. \A b \in Fresh : PutBlock(Main, b, GENESIS_KEY, {}) => resource'[Main].next = "counting"
      BY <1>0 DEF PutBlock, TypeInv, TypeOK, StoreTypeOK
    <3> QED BY <1>3, <3>1, <3>2 DEF LoadGenesis, PutBlock, PutBlockCount, durable
  <2>2. Stored \subseteq Founding
    BY <1>0, <2>1 DEF Founded, TypeInv, Placed, Writing
  <2> QED BY <1>0, <1>b, <2>1, <2>2 DEF Founded, HasGenesis
<1>4. CASE CommitGenesis
  <2>1. /\ mainPc = "commit" /\ mainPc' \in {"commit", "serving"}
        /\ resource[Main].parent = GENESIS_KEY
        /\ producerPc \in {"none", "waiting"} /\ UNCHANGED <<producerPc, currentState>>
    BY <1>0, <1>4 DEF CommitGenesis, OneWriter, TypeInv, Placed
  <2>2. CASE CommitBlocks(Main)
    <3>1. /\ Stored \subseteq Founding /\ resource'[Main].next = "childs"
          /\ resource[Main].block \in Block \ Stored
          /\ Stored' \subseteq Stored \cup {resource[Main].block}
          /\ \A b \in Block : b # resource[Main].block => blocks'[b] = blocks[b]
      BY <1>0, <2>2, CommitBlocksMoves DEF Founded, Writing
    <3>2. blocks'[resource[Main].block].parent = GENESIS_KEY /\ childs' = childs
      BY <2>1, <2>2, <3>1, <1>0 DEF CommitBlocks, Outcome, TypeInv, TypeOK, StoreTypeOK
    <3>3. Stored' \subseteq Founding'
      BY <3>1, <3>2 DEF Stored, Founding
    <3>4. mainPc' = "commit"
      BY <1>4, <2>2, <3>1 DEF CommitGenesis, CommitBlocks, CommitTransactions
    <3> QED BY <1>0, <2>1, <3>1, <3>2, <3>3, <3>4 DEF Founded, HasGenesis, Writing
  <2>3. CASE CommitChilds(Main)
    <3>1. /\ blocks' = blocks /\ resource'[Main].next = "transactions"
          /\ resource[Main].block # NoBlock
      BY <1>0, <2>3, CommitChildsMoves DEF CommitChilds, TypeInv, Unshared
    <3>2. childs' = [childs EXCEPT ![GENESIS_KEY] = resource[Main].block]
      BY <2>1, <2>3 DEF CommitChilds, Outcome
    <3>3. HasGenesis'
      BY <1>0, <3>1, <3>2 DEF HasGenesis, TypeInv, TypeOK, StoreTypeOK
    <3> QED BY <1>0, <2>1, <3>1, <3>3 DEF Founded, Writing
  <2>4. CASE CommitTransactions(Main)
    <3>1. /\ blocks' = blocks /\ resource[Main].next = "transactions"
          /\ resource'[Main].next = "idle" /\ HasGenesis'
      BY <1>0, <2>1, <2>4, CommitTransactionsMoves DEF CommitTransactions, Founded
    <3> QED BY <1>0, <2>1, <3>1 DEF Founded, Writing
  <2> QED BY <1>4, <2>2, <2>3, <2>4 DEF CommitGenesis
<1>5. CASE Join \/ NoParentHash \/ Crash
  <2>1. ProcessGone
    BY <1>5 DEF Join, NoParentHash, Crash
  <2>2. /\ UNCHANGED <<blocks, childs>> /\ mainPc' = "down" /\ producerPc' = "none"
        /\ resource'[Main].next = "idle"
    BY <2>1 DEF ProcessGone, LoseMemory, durable, NoResource
  <2> QED BY <1>0, <1>b, <2>2 DEF Founded, Writing, HasGenesis
<1>6. CASE WriteBlock \/ CommitBlock
  <2>1. /\ HasGenesis' /\ mainPc' = mainPc /\ mainPc \notin Starting
        /\ currentState' = currentState
    BY <1>0, <1>6 DEF WriteBlock, CommitBlock, OneWriter, Founded
  <2>2. resource'[Main] = resource[Main]
    <3>1. \A b \in Fresh : PutBlock(Producer, b, parentHash, taken) => resource'[Main] = resource[Main]
      BY <1>0 DEF PutBlock, TypeInv, TypeOK, StoreTypeOK
    <3>2. PutBlockCount(Producer) => resource'[Main] = resource[Main]
      BY <1>0, CountMoves
    <3>3. CommitBlocks(Producer) => resource'[Main] = resource[Main]
      BY <1>0, CommitBlocksMoves
    <3>4. CommitChilds(Producer) => resource'[Main] = resource[Main]
      BY <1>0, CommitChildsMoves
    <3>5. CommitTransactions(Producer) => resource'[Main] = resource[Main]
      BY <1>0, CommitTransactionsMoves
    <3> QED BY <1>6, <3>1, <3>2, <3>3, <3>4, <3>5 DEF WriteBlock, CommitBlock
  <2>3. ~Writing(Main)'
    BY <1>0, <2>1, <2>2 DEF Writing, TypeInv, Placed
  <2> QED BY <1>0, <2>1, <2>3 DEF Founded
<1> QED BY <1>1, <1>2, <1>3, <1>4, <1>5, <1>6 DEF Next, MainStep, ProducerStep

\* Each step of the module founds the ledger, appends to it or leaves it alone.
LEMMA LedgerStep ==
    ASSUME ~StartupRace, SilentFailures = {}, GenesisConfig = {TRUE}, LedgerInv, [Next]_vars
    PROVE  [LedgerView!Next]_(LedgerView!vars)
<1> USE Threads
<1>0. TypeInv /\ OneWriter /\ Founded /\ ChainInv
  BY DEF LedgerInv, ChainInv
<1>1. CASE UNCHANGED <<blocks, parentKey>>
  BY <1>1 DEF LedgerView!vars
<1>2. CASE \E t \in Thread : CommitBlocks(t)
  <2>1. PICK t \in Thread : CommitBlocks(t)
    BY <1>2
  <2> DEFINE r == resource[t]
  <2>2. /\ r.next = "blocks" /\ r.block \in Block \ Stored /\ r.parent # NoBlock
    BY <1>0, <2>1, CommitBlocksMoves DEF TypeInv, Unshared
  <2>3. r.headPut
    BY <1>0, <2>2 DEF OneWriter, Writing
  <2>4. /\ blocks' = [blocks EXCEPT ![r.block] = [parent |-> r.parent, messages |-> r.messages]]
        /\ parentKey' = r.block
    BY <2>1, <2>3 DEF CommitBlocks, Outcome
  <2>5. [b \in Block |-> blocks'[b].parent]
           = [[b \in Block |-> blocks[b].parent] EXCEPT ![r.block] = r.parent]
    BY <1>0, <2>2, <2>4 DEF TypeInv, TypeOK, StoreTypeOK
  <2>6. LedgerView!Entries = Stored
    BY DEF LedgerView!Entries, Stored
  <2>0. PICK c \in Block : c = r.block
    BY <2>2
  <2>7. CASE t = Main
    <3>1. r.parent = GENESIS_KEY /\ Stored \subseteq Founding
      BY <1>0, <2>2, <2>7 DEF OneWriter, Founded, Writing
    <3>2. LedgerView!Found(c)
      BY <2>0, <2>2, <2>4, <2>5, <2>6, <3>1 DEF LedgerView!Found, Founding, Stored
    <3> QED BY <3>2 DEF LedgerView!Next
  <2>8. CASE t = Producer
    <3>1. r.parent = parentKey
      BY <1>0, <2>2, <2>8 DEF OneWriter, Writing
    <3>2. LedgerView!Append(c)
      BY <2>0, <2>2, <2>4, <2>5, <2>6, <3>1 DEF LedgerView!Append
    <3> QED BY <3>2 DEF LedgerView!Next
  <2> QED BY <2>7, <2>8
<1> QED BY <1>0, <1>1, <1>2, StoreSteps
        DEF storeVars, durable, ReadBlockCount, CacheBlockCount, ReadParentHash, CacheParentHash,
            PutBlock, PutBlockCount, CommitChilds, CommitTransactions, LoseMemory

(* Seen from outside, the three databases, the caches and the two threads are an
   append-only ledger, crashes and restarts included: a block is recorded in one
   step with its parent, on the tip, and never changes. *)
THEOREM LedgerCorrect ==
    ~StartupRace /\ SilentFailures = {} /\ GenesisConfig = {TRUE}
        => (Spec => ImplementsLedger)
<1> SUFFICES ASSUME ~StartupRace, SilentFailures = {}, GenesisConfig = {TRUE}
             PROVE  Spec => LedgerView!Spec
  BY DEF ImplementsLedger
<1>1. Init => LedgerInv
  BY ChainInit, Threads DEF LedgerInv, Founded, Init, StoreInit, Stored, NoEntry, NoResource,
                            Writing, Generating
<1>2. LedgerInv /\ [Next]_vars => LedgerInv'
  BY FoundedStep, ChainStep, NextTyped DEF LedgerInv, ChainInv
<1>3. Init => LedgerView!Init
  BY DEF Init, StoreInit, NoEntry, LedgerView!Init
<1>4. LedgerInv /\ [Next]_vars => [LedgerView!Next]_(LedgerView!vars)
  BY LedgerStep
<1> QED BY <1>1, <1>2, <1>3, <1>4, PTL DEF Spec, LedgerView!Spec

----------------------------------------------------------------------------
(* Count and indexes agree with the chain.                                 *)

AgreeInv == LedgerInv /\ IndexesFollowBlocks /\ Written
                /\ CountIsHeight /\ Counted /\ IndexedUnlessTorn /\ ChildIndexed

\* The stored blocks and the genesis blocks among them depend on "blocks" only.
LEMMA SameStored ==
    ASSUME blocks' = blocks
    PROVE  Stored' = Stored /\ Founding' = Founding
BY DEF Stored, Founding

\* Where the first genesis block is indexed there is a count to read.
LEMMA GenesisCounted ==
    ASSUME IndexesFollowBlocks, TypeInv, Counted, HasGenesis
    PROVE  parentKey # NoBlock /\ blockCountKey # NoCount
<1>1. childs[GENESIS_KEY] \in Stored
  BY DEF HasGenesis, IndexesFollowBlocks, TypeInv, TypeOK, StoreTypeOK
<1> QED BY <1>1 DEF Counted

\* A genesis block is the first of the chain again; any other one adds one to it.
LEMMA CommitCounts ==
    ASSUME SilentFailures = {}, AgreeInv, NEW t \in Thread, CommitBlocks(t)
    PROVE  /\ CountIsHeight' /\ IsFiniteSet(Stored')
           /\ parentKey' # NoBlock /\ blockCountKey' # NoCount
<1> DEFINE r == resource[t]
<1> USE Threads
<1>0. TypeInv /\ OneWriter /\ Founded /\ ChainIntact /\ CountIsHeight /\ Counted
  BY DEF AgreeInv, LedgerInv, ChainInv
<1>1. /\ r.next = "blocks" /\ r.block \in Block \ Stored
      /\ r.parent # NoBlock /\ r.parent \in Parent /\ r.block # NoBlock
  BY <1>0, CommitBlocksMoves DEF TypeInv, TypeOK, StoreTypeOK, Resource, Unshared
<1>2. r.headPut /\ r.countPut
  BY <1>0, <1>1 DEF OneWriter, Writing
<1>3. /\ blocks' = [blocks EXCEPT ![r.block] = [parent |-> r.parent, messages |-> r.messages]]
      /\ parentKey' = r.block /\ blockCountKey' = r.count
  BY <1>2 DEF CommitBlocks, Outcome
<1>4. /\ Stored' = Stored \cup {r.block}
      /\ blocks'[r.block].parent = r.parent
      /\ \A b \in Stored : blocks'[b].parent = blocks[b].parent
  BY <1>0, <1>1, <1>3 DEF Stored, TypeInv, TypeOK, StoreTypeOK
<1>5. IsFiniteSet(Stored') /\ Cardinality(Stored') = Cardinality(Stored) + 1
  BY <1>0, <1>1, <1>4, FS_AddElement DEF Counted
<1>6. IsFiniteSet(Founding) /\ Cardinality(Stored) \in Nat /\ Cardinality(Founding) \in Nat
      /\ Cardinality(Founding) <= Cardinality(Stored)
  BY <1>0, FS_Subset, FS_CardinalityType DEF Counted, Founding
<1>7. CASE t = Main
  <2>1. r.parent = GENESIS_KEY /\ Stored \subseteq Founding /\ r.count = 1
    BY <1>0, <1>1, <1>7 DEF OneWriter, Founded, Writing, Counted
  <2>2. Founding' = Stored'
    BY <1>4, <2>1 DEF Founding
  <2>3. Cardinality(Stored') - Cardinality(Founding') + 1 = 1
    BY <1>5, <1>6, <2>2
  <2> QED BY <1>1, <1>3, <1>5, <2>1, <2>3 DEF CountIsHeight, NoCount
<1>8. CASE t = Producer
  <2>1. r.parent = parentKey /\ r.count = blockCountKey + 1
    BY <1>0, <1>1, <1>8 DEF OneWriter, Writing, Counted
  <2>2. r.parent # GENESIS_KEY /\ parentKey # NoBlock
    BY <1>0, <1>1, <2>1, Sentinels DEF TypeInv, TypeOK, StoreTypeOK
  <2>3. Founding' = Founding
    BY <1>1, <1>4, <2>2 DEF Founding
  <2>4. blockCountKey = Cardinality(Stored) - Cardinality(Founding) + 1
    BY <1>0, <2>2 DEF CountIsHeight
  <2>5. r.count = Cardinality(Stored') - Cardinality(Founding') + 1
    BY <1>5, <1>6, <2>1, <2>3, <2>4
  <2>6. r.count \in Nat
    BY <1>6, <2>1, <2>4
  <2> QED BY <1>1, <1>3, <1>5, <2>5, <2>6 DEF CountIsHeight, NoCount
<1> QED BY <1>7, <1>8

\* The height depends on these variables only.
LEMMA CountKept ==
    ASSUME UNCHANGED <<blocks, parentKey, blockCountKey>>
    PROVE  /\ CountIsHeight => CountIsHeight'
           /\ Stored' = Stored
BY SameStored DEF CountIsHeight

LEMMA CountedStep ==
    ASSUME ~StartupRace, SilentFailures = {}, GenesisConfig = {TRUE}, AgreeInv, [Next]_vars
    PROVE  CountIsHeight' /\ Counted'
<1> USE Threads DEF Starting, Generating
<1>0. TypeInv /\ OneWriter /\ Founded /\ ChainInv /\ CountIsHeight /\ Counted
        /\ IndexesFollowBlocks
  BY DEF AgreeInv, LedgerInv, ChainInv
<1>h. HasGenesis => parentKey # NoBlock /\ blockCountKey # NoCount
  BY <1>0, GenesisCounted
<1>1. CASE \/ Start \/ RequireGenesis \/ StartFails \/ Stop \/ Terminate \/ Wake
           \/ GetTransactions \/ (\E m \in Message : BlockMessage(m)) \/ UNCHANGED vars
  <2>1. UNCHANGED <<blocks, parentKey, blockCountKey, blockCount, resource>>
    BY <1>1 DEF Start, RequireGenesis, StartFails, Stop, Terminate, Wake, GetTransactions,
                BlockMessage, vars, storeVars, durable, caches
  <2>2. CountIsHeight' /\ Stored' = Stored
    BY <1>0, <2>1, CountKept
  <2>3. CASE Wake
    <3>1. producerPc' = "taking" => blockCount # NoCount
      BY <1>0, <2>3 DEF Wake, Founded, MainPc, TypeInv, TypeOK, Placed, Counted
    <3> QED BY <1>0, <2>1, <2>2, <2>3, <3>1 DEF Wake, Counted
  <2>4. CASE ~Wake
    BY <1>0, <1>1, <2>1, <2>2, <2>4
       DEF Start, RequireGenesis, StartFails, Stop, Terminate, GetTransactions,
           BlockMessage, vars, moduleVars, Counted, TypeInv, Placed
  <2> QED BY <2>3, <2>4
\* The main thread reads the count of a chain that has one.
<1>2. CASE LoadBlockCount \/ LoadParentHash
  <2>1. /\ UNCHANGED <<blocks, parentKey, blockCountKey, resource, producerPc>>
        /\ producerPc \in {"none", "waiting"}
    BY <1>0, <1>2 DEF LoadBlockCount, LoadParentHash, ReadBlockCount, CacheBlockCount,
             ReadParentHash, CacheParentHash, storeVars, durable, OneWriter
  <2>2. CountIsHeight' /\ Stored' = Stored
    BY <1>0, <2>1, CountKept
  <2>3. mainPc = "cacheCount" => value[Main].count # NoCount
    BY <1>0, <1>h DEF OneWriter, Founded
  <2>4. /\ mainPc' \in {"readHead", "cacheHead", "serving"} => blockCount' # NoCount
        /\ mainPc' \in {"readHead", "cacheHead", "serving", "cacheCount"}
    BY <1>0, <1>2, <2>3 DEF LoadBlockCount, LoadParentHash, ReadBlockCount, CacheBlockCount,
             ReadParentHash, CacheParentHash, storeVars, caches, Counted
  <2>5. resource[Producer].next = "idle" /\ resource[Main].next \notin {"blocks"}
    BY <1>0, <1>2, Alone DEF LoadBlockCount, LoadParentHash, TypeInv, Placed
  <2> QED BY <1>0, <2>1, <2>2, <2>4, <2>5 DEF Counted
\* It writes the genesis block from an empty cache.
<1>3. CASE LoadGenesis
  <2>1. /\ producerPc \in {"none", "waiting"} /\ producerPc' = producerPc
        /\ resource[Producer].next = "idle"
    BY <1>0, <1>3, Alone DEF LoadGenesis, OneWriter
  <2>2. CASE mainPc = "load" /\ mainPc' = "counting" /\ \E b \in Fresh : PutBlock(Main, b, GENESIS_KEY, {})
    <3>1. PICK b \in Fresh : PutBlock(Main, b, GENESIS_KEY, {})
      BY <2>2
    <3>2. /\ resource'[Main].next = "counting" /\ resource'[Producer] = resource[Producer]
          /\ UNCHANGED <<blocks, parentKey, blockCountKey, blockCount>>
      BY <1>0, <3>1 DEF PutBlock, durable, TypeInv, TypeOK, StoreTypeOK
    <3>3. CountIsHeight' /\ Stored' = Stored
      BY <1>0, <3>2, CountKept
    <3> QED BY <1>0, <2>1, <2>2, <3>2, <3>3 DEF Counted
  <2>3. CASE mainPc = "counting" /\ mainPc' = "commit" /\ PutBlockCount(Main)
    <3>1. blockCount = NoCount
      BY <1>0, <2>3 DEF Counted
    <3>2. blockCount' = 1 /\ UNCHANGED <<blocks, parentKey, blockCountKey>>
      BY <2>3, <3>1 DEF PutBlockCount, durable
    <3>3. /\ resource'[Main].next = "blocks" /\ resource'[Main].count = 1
          /\ resource'[Producer] = resource[Producer]
      BY <1>0, <2>3, <3>1, CountMoves
         DEF PutBlockCount, TypeInv, TypeOK, StoreTypeOK, Resource
    <3>4. CountIsHeight' /\ Stored' = Stored
      BY <1>0, <3>2, CountKept
    <3> QED BY <1>0, <2>1, <2>3, <3>2, <3>3, <3>4 DEF Counted, NoCount
  <2> QED BY <1>3, <2>2, <2>3 DEF LoadGenesis
<1>4. CASE CommitGenesis
  <2>1. /\ producerPc \in {"none", "waiting"} /\ producerPc' = producerPc /\ mainPc = "commit"
        /\ resource[Producer].next = "idle"
        /\ mainPc' \in {"commit", "serving"}
    BY <1>0, <1>4, Alone DEF CommitGenesis, OneWriter
  <2>2. CASE CommitBlocks(Main)
    <3>1. /\ CountIsHeight' /\ IsFiniteSet(Stored') /\ parentKey' # NoBlock
          /\ blockCountKey' # NoCount
      BY <2>2, CommitCounts
    <3>2. /\ resource'[Main].next = "childs" /\ resource'[Producer] = resource[Producer]
          /\ blockCount' = blockCount
      BY <1>0, <2>2, CommitBlocksMoves DEF CommitBlocks, caches
    <3> QED BY <1>0, <2>1, <3>1, <3>2 DEF Counted
  <2>3. CASE CommitChilds(Main) \/ CommitTransactions(Main)
    <3>1. /\ UNCHANGED <<blocks, parentKey, blockCountKey, blockCount>>
          /\ resource'[Main].next # "blocks" /\ resource'[Producer] = resource[Producer]
      BY <1>0, <2>3, CommitChildsMoves, CommitTransactionsMoves
         DEF CommitChilds, CommitTransactions, caches
    <3>2. CountIsHeight' /\ Stored' = Stored
      BY <1>0, <3>1, CountKept
    <3> QED BY <1>0, <2>1, <3>1, <3>2 DEF Counted
  <2> QED BY <1>4, <2>2, <2>3 DEF CommitGenesis
<1>5. CASE Join \/ NoParentHash \/ Crash
  <2>1. ProcessGone
    BY <1>5 DEF Join, NoParentHash, Crash
  <2>2. /\ UNCHANGED <<blocks, parentKey, blockCountKey>>
        /\ blockCount' = NoCount
        /\ \A t \in Thread : resource'[t].next = "idle"
        /\ mainPc' = "down" /\ producerPc' = "none"
    BY <2>1 DEF ProcessGone, LoseMemory, CachesLost, durable, NoResource
  <2>3. CountIsHeight' /\ Stored' = Stored
    BY <1>0, <2>2, CountKept
  <2> QED BY <1>0, <2>2, <2>3 DEF Counted
\* The producer finds the count cached, and it is the one on disk.
<1>6. CASE GetParentHash \/ WriteBlock \/ CommitBlock
  <2>1. /\ mainPc \notin Starting \cup {"down"} /\ mainPc' = mainPc
        /\ resource[Main].next = "idle" /\ producerPc \in Generating
        /\ producerPc' \in {"waiting"} \cup Generating
    <3>1. /\ mainPc \notin Starting \cup {"down"} /\ mainPc' = mainPc
          /\ producerPc \in Generating /\ producerPc' \in {"waiting"} \cup Generating
      BY <1>0, <1>6 DEF GetParentHash, WriteBlock, CommitBlock, OneWriter, TypeInv, Placed
    <3>2. resource[Main].next \in Phase
      BY <1>0 DEF TypeInv, TypeOK, StoreTypeOK, Resource
    <3> QED BY <1>0, <3>1, <3>2 DEF TypeInv, Placed, Phase
  <2>c. blockCount # NoCount
    BY <1>0, <2>1 DEF Counted
  <2>2. CASE GetParentHash
    <3>1. UNCHANGED <<blocks, parentKey, blockCountKey, resource, blockCount>>
      BY <2>2 DEF GetParentHash, ReadParentHash, CacheParentHash, storeVars, durable, caches
    <3>2. CountIsHeight' /\ Stored' = Stored
      BY <1>0, <3>1, CountKept
    <3> QED BY <1>0, <2>1, <2>c, <3>1, <3>2 DEF Counted
  <2>3. CASE producerPc = "applying" /\ \E b \in Fresh : PutBlock(Producer, b, parentHash, taken)
    <3>1. PICK b \in Fresh : PutBlock(Producer, b, parentHash, taken)
      BY <2>3
    <3>2. /\ resource'[Producer].next = "counting" /\ resource'[Main] = resource[Main]
          /\ UNCHANGED <<blocks, parentKey, blockCountKey, blockCount>>
      BY <1>0, <3>1 DEF PutBlock, durable, TypeInv, TypeOK, StoreTypeOK
    <3>3. ~Writing(Main) /\ ~Writing(Producer)
      BY <2>1, <3>1 DEF Writing, PutBlock
    <3>4. blockCount = blockCountKey
      BY <1>0, <2>c, <3>3, CachesIdle
    <3>5. CountIsHeight' /\ Stored' = Stored
      BY <1>0, <3>2, CountKept
    <3> QED BY <1>0, <2>1, <2>c, <3>2, <3>4, <3>5 DEF Counted
  <2>4. CASE PutBlockCount(Producer)
    <3>1. blockCount = blockCountKey /\ blockCount \in Count
      BY <1>0, <2>4 DEF Counted, PutBlockCount, TypeInv, TypeOK, StoreTypeOK
    <3>2. blockCount' = blockCountKey + 1 /\ UNCHANGED <<blocks, parentKey, blockCountKey>>
      BY <2>4, <2>c, <3>1 DEF PutBlockCount, durable
    <3>3. /\ resource'[Producer].next = "blocks" /\ resource'[Producer].count = blockCount'
          /\ resource'[Main] = resource[Main]
      BY <1>0, <2>4, CountMoves
         DEF PutBlockCount, TypeInv, TypeOK, StoreTypeOK, Resource
    <3>4. CountIsHeight' /\ Stored' = Stored
      BY <1>0, <3>2, CountKept
    <3>5. blockCount' # NoCount
      BY <2>c, <3>1, <3>2 DEF Count, NoCount
    <3> QED BY <1>0, <2>1, <3>2, <3>3, <3>4, <3>5 DEF Counted
  <2>5. CASE CommitBlocks(Producer)
    <3>1. /\ CountIsHeight' /\ IsFiniteSet(Stored') /\ parentKey' # NoBlock
          /\ blockCountKey' # NoCount
      BY <2>5, CommitCounts
    <3>2. /\ resource'[Producer].next = "childs" /\ resource'[Main] = resource[Main]
          /\ blockCount' = blockCount
      BY <1>0, <2>5, CommitBlocksMoves DEF CommitBlocks, caches
    <3> QED BY <1>0, <2>1, <2>c, <3>1, <3>2 DEF Counted
  <2>6. CASE CommitChilds(Producer) \/ CommitTransactions(Producer)
    <3>1. /\ UNCHANGED <<blocks, parentKey, blockCountKey, blockCount>>
          /\ resource'[Producer].next \in {"transactions", "idle"}
          /\ resource'[Main] = resource[Main]
      BY <1>0, <2>6, CommitChildsMoves, CommitTransactionsMoves
         DEF CommitChilds, CommitTransactions, caches
    <3>2. CountIsHeight' /\ Stored' = Stored
      BY <1>0, <3>1, CountKept
    <3> QED BY <1>0, <2>1, <2>c, <3>1, <3>2 DEF Counted
  <2> QED BY <1>6, <2>2, <2>3, <2>4, <2>5, <2>6 DEF WriteBlock, CommitBlock
<1> QED BY <1>1, <1>2, <1>3, <1>4, <1>5, <1>6 DEF Next, MainStep, ProducerStep

\* A commit that is still going on stays one, unless the database "transactions"
\* or the end of the process closes it.
LEMMA InCommitKept ==
    ASSUME TypeInv,
           \A t \in Thread : /\ resource[t].next \in {"childs", "transactions"}
                             => /\ resource'[t].next \in {"childs", "transactions"}
                                /\ resource'[t].block = resource[t].block
    PROVE  \A b \in Block : InCommit(b) => InCommit(b)'
BY DEF InCommit

\* The steps before the first commit say nothing of the indexes.
LEMMA IndexedKept ==
    ASSUME AgreeInv, UNCHANGED <<blocks, childs, transactions, torn>>,
           \A t \in Thread : \/ resource'[t] = resource[t]
                             \/ /\ resource[t].next \in {"idle", "counting"}
                                /\ resource'[t].next \in {"counting", "blocks"}
    PROVE  IndexedUnlessTorn' /\ ChildIndexed'
<1>0. TypeInv /\ IndexedUnlessTorn /\ ChildIndexed
  BY DEF AgreeInv, LedgerInv, ChainInv
<1>1. \A b \in Block : InCommit(b) => InCommit(b)'
  BY <1>0, InCommitKept
<1>2. Stored' = Stored
  BY DEF Stored
<1>3. IndexedUnlessTorn'
  BY <1>0, <1>1, <1>2 DEF IndexedUnlessTorn, Stored
<1>4. ChildIndexed'
  BY <1>0 DEF ChildIndexed
<1> QED BY <1>3, <1>4

LEMMA IndexedStep ==
    ASSUME SilentFailures = {}, AgreeInv, [Next]_vars
    PROVE  IndexedUnlessTorn' /\ ChildIndexed'
<1>0. /\ TypeInv /\ ChainIntact /\ NoFork /\ Written /\ IndexedUnlessTorn /\ ChildIndexed
  BY DEF AgreeInv, LedgerInv, ChainInv
<1>1. CASE \/ UNCHANGED storeVars
           \/ \E t \in Thread : \/ ReadBlockCount(t) \/ CacheBlockCount(t)
                              \/ ReadParentHash(t) \/ CacheParentHash(t)
  <2>1. UNCHANGED <<blocks, resource, childs, transactions, torn>>
    BY <1>1 DEF storeVars, durable, ReadBlockCount, CacheBlockCount, ReadParentHash,
                CacheParentHash
  <2> QED BY <2>1, IndexedKept
<1>2. CASE \E t \in Thread, b \in Fresh, p \in Parent \ {NoBlock}, ms \in SUBSET Message :
             PutBlock(t, b, p, ms)
  <2>1. PICK t \in Thread, b \in Fresh, p \in Parent \ {NoBlock}, ms \in SUBSET Message :
             PutBlock(t, b, p, ms)
    BY <1>2
  <2>2. resource'[t].next = "counting" /\ \A u \in Thread \ {t} : resource'[u] = resource[u]
    BY <1>0, <2>1, PutMoves
  <2>3. UNCHANGED <<blocks, childs, transactions, torn>> /\ resource[t].next = "idle"
    BY <2>1 DEF PutBlock, durable
  <2> QED BY <2>2, <2>3, IndexedKept
<1>3. CASE \E t \in Thread : PutBlockCount(t)
  <2>1. PICK t \in Thread : PutBlockCount(t)
    BY <1>3
  <2>2. resource'[t].next = "blocks" /\ \A u \in Thread \ {t} : resource'[u] = resource[u]
    BY <1>0, <2>1, CountMoves
  <2>3. UNCHANGED <<blocks, childs, transactions, torn>> /\ resource[t].next = "counting"
    BY <2>1 DEF PutBlockCount, durable
  <2> QED BY <2>2, <2>3, IndexedKept
\* The new block is one whose commit goes on.
<1>4. CASE \E t \in Thread : CommitBlocks(t)
  <2>1. PICK t \in Thread : CommitBlocks(t)
    BY <1>4
  <2>2. /\ resource[t].next = "blocks" /\ resource'[t].next = "childs"
        /\ resource'[t].block = resource[t].block
        /\ \A u \in Thread \ {t} : resource'[u] = resource[u]
        /\ Stored' \subseteq Stored \cup {resource[t].block}
        /\ \A b \in Block : b # resource[t].block => blocks'[b] = blocks[b]
        /\ resource[t].block \in Block \ Stored
    BY <1>0, <2>1, CommitBlocksMoves
  <2>3. UNCHANGED <<childs, transactions, torn>>
    BY <2>1 DEF CommitBlocks
  <2>4. \A b \in Block : InCommit(b) => InCommit(b)'
    <3>1. \A u \in Thread : resource[u].next \in {"childs", "transactions"}
                             => resource'[u] = resource[u]
      BY <2>2
    <3> QED BY <1>0, <3>1, InCommitKept
  <2>5. ASSUME NEW b \in Block, b = resource[t].block PROVE InCommit(b)'
    BY <2>2, <2>5 DEF InCommit
  <2>6. ASSUME NEW b \in Stored'
        PROVE  b \in torn' \/ InCommit(b)' \/
               /\ childs'[blocks'[b].parent] # NoBlock
               /\ blocks'[b].parent # GENESIS_KEY => childs'[blocks'[b].parent] = b
               /\ \A m \in blocks'[b].messages : transactions'[transactionHash[m]] # NoBlock
    <3>1. CASE b = resource[t].block
      BY <2>2, <2>5, <3>1
    <3>2. CASE b # resource[t].block
      <4>1. b \in Stored /\ b \in Block /\ blocks'[b] = blocks[b]
        BY <2>2, <3>2 DEF Stored
      <4> QED BY <1>0, <2>3, <2>4, <4>1 DEF IndexedUnlessTorn
    <3> QED BY <3>1, <3>2
  <2>7. IndexedUnlessTorn'
    BY <2>6 DEF IndexedUnlessTorn
  <2>8. ChildIndexed'
    BY <1>0, <2>2, <2>3 DEF ChildIndexed
  <2> QED BY <2>7, <2>8
\* Its parent leads to it, and to no other block before: the chain does not fork.
<1>5. CASE \E t \in Thread : CommitChilds(t)
  <2>1. PICK t \in Thread : CommitChilds(t)
    BY <1>5
  <2> DEFINE r == resource[t]
  <2>2. /\ r.next = "childs" /\ resource'[t].next = "transactions"
        /\ resource'[t].block = r.block /\ resource'[t].parent = r.parent
        /\ \A u \in Thread \ {t} : resource'[u] = resource[u]
        /\ Stored' = Stored
    BY <1>0, <2>1, CommitChildsMoves
  <2>3. /\ childs' = [childs EXCEPT ![r.parent] = r.block]
        /\ UNCHANGED <<blocks, transactions, torn>>
    BY <2>1 DEF CommitChilds, Outcome
  <2>4. /\ blocks[r.block].parent = r.parent /\ r.block \in Stored
        /\ r.parent \in Block \cup {GENESIS_KEY} /\ r.block # NoBlock
    BY <1>0, <2>2, InCommitStored
       DEF TypeInv, TypeOK, StoreTypeOK, Unshared, Resource, Parent
  <2>5. \A b \in Block : InCommit(b) => InCommit(b)'
    <3>1. \A u \in Thread : resource[u].next \in {"childs", "transactions"}
                             => /\ resource'[u].next \in {"childs", "transactions"}
                                /\ resource'[u].block = resource[u].block
      BY <2>2
    <3> QED BY <1>0, <3>1, InCommitKept
  <2>6. /\ childs'[r.parent] = r.block
        /\ \A p \in Block \cup {GENESIS_KEY} : p # r.parent => childs'[p] = childs[p]
    BY <1>0, <2>3, <2>4 DEF TypeInv, TypeOK, StoreTypeOK
  <2>7. ASSUME NEW b \in Stored, blocks[b].parent # GENESIS_KEY, blocks[b].parent = r.parent
        PROVE  b = r.block
    BY <1>0, <2>4, <2>7 DEF NoFork
  <2>8. \A b \in Stored : blocks[b].parent \in Block \cup {GENESIS_KEY} /\ b \in Block
    BY <1>0 DEF ChainIntact, Stored
  <2>9. IndexedUnlessTorn'
    BY <1>0, <2>2, <2>3, <2>4, <2>5, <2>6, <2>7, <2>8 DEF IndexedUnlessTorn
  <2>10. ASSUME NEW u \in Thread, resource'[u].next = "transactions"
         PROVE  \/ resource'[u].block \in torn'
                \/ /\ childs'[resource'[u].parent] # NoBlock
                   /\ resource'[u].parent # GENESIS_KEY
                        => childs'[resource'[u].parent] = resource'[u].block
    <3>1. CASE u = t
      BY <2>2, <2>4, <2>6, <3>1
    <3>2. CASE u # t
      <4>1. resource'[u] = resource[u] /\ resource[u].next = "transactions"
        BY <2>2, <2>10, <3>2
      <4>2. /\ blocks[resource[u].block].parent = resource[u].parent
            /\ resource[u].block \in Stored
        BY <1>0, <4>1, InCommitStored
      <4> QED BY <1>0, <2>3, <2>4, <2>6, <2>7, <2>8, <4>1, <4>2 DEF ChildIndexed
    <3> QED BY <3>1, <3>2
  <2> QED BY <2>9, <2>10 DEF ChildIndexed
\* With the last database the block is found both ways.
<1>6. CASE \E t \in Thread : CommitTransactions(t)
  <2>1. PICK t \in Thread : CommitTransactions(t)
    BY <1>6
  <2> DEFINE r == resource[t]
  <2>2. /\ r.next = "transactions" /\ resource'[t].next = "idle"
        /\ \A u \in Thread \ {t} : resource'[u] = resource[u]
        /\ Stored' = Stored
    BY <1>0, <2>1, CommitTransactionsMoves
  <2>3. /\ transactions' = [h \in Hash |-> IF h \in HashesOf(r.messages) THEN r.block
                                                                        ELSE transactions[h]]
        /\ UNCHANGED <<blocks, childs, torn>>
    BY <2>1 DEF CommitTransactions, Outcome
  <2>4. /\ blocks[r.block].parent = r.parent /\ r.block \in Stored
        /\ blocks[r.block].messages = r.messages
        /\ r.messages \subseteq Message /\ r.block # NoBlock
    BY <1>0, <2>2, InCommitStored
       DEF TypeInv, TypeOK, StoreTypeOK, Unshared, Resource
  <2>5. ASSUME NEW b \in Block, InCommit(b), b # r.block PROVE InCommit(b)'
    BY <2>2, <2>5 DEF InCommit
  <2>6. /\ \A h \in Hash : transactions[h] # NoBlock => transactions'[h] # NoBlock
        /\ \A m \in r.messages : transactions'[transactionHash[m]] # NoBlock
    <3>1. \A m \in r.messages : transactionHash[m] \in Hash
                                  /\ transactionHash[m] \in HashesOf(r.messages)
      BY <2>4, StoreAssumption DEF HashesOf
    <3> QED BY <2>3, <2>4, <3>1
  <2>7. ASSUME NEW b \in Stored
        PROVE  b \in torn' \/ InCommit(b)' \/
               /\ childs'[blocks'[b].parent] # NoBlock
               /\ blocks'[b].parent # GENESIS_KEY => childs'[blocks'[b].parent] = b
               /\ \A m \in blocks'[b].messages : transactions'[transactionHash[m]] # NoBlock
    <3>1. CASE b = r.block
      BY <1>0, <2>2, <2>3, <2>4, <2>6, <3>1 DEF ChildIndexed
    <3>2. CASE b # r.block
      <4>1. b \in Block /\ \A m \in blocks[b].messages : transactionHash[m] \in Hash
        BY <1>0, StoreAssumption DEF Stored, TypeInv, TypeOK, StoreTypeOK, Entry
      <4> QED BY <1>0, <2>3, <2>5, <2>6, <3>2, <4>1 DEF IndexedUnlessTorn
    <3> QED BY <3>1, <3>2
  <2>8. IndexedUnlessTorn'
    BY <2>2, <2>7 DEF IndexedUnlessTorn
  <2>9. ChildIndexed'
    BY <1>0, <2>2, <2>3 DEF ChildIndexed
  <2> QED BY <2>8, <2>9
\* Whatever was half way is torn.
<1>7. CASE LoseMemory
  <2>1. /\ UNCHANGED <<blocks, childs, transactions>> /\ torn \subseteq torn'
        /\ \A b \in Block : InCommit(b) => b \in torn'
        /\ \A t \in Thread : resource'[t].next = "idle"
    BY <1>7 DEF LoseMemory, durable, InCommit, NoResource
  <2>2. Stored' = Stored
    BY <2>1 DEF Stored
  <2>3. IndexedUnlessTorn'
    BY <1>0, <2>1, <2>2 DEF IndexedUnlessTorn, Stored
  <2> QED BY <2>1, <2>3 DEF ChildIndexed
<1> QED BY <1>0, <1>1, <1>2, <1>3, <1>4, <1>5, <1>6, <1>7, StoreSteps

LEMMA AgreeInit == Init => AgreeInv
<1> SUFFICES ASSUME Init PROVE AgreeInv
  OBVIOUS
<1> USE Threads
<1>1. Stored = {} /\ parentKey = NoBlock /\ blockCountKey = NoCount /\ blockCount = NoCount
      /\ mainPc = "down" /\ producerPc = "none" /\ \A t \in Thread : resource[t].next = "idle"
  BY DEF Init, StoreInit, Stored, NoEntry, NoResource
<1>2. LedgerInv
  BY <1>1, ChainInit DEF LedgerInv, Founded, Writing, Generating
<1>3. IndexesFollowBlocks /\ Written
  BY <1>1 DEF Init, StoreInit, IndexesFollowBlocks, Written
<1>4. CountIsHeight /\ Counted
  BY <1>1, FS_EmptySet DEF CountIsHeight, Counted, Generating
<1>5. IndexedUnlessTorn /\ ChildIndexed
  BY <1>1 DEF IndexedUnlessTorn, ChildIndexed
<1> QED BY <1>2, <1>3, <1>4, <1>5 DEF AgreeInv

(* Head, count, indexes and caches tell one story, whatever step the process died
   at: the chain does not fork, BLOCK_COUNT is its length, a block whose commit is
   over is found through both indexes, and what the threads read from memory is
   what a restart reads from disk.  It takes a genesis file, a postStart that is
   over before the producer's first wait ends, and commits that do not fail. *)
THEOREM StoreCorrect ==
    ~StartupRace /\ SilentFailures = {} /\ GenesisConfig = {TRUE}
        => (Spec => []StoreAgrees)
<1> SUFFICES ASSUME ~StartupRace, SilentFailures = {}, GenesisConfig = {TRUE}
             PROVE  Spec => []StoreAgrees
  OBVIOUS
<1>1. AgreeInv /\ [Next]_vars => AgreeInv'
  <2> SUFFICES ASSUME AgreeInv, [Next]_vars PROVE AgreeInv'
    OBVIOUS
  <2>1. LedgerInv /\ ChainInv /\ TypeInv /\ IndexInv
    BY DEF AgreeInv, LedgerInv, ChainInv, IndexInv
  <2>2. LedgerInv'
    BY <2>1, FoundedStep, ChainStep, NextTyped DEF LedgerInv, ChainInv
  <2>3. Written' /\ IndexesFollowBlocks'
    BY <2>1, IndexStep
  <2> QED BY <2>2, <2>3, CountedStep, IndexedStep DEF AgreeInv
<1>2. AgreeInv => StoreAgrees
  BY DEF AgreeInv, LedgerInv, ChainInv, StoreAgrees
<1> QED BY <1>1, <1>2, AgreeInit, PTL DEF Spec
=============================================================================
