----------------------------- MODULE SignedData -----------------------------
(***************************************************************************)
(* What the chain is made of, as its builders make it: transactions that   *)
(* clients sign, change sets that nodes sign, and blocks that the producer *)
(* signs (src/src/libs/chain_common, transaction_common, block_db, crypto  *)
(* and GenesisLoader).  Functions without a state.                         *)
(*                                                                         *)
(* A hash or a signature is a record of what it was made from: two are     *)
(* equal only if the serialised values were.                               *)
(***************************************************************************)
EXTENDS Naturals, Sequences

\* HashGenerator and SignatureGenerator; a key is named, not represented.
HashOf(value) == [hash |-> value]
SignatureOf(key, value) == [key |-> key, signed |-> value]

----------------------------------------------------------------------------
(* chain_common: the client's part.                                        *)

Action(name, parent, model) == [contract |-> name, parent |-> parent, model |-> model]

Transaction(parent, source, target, value, actions) ==
    [parent |-> parent, sourceAccount |-> source, targetAccount |-> target,
     value |-> value, actions |-> actions]

SignedTransaction(key, transaction) ==
    LET hash == HashOf(transaction)
    IN  [transaction |-> transaction, transactionHash |-> hash, signature |-> SignatureOf(key, hash)]

----------------------------------------------------------------------------
(* transaction_common: what the node adds.                                 *)

TransactionMessage(signedTransaction, status) ==
    [signedTransaction |-> signedTransaction,
     transactionHash |-> signedTransaction.transactionHash,
     signature |-> signedTransaction.signature,
     sourceAccount |-> signedTransaction.transaction.sourceAccount,
     targetAccount |-> signedTransaction.transaction.targetAccount,
     currentStatus |-> status, changeSet |-> << >>]

\* getCurrentAccount; the fee account is one that nobody sets.
GetCurrentAccount(sent) ==
    IF sent.currentStatus \in {"init", "debit", "processing"}
    THEN sent.sourceAccount ELSE sent.targetAccount

AddChangeSet(sent, signedChangeSet) == [sent EXCEPT !.changeSet = Append(@, signedChangeSet)]

ChangeSet(transactionHash, account, status, change) ==
    [transactionHash |-> transactionHash, accountHash |-> account, status |-> status,
     changes |-> <<change>>]

SignedChangeSet(key, changeSet) ==
    LET hash == HashOf(changeSet)
    IN  [changeSet |-> changeSet, changeSetHash |-> hash, signature |-> SignatureOf(key, hash)]

\* The envelope a message travels in: the account that is current decides its route.
TransactionProto(sent) ==
    [transactionHash |-> sent.transactionHash, activeAccount |-> GetCurrentAccount(sent),
     status |-> sent.currentStatus, message |-> sent]

----------------------------------------------------------------------------
(* block_db.                                                               *)

\* The parent, then for each transaction its hash and those of its change sets.
MerkleLeaves(parent, transactions) ==
    LET leaves[i \in 0 .. Len(transactions)] ==
            IF i = 0 THEN <<parent>>
            ELSE leaves[i - 1] \o <<transactions[i].transactionHash>>
                     \o [j \in DOMAIN transactions[i].changeSet |->
                            transactions[i].changeSet[j].changeSetHash]
    IN  leaves[Len(transactions)]

\* Two hashes are joined into one: the left is taken twice, the right is not used.
MerklePair(lhs, rhs) == HashOf(<<lhs, lhs>>)

\* An odd level has its last hash twice; each level is half as long as the one below.
MerkleLevel(hashes) ==
    LET even == IF Len(hashes) % 2 = 0 THEN hashes ELSE Append(hashes, hashes[Len(hashes)])
    IN  [i \in 1 .. Len(even) \div 2 |-> MerklePair(even[2 * i - 1], even[2 * i])]

MerkelRoot(parent, transactions) ==
    LET level[i \in 0 .. Len(MerkleLeaves(parent, transactions))] ==
            IF i = 0 THEN MerkleLeaves(parent, transactions)
            ELSE IF Len(level[i - 1]) = 1 THEN level[i - 1] ELSE MerkleLevel(level[i - 1])
    IN  level[Len(MerkleLeaves(parent, transactions))][1]

Block(parent, transactions) ==
    [parent |-> parent, transactions |-> transactions,
     merkelRoot |-> MerkelRoot(parent, transactions)]

\* The hash is of the whole block, its transactions included.
SignedBlock(key, block) ==
    LET hash == HashOf(block)
    IN  [block |-> block, parent |-> block.parent, hash |-> hash, signature |-> SignatureOf(key, hash)]

----------------------------------------------------------------------------
(* GenesisLoader::load: an entry of the genesis file is signed by its own  *)
(* key, is complete at once, and brings its model as change set.           *)

GenesisTransaction(key, parent, entry) ==
    LET signed == SignedTransaction(entry.privateKey,
                      Transaction(parent, entry.account, entry.account, entry.value,
                                  <<Action("", "", entry.model)>>))
        set == ChangeSet(signed.transactionHash, entry.account, "complete", entry.model)
    IN  AddChangeSet(TransactionMessage(signed, "complete"), SignedChangeSet(key, set))

GenesisBlock(key, parent, entries) ==
    SignedBlock(key, Block(parent, [i \in DOMAIN entries |-> GenesisTransaction(key, parent, entries[i])]))
=============================================================================
