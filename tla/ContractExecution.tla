-------------------------- MODULE ContractExecution -------------------------
(***************************************************************************)
(* The contract of an account runs for one phase of a transaction:         *)
(* TransactionProcessor::processTransaction, AccountService::getContract,  *)
(* SandboxService::executeActionMessage and the session, engine and host   *)
(* functions of wavm_common.  In MessageRouting this is the one step       *)
(* ProcessTransaction; here it is cut at every call the contract makes to  *)
(* the host, since threads that process different accounts run contracts   *)
(* at the same time, and a host function finds the run it belongs to only  *)
(* by its thread.                                                          *)
(*                                                                         *)
(* What a phase leaves is queued for the producer, which seals a block with *)
(* it (BlockProducer::generateBlock) while other contracts run.             *)
(*                                                                         *)
(* WAVM is external: it parses, links and runs a module, and a trap comes  *)
(* back as an exception.  A contract is what it exports, each export the   *)
(* sequence of host calls it makes.                                        *)
(***************************************************************************)
EXTENDS ContractData, SignedData

CONSTANTS
    Threads,        \* the threads that block messages arrive on
    Messages,       \* bound: the phases of transactions to process
    Accounts,       \* account hashes
    Source,         \* the source account of each message's transaction
    Target,         \* its target account
    StatusOf,       \* its status
    Contracts,      \* the base account contracts in each account's graph
    Known,          \* the accounts that the account database knows
    InitialPages,   \* pages of memory a contract's module begins with
    IntLimit,       \* the first number of bytes that an int does not count
    Growth,         \* bound: the pages a contract grows its memory by at a time
    MaxText,        \* bound: the length of a string the host hands over
    MaxBlocks,      \* bound: the blocks that are made
    NodeKey,        \* the key of this node
    Genesis,        \* the entries of the genesis file
    GenesisParent,  \* the parent it names
    None            \* no message, no session

ASSUME ContractAssumption ==
    /\ Source \in [Messages -> Accounts]
    /\ Target \in [Messages -> Accounts]
    /\ StatusOf \in [Messages -> {"init", "debit", "processing", "credit"}]
    /\ Known \subseteq Accounts
    \* What an export, or the start function, calls is a sequence.
    /\ \A a \in Accounts : \A c \in Contracts[a] :
           /\ c.start \in Seq(Elements(c.start))
           /\ \A e \in DOMAIN c.exports : c.exports[e] \in Seq(Elements(c.exports[e]))
    /\ InitialPages \in Nat
    /\ IntLimit \in Nat
    /\ Growth \in Nat
    /\ MaxText \in Nat
    /\ None \notin Messages

VARIABLES
    step,           \* where each thread is
    message,        \* the message it processes
    contract,       \* ContractMessage::contract it got
    session,        \* wavmSessionPtr of each thread
    calls,          \* the host calls its contract has yet to make
    memory,         \* pages of the contract's memory
    buffers,        \* history: the strings handed to the contract
    read,           \* history: what the contract's last read was, and returned
    queue,          \* BlockProducer::transactions
    taken,          \* what the producer has taken from it
    chain,          \* the blocks, from the genesis block on
    outcome         \* what became of each message

runVars == <<step, message, contract, session, calls, memory, buffers, read>>
blockVars == <<queue, taken, chain>>
vars == <<runVars, blockVars, outcome>>

Step == {"idle", "contract", "sandbox", "running"}

----------------------------------------------------------------------------
(* The transaction: TransactionMessageHelper.                              *)

\* The transaction a client made, on its way in the phase of the message: the
\* keto command line program names the source account's key and the contract.
Sent == [m \in Messages |->
    TransactionProto(TransactionMessage(SignedTransaction(Source[m],
        Transaction(GenesisParent, Source[m], Target[m], m,
                    <<Action("transaction", GenesisParent, "")>>)), StatusOf[m]))]

CurrentAccount(m) == Sent[m].activeAccount

----------------------------------------------------------------------------
(* The entries of each host function (WavmSession).                        *)

Entry(s, p, type, text) == <<s, p, Value(type, text)>>

\* createDebitEntry and createCreditEntry; the date is not the current one.
TransferEntries(m, call) ==
    LET s == SubjectUrl(call.valueModel, <<call.op, CurrentAccount(m), m>>)
        P(name) == PredicateUrl(call.valueModel, name)
    IN  <<Entry(s, P("id"), "string", m),
          Entry(s, P("dateTime"), "dateTime", "some date"),
          Entry(s, P("type"), "string", call.op),
          Entry(s, P("accountHash"), "string", CurrentAccount(m)),
          Entry(s, P("value"), "long", call.value)>>

EntriesOf(m, call) ==
    CASE call.op \in {"debit", "credit"} -> TransferEntries(m, call)
      [] call.op = "set" -> <<Entry(call.subject, call.predicate, call.type, call.value)>>
      [] OTHER -> << >>

\* addModelEntry, for each: to the model and to the store.
ModelWith(model, entries) ==
    LET done[i \in 0 .. Len(entries)] ==
            IF i = 0 THEN model
            ELSE AddModelEntry(done[i - 1], entries[i][1], entries[i][2], entries[i][3])
    IN  done[Len(entries)]
StoreWith(store, entries) ==
    LET done[i \in 0 .. Len(entries)] ==
            IF i = 0 THEN store
            ELSE SetValue(done[i - 1], entries[i][1], entries[i][2], entries[i][3])
    IN  done[Len(entries)]
WithEntries(run, entries) ==
    [message |-> run.message, model |-> ModelWith(run.model, entries),
     store |-> StoreWith(run.store, entries)]

----------------------------------------------------------------------------
\* wavmSessionPtr when it points to nothing.
NoSession == [message |-> None, model |-> << >>, store |-> {}]

TypeOK ==
    /\ step \in [Threads -> Step]
    /\ message \in [Threads -> Messages \cup {None}]
    /\ \A t \in Threads : (step[t] = "idle") <=> (message[t] = None)
    /\ \A t \in Threads : calls[t] # << >> => step[t] = "running"
    /\ memory \in [Threads -> Nat]
    \* Nothing is taken for a block that cannot be made any more.
    /\ taken # << >> => Len(chain) <= MaxBlocks
    /\ outcome \in [Messages -> {"new", "taken", "processed", "failed"}]

Init ==
    /\ step = [t \in Threads |-> "idle"]
    /\ message = [t \in Threads |-> None]
    /\ contract = [t \in Threads |-> None]
    /\ session = [t \in Threads |-> NoSession]
    /\ calls = [t \in Threads |-> << >>]
    /\ memory = [t \in Threads |-> 0]
    /\ buffers = [t \in Threads |-> {}]
    /\ read = [t \in Threads |-> None]
    /\ queue = << >>
    /\ taken = << >>
    /\ chain = <<GenesisBlock(NodeKey, GenesisParent, Genesis)>>
    /\ outcome = [m \in Messages |-> "new"]

Goes(t, s) == step' = [step EXCEPT ![t] = s]

\* ~WavmSessionScope.
EndScope(t) == session' = [session EXCEPT ![t] = NoSession]

\* An exception: the scope ends the session, the handler rethrows.
Throw(t) ==
    /\ Goes(t, "idle")
    /\ outcome' = [outcome EXCEPT ![message[t]] = "failed"]
    /\ message' = [message EXCEPT ![t] = None]
    /\ EndScope(t)
    /\ calls' = [calls EXCEPT ![t] = << >>]
    /\ read' = [read EXCEPT ![t] = None]
    /\ UNCHANGED <<contract, memory, buffers, blockVars>>

----------------------------------------------------------------------------
(* processTransaction: the contract of the account, then the sandbox.      *)

\* A block message reaches the processor, on some thread.
ProcessTransaction(t, m) ==
    /\ step[t] = "idle"
    /\ outcome[m] = "new"
    /\ Goes(t, "contract")
    /\ message' = [message EXCEPT ![t] = m]
    /\ outcome' = [outcome EXCEPT ![m] = "taken"]
    /\ UNCHANGED <<contract, session, calls, memory, buffers, read, blockVars>>

\* GET_CONTRACT: none for an account that is not known; exactly one must be
\* found in the graph of one that is.
GetContract(t) ==
    /\ step[t] = "contract"
    /\ LET a == CurrentAccount(message[t])
       IN  IF a \in Known /\ Cardinality(Contracts[a]) # 1
           THEN Throw(t)
           ELSE /\ contract' = [contract EXCEPT ![t] =
                       IF a \in Known THEN CHOOSE c \in Contracts[a] : TRUE ELSE None]
                /\ Goes(t, "sandbox")
                /\ UNCHANGED <<message, session, calls, memory, buffers, read, blockVars, outcome>>

\* The export that the status calls for, or _main, or none.
EntryName(status) ==
    CASE status \in {"init", "debit"} -> "debit"
      [] status = "credit" -> "credit"
      [] status = "processing" -> "process"

NoEntry == <<[op |-> "trap"]>>

EntryCalls(c, status) ==
    CASE EntryName(status) \in DOMAIN c.exports -> c.exports[EntryName(status)]
      [] EntryName(status) \notin DOMAIN c.exports /\ "_main" \in DOMAIN c.exports -> c.exports["_main"]
      [] OTHER -> NoEntry

\* EXECUTE_ACTION_MESSAGE: the scope begins a session for the thread; then the
\* code is parsed, linked and started, each of which may fail.
Execute(t) ==
    /\ step[t] = "sandbox"
    /\ IF contract[t] = None \/ ~contract[t].loads
       THEN Throw(t)
       ELSE /\ Goes(t, "running")
            /\ session' = [session EXCEPT ![t] =
                   [message |-> message[t], model |-> << >>, store |-> {}]]
            /\ calls' = [calls EXCEPT ![t] =
                   contract[t].start \o EntryCalls(contract[t], StatusOf[message[t]])]
            /\ memory' = [memory EXCEPT ![t] = InitialPages]
            /\ buffers' = [buffers EXCEPT ![t] = {}]
            /\ UNCHANGED <<message, contract, read, blockVars, outcome>>

----------------------------------------------------------------------------
(* The host functions (Emscripten.cpp).                                    *)

\* (A slip: one session for all threads.)
SharedOwner(t) == CHOOSE u \in Threads : session[u] # NoSession

\* wavmSessionPtr is thread local.
Owner(t) == t

Calls(t, ops) == step[t] = "running" /\ calls[t] # << >> /\ Head(calls[t]).op \in ops
Called(t) == calls' = [calls EXCEPT ![t] = Tail(@)]

\* There is no memory left for a string.
Full(t, length) == Exhausted(memory[t], StringBytes(length), IntLimit)

\* A string for the contract, in pages of its own.
Hand(t, length) ==
    LET got == AllocateMemory(memory[t], StringBytes(length))
    IN  /\ memory' = [memory EXCEPT ![t] = got.pages]
        /\ buffers' = [buffers EXCEPT ![t] = @ \cup {<<got.base, StringBytes(length)>>}]

\* setResponse..Value, createDebitEntry, createCreditEntry.
WriteCall(t) ==
    /\ Calls(t, {"set", "debit", "credit"})
    /\ LET s == session[Owner(t)]
       IN  session' = [session EXCEPT ![Owner(t)] =
                WithEntries(s, EntriesOf(s.message, Head(calls[t])))]
    /\ Called(t)
    /\ UNCHANGED <<step, message, contract, memory, buffers, read, blockVars, outcome>>

\* getRequest..Value and getRequestModelTransactionValue.
ReadCall(t) ==
    /\ Calls(t, {"get", "getValue"})
    /\ LET s == session[Owner(t)]
           call == Head(calls[t])
           key == IF call.op = "get" THEN <<call.subject, call.predicate>>
                  ELSE <<SubjectUrl(call.valueModel, s.message), PredicateUrl(call.valueModel, "value")>>
           values == GetValue(s.store, call.type, key[1], key[2])
       IN  IF values = {} \/ (call.type = "string" /\ Full(t, MaxText)) THEN Throw(t)
           ELSE /\ \E v \in values : read' = [read EXCEPT ![t] = <<key[1], key[2], v>>]
                /\ IF call.type = "string" THEN Hand(t, MaxText) ELSE UNCHANGED <<memory, buffers>>
                /\ Called(t)
                /\ UNCHANGED <<step, message, contract, session, blockVars, outcome>>

\* getAccount: the hash in hexadecimal digits.
HashText == 64

AccountCall(t) ==
    /\ Calls(t, {"account"})
    /\ IF Full(t, HashText) THEN Throw(t)
       ELSE /\ Hand(t, HashText)
            /\ Called(t)
            /\ UNCHANGED <<step, message, contract, session, read, blockVars, outcome>>

\* console, log, getTransactionValue; or the contract grows its own memory, and
\* goes on when that is refused.
OtherCall(t) ==
    /\ Calls(t, {"log", "grow"})
    /\ \/ UNCHANGED memory
       \/ /\ Head(calls[t]).op = "grow"
          /\ memory' = [memory EXCEPT ![t] = @ + Growth]
    /\ Called(t)
    /\ UNCHANGED <<step, message, contract, session, buffers, read, blockVars, outcome>>

\* A trap, or an import that nobody provides: its stub is unreachable code.
Trap(t) == Calls(t, {"trap"}) /\ Throw(t)

\* (A slip: the latest transaction goes first.)
AddTransactionInFront(x) == queue' = <<x>> \o queue

\* BlockProducer::addTransaction.
AddTransaction(x) == queue' = Append(queue, x)

\* getSandboxCommandMessage: the model becomes a signed change set of the
\* transaction, and the scope ends; blockMessage queues what comes back.
Finish(t) ==
    /\ step[t] = "running"
    /\ calls[t] = << >>
    /\ LET s == session[Owner(t)]
           sent == Sent[s.message].message
       IN  AddTransaction(AddChangeSet(sent, SignedChangeSet(NodeKey,
                ChangeSet(sent.transactionHash, GetCurrentAccount(sent), sent.currentStatus, s.model))))
    /\ outcome' = [outcome EXCEPT ![message[t]] = "processed"]
    /\ Goes(t, "idle")
    /\ message' = [message EXCEPT ![t] = None]
    /\ EndScope(t)
    /\ read' = [read EXCEPT ![t] = None]
    /\ UNCHANGED <<contract, calls, memory, buffers, taken, chain>>

----------------------------------------------------------------------------
(* The producer's thread.                                                  *)

\* (A slip: the queue is copied, not emptied.)
GetTransactionsCopying ==
    /\ taken = << >>
    /\ queue # << >>
    /\ Len(chain) <= MaxBlocks
    /\ taken' = queue
    /\ UNCHANGED <<runVars, outcome, queue, chain>>

\* getTransactions takes the whole queue.  Blocks of an empty queue, which are
\* made just as well, are left out here: BlockModule has them.
GetTransactions ==
    /\ taken = << >>
    /\ queue # << >>
    /\ Len(chain) <= MaxBlocks
    /\ taken' = queue
    /\ queue' = << >>
    /\ UNCHANGED <<runVars, outcome, chain>>

\* generateBlock: the parent is the last block's hash.
GenerateBlock ==
    /\ taken # << >>
    /\ chain' = Append(chain, SignedBlock(NodeKey, Block(chain[Len(chain)].hash, taken)))
    /\ taken' = << >>
    /\ UNCHANGED <<runVars, outcome, queue>>

Run(t) ==
    \/ GetContract(t) \/ Execute(t)
    \/ WriteCall(t) \/ ReadCall(t) \/ AccountCall(t) \/ OtherCall(t) \/ Trap(t)
    \/ Finish(t)

Next ==
    \/ \E t \in Threads : Run(t) \/ \E m \in Messages : ProcessTransaction(t, m)
    \/ GetTransactions
    \/ GenerateBlock

Spec == Init /\ [][Next]_vars

----------------------------------------------------------------------------
(* What must hold, whatever runs at the same time.                         *)

\* The calls of the contract of m's account in its phase, and the entries they
\* write when it runs alone.
Script(m) ==
    LET c == CHOOSE c \in Contracts[CurrentAccount(m)] : TRUE
    IN  c.start \o EntryCalls(c, StatusOf[m])
WritesOf(m, i) ==
    LET entries == EntriesOf(m, Script(m)[i])
    IN  {[of |-> m, call |-> i, number |-> j, entry |-> entries[j]] : j \in DOMAIN entries}
Writes == UNION {UNION {WritesOf(m, i) : i \in DOMAIN Script(m)} : m \in Messages}

\* Those that give a subject's predicate its objects, and those before one.
Beside(writes, w) == {v \in writes :
    v.of = w.of /\ v.entry[1] = w.entry[1] /\ v.entry[2] = w.entry[2]}
Before(writes, w) == {v \in Beside(writes, w) :
    v.call < w.call \/ (v.call = w.call /\ v.number < w.number)}

\* What each write should have come to: an object and its place in a list.
Expected ==
    {[of |-> w.of, entry |-> w.entry, before |-> Cardinality(Before(Writes, w)),
      all |-> Cardinality(Beside(Writes, w))] : w \in Writes}

\* Everything queued so far, in blocks or not, but for the genesis block.
Queued ==
    Elements(queue) \cup Elements(taken)
        \cup UNION {Elements(chain[i].block.transactions) : i \in 2 .. Len(chain)}

MessageOf(queued) == CHOOSE m \in Messages :
    Sent[m].message.signedTransaction = queued.signedTransaction

(* A processed transaction carries one change set: for the account whose
   contract ran and for its status, with every entry that contract makes, in
   order, and no entry of a contract that ran beside it (the thread local
   session; addModelEntry). *)
EntriesOwn(m, queued) ==
    LET set == queued.changeSet[1].changeSet
        model == set.changes[1]
    IN  /\ Len(queued.changeSet) = 1
        /\ set.accountHash = CurrentAccount(m)
        /\ set.status = StatusOf[m]
        /\ Subjects(model) = {w.entry[1] : w \in {v \in Expected : v.of = m}}
        /\ \A w \in Expected : w.of = m =>
               LET objects == ListObjects(model, w.entry[1], w.entry[2])
               IN  Len(objects) = w.all /\ objects[w.before + 1] = w.entry[3]
OwnEntries == \A queued \in Queued : EntriesOwn(MessageOf(queued), queued)

(* A contract reads what it has itself written under that subject and predicate,
   and otherwise its run fails: there is no value that it did not set
   (RDFMemorySession; booleans come back inverted). *)
ReadsOwn ==
    \A t \in Threads : read[t] # None =>
        \E w \in Writes :
            /\ w.of = message[t]
            /\ w.entry[1] = read[t][1] /\ w.entry[2] = read[t][2]
            /\ read[t][3] = ReadAs(read[t][3].type, w.entry[3].text)

\* A session lives exactly as long as its scope, whichever way a run ends.
SessionsScoped == \A t \in Threads : (session[t] = NoSession) <=> (step[t] # "running")

(* What a contract writes and reads is its own. *)
OwnData == OwnEntries /\ ReadsOwn /\ SessionsScoped

Signed(key, hash, signature) == signature = SignatureOf(key, hash)

\* What clients and the node signed for a transaction.
SealedTransaction(x) ==
    /\ x.transactionHash = HashOf(x.signedTransaction.transaction)
    /\ Signed(Source[MessageOf(x)], x.transactionHash, x.signature)
    /\ \A c \in Elements(x.changeSet) :
           /\ c.changeSet.transactionHash = x.transactionHash
           /\ c.changeSetHash = HashOf(c.changeSet)
           /\ Signed(NodeKey, c.changeSetHash, c.signature)

Sealed ==
    \A i \in 2 .. Len(chain) :
        LET b == chain[i]
        IN  /\ b.block.parent = chain[i - 1].hash
            /\ b.hash = HashOf(b.block) /\ Signed(NodeKey, b.hash, b.signature)
            /\ \A x \in Elements(b.block.transactions) : SealedTransaction(x)

\* Where a processed transaction is: queued, taken for a block, or in one.
Place(j) == CASE j = 0 -> queue [] j = 1 -> taken [] OTHER -> chain[j].block.transactions
Slots == UNION {{<<j, i>> : i \in DOMAIN Place(j)} : j \in 0 .. Len(chain)}
In(slot) == MessageOf(Place(slot[1])[slot[2]])

OnceEach ==
    /\ \A x, y \in Slots : In(x) = In(y) => x = y
    /\ \A m \in Messages : outcome[m] = "processed" <=> \E x \in Slots : In(x) = m

(* Each block names the hash of the one before it and is signed as a whole; what
   it holds is, for each transaction, the very one its client signed and change
   sets that the node signed for that transaction.  Every message processed is
   queued or in a block exactly once, and no other is (getTransactions,
   generateBlock, SignedBlockBuilder). *)
BlocksSealed == Sealed /\ OnceEach

\* What processing m comes to: its client's transaction and its contract's entries.
ComesTo(m, x) == MessageOf(x) = m /\ EntriesOwn(m, x) /\ SealedTransaction(x)

(* However the host calls of contracts, the ends of their runs and the producer
   interleave, each phase is processed as if alone and in one step, the one that
   MessageRouting's ProcessTransaction is: it comes to its own entries or leaves
   nothing, and blocks take what is processed in that order, each once. *)
Serial == INSTANCE SerialProcessing WITH
              Message <- Messages,
              over <- {m \in Messages : outcome[m] \in {"processed", "failed"}},
              waiting <- taken \o queue,
              blocks <- [i \in 1 .. Len(chain) - 1 |-> chain[i + 1].block.transactions]
ImplementsSerial == Serial!Spec

(* The strings a contract is handed lie in its memory, apart from each other and
   from what it began with; and what the host wrote as a length the host reads
   back as that length (allocateMemory, buildTypeScriptString). *)
StringsApart ==
    \A t \in Threads : \A b \in buffers[t] :
        /\ b[1] >= InitialPages * PageBytes
        /\ b[1] + b[2] <= memory[t] * PageBytes
        /\ \A c \in buffers[t] : b[1] < c[1] => b[1] + b[2] <= c[1]
        /\ ReadLength(LengthDigits((b[2] - 4) \div 2)) = (b[2] - 4) \div 2
=============================================================================
