# Avertem: specification, model checking and proofs

This directory holds TLA+ specifications of the Avertem (keto) server: the block
chain it writes, the transactions its databases take part in, the accounts and
graphs it keeps, the way of a message through servers, the contracts it runs, its
RPC and HTTP sessions with their consensus and keys, and the life of the process
that loads all of it as modules. Every definition is a translation of the C++
under `src/src/`; `PROJECT.json` maps each of them to its lines. TLC checks the
specifications on small instances and TLAPS proves the main results for every
value of the constants.

Contents: 1 the system, 2 the modules, 3 runs and bounds, 4 fairness, 5 proofs,
6 what only TLC shows, 7 what the code does that a reader should know, 8 what is
not modelled, 9 what is left, 10 how to run.

## 1. The system

A server is one process that loads fourteen shared libraries, its *modules*, in
the order of a numbered list (event service, test module, transaction, keystore,
account, router, block, sandbox, balancer, RPC server, HTTP server, RPC client,
version manager, consensus), calls `start()` on all of them, then `postStart()`
on all of them, and stops them in reverse. Modules do not link against each
other: they register handlers by name with the event service, and
`triggerEvent`/`processEvent` run a handler synchronously on the caller's thread.
A request therefore is one call chain on one pool thread of the RPC server, the
RPC client or the HTTP server, inside one transaction of the transaction
service. Three threads live on their own: the block producer, the timer
of the consensus module and the version manager's.

### Inventory

| Component (`src/src/`) | State | Operations | Works with | Hard behaviour | What makes it correct |
|---|---|---|---|---|---|
| block database (`libs/block_db`) | RocksDB databases `blocks`, `childs`, `transactions`; the entries PARENT_KEY and BLOCK_COUNT; caches `parentBlock`, `blockCount` | requireGenesis, applyDirtyTransaction, writeBlock, getParentHash, getBlockCount, load | block module, transaction service | three databases committed one after the other; unread commit statuses; caches written before the commit; a double-checked cache without a lock | chain can be walked, no fork, indexes never ahead of blocks, caches equal the database, count equals height |
| block module (`modules/block_module`) | queue of transactions, producer state, per-account locks | start, postStart (genesis), blockMessage, addTransaction, generateBlock, terminate | block and account databases, sandbox, router | producer thread against main and request threads; wait without predicate; exception ends the thread | accepted transactions reach exactly one block or go with the process; stop ends |
| RocksDB wrapper (`libs/rocks_db`) | open databases | open, begin transaction | all stores | row locks with time-out, per-database atomicity | (external) |
| transaction service (`modules/transaction_service`) | a wrapper per thread, the list of enlisted resources | createTransaction, enlist, commit, rollback | every store | commit is a loop over resources and databases; exceptions; thread reuse | nothing durable before commit; committed means whole; threads clean afterwards |
| account database (`libs/account_db`, `libs/account_utils`) | table of accounts, a graph database per master, manager and sessions of graph stores | createAccount, applyTransaction, getAccountInfo, getContract, SPARQL, getNodeAccountRouting | account and block module | graph writes outside the transaction; manager shared without lock; store kept under the wrong name | every account reaches its graph, keeps what was persisted, has an ancestry that ends |
| account module (`modules/account_module`) | none of its own | event handlers over AccountStore | event service | none of its own | hands through |
| router (`modules/router_module`, `libs/router_db`, `libs/router_utils`) | routing table (RocksDB), service registry, peer cache (memory) | routeMessage, registerRpcPeer, updateStateRouteMessage, registerService | account store, balancer, RPC client and server | swallowed failures, a search that does not advance, cache lost at restart | a message has one place, phases once and in order |
| balancer (`modules/balancer_module`) | block accounts, account to block account | balanceMessage, getBlockAccount | router, block module | modulus by the number of block accounts | target fixed per account |
| transaction messages (`libs/transaction_common`, `libs/chain_common`, `libs/chain`) | status of a transaction, operation of a wrapper | incrementStatus, getCurrentAccount, conversions | all of the above | status advanced twice in one call | status and account agree |
| RPC server (`modules/rpc_server`) | sessions, session per account, known peers and their addresses, secret | HELLO, HELLO_CONSENSUS, PEERS, REGISTER, TRANSACTION, CLOSE | router, consensus | writes from other threads, an old session closes after a new one registered, hello answered before the first key | a registered client is called back on a live session, peers are complete |
| RPC client (`modules/rpc_client`) | sessions per host and per account, whether peered | connect, handshake, setPeers, routeTransaction | router, consensus | map filled and read by different threads, no reconnect, closes when told of peers | the handshake ends, a registered client was vouched for |
| RPC protocol (`libs/rpc_protocol`) | none | builders of hello and peer messages | RPC client and server | signature over fields | round trip |
| consensus (`modules/consensus_module`, `libs/software_consensus`) | position in the list of keys, per module a session key and a script | set session key, find and run the script, build and validate lists of hashes, change of the key by a timer | RPC handshake, keystore, all modules' hashes | key changed module by module while handshakes compute; scripts that cannot be opened | same code is told from other code under every key |
| event service (`modules/event_service`, `libs/event_service_api`) | handlers by name | register, deregister, trigger, process | all modules | lookup under the lock, call outside it; deregistration and unloading during dispatch | a handler that is called is loaded |
| server common and module manager (`libs/server_common`, `libs/module_manager`, `programs/server`) | loaded modules, state, signal flag | load, start, postStart, monitor, unload, terminate, reload | operating system | signal handler that locks, failing start, reload of a replaced library | starts and ends are whole, a signal ends the node |
| HTTP server (`modules/http_server`, `libs/http_server_session`) | sessions by client and by hash | hello, transaction, contract, SPARQL, files | transaction service, router, keystore | maps without a lock, reply before commit, restart forgets sessions | who was welcomed is served, what is said to be routed is |
| HTTP client (`libs/http_client_session`) | none | blocking requests | command line programs | server that stops in between | every request ends |
| keystore (`modules/keystore`) | session keys by session hash | request, remove | HTTP sessions | key removed by the destructor of a replaced session | key lives as long as its session |
| version manager (`modules/version_manager`) | a timer thread | run an external script that may replace libraries | module manager | replaced libraries while serving | reload is whole |
| sandbox and WebAssembly (`modules/sandbox`, `libs/wavm_common`) | a session and engine per thread, the memory of a contract | execute action, host functions | block module | thread-local session, memory grown behind the allocator | a contract reads and writes its own |
| cryptography (`libs/crypto`, `libs/key_tools`, Merkle utilities of `libs/block_db`) | none | sign, verify, hash, derive keys, encrypt | all | length of an encoded key against its secret | signed things are the things signed |
| encodings and environment (`libs/asn1`, `common`, `environment`, `obfuscate`, `ssl`) | none | conversions, options, logging | all | none | pure functions |
| command line programs (`programs/cli`, `contract`, `tools`) | none | parse, one session, exit | HTTP client | exit code against what became of the request | "ok" means routed |
| test module (`modules/test_module`) | none | sample, with the consensus service of every module | module manager | none | loads and stops with the others |

How they interact on the path of a transaction: the command line program says
hello to the HTTP server, signs a transaction and posts it; the HTTP or RPC
session creates a transaction of the service and raises ROUTE_MESSAGE; the router
finds the server the account belongs to (itself, an account it stores, a
registered peer, its parent) and, if it is this one, raises BALANCER_MESSAGE; the
balancer names a block account and raises BLOCK_MESSAGE; the block service asks
the account module for the contract and the sandbox to run it, puts the result
into the producer's queue and raises UPDATE_STATUS_ROUTE_MESSSAGE, by which the
router forwards the next phase. All of this is one call chain; then the session's
transaction commits. Up to 20 seconds later the producer thread takes the queue,
applies the change sets to the account database, writes the block and commits
both resources. Between servers, an RPC client opens a connection to its parent,
proves with the software consensus that it runs the same modules, registers, and
carries transactions up.

The hazards of this code are listed in `PROJECT.json`, each at its line with the
properties that would show it going wrong.

## 2. The modules

### Block chain: `BlockChainStore`, `BlockModule`, `BlockChain`, `Ledger`

`BlockChainStore` is the block database. Its durable variables are the three
databases (`blocks`, `childs`, `transactions`) and the two entries of the first,
`parentKey` and `blockCountKey`; its memory is the two caches and, for each
thread, the pending `BlockResource`. `writeBlock` is split where another thread
can be seen between: reading and caching the count, reading and caching the
parent, the Puts and the cache changes, and then one step per database, because
`BlockResource::commit` (BlockResource.cpp 40-48) walks a `std::map` and commits
each RocksDB transaction by itself, ignoring the status. `SilentFailures` names
the databases whose commit may fail unseen. A Put of a key that another thread
holds is not granted (`headPut`, `countPut`).

`BlockModule` adds the two threads: `main` (start, postStart with
`requireGenesis`, the genesis load and its commit, serve, stop with terminate and
join) and `producer` (wait, take the queue, parent hash, apply, write, commit),
requests that add to the queue at any time, and `Crash`, which keeps the durable
variables and clears the rest. Each start finds BLOCK_PRODUCER_ENABLED set or not
(`ProducerEnabled`, the possible answers): without it there is no producer thread
(`isEnabled`), nothing to terminate or join, and addTransaction accepts all the
same. `delivery` is a history variable: what the
sender of a transaction may know.

`Ledger` is the abstract specification: a set of blocks with a parent each and a
tip; one action appends, one founds the chain (again, only while nothing was
built on the first genesis block). `BlockChain` states the properties and the
refinement `ImplementsLedger`, with `parentOf` read from `blocks` and `tip` from
`parentKey`.

### Transactions: `TransactionService`

Each thread's `wrapper` is the thread-local `TransactionWrapper`; `resources` is
the order of enlistment, `opened` the thread-local resources, `pending` the
uncommitted writes. `GetResource`, `Put`, `PutReturns`, `Finish` (commit, or an
exception that rolls back), `CommitDatabase`, `RollbackDatabase`, `ResetResource`
and `ResetWrapper` are the calls in the order the code makes them; the last four
repeat until the wrapper is empty (`Ending`). The managers of the account, block
and router resources have the same code and are elements of one constant.
Graph databases are written at once, as librdf does. A history (`asked`,
`landed`, `outcome`) relates what a transaction's code wrote to what became
durable.

### Accounts and graphs: `AccountStore`

`rows` is the RocksDB table, `pending` the producer's uncommitted rows, `disk`
the graph directories, `graphs` the manager's map from graph names to open
stores, `session` the sessions each thread holds until its transaction ends, and
`content` what each graph database holds. `CreateMaster`, `CreateAccount` and
`ApplyToAccount` are the cases of `AccountStore::applyTransaction`; `Query` is
every handler that reads an account's graph; `Commit`, `EndQueries` and `Restart`
end what they began. A graph is named by `BaseGraph` for a master without parent,
by the account's own hash for a later master, and inherited from the parent
otherwise. The statements about one account are one item; `fresh` and `owed`
remember which accounts' statements a committed block left in the graphs. A master
is created under whatever parent it names, there or not, itself included; `early`
remembers those that were there before their parent.

What is assumed of the environment: the genesis block is applied first and
begins with the top master account, which has no parent (the comment at
AccountStore.cpp 178-179 says so; action guard `Founded`); a refused change set
ends the block (an exception in the producer thread ends the process, in
postStart the server unloads), so a rollback and a restart are one action; only
the producer's thread applies changes. Opening or creating a store is one step:
the manager's unlocked `std::map` makes two at once undefined behaviour, which
the model leaves out (see hazards).

### The path of a message: `MessageRouting`, `TransactionLife`

RouterService, BalancerService and BlockService call each other by events, and an
event runs its handler on the caller's thread: a message is in one call chain on one
thread of one server, and `step` says where. `RouteLocal`, `RouteToAccount`,
`RouteToRpcClient` and `RouteToRpcPeer` are the ways out of `routeMessage`;
`BalanceMessage` and `BalanceNowhere` those of the balancer; `BlockMessage`,
`ProcessTransaction` and `AddTransaction` the three parts of `blockMessage` that the
account lock separates; `UpdateStatus` is `updateStateRouteMessage`. `account`,
`operation` and `status` are the fields of the wrapper and its transaction, `routes`
the routing table of each server, `peers` its peer cache. `RegisterRpcPeer` changes
the cache at once, `CommitRegistration` the table when the session's transaction
commits. A chain that looks a route up which leads to no peer takes no step until one
is there (`Stray`: RouterService.cpp 118 looks again). The chain returns without doing
anything more, so replies are part of the actions that decide them (`Answered`).

A routed message to a child server is lost (section 7) and ends there. To the
default peer it arrives, or what fails is swallowed. Histories: `phases`, the
phases of each message that were queued, and `processed`, the order in which
contracts ran on a server. A contract is external and may throw; the accounts a
server knows do not change here (`AccountStore` is about those); the queue is
shown as it is filled, and `BlockModule` is about how it is emptied.

`TransactionLife` is the abstract specification: a message's phases are queued
once each, debit before credit. `MessageRouting` implements it with `phases`
mapped to itself, whatever servers the message passes.

The sessions that carry a message to the router are in `RpcSessions` and
`HttpSessions`, where what the router does with it is left open.

### The process and its modules: `ModuleScripts`, `ModuleManager`

`ModuleScripts` holds, for each of the fourteen libraries, what its `start`,
`postStart` and `stop` do, in order: making and ending singletons (`init`, `fin`),
registering handlers, starting, halting and joining threads, events they raise;
and the handlers each registers with the service behind it and the events that
service raises in turn. To `ModuleManager` these scripts are CONSTANTS, with the
assumptions every module manager of the code meets (`ScriptsAssumption`: start makes,
postStart uses, stop takes back, threads are halted before they are joined, handlers
are registered once; `HandlersAssumption`: an event has one handler, in a module that
makes its service; `OrderAssumption`: a module is loaded after those its postStart,
and a thread that catches nothing, cannot do without); `MCModuleManager` takes them from
`ModuleScripts`, so that TLC checks the assumptions of the code's own scripts.
`ModuleManager` runs them: the main thread loads, starts,
announces, watches, reloads a replaced library and unloads (`phase`, `at`); the
signal handler may come at any step (`state`); each module's thread makes calls
that nest (`calls`, a stack of frames). A frame is *found* between the lookup of
its handler under the lock of the event service and the use of the service's
singleton outside it. A thread that meets a null singleton or unloaded code ends
the process (`crash`). A start may throw where the code may (`MayThrow`); what the
unwinding does then is section 7. Replacing a library (`Replace`) is what the
version manager's external script does.

### Consensus and RPC: `ConsensusScripts`, `SoftwareConsensus`, `RpcSessions`

`ConsensusScripts` are pure operators: how `keto_tools` and the build scripts make
the encrypted consensus scripts of a module, and whether a session key opens one
(`Opening`; what is read behind a short secret is a nondeterministic choice).
`SoftwareConsensus` is each server's generators: a thread sets a key module by
module (`SetSessionKey`, then `SetSessionScript`), builds a list of hashes or
validates one, and another thread may be between any two of these steps. A server
may run altered code (`MayAlter`).

`RpcSessions` composes it with the two ends of connections. Each connection has a
strand at either end; `ClientStep` and `ServerStep` are the handlers of one
message each, and between reading and answering a strand computes hashes. `sessions`
is the server's AccountSessionCache, `mapping` and `peerCache` its other maps; a
route from the router's thread finds a session (`RouteFound`) and writes later
(`RouteWrite`). Connections are lost at any time and are never dialled again,
since nothing in the code does. `Process` and `Rearm` are the timer that changes
the session key. `story` remembers what a handshake claimed and was answered, and
which other sessions of the account the server had not seen closed when it registered
(`beside`). That a transaction before the hello, or a route whose session closed, ends
the process is in the model (`CommandBeforeHello`, `RouteToNobody`) and forbidden by
no property.

### HTTP: `HttpSessions`

The programs (`MakeRequest`, `ReadResponse`) and the server's sessions (`Serve`
and the steps of its handlers), at most `HttpThreads` of which run at a time.
`clientHashMap`, `clientSessionMap` and the keystore's `sessionKeys` are the three
maps; an insert that another handler's use meets is `raced`. The server stops,
dies and is started again; its sessions go with it. A transaction that
`MessageRouting` begins with `Send` is `routed` here.

### Contracts: `ContractData`, `SignedData`, `ContractExecution`, `SerialProcessing`

`MessageRouting.ProcessTransaction` in detail. `ContractData` is the RDF model of a
change set and the typed reads of it, `SignedData` the records a client, a node and a
block are made of, each with its hash and signature, and the Merkle root.
`ContractExecution` cuts a contract at each host call: `session` is the thread-local
session, `memory` the pages of its memory, `buffers` the strings handed to it, `read`
its last read. Outside a run the session is `NoSession`: the thread-local pointer is
null. The host hands a string over behind the end of the memory, whole pages on; where
these are more bytes than an `int` counts (`IntLimit`), growMemory fails, which
allocateMemory does not look at, and writing the string throws (`Full`). Contracts are
data of the instance (what each export calls). What a contract's entries add up to is
said without following the calls: `Writes` are all the entries that the script of a
message makes, each with the call it comes from, and `Expected` gives each the number
of those on the same subject and predicate before it and in all; OwnData compares the
models with that. `GetTransactions` and `GenerateBlock` are the producer's, beside
them.

`SerialProcessing` is the abstract specification: a phase is processed in one step,
`Process`, to something that `ComesTo` allows, or `Fail`s and leaves nothing, once;
`MakeBlock` takes the first of what waits. `ContractExecution` implements it with
`waiting <- taken \o queue`, the blocks after the genesis block for `blocks`, the
messages that were processed or failed for `over`, and a `ComesTo` that says whose
transaction it is, what is signed, and which entries it has: each host call is a
stutter, the end of a run is the step, and taking the queue is a stutter too.

## 3. Runs and bounds

| Run | Instance | What it shows | States |
|---|---|---|---|
| `chain` | 4 blocks, 2 transactions with one hash, a start that fits in the producer's first wait, crashes anywhere | the chain can be walked (ChainIntact); no fork, count, indexes and caches agree (StoreAgrees); the refinement of `Ledger`; stop completes and what is accepted reaches a block or goes with the process (ProducerProgress); each start with a producer or without | 0.61 M |
| `races_and_failures` | 3 blocks, 2 transactions, the producer may wake during postStart, commits of `childs` and `transactions` may fail unseen, the genesis file may be missing | the indexes still follow the blocks, no accepted transaction is lost and none is written twice | 4.2 M |
| `transactions` | 2 threads, 2 transactions that write the same rows, two resources with two databases each (one a graph), commits of one may fail, crashes | clean threads, nothing durable before the commit, whole commits and ordered remains of a crash; every transaction ends, deadlocked lock waits included | 0.29 M |
| `accounts` | 3 accounts, one may be a later master under any parent, one reader, restarts | graphs exist, follow the parent and are a master's (GraphsSound); later masters' graphs keep what was committed; routing ends unless a master was created before its parent; accounts are permanent | 0.30 M |
| `later_masters` | expects a violation | with a later master the base graph's accounts lose theirs (section 7) | |
| `routing` | a chain of three servers, two messages of one account that may be sent to either of two, registrations, stops and deaths, the top server without block accounts | phases once and in order, queues in the order of the contracts, truthful replies | 0.26 M |
| `routing_live` | two servers that stay up, three messages: to an account the parent can route, from a child server to itself, and from an account below another, each sent to either server | every request ends but those whose route the router looks up for ever (`Stray`) | 0.16 M |
| `forwarding` | expects a violation | the credit lacks what the debit's contract left (section 7) | |
| `modules` | all fourteen libraries, two that may throw, one that is replaced, a signal at any step, one thread at a time in calls three deep | code that runs is loaded, only services of later modules are ever missed, starts and ends are whole, a signal is answered | 0.16 M |
| `rpc` | a client's connection and the one it makes for the peer it is told of, either lost at any time, two session keys and two changes of the key, altered code, key files of both lengths | registered clients run the same code and genuine ones are kept (Vouched), a registered client is called back on its session or a later one (SessionsServed), peers are complete, handshakes end | 0.19 M |
| `http` | two programs of one key, two server threads, a stop or death and a second start | who was welcomed is served, what is told routed was, every program ends | 0.41 M |
| `contracts` | seven phases on two threads, five contracts (one writes and reads back, one traps, one does not load, one has no entry for its status, an account with two), a producer | a contract reads and writes its own, its strings lie apart, blocks are sealed and hold each phase once; all as if phases were processed one by one (the refinement of `SerialProcessing`) | 0.26 M |

Bounds and why they are enough. `Block` has room for a genesis block that is lost to a
crash, its successor, and two more: an interrupted genesis, a block on it, and a crash
in the commit of the next one all occur. Two transactions share one hash (two phases
of one transaction do), which is what the `transactions` index can confuse. `MaxCount`
only stops new blocks, and ProducerProgress excuses a full instance. The transaction
service is symmetric in threads and transactions, and one transaction affects another
only through a row and through the thread it ran on: two of each give reuse of a
thread, contention and a crossed wait. The account model is finite without a bound;
three accounts are a founding master, a later master and an account of either, or a
chain of three; the instances without a later master are left to the theorems of
section 5. `ProducerEnabled` has both answers, so a server may come back with a
producer or without. In the routing model messages meet only at an account lock, a
queue and the tables, so two of one account suffice; three servers give a middle one
with a child and a parent. `MayCrash` turns stops and deaths off for the liveness run.
In the module model two calls at once meet only through what they find gone, which one
call against the main thread shows; with three frames a handler is found at the bottom
of a chain, between two others and on top (the longest chains of the code, a message
through router, balancer and block, are two frames deeper). In the RPC model two
connections of one client are what its cache by account can confuse; two changes of
the key move every generator away from and between keys, but do not go round the list
of keys (`currentPos` never wraps). `MaxRoutes = 1` is one route down or up at a time.
A string of `MaxText` (32768) characters needs three digits of its length and more
than a page of memory. `IntLimit` is six pages where an `int` counts 32768, and
`Growth` lets a contract grow its memory by five at once: the memory is then full for
the next string.

`CHECK_DEADLOCK FALSE` stands where the system really comes to rest: all
transactions, messages or programs are over (`transactions`, `routing`,
`routing_live`, `forwarding`, `http`, `contracts`), the process has ended
(`modules`), or connections that nothing dials again are closed (`rpc`).

`StartupRace = FALSE` in `chain` is an assumption about time, not a guard of the
code: the producer's first `wait_for` lasts 20 seconds and postStart is taken to
finish in them. `races_and_failures` drops it; then ChainIntact and StoreAgrees are
violated, because the producer may write a block between requireGenesis and the
genesis commit.

## 4. Fairness

- `BlockModule`: weak fairness of the main thread's and the producer's steps.
  Both are threads of the process, every lock they take is held for a bounded
  time, and `wait_for` returns after at most 20 seconds; a server without a
producer has only the first. No fairness of
  requests, of stopping or of crashes.
- `TransactionService`: weak fairness of each thread's handler reaching its end,
  of a blocked Put returning (RocksDB's lock time-out) and of each step of the
  commit and rollback loops. No fairness of Puts being granted.
- `MessageRouting`: weak fairness of each message's chain (a thread is scheduled,
  contracts end, a freed lock goes to a waiting thread: with weak fairness one
  waiter is not passed over for ever, since each message takes each lock at most
  twice) and of the commit of a registration. No fairness of requests,
  registrations or deaths.
- `ModuleManager`: weak fairness of the main thread and of each module's thread
  going on with the call it is in. No fairness of new calls, replacements or the
  signal.
- `RpcSessions`: weak fairness of the timer (it fires and is armed again), of a
  thread that computes, of each strand with a message to read or an answer to
  write, and of a route that has found its session. No fairness of connecting,
  losing a connection or asking for a route.
- `HttpSessions`: weak fairness of a program's blocking request and of its reading
  of the response, of a session that has a thread, and of a server that stops
  coming to its end. No fairness of starting a program or the server.
- `AccountStore` and `ContractExecution` are checked for safety only.

## 5. Proofs

Eight modules hold the proofs: 33 theorems and 361 lemmas. Every invariant that a passing run checks is
the conclusion of a theorem; where the theorem has a hypothesis, it is named below.
The proofs hold for every number of blocks, transactions, threads, databases,
accounts, servers and messages. Constants are bound by the named assumptions of
the modules that declare them, which TLC evaluates in the runs; a theorem that
needs more says so in its statement.

- `BlockChainProofs`. `TypeInv` is TypeOK with `Placed`, which ties a thread's
  open resource to the place its code is at; without it no fact about the
  pending writes is inductive. `StoreInv` adds `Unshared` (two threads never
  pend the same block), `Written` (between the commits, `blocks` holds exactly
  what the thread wrote) and `Carried` (the producer's resource holds exactly
  what it took). Results: `TypeCorrect`, `IndexesCorrect` (IndexesFollowBlocks),
  `OnceCorrect` (EachMessageOnce) with no assumption on failures or races, and
  `NothingLost` (NoAcceptedLost) when commits of `blocks` do not fail.
  `ChainInv` adds `OneWriter`, ChainIntact, NoFork and CachesMatchStore:
  `ChainCorrect`, assuming `~StartupRace` and `"blocks" \notin SilentFailures`.
  `LedgerInv` adds `Founded`; `LedgerCorrect` proves that every step of the
  detailed specification is a step or a stutter of `Ledger`, assuming also that
  no commit fails and the genesis file is always there. `StoreCorrect` (StoreAgrees)
  holds under the same three assumptions. CountIsHeight is not inductive: a count is
  read, cached, written and committed at four places, so `Counted` says what every
  cached, carried and pending count is worth (the number of blocks that are stored,
  or one more for the writer after its Put), by cardinalities of a set that grows by one
  block at a time; `ChildIndexed` says the same of the index of childs between
  the commits, from which IndexedUnlessTorn follows.
- `TransactionServiceProofs`. `ServiceInv` = TypeOK, `Bound` (a thread is in a
  transaction exactly when the transaction is open), `Clean` (it holds only what
  it enlisted) and NothingBeforeCommit: `ServiceCorrect` (TypeOK, ThreadsClean,
  NothingBeforeCommit), under any contention and any failed commit. `WholeInv`
  adds `Kept`, `Once` (a resource is enlisted once) and the two parts of Atomic
  (`AllLanded`, `LandedInOrder`): `AtomicCorrect`, under any contention and any failed
  commit. `Kept` follows every write from the Put to its end: it is durable, held by the
  thread, waited for, or `Excused`, that is, refused where it may be refused. A Put
  refused after the lock's second is one because the holder of its row asked for it too,
  and what a transaction asked for it never takes back. `Excused` is empty when the
  system is `Calm` (rows apart, no failed commits), so the same invariant gives
  `CalmLosesNothing`: then what is committed is all that was asked for, and a crash
  leaves a beginning of it.
- `AccountStoreProofs`. `AccountInv`: types, rows committed once, a directory for
  every graph a row names, accounts in their parents' graphs under a master,
  named stores under their own names: `AccountsCorrect` (NamedGraphsKeep and the
  parts of GraphsSound, whatever parents are named). `AncestryInv` adds that an account
  which was not created before its parent has it in the database for good
  (`ParentsPresent`): such accounts among themselves form no circle, so
  `RoutingCorrect` (RoutingEndsUnlessEarly) holds with no assumption on what is named.
  `AccountsStay` is the action property AccountsPermanent. `OneGraph`:
  `OneGraphKeeps` (GraphsKeep), assuming `LaterMaster = {}`: the property that run
  `later_masters` violates holds exactly where there are none.
- `MessageRoutingProofs`, for every tree of servers and with stops and deaths.
  `TypeCorrect` needs `Registers` (only servers with a default peer register).
  `LifeAt` ties what was queued of a message to its step and status (`Due`: what
  is queued before a status is reached) and is inductive with the types:
  `RepliesCorrect` (RepliesHonest) follows, and `LifeCorrect` proves that every
  step is a step or a stutter of `TransactionLife`. `OrderInv` says that a message
  whose contract ran but which is not queued yet ran after all queued ones of its
  account (`WaitingRanLast`) and that two held locks differ (`LocksApart`):
  `OrderCorrect` (QueueInProcessingOrder).
- `HttpSessionsProofs`, for any number of programs, keys, threads and starts.
  `RoutedInv` follows each program's `Story` through both ends of its connection:
  a handler works on what it was asked for, whatever tells of a session or was
  reached through one belongs to a program that signs with a known key
  (`OnlyKnown`), and a program that waits has the connection to itself, so the
  success it reads is the answer to what it asks (`Waiting`, `Told`).
  `RoutedCorrect` (Routed) needs no assumption on restarts: a session hash kept
  from an earlier process was given to a known key as well. `Kept` ties the
  two maps: the map by hash files each session under its own hash with its key
  in the keystore (`Filed`), holds what the map by client holds (`Shared`), and what
  is about to be inserted is new to both (`Fresh`, by the number in the hash), so
  an insert that does not race leaves nobody without a map: `WelcomedCorrect`
  (WelcomedServed). `TypesCorrect` (TypeOK) bounds the sessions by a count: a program
  says hello once in its life, so each session of the two maps and of the keystore, and
  each that a handler is about to store, stands for a program of its own that did
  (`Counted`), across restarts, which clear the maps but not the programs. It needs
  the assumptions that there are finitely many programs and that a server is started at all.
- `ContractExecutionProofs`, for any number of threads, messages and contracts,
  whatever host calls these make. `StringInv` says of each thread that its strings
  lie in its memory, apart, with one of the two lengths the host hands over:
  `StringsCorrect` (StringsApart), assuming `MaxText < 1000000`, since four digits to
  the base 100 are written and three are read. `SealInv`: a thread at work has a
  message to itself that is taken and not yet processed, and its session is that
  message's (`Busy`); all that is queued, taken or in a block is `Made` of a message
  (`AllMade`); blocks name the one before (`Linked`); the slots of queue, producer and
  blocks and the processed messages are one to one (OnceEach). Taking the queue and
  making a block only rename slots (lemma `Moved`): `BlocksCorrect` (BlocksSealed).
  `TypeInv` ties a thread's session, memory and message to its place (`Placed`), on every
  way out of a run, traps and throws included: `RunsTyped` (TypeOK). `OwnInv` follows a
  run through its script: after n calls its model holds exactly the entries of the first
  n calls, each at its place among those of the same subject and predicate (`Holds`,
  `Done`), and what it can read back are among these (`RunAt`). A call makes up to five
  entries, and each is one step (lemmas `EntryAdded`, `ModelSteps`). At the end n is the
  whole script: `OwnCorrect` (OwnData). What an export calls is assumed to be a sequence.
  `SerialCorrect` proves the refinement of `SerialProcessing` from `SealInv` and `OwnInv`:
  a thread's message is taken and not over until its run ends or throws (`Busy`), what it
  then queues comes last of all that waits (lemma `Longer`) and is its own by the invariant
  after the step, and a block is cut off the front of what waits (lemma `Cut`). TypeOK of
  this module is proved and in no run; `contracts` checks the refinement in its place.
- `ModuleManagerProofs`, for any libraries, scripts, handlers and calls that meet the
  assumptions of section 2, any depth of calls and any number of them. `ModulesInv`
  adds to the properties, while the process lives, where the main thread is in the order
  of loading and what the manager's maps hold there (`Places`), which threads may still
  be at work (`Workers`), that an uncaught thread is one call deep (`Stacks`), which
  handlers are in the directory (`Directory`, with `Announces`: has the register step of
  this module been taken) and which singletons exist (`Services`). That a service which is
  missed belongs to a later module needs all five: a handler found has its module
  before the place `Reached`, and all before it are made. Results:
  `NodeTyped` (TypeOK), `CodeCorrect` (CallsFindCode), `LoadsCorrect` (LoadsWhole).
- `RpcSessionsProofs`, for any number of connections, servers, modules, keys and
  routes. `Inv` is one invariant of each connection, `Talk(c)`, beside the types
  and the timer. The handshake has one turn (`Turn`): a message of it is under way
  to one end, or one end is busy, never both, and after the verdict nothing of it is
  left; only that makes it true that the verdict is about what was last claimed
  (`Claimed`: what is still to be struck off and what is the server's own make up the
  claim) and that nothing but a transaction is sent before the hello (`NoHello`).
  REGISTER is nowhere before ACCEPTED (`Unanswered`). `Strikes`: while nothing disturbs
  a validation the timer rests and every module has its script, so each hash of the
  same code goes when its module is reached (`Rest`); no other thread moves the
  server's scripts (lemma `Still`), which is why `StrandsAssumption` names all threads.
  Results: `TypesCorrect` (TypeOK), `VouchedCorrect` (Vouched), `PeersCorrect`
  (PeersComplete) and `ServedCorrect` (SessionsServed), however many sessions setPeers
  made: `Kept` excuses only a session of the account that the server had not seen closed
  when this one registered, is closed, and either was seen closed since or could be the
  one a route found closed (`TakenBeside`). The seed is assumed
  to be the last generator, as it is in CONSENSUS_SESSION_ORDER (Constants.cpp 38-52).

## 6. What only TLC shows

- **Liveness**: ProducerProgress, TransactionsEnd, RequestsEnd, SignalAnswered,
  HandshakesEnd and ProgramsEnd. They rest on fairness, and the prover handles neither
  WF_ nor ENABLED.
- **The violations** of runs `later_masters` and `forwarding` are TLC's counterexamples.
- **What lies outside a theorem's hypothesis**: NoAcceptedLost
  where a commit of `blocks` fails, and StoreAgrees
  and the refinement of `Ledger` under a race at the start, failing commits or a missing
  genesis file, are violated and not claimed (sections 3 and 7).
- **Recursion**: the Merkle root and what else the functions compute by induction over
  data; the theorems treat them as some function of their arguments.

## 7. What the code does that a reader should know

### Block chain, transactions, accounts, routing

- **A later master takes the base graph's store** (finding, run
  `later_masters`). `AccountGraphStoreManager::createStore` (66) and
  `operator[]` (47) file every store they open under `Constants::BASE_GRAPH`,
  whatever its name. Once a later master is created, sessions on the base graph
  read and write the later master's database until a restart; which database that
  is depends on what any thread opened last, so replicas may differ.
- **The processed transaction is not what is forwarded** (finding, run
  `forwarding`). `BlockService::blockMessage` copies the wrapper out of its helper
  (109) before it puts the processed transaction back (110): the credit is
  processed without what the debit's contract left in the transaction.
- **Status is advanced twice in one call** (RouterService.cpp 169-171): init goes
  to credit, credit to complete; there is no fee phase and its account is never
  set.
- **A credit for an account that a server only stores** is dropped while the
  router answers "found": `routeToAccount` (285) balances a credit only in
  operation ROUTE, which nothing sets.
- **The search for a route does not move** (RouterService.cpp 118): it looks the
  same account up until its manager is a registered peer. It spins for the
  account of a child server itself (its manager is empty), for accounts two or
  more levels below it, and after a restart, which empties the peer cache while
  the children never register again. With both servers up, `RequestsEnd` says which
  requests it spins for, those of the first two kinds, and that all others end.
- **No peer is ever a server**: `routeToRpcClient` (RouterService.cpp 319-322) does
  nothing for one, but nothing calls `setServer` (RpcPeerHelper.cpp 73).
- **A message routed down is lost**: without a session the exception is swallowed
  (RouterService.cpp 312), with one the session writes its own empty buffer
  (RpcServer.cpp 327). The client is told "routed".
- **A server without block accounts dies of its first message**:
  `getBlockAccount` takes a modulus by zero (BlockRouting.cpp 73).
- **A failure in a later phase** is reported to the client as an error although
  the debit is queued; a client that sends again is debited again.
- **A crash inside a commit** leaves a block that the indexes do not name, and,
  between resources, accounts without their block or a block without its
  accounts. Which of the two depends on the order of enlistment: after a start
  the producer reads the parent hash from the database and enlists the block
  resource first, later the hash is cached and the account resource comes first.
- **requireGenesis looks only at `childs`**: after a crash between the commits of
  `blocks` and `childs` the genesis block is stored a second time. NoFork and
  `Ledger` allow it exactly while nothing has been built on it. If an index
  commit of the genesis block fails unseen, the genesis block is loaded over a
  live chain on the next start: StoreAgrees and the refinement are then
  violated, which is why `races_and_failures` does not list them.
- **A lost commit of `blocks`** breaks all but EachMessageOnce: the caches go on
  from a block that is not stored.
- **The graph databases have no transactions** (AccountGraphSession.cpp 27-28
  says it is still to do): a rolled back request keeps what it wrote there.
- **A master that names a parent that is not there** is accepted, itself included.
  It may so become its own ancestor, and then `buildNodeAccountRouting` does not
  return; RoutingEndsUnlessEarly says that it takes such a master. MasterReached holds
  whatever is named.
- **A server without a producer accepts transactions**: BLOCK_PRODUCER_ENABLED is
  off unless it is "true" (BlockProducer.cpp 61, 78-82), the thread is then neither
  launched (90) nor joined (101), but addTransaction (125-131) queues as ever, and the
  queue goes with the process. ProducerProgress says that what a server with a producer
  accepts reaches a block, and names the other case.
- **The HTTP session sends its reply before the commit** (HttpdServer.cpp
  176-179), the RPC session after.

### The process

- **A start that throws** is followed by `stop()` of the same module
  ("attempt to clear up", ModuleManager.cpp 259-261), which dereferences
  singletons the start never made (BlockProducer.cpp 101, VersionProcessor.cpp 84,
  RpcServerModuleManager.cpp 73, RpcClientModuleManager.cpp 73, HttpdServer.cpp
  617): the process dies where it meant to go on (`MainFaults`).
- **Handlers left behind**: the router never deregisters its REGISTER_RPC_PEER
  handler, the event service leaves its own. A reload registers over them.
- **A signal inside the lock hangs**: the handler takes the mutex the interrupted
  thread holds (`phase = "stuck"`); SignalAnswered allows it and nothing else.
- **Services of later modules are missed** by threads that started before them
  or are stopped after them (the RPC server's threads run before RpcServerService
  exists): the process dies of a null pointer. CallsFindCode says this never
  happens with a module loaded earlier.

### RPC and consensus

- **Call backs**: on_read's close branch (RpcServer.cpp 225-233) removes the
  account's entry whichever session it names, although "add this session for call
  backs" (452) may have put a newer one there. A
  route whose write fails does the same (on_outBoundWrite, 351), which matters when a
  client has registered twice. SessionsServed excuses exactly these two,
  of a session the server had still to see closed; once it has seen one close, as after
  PEERS, that takes nothing from a later registration.
- **Keys longer than the secret**: 38 of the 336 key files have an encoded key that
  is a byte longer than its secret; the exclusive or (KeyPairCreator.cpp 42) reads
  behind it, and the script may not open. A genuine client is then sent away, or
  the seed cannot be made and neither end writes again. Vouched excuses a
  handshake that a change of the key overlapped or whose server has a module that
  has not opened its script; HandshakesEnd asks for a secret that opens the seed's.
- **All consensus scripts are one line**, `generateHash(getModuleSignature());`,
  and the files key_N.json of all modules share the secret of N.
- **A partial list of hashes is valid**, the empty one too: validateConsensus
  only asks whether a hash is left that was not its own.
- **The server sends its key only in answer to HELLO**. A hello answered before the
  first key was set has none, and the handshake stalls.
- **Transactions from server to client never arrive**: routeTransaction
  (RpcServer.cpp 327) writes the session's empty `buffer_` rather than the message,
  so the client's handler for TRANSACTION is never reached.
- **A route to an account without a session** inserts a null session
  (RpcServer.cpp 129, 737) and uses it: the process dies (`RouteToNobody`). So does
  any command before HELLO (286, `CommandBeforeHello`).
- **The default peer is the first of `sessionMap`** (RpcSessionManager.cpp 126-131),
  closed or not: a message is lost while the reply says "to peer". Clients never
  reconnect; CLOSE is sent by nobody.

### HTTP

- **HTTP_THREADS is 1** unless configured (Constants.hpp 44); with more the maps
  `clientHashMap` and `clientSessionMap` have no lock, and WelcomedServed claims
  nothing once an insert has raced.
- **A client has one session**: a later hello is welcomed with the hash of the
  first. Two hellos that overlap each make one; both stay valid unless their
  inserts race, and then one that no map holds takes its key along, though its
  client was welcomed. Sessions do not expire.
- **A request on a kept connection** is read into the same `req_`, which is not
  cleared (HttpRequestManager.cpp 75-77). The repository's own programs send one
  request a connection.
- **The reply is handed to the socket before the commit** (HttpdServer.cpp 176);
  if the commit then threw, a second write would be started.

### Contracts and blocks

- **A value that is set again** stays beside the first one in the session's model,
  and a read takes the one the library lists first; **booleans come back inverted** (`compare` is 0 for equal
  strings). ReadsOwn states what the code does.
- **getRequestFloatValue** is exported as "getResponseFloatValue" and truncates.
- **A phase of status complete** never reaches the block service; the engine would
  call an uninitialised function for it (WavmEngineWrapper.cpp 215).
- **addDateTimeModelEntry formats an uninitialised time** (WavmSession.cpp 303-307).
- **The memory object of the C library** is a static of the first contract
  (Emscripten.cpp 640), and allocateMemory grows the memory behind `sbrk`, whose next
  call then fails ("Ensure that nothing else is calling growMemory", 98): contracts
  that use both are outside the model.
- **Lengths of TypeScript literals** of 128 and more are misread as signed bytes.
- **The Merkle root** hashes the left child twice (MerkleUtils.cpp 74-75, and
  SoftwareMerkelUtils the same): it depends on the parent and the number of leaves.
  The block's own hash and signature cover the whole block, and BlocksSealed rests
  on these.
- **ChangeSetHelper** (`libs/asn1`) appends `ANY_t` where the sequence holds
  ChangeData; the node does not use it.

## 8. What is not modelled

Each component of `PROJECT.json` says what is missing. In short:

- **Conversions**: ASN.1, JSON, protobuf and URL parsing, StringUtils, NumberHelper,
  base64 and hex, the RDF classes beyond subject, predicate and typed value, SPARQL
  itself, the forms of key files, options and log files. They keep no state;
  messages and rows are records of what decides how they are handled.
- **External libraries**: RocksDB, librdf, Botan, WAVM (wavm.cpp, the Emscripten C
  stubs, its garbage collection while other contracts run), ChaiScript, beast and
  TLS, as far as the code's use of them does not show.
- **Boilerplate**: headers, getters, names, versions and lists of modules and event
  tables, constructors that copy fields, obfuscation templates. They are about half
  of the lines of the repository, and the map leaves them out on purpose.
- **Undefined behaviour of unlocked maps** (AccountGraphStoreManager,
  RpcSessionManager; in HttpSessionManager a race is seen, not what follows).
- **Power loss**: the default WriteOptions do not sync, so three logs may be cut at
  three places; the crash here is the death of the process. Reads inside a
  transaction and lost updates of read-committed data.
- **Services that other servers register** with the router, and setBlockAccounts of
  the balancer, which nothing calls.
- **Tools**: decrypting and printing of `keto_tools`, the contract encoder.
- After a restart a server's peer cache is empty while its routes persist
  (PeerCache.cpp 47): `routing_live` is about servers that stay up.

## 9. What is left

1. `BlockModule`'s queue as that of MessageRouting, whose servers lose theirs when they die.
2. Larger instances of `rpc`: a second client, and keys that go round.
3. A model of three write-ahead logs for power loss.

## 10. How to run

`tlc -config <cfg> <MC module>` for a run of section 3 (the pairs are in
`PROJECT.json`; the slowest, `rpc` and `contracts`, take about a minute and a half),
`tlapm <module>Proofs.tla` for a proof module, both in this directory.
