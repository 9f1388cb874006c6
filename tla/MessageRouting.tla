--------------------------- MODULE MessageRouting ---------------------------
(***************************************************************************)
(* The path of a transaction through a tree of servers: RouterService,     *)
(* BalancerService and BlockService, which call each other by events.      *)
(* An event runs its handler on the caller's thread, so each message is in *)
(* one call chain on one thread of one server: route, balance, block, and, *)
(* with its status advanced, route again, until a handler does nothing     *)
(* more or the message is written to the connection to the parent server,  *)
(* where an RPC thread begins a chain of its own.                          *)
(*                                                                         *)
(* A chain is cut where another thread can come between: the account lock  *)
(* of the block service, the producer's queue, the peer cache and the      *)
(* routing table that registering children fill.  Contracts, connections   *)
(* and the account database are external: a contract may throw, a write to *)
(* a connection may fail after the handler returned, and the accounts a    *)
(* server knows do not change here.                                        *)
(***************************************************************************)
EXTENDS Integers, Sequences, FiniteSets

CONSTANTS
    Node,           \* servers; a server has the account it is named after
    Account,        \* account hashes
    NoAccount,      \* an empty management account; no parent
    NoRoute,        \* no entry in the routing table
    NoNode,         \* no default peer
    Message,        \* the transactions clients send
    source,         \* the account each is debited from
    target,         \* the account each is credited to
    Entry,          \* bound: the servers each is sent to
    Upstream,       \* the default peer of each server
    Known,          \* the accounts in each server's account database
    Parent,         \* the parent of each account
    BlockNode,      \* the servers configured as default-block
    MayCrash        \* bound: may a server stop or die, and be started again?

ASSUME RoutingAssumption ==
    /\ Node \subseteq Account
    /\ NoAccount \notin Account
    /\ NoRoute \notin Account \cup {NoAccount}
    /\ NoNode \notin Node
    /\ source \in [Message -> Account]
    /\ target \in [Message -> Account]
    /\ Entry \in [Message -> SUBSET Node]
    /\ Upstream \in [Node -> Node \cup {NoNode}]
    /\ \A n \in Node : Upstream[n] # n
    /\ Known \in [Node -> SUBSET Account]
    /\ Parent \in [Account -> Account \cup {NoAccount}]
    /\ BlockNode \subseteq Node
    /\ MayCrash \in BOOLEAN

VARIABLES
    step,           \* where each message is in its chain
    at,             \* the server it is on
    account,        \* MessageWrapper::account_hash
    operation,      \* MessageWrapper::message_operation
    status,         \* the status of its transaction
    results,        \* phases whose contract results the transaction carries
    answer,         \* what the outermost routeMessage will return
    reply,          \* what the client was told
    queue,          \* BlockProducer::transactions of each server, as filled
    processed,      \* history: the order in which contracts ran on each server
    phases,         \* history: the phases of each message that were queued
    routes,         \* RouterStore of each server: managing accounts
    peers,          \* PeerCache::entries of each server
    registered      \* how far each server is with its default peer

chainVars == <<step, at, account, operation, status, results, answer>>
queueVars == <<queue, processed, phases>>
peerVars == <<routes, peers, registered>>
vars == <<chainVars, reply, queueVars, peerVars>>

Status == {"init", "debit", "processing", "credit", "fee", "complete"}
Operation == {"INIT", "ROUTE", "BALANCE", "BLOCK"}
Step == {"new", "route", "balance", "block", "locked", "processed", "update", "wire", "over"}
Registration == {"fresh", "adding", "accepted", "done"}
Answer == {"local", "found", "routed", "to peer"}
Entries == [message : Message, status : Status, results : SUBSET Status]

TypeOK ==
    /\ step \in [Message -> Step]
    /\ at \in [Message -> Node \cup {NoNode}]
    /\ account \in [Message -> Account]
    /\ operation \in [Message -> Operation]
    /\ status \in [Message -> Status]
    /\ results \in [Message -> SUBSET Status]
    /\ answer \in [Message -> Answer \cup {"none"}]
    /\ reply \in [Message -> Answer \cup {"none", "error"}]
    /\ queue \in [Node -> Seq(Entries)]
    /\ processed \in [Node -> Seq(Message \X Status)]
    /\ phases \in [Message -> Seq(Status)]
    /\ routes \in [Node -> [Account -> Account \cup {NoAccount, NoRoute}]]
    /\ peers \in [Node -> SUBSET Node]
    /\ registered \in [Node -> Registration]
    /\ \A m \in Message : step[m] \notin {"new", "over"} => at[m] \in Node

Init ==
    /\ step = [m \in Message |-> "new"]
    /\ at = [m \in Message |-> NoNode]
    /\ account = source
    /\ operation = [m \in Message |-> "INIT"]
    /\ status = [m \in Message |-> "init"]
    /\ results = [m \in Message |-> {}]
    /\ answer = [m \in Message |-> "none"]
    /\ reply = [m \in Message |-> "none"]
    /\ queue = [n \in Node |-> << >>]
    /\ processed = [n \in Node |-> << >>]
    /\ phases = [m \in Message |-> << >>]
    /\ routes = [n \in Node |-> [a \in Account |-> NoRoute]]
    /\ peers = [n \in Node |-> {}]
    /\ registered = [n \in Node |-> "fresh"]

----------------------------------------------------------------------------
(* The status of a transaction: TransactionMessageHelper.                  *)

incrementStatus(s) ==
    CASE s \in {"init", "debit"} -> "processing"
      [] s = "processing" -> "credit"
      [] s = "credit" -> "fee"
      [] OTHER -> "complete"

CurrentAccount(m, s) ==
    IF s \in {"init", "debit", "processing"} THEN source[m] ELSE target[m]

\* (A slip: the incremented status is not put back into the transaction.)
NextStatusLost(s) == s

\* updateStateRouteMessage: the test for the fee increments once more.
NextStatus(s) == incrementStatus(incrementStatus(s))

----------------------------------------------------------------------------
(* Replies.  Only the outermost routeMessage answers the client; a message *)
(* that goes on to another server is answered here.                        *)

Answered(m, text) == IF answer[m] = "none" THEN text ELSE answer[m]
Reply(m, text) == reply' = [reply EXCEPT ![m] = IF @ = "none" THEN text ELSE @]

\* The chain ends and the frames return.
Return(m, text) ==
    /\ step' = [step EXCEPT ![m] = "over"]
    /\ Reply(m, Answered(m, text))

\* An exception goes up to the RPC or HTTP session, which rolls back.
Throw(m) ==
    /\ step' = [step EXCEPT ![m] = "over"]
    /\ Reply(m, "error")
    /\ UNCHANGED <<at, account, operation, status, results, answer>>

----------------------------------------------------------------------------
(* RouterService.                                                          *)

\* A client's request: HttpTransactionManager::processTransaction.
Send(m, n) ==
    /\ step[m] = "new"
    /\ n \in Entry[m]
    /\ step' = [step EXCEPT ![m] = "route"]
    /\ at' = [at EXCEPT ![m] = n]
    /\ UNCHANGED <<account, operation, status, results, answer, reply, queueVars, peerVars>>

Own(m) == account[m] = at[m]
Found(m) == account[m] \in Known[at[m]] \ {at[m]}
Elsewhere(m) == ~Own(m) /\ ~Found(m)
Route(m) == routes[at[m]][account[m]]

\* (A slip: nothing is ever in operation ROUTE.)
FoundBalancesRouted(m) ==
    status[m] \in {"init", "debit", "credit"} /\ operation[m] = "ROUTE"

\* What is handed to the balancer: routeLocal takes all that is new or routed,
\* routeToAccount a credit only when it was routed.
LocalBalances(m) ==
    status[m] \in {"init", "debit", "credit"} /\ operation[m] \in {"INIT", "ROUTE", "BALANCE"}
FoundBalances(m) ==
    \/ status[m] \in {"init", "debit"} /\ operation[m] \in {"INIT", "ROUTE"}
    \/ status[m] = "credit" /\ operation[m] = "ROUTE"

\* The balance service is registered by this server alone, under its account.
ToBalancer(m, text) ==
    /\ step' = [step EXCEPT ![m] = "balance"]
    /\ operation' = [operation EXCEPT ![m] = "BALANCE"]
    /\ account' = [account EXCEPT ![m] = at[m]]
    /\ answer' = [answer EXCEPT ![m] = Answered(m, text)]
    /\ UNCHANGED <<at, status, results, reply>>

\* The handler finds nothing to do for this status, and reports success.
NothingToDo(m, text) ==
    /\ Return(m, text)
    /\ UNCHANGED <<at, account, operation, status, results, answer>>

RouteLocal(m) ==
    /\ step[m] = "route"
    /\ Own(m)
    /\ IF LocalBalances(m) THEN ToBalancer(m, "local") ELSE NothingToDo(m, "local")
    /\ UNCHANGED <<queueVars, peerVars>>

RouteToAccount(m) ==
    /\ step[m] = "route"
    /\ Found(m)
    /\ IF FoundBalances(m) THEN ToBalancer(m, "found") ELSE NothingToDo(m, "found")
    /\ UNCHANGED <<queueVars, peerVars>>

\* Where the managing account is no peer, the code looks the same entry up until
\* it is one; here the chain takes no step meanwhile.  The peer is a child server,
\* as nothing sets the flag isServer() asks for: either it has no session, which
\* throws and is swallowed, or its session writes an empty buffer in place of the
\* message.
RouteToRpcClient(m) ==
    /\ step[m] = "route"
    /\ Elsewhere(m)
    /\ Route(m) \in peers[at[m]]
    /\ Return(m, "routed")
    /\ UNCHANGED <<at, account, operation, status, results, answer, queueVars, peerVars>>

\* (A slip: there is no test for a default peer.)
RouteToRpcPeerUnchecked(m) ==
    /\ step[m] = "route"
    /\ Elsewhere(m)
    /\ Route(m) = NoRoute
    /\ Reply(m, Answered(m, "to peer"))
    /\ answer' = [answer EXCEPT ![m] = "none"]
    /\ step' = [step EXCEPT ![m] = "wire"]
    /\ at' = [at EXCEPT ![m] = Upstream[at[m]]]
    /\ UNCHANGED <<account, operation, status, results, queueVars, peerVars>>

\* No route: to the default peer.  What fails is swallowed or comes too late.
RouteToRpcPeer(m) ==
    /\ step[m] = "route"
    /\ Elsewhere(m)
    /\ Route(m) = NoRoute
    /\ Reply(m, Answered(m, "to peer"))
    /\ answer' = [answer EXCEPT ![m] = "none"]
    /\ \/ /\ Upstream[at[m]] # NoNode
          /\ step' = [step EXCEPT ![m] = "wire"]
          /\ at' = [at EXCEPT ![m] = Upstream[at[m]]]
       \/ /\ step' = [step EXCEPT ![m] = "over"]
          /\ UNCHANGED at
    /\ UNCHANGED <<account, operation, status, results, queueVars, peerVars>>

\* The session of the RPC server reads the message and begins a chain.
HandleTransaction(m) ==
    /\ step[m] = "wire"
    /\ step' = [step EXCEPT ![m] = "route"]
    /\ UNCHANGED <<at, account, operation, status, results, answer, reply, queueVars, peerVars>>

\* updateStateRouteMessage: next status, and the account it makes current.
UpdateStatus(m) ==
    /\ step[m] = "update"
    /\ status' = [status EXCEPT ![m] = NextStatus(status[m])]
    /\ account' = [account EXCEPT ![m] = CurrentAccount(m, NextStatus(status[m]))]
    /\ operation' = [operation EXCEPT ![m] = "INIT"]
    /\ step' = [step EXCEPT ![m] = "route"]
    /\ UNCHANGED <<at, results, answer, reply, queueVars, peerVars>>

----------------------------------------------------------------------------
(* BalancerService and BlockService.                                       *)

\* The block accounts of a server are itself, or none: the choice of one
\* divides by their number.
BalanceMessage(m) ==
    /\ step[m] = "balance"
    /\ at[m] \in BlockNode
    /\ step' = [step EXCEPT ![m] = "block"]
    /\ operation' = [operation EXCEPT ![m] = "BLOCK"]
    /\ account' = [account EXCEPT ![m] = at[m]]
    /\ UNCHANGED <<at, status, results, answer, reply, queueVars, peerVars>>

\* (Two slips: the guard ends early, or lives until the frame returns.)
HoldsWhileRunning(m) == step[m] = "locked"
HoldsToTheEnd(m) ==
    \/ step[m] \in {"locked", "processed", "update"}
    \/ step[m] \in {"route", "balance", "block"} /\ phases[m] # << >>

\* The account lock is held from before the contract runs until the
\* transaction is in the queue.
ActiveAccount(m) == CurrentAccount(m, status[m])
Holds(m) == step[m] \in {"locked", "processed"}

Free(n, a) == \A k \in Message : Holds(k) /\ at[k] = n => ActiveAccount(k) # a

BlockMessage(m) ==
    /\ step[m] = "block"
    /\ Free(at[m], ActiveAccount(m))
    /\ step' = [step EXCEPT ![m] = "locked"]
    /\ UNCHANGED <<at, account, operation, status, results, answer, reply, queueVars, peerVars>>

\* The contract of the account runs, or throws; unwinding gives the lock back.
ProcessTransaction(m) ==
    /\ step[m] = "locked"
    /\ \/ /\ step' = [step EXCEPT ![m] = "processed"]
          /\ processed' = [processed EXCEPT ![at[m]] = Append(@, <<m, status[m]>>)]
          /\ UNCHANGED <<at, account, operation, status, results, answer, reply>>
       \/ /\ Throw(m)
          /\ UNCHANGED processed
    /\ UNCHANGED <<queue, phases, peerVars>>

\* addTransaction takes the processed transaction; what is routed on is the
\* wrapper as it was, copied before setTransaction.
AddTransaction(m) ==
    /\ step[m] = "processed"
    /\ step' = [step EXCEPT ![m] = "update"]
    /\ queue' = [queue EXCEPT ![at[m]] = Append(@,
            [message |-> m, status |-> status[m], results |-> results[m] \cup {status[m]}])]
    /\ phases' = [phases EXCEPT ![m] = Append(@, status[m])]
    /\ UNCHANGED <<at, account, operation, status, results, answer, reply, processed, peerVars>>

\* A server that is stopping has terminated its producer, which throws.
ProducerTerminated(m) ==
    /\ MayCrash
    /\ step[m] = "processed"
    /\ Throw(m)
    /\ UNCHANGED <<queueVars, peerVars>>

----------------------------------------------------------------------------
(* A server registers with its default peer: REGISTER, handleRegister and  *)
(* registerRpcPeer.                                                        *)

\* The accounts of n's database below n (buildNodeAccountRouting).
RoutingTree == [n \in Node |->
    LET below[k \in 0 .. Cardinality(Account)] ==
            IF k = 0 THEN {n}
            ELSE LET nearer == below[k - 1]
                 IN  nearer \cup {a \in Known[n] : Parent[a] \in nearer}
    IN  below[Cardinality(Account)]]

\* pushAccountRouting: each under its parent, the server itself under nobody.
PushAccountRouting(n, table) ==
    [a \in Account |-> IF a = n THEN NoAccount
                      ELSE IF a \in RoutingTree[n] THEN Parent[a] ELSE table[a]]

\* The peer cache changes at once,
RegisterRpcPeer(n) ==
    /\ registered[n] = "fresh"
    /\ Upstream[n] # NoNode
    /\ registered' = [registered EXCEPT ![n] = "adding"]
    /\ peers' = [peers EXCEPT ![Upstream[n]] = @ \cup {n}]
    /\ UNCHANGED <<chainVars, reply, queueVars, routes>>

\* the routing table with the commit of the session's transaction.
CommitRegistration(n) ==
    /\ registered[n] = "adding"
    /\ registered' = [registered EXCEPT ![n] = "accepted"]
    /\ routes' = [routes EXCEPT ![Upstream[n]] = PushAccountRouting(n, @)]
    /\ UNCHANGED <<chainVars, reply, queueVars, peers>>

\* The client registers the server in turn, with no accounts.
RegisterResponse(n) ==
    /\ registered[n] = "accepted"
    /\ registered' = [registered EXCEPT ![n] = "done"]
    /\ peers' = [peers EXCEPT ![n] = @ \cup {Upstream[n]}]
    /\ UNCHANGED <<chainVars, reply, queueVars, routes>>

\* What a death of n makes of c's registration: a server that starts again
\* registers anew, while its old request may still be under way; a child never
\* does, its session reads an error and ends, unless it was starting itself.
AfterDeath(n, c) ==
    CASE c = n /\ registered[c] = "adding" -> {"fresh", "adding"}
      [] c = n /\ registered[c] # "adding" -> {"fresh"}
      [] Upstream[c] = n /\ registered[c] = "adding" -> {"fresh", "done"}
      [] Upstream[c] = n /\ registered[c] = "accepted" -> {"done"}
      [] OTHER -> {registered[c]}

\* The chains of the server are gone, and its queue and its peers.
Die(n) ==
    /\ step' = [m \in Message |-> IF at[m] = n THEN "over" ELSE step[m]]
    /\ queue' = [queue EXCEPT ![n] = << >>]
    /\ processed' = [processed EXCEPT ![n] = << >>]
    /\ peers' = [peers EXCEPT ![n] = {}]
    /\ registered' \in [Node -> Registration]
    /\ \A c \in Node : registered'[c] \in AfterDeath(n, c)
    /\ UNCHANGED <<at, account, operation, status, results, answer, reply, phases, routes>>

Crash(n) == MayCrash /\ Die(n)

\* The modulus by no block accounts ends the process.
BalanceNowhere(m) ==
    /\ step[m] = "balance"
    /\ at[m] \notin BlockNode
    /\ Die(at[m])

----------------------------------------------------------------------------
Chain(m) ==
    \/ RouteLocal(m) \/ RouteToAccount(m) \/ RouteToRpcClient(m) \/ RouteToRpcPeer(m)
    \/ HandleTransaction(m) \/ UpdateStatus(m)
    \/ BalanceMessage(m) \/ BalanceNowhere(m)
    \/ BlockMessage(m) \/ ProcessTransaction(m) \/ AddTransaction(m) \/ ProducerTerminated(m)

Next ==
    \/ \E m \in Message : \E n \in Node : Send(m, n)
    \/ \E m \in Message : Chain(m)
    \/ \E n \in Node : RegisterRpcPeer(n) \/ CommitRegistration(n) \/ RegisterResponse(n) \/ Crash(n)

Spec == Init /\ [][Next]_vars

\* Threads are scheduled, contracts end, a lock is handed on.
FairSpec == Spec /\ \A m \in Message : WF_vars(Chain(m))
                 /\ \A n \in Node : WF_vars(CommitRegistration(n))

----------------------------------------------------------------------------
(* What the path has to keep true.                                         *)

(* Whatever servers a transaction passes, its phases are queued once each and
   the debit before the credit: incrementStatus and the order in which
   blockMessage queues and forwards. *)
Life == INSTANCE TransactionLife
ImplementsLife == Life!Spec

(* Two transactions of one account are queued in the order their contracts ran:
   the account lock of blockMessage spans both. *)
QueueInProcessingOrder ==
    \A n \in Node : \A i, j \in DOMAIN queue[n] :
        LET e == queue[n][i]
            f == queue[n][j]
        IN  (i < j /\ CurrentAccount(e.message, e.status) = CurrentAccount(f.message, f.status))
            => \E k, l \in DOMAIN processed[n] :
                   k < l /\ processed[n][k] = <<e.message, e.status>>
                         /\ processed[n][l] = <<f.message, f.status>>

(* A client that is told "local" or "found" has had its debit queued; one that
   is told "routed" or "to peer" has not been served by the first server at all
   (routeMessage answers before it knows). *)
RepliesHonest ==
    \A m \in Message : reply[m] \in {"local", "found"} => phases[m] # << >>

(* The account of m is in the routing table of its server, under an account that
   is no child server: the entry of an account below another account, or that of
   a registered server's own account, which has no management account. *)
Stray(m) ==
    /\ step[m] = "route" /\ Elsewhere(m)
    /\ Route(m) # NoRoute
    /\ \A n \in Node : Upstream[n] = at[m] => n # Route(m)

(* Every request is answered, no chain waits for a lock its own thread holds or
   for a peer that registers, but for the strays: the loop of routeMessage never
   climbs from the managing account to that account's own manager, and looks the
   entry of a stray up for ever, with every server up and registered. *)
RequestsEnd ==
    \A m \in Message : step[m] # "new" ~> (step[m] = "over" \/ []Stray(m))

(* The credit is processed with what the debit's contract left in the
   transaction: blockMessage says it moves the transaction to its next phase
   and submits it to the router. *)
ResultsForwarded ==
    \A n \in Node : \A i \in DOMAIN queue[n] :
        queue[n][i].status = "credit" => "init" \in queue[n][i].results
=============================================================================
