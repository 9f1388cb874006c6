---------------------------- MODULE ModuleScripts ----------------------------
(***************************************************************************)
(* What the modules of a node do when they are started, announced and      *)
(* stopped, which events each of them handles with which of its services,  *)
(* and which events their threads and their handlers trigger.              *)
(*                                                                         *)
(* A script is a sequence of steps <<what, whom>>: "init" and "fin" make   *)
(* and drop the singleton of a service, "run" starts the threads of the    *)
(* module, "halt" tells them to take no more work and "join" waits for     *)
(* them, "register" and "deregister" run its EventRegistry, "announce"     *)
(* triggers REGISTER_SERVICE_MESSAGE, "apply" an event of another module   *)
(* (the genesis block), and "need" calls a member of a service: it and     *)
(* "halt" dereference the singleton they name.                             *)
(***************************************************************************)
EXTENDS Naturals, FiniteSets, SequencesExt

(* The libraries of the modules, in the order of their file names.         *)
LibraryOrder == << "event_service", "test_module", "transaction", "keystore",
                   "account", "router", "block", "sandbox", "balancer",
                   "rpc_server", "httpd", "rpc_client", "version_manager",
                   "consensus" >>
NodeLibrary == Range(LibraryOrder)

Step(what, services) == [i \in DOMAIN services |-> <<what, services[i]>>]
Inits(services) == Step("init", services)
Fins(services) == Step("fin", services)
One(what) == <<<<what, "none">>>>

------------------------------------------------------------------------------
(* start, postStart and stop of each module manager.                       *)

EventServiceStart == Inits(<<"ConsensusService", "EventServiceModule">>)
EventServicePostStart == One("register")
EventServiceStop == Fins(<<"EventServiceModule", "ConsensusService">>)

TestStart == Inits(<<"ConsensusService">>) \o One("register")
TestStop == One("deregister") \o Fins(<<"ConsensusService">>)

TransactionStart ==
    Inits(<<"TransactionServiceModule", "ConsensusService">>) \o One("register")
TransactionStop ==
    One("deregister") \o Fins(<<"ConsensusService", "TransactionServiceModule">>)

KeystoreStart == Inits(<<"KeyStoreService", "ConsensusService">>) \o One("register")
KeystoreStop == One("deregister") \o Fins(<<"ConsensusService", "KeyStoreService">>)

AccountStart ==
    Inits(<<"StorageManager", "AccountService", "ConsensusService">>) \o One("register")
AccountStop ==
    One("deregister") \o Fins(<<"ConsensusService", "AccountService", "StorageManager">>)

RouterStart ==
    Inits(<<"RouterRegistry", "StorageManager", "RouterService",
            "ConsensusService", "PeerCache">>) \o One("register")
RouterStop ==
    One("deregister") \o Fins(<<"PeerCache", "ConsensusService", "RouterService",
                                "StorageManager", "RouterRegistry">>)

\* With BLOCK_PRODUCER_ENABLED; else there is no thread to run, halt and join.
BlockStart ==
    Inits(<<"BlockProducer">>) \o One("run")
    \o Inits(<<"TransactionProcessor", "StorageManager", "BlockService",
               "ConsensusService">>) \o One("register")
BlockPostStart ==
    << <<"need", "BlockService">>, <<"apply", "APPLY_ACCOUNT_TRANSACTION_MESSAGE">> >>
    \o One("announce")

BlockStop ==
    One("deregister") \o Fins(<<"ConsensusService", "BlockService", "TransactionProcessor">>)
    \o << <<"halt", "BlockProducer">> >> \o One("join")
    \o Fins(<<"BlockProducer", "StorageManager">>)

SandboxStart ==
    Inits(<<"WavmEngineManager", "SandboxService", "ConsensusService">>) \o One("register")
SandboxPostStart == One("announce")
SandboxStop ==
    One("deregister") \o Fins(<<"ConsensusService", "SandboxService", "WavmEngineManager">>)

BalancerStart ==
    Inits(<<"BalancerService", "BlockRouting", "TransactionCache",
            "ConsensusService">>) \o One("register")
BalancerPostStart == One("announce")
BalancerStop ==
    One("deregister") \o Fins(<<"ConsensusService", "TransactionCache", "BlockRouting",
                                "BalancerService">>)

(* The threads run before RpcServerService is there, and outlive it.       *)
RpcServerStart ==
    Inits(<<"RpcServer", "RpcServerSession">>) \o One("run")
    \o Inits(<<"RpcServerService", "ConsensusService">>) \o One("register")
RpcServerStop ==
    One("deregister") \o Fins(<<"ConsensusService", "RpcServerService">>)
    \o << <<"halt", "RpcServer">> >> \o One("join")
    \o Fins(<<"RpcServerSession", "RpcServer">>)

(* httpServer is a member of the manager: what start makes is its io       *)
(* context, which stop uses.  The sessions left expire their keys at last. *)
HttpdStart ==
    Inits(<<"HttpServer">>) \o One("run") \o Inits(<<"ConsensusService">>) \o One("register")
HttpdStop ==
    One("deregister") \o Fins(<<"ConsensusService">>)
    \o << <<"halt", "HttpServer">> >> \o One("join")
    \o << <<"apply", "REMOVE_SESSION_KEY">> >> \o Fins(<<"HttpServer">>)

(* The handlers are registered before the service they call is made.       *)
RpcClientStart ==
    Inits(<<"ConsensusService">>) \o One("register") \o Inits(<<"RpcSessionManager">>)
RpcClientPostStart == << <<"need", "RpcSessionManager">> >> \o One("run")

RpcClientStop ==
    One("deregister") \o Fins(<<"ConsensusService">>)
    \o << <<"halt", "RpcSessionManager">> >> \o One("join") \o Fins(<<"RpcSessionManager">>)

VersionManagerStart ==
    Inits(<<"VersionProcessor">>) \o One("run") \o Inits(<<"ConsensusService">>)
    \o One("register")
VersionManagerStop ==
    One("deregister") \o Fins(<<"ConsensusService">>)
    \o << <<"halt", "VersionProcessor">> >> \o One("join") \o Fins(<<"VersionProcessor">>)

(* The destructor of the consensus server clears the pointer its thread    *)
(* works with before it stops the thread.                                  *)
ConsensusStart == Inits(<<"ConsensusServer", "ConsensusServices">>) \o One("register")
ConsensusPostStart == << <<"need", "ConsensusServer">> >> \o One("run")
ConsensusStop ==
    Fins(<<"ConsensusServer">>) \o One("halt") \o One("join") \o One("deregister")
    \o Fins(<<"ConsensusServices">>)

NodeStart == [ event_service |-> EventServiceStart, test_module |-> TestStart,
    transaction |-> TransactionStart, keystore |-> KeystoreStart, account |-> AccountStart,
    router |-> RouterStart, block |-> BlockStart, sandbox |-> SandboxStart,
    balancer |-> BalancerStart, rpc_server |-> RpcServerStart, httpd |-> HttpdStart,
    rpc_client |-> RpcClientStart, version_manager |-> VersionManagerStart,
    consensus |-> ConsensusStart ]

NodePostStart == [ l \in NodeLibrary |->
    CASE l = "event_service" -> EventServicePostStart
      [] l = "block" -> BlockPostStart
      [] l = "sandbox" -> SandboxPostStart
      [] l = "balancer" -> BalancerPostStart
      [] l = "rpc_client" -> RpcClientPostStart
      [] l = "consensus" -> ConsensusPostStart
      [] OTHER -> << >> ]

NodeStop == [ event_service |-> EventServiceStop, test_module |-> TestStop,
    transaction |-> TransactionStop, keystore |-> KeystoreStop, account |-> AccountStop,
    router |-> RouterStop, block |-> BlockStop, sandbox |-> SandboxStop,
    balancer |-> BalancerStop, rpc_server |-> RpcServerStop, httpd |-> HttpdStop,
    rpc_client |-> RpcClientStop, version_manager |-> VersionManagerStop,
    consensus |-> ConsensusStop ]

------------------------------------------------------------------------------
(* The handlers each EventRegistry registers: event |-> service.           *)

(* Every module answers for its own hash and takes the session key.        *)
ConsensusHandlers(l, service) ==
    [e \in {"CONSENSUS_" \o l, "CONSENSUS_SESSION_" \o l} |-> service]
One2(e, service) == [x \in {e} |-> service]

EventServiceHandlers == ConsensusHandlers("event_service", "ConsensusService")
TestHandlers == ConsensusHandlers("test_module", "ConsensusService")
TransactionHandlers == ConsensusHandlers("transaction", "ConsensusService")
HttpdHandlers == ConsensusHandlers("httpd", "ConsensusService")
VersionManagerHandlers == ConsensusHandlers("version_manager", "ConsensusService")
KeystoreHandlers ==
    [e \in {"REQUEST_SESSION_KEY", "REMOVE_SESSION_KEY"} |-> "KeyStoreService"]
    @@ ConsensusHandlers("keystore", "ConsensusService")
AccountHandlers ==
    [e \in {"CHECK_ACCOUNT_MESSAGE", "GET_NODE_ACCOUNT_ROUTING", "GET_CONTRACT",
            "APPLY_ACCOUNT_TRANSACTION_MESSAGE", "SPARQL_QUERY_MESSAGE"} |-> "AccountService"]
    @@ ConsensusHandlers("account", "ConsensusService")
RouterHandlers ==
    [e \in {"ROUTE_MESSAGE", "UPDATE_STATUS_ROUTE_MESSSAGE", "REGISTER_SERVICE_MESSAGE",
            "REGISTER_RPC_PEER"} |-> "RouterService"]
    @@ ConsensusHandlers("router", "ConsensusService")
BlockHandlers ==
    One2("BLOCK_MESSAGE", "BlockService") @@ ConsensusHandlers("block", "ConsensusService")
SandboxHandlers ==
    One2("EXECUTE_ACTION_MESSAGE", "SandboxService")
    @@ ConsensusHandlers("sandbox", "ConsensusService")
BalancerHandlers ==
    One2("BALANCER_MESSAGE", "BalancerService")
    @@ ConsensusHandlers("balancer", "ConsensusService")
RpcServerHandlers ==
    One2("RPC_SEND_MESSAGE", "RpcServerService") @@ One2("RPC_SERVER_TRANSACTION", "RpcServer")
    @@ ConsensusHandlers("rpc_server", "ConsensusService")
RpcClientHandlers ==
    One2("RPC_CLIENT_TRANSACTION", "RpcSessionManager")
    @@ ConsensusHandlers("rpc_client", "ConsensusService")
ConsensusModuleHandlers ==
    [e \in {"GET_SOFTWARE_CONSENSUS_MESSAGE", "VALIDATE_SOFTWARE_CONSENSUS_MESSAGE"} |->
        "ConsensusServices"]
    @@ ConsensusHandlers("consensus", "ConsensusServices")

NodeHandlers == [ event_service |-> EventServiceHandlers, test_module |-> TestHandlers,
    transaction |-> TransactionHandlers, keystore |-> KeystoreHandlers,
    account |-> AccountHandlers, router |-> RouterHandlers, block |-> BlockHandlers,
    sandbox |-> SandboxHandlers, balancer |-> BalancerHandlers,
    rpc_server |-> RpcServerHandlers, httpd |-> HttpdHandlers,
    rpc_client |-> RpcClientHandlers, version_manager |-> VersionManagerHandlers,
    consensus |-> ConsensusModuleHandlers ]

Event == UNION {DOMAIN NodeHandlers[l] : l \in NodeLibrary}

(* What a module takes out again: the router leaves one handler behind and *)
(* the event service all its own.                                          *)
EventServiceKept == DOMAIN EventServiceHandlers
RouterKept == {"REGISTER_RPC_PEER"}
NodeDeregistered == [ l \in NodeLibrary |->
    DOMAIN NodeHandlers[l] \ CASE l = "router" -> RouterKept
                               [] l = "event_service" -> EventServiceKept
                               [] OTHER -> {} ]

------------------------------------------------------------------------------
(* The events the threads and the handlers trigger, in the order of the    *)
(* code; each may be passed over.                                          *)

SessionOrder == << "test_module", "transaction", "router", "httpd", "event_service",
    "block", "sandbox", "version_manager", "keystore", "balancer", "account",
    "rpc_client", "rpc_server", "consensus" >>
SessionEvents == [i \in DOMAIN SessionOrder |-> "CONSENSUS_SESSION_" \o SessionOrder[i]]
HashEvents == [i \in DOMAIN SessionOrder |-> "CONSENSUS_" \o SessionOrder[i]]

(* One request of a thread of the module: the events one of which starts   *)
(* it, and the service the thread works for.                               *)
ProducerRequests == <<"APPLY_ACCOUNT_TRANSACTION_MESSAGE">>
ServerRequests == <<"VALIDATE_SOFTWARE_CONSENSUS_MESSAGE", "REGISTER_RPC_PEER", "ROUTE_MESSAGE">>
ClientRequests ==
    <<"GET_SOFTWARE_CONSENSUS_MESSAGE", "GET_NODE_ACCOUNT_ROUTING", "ROUTE_MESSAGE",
      "REGISTER_RPC_PEER">>
HttpRequests ==
    <<"REQUEST_SESSION_KEY", "ROUTE_MESSAGE", "SPARQL_QUERY_MESSAGE", "REMOVE_SESSION_KEY">>
NodeRequests == [ l \in NodeLibrary |->
    CASE l = "block" -> ProducerRequests
      [] l = "rpc_server" -> ServerRequests
      [] l = "rpc_client" -> ClientRequests
      [] l = "httpd" -> HttpRequests
      [] l = "consensus" -> SessionEvents
      [] OTHER -> << >> ]
NodeWorksFor == [ block |-> "BlockProducer", rpc_server |-> "RpcServerSession",
                  rpc_client |-> "RpcSessionManager", httpd |-> "HttpServer",
                  consensus |-> "ConsensusServer", version_manager |-> "VersionProcessor" ]

RouteTriggers ==
    <<"CHECK_ACCOUNT_MESSAGE", "BALANCER_MESSAGE", "RPC_SEND_MESSAGE",
      "RPC_SERVER_TRANSACTION", "RPC_CLIENT_TRANSACTION">>
UpdateTriggers == RouteTriggers
BalanceTriggers == <<"BLOCK_MESSAGE", "RPC_SEND_MESSAGE">>
BlockTriggers == <<"GET_CONTRACT", "EXECUTE_ACTION_MESSAGE", "UPDATE_STATUS_ROUTE_MESSSAGE">>
NodeTriggers == [ e \in Event |->
    CASE e = "ROUTE_MESSAGE" -> RouteTriggers
      [] e = "UPDATE_STATUS_ROUTE_MESSSAGE" -> UpdateTriggers
      [] e = "BALANCER_MESSAGE" -> BalanceTriggers
      [] e = "BLOCK_MESSAGE" -> BlockTriggers
      [] e \in {"GET_SOFTWARE_CONSENSUS_MESSAGE", "VALIDATE_SOFTWARE_CONSENSUS_MESSAGE"} ->
             HashEvents
      [] OTHER -> << >> ]

(* The builder of the consensus passes over a module it cannot reach and   *)
(* the router gives up a message it cannot send on; any other handler lets *)
(* the exception through, and so does the loop of the producer.            *)
HashesCaught == {"GET_SOFTWARE_CONSENSUS_MESSAGE", "VALIDATE_SOFTWARE_CONSENSUS_MESSAGE"}
RpcCaught == {"RPC_SERVER_TRANSACTION", "RPC_CLIENT_TRANSACTION"}
NodeCaught(by, missing) == by \in HashesCaught \/ missing \in RpcCaught
NodeUncaught == {"block"}
==============================================================================
