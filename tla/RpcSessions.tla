----------------------------- MODULE RpcSessions -----------------------------
(***************************************************************************)
(* The sessions between an RPC server and the RPC clients of other         *)
(* servers: the handshake with its software consensus, the exchange of     *)
(* peers, the registration for call backs and the transactions both ways   *)
(* (src/src/modules/rpc_server, src/src/modules/rpc_client), composed with *)
(* SoftwareConsensus.                                                      *)
(*                                                                         *)
(* A connection has a strand at each end that handles one message at a     *)
(* time; a route comes from a thread of its own at either end.  Each       *)
(* strand, and the timer of the server's ConsensusServer, is a thread of   *)
(* the consensus.  A connection may be lost at any time and is never       *)
(* dialled again.                                                          *)
(***************************************************************************)
EXTENDS SoftwareConsensus

CONSTANTS
    Conns,       \* RpcSession objects, by the address they dial
    Node,        \* [Conns -> the client's server]; one account each
    Peered,      \* those made by setPeers
    Server,      \* the server all of them dial
    Timer,       \* the thread of its ConsensusServer
    Near, Far,   \* [Conns -> Threads], the strands of its two ends
    SessionKeys, \* the configured keys, in order
    None,
    MaxProcess,  \* bound on the changes of the key
    MaxRoutes,   \* bound on the routes asked for, down and up
    MayLose      \* the connections that may be lost

ASSUME ConnsAssumption ==
    /\ Server \in Nodes /\ Node \in [Conns -> Nodes \ {Server}]
    /\ None \notin Conns /\ \A c \in Conns : Node[c] # None
    /\ Peered \subseteq Conns /\ MayLose \subseteq Conns
    /\ SessionKeys \in Seq(Keys) /\ SessionKeys # <<>>
    /\ MaxProcess \in Nat /\ MaxRoutes \in Nat

\* Every strand is a thread of its own server, and there is no other but the timer.
ASSUME StrandsAssumption ==
    /\ Near \in [Conns -> Threads] /\ Far \in [Conns -> Threads] /\ Timer \in Threads
    /\ \A t \in Threads : t = Timer \/ \E c \in Conns : t = Near[c] \/ t = Far[c]
    /\ \A c \in Conns : NodeOf[Near[c]] = Node[c] /\ NodeOf[Far[c]] = Server
    /\ NodeOf[Timer] = Server
    /\ \A c, d \in Conns : (Near[c] = Near[d] \/ Far[c] = Far[d]) => c = d
    /\ \A c \in Conns : Far[c] # Timer

VARIABLES
    up,          \* connections whose sockets are open
    client,      \* [Conns -> place of the client's strand]
    server,      \* [Conns -> place of the server's strand]
    toServer, toClient, \* [Conns -> messages under way]
    hello,       \* sessions with a serverHelloProtoHelperPtr
    sessions,    \* AccountSessionCache: [clients' servers -> Conns \cup {None}]
    peerCache,   \* accountPeerCache: the servers with an address
    mapping,     \* accountSessionMap: [clients' servers -> Conns \cup {None}]
    currentPos,  \* ConsensusServer::currentPos, from 1; 0 before the first
    processed,   \* changes of the key so far
    routing,     \* the account a route of the server has found a session for
    routed,      \* routes asked for so far
    serverUp,    \* the server's process lives
    story        \* history of each session: what it claimed, what it was answered,
                 \* and which others its account had when it registered

wireVars == <<up, toServer, toClient>>
placeVars == <<client, server>>
cacheVars == <<sessions, peerCache, mapping, hello>>
routeVars == <<routing, routed>>
timerVars == <<currentPos, processed>>
vars == <<consensusVars, wireVars, placeVars, cacheVars, routeVars, timerVars,
          serverUp, story>>

Clients == {Node[c] : c \in Conns}
Command == {"HELLO", "HELLO_CONSENSUS", "ACCEPTED", "GO_AWAY", "PEERS",
            "REGISTER", "TRANSACTION", "TRANSACTION_PROCESSED", ""}
Message == [command : Command, key : Keys \cup {NoKey}, hashes : SUBSET Hash,
            peers : SUBSET Nodes]
Say(command) == [command |-> command, key |-> NoKey, hashes |-> {}, peers |-> {}]

Init ==
    /\ ConsensusInit
    /\ up = {}
    /\ client = [c \in Conns |-> IF c \in Peered THEN "none" ELSE "made"]
    /\ server = [c \in Conns |-> "none"]
    /\ toServer = [c \in Conns |-> <<>>]
    /\ toClient = [c \in Conns |-> <<>>]
    /\ hello = {}
    /\ sessions = [n \in Clients |-> None]
    /\ peerCache = {}
    /\ mapping = [n \in Clients |-> None]
    /\ currentPos = 0 /\ processed = 0
    /\ routing = None /\ routed = 0
    /\ serverUp = TRUE
    /\ story = [c \in Conns |-> [claimed |-> {}, answer |-> "", disturbed |-> FALSE,
                               beside |-> {}]]

Arrived(channel, c, command) == channel[c] # <<>> /\ Head(channel[c]).command = command
Take(channel, c) == [channel EXCEPT ![c] = Tail(@)]
Put(channel, c, message) == IF c \in up THEN [channel EXCEPT ![c] = Append(@, message)] ELSE channel
Free(t) == work[t] = Idle
Finish(t) == work' = [work EXCEPT ![t] = Idle]
Generating == <<altered, sessionKey, scripted, secret>>

(***************************************************************************)
(* The timer of the server's ConsensusServer.                              *)
(***************************************************************************)

NextPos == IF currentPos >= Len(SessionKeys) THEN 1 ELSE currentPos + 1

\* ConsensusServer::process: at once, then when more than two hours have passed.
Process ==
    /\ serverUp
    /\ Free(Timer)
    /\ processed < MaxProcess
    /\ currentPos' = NextPos
    /\ processed' = processed + 1
    /\ UpdateSessionKey(Timer, SessionKeys[NextPos])
    /\ story' = [c \in Conns |->
                    [story[c] EXCEPT !.disturbed = @ \/ work[Far[c]].op = "validate"]]
    /\ UNCHANGED <<Generating, wireVars, placeVars, cacheVars, routeVars, serverUp>>

\* The loop over the modules is over: the timer is set again.
Rearm ==
    /\ serverUp
    /\ Updated(Timer)
    /\ Finish(Timer)
    /\ UNCHANGED <<Generating, wireVars, placeVars, cacheVars, routeVars, timerVars,
                   serverUp, story>>

\* A thread goes on inside of an event of the consensus.
Compute(t) ==
    /\ NodeOf[t] = Server => serverUp
    /\ ConsensusStep(t)
    /\ UNCHANGED <<wireVars, placeVars, cacheVars, routeVars, timerVars, serverUp, story>>

(***************************************************************************)
(* The client's strand.                                                    *)
(***************************************************************************)

\* Resolve, connect and both handshakes: when one fails that is the end.
Connect(c) ==
    /\ client[c] = "made"
    /\ serverUp
    /\ up' = up \cup {c}
    /\ client' = [client EXCEPT ![c] = "open"]
    /\ server' = [server EXCEPT ![c] = "reading"]
    /\ UNCHANGED <<consensusVars, toServer, toClient, cacheVars, routeVars, timerVars,
                   serverUp, story>>

Unreachable(c) ==
    /\ client[c] = "made"
    /\ ~serverUp \/ c \in MayLose
    /\ client' = [client EXCEPT ![c] = "ended"]
    /\ UNCHANGED <<consensusVars, wireVars, server, cacheVars, routeVars, timerVars,
                   serverUp, story>>

\* RpcSession::on_handshake: the socket is open already when the hello is written.
OnHandshake(c) ==
    /\ client[c] = "open"
    /\ client' = [client EXCEPT ![c] = "reading"]
    /\ toServer' = Put(toServer, c, Say("HELLO"))
    /\ UNCHANGED <<consensusVars, up, server, toClient, cacheVars, routeVars, timerVars,
                   serverUp, story>>

\* RpcSession::on_read, when nothing it started is still going on.
Reads(c, command) ==
    /\ client[c] \in {"reading", "registered"}
    /\ Free(Near[c])
    /\ Arrived(toClient, c, command)
    /\ toClient' = Take(toClient, c)

\* The server's secret becomes the session key of all the client's modules.
HelloConsensusResponse(c) ==
    /\ Reads(c, "HELLO_CONSENSUS")
    /\ UpdateSessionKey(Near[c], Head(toClient[c]).key)
    /\ UNCHANGED <<Generating, up, toServer, placeVars, cacheVars, routeVars, timerVars,
                   serverUp, story>>

\* RpcSession::buildConsensus: asked for when the last module has the key.
BuildConsensus(c) ==
    /\ Updated(Near[c])
    /\ work' = [work EXCEPT ![Near[c]] = [Idle EXCEPT !.op = "seed"]]
    /\ UNCHANGED <<Generating, wireVars, placeVars, cacheVars, routeVars, timerVars,
                   serverUp, story>>

SendConsensus(c) ==
    LET hashes == work[Near[c]].hashes
    IN  /\ work[Near[c]].op = "built"
        /\ Finish(Near[c])
        /\ toServer' = Put(toServer, c, [Say("HELLO_CONSENSUS") EXCEPT !.hashes = hashes])
        /\ story' = [story EXCEPT ![c].claimed = hashes]
        /\ UNCHANGED <<Generating, up, toClient, placeVars, cacheVars, routeVars,
                       timerVars, serverUp>>

\* Without a seed the exception is logged, nothing is written, and it reads on.
SendNothing(c) ==
    /\ work[Near[c]].op = "failed"
    /\ Finish(Near[c])
    /\ UNCHANGED <<Generating, wireVars, placeVars, cacheVars, routeVars, timerVars,
                   serverUp, story>>

\* ACCEPTED: a configured peer is asked for peers, one of those registers.
Accepted(c) ==
    /\ Reads(c, "ACCEPTED")
    /\ toServer' = Put(toServer, c, Say(IF c \in Peered THEN "REGISTER" ELSE "PEERS"))
    /\ UNCHANGED <<consensusVars, up, placeVars, cacheVars, routeVars, timerVars,
                   serverUp, story>>

\* closeResponse: nothing is read any more and the socket closes.
GoAway(c) ==
    /\ Reads(c, "GO_AWAY")
    /\ up' = up \ {c}
    /\ client' = [client EXCEPT ![c] = "ended"]
    /\ UNCHANGED <<consensusVars, toServer, server, cacheVars, routeVars, timerVars,
                   serverUp, story>>

Dialled(n) == {x \in Peered : Node[x] = n /\ client[x] = "none"}

\* setPeers runs a session for every address, then the connection is closed.
PeerResponse(c) ==
    /\ Reads(c, "PEERS")
    /\ up' = up \ {c}
    /\ client' = [x \in Conns |->
                     CASE x = c -> "ended"
                       [] x \in Dialled(Node[c]) /\ Server \in Head(toClient[c]).peers -> "made"
                       [] OTHER -> client[x]]
    /\ UNCHANGED <<consensusVars, toServer, server, cacheVars, routeVars, timerVars,
                   serverUp, story>>

\* registerResponse: the session is the one for routes to the server's account.
RegisterResponse(c) ==
    /\ Reads(c, "REGISTER")
    /\ mapping' = [mapping EXCEPT ![Node[c]] = c]
    /\ client' = [client EXCEPT ![c] = "registered"]
    /\ UNCHANGED <<consensusVars, up, toServer, server, sessions, peerCache, hello,
                   routeVars, timerVars, serverUp, story>>

\* An empty message, or the answer to a transaction: it only reads on.
ReadOn(c) ==
    /\ Reads(c, "") \/ Reads(c, "TRANSACTION_PROCESSED")
    /\ UNCHANGED <<consensusVars, up, toServer, placeVars, cacheVars, routeVars, timerVars,
                   serverUp, story>>

\* A read or a write fails: that is the end, and nothing is taken back.
ClientFails(c) ==
    /\ client[c] \in {"open", "reading", "registered"}
    /\ c \notin up
    /\ Free(Near[c])
    /\ client' = [client EXCEPT ![c] = "ended"]
    /\ toClient' = [toClient EXCEPT ![c] = <<>>]
    /\ UNCHANGED <<consensusVars, up, toServer, server, cacheVars, routeVars, timerVars,
                   serverUp, story>>

(***************************************************************************)
(* The server's strand.                                                    *)
(***************************************************************************)

\* session::on_read, when the answer to the message before has been written.
Handles(c, command) ==
    /\ serverUp
    /\ server[c] = "reading"
    /\ Free(Far[c])
    /\ Arrived(toServer, c, command)
    /\ toServer' = Take(toServer, c)

\* (A slip: the hello is read and not kept.)
HandleHelloForgetting(c) ==
    /\ Handles(c, "HELLO")
    /\ toClient' = Put(toClient, c, [Say("HELLO_CONSENSUS") EXCEPT !.key = secret[Server]])
    /\ UNCHANGED <<consensusVars, up, placeVars, cacheVars, routeVars, timerVars, serverUp, story>>

HandleHello(c) ==
    /\ Handles(c, "HELLO")
    /\ hello' = hello \cup {c}
    /\ toClient' = Put(toClient, c, [Say("HELLO_CONSENSUS") EXCEPT !.key = secret[Server]])
    /\ UNCHANGED <<consensusVars, up, placeVars, sessions, peerCache, mapping, routeVars,
                   timerVars, serverUp, story>>

\* handleHelloConsensus: the event of the validation ...
HandleHelloConsensus(c) ==
    /\ Handles(c, "HELLO_CONSENSUS")
    /\ c \in hello
    /\ work' = [work EXCEPT ![Far[c]] =
                    [Idle EXCEPT !.op = "validate", !.hashes = Head(toServer[c]).hashes]]
    /\ story' = [story EXCEPT ![c].disturbed = ~Free(Timer) \/ scripted[Server] # Generator]
    /\ UNCHANGED <<Generating, up, toClient, placeVars, cacheVars, routeVars, timerVars, serverUp>>

\* (A slip: the client is closed with the wrong command.)
VerdictClose(c) == IF Valid(Far[c]) THEN "ACCEPTED" ELSE "CLOSE"

Verdict(c) == IF Valid(Far[c]) THEN "ACCEPTED" ELSE "GO_AWAY"

\* (A slip: a rejected client is told nothing.)
AnswerSilently(c) == IF Valid(Far[c]) THEN Put(toClient, c, Say(Verdict(c))) ELSE toClient

\* ... and the answer.  Whoever is told to go away is left to close.
Answer(c) == Put(toClient, c, Say(Verdict(c)))

AnswerConsensus(c) ==
    /\ serverUp
    /\ work[Far[c]].op = "validated"
    /\ toClient' = Answer(c)
    /\ story' = [story EXCEPT ![c].answer = Verdict(c)]
    /\ Finish(Far[c])
    /\ UNCHANGED <<Generating, up, toServer, placeVars, cacheVars, routeVars, timerVars, serverUp>>

\* (A slip: the client is told of the peers before the server has put itself in.)
PeersBefore(c) == peerCache \ {Node[c]}

\* setExternalIp, addPeer, then every address but the client's own.
Peers(c) == (peerCache \cup {Server, Node[c]}) \ {Node[c]}

HandlePeer(c) ==
    /\ Handles(c, "PEERS")
    /\ c \in hello
    /\ peerCache' = peerCache \cup {Server, Node[c]}
    /\ toClient' = Put(toClient, c, [Say("PEERS") EXCEPT !.peers = Peers(c)])
    /\ UNCHANGED <<consensusVars, up, placeVars, sessions, mapping, hello, routeVars,
                   timerVars, serverUp, story>>

\* The other sessions of its account that the server has not seen closed.
Beside(c) == {d \in Conns \ {c} : Node[d] = Node[c] /\ server[d] # "ended"}

\* The session is there for call backs before the router knows of its accounts.
HandleRegister(c) ==
    /\ Handles(c, "REGISTER")
    /\ c \in hello
    /\ sessions' = [sessions EXCEPT ![Node[c]] = c]
    /\ toClient' = Put(toClient, c, Say("REGISTER"))
    /\ story' = [story EXCEPT ![c].beside = Beside(c)]
    /\ UNCHANGED <<consensusVars, up, placeVars, peerCache, mapping, hello, routeVars,
                   timerVars, serverUp>>

\* What the routing does with the message is in MessageRouting.
HandleTransaction(c) ==
    /\ Handles(c, "TRANSACTION")
    /\ c \in hello
    /\ toClient' = Put(toClient, c, Say("TRANSACTION_PROCESSED"))
    /\ UNCHANGED <<consensusVars, up, placeVars, cacheVars, routeVars, timerVars,
                   serverUp, story>>

\* The process is gone, and with it every connection.
Crash ==
    /\ serverUp' = FALSE
    /\ up' = {}
    /\ toClient' = [c \in Conns |-> <<>>]
    /\ toServer' = [c \in Conns |-> <<>>]

\* Any command but the hello uses the hello's account: there is none, and the
\* dereference of the null pointer is no exception.
CommandBeforeHello(c) ==
    /\ serverUp
    /\ server[c] = "reading"
    /\ Free(Far[c])
    /\ toServer[c] # <<>> /\ Head(toServer[c]).command # "HELLO"
    /\ c \notin hello
    /\ Crash
    /\ UNCHANGED <<consensusVars, placeVars, cacheVars, routeVars, timerVars, story>>

\* A closed session takes the session of its account away, whichever it is.
SessionsWithout(c) == [sessions EXCEPT ![Node[c]] = None]

ServerCloses(c) ==
    /\ serverUp
    /\ server[c] = "reading"
    /\ c \notin up
    /\ Free(Far[c])
    /\ server' = [server EXCEPT ![c] = "ended"]
    /\ toServer' = [toServer EXCEPT ![c] = <<>>]
    /\ sessions' = IF c \in hello THEN SessionsWithout(c) ELSE sessions
    /\ UNCHANGED <<consensusVars, up, toClient, client, peerCache, mapping, hello,
                   routeVars, timerVars, serverUp, story>>

(***************************************************************************)
(* Routes, from other threads, and the network.                            *)
(***************************************************************************)

\* RpcServer::routeTransaction: hasSession, or an exception ...
RouteFound(n) ==
    /\ serverUp
    /\ routing = None
    /\ routed < MaxRoutes
    /\ sessions[n] # None
    /\ routing' = n
    /\ routed' = routed + 1
    /\ UNCHANGED <<consensusVars, wireVars, placeVars, cacheVars, timerVars, serverUp, story>>

\* ... then getSession.  What is written is the session's own buffer: nothing,
\* or once more the answer that is being written.
RouteWrite ==
    /\ serverUp
    /\ routing # None
    /\ routing' = None
    /\ LET c == sessions[routing] IN
       /\ c # None
       /\ \/ c \in up /\ toClient' = Put(toClient, c, Say("")) /\ UNCHANGED sessions
          \/ /\ c \in up /\ toClient[c] # <<>>
             /\ toClient' = Put(toClient, c, toClient[c][Len(toClient[c])])
             /\ UNCHANGED sessions
          \/ /\ c \notin up
             /\ sessions' = SessionsWithout(c)
             /\ UNCHANGED toClient
    /\ UNCHANGED <<consensusVars, up, toServer, placeVars, peerCache, mapping, hello,
                   routed, timerVars, serverUp, story>>

\* The session has closed between the two: a null pointer is put in and used.
RouteToNobody ==
    /\ serverUp
    /\ routing # None
    /\ sessions[routing] = None
    /\ routing' = None
    /\ Crash
    /\ UNCHANGED <<consensusVars, placeVars, cacheVars, routed, timerVars, story>>

\* RpcSessionManager::routeTransaction: the session of the account or else the
\* default peer, the first of all that were made, whatever became of it.
Candidates(n) ==
    IF mapping[n] # None THEN {mapping[n]}
    ELSE {c \in Conns : Node[c] = n /\ client[c] # "none"}

RouteUp(n) ==
    /\ routed < MaxRoutes
    /\ \E c \in Candidates(n) : toServer' = Put(toServer, c, Say("TRANSACTION"))
    /\ routed' = routed + 1
    /\ UNCHANGED <<consensusVars, up, toClient, placeVars, cacheVars, routing, timerVars,
                   serverUp, story>>

\* The network loses a connection and what is under way on it.
Lose(c) ==
    /\ c \in up \cap MayLose
    /\ up' = up \ {c}
    /\ toServer' = [toServer EXCEPT ![c] = <<>>]
    /\ toClient' = [toClient EXCEPT ![c] = <<>>]
    /\ UNCHANGED <<consensusVars, placeVars, cacheVars, routeVars, timerVars, serverUp, story>>

ClientStep(c) ==
    \/ Connect(c) \/ Unreachable(c) \/ OnHandshake(c) \/ HelloConsensusResponse(c)
    \/ BuildConsensus(c) \/ SendConsensus(c) \/ SendNothing(c) \/ Accepted(c)
    \/ GoAway(c) \/ PeerResponse(c) \/ RegisterResponse(c) \/ ReadOn(c) \/ ClientFails(c)

ServerStep(c) ==
    \/ HandleHello(c) \/ HandleHelloConsensus(c) \/ AnswerConsensus(c) \/ HandlePeer(c)
    \/ HandleRegister(c) \/ HandleTransaction(c) \/ CommandBeforeHello(c) \/ ServerCloses(c)

Next ==
    \/ Process
    \/ Rearm
    \/ \E t \in Threads : Compute(t)
    \/ \E c \in Conns : ClientStep(c) \/ ServerStep(c) \/ Lose(c)
    \/ \E n \in Clients : RouteFound(n) \/ RouteUp(n)
    \/ RouteWrite
    \/ RouteToNobody

Spec == Init /\ [][Next]_vars

\* Every thread is run by its io_context until it stops; nothing else is sure.
FairSpec ==
    /\ Spec
    /\ WF_vars(Process) /\ WF_vars(Rearm)
    /\ \A t \in Threads : WF_vars(Compute(t))
    /\ \A c \in Conns : WF_vars(ClientStep(c)) /\ WF_vars(ServerStep(c))
    /\ WF_vars(RouteWrite)

(***************************************************************************)
(* Properties.                                                             *)
(***************************************************************************)

\* Types, and what ties an end of a connection to its threads.
TypeOK ==
    /\ ConsensusTypeOK
    /\ client \in [Conns -> {"none", "made", "open", "reading", "registered", "ended"}]
    /\ server \in [Conns -> {"none", "reading", "ended"}]
    /\ toServer \in [Conns -> Seq(Message)] /\ toClient \in [Conns -> Seq(Message)]
    /\ \A c \in Conns : /\ client[c] \in {"none", "made"} => Free(Near[c]) /\ Free(Far[c])
                        /\ work[Far[c]].op \in {"idle", "validate", "validated"}
    /\ sessions \in [Clients -> Conns \cup {None}]
    /\ mapping \in [Clients -> Conns \cup {None}]
    /\ \A n \in Clients : /\ sessions[n] # None => Node[sessions[n]] = n
                          /\ mapping[n] # None => Node[mapping[n]] = n
    /\ peerCache \subseteq Nodes
    /\ currentPos \in 0 .. Len(SessionKeys) /\ processed \in 0 .. MaxProcess
    /\ routing \in Clients \cup {None} /\ routed \in 0 .. MaxRoutes
    /\ serverUp \in BOOLEAN
    /\ story \in [Conns -> [claimed : SUBSET Hash, answer : {"", "ACCEPTED", "GO_AWAY"},
                             disturbed : BOOLEAN, beside : SUBSET Conns]]
    /\ up \subseteq Conns /\ hello \subseteq Conns

ServerHash == {HashOf(Server, m) : m \in Module}
Foreign(n) == \E m \in Module : HashOf(n, m) # HashOf(Server, m)

\* handleRegister does not ask for the verdict: it relies on the client's order.
\* Whoever is kept for call backs was accepted, with hashes of the same code.
RegisteredVouched ==
    \A n \in Clients : sessions[n] # None =>
        /\ story[sessions[n]].answer = "ACCEPTED"
        /\ story[sessions[n]].claimed \subseteq ServerHash

\* validateConsensus hashes anew, module by module, while the key may change:
\* a client with the same code is only sent away when a change overlapped, or
\* when a module of the server has had no key yet that opened its script.
GenuineKept ==
    \A c \in Conns :
        story[c].answer = "GO_AWAY" => Foreign(Node[c]) \/ story[c].disturbed

\* on_read uses the hello of the session for every other command: but for a
\* transaction that overtakes it, no command is under way before the hello is.
HelloKnown ==
    \A c \in Conns : c \notin hello =>
        \A i \in 1 .. Len(toServer[c]) : toServer[c][i].command \in {"HELLO", "TRANSACTION"}

\* A client closes when it has the peers: it must be told of one that is not
\* itself, the server at least, or it is left without any connection.
PeersComplete ==
    \A c \in Conns : \A i \in 1 .. Len(toClient[c]) :
        toClient[c][i].command = "PEERS" =>
            Server \in toClient[c][i].peers /\ Node[c] \notin toClient[c][i].peers

\* Once the server has a secret that is sure to open the seed's script, a handshake comes
\* to its end: client and server never both wait for the other to write.
HandshakesEnd ==
    \A c \in Conns :
        (client[c] = "open" /\ Opens[secret[Server]]["seed"] = {TRUE})
            ~> (client[c] \in {"registered", "ended"})

\* A session that the server had not seen closed when c registered is closed: the
\* server read it since (on_read, 230), or a route found it (on_outBoundWrite).
TakenBeside(c) ==
    \E d \in story[c].beside : /\ d \in hello \ up
                               /\ server[d] = "ended" \/ d \in Peered

\* "add this session for call backs" (RpcServer.cpp:452): a client that has
\* registered and is connected is called back on that session or on a later one of
\* its account.  The one exception is the code's: another session of the account,
\* which the server had still to see closed, takes the entry away as it closes.
\* What was closed before the registration takes nothing.
KeptForCallBacks ==
    \A c \in Conns : serverUp /\ c \in up /\ client[c] = "registered" =>
        sessions[Node[c]] \in {c} \cup story[c].beside \/ TakenBeside(c)

\* What the server keeps of a session is there for its handlers and for the routes
\* down.  That a transaction before the hello ends the process, and a route whose
\* session closes meanwhile, are steps of the model (CommandBeforeHello,
\* RouteToNobody) that nothing here forbids.
SessionsServed == HelloKnown /\ KeptForCallBacks

\* The consensus tells the same code from other code, through every change of
\* the key.
Vouched == RegisteredVouched /\ GenuineKept
=============================================================================
