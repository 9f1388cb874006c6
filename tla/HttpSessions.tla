---------------------------- MODULE HttpSessions ----------------------------
(***************************************************************************)
(* The HTTP server (src/src/modules/http_server), the sessions of its      *)
(* requests (src/src/libs/http_server_session), their keys in the keystore *)
(* (src/src/modules/keystore) and the programs that call it: the command   *)
(* line client (src/src/programs/cli, src/src/libs/http_client_session),   *)
(* one connection a request, and a browser that fetches files over one.    *)
(*                                                                         *)
(* An HTTP session of the server is a strand; at most HttpThreads of them  *)
(* run a handler.  The maps of HttpSessionManager have no lock: an insert  *)
(* while another handler is about to use them may be lost.                 *)
(***************************************************************************)
EXTENDS Integers, FiniteSets

CONSTANTS
    Programs,    \* processes that call the server, each runs once
    Keys,        \* their public keys
    KeyOf,       \* [Programs -> Keys], the public key a program is configured with
    Commands,    \* [Programs -> what each may be run for]
    Trusted,     \* keys in the server's directory of public keys
    HttpThreads, \* Constants::HTTP_THREADS
    None,
    MaxStarts,   \* bound on the starts of the server
    MaxFiles     \* bound on the files a browser fetches over one connection

ASSUME HttpAssumption ==
    /\ KeyOf \in [Programs -> Keys]
    /\ Commands \in [Programs -> SUBSET {"session", "transaction", "query", "files"}]
    /\ None \notin {"ok", "hello", "session", "transaction", "query"}
    /\ Trusted \subseteq Keys
    /\ HttpThreads \in Nat \ {0} /\ MaxStarts \in Nat \ {0}
    /\ IsFiniteSet(Programs)
    /\ None \notin [key : Keys, id : Nat]

VARIABLES
    up,               \* the server's process: "up", "stopping", "down"
    starts,           \* starts of the server so far
    conn,             \* [Programs -> the server's end of its connection]
    clientHashMap,    \* [Keys -> HttpSession or None]
    clientSessionMap, \* hash -> HttpSession
    sessionKeys,      \* SessionKeyManager: hashes with a key
    made,             \* HttpSession objects made so far
    prog,             \* [Programs -> state of the process]
    printed,          \* session hashes printed by programs that have ended
    routed,           \* history: programs whose transaction was routed
    welcomed,         \* history: session hashes this process has replied with
    raced             \* history: an insert raced with another use of the maps

serverVars == <<clientHashMap, clientSessionMap, sessionKeys, made, welcomed, raced>>
vars == <<up, starts, conn, serverVars, prog, printed, routed>>

Handler == {"hello", "make", "store", "session", "route", "query", "commit"}
AtMaps == {"hello", "store", "session"}
NoReply == [status |-> None, hash |-> None]
Closed == [at |-> "free", target |-> None, hash |-> None, object |-> None,
           reply |-> NoReply, asked |-> FALSE, close |-> FALSE, hung |-> FALSE]
Objects == {[key |-> k, id |-> i] : k \in Keys, i \in 1..(Cardinality(Programs) * MaxStarts)}

\* (A slip: no time and no random number in the hash.)
SessionHashPlain(s) == <<s.key, 0>>
\* SessionHashGenerator: time and a random number make each hash another one.
SessionHash(s) == <<s.key, s.id>>

Hashes == {SessionHash(s) : s \in Objects}

Init ==
    /\ up = "up" /\ starts = 1
    /\ conn = [p \in Programs |-> Closed]
    /\ clientHashMap = [k \in Keys |-> None]
    /\ clientSessionMap = <<>>
    /\ sessionKeys = {}
    /\ made = 0 /\ welcomed = {}
    /\ prog = [p \in Programs |-> [at |-> "off", command |-> None, signs |-> FALSE,
                                   hash |-> None, fetched |-> 0, code |-> None]]
    /\ printed = {} /\ routed = {} /\ raced = FALSE

(***************************************************************************)
(* The programs.                                                           *)
(***************************************************************************)

Exit(p, code) == prog' = [prog EXCEPT ![p].at = "exit", ![p].code = code]

\* main: a command, the two keys, which may not belong together, and an exit
\* when an option is missing.
Run(p) ==
    /\ prog[p].at = "off"
    /\ \E command \in Commands[p], complete, signs \in BOOLEAN :
           IF complete
           THEN \E h \in IF command = "query" THEN printed \cup {None} ELSE {None} :
                    prog' = [prog EXCEPT ![p].at = "dial", ![p].command = command,
                                   ![p].signs = signs, ![p].hash = h]
           ELSE Exit(p, "failed")
    /\ UNCHANGED <<up, starts, conn, serverVars, printed, routed>>

\* What a program asks next: the hello comes first, when it has no session.
Target(p) ==
    CASE prog[p].command \in {"transaction", "session"} ->
             IF prog[p].hash = None THEN "hello" ELSE "transaction"
      [] OTHER -> prog[p].command

\* HttpSession::makeRequest of the client: a connection, then the request.
MakeRequest(p) ==
    /\ prog[p].at = "dial"
    /\ IF up = "down"
       THEN Exit(p, "failed") /\ UNCHANGED conn
       ELSE /\ conn[p] = Closed
            /\ conn' = [conn EXCEPT ![p] = [Closed EXCEPT !.at = "backlog", !.target = Target(p),
                                                          !.asked = TRUE, !.hash = prog[p].hash]]
            /\ prog' = [prog EXCEPT ![p].at = "wait"]
    /\ UNCHANGED <<up, starts, serverVars, printed, routed>>

\* HttpSession::makeRequest and handShake: what is taken as a success.
Ok(reply) == reply.status = "ok"

\* The program reads its response and shuts the stream down.
ReadResponse(p) ==
    LET reply == conn[p].reply
        hello == Target(p) = "hello"
        fails == ~Ok(reply) \/ (hello /\ reply.hash = None)
    IN  /\ prog[p].at = "wait"
        /\ reply.status # None
        /\ conn' = [conn EXCEPT ![p].reply = NoReply, ![p].hung = conn[p].at # "free"]
        /\ \/ fails /\ Exit(p, "failed")
           \/ /\ ~fails /\ hello /\ prog[p].command = "transaction"
              /\ prog' = [prog EXCEPT ![p].at = "dial", ![p].hash = reply.hash]
           \/ /\ ~fails /\ ~(hello /\ prog[p].command = "transaction")
              /\ Exit(p, "ok")
        /\ printed' = printed \cup (IF hello /\ prog[p].command = "session" /\ Ok(reply)
                                    THEN {reply.hash} \ {None} ELSE {})
    /\ UNCHANGED <<up, starts, serverVars, routed>>

\* A browser asks for another file over the connection it has.
FetchAnother(p) ==
    /\ prog[p].at = "wait"
    /\ conn[p].at # "free"
    /\ prog[p].command = "files" /\ prog[p].fetched < MaxFiles
    /\ conn[p].reply.status # None
    /\ conn' = [conn EXCEPT ![p].reply = NoReply, ![p].asked = TRUE]
    /\ prog' = [prog EXCEPT ![p].fetched = @ + 1]
    /\ UNCHANGED <<up, starts, serverVars, printed, routed>>

\* The connection is lost, or the program is killed, before the response.
LoseConnection(p) ==
    /\ prog[p].at = "wait"
    /\ conn[p].reply.status = None
    /\ conn' = [conn EXCEPT ![p].hung = TRUE]
    /\ Exit(p, "failed")
    /\ UNCHANGED <<up, starts, serverVars, printed, routed>>

(***************************************************************************)
(* The connection, as the server sees it.                                  *)
(***************************************************************************)

Running == {p \in Programs : conn[p].at \in Handler}
At(p, here) == up = "up" /\ conn[p].at = here
\* A stop does not interrupt a handler.
In(p, here) == up # "down" /\ conn[p].at = here
Goes(p, there) == conn' = [conn EXCEPT ![p].at = there]
Ends(p) == conn' = [conn EXCEPT ![p] = Closed]

\* on_accept and on_handshake: a session runs, and the listener accepts again.
OnHandshake(p) ==
    /\ At(p, "backlog")
    /\ IF conn[p].hung THEN Ends(p) ELSE Goes(p, "read")
    /\ UNCHANGED <<up, starts, serverVars, prog, printed, routed>>

Reply(p, status, hash, there) ==
    [conn EXCEPT ![p].reply = [status |-> status, hash |-> hash], ![p].at = there]

\* Where handle_request goes; files are answered there and then.
Handling(p) ==
    CASE conn[p].target = "hello" -> "hello"
      [] conn[p].target \in {"transaction", "query"} -> "session"
      [] OTHER -> "write"

\* A request is read by a thread that is free.
OnRead(p) ==
    /\ At(p, "read")
    /\ conn[p].asked
    /\ Cardinality(Running) < HttpThreads
    /\ IF Handling(p) = "write"
       THEN \E status \in {"ok", "bad_request", "not_found", "server_error"} :
                conn' = [Reply(p, status, None, "write") EXCEPT ![p].asked = FALSE]
       ELSE conn' = [conn EXCEPT ![p].at = Handling(p), ![p].asked = FALSE]
    /\ UNCHANGED <<up, starts, serverVars, prog, printed, routed>>

\* on_read of the end of the stream, or of another error.
OnEnd(p) ==
    /\ At(p, "read")
    /\ conn[p].hung
    /\ Goes(p, "close") \/ Ends(p)
    /\ UNCHANGED <<up, starts, serverVars, prog, printed, routed>>

\* on_write: the handler is done; close as the response says, or read again.
OnWrite(p) ==
    /\ At(p, "write")
    /\ \/ Goes(p, IF conn[p].close THEN "close" ELSE "read")
       \/ conn[p].hung /\ Ends(p)
    /\ UNCHANGED <<up, starts, serverVars, prog, printed, routed>>

\* on_shutdown, once the client has shut down its end or failed to.
OnShutdown(p) ==
    /\ At(p, "close")
    /\ conn[p].hung
    /\ Ends(p)
    /\ UNCHANGED <<up, starts, serverVars, prog, printed, routed>>

(***************************************************************************)
(* The handlers of HttpRequestManager::handle_request.                     *)
(***************************************************************************)

\* (A slip: the signature is not checked.)
ValidByHash(p) == KeyOf[p] \in Trusted
\* HttpSessionManager::validateRemoteHash.
Valid(p) == KeyOf[p] \in Trusted /\ prog[p].signs

\* (A slip: the exception is logged and nothing is sent.)
FailSilently(p) == Goes(p, "write")
\* handle_request's catch: the exception is the body of a server error.
Fail(p) == conn' = Reply(p, "server_error", None, "write")

\* processHello: GO_AWAY, or the session the client already has.
Hello(p) ==
    LET s == clientHashMap[KeyOf[p]]
        Welcomes == /\ conn' = Reply(p, "ok", SessionHash(s), "commit")
                    /\ welcomed' = welcomed \cup {SessionHash(s)}
    IN  /\ In(p, "hello")
        /\ CASE ~Valid(p) -> conn' = Reply(p, "ok", None, "commit") /\ UNCHANGED welcomed
             [] Valid(p) /\ s # None -> Welcomes
             [] OTHER -> Goes(p, "make") /\ UNCHANGED welcomed
        /\ UNCHANGED <<up, starts, clientHashMap, clientSessionMap, sessionKeys, made, raced,
                       prog, printed, routed>>

\* HttpSession::HttpSession and SessionKeyManager::requestKey.
MakeSession(p) ==
    LET s == [key |-> KeyOf[p], id |-> made + 1]
    IN  /\ In(p, "make")
        /\ made' = made + 1
        /\ sessionKeys' = sessionKeys \cup {SessionHash(s)}
        /\ conn' = [conn EXCEPT ![p].at = "store", ![p].object = s]
        /\ UNCHANGED <<up, starts, clientHashMap, clientSessionMap, welcomed, raced, prog,
                       printed, routed>>

\* (A slip: inserted under the client's hash.)
InsertedByKey(s) ==
    [h \in DOMAIN clientSessionMap \cup {s.key} |-> IF h = s.key THEN s ELSE clientSessionMap[h]]
\* processHello: clientSessionMap[ptr->getSessionHash()] = ptr.
Inserted(s) ==
    [h \in DOMAIN clientSessionMap \cup {SessionHash(s)} |->
        IF h = SessionHash(s) THEN s ELSE clientSessionMap[h]]

InMaps(byClient, byHash) ==
    {byClient[k] : k \in Keys} \cup {byHash[h] : h \in DOMAIN byHash}

\* processHello inserts the session; ~HttpSession of one no map holds any more
\* removes its key.  A racing insert may leave either map as it was.
StoreSession(p) ==
    LET s == conn[p].object
        races == \E q \in Running \ {p} : conn[q].at \in AtMaps
    IN  /\ In(p, "store")
        /\ clientHashMap' \in {[clientHashMap EXCEPT ![s.key] = s]}
                                 \cup (IF races THEN {clientHashMap} ELSE {})
        /\ clientSessionMap' \in {Inserted(s)} \cup (IF races THEN {clientSessionMap} ELSE {})
        /\ raced' = (raced \/ races)
        /\ LET gone == (InMaps(clientHashMap, clientSessionMap) \cup {s})
                           \ (InMaps(clientHashMap', clientSessionMap') \cup {None})
           IN  sessionKeys' = sessionKeys \ {SessionHash(o) : o \in gone}
        /\ conn' = [Reply(p, "ok", SessionHash(s), "commit") EXCEPT ![p].object = None]
        /\ welcomed' = welcomed \cup {SessionHash(s)}
        /\ UNCHANGED <<up, starts, made, prog, printed, routed>>

\* processTransaction and processQuery: isValid, or InvalidSessionException.
CheckSession(p) ==
    /\ In(p, "session")
    /\ IF conn[p].hash \in DOMAIN clientSessionMap
       THEN Goes(p, IF conn[p].target = "query" THEN "query" ELSE "route")
       ELSE Fail(p)
    /\ UNCHANGED <<up, starts, serverVars, prog, printed, routed>>

\* ROUTE_MESSAGE is answered, or throws; the answer is on its way at once.
RouteTransaction(p) ==
    /\ In(p, "route")
    /\ \/ /\ conn' = Reply(p, "ok", None, "commit")
          /\ routed' = routed \cup {p}
       \/ /\ Fail(p)
          /\ UNCHANGED routed
    /\ UNCHANGED <<up, starts, serverVars, prog, printed>>

\* SPARQL_QUERY_MESSAGE; the reply forces the connection to close.
Query(p) ==
    /\ In(p, "query")
    /\ \/ conn' = [Reply(p, "ok", None, "commit") EXCEPT ![p].close = TRUE]
       \/ Fail(p)
    /\ UNCHANGED <<up, starts, serverVars, prog, printed, routed>>

\* handle_request commits after it has sent: the handler is over.
Commit(p) ==
    /\ In(p, "commit")
    /\ Goes(p, "write")
    /\ UNCHANGED <<up, starts, serverVars, prog, printed, routed>>

(***************************************************************************)
(* The process.                                                            *)
(***************************************************************************)

\* All that is in memory goes; who waits gets the bytes sent, or an error.
Gone ==
    /\ up' = "down"
    /\ conn' = [p \in Programs |-> [Closed EXCEPT !.reply = conn[p].reply]]
    /\ clientHashMap' = [k \in Keys |-> None]
    /\ clientSessionMap' = <<>>
    /\ sessionKeys' = {} /\ welcomed' = {}
    /\ prog' = [p \in Programs |->
                   IF prog[p].at = "wait" /\ conn[p].reply.status = None
                   THEN [prog[p] EXCEPT !.at = "exit", !.code = "failed"]
                   ELSE prog[p]]

\* HttpdServer::stop: no handler starts any more.
Stop ==
    /\ up = "up"
    /\ up' = "stopping"
    /\ UNCHANGED <<starts, conn, serverVars, prog, printed, routed>>

\* The threads are joined and the process ends.
Stopped ==
    /\ up = "stopping"
    /\ Running = {}
    /\ Gone
    /\ UNCHANGED <<starts, made, raced, printed, routed>>

Crash ==
    /\ up # "down"
    /\ Gone
    /\ UNCHANGED <<starts, made, raced, printed, routed>>

Start ==
    /\ up = "down"
    /\ starts < MaxStarts
    /\ up' = "up"
    /\ starts' = starts + 1
    /\ UNCHANGED <<conn, serverVars, prog, printed, routed>>

(***************************************************************************)
(* The whole.                                                              *)
(***************************************************************************)

Program(p) == Run(p) \/ MakeRequest(p) \/ ReadResponse(p) \/ FetchAnother(p)

Serve(p) ==
    \/ OnHandshake(p) \/ OnRead(p) \/ OnEnd(p) \/ OnWrite(p) \/ OnShutdown(p)
    \/ Hello(p) \/ MakeSession(p) \/ StoreSession(p)
    \/ CheckSession(p) \/ RouteTransaction(p) \/ Query(p) \/ Commit(p)

Next ==
    \/ \E p \in Programs : Program(p) \/ LoseConnection(p) \/ Serve(p)
    \/ Stop \/ Stopped \/ Crash \/ Start

Spec == Init /\ [][Next]_vars

\* The programs run, the server's threads run, and a stop ends the process.
FairSpec ==
    /\ Spec
    /\ \A p \in Programs :
           /\ WF_vars(MakeRequest(p)) /\ WF_vars(ReadResponse(p))
           /\ WF_vars(Serve(p))
    /\ WF_vars(Stopped)

(***************************************************************************)
(* Properties.                                                             *)
(***************************************************************************)

\* Every variable keeps its type; a handler that stores a session holds it.
TypeOK ==
    /\ up \in {"up", "stopping", "down"} /\ starts \in 1..MaxStarts
    /\ \A p \in Programs :
           /\ conn[p].at \in Handler \cup {"free", "backlog", "read", "write", "close"}
           /\ conn[p].hash \in Hashes \cup {None}
           /\ conn[p].at = "store" <=> conn[p].object \in Objects
           /\ prog[p].at \in {"off", "dial", "wait", "exit"}
    /\ clientHashMap \in [Keys -> Objects \cup {None}]
    /\ \A h \in DOMAIN clientSessionMap : SessionHash(clientSessionMap[h]) = h
    /\ sessionKeys \subseteq Hashes /\ welcomed \subseteq Hashes
    /\ Cardinality(Running) <= HttpThreads

\* HttpSessionManager::processHello and ~HttpSession: a session a client was
\* welcomed with stays valid, and its key stays in the keystore, for as long
\* as the process lives, however many hellos of that client overlap.
WelcomedServed ==
    ~raced => welcomed \subseteq DOMAIN clientSessionMap \cap sessionKeys

\* validateRemoteHash and isValid: what is routed came from a program that
\* holds the private key of a public key this server knows, also when the
\* session was given to it by an earlier process of the server.
RoutedKnown == \A p \in routed : prog[p].signs /\ KeyOf[p] \in Trusted

\* generateTransaction's exit code: who ends well has had its transaction
\* routed, though the server may have stopped in between.  (Who fails may
\* have had it routed as well: its response was lost.)
OkMeansRouted ==
    \A p \in Programs :
        prog[p].at = "exit" /\ prog[p].code = "ok" /\ prog[p].command = "transaction"
            => p \in routed

\* A transaction's way from program to router is told truly at both ends.
Routed == RoutedKnown /\ OkMeansRouted

\* handle_request's catches, on_write and stop: no program waits for ever.
ProgramsEnd ==
    \A p \in Programs : prog[p].at \in {"dial", "wait"} ~> prog[p].at = "exit"
=============================================================================
