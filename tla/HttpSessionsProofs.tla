------------------------- MODULE HttpSessionsProofs -------------------------
(***************************************************************************)
(* Theorems about the HTTP sessions, for any number of programs, keys,     *)
(* threads and starts of the server.                                       *)
(***************************************************************************)
EXTENDS HttpSessions, TLAPS, FiniteSetTheorems

Object == [key : Keys, id : Nat]
Hash == Keys \X Nat
Command == {"session", "transaction", "query", "files"}
Place == Handler \cup {"free", "backlog", "read", "write", "close"}
Status == {"ok", "bad_request", "not_found", "server_error"}

ConnType ==
    [at : Place, target : Command \cup {"hello", None}, hash : Hash \cup {None},
     object : Object \cup {None},
     reply : [status : Status \cup {None}, hash : Hash \cup {None}],
     asked : BOOLEAN, close : BOOLEAN, hung : BOOLEAN]

ProgType ==
    [at : {"off", "dial", "wait", "exit"}, command : Command \cup {None}, signs : BOOLEAN,
     hash : Hash \cup {None}, fetched : Nat, code : {"ok", "failed", None}]

Types ==
    /\ conn \in [Programs -> ConnType]
    /\ prog \in [Programs -> ProgType]
    /\ made \in Nat
    /\ clientHashMap \in [Keys -> Object \cup {None}]
    /\ DOMAIN clientSessionMap \subseteq Hash
    /\ clientSessionMap \in [DOMAIN clientSessionMap -> Object]
    /\ printed \subseteq Hash
    /\ routed \subseteq Programs

(* A handler is at work on what it was asked for, with what it stores. *)
AtItsTarget(p) ==
    /\ conn[p].at \in {"hello", "make", "store"} => conn[p].target = "hello"
    /\ conn[p].at = "store" => conn[p].object \in Object
    /\ conn[p].at = "session" => conn[p].target \in {"transaction", "query"}
    /\ conn[p].at = "route" => conn[p].target = "transaction"
    /\ conn[p].at = "query" => conn[p].target = "query"

(* Whatever tells of a session, or follows from one, is a known key's. *)
OnlyKnown(p) ==
    \/ conn[p].at \in {"make", "store"}
    \/ conn[p].reply.hash # None
    \/ conn[p].target = "transaction"
    \/ prog[p].command \in {"transaction", "session"} /\ prog[p].hash # None
    \/ p \in routed
    => Valid(p)

(* A program that has not run has left nothing; one that waits has the     *)
(* connection to itself, or has its answer.                                *)
Quiet(p) ==
    prog[p].at = "off" => conn[p] = Closed /\ prog[p].hash = None /\ p \notin routed
Waiting(p) ==
    prog[p].at = "wait" => /\ ~conn[p].hung
                           /\ conn[p].at = "free" \/ conn[p].target = Target(p)

(* What a program is told, and what it tells, is so. *)
Told(p) ==
    /\ prog[p].at = "wait" /\ conn[p].reply.status = "ok" /\ Target(p) = "transaction"
           => p \in routed
    /\ prog[p].at = "exit" /\ prog[p].code = "ok" /\ prog[p].command = "transaction"
           => p \in routed

Story(p) == AtItsTarget(p) /\ OnlyKnown(p) /\ Quiet(p) /\ Waiting(p) /\ Told(p)
RoutedInv == Types /\ \A p \in Programs : Story(p)

----------------------------------------------------------------------------
\* A step that leaves a program, its connection and its fate alone.
LEMMA Bystander ==
    ASSUME NEW q \in Programs, Story(q), prog'[q] = prog[q], conn'[q] = conn[q],
           (q \in routed') <=> (q \in routed)
    PROVE  Story(q)'
  BY DEF Story, AtItsTarget, OnlyKnown, Quiet, Waiting, Told, Valid, Target, Closed, NoReply

\* The hash of a session is a key and a number.
LEMMA HashIsHash == \A s \in Object : SessionHash(s) \in Hash
  BY DEF Object, Hash, SessionHash

\* At the start nobody has told anything.
LEMMA RoutedStart == Init => RoutedInv
<1> SUFFICES ASSUME Init PROVE RoutedInv
  OBVIOUS
<1>1. Closed \in ConnType
  BY DEF Closed, NoReply, ConnType, Place
<1>2. Types
  <2>1. clientSessionMap = << >> /\ DOMAIN clientSessionMap = {}
    BY DEF Init
  <2>2. clientSessionMap \in [DOMAIN clientSessionMap -> Object]
    BY <2>1
  <2>3. conn \in [Programs -> ConnType]
    BY <1>1 DEF Init
  <2>4. prog \in [Programs -> ProgType]
    BY DEF Init, ProgType
  <2>5. clientHashMap \in [Keys -> Object \cup {None}]
    BY DEF Init
  <2> QED
    BY <2>1, <2>2, <2>3, <2>4, <2>5 DEF Init, Types
<1>3. ASSUME NEW p \in Programs PROVE Story(p)
  <2>1. conn[p] = Closed /\ prog[p].at = "off" /\ prog[p].command = None /\ p \notin routed
    BY DEF Init
  <2>2. /\ Closed.at = "free" /\ Closed.target = None /\ ~Closed.hung
        /\ Closed.reply.hash = None /\ Closed.reply.status = None
    BY DEF Closed, NoReply
  <2>3. None \notin {"transaction", "session", "hello", "query"}
    BY HttpAssumption
  <2>4. AtItsTarget(p) /\ OnlyKnown(p)
    BY <2>1, <2>2, <2>3 DEF AtItsTarget, OnlyKnown
  <2> QED
    BY <2>1, <2>2, <2>4 DEF Init, Story, Quiet, Waiting, Told
<1> QED
  BY <1>2, <1>3 DEF RoutedInv

\* What a connection looks like that is not there.
LEMMA ClosedFacts ==
    /\ Closed \in ConnType
    /\ Closed.at = "free" /\ Closed.target = None /\ ~Closed.hung
    /\ Closed.reply.hash = None /\ Closed.reply.status = None
  BY DEF Closed, NoReply, ConnType, Place

\* One field of a connection or a program is changed.
LEMMA ConnFields ==
    ASSUME NEW c \in ConnType
    PROVE  /\ \A x \in Place : [c EXCEPT !.at = x] \in ConnType
           /\ \A x \in Object \cup {None} : [c EXCEPT !.object = x] \in ConnType
           /\ \A x \in [status : Status \cup {None}, hash : Hash \cup {None}] :
                  [c EXCEPT !.reply = x] \in ConnType
           /\ \A x \in BOOLEAN : [c EXCEPT !.asked = x] \in ConnType
           /\ \A x \in BOOLEAN : [c EXCEPT !.close = x] \in ConnType
           /\ \A x \in BOOLEAN : [c EXCEPT !.hung = x] \in ConnType
  BY DEF ConnType

\* A reply and a place are put into a connection.
LEMMA Replies ==
    ASSUME NEW c \in ConnType, NEW status \in Status, NEW h \in Hash \cup {None},
           NEW x \in Place
    PROVE  [c EXCEPT !.reply = [status |-> status, hash |-> h], !.at = x] \in ConnType
  BY DEF ConnType

\* A connection goes to another place.
LEMMA Goings ==
    ASSUME NEW c \in ConnType, NEW x \in Place
    PROVE  [c EXCEPT !.at = x] \in ConnType
  BY DEF ConnType

\* It goes there with the session that is made for it.
LEMMA GoingsWith ==
    ASSUME NEW c \in ConnType, NEW x \in Place, NEW o \in Object
    PROVE  [c EXCEPT !.at = x, !.object = o] \in ConnType
  BY DEF ConnType

\* It goes there with its request read.
LEMMA GoingsRead ==
    ASSUME NEW c \in ConnType, NEW x \in Place
    PROVE  [c EXCEPT !.at = x, !.asked = FALSE] \in ConnType
  BY DEF ConnType

\* A program starts with a command.
LEMMA Startings ==
    ASSUME NEW g \in ProgType, NEW command \in Command, NEW signs \in BOOLEAN,
           NEW h \in Hash \cup {None}
    PROVE  [g EXCEPT !.at = "dial", !.command = command, !.signs = signs, !.hash = h] \in ProgType
  BY DEF ProgType

\* A program that exits keeps its command, its session and its signature.
LEMMA Exits ==
    ASSUME Types, NEW p \in Programs, NEW code \in {"ok", "failed"}, Exit(p, code)
    PROVE  /\ prog' \in [Programs -> ProgType]
           /\ prog'[p].at = "exit" /\ prog'[p].code = code /\ prog'[p].signs = prog[p].signs
           /\ prog'[p].command = prog[p].command /\ prog'[p].hash = prog[p].hash
  BY DEF Exit, Types, ProgType

\* None is no status, target or command.
LEMMA NoneIsNoWord ==
    None \notin {"ok", "hello", "session", "transaction", "query"}
  BY HttpAssumption

----------------------------------------------------------------------------
(* The steps of the programs. *)

\* A program begins: it knows no session of another key but by a query.
LEMMA RoutedRun ==
    ASSUME RoutedInv, NEW p \in Programs, Run(p)
    PROVE  RoutedInv'
<1> USE DEF RoutedInv
<1>1. Types'
  <2>1. \A c \in Commands[p] : c \in Command
    BY HttpAssumption DEF Command
  <2>2. PICK command \in Commands[p], complete \in BOOLEAN, signs \in BOOLEAN :
            IF complete
            THEN \E h \in IF command = "query" THEN printed \cup {None} ELSE {None} :
                     prog' = [prog EXCEPT ![p].at = "dial", ![p].command = command,
                                          ![p].signs = signs, ![p].hash = h]
            ELSE Exit(p, "failed")
    BY DEF Run
  <2>3. prog' \in [Programs -> ProgType]
    <3>1. CASE complete
      <4>1. PICK h \in Hash \cup {None} :
                prog' = [prog EXCEPT ![p].at = "dial", ![p].command = command,
                                     ![p].signs = signs, ![p].hash = h]
        BY <2>2, <3>1 DEF Types
      <4>2. [prog[p] EXCEPT !.at = "dial", !.command = command, !.signs = signs, !.hash = h]
                \in ProgType
        BY <2>1, Startings DEF Types
      <4>3. prog' = [prog EXCEPT ![p] = [prog[p] EXCEPT !.at = "dial", !.command = command,
                                                       !.signs = signs, !.hash = h]]
        BY <4>1 DEF Types, ProgType
      <4> QED
        BY <4>2, <4>3 DEF Types
    <3>2. CASE ~complete
      BY <2>2, <3>2 DEF Exit, Types, ProgType
    <3> QED
      BY <3>1, <3>2
  <2> QED
    BY <2>3 DEF Types, Run, serverVars
<1>2. Story(p)'
  <2>1. conn[p] = Closed /\ p \notin routed
    BY DEF Run, Story, Quiet
  <2>2. conn' = conn /\ routed' = routed
    BY DEF Run
  <2>3. /\ prog'[p].at \in {"dial", "exit"}
        /\ prog'[p].at = "exit" => prog'[p].code = "failed"
        /\ prog'[p].command \in {"transaction", "session"} /\ prog'[p].at = "dial"
               => prog'[p].hash = None
    BY HttpAssumption DEF Run, Exit, Types, ProgType
  <2>4. prog'[p].at = "exit" => prog'[p].command = prog[p].command /\ prog'[p].hash = prog[p].hash
    BY DEF Run, Exit, Types, ProgType
  <2>5. ~(prog[p].command \in {"transaction", "session"} /\ prog[p].hash # None)
    BY DEF Run, Story, Quiet
  <2> QED
    BY <2>1, <2>2, <2>3, <2>4, <2>5, ClosedFacts, NoneIsNoWord
       DEF Story, AtItsTarget, OnlyKnown, Quiet, Waiting, Told
<1>3. ASSUME NEW q \in Programs, q # p PROVE Story(q)'
  <2>1. prog'[q] = prog[q] /\ conn'[q] = conn[q] /\ routed' = routed
    BY <1>3 DEF Run, Types, Exit
  <2> QED
    BY <1>3, <2>1, Bystander
<1> QED
  BY <1>1, <1>2, <1>3
\* A program connects: what it asks for is its Target.
LEMMA RoutedMake ==
    ASSUME RoutedInv, NEW p \in Programs, MakeRequest(p)
    PROVE  RoutedInv'
<1> USE DEF RoutedInv
<1>1. Types'
  <2>1. Target(p) \in Command \cup {"hello", None}
    BY DEF Target, Types, ProgType, Command
  <2>2. prog' \in [Programs -> ProgType]
    BY DEF MakeRequest, Exit, Types, ProgType
  <2>3. [Closed EXCEPT !.at = "backlog", !.target = Target(p), !.asked = TRUE,
                       !.hash = prog[p].hash] \in ConnType
    BY <2>1, ClosedFacts DEF Types, ProgType, ConnType, Place
  <2>4. conn' \in [Programs -> ConnType]
    BY <2>3 DEF MakeRequest, Types
  <2> QED
    BY <2>2, <2>4 DEF MakeRequest, Types, serverVars
<1>2. Story(p)'
  <2>1. CASE up = "down"
    <3>1. prog' = [prog EXCEPT ![p].at = "exit", ![p].code = "failed"] /\ conn' = conn
      BY <2>1 DEF MakeRequest, Exit
    <3>2. /\ prog'[p].at = "exit" /\ prog'[p].code = "failed"
          /\ prog'[p].command = prog[p].command /\ prog'[p].hash = prog[p].hash
          /\ prog'[p].signs = prog[p].signs
      BY <3>1 DEF Types, ProgType
    <3> QED
      BY <3>1, <3>2 DEF MakeRequest, Story, AtItsTarget, OnlyKnown, Quiet, Waiting, Told, Valid
  <2>2. CASE up # "down"
    <3>1. prog' = [prog EXCEPT ![p].at = "wait"]
      BY <2>2 DEF MakeRequest
    <3>2. /\ prog'[p].at = "wait"
          /\ prog'[p].command = prog[p].command /\ prog'[p].hash = prog[p].hash
          /\ prog'[p].signs = prog[p].signs
      BY <3>1 DEF Types, ProgType
    <3>3. /\ conn'[p].at = "backlog" /\ conn'[p].target = Target(p)
          /\ conn'[p].reply = Closed.reply /\ ~conn'[p].hung
      <4>1. conn'[p] = [Closed EXCEPT !.at = "backlog", !.target = Target(p), !.asked = TRUE,
                                      !.hash = prog[p].hash]
        BY <2>2 DEF MakeRequest, Types
      <4> QED
        BY <4>1, ClosedFacts DEF ConnType
    <3>4. Target(p)' = Target(p)
      BY <3>2 DEF Target
    <3>5. Target(p) = "transaction" => Valid(p)
      <4>1. Target(p) = "transaction" =>
                prog[p].command \in {"transaction", "session"} /\ prog[p].hash # None
        BY DEF Target
      <4> QED
        BY <4>1 DEF Story, OnlyKnown
    <3> QED
      BY <3>2, <3>3, <3>4, <3>5, ClosedFacts, NoneIsNoWord DEF MakeRequest, Story, AtItsTarget, OnlyKnown, Quiet, Waiting, Told, Valid
  <2> QED
    BY <2>1, <2>2
<1>3. ASSUME NEW q \in Programs, q # p PROVE Story(q)'
  <2>1. prog'[q] = prog[q] /\ conn'[q] = conn[q] /\ routed' = routed
    BY <1>3 DEF MakeRequest, Types, Exit
  <2> QED
    BY <1>3, <2>1, Bystander
<1> QED
  BY <1>1, <1>2, <1>3

\* A response is read: a session it brings, or a success, is vouched for.
LEMMA RoutedRead ==
    ASSUME RoutedInv, NEW p \in Programs, ReadResponse(p)
    PROVE  RoutedInv'
<1> USE DEF RoutedInv
<1> DEFINE reply == conn[p].reply
<1> DEFINE hello == Target(p) = "hello"
<1>a. /\ prog[p].at = "wait" /\ reply.status # None
      /\ conn' = [conn EXCEPT ![p].reply = NoReply, ![p].hung = conn[p].at # "free"]
      /\ UNCHANGED <<made, clientHashMap, clientSessionMap, routed>>
  BY DEF ReadResponse, serverVars
<1>c. printed' \subseteq printed \cup ({reply.hash} \ {None})
  BY DEF ReadResponse
<1>e. \/ Exit(p, "failed")
      \/ /\ hello /\ prog[p].command = "transaction" /\ reply.hash # None
         /\ prog' = [prog EXCEPT ![p].at = "dial", ![p].hash = reply.hash]
      \/ /\ ~(hello /\ prog[p].command = "transaction") /\ reply.status = "ok"
         /\ Exit(p, "ok")
  BY DEF ReadResponse, Ok
<1>b. NoReply \in [status : Status \cup {None}, hash : Hash \cup {None}]
  BY DEF NoReply
<1>1. Types'
  <2>1. conn' \in [Programs -> ConnType]
    <3>1. conn' = [conn EXCEPT ![p] = [[conn[p] EXCEPT !.reply = NoReply]
                                           EXCEPT !.hung = conn[p].at # "free"]]
      BY <1>a DEF Types, ConnType
    <3> QED
      BY <3>1, <1>b, ConnFields DEF Types
  <2>2. reply.hash \in Hash \cup {None}
    BY DEF Types, ConnType
  <2>3. prog' \in [Programs -> ProgType]
    BY <1>e, <2>2, Exits DEF Types, ProgType
  <2> QED
    BY <1>a, <1>c, <2>1, <2>2, <2>3 DEF Types
<1>2. Story(p)'
  <2>1. /\ conn'[p].at = conn[p].at /\ conn'[p].target = conn[p].target
        /\ conn'[p].object = conn[p].object
        /\ conn'[p].reply.hash = None
    BY <1>a DEF Types, ConnType, NoReply
  <2>2. /\ prog'[p].at \in {"dial", "exit"} /\ prog'[p].signs = prog[p].signs
        /\ prog'[p].command = prog[p].command
    BY <1>e, Exits DEF Types, ProgType
  <2>3. prog'[p].hash = prog[p].hash \/ (prog'[p].hash # None /\ Valid(p))
    BY <1>e, Exits DEF Types, ProgType, Story, OnlyKnown
  <2>4. prog'[p].at = "exit" /\ prog'[p].code = "ok" /\ prog'[p].command = "transaction"
            => p \in routed
    <3>1. prog[p].command = "transaction" => Target(p) \in {"hello", "transaction"}
      BY DEF Target
    <3> QED
      BY <1>a, <1>e, <3>1, Exits DEF Types, ProgType, Story, Told
  <2> QED
    BY <1>a, <2>1, <2>2, <2>3, <2>4 DEF Story, AtItsTarget, OnlyKnown, Quiet, Waiting, Told, Valid
<1>3. ASSUME NEW q \in Programs, q # p PROVE Story(q)'
  <2>1. prog'[q] = prog[q] /\ conn'[q] = conn[q] /\ routed' = routed
    BY <1>3 DEF ReadResponse, Types, Exit
  <2> QED
    BY <1>3, <2>1, Bystander
<1> QED
  BY <1>1, <1>2, <1>3

\* Another file is no session.
LEMMA RoutedFetch ==
    ASSUME RoutedInv, NEW p \in Programs, FetchAnother(p)
    PROVE  RoutedInv'
<1> USE DEF RoutedInv
<1>b. NoReply \in [status : Status \cup {None}, hash : Hash \cup {None}]
  BY DEF NoReply
<1>1. Types'
  <2>1. conn' \in [Programs -> ConnType]
    <3>1. conn' = [conn EXCEPT ![p] = [[conn[p] EXCEPT !.reply = NoReply] EXCEPT !.asked = TRUE]]
      BY DEF FetchAnother, Types, ConnType
    <3> QED
      BY <3>1, <1>b, ConnFields DEF Types
  <2>2. prog' \in [Programs -> ProgType]
    BY DEF FetchAnother, Types, ProgType
  <2> QED
    BY <2>1, <2>2 DEF FetchAnother, Types, serverVars
<1>2. Story(p)'
  <2>1. /\ conn'[p].at = conn[p].at /\ conn'[p].target = conn[p].target
        /\ conn'[p].object = conn[p].object
        /\ conn'[p].reply.hash = None /\ conn'[p].reply.status = None
        /\ conn'[p].hung <=> conn[p].hung
    BY DEF FetchAnother, Types, ConnType, NoReply
  <2>2. /\ prog'[p].at = "wait" /\ prog'[p].signs = prog[p].signs
        /\ prog'[p].command = prog[p].command /\ prog'[p].hash = prog[p].hash
    BY DEF FetchAnother, Types, ProgType
  <2>3. Target(p)' = Target(p)
    BY <2>2 DEF Target
  <2>4. prog[p].at = "wait" /\ routed' = routed
    BY DEF FetchAnother
  <2> QED
    BY <2>1, <2>2, <2>3, <2>4, NoneIsNoWord DEF Story, AtItsTarget, OnlyKnown, Quiet, Waiting, Told, Valid
<1>3. ASSUME NEW q \in Programs, q # p PROVE Story(q)'
  <2>1. prog'[q] = prog[q] /\ conn'[q] = conn[q] /\ routed' = routed
    BY <1>3 DEF FetchAnother, Types
  <2> QED
    BY <1>3, <2>1, Bystander
<1> QED
  BY <1>1, <1>2, <1>3

\* A program that fails has promised nothing.
LEMMA RoutedLose ==
    ASSUME RoutedInv, NEW p \in Programs, LoseConnection(p)
    PROVE  RoutedInv'
<1> USE DEF RoutedInv
<1>1. Types'
  <2>1. conn' \in [Programs -> ConnType]
    <3>1. conn' = [conn EXCEPT ![p] = [conn[p] EXCEPT !.hung = TRUE]]
      BY DEF LoseConnection
    <3> QED
      BY <3>1, ConnFields DEF Types
  <2>2. prog' \in [Programs -> ProgType]
    BY Exits DEF LoseConnection
  <2> QED
    BY <2>1, <2>2 DEF LoseConnection, Types, serverVars
<1>2. Story(p)'
  <2>1. /\ conn'[p].at = conn[p].at /\ conn'[p].target = conn[p].target
        /\ conn'[p].object = conn[p].object
        /\ conn'[p].reply = conn[p].reply
    BY DEF LoseConnection, Types, ConnType
  <2>2. /\ prog'[p].at = "exit" /\ prog'[p].code = "failed" /\ prog'[p].signs = prog[p].signs
        /\ prog'[p].command = prog[p].command /\ prog'[p].hash = prog[p].hash
    BY Exits DEF LoseConnection
  <2>3. routed' = routed
    BY DEF LoseConnection
  <2> QED
    BY <2>1, <2>2, <2>3 DEF Story, AtItsTarget, OnlyKnown, Quiet, Waiting, Told, Valid
<1>3. ASSUME NEW q \in Programs, q # p PROVE Story(q)'
  <2>1. prog'[q] = prog[q] /\ conn'[q] = conn[q] /\ routed' = routed
    BY <1>3 DEF LoseConnection, Types, Exit
  <2> QED
    BY <1>3, <2>1, Bystander
<1> QED
  BY <1>1, <1>2, <1>3
----------------------------------------------------------------------------
(* The steps of the server's sessions. *)

\* A handler that goes on leaves the stories as they are, if what it says is so.
LEMMA ServedOn ==
    ASSUME RoutedInv, NEW p \in Programs, NEW c \in ConnType,
           prog' = prog, routed' = routed, conn' = [conn EXCEPT ![p] = c],
           conn[p].at # "free", c.target = conn[p].target, c.hung <=> conn[p].hung,
           c.at \in {"hello", "make", "store"} => c.target = "hello",
           c.at = "store" => c.object \in Object,
           c.at = "session" => c.target \in {"transaction", "query"},
           c.at = "route" => c.target = "transaction",
           c.at = "query" => c.target = "query",
           c.at \in {"make", "store"} \/ c.reply.hash # None => Valid(p),
           c.reply.status = "ok" /\ c.target = "transaction"
               => conn[p].reply.status = "ok" \/ p \in routed
    PROVE  conn' \in [Programs -> ConnType] /\ \A q \in Programs : Story(q)'
<1> USE DEF RoutedInv
<1>1. conn' \in [Programs -> ConnType] /\ conn'[p] = c
  BY DEF Types
<1>2. ASSUME NEW q \in Programs PROVE Story(q)'
  <2>1. CASE q # p
    <3>1. conn'[q] = conn[q]
      BY <2>1 DEF Types
    <3> QED
      BY <3>1, Bystander
  <2>2. CASE q = p
    <3>1. Target(p)' = Target(p) /\ (Valid(p)' <=> Valid(p))
      BY DEF Target, Valid
    <3>2. AtItsTarget(p)'
      BY <1>1 DEF AtItsTarget
    <3>3. OnlyKnown(p)'
      BY <1>1, <3>1 DEF Story, OnlyKnown
    <3>4. Quiet(p)'
      BY ClosedFacts DEF Story, Quiet
    <3>5. Waiting(p)'
      BY <1>1, <3>1 DEF Story, Waiting
    <3>6. Told(p)'
      BY <1>1, <3>1 DEF Story, Told, Waiting
    <3> QED
      BY <2>2, <3>2, <3>3, <3>4, <3>5, <3>6 DEF Story
  <2> QED
    BY <2>1, <2>2
<1> QED
  BY <1>1, <1>2

\* A session that ends was given up by its program.
LEMMA GivenUp ==
    ASSUME RoutedInv, NEW p \in Programs, prog' = prog, routed' = routed, Ends(p), conn[p].hung
    PROVE  conn' \in [Programs -> ConnType] /\ \A q \in Programs : Story(q)'
<1> USE DEF RoutedInv
<1>1. conn' \in [Programs -> ConnType] /\ conn'[p] = Closed
  BY ClosedFacts DEF Types, Ends
<1>2. ASSUME NEW q \in Programs PROVE Story(q)'
  <2>1. CASE q # p
    <3>1. conn'[q] = conn[q]
      BY <2>1 DEF Types, Ends
    <3> QED
      BY <3>1, Bystander
  <2>2. CASE q = p
    <3>1. Target(p)' = Target(p) /\ (Valid(p)' <=> Valid(p))
      BY DEF Target, Valid
    <3> QED
      BY <1>1, <2>2, <3>1, ClosedFacts, NoneIsNoWord
         DEF Story, AtItsTarget, OnlyKnown, Quiet, Waiting, Told
  <2> QED
    BY <2>1, <2>2
<1> QED
  BY <1>1, <1>2

\* Reading, writing and closing say nothing of a session or a transaction.
LEMMA RoutedWire ==
    ASSUME RoutedInv, NEW p \in Programs,
           OnHandshake(p) \/ OnRead(p) \/ OnEnd(p) \/ OnWrite(p) \/ OnShutdown(p)
    PROVE  RoutedInv'
<1> USE DEF RoutedInv
<1>1. UNCHANGED <<made, clientHashMap, clientSessionMap, prog, printed, routed>>
  BY DEF OnHandshake, OnRead, OnEnd, OnWrite, OnShutdown, serverVars
<1>2. conn' \in [Programs -> ConnType] /\ \A q \in Programs : Story(q)'
  <2>1. ASSUME NEW x \in {"read", "close"}, Goes(p, x), conn[p].at # "free"
        PROVE  conn' \in [Programs -> ConnType] /\ \A q \in Programs : Story(q)'
    <3> DEFINE c == [conn[p] EXCEPT !.at = x]
    <3>1. c \in ConnType /\ conn' = [conn EXCEPT ![p] = c]
      BY <2>1, ConnFields DEF Types, Goes, Place
    <3>2. /\ c.at = x /\ c.target = conn[p].target /\ c.reply = conn[p].reply
          /\ c.hung <=> conn[p].hung
      BY DEF Types, ConnType
    <3> HIDE DEF c
    <3> QED
      BY <1>1, <2>1, <3>1, <3>2, ServedOn DEF Story, OnlyKnown
  <2>2. CASE OnHandshake(p)
    BY <1>1, <2>1, <2>2, GivenUp DEF OnHandshake, At
  <2>3. CASE OnEnd(p)
    BY <1>1, <2>1, <2>3, GivenUp DEF OnEnd, At
  <2>4. CASE OnWrite(p)
    BY <1>1, <2>1, <2>4, GivenUp DEF OnWrite, At
  <2>5. CASE OnShutdown(p)
    BY <1>1, <2>5, GivenUp DEF OnShutdown
  <2>6. CASE OnRead(p) /\ Handling(p) = "write"
    <3>1. PICK status \in Status : conn' = [Reply(p, status, None, "write") EXCEPT ![p].asked = FALSE]
      BY <2>6 DEF OnRead, Status
    <3> DEFINE c == [conn[p] EXCEPT !.reply = [status |-> status, hash |-> None], !.at = "write",
                                    !.asked = FALSE]
    <3>2. conn' = [conn EXCEPT ![p] = c]
      BY <3>1 DEF Reply, Types
    <3>3. c \in ConnType
      <4>1. [conn[p] EXCEPT !.reply = [status |-> status, hash |-> None], !.at = "write"] \in ConnType
        BY Replies DEF Types, Place
      <4>2. PICK w \in ConnType :
                w = [conn[p] EXCEPT !.reply = [status |-> status, hash |-> None], !.at = "write"]
        BY <4>1
      <4>3. c = [w EXCEPT !.at = "write", !.asked = FALSE]
        BY <4>2 DEF Types, ConnType
      <4> HIDE DEF c
      <4> QED
        BY <4>3, GoingsRead DEF Place
    <3>4. /\ c.at = "write" /\ c.target = conn[p].target /\ c.reply.hash = None
          /\ c.hung <=> conn[p].hung
      BY DEF Types, ConnType
    <3>5. conn[p].target # "transaction"
      BY <2>6 DEF Handling
    <3>6. conn[p].at # "free"
      BY <2>6 DEF OnRead, At
    <3> HIDE DEF c
    <3> QED
      BY <1>1, <3>2, <3>3, <3>4, <3>5, <3>6, ServedOn
  <2>7. CASE OnRead(p) /\ Handling(p) # "write"
    <3> DEFINE c == [conn[p] EXCEPT !.at = Handling(p), !.asked = FALSE]
    <3>1. conn' = [conn EXCEPT ![p] = c]
      BY <2>7 DEF OnRead, Types
    <3>2. \/ Handling(p) = "hello" /\ conn[p].target = "hello"
          \/ Handling(p) = "session" /\ conn[p].target \in {"transaction", "query"}
      BY <2>7 DEF Handling
    <3>3. c \in ConnType
      BY <3>2, GoingsRead DEF Types, Place, Handler
    <3>4. /\ c.at = Handling(p) /\ c.target = conn[p].target /\ c.reply = conn[p].reply
          /\ c.hung <=> conn[p].hung
      BY DEF Types, ConnType
    <3>5. conn[p].at # "free"
      BY <2>7 DEF OnRead, At
    <3>6. c.reply.hash # None => Valid(p)
      BY <3>4 DEF Story, OnlyKnown
    <3> HIDE DEF c
    <3> QED
      BY <1>1, <3>1, <3>2, <3>3, <3>4, <3>5, <3>6, ServedOn
  <2> QED
    BY <2>2, <2>3, <2>4, <2>5, <2>6, <2>7
<1>3. Types'
  BY <1>1, <1>2 DEF Types
<1> QED
  BY <1>2, <1>3
\* The hello, the session it makes and the check of one.
LEMMA RoutedHello ==
    ASSUME RoutedInv, NEW p \in Programs, Hello(p)
    PROVE  RoutedInv'
<1> USE DEF RoutedInv
<1>1. UNCHANGED <<made, clientHashMap, clientSessionMap, prog, printed, routed>>
  BY DEF Hello
<1>2. conn[p].at = "hello" /\ conn[p].target = "hello"
  BY DEF Hello, In, Story, AtItsTarget
<1>3. conn' \in [Programs -> ConnType] /\ \A q \in Programs : Story(q)'
  <2>1. ASSUME NEW h \in Hash \cup {None}, conn' = Reply(p, "ok", h, "commit"),
               h # None => Valid(p)
        PROVE  conn' \in [Programs -> ConnType] /\ \A q \in Programs : Story(q)'
    <3> DEFINE c == [conn[p] EXCEPT !.reply = [status |-> "ok", hash |-> h], !.at = "commit"]
    <3>1. conn' = [conn EXCEPT ![p] = c]
      BY <2>1 DEF Reply, Types
    <3>2. c \in ConnType
      BY Replies DEF Types, Place, Handler, Status
    <3>3. /\ c.at = "commit" /\ c.target = conn[p].target /\ c.reply.hash = h
          /\ c.hung <=> conn[p].hung
      BY DEF Types, ConnType
    <3> HIDE DEF c
    <3> QED
      BY <1>1, <1>2, <2>1, <3>1, <3>2, <3>3, ServedOn
  <2>2. CASE ~Valid(p)
    <3>1. conn' = Reply(p, "ok", None, "commit")
      BY <2>2 DEF Hello
    <3> QED
      BY <2>1, <3>1
  <2>3. CASE Valid(p) /\ clientHashMap[KeyOf[p]] # None
    <3>1. clientHashMap[KeyOf[p]] \in Object
      BY <2>3, HttpAssumption DEF Types
    <3>2. SessionHash(clientHashMap[KeyOf[p]]) \in Hash
      BY <3>1, HashIsHash
    <3>3. conn' = Reply(p, "ok", SessionHash(clientHashMap[KeyOf[p]]), "commit")
      BY <2>3 DEF Hello
    <3> QED
      BY <2>1, <2>3, <3>2, <3>3
  <2>4. CASE Valid(p) /\ clientHashMap[KeyOf[p]] = None
    <3> DEFINE c == [conn[p] EXCEPT !.at = "make"]
    <3>1. conn' = [conn EXCEPT ![p] = c]
      BY <2>4 DEF Hello, Goes, Types
    <3>2. c \in ConnType
      BY Goings DEF Types, Place, Handler
    <3>3. /\ c.at = "make" /\ c.target = conn[p].target /\ c.reply = conn[p].reply
          /\ c.hung <=> conn[p].hung
      BY DEF Types, ConnType
    <3> HIDE DEF c
    <3> QED
      BY <1>1, <1>2, <2>4, <3>1, <3>2, <3>3, ServedOn
  <2> QED
    BY <2>2, <2>3, <2>4
<1>4. Types'
  BY <1>1, <1>3 DEF Types
<1> QED
  BY <1>3, <1>4

\* A session is made for the key whose hello it was.
LEMMA RoutedMakeSession ==
    ASSUME RoutedInv, NEW p \in Programs, MakeSession(p)
    PROVE  RoutedInv'
<1> USE DEF RoutedInv
<1> DEFINE s == [key |-> KeyOf[p], id |-> made + 1]
<1> DEFINE c == [conn[p] EXCEPT !.at = "store", !.object = s]
<1>1. UNCHANGED <<clientHashMap, clientSessionMap, prog, printed, routed>> /\ made' = made + 1
  BY DEF MakeSession
<1>2. conn[p].at = "make" /\ conn[p].target = "hello" /\ Valid(p)
  BY DEF MakeSession, In, Story, AtItsTarget, OnlyKnown
<1>3. s \in Object
  BY HttpAssumption DEF Types, Object
<1>4. conn' = [conn EXCEPT ![p] = c]
  BY DEF MakeSession, Types
<1>5. c \in ConnType
  BY <1>3, GoingsWith DEF Types, Place, Handler
<1>6. /\ c.at = "store" /\ c.object = s /\ c.target = conn[p].target /\ c.reply = conn[p].reply
      /\ c.hung <=> conn[p].hung
  BY DEF Types, ConnType
<1> HIDE DEF c
<1>7. conn' \in [Programs -> ConnType] /\ \A q \in Programs : Story(q)'
  BY <1>1, <1>2, <1>3, <1>4, <1>5, <1>6, ServedOn
<1>8. Types'
  BY <1>1, <1>7 DEF Types
<1> QED
  BY <1>7, <1>8

\* A session is inserted, and its client told of it.
LEMMA RoutedStore ==
    ASSUME RoutedInv, NEW p \in Programs, StoreSession(p)
    PROVE  RoutedInv'
<1> USE DEF RoutedInv
<1> DEFINE s == conn[p].object
<1>0. s \in Object
  BY DEF StoreSession, In, Story, AtItsTarget
<1> DEFINE d == [conn[p] EXCEPT !.reply = [status |-> "ok", hash |-> SessionHash(s)],
                                !.at = "commit"]
<1> DEFINE c == [d EXCEPT !.object = None]
<1>1. UNCHANGED <<made, prog, printed, routed>>
  BY DEF StoreSession
<1>2. conn[p].at = "store" /\ conn[p].target = "hello" /\ Valid(p)
  BY DEF StoreSession, In, Story, AtItsTarget, OnlyKnown
<1>3. SessionHash(s) \in Hash
  BY <1>0, HashIsHash
<1>4. conn' = [conn EXCEPT ![p] = c]
  BY DEF StoreSession, Reply, Types
<1>5. c \in ConnType
  <2>1. d \in ConnType
    BY <1>3, Replies DEF Types, Place, Handler, Status
  <2> QED
    BY <2>1, ConnFields
<1>6. /\ c.at = "commit" /\ c.target = conn[p].target
      /\ c.hung <=> conn[p].hung
  BY DEF Types, ConnType
<1>7. conn' \in [Programs -> ConnType] /\ \A q \in Programs : Story(q)'
  <2> HIDE DEF c
  <2> QED
    BY <1>1, <1>2, <1>4, <1>5, <1>6, ServedOn
<1>8. clientHashMap' \in [Keys -> Object \cup {None}]
  BY <1>0 DEF StoreSession, Types
<1>9. DOMAIN clientSessionMap' \subseteq Hash /\ clientSessionMap' \in [DOMAIN clientSessionMap' -> Object]
  <2>1. CASE clientSessionMap' = clientSessionMap
    BY <2>1 DEF Types
  <2>2. CASE clientSessionMap' = Inserted(s)
    <3>1. /\ DOMAIN Inserted(s) = DOMAIN clientSessionMap \cup {SessionHash(s)}
          /\ \A h \in DOMAIN Inserted(s) : Inserted(s)[h] \in Object
          /\ Inserted(s) = [h \in DOMAIN Inserted(s) |-> Inserted(s)[h]]
      BY <1>0 DEF Inserted, Types
    <3>2. Inserted(s) \in [DOMAIN Inserted(s) -> Object]
      BY <3>1
    <3> QED
      BY <1>3, <2>2, <3>1, <3>2 DEF Types
  <2> QED
    BY <2>1, <2>2 DEF StoreSession
<1>10. Types'
  BY <1>1, <1>7, <1>8, <1>9 DEF Types
<1> QED
  BY <1>7, <1>10
\* A request in a session goes on, or is refused.
LEMMA RoutedCheck ==
    ASSUME RoutedInv, NEW p \in Programs, CheckSession(p)
    PROVE  RoutedInv'
<1> USE DEF RoutedInv
<1>1. UNCHANGED <<made, clientHashMap, clientSessionMap, prog, printed, routed>>
  BY DEF CheckSession, serverVars
<1>2. conn[p].at = "session" /\ conn[p].target \in {"transaction", "query"}
  BY DEF CheckSession, In, Story, AtItsTarget
<1>3. conn' \in [Programs -> ConnType] /\ \A q \in Programs : Story(q)'
  <2>1. CASE Fail(p)
    <3> DEFINE c == [conn[p] EXCEPT !.reply = [status |-> "server_error", hash |-> None],
                                    !.at = "write"]
    <3>1. conn' = [conn EXCEPT ![p] = c]
      BY <2>1 DEF Fail, Reply, Types
    <3>2. c \in ConnType
      BY Replies DEF Types, Place, Status
    <3>3. /\ c.at = "write" /\ c.target = conn[p].target /\ c.reply.hash = None
          /\ c.reply.status = "server_error"
          /\ c.hung <=> conn[p].hung
      BY DEF Types, ConnType
    <3> HIDE DEF c
    <3> QED
      BY <1>1, <1>2, <3>1, <3>2, <3>3, ServedOn
  <2>2. ASSUME NEW x \in {"route", "query"}, Goes(p, x),
               IF conn[p].target = "query" THEN x = "query" ELSE x = "route"
        PROVE  conn' \in [Programs -> ConnType] /\ \A q \in Programs : Story(q)'
    <3> DEFINE c == [conn[p] EXCEPT !.at = x]
    <3>1. conn' = [conn EXCEPT ![p] = c]
      BY <2>2 DEF Goes, Types
    <3>2. c \in ConnType
      BY ConnFields DEF Types, Place, Handler
    <3>3. /\ c.at = x /\ c.target = conn[p].target /\ c.reply = conn[p].reply
          /\ c.hung <=> conn[p].hung
      BY DEF Types, ConnType
    <3>4. c.reply.hash # None => Valid(p)
      BY <3>3 DEF Story, OnlyKnown
    <3> HIDE DEF c
    <3> QED
      BY <1>1, <1>2, <2>2, <3>1, <3>2, <3>3, <3>4, ServedOn
  <2> QED
    BY <2>1, <2>2 DEF CheckSession
<1>4. Types'
  BY <1>1, <1>3 DEF Types
<1> QED
  BY <1>3, <1>4

\* What is routed is asked for in a session, which only a known key's is.
LEMMA RoutedRoute ==
    ASSUME RoutedInv, NEW p \in Programs, RouteTransaction(p)
    PROVE  RoutedInv'
<1> USE DEF RoutedInv
<1>1. UNCHANGED <<made, clientHashMap, clientSessionMap, prog, printed>>
  BY DEF RouteTransaction, serverVars
<1>2. conn[p].at = "route" /\ conn[p].target = "transaction" /\ Valid(p)
  BY DEF RouteTransaction, In, Story, AtItsTarget, OnlyKnown
<1>3. conn' \in [Programs -> ConnType] /\ \A q \in Programs : Story(q)'
  <2>1. CASE Fail(p) /\ routed' = routed
    <3> DEFINE c == [conn[p] EXCEPT !.reply = [status |-> "server_error", hash |-> None],
                                    !.at = "write"]
    <3>1. conn' = [conn EXCEPT ![p] = c]
      BY <2>1 DEF Fail, Reply, Types
    <3>2. c \in ConnType
      BY Replies DEF Types, Place, Status
    <3>3. /\ c.at = "write" /\ c.target = conn[p].target /\ c.reply.hash = None
          /\ c.reply.status = "server_error"
          /\ c.hung <=> conn[p].hung
      BY DEF Types, ConnType
    <3> HIDE DEF c
    <3> QED
      BY <1>1, <1>2, <2>1, <3>1, <3>2, <3>3, ServedOn
  <2>2. CASE conn' = Reply(p, "ok", None, "commit") /\ routed' = routed \cup {p}
    <3>1. /\ conn'[p].at = "commit" /\ conn'[p].target = conn[p].target
          /\ conn'[p].hung <=> conn[p].hung
      BY <2>2 DEF Reply, Types, ConnType
    <3>2. conn' \in [Programs -> ConnType]
      <4>1. conn' = [conn EXCEPT ![p] = [conn[p] EXCEPT !.reply = [status |-> "ok", hash |-> None],
                                                       !.at = "commit"]]
        BY <2>2 DEF Reply, Types
      <4> QED
        BY <4>1, Replies DEF Types, Place, Handler, Status
    <3>3. ASSUME NEW q \in Programs PROVE Story(q)'
      <4>1. CASE q # p
        <5>1. conn'[q] = conn[q] /\ (q \in routed' <=> q \in routed)
          BY <2>2, <4>1 DEF Reply, Types
        <5> QED
          BY <1>1, <5>1, Bystander
      <4>2. CASE q = p
        <5>1. Target(p)' = Target(p) /\ (Valid(p)' <=> Valid(p))
          BY <1>1 DEF Target, Valid
        <5>2. p \in routed' /\ prog' = prog /\ prog[p].at # "off"
          BY <1>1, <1>2, <2>2, ClosedFacts DEF Story, Quiet
        <5> QED
          BY <1>2, <3>1, <4>2, <5>1, <5>2
             DEF Story, AtItsTarget, OnlyKnown, Quiet, Waiting, Told
      <4> QED
        BY <4>1, <4>2
    <3> QED
      BY <3>2, <3>3
  <2> QED
    BY <2>1, <2>2 DEF RouteTransaction
<1>4. routed' \subseteq Programs
  BY DEF RouteTransaction, Types
<1>5. Types'
  BY <1>1, <1>3, <1>4 DEF Types
<1> QED
  BY <1>3, <1>5

\* A query's reply, and the commit that follows any, are of no session.
LEMMA RoutedQuery ==
    ASSUME RoutedInv, NEW p \in Programs, Query(p) \/ Commit(p)
    PROVE  RoutedInv'
<1> USE DEF RoutedInv
<1>1. UNCHANGED <<made, clientHashMap, clientSessionMap, prog, printed, routed>>
  BY DEF Query, Commit, serverVars
<1>2. PICK c \in ConnType :
          /\ conn' = [conn EXCEPT ![p] = c]
          /\ c.at \in {"commit", "write"} /\ c.target = conn[p].target
          /\ c.hung <=> conn[p].hung
          /\ c.reply = conn[p].reply \/ (c.reply.hash = None /\ c.target = "query")
  <2>1. ASSUME NEW status \in Status, NEW x \in {"commit", "write"}, conn[p].target = "query",
               NEW close \in BOOLEAN,
               conn' = [conn EXCEPT ![p] =
                           [[conn[p] EXCEPT !.reply = [status |-> status, hash |-> None],
                                            !.at = x] EXCEPT !.close = close]]
        PROVE  \E c \in ConnType :
                   /\ conn' = [conn EXCEPT ![p] = c]
                   /\ c.at \in {"commit", "write"} /\ c.target = conn[p].target
                   /\ c.hung <=> conn[p].hung
                   /\ c.reply = conn[p].reply \/ (c.reply.hash = None /\ c.target = "query")
    <3> DEFINE d == [conn[p] EXCEPT !.reply = [status |-> status, hash |-> None], !.at = x]
    <3> DEFINE c == [d EXCEPT !.close = close]
    <3>1. d \in ConnType
      BY Replies DEF Types, Place, Handler
    <3>2. c \in ConnType
      BY <3>1, ConnFields
    <3>3. /\ c.at = x /\ c.target = conn[p].target /\ c.reply.hash = None
          /\ c.hung <=> conn[p].hung
      BY DEF Types, ConnType
    <3>4. conn' = [conn EXCEPT ![p] = c]
      BY <2>1
    <3> HIDE DEF c
    <3> QED
      BY <2>1, <3>2, <3>3, <3>4
  <2>2. CASE Query(p)
    <3>1. conn[p].target = "query"
      BY <2>2 DEF Query, In, Story, AtItsTarget
    <3>2. CASE conn' = [Reply(p, "ok", None, "commit") EXCEPT ![p].close = TRUE]
      <4>1. conn' = [conn EXCEPT ![p] =
                        [[conn[p] EXCEPT !.reply = [status |-> "ok", hash |-> None],
                                         !.at = "commit"] EXCEPT !.close = TRUE]]
        BY <3>2 DEF Reply, Types, ConnType
      <4> QED
        BY <2>1, <3>1, <4>1 DEF Status
    <3>3. CASE Fail(p)
      <4>1. conn' = [conn EXCEPT ![p] =
                        [[conn[p] EXCEPT !.reply = [status |-> "server_error", hash |-> None],
                                         !.at = "write"] EXCEPT !.close = conn[p].close]]
        BY <3>3 DEF Fail, Reply, Types, ConnType
      <4>2. conn[p].close \in BOOLEAN
        BY DEF Types, ConnType
      <4> QED
        BY <2>1, <3>1, <4>1, <4>2 DEF Status
    <3> QED
      BY <2>2, <3>2, <3>3 DEF Query
  <2>3. CASE Commit(p)
    <3> DEFINE c == [conn[p] EXCEPT !.at = "write"]
    <3>1. c \in ConnType /\ conn' = [conn EXCEPT ![p] = c]
      BY <2>3, ConnFields DEF Types, Commit, Goes, Place
    <3>2. /\ c.at = "write" /\ c.target = conn[p].target /\ c.reply = conn[p].reply
          /\ c.hung <=> conn[p].hung
      BY DEF Types, ConnType
    <3> HIDE DEF c
    <3> QED
      BY <3>1, <3>2
  <2> QED
    BY <2>2, <2>3
<1>3. conn[p].at # "free"
  BY DEF Query, Commit, In
<1>4. c.reply.hash # None => Valid(p)
  BY <1>2 DEF Story, OnlyKnown
<1>5. conn' \in [Programs -> ConnType] /\ \A q \in Programs : Story(q)'
  BY <1>1, <1>2, <1>3, <1>4, ServedOn
<1>6. Types'
  BY <1>1, <1>5 DEF Types
<1> QED
  BY <1>5, <1>6
----------------------------------------------------------------------------
(* The process, and the whole. *)

\* What is in memory goes; who waits without an answer fails.
LEMMA RoutedGone ==
    ASSUME RoutedInv, Gone, UNCHANGED <<made, printed, routed>>
    PROVE  RoutedInv'
<1> USE DEF RoutedInv
<1>1. conn' \in [Programs -> ConnType]
  <2>1. \A p \in Programs : [Closed EXCEPT !.reply = conn[p].reply] \in ConnType
    BY ClosedFacts DEF Types, ConnType
  <2> QED
    BY <2>1 DEF Gone
<1>2. prog' \in [Programs -> ProgType]
  <2>1. \A p \in Programs : [prog[p] EXCEPT !.at = "exit", !.code = "failed"] \in ProgType
    BY DEF Types, ProgType
  <2> QED
    BY <2>1 DEF Gone, Types
<1>3. clientHashMap' \in [Keys -> Object \cup {None}]
  BY DEF Gone
<1>4. DOMAIN clientSessionMap' \subseteq Hash /\ clientSessionMap' \in [DOMAIN clientSessionMap' -> Object]
  <2>1. clientSessionMap' = << >>
    BY DEF Gone
  <2>2. DOMAIN << >> = {} /\ << >> \in [{} -> Object]
    OBVIOUS
  <2> QED
    BY <2>1, <2>2
<1>5. Types'
  BY <1>1, <1>2, <1>3, <1>4 DEF Types
<1>6. ASSUME NEW p \in Programs PROVE Story(p)'
  <2>1. /\ conn'[p].at = "free" /\ conn'[p].target = None /\ ~conn'[p].hung
        /\ conn'[p].reply = conn[p].reply
        /\ conn[p] = Closed => conn'[p] = Closed
    <3>1. conn'[p] = [Closed EXCEPT !.reply = conn[p].reply]
      BY DEF Gone
    <3>2. [Closed EXCEPT !.reply = Closed.reply] = Closed
      BY DEF Closed
    <3> QED
      BY <3>1, <3>2 DEF Closed
  <2>2. CASE prog[p].at = "wait" /\ conn[p].reply.status = None
    <3>1. /\ prog'[p].at = "exit" /\ prog'[p].code = "failed" /\ prog'[p].signs = prog[p].signs
          /\ prog'[p].command = prog[p].command /\ prog'[p].hash = prog[p].hash
      BY <2>2 DEF Gone, Types, ProgType
    <3> QED
      BY <2>1, <3>1, NoneIsNoWord DEF Story, AtItsTarget, OnlyKnown, Quiet, Waiting, Told, Valid
  <2>3. CASE ~(prog[p].at = "wait" /\ conn[p].reply.status = None)
    <3>1. prog'[p] = prog[p]
      BY <2>3 DEF Gone
    <3>2. Target(p)' = Target(p) /\ (Valid(p)' <=> Valid(p))
      BY <3>1 DEF Target, Valid
    <3> QED
      BY <2>1, <3>1, <3>2, NoneIsNoWord DEF Story, AtItsTarget, OnlyKnown, Quiet, Waiting, Told
  <2> QED
    BY <2>2, <2>3
<1> QED
  BY <1>5, <1>6

\* Every step of the system keeps every story true.
LEMMA RoutedStep == RoutedInv /\ [Next]_vars => RoutedInv'
<1> SUFFICES ASSUME RoutedInv, [Next]_vars PROVE RoutedInv'
  OBVIOUS
<1>1. ASSUME UNCHANGED <<made, conn, clientHashMap, clientSessionMap, prog, printed, routed>>
      PROVE  RoutedInv'
  <2>1. \A p \in Programs : Story(p)'
    BY <1>1, Bystander DEF RoutedInv
  <2>2. Types'
    BY <1>1 DEF RoutedInv, Types
  <2> QED
    BY <2>1, <2>2 DEF RoutedInv
<1>2. ASSUME NEW p \in Programs, Program(p) PROVE RoutedInv'
  BY <1>2, RoutedRun, RoutedMake, RoutedRead, RoutedFetch DEF Program
<1>3. ASSUME NEW p \in Programs, Serve(p) PROVE RoutedInv'
  <2>1. CASE OnHandshake(p) \/ OnRead(p) \/ OnEnd(p) \/ OnWrite(p) \/ OnShutdown(p)
    BY <2>1, RoutedWire
  <2>2. CASE Hello(p)
    BY <2>2, RoutedHello
  <2>3. CASE MakeSession(p)
    BY <2>3, RoutedMakeSession
  <2>4. CASE StoreSession(p)
    BY <2>4, RoutedStore
  <2>5. CASE CheckSession(p)
    BY <2>5, RoutedCheck
  <2>6. CASE RouteTransaction(p)
    BY <2>6, RoutedRoute
  <2>7. CASE Query(p) \/ Commit(p)
    BY <2>7, RoutedQuery
  <2> QED
    BY <1>3, <2>1, <2>2, <2>3, <2>4, <2>5, <2>6, <2>7 DEF Serve
<1>4. ASSUME NEW p \in Programs, LoseConnection(p) PROVE RoutedInv'
  BY <1>4, RoutedLose
<1>5. CASE Stop \/ Start
  BY <1>1, <1>5 DEF Stop, Start, serverVars
<1>6. CASE Stopped \/ Crash
  BY <1>6, RoutedGone DEF Stopped, Crash
<1>7. CASE UNCHANGED vars
  BY <1>1, <1>7 DEF vars, serverVars
<1> QED
  BY <1>2, <1>3, <1>4, <1>5, <1>6, <1>7 DEF Next

(* Routed: only transactions of programs that hold the private key of a    *)
(* public key this server knows reach the router, by whatever sessions and *)
(* hellos, across any number of restarts; and a command line program that  *)
(* ends well has had its transaction routed (HttpRequestManager            *)
(* handle_request, HttpSession::handShake and makeRequest).                *)
THEOREM RoutedCorrect == Spec => []Routed
<1>1. RoutedInv => Routed
  <2> SUFFICES ASSUME RoutedInv PROVE Routed
    OBVIOUS
  <2>1. routed \subseteq Programs /\ \A p \in Programs : Story(p)
    BY DEF RoutedInv, Types
  <2>2. RoutedKnown
    BY <2>1 DEF RoutedKnown, Story, OnlyKnown, Valid
  <2>3. OkMeansRouted
    BY <2>1 DEF OkMeansRouted, Story, Told
  <2> QED
    BY <2>2, <2>3 DEF Routed
<1> QED
  BY RoutedStart, RoutedStep, <1>1, PTL DEF Spec
----------------------------------------------------------------------------
(* A session a client was welcomed with is served.                         *)

(* The map by hash holds a session under its own hash, with its key in the *)
(* keystore.                                                               *)
Filed ==
    \A h \in DOMAIN clientSessionMap :
        /\ h \in sessionKeys
        /\ SessionHash(clientSessionMap[h]) = h
        /\ clientSessionMap[h].id <= made

(* What the map by client holds, the map by hash holds too. *)
Shared ==
    \A k \in Keys : clientHashMap[k] # None =>
        /\ SessionHash(clientHashMap[k]) \in DOMAIN clientSessionMap
        /\ clientSessionMap[SessionHash(clientHashMap[k])] = clientHashMap[k]

(* What is about to be inserted is new to both maps. *)
Held(p) ==
    /\ conn[p].object.id <= made
    /\ SessionHash(conn[p].object) \in sessionKeys \ DOMAIN clientSessionMap

Storing(p) == conn[p].at = "store"
Fresh ==
    /\ \A p \in Programs : Storing(p) => Held(p)
    /\ \A p, q \in Programs :
           p # q /\ Storing(p) /\ Storing(q) => conn[p].object.id # conn[q].object.id

Kept == Filed /\ Shared /\ Fresh /\ welcomed \subseteq DOMAIN clientSessionMap
KeptInv == RoutedInv /\ (raced \/ Kept)

\* The number is in the hash: sessions of one hash are of one number.
LEMMA HashTells ==
    \A a, b \in Object : SessionHash(a) = SessionHash(b) => a.id = b.id
  BY DEF Object, SessionHash

\* At the start no session is filed, held or told of.
LEMMA KeptStart == Init => KeptInv
<1> SUFFICES ASSUME Init PROVE KeptInv
  OBVIOUS
<1>1. clientSessionMap = << >> /\ DOMAIN clientSessionMap = {}
  BY DEF Init
<1>2. \A p \in Programs : ~Storing(p)
  BY ClosedFacts DEF Init, Storing
<1>3. Kept
  BY <1>1, <1>2 DEF Init, Kept, Filed, Shared, Fresh
<1> QED
  BY <1>3, RoutedStart DEF KeptInv

\* A step that leaves the maps alone and creates no session keeps what they
\* hold.
LEMMA KeptOn ==
    ASSUME Kept, UNCHANGED serverVars,
           \A q \in Programs : Storing(q)' => Storing(q) /\ conn'[q].object = conn[q].object
    PROVE  Kept'
<1>1. Filed' /\ Shared' /\ (welcomed \subseteq DOMAIN clientSessionMap)'
  BY DEF Kept, Filed, Shared, serverVars
<1>2. Fresh'
  BY DEF Kept, Fresh, Held, serverVars
<1> QED
  BY <1>1, <1>2 DEF Kept

\* The handler of a hello of a client that has a session tells it of one
\* the server holds.
LEMMA KeptHello ==
    ASSUME RoutedInv, Kept, NEW p \in Programs, Hello(p)
    PROVE  Kept'
<1>1. UNCHANGED <<clientHashMap, clientSessionMap, sessionKeys, made>>
  BY DEF Hello
<1>2. conn'[p].at \in {"commit", "make"} /\ \A q \in Programs : q # p => conn'[q] = conn[q]
  BY DEF Hello, Reply, Goes, RoutedInv, Types, ConnType
<1>3. Fresh'
  BY <1>1, <1>2 DEF Kept, Fresh, Held, Storing
<1>4. welcomed' \subseteq DOMAIN clientSessionMap
  <2>1. CASE Valid(p) /\ clientHashMap[KeyOf[p]] # None
    <3>1. welcomed' = welcomed \cup {SessionHash(clientHashMap[KeyOf[p]])}
      BY <2>1 DEF Hello
    <3> QED
      BY <2>1, <3>1, HttpAssumption DEF Kept, Shared
  <2>2. CASE ~(Valid(p) /\ clientHashMap[KeyOf[p]] # None)
    BY <2>2 DEF Hello, Kept
  <2> QED
    BY <2>1, <2>2
<1> QED
  BY <1>1, <1>3, <1>4 DEF Kept, Filed, Shared

\* A session that is made is of another number than all before it.
LEMMA KeptMake ==
    ASSUME RoutedInv, Kept, NEW p \in Programs, MakeSession(p)
    PROVE  Kept'
<1> DEFINE s == [key |-> KeyOf[p], id |-> made + 1]
<1>1. /\ UNCHANGED <<clientHashMap, clientSessionMap, welcomed>>
      /\ made' = made + 1 /\ sessionKeys' = sessionKeys \cup {SessionHash(s)}
      /\ conn' = [conn EXCEPT ![p].at = "store", ![p].object = s]
  BY DEF MakeSession
<1>2. made \in Nat /\ s \in Object /\ s.id = made + 1
  BY HttpAssumption DEF RoutedInv, Types, Object
<1>3. conn'[p].object = s /\ \A q \in Programs : q # p => conn'[q] = conn[q]
  BY <1>1 DEF RoutedInv, Types, ConnType
<1>4. \A h \in DOMAIN clientSessionMap : clientSessionMap[h] \in Object
  BY DEF RoutedInv, Types
<1> HIDE DEF s
<1>5. Filed'
  BY <1>1, <1>2, <1>4 DEF Kept, Filed, Object, SessionHash
<1>6. Shared'
  BY <1>1 DEF Kept, Shared, SessionHash
<1>7. SessionHash(s) \notin DOMAIN clientSessionMap
  <2> SUFFICES ASSUME NEW h \in DOMAIN clientSessionMap, SessionHash(s) = h PROVE FALSE
    OBVIOUS
  <2>1. clientSessionMap[h].id = s.id
    BY <1>2, <1>4, HashTells DEF Kept, Filed
  <2> QED
    BY <1>2, <2>1 DEF Kept, Filed
<1>8. \A q \in Programs : Storing(q) => conn[q].object.id \in Nat /\ conn[q].object.id <= made
  BY DEF RoutedInv, Story, AtItsTarget, Object, Kept, Fresh, Held, Storing
<1>9. \A q \in Programs : q # p => (Storing(q)' <=> Storing(q))
  BY <1>3 DEF Storing
<1>10. ASSUME NEW q \in Programs, Storing(q)' PROVE Held(q)'
  <2>1. CASE q = p
    <3>1. conn'[p].object.id <= made'
      BY <1>1, <1>2, <1>3
    <3>2. SessionHash(conn'[p].object) \in sessionKeys' \ DOMAIN clientSessionMap'
      BY <1>1, <1>3, <1>7
    <3> QED
      BY <2>1, <3>1, <3>2 DEF Held, SessionHash
  <2>2. CASE q # p
    <3>1. Held(q) /\ conn'[q] = conn[q]
      BY <1>3, <1>9, <1>10, <2>2 DEF Kept, Fresh
    <3>2. conn'[q].object.id <= made'
      BY <1>1, <1>2, <1>8, <1>9, <1>10, <2>2, <3>1
    <3>3. SessionHash(conn'[q].object) \in sessionKeys' \ DOMAIN clientSessionMap'
      <4>1. sessionKeys \subseteq sessionKeys' /\ clientSessionMap' = clientSessionMap
        BY <1>1
      <4>2. SessionHash(conn[q].object) \in sessionKeys \ DOMAIN clientSessionMap
        BY <3>1 DEF Held
      <4>3. SessionHash(conn'[q].object) = SessionHash(conn[q].object)
        BY <3>1
      <4> QED
        BY <4>1, <4>2, <4>3
    <3> QED
      BY <3>2, <3>3 DEF Held, SessionHash
  <2> QED
    BY <2>1, <2>2
<1>11. ASSUME NEW q \in Programs, NEW r \in Programs, q # r, Storing(q)', Storing(r)'
       PROVE  conn'[q].object.id # conn'[r].object.id
  BY <1>2, <1>3, <1>8, <1>9, <1>11 DEF Kept, Fresh
<1>12. Fresh'
  BY <1>10, <1>11 DEF Fresh
<1> QED
  BY <1>1, <1>5, <1>6, <1>12 DEF Kept
\* An insert that does not race loses no session, so no key is removed.
LEMMA KeptStore ==
    ASSUME RoutedInv, Kept, NEW p \in Programs, StoreSession(p), ~raced'
    PROVE  Kept'
<1> DEFINE s == conn[p].object
<1>1. s \in Object /\ s.key \in Keys /\ Held(p)
  BY DEF StoreSession, In, RoutedInv, Story, AtItsTarget, Object, Kept, Fresh, Storing
<1>2. ~\E q \in Running \ {p} : conn[q].at \in AtMaps
  BY DEF StoreSession
<1>3. /\ clientHashMap' = [clientHashMap EXCEPT ![s.key] = s]
      /\ clientSessionMap' = Inserted(s)
      /\ made' = made /\ welcomed' = welcomed \cup {SessionHash(s)}
  BY <1>2 DEF StoreSession
<1>4. /\ DOMAIN clientSessionMap' = DOMAIN clientSessionMap \cup {SessionHash(s)}
      /\ clientSessionMap'[SessionHash(s)] = s
      /\ \A h \in DOMAIN clientSessionMap :
             h # SessionHash(s) /\ clientSessionMap'[h] = clientSessionMap[h]
  BY <1>1, <1>3 DEF Inserted, Held
<1>5. sessionKeys' = sessionKeys
  <2> DEFINE before == InMaps(clientHashMap, clientSessionMap) \cup {s}
             after == InMaps(clientHashMap', clientSessionMap') \cup {None}
             gone == before \ after
  <2>1. sessionKeys' = sessionKeys \ {SessionHash(o) : o \in gone}
    BY DEF StoreSession
  <2>2. ASSUME NEW o \in before PROVE o \in after
    <3>1. \A h \in DOMAIN clientSessionMap' : clientSessionMap'[h] \in after
      BY DEF InMaps
    <3>2. CASE o = s
      BY <1>4, <3>1, <3>2
    <3>3. ASSUME NEW h \in DOMAIN clientSessionMap, o = clientSessionMap[h]
          PROVE  o \in after
      BY <1>4, <3>1, <3>3
    <3>4. ASSUME NEW k \in Keys, o = clientHashMap[k], o # None
          PROVE  o \in after
      BY <3>3, <3>4 DEF Kept, Shared
    <3> QED
      BY <3>2, <3>3, <3>4 DEF InMaps
  <2>3. gone = {}
    BY <2>2
  <2> QED
    BY <2>1, <2>3
<1>6. Filed'
  BY <1>1, <1>3, <1>4, <1>5 DEF Kept, Filed, Held, SessionHash
<1>7. Shared'
  <2> SUFFICES ASSUME NEW k \in Keys, clientHashMap'[k] # None
               PROVE  /\ SessionHash(clientHashMap'[k]) \in DOMAIN clientSessionMap'
                      /\ clientSessionMap'[SessionHash(clientHashMap'[k])] = clientHashMap'[k]
    BY DEF Shared, SessionHash
  <2>1. clientHashMap'[k] = IF k = s.key THEN s ELSE clientHashMap[k]
    BY <1>3 DEF RoutedInv, Types
  <2> QED
    BY <1>4, <2>1 DEF Kept, Shared
<1>8. \A q \in Programs : ~Storing(q)'
  <2>1. conn'[p].at = "commit" /\ \A q \in Programs : q # p => conn'[q] = conn[q]
    BY DEF StoreSession, Reply, RoutedInv, Types, ConnType
  <2>2. \A q \in Programs : q # p => conn[q].at # "store"
    BY <1>2 DEF Running, Handler, AtMaps
  <2> QED
    BY <2>1, <2>2 DEF Storing
<1>9. Fresh'
  BY <1>8 DEF Fresh
<1> QED
  BY <1>3, <1>4, <1>6, <1>7, <1>9 DEF Kept

\* The end of the process ends every promise.
LEMMA KeptGone ==
    ASSUME Gone PROVE Kept'
<1>1. clientSessionMap' = << >>
  BY DEF Gone
<1>2. DOMAIN << >> = {}
  OBVIOUS
<1>3. \A q \in Programs : ~Storing(q)'
  <2>1. \A q \in Programs : conn'[q].at = Closed.at
    BY DEF Gone, Closed
  <2> QED
    BY <2>1, ClosedFacts DEF Storing
<1> QED
  BY <1>1, <1>2, <1>3 DEF Gone, Kept, Filed, Shared, Fresh

\* Every step keeps the two maps as Kept says, until an insert races.
LEMMA KeptStep == KeptInv /\ [Next]_vars => KeptInv'
<1> SUFFICES ASSUME KeptInv, [Next]_vars PROVE KeptInv'
  OBVIOUS
<1>1. RoutedInv' /\ RoutedInv
  BY RoutedStep DEF KeptInv
<1>2. raced => raced'
  <2>1. ASSUME NEW p \in Programs, Program(p) \/ LoseConnection(p) \/ Serve(p)
        PROVE  raced => raced'
    BY <2>1 DEF Program, Run, MakeRequest, ReadResponse, FetchAnother, LoseConnection, Serve,
                OnHandshake, OnRead, OnEnd, OnWrite, OnShutdown, Hello, MakeSession,
                StoreSession, CheckSession, RouteTransaction, Query, Commit, serverVars
  <2> QED
    BY <2>1 DEF Next, Stop, Stopped, Crash, Start, vars, serverVars
<1>3. SUFFICES ASSUME Kept, ~raced' PROVE Kept'
  BY <1>1, <1>2 DEF KeptInv
<1>4. conn \in [Programs -> ConnType]
  BY <1>1 DEF RoutedInv, Types
<1>5. ASSUME NEW p \in Programs, Program(p) \/ LoseConnection(p) PROVE Kept'
  <2>1. UNCHANGED serverVars
    BY <1>5 DEF Program, Run, MakeRequest, ReadResponse, FetchAnother, LoseConnection
  <2>2. CASE MakeRequest(p)
    <3>1. conn' = conn \/ conn' = [conn EXCEPT ![p] =
              [Closed EXCEPT !.at = "backlog", !.target = Target(p), !.asked = TRUE,
                             !.hash = prog[p].hash]]
      BY <2>2 DEF MakeRequest
    <3>2. ASSUME NEW q \in Programs PROVE conn'[q] = conn[q] \/ conn'[q].at = "backlog"
      <4>1. conn' # conn /\ q = p =>
                conn'[q] = [Closed EXCEPT !.at = "backlog", !.target = Target(p), !.asked = TRUE,
                                          !.hash = prog[p].hash]
        BY <1>4, <3>1
      <4>2. conn' # conn /\ q # p => conn'[q] = conn[q]
        BY <1>4, <3>1
      <4> QED
        BY <4>1, <4>2 DEF Closed
    <3> QED
      <4>1. \A q \in Programs : Storing(q)' => Storing(q) /\ conn'[q].object = conn[q].object
        BY <3>2 DEF Storing
      <4> QED
        BY <1>3, <2>1, <4>1, KeptOn
  <2>3. CASE Run(p) \/ ReadResponse(p) \/ FetchAnother(p) \/ LoseConnection(p)
    <3>1. \A q \in Programs : conn'[q].at = conn[q].at /\ conn'[q].object = conn[q].object
      <4>1. CASE Run(p)
        BY <4>1 DEF Run
      <4>2. CASE ReadResponse(p)
        <5>1. conn' = [conn EXCEPT ![p].reply = NoReply, ![p].hung = conn[p].at # "free"]
          BY <4>2 DEF ReadResponse
        <5> QED
          BY <1>4, <5>1 DEF ConnType
      <4>3. CASE FetchAnother(p)
        BY <1>4, <4>3 DEF FetchAnother, ConnType
      <4>4. CASE LoseConnection(p)
        BY <1>4, <4>4 DEF LoseConnection, ConnType
      <4> QED
        BY <2>3, <4>1, <4>2, <4>3, <4>4
    <3>2. \A q \in Programs : Storing(q)' => Storing(q) /\ conn'[q].object = conn[q].object
      BY <3>1 DEF Storing
    <3> QED
      BY <1>3, <2>1, <3>2, KeptOn
  <2> QED
    BY <1>5, <2>2, <2>3 DEF Program
<1>6. ASSUME NEW p \in Programs, Serve(p) PROVE Kept'
  <2>1. CASE Hello(p)
    BY <1>1, <1>3, <2>1, KeptHello
  <2>2. CASE MakeSession(p)
    BY <1>1, <1>3, <2>2, KeptMake
  <2>3. CASE StoreSession(p)
    BY <1>1, <1>3, <2>3, KeptStore
  <2>4. CASE \/ OnHandshake(p) \/ OnRead(p) \/ OnEnd(p) \/ OnWrite(p) \/ OnShutdown(p)
             \/ CheckSession(p) \/ RouteTransaction(p) \/ Query(p) \/ Commit(p)
    <3>1. UNCHANGED serverVars
      BY <2>4 DEF OnHandshake, OnRead, OnEnd, OnWrite, OnShutdown, CheckSession,
                  RouteTransaction, Query, Commit
    <3>2. \A q \in Programs : conn'[q] = conn[q] \/ conn'[q].at # "store"
      BY <1>4, <2>4, ClosedFacts
         DEF OnHandshake, OnRead, OnEnd, OnWrite, OnShutdown, CheckSession, RouteTransaction,
             Query, Commit, Goes, Ends, Reply, Fail, Handling, ConnType
    <3>3. \A q \in Programs : Storing(q)' => Storing(q) /\ conn'[q].object = conn[q].object
      BY <3>2 DEF Storing
    <3> QED
      BY <1>3, <3>1, <3>3, KeptOn
  <2> QED
    BY <1>6, <2>1, <2>2, <2>3, <2>4 DEF Serve
<1>7. CASE Stop \/ Start \/ UNCHANGED vars
  <2>1. UNCHANGED serverVars /\ conn' = conn
    BY <1>7 DEF Stop, Start, vars
  <2> QED
    BY <1>3, <2>1, KeptOn DEF Storing
<1>8. CASE Stopped \/ Crash
  BY <1>8, KeptGone DEF Stopped, Crash
<1> QED
  BY <1>5, <1>6, <1>7, <1>8 DEF Next

(* WelcomedServed: however the hellos of a client overlap, a session it    *)
(* was welcomed with is found again, with its key in the keystore, for as  *)
(* long as the process lives and no insert has raced with another use of   *)
(* the two maps (HttpSessionManager::processHello and isValid, HttpSession *)
(* ::~HttpSession).                                                        *)
THEOREM WelcomedCorrect == Spec => []WelcomedServed
<1>1. KeptInv => WelcomedServed
  BY DEF KeptInv, Kept, Filed, WelcomedServed
<1> QED
  BY KeptStart, KeptStep, <1>1, PTL DEF Spec
----------------------------------------------------------------------------
(* The types.  What bounds the numbers of the sessions is that a program   *)
(* says hello once.                                                        *)

Recent == [key : Keys, id : 1 .. made]
Given == Keys \X (1 .. made)

Process == up \in {"up", "stopping", "down"} /\ starts \in 1 .. MaxStarts

(* Whatever is said of a session is said of one that was made. *)
Says(p) ==
    /\ {conn[p].hash, conn[p].reply.hash, prog[p].hash} \subseteq Given \cup {None}
    /\ conn[p].object \in Recent \cup {None}
Mapped ==
    /\ clientHashMap \in [Keys -> Recent \cup {None}]
    /\ \A h \in DOMAIN clientSessionMap :
           clientSessionMap[h] \in Recent /\ SessionHash(clientSessionMap[h]) = h
    /\ printed \cup sessionKeys \cup welcomed \subseteq Given

Holding(p) == conn[p].at = "store" <=> conn[p].object # None

(* A program that may still make a session has not said hello, or its      *)
(* hello is not answered.                                                  *)
MayMake(p) ==
    \/ prog[p].at = "off"
    \/ prog[p].at = "dial" /\ Target(p) = "hello"
    \/ conn[p].target = "hello" /\ conn[p].asked
    \/ conn[p].at \in {"hello", "make"}
Asking(p) ==
    /\ prog[p].at = "dial" /\ Target(p) = "hello" => conn[p].at = "free"
    /\ conn[p].at \in {"hello", "make"} => ~conn[p].asked
Makers == {p \in Programs : MayMake(p)}
Counted == made <= Cardinality(Programs \ Makers)

Threads == Cardinality(Running) <= HttpThreads

TypeInv ==
    /\ RoutedInv /\ Process /\ Mapped /\ Counted /\ Threads
    /\ \A p \in Programs : Says(p) /\ Holding(p) /\ Asking(p)

\* What any step but the making and storing of a session, and the end of the
\* process, does to the program it is about.
Local(p) ==
    /\ conn'[p].hash \in {conn[p].hash, prog[p].hash, None}
    /\ conn'[p].reply.hash \in {conn[p].reply.hash, None} \cup welcomed'
    /\ prog'[p].hash \in {prog[p].hash, conn[p].reply.hash, None} \cup printed
    /\ \/ conn'[p].object = conn[p].object /\ (conn'[p].at = "store" <=> conn[p].at = "store")
       \/ conn'[p].object = None /\ conn'[p].at # "store"
    /\ MayMake(p)' => MayMake(p)
    /\ Asking(p)'
    /\ conn'[p].at \in Handler => conn[p].at \in Handler \/ Cardinality(Running) < HttpThreads
    /\ \A q \in Programs \ {p} : conn'[q] = conn[q] /\ prog'[q] = prog[q]

\* More of what a connection looks like that is not there.
LEMMA ClosedMore ==
    /\ Closed.hash = None /\ Closed.object = None /\ Closed.asked = FALSE
    /\ Closed.reply.hash = None /\ Closed.target = None /\ Closed.at = "free"
  BY DEF Closed, NoReply

\* A program that begins has not connected yet.
LEMMA LocalRun == ASSUME TypeInv, NEW p \in Programs, Run(p) PROVE Local(p)
<1> USE DEF TypeInv, RoutedInv
<1>1. conn[p] = Closed /\ conn' = conn
  BY DEF Run, Story, Quiet
<1>2. prog[p].at = "off" /\ \A q \in Programs \ {p} : prog'[q] = prog[q]
  BY DEF Run, Exit, Types
<1>3. prog'[p].hash \in {prog[p].hash, None} \cup printed
  BY DEF Run, Exit, Types, ProgType
<1>4. MayMake(p)
  BY <1>2 DEF MayMake
<1>5. Asking(p)'
  BY <1>1, ClosedMore DEF Asking, Handler
<1> QED
  BY <1>1, <1>2, <1>3, <1>4, <1>5, ClosedMore DEF Local

\* A program that says hello had not said it.
LEMMA LocalMake == ASSUME TypeInv, NEW p \in Programs, MakeRequest(p) PROVE Local(p)
<1> USE DEF TypeInv, RoutedInv
<1>1. \A q \in Programs \ {p} : conn'[q] = conn[q] /\ prog'[q] = prog[q]
  BY DEF MakeRequest, Exit, Types
<1>2. CASE up = "down"
  <2>1. conn' = conn
    BY <1>2 DEF MakeRequest
  <2>2. prog'[p].at = "exit" /\ prog'[p].hash = prog[p].hash
    BY <1>2, Exits DEF MakeRequest
  <2>3. MayMake(p)' => MayMake(p)
    BY <2>1, <2>2 DEF MayMake
  <2>4. Asking(p)'
    BY <2>1, <2>2 DEF Asking
  <2> QED
    BY <1>1, <2>1, <2>2, <2>3, <2>4 DEF Local
<1>3. CASE up # "down"
  <2>1. conn'[p] = [Closed EXCEPT !.at = "backlog", !.target = Target(p), !.asked = TRUE,
                                  !.hash = prog[p].hash]
    BY <1>3 DEF MakeRequest, Types
  <2>2. /\ conn'[p].at = "backlog" /\ conn'[p].target = Target(p)
        /\ conn'[p].hash = prog[p].hash /\ conn'[p].object = None
        /\ conn'[p].reply.hash = None
    BY <2>1, ClosedFacts, ClosedMore DEF ConnType
  <2>3. prog[p].at = "dial" /\ prog'[p].at = "wait" /\ prog'[p].hash = prog[p].hash
    BY <1>3 DEF MakeRequest, Types, ProgType
  <2>4. MayMake(p)' => MayMake(p)
    BY <2>2, <2>3 DEF MayMake
  <2>5. Asking(p)'
    BY <2>2, <2>3 DEF Asking
  <2> QED
    BY <1>1, <2>2, <2>3, <2>4, <2>5 DEF Local, Handler
<1> QED
  BY <1>2, <1>3

\* A program that was told its session has no hello left to say.
LEMMA LocalRead == ASSUME TypeInv, NEW p \in Programs, ReadResponse(p) PROVE Local(p)
<1> USE DEF TypeInv, RoutedInv
<1>1. \A q \in Programs \ {p} : conn'[q] = conn[q] /\ prog'[q] = prog[q]
  BY DEF ReadResponse, Exit, Types
<1>2. /\ conn'[p].at = conn[p].at /\ conn'[p].target = conn[p].target
      /\ conn'[p].object = conn[p].object /\ conn'[p].hash = conn[p].hash
      /\ conn'[p].asked = conn[p].asked /\ conn'[p].reply.hash = None
  <2>1. conn' = [conn EXCEPT ![p].reply = NoReply, ![p].hung = conn[p].at # "free"]
    BY DEF ReadResponse
  <2> QED
    BY <2>1 DEF Types, ConnType, NoReply
<1>3. \/ prog'[p].at = "exit" /\ prog'[p].hash = prog[p].hash
      \/ /\ prog'[p].at = "dial" /\ prog'[p].hash = conn[p].reply.hash
         /\ prog'[p].hash # None /\ prog'[p].command = "transaction"
  <2>1. \/ \E code \in {"ok", "failed"} : Exit(p, code)
        \/ /\ prog[p].command = "transaction" /\ conn[p].reply.hash # None
           /\ prog' = [prog EXCEPT ![p].at = "dial", ![p].hash = conn[p].reply.hash]
    BY DEF ReadResponse
  <2> QED
    BY <2>1, Exits DEF Types, ProgType
<1>4. ~(prog'[p].at = "dial" /\ Target(p)' = "hello")
  BY <1>3 DEF Target
<1>5. MayMake(p)' => MayMake(p)
  BY <1>2, <1>3, <1>4 DEF MayMake
<1>6. Asking(p)'
  BY <1>2, <1>4 DEF Asking
<1> QED
  BY <1>1, <1>2, <1>3, <1>5, <1>6 DEF Local

\* A browser says no hello; who loses its connection says nothing more.
LEMMA LocalFetch ==
    ASSUME TypeInv, NEW p \in Programs, FetchAnother(p) \/ LoseConnection(p) PROVE Local(p)
<1> USE DEF TypeInv, RoutedInv
<1>1. \A q \in Programs \ {p} : conn'[q] = conn[q] /\ prog'[q] = prog[q]
  BY DEF FetchAnother, LoseConnection, Exit, Types
<1>2. /\ conn'[p].at = conn[p].at /\ conn'[p].target = conn[p].target
      /\ conn'[p].object = conn[p].object /\ conn'[p].hash = conn[p].hash
      /\ conn'[p].reply.hash \in {conn[p].reply.hash, None}
      /\ FetchAnother(p) \/ conn'[p].asked = conn[p].asked
  <2>1. CASE FetchAnother(p)
    <3>1. conn[p] \in ConnType /\ conn \in [Programs -> ConnType]
      BY DEF Types
    <3>2. conn' = [conn EXCEPT ![p] = [conn[p] EXCEPT !.reply = NoReply, !.asked = TRUE]]
      BY <2>1, <3>1 DEF FetchAnother
    <3> QED
      BY <2>1, <3>1, <3>2 DEF ConnType, NoReply
  <2>2. CASE LoseConnection(p)
    BY <2>2 DEF LoseConnection, Types, ConnType
  <2> QED
    BY <2>1, <2>2
<1>3. prog'[p].at \in {"wait", "exit"} /\ prog'[p].hash = prog[p].hash
  <2>1. CASE FetchAnother(p)
    BY <2>1 DEF FetchAnother, Types, ProgType
  <2>2. CASE LoseConnection(p)
    BY <2>2, Exits DEF LoseConnection
  <2> QED
    BY <2>1, <2>2
<1>4. FetchAnother(p) => conn[p].target = "files"
  BY DEF FetchAnother, Story, Waiting, Target
<1>5. FetchAnother(p) => conn[p].at \notin {"hello", "make"}
  BY <1>4 DEF Story, AtItsTarget
<1>6. MayMake(p)' => MayMake(p)
  BY <1>2, <1>3, <1>4 DEF MayMake
<1>7. Asking(p)'
  BY <1>2, <1>3, <1>5 DEF Asking
<1> QED
  BY <1>1, <1>2, <1>3, <1>6, <1>7 DEF Local

\* A connection that goes on, with no more asked of it than before.
LEMMA LocalOn ==
    ASSUME TypeInv, NEW p \in Programs, NEW c \in ConnType,
           prog' = prog, conn' = [conn EXCEPT ![p] = c],
           c.hash \in {conn[p].hash, None},
           c.reply.hash \in {conn[p].reply.hash, None} \cup welcomed',
           \/ c.object = conn[p].object /\ c.at # "store" /\ conn[p].at # "store"
           \/ c.object = None /\ c.at # "store",
           c.target = "hello" /\ c.asked => conn[p].target = "hello" /\ conn[p].asked,
           c.at \in {"hello", "make"} =>
               ~c.asked /\ MayMake(p),
           conn[p].at # "free",
           c.at \in Handler => conn[p].at \in Handler \/ Cardinality(Running) < HttpThreads
    PROVE  Local(p)
<1> USE DEF TypeInv, RoutedInv
<1>1. conn'[p] = c /\ \A q \in Programs \ {p} : conn'[q] = conn[q]
  BY DEF Types
<1>2. MayMake(p)' => MayMake(p)
  BY <1>1 DEF MayMake, Target
<1>3. Asking(p)'
  BY <1>1 DEF Asking, Target
<1> QED
  BY <1>1, <1>2, <1>3 DEF Local

\* The steps of a connection.
LEMMA LocalWire ==
    ASSUME TypeInv, NEW p \in Programs,
           OnHandshake(p) \/ OnRead(p) \/ OnEnd(p) \/ OnWrite(p) \/ OnShutdown(p)
    PROVE  Local(p)
<1> USE DEF TypeInv, RoutedInv
<1>1. conn[p] \in ConnType /\ conn \in [Programs -> ConnType]
  BY DEF Types
<1>2. prog' = prog
  BY DEF OnHandshake, OnRead, OnEnd, OnWrite, OnShutdown
<1>3. ASSUME Ends(p), conn[p].at # "free" PROVE Local(p)
  <2>1. conn' = [conn EXCEPT ![p] = Closed]
    BY <1>3 DEF Ends
  <2> QED
    BY <1>2, <1>3, <2>1, ClosedFacts, ClosedMore, LocalOn DEF Handler
<1>4. ASSUME NEW x \in {"read", "close"}, Goes(p, x), conn[p].at \notin {"free", "store"}
      PROVE  Local(p)
  <2> DEFINE c == [conn[p] EXCEPT !.at = x]
  <2>1. c \in ConnType /\ conn' = [conn EXCEPT ![p] = c]
    BY <1>1, <1>4, ConnFields DEF Goes, Place
  <2>2. /\ c.at = x /\ c.hash = conn[p].hash /\ c.reply = conn[p].reply
        /\ c.object = conn[p].object /\ c.target = conn[p].target /\ c.asked = conn[p].asked
    BY <1>1 DEF ConnType
  <2> HIDE DEF c
  <2> QED
    BY <1>2, <1>4, <2>1, <2>2, LocalOn DEF Handler
<1>5. CASE OnHandshake(p)
  BY <1>3, <1>4, <1>5 DEF OnHandshake, At
<1>6. CASE OnEnd(p) \/ OnShutdown(p) \/ OnWrite(p)
  BY <1>3, <1>4, <1>6 DEF OnEnd, OnShutdown, OnWrite, At
<1>7. CASE OnRead(p)
  <2>1. conn[p].at = "read" /\ conn[p].asked /\ Cardinality(Running) < HttpThreads
    BY <1>7 DEF OnRead, At
  <2>2. CASE Handling(p) = "write"
    <3>1. PICK status \in {"ok", "bad_request", "not_found", "server_error"} :
              conn' = [Reply(p, status, None, "write") EXCEPT ![p].asked = FALSE]
      BY <1>7, <2>2 DEF OnRead
    <3> DEFINE d == [conn[p] EXCEPT !.reply = [status |-> status, hash |-> None], !.at = "write"]
    <3> DEFINE c == [d EXCEPT !.asked = FALSE]
    <3>2. d \in ConnType
      BY <1>1, Replies DEF Place, Status
    <3>3. c \in ConnType
      BY <3>2, ConnFields
    <3>4. conn' = [conn EXCEPT ![p] = c]
      BY <1>1, <3>1 DEF Reply
    <3>5. /\ c.at = "write" /\ c.hash = conn[p].hash /\ c.reply.hash = None
          /\ c.object = conn[p].object /\ c.target = conn[p].target /\ c.asked = FALSE
      BY <1>1, <3>2 DEF ConnType
    <3> HIDE DEF c
    <3> QED
      BY <1>2, <2>1, <3>3, <3>4, <3>5, LocalOn DEF Handler
  <2>3. CASE Handling(p) # "write"
    <3> DEFINE d == [conn[p] EXCEPT !.at = Handling(p)]
    <3> DEFINE c == [d EXCEPT !.asked = FALSE]
    <3>1. /\ Handling(p) \in {"hello", "session"}
          /\ Handling(p) = "hello" => conn[p].target = "hello"
      BY <2>3 DEF Handling
    <3>2. d \in ConnType
      BY <1>1, <3>1, ConnFields DEF Place, Handler
    <3>3. c \in ConnType
      BY <3>2, ConnFields
    <3>4. conn' = [conn EXCEPT ![p] = c]
      BY <1>1, <1>7, <2>3 DEF OnRead
    <3>5. /\ c.at = Handling(p) /\ c.hash = conn[p].hash /\ c.reply = conn[p].reply
          /\ c.object = conn[p].object /\ c.target = conn[p].target /\ c.asked = FALSE
      BY <1>1, <3>2 DEF ConnType
    <3>6. c.at = "hello" => MayMake(p)
      BY <2>1, <3>1, <3>5 DEF MayMake
    <3> HIDE DEF c
    <3> QED
      BY <1>2, <2>1, <3>1, <3>3, <3>4, <3>5, <3>6, LocalOn
  <2> QED
    BY <2>2, <2>3
<1> QED
  BY <1>5, <1>6, <1>7

\* The steps of a handler: what it replies with is known to be given.
LEMMA LocalHandler ==
    ASSUME TypeInv, NEW p \in Programs,
           Hello(p) \/ CheckSession(p) \/ RouteTransaction(p) \/ Query(p) \/ Commit(p)
    PROVE  Local(p)
<1> USE DEF TypeInv, RoutedInv
<1>1. conn[p] \in ConnType /\ conn \in [Programs -> ConnType]
  BY DEF Types
<1>2. prog' = prog
  BY DEF Hello, CheckSession, RouteTransaction, Query, Commit
<1>3. conn[p].at \in {"hello", "session", "route", "query", "commit"}
  BY DEF Hello, CheckSession, RouteTransaction, Query, Commit, In
<1>4. ASSUME NEW x \in {"make", "query", "route", "write"}, Goes(p, x),
             x = "make" => conn[p].at = "hello"
      PROVE  Local(p)
  <2> DEFINE c == [conn[p] EXCEPT !.at = x]
  <2>1. c \in ConnType /\ conn' = [conn EXCEPT ![p] = c]
    BY <1>1, <1>4, ConnFields DEF Goes, Place, Handler
  <2>2. /\ c.at = x /\ c.hash = conn[p].hash /\ c.reply = conn[p].reply
        /\ c.object = conn[p].object /\ c.target = conn[p].target /\ c.asked = conn[p].asked
    BY <1>1 DEF ConnType
  <2>3. c.at = "make" => ~c.asked /\ MayMake(p)
    BY <1>4, <2>2 DEF Asking, MayMake
  <2> HIDE DEF c
  <2> QED
    BY <1>2, <1>3, <1>4, <2>1, <2>2, <2>3, LocalOn DEF Handler
<1>5. ASSUME NEW status \in Status, NEW h \in Hash \cup {None}, NEW x \in {"commit", "write"},
             conn' = Reply(p, status, h, x), h \in welcomed' \cup {None}
      PROVE  Local(p)
  <2> DEFINE c == [conn[p] EXCEPT !.reply = [status |-> status, hash |-> h], !.at = x]
  <2>1. c \in ConnType /\ conn' = [conn EXCEPT ![p] = c]
    BY <1>1, <1>5, Replies DEF Reply, Place, Handler
  <2>2. /\ c.at = x /\ c.hash = conn[p].hash /\ c.reply.hash = h
        /\ c.object = conn[p].object /\ c.target = conn[p].target /\ c.asked = conn[p].asked
    BY <1>1 DEF ConnType
  <2> HIDE DEF c
  <2> QED
    BY <1>2, <1>3, <1>5, <2>1, <2>2, LocalOn DEF Handler
<1>6. CASE Hello(p)
  <2>1. conn[p].at = "hello"
    BY <1>6 DEF Hello, In
  <2> DEFINE s == clientHashMap[KeyOf[p]]
  <2>2. \/ conn' = Reply(p, "ok", None, "commit")
        \/ /\ s # None /\ conn' = Reply(p, "ok", SessionHash(s), "commit")
           /\ welcomed' = welcomed \cup {SessionHash(s)}
        \/ Goes(p, "make")
    BY <1>6 DEF Hello
  <2>3. s # None => SessionHash(s) \in Hash
    BY HttpAssumption, HashIsHash DEF Types
  <2> HIDE DEF s
  <2> QED
    BY <1>4, <1>5, <2>1, <2>2, <2>3 DEF Status
<1>7. CASE CheckSession(p) \/ RouteTransaction(p) \/ Commit(p)
  BY <1>4, <1>5, <1>7 DEF CheckSession, RouteTransaction, Commit, Fail, Status
<1>8. CASE Query(p)
  <2>1. CASE Fail(p)
    BY <1>5, <2>1 DEF Fail, Status
  <2>2. CASE conn' = [Reply(p, "ok", None, "commit") EXCEPT ![p].close = TRUE]
    <3> DEFINE d == [conn[p] EXCEPT !.reply = [status |-> "ok", hash |-> None], !.at = "commit"]
    <3> DEFINE c == [d EXCEPT !.close = TRUE]
    <3>1. d \in ConnType
      BY <1>1, Replies DEF Place, Status, Handler
    <3>2. c \in ConnType
      BY <3>1, ConnFields
    <3>3. conn' = [conn EXCEPT ![p] = c]
      BY <1>1, <2>2 DEF Reply
    <3>4. /\ c.at = "commit" /\ c.hash = conn[p].hash /\ c.reply.hash = None
          /\ c.object = conn[p].object /\ c.target = conn[p].target /\ c.asked = conn[p].asked
      BY <1>1, <3>1 DEF ConnType
    <3> HIDE DEF c
    <3> QED
      BY <1>2, <1>3, <3>2, <3>3, <3>4, LocalOn DEF Handler
  <2> QED
    BY <1>8, <2>1, <2>2 DEF Query
<1> QED
  BY <1>6, <1>7, <1>8

----------------------------------------------------------------------------
(* The steps keep the types. *)

\* There are finitely many programs, so there are finitely many of any.
LEMMA SomePrograms ==
    ASSUME NEW S, S \subseteq Programs
    PROVE  /\ IsFiniteSet(S) /\ Cardinality(S) \in Nat
           /\ Cardinality(S) <= Cardinality(Programs) /\ Cardinality(Programs) \in Nat
  BY HttpAssumption, FS_Subset, FS_CardinalityType

\* While no session is made, makers only get fewer.
LEMMA CountOn ==
    ASSUME Counted, made \in Nat, made' = made,
           \A q \in Programs : MayMake(q)' => MayMake(q)
    PROVE  Counted'
<1>1. Programs \ Makers \subseteq Programs \ Makers'
  BY DEF Makers
<1>2. Cardinality(Programs \ Makers) <= Cardinality(Programs \ Makers')
  BY <1>1, SomePrograms, FS_Subset
<1>3. /\ Cardinality(Programs \ Makers) \in Nat
      /\ Cardinality(Programs \ Makers') \in Nat
  BY SomePrograms
<1> QED
  BY <1>2, <1>3 DEF Counted

\* A maker that makes its session is one no more.
LEMMA CountMake ==
    ASSUME Counted, made \in Nat, made' = made + 1, NEW p \in Programs,
           MayMake(p), ~MayMake(p)', \A q \in Programs : MayMake(q)' => MayMake(q)
    PROVE  Counted'
<1>1. (Programs \ Makers) \cup {p} \subseteq Programs \ Makers' /\ p \notin Programs \ Makers
  BY DEF Makers
<1>2. Cardinality((Programs \ Makers) \cup {p}) = Cardinality(Programs \ Makers) + 1
  BY <1>1, SomePrograms, FS_AddElement
<1>3. Cardinality((Programs \ Makers) \cup {p}) <= Cardinality(Programs \ Makers')
  BY <1>1, SomePrograms, FS_Subset
<1>4. /\ Cardinality(Programs \ Makers) \in Nat
      /\ Cardinality(Programs \ Makers') \in Nat
  BY SomePrograms
<1> QED
  BY <1>2, <1>3, <1>4 DEF Counted

\* A handler starts on a thread that is free.
LEMMA ThreadsOn ==
    ASSUME Threads, NEW p \in Programs, NEW c, NEW d, Running = c, Running' = d,
           d \subseteq c \/ (d \subseteq c \cup {p} /\ Cardinality(c) < HttpThreads)
    PROVE  Threads'
<1>1. c \subseteq Programs /\ d \subseteq Programs /\ c \cup {p} \subseteq Programs
  BY DEF Running
<1>2. /\ IsFiniteSet(c) /\ Cardinality(c) \in Nat /\ Cardinality(d) \in Nat
      /\ IsFiniteSet(c \cup {p}) /\ Cardinality(c \cup {p}) \in Nat
  BY <1>1, SomePrograms
<1>3. Cardinality(c) <= HttpThreads /\ HttpThreads \in Nat
  BY HttpAssumption DEF Threads
<1>4. CASE d \subseteq c
  <2>1. Cardinality(d) <= Cardinality(c)
    BY <1>2, <1>4, FS_Subset
  <2> QED
    BY <1>2, <1>3, <2>1 DEF Threads
<1>5. CASE d \subseteq c \cup {p} /\ Cardinality(c) < HttpThreads
  <2>1. Cardinality(d) <= Cardinality(c \cup {p})
    BY <1>2, <1>5, FS_Subset
  <2>2. Cardinality(c \cup {p}) <= Cardinality(c) + 1
    BY <1>2, FS_AddElement
  <2> QED
    BY <1>2, <1>3, <1>5, <2>1, <2>2 DEF Threads
<1> QED
  BY <1>4, <1>5

\* What a session's hash tells was made.
LEMMA HashGiven == \A s \in Recent : SessionHash(s) \in Given
  BY DEF Recent, Given, SessionHash

\* A step that is local, with the maps as they were.
LEMMA TypeOn ==
    ASSUME TypeInv, RoutedInv', NEW p \in Programs, Local(p),
           UNCHANGED <<up, starts, clientHashMap, clientSessionMap, sessionKeys, made>>,
           welcomed' \subseteq Given, printed' \subseteq printed \cup ({conn[p].reply.hash} \ {None})
    PROVE  TypeInv'
<1> USE DEF TypeInv
<1>1. made \in Nat /\ Recent' = Recent /\ Given' = Given
  BY DEF RoutedInv, Types, Recent, Given
<1>2. Process' /\ Mapped'
  <2>1. conn[p].reply.hash \in Given \cup {None}
    BY DEF Says
  <2>2. printed' \cup sessionKeys' \cup welcomed' \subseteq Given'
    BY <1>1, <2>1 DEF Mapped
  <2>3. clientHashMap' \in [Keys -> Recent' \cup {None}]
    BY <1>1 DEF Mapped
  <2>4. \A h \in DOMAIN clientSessionMap' :
            clientSessionMap'[h] \in Recent' /\ SessionHash(clientSessionMap'[h]) = h
    BY <1>1 DEF Mapped
  <2>5. Mapped'
    BY <2>2, <2>3, <2>4 DEF Mapped, SessionHash
  <2> QED
    BY <2>5 DEF Process
<1>3. Counted'
  <2>1. \A q \in Programs : MayMake(q)' => MayMake(q)
    BY DEF Local, MayMake, Target
  <2> QED
    BY <1>1, <2>1, CountOn
<1>4. Threads'
  <2>1. \/ Running' \subseteq Running
        \/ Running' \subseteq Running \cup {p} /\ Cardinality(Running) < HttpThreads
    BY DEF Local, Running
  <2> QED
    BY <2>1, ThreadsOn
<1>5. ASSUME NEW q \in Programs PROVE Says(q)' /\ Holding(q)' /\ Asking(q)'
  <2>1. CASE q # p
    <3>1. conn'[q] = conn[q] /\ prog'[q] = prog[q]
      BY <2>1 DEF Local
    <3> QED
      BY <1>1, <3>1 DEF Says, Holding, Asking, Target
  <2>2. CASE q = p
    <3>1. Says(p)'
      <4>1. printed \subseteq Given /\ Says(p)
        BY DEF Mapped
      <4> QED
        BY <1>1, <4>1 DEF Local, Says
    <3>2. Holding(p)'
      BY DEF Local, Holding
    <3>3. Asking(p)'
      BY DEF Local
    <3> QED
      BY <2>2, <3>1, <3>2, <3>3
  <2> QED
    BY <2>1, <2>2
<1> QED
  BY <1>2, <1>3, <1>4, <1>5

\* A session that is made is the one of its program.
LEMMA TypeMake ==
    ASSUME TypeInv, RoutedInv', NEW p \in Programs, MakeSession(p) PROVE TypeInv'
<1> USE DEF TypeInv
<1> DEFINE s == [key |-> KeyOf[p], id |-> made + 1]
<1>1. /\ UNCHANGED <<up, starts, clientHashMap, clientSessionMap, welcomed, prog, printed>>
      /\ made' = made + 1 /\ sessionKeys' = sessionKeys \cup {SessionHash(s)}
      /\ conn' = [conn EXCEPT ![p].at = "store", ![p].object = s]
      /\ conn[p].at = "make"
  BY DEF MakeSession, In
<1>2. made \in Nat /\ KeyOf[p] \in Keys /\ conn \in [Programs -> ConnType]
  BY HttpAssumption DEF RoutedInv, Types
<1>3. Recent \subseteq Recent' /\ Given \subseteq Given' /\ s \in Recent' /\ SessionHash(s) \in Given'
  BY <1>1, <1>2 DEF Recent, Given, SessionHash
<1>4. s # None
  BY <1>2, HttpAssumption
<1>5. /\ conn'[p].at = "store" /\ conn'[p].object = s /\ conn'[p].hash = conn[p].hash
      /\ conn'[p].reply = conn[p].reply /\ conn'[p].asked = conn[p].asked
      /\ conn'[p].target = conn[p].target
      /\ \A q \in Programs \ {p} : conn'[q] = conn[q]
  BY <1>1, <1>2 DEF ConnType
<1> HIDE DEF s
<1>6. Process' /\ Mapped'
  <2>1. printed' \cup sessionKeys' \cup welcomed' \subseteq Given'
    BY <1>1, <1>3 DEF Mapped
  <2>2. clientHashMap' \in [Keys -> Recent' \cup {None}]
    BY <1>1, <1>3 DEF Mapped
  <2>3. \A h \in DOMAIN clientSessionMap' :
            clientSessionMap'[h] \in Recent' /\ SessionHash(clientSessionMap'[h]) = h
    BY <1>1, <1>3 DEF Mapped
  <2>4. Mapped'
    BY <2>1, <2>2, <2>3 DEF Mapped, SessionHash
  <2> QED
    BY <1>1, <2>4 DEF Process
<1>7. Counted'
  <2>1. ~conn[p].asked
    BY <1>1 DEF Asking
  <2>2. prog[p].at # "off"
    BY <1>1, ClosedFacts DEF RoutedInv, Story, Quiet
  <2>3. ~(prog[p].at = "dial" /\ Target(p) = "hello")
    BY <1>1 DEF Asking
  <2>4. MayMake(p) /\ ~MayMake(p)'
    BY <1>1, <1>5, <2>1, <2>2, <2>3 DEF MayMake, Target
  <2>5. \A q \in Programs : MayMake(q)' => MayMake(q)
    BY <1>1, <1>5, <2>4 DEF MayMake, Target
  <2> QED
    BY <1>1, <1>2, <2>4, <2>5, CountMake
<1>8. Threads'
  <2>1. Running' \subseteq Running
    BY <1>1, <1>5 DEF Running, Handler
  <2> QED
    BY <2>1, ThreadsOn
<1>9. ASSUME NEW q \in Programs PROVE Says(q)' /\ Holding(q)' /\ Asking(q)'
  <2>1. Says(q)'
    <3>1. {conn'[q].hash, conn'[q].reply.hash, prog'[q].hash} \subseteq Given \cup {None}
      <4>1. /\ conn'[q].hash = conn[q].hash /\ conn'[q].reply = conn[q].reply
            /\ prog'[q].hash = prog[q].hash
        BY <1>1, <1>5
      <4> QED
        BY <4>1 DEF Says
    <3>2. conn'[q].object \in Recent' \cup {None}
      BY <1>3, <1>5 DEF Says
    <3> QED
      BY <1>3, <3>1, <3>2 DEF Says
  <2>2. Holding(q)'
    BY <1>4, <1>5 DEF Holding
  <2>3. Asking(q)'
    BY <1>1, <1>5 DEF Asking, Target
  <2> QED
    BY <2>1, <2>2, <2>3
<1> QED
  BY <1>6, <1>7, <1>8, <1>9

\* A session that is stored is held by the maps, or by nobody.
LEMMA TypeStore ==
    ASSUME TypeInv, RoutedInv', NEW p \in Programs, StoreSession(p) PROVE TypeInv'
<1> USE DEF TypeInv
<1> DEFINE s == conn[p].object
<1>1. /\ UNCHANGED <<up, starts, made, prog, printed>>
      /\ conn[p].at = "store"
      /\ conn' = [Reply(p, "ok", SessionHash(s), "commit") EXCEPT ![p].object = None]
      /\ welcomed' = welcomed \cup {SessionHash(s)}
      /\ sessionKeys' \subseteq sessionKeys
      /\ clientHashMap' \in {clientHashMap, [clientHashMap EXCEPT ![s.key] = s]}
      /\ clientSessionMap' \in {clientSessionMap, Inserted(s)}
  BY DEF StoreSession, In
<1>2. conn \in [Programs -> ConnType] /\ made \in Nat
  BY DEF RoutedInv, Types
<1>3. s \in Recent
  BY <1>1, HttpAssumption DEF Holding, Says
<1>4. SessionHash(s) \in Given /\ Recent' = Recent /\ Given' = Given
  BY <1>1, <1>3, HashGiven DEF Recent, Given
<1>5. /\ conn'[p].at = "commit" /\ conn'[p].object = None /\ conn'[p].hash = conn[p].hash
      /\ conn'[p].reply.hash = SessionHash(s) /\ conn'[p].asked = conn[p].asked
      /\ conn'[p].target = conn[p].target
      /\ \A q \in Programs \ {p} : conn'[q] = conn[q]
  BY <1>1, <1>2 DEF Reply, ConnType
<1> HIDE DEF s
<1>6. Process' /\ Mapped'
  <2>1. printed' \cup sessionKeys' \cup welcomed' \subseteq Given'
    BY <1>1, <1>4 DEF Mapped
  <2>2. clientHashMap' \in [Keys -> Recent' \cup {None}]
    BY <1>1, <1>3, <1>4 DEF Mapped
  <2>3. \A h \in DOMAIN clientSessionMap' :
            clientSessionMap'[h] \in Recent' /\ SessionHash(clientSessionMap'[h]) = h
    <3>1. CASE clientSessionMap' = clientSessionMap
      BY <1>4, <3>1 DEF Mapped
    <3>2. CASE clientSessionMap' = Inserted(s)
      BY <1>3, <1>4, <3>2 DEF Mapped, Inserted
    <3> QED
      BY <1>1, <3>1, <3>2
  <2>4. Mapped'
    BY <2>1, <2>2, <2>3 DEF Mapped, SessionHash
  <2> QED
    BY <1>1, <2>4 DEF Process
<1>7. Counted'
  <2>1. \A q \in Programs : MayMake(q)' => MayMake(q)
    BY <1>1, <1>5 DEF MayMake, Target
  <2> QED
    BY <1>1, <1>2, <2>1, CountOn
<1>8. Threads'
  <2>1. Running' \subseteq Running
    BY <1>1, <1>5 DEF Running, Handler
  <2> QED
    BY <2>1, ThreadsOn
<1>9. ASSUME NEW q \in Programs PROVE Says(q)' /\ Holding(q)' /\ Asking(q)'
  <2>1. Says(q)'
    BY <1>1, <1>4, <1>5 DEF Says
  <2>2. Holding(q)'
    BY <1>5 DEF Holding
  <2>3. Asking(q)'
    BY <1>1, <1>5 DEF Asking, Target
  <2> QED
    BY <2>1, <2>2, <2>3
<1> QED
  BY <1>6, <1>7, <1>8, <1>9

\* When the process ends the programs are left with what they were told.
LEMMA TypeGone ==
    ASSUME TypeInv, RoutedInv', Gone, UNCHANGED <<starts, made, printed>> PROVE TypeInv'
<1> USE DEF TypeInv
<1>1. made \in Nat /\ Recent' = Recent /\ Given' = Given
  BY DEF RoutedInv, Types, Recent, Given
<1>2. Process' /\ Mapped'
  <2>1. DOMAIN clientSessionMap' = {}
    <3>1. clientSessionMap' = << >>
      BY DEF Gone
    <3>2. DOMAIN << >> = {}
      OBVIOUS
    <3> QED
      BY <3>1, <3>2
  <2> QED
    BY <1>1, <2>1 DEF Gone, Process, Mapped
<1>3. ASSUME NEW q \in Programs
      PROVE  /\ conn'[q].at = "free" /\ conn'[q].object = None /\ conn'[q].hash = None
             /\ conn'[q].reply = conn[q].reply /\ conn'[q].target = None
  <2>1. conn'[q] = [Closed EXCEPT !.reply = conn[q].reply]
    BY DEF Gone
  <2> QED
    BY <2>1, ClosedMore, ClosedFacts DEF Closed
<1>4. ASSUME NEW q \in Programs
      PROVE  /\ prog'[q].hash = prog[q].hash
             /\ prog'[q].at = "exit" \/ prog'[q] = prog[q]
  BY DEF Gone, RoutedInv, Types, ProgType
<1>5. Counted'
  <2>1. \A q \in Programs : MayMake(q)' => MayMake(q)
    BY <1>3, <1>4, NoneIsNoWord DEF MayMake, Target
  <2> QED
    BY <1>1, <2>1, CountOn
<1>6. Threads'
  <2>1. Running' = {}
    BY <1>3 DEF Running, Handler
  <2> QED
    BY <2>1, FS_EmptySet, HttpAssumption DEF Threads
<1>7. ASSUME NEW q \in Programs PROVE Says(q)' /\ Holding(q)' /\ Asking(q)'
  BY <1>1, <1>3, <1>4 DEF Says, Holding, Asking
<1> QED
  BY <1>2, <1>5, <1>6, <1>7

\* At the start no session is made and every program may make one.
LEMMA TypeStart == Init => TypeInv
<1> SUFFICES ASSUME Init PROVE TypeInv
  OBVIOUS
<1>1. \A p \in Programs : conn[p] = Closed /\ prog[p].at = "off" /\ prog[p].hash = None
  BY DEF Init
<1>2. clientSessionMap = << >> /\ DOMAIN clientSessionMap = {}
  BY DEF Init
<1>3. Process /\ Mapped
  BY <1>2, HttpAssumption DEF Init, Process, Mapped
<1>4. Counted
  BY SomePrograms DEF Init, Counted
<1>5. Threads
  <2>1. Running = {}
    BY <1>1, ClosedFacts DEF Running, Handler
  <2> QED
    BY <2>1, FS_EmptySet, HttpAssumption DEF Threads
<1>6. \A p \in Programs : Says(p) /\ Holding(p) /\ Asking(p)
  BY <1>1, ClosedFacts, ClosedMore DEF Says, Holding, Asking
<1> QED
  BY <1>3, <1>4, <1>5, <1>6, RoutedStart DEF TypeInv

\* Every step of the system keeps the types.
LEMMA TypeStep == TypeInv /\ [Next]_vars => TypeInv'
<1> SUFFICES ASSUME TypeInv, [Next]_vars PROVE TypeInv'
  OBVIOUS
<1>1. RoutedInv /\ RoutedInv'
  BY RoutedStep DEF TypeInv
<1>2. welcomed \subseteq Given
  BY DEF TypeInv, Mapped
<1>3. ASSUME NEW p \in Programs, Program(p) \/ LoseConnection(p) PROVE TypeInv'
  <2>1. Local(p)
    BY <1>3, LocalRun, LocalMake, LocalRead, LocalFetch DEF Program
  <2>2. printed' \subseteq printed \cup ({conn[p].reply.hash} \ {None})
    BY <1>3 DEF Program, Run, MakeRequest, ReadResponse, FetchAnother, LoseConnection
  <2>3. UNCHANGED <<up, starts, clientHashMap, clientSessionMap, sessionKeys, made, welcomed>>
    BY <1>3 DEF Program, Run, MakeRequest, ReadResponse, FetchAnother, LoseConnection, serverVars
  <2> QED
    BY <1>1, <1>2, <2>1, <2>2, <2>3, TypeOn
<1>4. ASSUME NEW p \in Programs, Serve(p), ~MakeSession(p), ~StoreSession(p) PROVE TypeInv'
  <2>1. Local(p)
    BY <1>4, LocalWire, LocalHandler DEF Serve
  <2>2. /\ printed' = printed
        /\ UNCHANGED <<up, starts, clientHashMap, clientSessionMap, sessionKeys, made>>
    BY <1>4 DEF Serve, OnHandshake, OnRead, OnEnd, OnWrite, OnShutdown, Hello, CheckSession,
                RouteTransaction, Query, Commit, serverVars
  <2>3. welcomed' \subseteq Given
    <3>1. CASE ~Hello(p)
      BY <1>2, <1>4, <3>1 DEF Serve, OnHandshake, OnRead, OnEnd, OnWrite, OnShutdown,
                              CheckSession, RouteTransaction, Query, Commit, serverVars
    <3>2. CASE Hello(p)
      <4> DEFINE s == clientHashMap[KeyOf[p]]
      <4>1. welcomed' = welcomed \/ (s # None /\ welcomed' = welcomed \cup {SessionHash(s)})
        BY <3>2 DEF Hello
      <4>2. s \in Recent \cup {None}
        BY HttpAssumption DEF TypeInv, Mapped
      <4> QED
        BY <1>2, <4>1, <4>2, HashGiven
    <3> QED
      BY <3>1, <3>2
  <2> QED
    BY <1>1, <2>1, <2>2, <2>3, TypeOn
<1>5. ASSUME NEW p \in Programs, MakeSession(p) \/ StoreSession(p) PROVE TypeInv'
  BY <1>1, <1>5, TypeMake, TypeStore
<1>6. CASE Stopped \/ Crash
  BY <1>1, <1>6, TypeGone DEF Stopped, Crash
<1>7. CASE Stop \/ Start \/ UNCHANGED vars
  <2>1. /\ UNCHANGED <<conn, prog, clientHashMap, clientSessionMap, sessionKeys, made, welcomed, printed>>
        /\ Process'
    BY <1>7, HttpAssumption DEF TypeInv, Process, Stop, Start, vars, serverVars
  <2>2. Mapped' /\ Counted' /\ Threads'
    BY <2>1 DEF TypeInv, Mapped, Recent, Given, Counted, Makers, MayMake, Target, Threads,
                Running, SessionHash
  <2>3. \A q \in Programs : Says(q)' /\ Holding(q)' /\ Asking(q)'
    BY <2>1 DEF TypeInv, Says, Holding, Asking, Target, Recent, Given
  <2> QED
    BY <1>1, <2>1, <2>2, <2>3 DEF TypeInv
<1> QED
  BY <1>3, <1>4, <1>5, <1>6, <1>7 DEF Next

(* TypeOK: however often the server stops, crashes and starts, and however *)
(* many hellos overlap, no more sessions are made than programs ask for,   *)
(* each is filed under its own hash, a handler holds a session exactly     *)
(* while it stores it, and no more handlers run than there are threads     *)
(* (HttpdServer::start, HttpSessionManager::processHello).                 *)
THEOREM TypesCorrect == Spec => []TypeOK
<1>1. TypeInv => TypeOK
  <2> SUFFICES ASSUME TypeInv PROVE TypeOK
    OBVIOUS
  <2> USE DEF TypeInv
  <2>1. Recent \subseteq Objects /\ Given \subseteq Hashes
    <3> DEFINE n == Cardinality(Programs)
    <3>1. n \in Nat /\ made \in Nat /\ made <= n
      BY SomePrograms DEF Counted, RoutedInv, Types
    <3>2. \A i, j \in Nat : j # 0 => i <= i * j /\ i * j \in Nat
      OBVIOUS
    <3>3. 1 .. made \subseteq 1 .. (n * MaxStarts)
      BY <3>1, <3>2, HttpAssumption
    <3> HIDE DEF n
    <3>4. \A k \in Keys, i \in 1 .. made : [key |-> k, id |-> i] \in Objects
      BY <3>3 DEF Objects, n
    <3>5. Recent \subseteq Objects
      <4> SUFFICES ASSUME NEW s \in Recent PROVE s \in Objects
        OBVIOUS
      <4>1. s = [key |-> s.key, id |-> s.id] /\ s.key \in Keys /\ s.id \in 1 .. made
        BY DEF Recent
      <4> QED
        BY <3>4, <4>1
    <3>6. Given \subseteq Hashes
      <4> SUFFICES ASSUME NEW k \in Keys, NEW i \in 1 .. made PROVE <<k, i>> \in Hashes
        BY DEF Given
      <4>1. SessionHash([key |-> k, id |-> i]) = <<k, i>>
        BY DEF SessionHash
      <4> QED
        BY <3>4, <4>1 DEF Hashes
    <3> QED
      BY <3>5, <3>6
  <2>2. None \notin Objects
    <3>1. None \notin [key : Keys, id : Nat]
      BY HttpAssumption
    <3>2. Objects \subseteq [key : Keys, id : Nat]
      <4>1. Cardinality(Programs) * MaxStarts \in Nat
        BY SomePrograms, HttpAssumption
      <4> QED
        BY <4>1 DEF Objects
    <3> QED
      BY <3>1, <3>2
  <2>3. ASSUME NEW p \in Programs
        PROVE  /\ conn[p].at \in Handler \cup {"free", "backlog", "read", "write", "close"}
               /\ conn[p].hash \in Hashes \cup {None}
               /\ conn[p].at = "store" <=> conn[p].object \in Objects
               /\ prog[p].at \in {"off", "dial", "wait", "exit"}
    <3>1. conn[p] \in ConnType /\ prog[p] \in ProgType
      BY DEF RoutedInv, Types
    <3>2. Says(p) /\ Holding(p)
      OBVIOUS
    <3> QED
      BY <2>1, <2>2, <3>1, <3>2 DEF ConnType, ProgType, Place, Says, Holding
  <2>4. clientHashMap \in [Keys -> Objects \cup {None}]
    BY <2>1 DEF Mapped
  <2> QED
    BY <2>1, <2>3, <2>4 DEF TypeOK, Process, Mapped, Threads
<1> QED
  BY TypeStart, TypeStep, <1>1, PTL DEF Spec
=============================================================================
