-------------------------- MODULE RpcSessionsProofs --------------------------
(***************************************************************************)
(* Theorems about the RPC sessions and their software consensus, for any   *)
(* number of connections, servers, modules, keys and routes.               *)
(***************************************************************************)
EXTENDS RpcSessions, TLAPS

Place == {"none", "made", "open", "reading", "registered", "ended"}
Story == [claimed : SUBSET Hash, answer : {"", "ACCEPTED", "GO_AWAY"}, disturbed : BOOLEAN,
          beside : SUBSET Conns]
Channel == [Conns -> Seq(Message)]

\* Every message of s is one of M; none has a command of C; at most one has.
All(s, M) == \A i \in 1 .. Len(s) : s[i] \in M
Without(C) == {m \in Message : m.command \notin C}
Lacks(s, C) == All(s, Without(C))
AtMostOne(s, C) ==
    \A i, j \in 1 .. Len(s) : s[i].command \in C /\ s[j].command \in C => i = j

(***************************************************************************)
(* The invariant.                                                          *)
(***************************************************************************)

Types ==
    /\ ConsensusTypeOK
    /\ client \in [Conns -> Place]
    /\ server \in [Conns -> {"none", "reading", "ended"}]
    /\ toServer \in Channel /\ toClient \in Channel
    /\ sessions \in [Clients -> Conns \cup {None}]
    /\ mapping \in [Clients -> Conns \cup {None}]
    /\ \A n \in Clients : /\ sessions[n] # None => Node[sessions[n]] = n
                          /\ mapping[n] # None => Node[mapping[n]] = n
    /\ peerCache \subseteq Nodes
    /\ currentPos \in 0 .. Len(SessionKeys) /\ processed \in 0 .. MaxProcess
    /\ routing \in Clients \cup {None} /\ routed \in 0 .. MaxRoutes
    /\ serverUp \in BOOLEAN
    /\ story \in [Conns -> Story]
    /\ up \subseteq Conns /\ hello \subseteq Conns

Early == {"HELLO", "HELLO_CONSENSUS"}
Hello == {"HELLO_CONSENSUS"}
Busy(c) == ~(Free(Near[c]) /\ Free(Far[c]))

\* Nothing of the handshake is under way.
Quiet(c) == Lacks(toServer[c], Early) /\ Lacks(toClient[c], Hello) /\ ~Busy(c)

\* The handshake has one turn: it is under way to one end, or one is busy with it.
Turn(c) ==
    /\ AtMostOne(toServer[c], Early) /\ AtMostOne(toClient[c], Hello)
    /\ Lacks(toServer[c], Early) \/ (Lacks(toClient[c], Hello) /\ ~Busy(c))
    /\ Lacks(toClient[c], Hello) \/ ~Busy(c)
    /\ Free(Near[c]) \/ Free(Far[c])
    /\ story[c].answer # "" => Quiet(c)

\* What each strand may be doing; a script is set for a module.
Strands(c) ==
    /\ work[Near[c]].op \notin {"validate", "validated"}
    /\ work[Near[c]].op = "script" => work[Near[c]].at <= Len(Generators)
    /\ work[Far[c]].op \in {"idle", "validate", "validated"}

\* What has not happened before a connection, before the hello, before the
\* verdict, and to a session that was not made by setPeers.
Fresh(c) ==
    /\ client[c] \in {"none", "made", "open"} => c \notin hello /\ Quiet(c)
    /\ client[c] \in {"none", "made"} => server[c] = "none"
NoHello(c) ==
    c \notin hello => /\ Lacks(toServer[c], Command \ {"HELLO", "TRANSACTION"})
                      /\ toClient[c] = << >> /\ ~Busy(c) /\ story[c].answer = ""
NotRegistered(c) ==
    /\ Lacks(toServer[c], {"REGISTER"}) /\ Lacks(toClient[c], {"REGISTER"})
    /\ sessions[Node[c]] # c /\ client[c] # "registered"
Unanswered(c) ==
    story[c].answer # "ACCEPTED" => NotRegistered(c) /\ Lacks(toClient[c], {"ACCEPTED"})
Unpeered(c) == c \notin Peered => NotRegistered(c)

\* Whoever has been answered, or has read the answer, is kept for call backs, and
\* was registered beside every session of its account that can still close.
Kept(c) ==
    serverUp /\ c \in up
    /\ (client[c] = "registered" \/ ~Lacks(toClient[c], {"REGISTER"})) =>
        /\ sessions[Node[c]] \in {c} \cup story[c].beside \/ TakenBeside(c)
        /\ Beside(c) \subseteq story[c].beside

Complete(c) ==
    {m \in Message : m.command = "PEERS" => Server \in m.peers /\ Node[c] \notin m.peers}

\* The hashes a client sends are its own, and what is left of them is to be struck.
Own(n) == {HashOf(n, m) : m \in Module}
Claims(c) == {m \in Message : m.command = "HELLO_CONSENSUS" => m.hashes = story[c].claimed}
Claimed(c) ==
    /\ work[Near[c]].hashes \subseteq Own(Node[c]) /\ story[c].claimed \subseteq Own(Node[c])
    /\ All(toServer[c], Claims(c))
    /\ work[Far[c]].op # "idle" => /\ work[Far[c]].hashes \subseteq story[c].claimed
                                   /\ story[c].claimed \subseteq ServerHash \cup work[Far[c]].hashes
    /\ story[c].answer = "ACCEPTED" => story[c].claimed \subseteq ServerHash

\* Undisturbed, every hash of the same code is struck when its module is reached.
Rest(i) == {HashOf(Server, Generators[j]) : j \in {k \in i .. Len(Generators) : Generators[k] # "seed"}}
Undisturbed(c) == ~Foreign(Node[c]) /\ ~story[c].disturbed
Strikes(c) ==
    /\ work[Far[c]].op = "validate" /\ Undisturbed(c) =>
           /\ Free(Timer) /\ scripted[Server] = Generator
           /\ work[Far[c]].hashes \subseteq Rest(work[Far[c]].at)
    /\ work[Far[c]].op = "validated" /\ Undisturbed(c) => work[Far[c]].hashes = {}
    /\ story[c].answer = "GO_AWAY" => ~Undisturbed(c)

Talk(c) ==
    /\ Turn(c) /\ Strands(c) /\ Fresh(c) /\ NoHello(c) /\ Unanswered(c) /\ Unpeered(c)
    /\ Kept(c) /\ All(toClient[c], Complete(c)) /\ Claimed(c) /\ Strikes(c)

Inv ==
    /\ Types
    /\ work[Timer].op \in {"idle", "key", "script"}
    /\ work[Timer].op = "script" => work[Timer].at <= Len(Generators)
    /\ \A c \in Conns : Talk(c)

----------------------------------------------------------------------------
(* Messages and sequences of them.                                         *)

\* A message is what it is made of.
LEMMA SayFacts ==
    ASSUME NEW command \in Command
    PROVE  Say(command) \in Message /\ Say(command).command = command
  BY DEF Say, Message

\* The messages that say more than their command.
LEMMA SayMore ==
    /\ \A k \in Keys \cup {NoKey} :
           /\ [Say("HELLO_CONSENSUS") EXCEPT !.key = k] \in Message
           /\ [Say("HELLO_CONSENSUS") EXCEPT !.key = k].command = "HELLO_CONSENSUS"
    /\ \A h \in SUBSET Hash :
           /\ [Say("HELLO_CONSENSUS") EXCEPT !.hashes = h] \in Message
           /\ [Say("HELLO_CONSENSUS") EXCEPT !.hashes = h].command = "HELLO_CONSENSUS"
           /\ [Say("HELLO_CONSENSUS") EXCEPT !.hashes = h].hashes = h
    /\ \A p \in SUBSET Nodes :
           /\ [Say("PEERS") EXCEPT !.peers = p] \in Message
           /\ [Say("PEERS") EXCEPT !.peers = p].command = "PEERS"
           /\ [Say("PEERS") EXCEPT !.peers = p].peers = p
<1>1. Say("HELLO_CONSENSUS") \in Message /\ Say("PEERS") \in Message
  BY SayFacts DEF Command
<1>2. Say("HELLO_CONSENSUS").command = "HELLO_CONSENSUS" /\ Say("PEERS").command = "PEERS"
  BY SayFacts DEF Command
<1> QED
  BY <1>1, <1>2 DEF Message

\* No message is under way where nothing is.
LEMMA NoMessage ==
    /\ << >> \in Seq(Message)
    /\ \A M : All(<< >>, M)
    /\ \A C : Lacks(<< >>, C) /\ AtMostOne(<< >>, C)
  BY DEF All, Lacks, AtMostOne

\* What is left of a sequence when its head is taken.
LEMMA Tails ==
    ASSUME NEW s \in Seq(Message), s # << >>
    PROVE  /\ Tail(s) \in Seq(Message) /\ Head(s) \in Message
           /\ \A M : All(s, M) => All(Tail(s), M) /\ Head(s) \in M
           /\ \A C : Lacks(s, C) => Lacks(Tail(s), C) /\ Head(s).command \notin C
           /\ \A C : AtMostOne(s, C) => AtMostOne(Tail(s), C)
           /\ \A C : AtMostOne(s, C) /\ Head(s).command \in C => Lacks(Tail(s), C)
<1>1. /\ Tail(s) \in Seq(Message) /\ Head(s) \in Message /\ Head(s) = s[1] /\ Len(s) >= 1
      /\ Len(Tail(s)) = Len(s) - 1
      /\ \A i \in 1 .. Len(Tail(s)) : Tail(s)[i] = s[i + 1]
  OBVIOUS
<1>2. \A M : All(s, M) => All(Tail(s), M) /\ Head(s) \in M
  BY <1>1 DEF All
<1>3. \A C : AtMostOne(s, C) => AtMostOne(Tail(s), C)
  BY <1>1 DEF AtMostOne
<1>4. \A C : AtMostOne(s, C) /\ Head(s).command \in C => Lacks(Tail(s), C)
  BY <1>1 DEF AtMostOne, Without, All, Lacks
<1>5. \A C : Lacks(s, C) => Lacks(Tail(s), C) /\ Head(s).command \notin C
  BY <1>2 DEF Lacks, Without
<1> QED
  BY <1>1, <1>2, <1>3, <1>4, <1>5

\* What becomes of a sequence that a message is put behind.
LEMMA Appends ==
    ASSUME NEW s \in Seq(Message), NEW m \in Message
    PROVE  /\ Append(s, m) \in Seq(Message)
           /\ \A M : All(s, M) /\ m \in M => All(Append(s, m), M)
           /\ \A C : Lacks(s, C) /\ m.command \notin C => Lacks(Append(s, m), C)
           /\ \A C : AtMostOne(s, C) /\ m.command \notin C => AtMostOne(Append(s, m), C)
           /\ \A C : Lacks(s, C) => AtMostOne(s, C) /\ AtMostOne(Append(s, m), C)
<1>1. /\ Len(s) \in Nat /\ Len(Append(s, m)) = Len(s) + 1 /\ Append(s, m)[Len(s) + 1] = m
      /\ \A i \in 1 .. Len(s) : Append(s, m)[i] = s[i]
      /\ Append(s, m) \in Seq(Message)
  OBVIOUS
<1>2. \A M : All(s, M) /\ m \in M => All(Append(s, m), M)
  BY <1>1 DEF All
<1>3. \A C : AtMostOne(s, C) /\ m.command \notin C => AtMostOne(Append(s, m), C)
  BY <1>1 DEF AtMostOne
<1>4. \A C : Lacks(s, C) => AtMostOne(s, C) /\ AtMostOne(Append(s, m), C)
  BY <1>1 DEF AtMostOne, Without, All, Lacks
<1>5. \A C : Lacks(s, C) /\ m.command \notin C => Lacks(Append(s, m), C)
  BY <1>2 DEF Lacks, Without
<1> QED
  BY <1>1, <1>2, <1>3, <1>4, <1>5

\* What is put into a channel arrives behind what is there, or not at all.
LEMMA Puts ==
    ASSUME NEW channel \in Channel, NEW c \in Conns, NEW m \in Message
    PROVE  /\ Put(channel, c, m) \in Channel
           /\ \A d \in Conns \ {c} : Put(channel, c, m)[d] = channel[d]
           /\ \/ Put(channel, c, m)[c] = channel[c]
              \/ Put(channel, c, m)[c] = Append(channel[c], m) /\ c \in up
  BY Appends DEF Put, Channel

\* What is taken out of a channel is its head.
LEMMA Takes ==
    ASSUME NEW channel \in Channel, NEW c \in Conns, channel[c] # << >>
    PROVE  /\ Take(channel, c) \in Channel
           /\ \A d \in Conns \ {c} : Take(channel, c)[d] = channel[d]
           /\ Take(channel, c)[c] = Tail(channel[c])
  BY Tails DEF Take, Channel

----------------------------------------------------------------------------
(* What a step leaves alone.                                               *)

\* A connection that a step is not about, kept as it was.
LEMMA Bystander ==
    ASSUME Inv, NEW d \in Conns,
           toServer'[d] = toServer[d], toClient'[d] = toClient[d],
           client'[d] = client[d] \/ (client[d] = "none" /\ client'[d] = "made"),
           server'[d] = server[d], story'[d] = story[d],
           work'[Near[d]] = work[Near[d]], work'[Far[d]] = work[Far[d]],
           work'[Timer] = work[Timer], altered' = altered, scripted'[Server] = scripted[Server],
           (d \in hello') <=> (d \in hello),
           sessions'[Node[d]] = d => sessions[Node[d]] = d,
           Kept(d)'
    PROVE  Talk(d)'
<1>1. Talk(d)
  BY DEF Inv
<1>2. Quiet(d)' <=> Quiet(d)
  BY DEF Quiet, Lacks, All, Without, Busy, Free
<1>3. Turn(d)'
  BY <1>1, <1>2 DEF Talk, Turn, Lacks, All, Without, Busy, Free, AtMostOne
<1>4. Strands(d)' /\ Fresh(d)'
  BY <1>1, <1>2 DEF Talk, Strands, Fresh
<1>5. NotRegistered(d) => NotRegistered(d)'
  BY DEF NotRegistered, Lacks, All, Without
<1>6. NoHello(d)' /\ Unanswered(d)' /\ Unpeered(d)'
  BY <1>1, <1>5 DEF Talk, NoHello, Unanswered, Unpeered, Lacks, All, Without, Busy, Free
<1>7. All(toClient[d], Complete(d))'
  BY <1>1 DEF Talk, All, Complete
<1>8. Claimed(d)'
  BY <1>1 DEF Talk, Claimed, Own, HashOf, ServerHash, All, Claims
<1>9. Strikes(d)'
  BY <1>1 DEF Talk, Strikes, Undisturbed, Foreign, HashOf, Free, Rest
<1> QED
  BY <1>3, <1>4, <1>6, <1>7, <1>8, <1>9 DEF Talk

\* A connection goes on being kept.
LEMMA KeptOn ==
    ASSUME Inv, NEW d \in Conns, Kept(d), serverUp' => serverUp, d \in up' => d \in up,
           client'[d] = "registered" => client[d] = "registered",
           story'[d].beside = story[d].beside,
           Lacks(toClient[d], {"REGISTER"}) => Lacks(toClient'[d], {"REGISTER"}),
           sessions'[Node[d]] = sessions[Node[d]],
           \A e \in Conns : /\ e \in hello => e \in hello' /\ (e \in up' => e \in up)
                            /\ server[e] = "ended" => server'[e] = "ended"
    PROVE  Kept(d)'
<1>1. TakenBeside(d) => TakenBeside(d)'
  <2>1. story[d].beside \subseteq Conns
    BY DEF Inv, Types, Story
  <2> QED
    BY <2>1 DEF TakenBeside
<1>2. Beside(d)' \subseteq Beside(d)
  BY DEF Beside
<1> QED
  BY <1>1, <1>2 DEF Kept

\* Every strand is a thread of its own.
LEMMA StrandFacts ==
    /\ \A c \in Conns : /\ Near[c] \in Threads /\ Far[c] \in Threads /\ Near[c] # Timer
                        /\ Far[c] # Timer /\ Node[c] \in Nodes /\ Node[c] # Server
                        /\ Node[c] \in Clients /\ Node[c] # None
                        /\ NodeOf[Near[c]] = Node[c] /\ NodeOf[Far[c]] = Server
    /\ \A c, d \in Conns : /\ Near[c] # Far[d]
                           /\ c # d => Near[c] # Near[d] /\ Far[c] # Far[d]
    /\ Timer \in Threads /\ NodeOf[Timer] = Server
  BY ConnsAssumption, StrandsAssumption, ConsensusAssumption DEF Clients

\* The other connections, when a step is about one of them.
LEMMA Others ==
    ASSUME Inv, NEW c \in Conns,
           \A d \in Conns \ {c} : /\ toServer'[d] = toServer[d] /\ toClient'[d] = toClient[d]
                                  /\ client'[d] = client[d] /\ server'[d] = server[d]
                                  /\ story'[d] = story[d]
                                  /\ (d \in hello') <=> (d \in hello)
                                  /\ d \in up' => d \in up,
           \A t \in Threads \ {Near[c], Far[c]} : work'[t] = work[t],
           altered' = altered, scripted'[Server] = scripted[Server], sessions' = sessions,
           serverUp' => serverUp, server[c] = "ended" => server'[c] = "ended",
           c \in hello => c \in hello' /\ (c \in up' => c \in up)
    PROVE  \A d \in Conns \ {c} : Talk(d)'
<1> SUFFICES ASSUME NEW d \in Conns \ {c} PROVE Talk(d)'
  OBVIOUS
<1>1. /\ work'[Near[d]] = work[Near[d]] /\ work'[Far[d]] = work[Far[d]]
      /\ work'[Timer] = work[Timer]
  BY StrandFacts
<1>2. Kept(d)'
  BY KeptOn DEF Inv, Talk
<1> QED
  BY <1>1, <1>2, Bystander

\* The histories, when that of one session changes.
LEMMA Stories ==
    ASSUME NEW f \in [Conns -> Story], NEW c \in Conns, NEW r \in Story
    PROVE  LET g == [f EXCEPT ![c] = r]
           IN  g \in [Conns -> Story] /\ g[c] = r /\ \A d \in Conns \ {c} : g[d] = f[d]
  OBVIOUS

\* What is taken from the client's messages, and what the server puts in answer.
LEMMA Answered ==
    ASSUME Types, NEW c \in Conns, NEW m \in Message,
           toServer[c] # << >>, toServer' = Take(toServer, c), toClient' = Put(toClient, c, m)
    PROVE  /\ toServer' \in Channel /\ toClient' \in Channel
           /\ \A d \in Conns \ {c} : toServer'[d] = toServer[d] /\ toClient'[d] = toClient[d]
           /\ \A M : All(toServer[c], M) => All(toServer'[c], M) /\ Head(toServer[c]) \in M
           /\ \A C : Lacks(toServer[c], C) =>
                         Lacks(toServer'[c], C) /\ Head(toServer[c]).command \notin C
           /\ \A C : AtMostOne(toServer[c], C) =>
                         /\ AtMostOne(toServer'[c], C)
                         /\ Head(toServer[c]).command \in C => Lacks(toServer'[c], C)
           /\ \A M : All(toClient[c], M) /\ m \in M => All(toClient'[c], M)
           /\ \A C : Lacks(toClient[c], C) =>
                         /\ m.command \notin C => Lacks(toClient'[c], C)
                         /\ AtMostOne(toClient'[c], C)
           /\ \A C : AtMostOne(toClient[c], C) /\ m.command \notin C => AtMostOne(toClient'[c], C)
<1>1. toServer[c] \in Seq(Message) /\ toClient[c] \in Seq(Message)
  BY DEF Types, Channel
<1>2. /\ toServer' \in Channel /\ toClient' \in Channel
      /\ \A d \in Conns \ {c} : toServer'[d] = toServer[d] /\ toClient'[d] = toClient[d]
      /\ toServer'[c] = Tail(toServer[c])
      /\ toClient'[c] = toClient[c] \/ toClient'[c] = Append(toClient[c], m)
  BY Takes, Puts DEF Types
<1>3. /\ \A M : All(toServer[c], M) => All(toServer'[c], M) /\ Head(toServer[c]) \in M
      /\ \A C : Lacks(toServer[c], C) =>
                    Lacks(toServer'[c], C) /\ Head(toServer[c]).command \notin C
      /\ \A C : AtMostOne(toServer[c], C) =>
                    /\ AtMostOne(toServer'[c], C)
                    /\ Head(toServer[c]).command \in C => Lacks(toServer'[c], C)
  BY <1>1, <1>2, Tails
<1>4. /\ \A M : All(toClient[c], M) /\ m \in M => All(toClient'[c], M)
      /\ \A C : Lacks(toClient[c], C) =>
                    /\ m.command \notin C => Lacks(toClient'[c], C)
                    /\ AtMostOne(toClient'[c], C)
      /\ \A C : AtMostOne(toClient[c], C) /\ m.command \notin C => AtMostOne(toClient'[c], C)
  <2>1. CASE toClient'[c] = toClient[c]
    BY <1>1, <2>1, Appends
  <2>2. CASE toClient'[c] = Append(toClient[c], m)
    BY <1>1, <2>2, Appends
  <2> QED
    BY <1>2, <2>1, <2>2
<1> QED
  BY <1>2, <1>3, <1>4

\* The hashes of a handshake, when no strand does anything with them.
LEMMA ClaimsOn ==
    ASSUME NEW c \in Conns, Claimed(c), Strikes(c), All(toServer'[c], Claims(c)),
           altered' = altered, scripted'[Server] = scripted[Server],
           story'[c].claimed = story[c].claimed, story'[c].answer = story[c].answer,
           story'[c].disturbed = story[c].disturbed,
           work'[Near[c]] = work[Near[c]], work'[Far[c]] = work[Far[c]],
           work'[Timer] = work[Timer]
    PROVE  Claimed(c)' /\ Strikes(c)'
<1>1. Claimed(c)'
  BY DEF Claimed, Own, HashOf, ServerHash, All, Claims
<1>2. Strikes(c)'
  BY DEF Strikes, Undisturbed, Foreign, HashOf, Free, Rest
<1> QED
  BY <1>1, <1>2

\* The hello is kept, and answered with the server's secret.
LEMMA HelloStep == ASSUME Inv, NEW c \in Conns, HandleHello(c) PROVE Inv'
<1> DEFINE m == [Say("HELLO_CONSENSUS") EXCEPT !.key = secret[Server]]
<1>1. m \in Message /\ m.command = "HELLO_CONSENSUS"
  BY SayMore, ConnsAssumption DEF Inv, Types, ConsensusTypeOK
<1>2. /\ toServer[c] # << >> /\ Head(toServer[c]).command = "HELLO"
      /\ toServer' = Take(toServer, c) /\ toClient' = Put(toClient, c, m)
  BY DEF HandleHello, Handles, Arrived
<1> HIDE DEF m
<1>3. Types'
  BY <1>1, <1>2, Answered DEF Inv, HandleHello, Types, ConsensusTypeOK, consensusVars, placeVars,
     timerVars, routeVars
<1>4. \A d \in Conns \ {c} : Talk(d)'
  <2>1. \A d \in Conns \ {c} : toServer'[d] = toServer[d] /\ toClient'[d] = toClient[d]
    BY <1>1, <1>2, Answered DEF Inv
  <2> QED
    BY <2>1, Others DEF HandleHello, consensusVars, placeVars
<1>5. Talk(c)'
  <2>1. Talk(c) /\ ~Lacks(toServer[c], Early)
    BY <1>1, <1>2, Answered DEF Inv, Early
  <2>2. /\ Lacks(toClient[c], Hello) /\ ~Busy(c) /\ story[c].answer = ""
        /\ client[c] \notin {"none", "made", "open"}
    BY <2>1 DEF Talk, Turn, Fresh, Quiet
  <2>3. Turn(c)'
    BY <1>1, <1>2, <2>1, <2>2, Answered DEF Inv, Talk, Turn, HandleHello, consensusVars, Busy, Free, Early, Hello, Quiet
  <2>4. Strands(c)' /\ Fresh(c)' /\ NoHello(c)'
    BY <2>1, <2>2 DEF Talk, HandleHello, consensusVars, placeVars, Strands, Fresh, NoHello
  <2>5. Lacks(toServer[c], {"REGISTER"}) => Lacks(toServer'[c], {"REGISTER"})
    BY <1>1, <1>2, Answered DEF Inv
  <2>6. \A C : Lacks(toClient[c], C) /\ "HELLO_CONSENSUS" \notin C => Lacks(toClient'[c], C)
    BY <1>1, <1>2, Answered DEF Inv
  <2>7. NotRegistered(c) => NotRegistered(c)'
    BY <2>5, <2>6 DEF NotRegistered, HandleHello, consensusVars, placeVars
  <2>8. Unanswered(c)' /\ Unpeered(c)'
    BY <2>1, <2>6, <2>7 DEF Talk, Unanswered, Unpeered, HandleHello
  <2>9. Kept(c)'
    BY <2>1, <2>6, KeptOn DEF Talk, HandleHello, placeVars
  <2>10. All(toClient[c], Complete(c))'
    BY <1>1, <1>2, <2>1, Answered DEF Inv, Talk, Complete
  <2>11. Claimed(c)' /\ Strikes(c)'
    <3>1. All(toServer'[c], Claims(c))
      BY <1>1, <1>2, <2>1, Answered DEF Inv, Talk, Claimed
    <3> QED
      BY <2>1, <3>1, ClaimsOn DEF Talk, HandleHello, consensusVars
  <2> QED
    BY <2>3, <2>4, <2>8, <2>9, <2>10, <2>11 DEF Talk
<1> QED
  BY <1>3, <1>4, <1>5 DEF Inv, HandleHello, consensusVars

\* The messages of the handshake that are left when the server has answered.
LEMMA TurnOn ==
    ASSUME Types, NEW c \in Conns, NEW m \in Message, Turn(c),
           toServer[c] # << >>, toServer' = Take(toServer, c), toClient' = Put(toClient, c, m),
           m.command \notin Hello, story'[c].answer = story[c].answer,
           work'[Near[c]] = work[Near[c]], work'[Far[c]] = work[Far[c]]
    PROVE  Turn(c)' /\ (Quiet(c) => Quiet(c)')
<1>1. Lacks(toServer[c], Early) => Lacks(toServer'[c], Early)
  BY Answered
<1>2. Lacks(toClient[c], Hello) => Lacks(toClient'[c], Hello)
  BY Answered
<1>3. AtMostOne(toServer'[c], Early) /\ AtMostOne(toClient'[c], Hello)
  BY Answered DEF Turn
<1>4. Quiet(c) => Quiet(c)'
  BY <1>1, <1>2 DEF Quiet, Busy, Free
<1> QED
  BY <1>1, <1>2, <1>3, <1>4 DEF Turn, Busy, Free

\* A session of which the hello is known answers, and keeps no more of it.
LEMMA ReplyStep ==
    ASSUME Inv, NEW c \in Conns, NEW m \in Message, c \in hello,
           toServer[c] # << >>, toServer' = Take(toServer, c), toClient' = Put(toClient, c, m),
           m.command \in {"PEERS", "TRANSACTION_PROCESSED"}, m \in Complete(c),
           UNCHANGED <<consensusVars, placeVars, sessions, hello, story, up, serverUp>>
    PROVE  \A d \in Conns : Talk(d)'
<1>1. \A d \in Conns \ {c} : Talk(d)'
  <2>1. \A d \in Conns \ {c} : toServer'[d] = toServer[d] /\ toClient'[d] = toClient[d]
    BY Answered DEF Inv
  <2> QED
    BY <2>1, Others DEF consensusVars, placeVars
<1>2. Talk(c)
  BY DEF Inv
<1>3. Turn(c)' /\ (Quiet(c) => Quiet(c)')
  BY <1>2, TurnOn DEF Inv, Talk, Hello, consensusVars
<1>4. Strands(c)' /\ Fresh(c)' /\ NoHello(c)'
  BY <1>2, <1>3 DEF Talk, consensusVars, placeVars, Strands, Fresh, NoHello
<1>5. /\ Lacks(toServer[c], {"REGISTER"}) => Lacks(toServer'[c], {"REGISTER"})
      /\ \A C : Lacks(toClient[c], C) /\ m.command \notin C => Lacks(toClient'[c], C)
  BY Answered DEF Inv
<1>6. NotRegistered(c) => NotRegistered(c)'
  BY <1>5 DEF NotRegistered, consensusVars, placeVars
<1>7. Unanswered(c)' /\ Unpeered(c)'
  BY <1>2, <1>5, <1>6 DEF Talk, Unanswered, Unpeered
<1>8. Kept(c)'
  BY <1>2, <1>5, KeptOn DEF Talk, placeVars
<1>9. All(toClient'[c], Complete(c)) /\ All(toServer'[c], Claims(c))
  BY <1>2, Answered DEF Inv, Talk, Claimed
<1>10. Claimed(c)' /\ Strikes(c)'
  BY <1>2, <1>9, ClaimsOn DEF Talk, consensusVars
<1>11. All(toClient[c], Complete(c))'
  BY <1>9 DEF Complete
<1>12. Talk(c)'
  BY <1>3, <1>4, <1>7, <1>8, <1>10, <1>11 DEF Talk
<1> QED
  BY <1>1, <1>12

\* The client is told of the server, and of all the others but itself.
LEMMA PeerStep == ASSUME Inv, NEW c \in Conns, HandlePeer(c) PROVE Inv'
<1> DEFINE m == [Say("PEERS") EXCEPT !.peers = Peers(c)]
<1>1. Peers(c) \in SUBSET Nodes /\ Server \in Peers(c) /\ Node[c] \notin Peers(c)
  BY StrandFacts, ConnsAssumption DEF Inv, Types, Peers
<1>2. m \in Message /\ m.command = "PEERS" /\ m \in Complete(c)
  BY <1>1, SayMore DEF Complete
<1>3. /\ toServer[c] # << >> /\ toServer' = Take(toServer, c) /\ toClient' = Put(toClient, c, m)
      /\ c \in hello /\ peerCache' \subseteq Nodes
      /\ UNCHANGED <<consensusVars, placeVars, sessions, mapping, hello, story, up, serverUp,
                     routeVars, timerVars>>
  BY StrandFacts, ConnsAssumption DEF HandlePeer, Handles, Arrived, Inv, Types
<1> HIDE DEF m
<1>4. Types'
  BY <1>2, <1>3, Answered
     DEF Inv, Types, ConsensusTypeOK, consensusVars, placeVars, timerVars, routeVars
<1>5. \A d \in Conns : Talk(d)'
  BY <1>2, <1>3, ReplyStep
<1> QED
  BY <1>3, <1>4, <1>5 DEF Inv, consensusVars

\* A transaction is answered.
LEMMA TransactionStep == ASSUME Inv, NEW c \in Conns, HandleTransaction(c) PROVE Inv'
<1> DEFINE m == Say("TRANSACTION_PROCESSED")
<1>1. m \in Message /\ m.command = "TRANSACTION_PROCESSED" /\ m \in Complete(c)
  BY SayFacts DEF Complete, Command
<1>2. /\ toServer[c] # << >> /\ toServer' = Take(toServer, c) /\ toClient' = Put(toClient, c, m)
      /\ c \in hello
      /\ UNCHANGED <<consensusVars, placeVars, cacheVars, story, up, serverUp,
                     routeVars, timerVars>>
  BY DEF HandleTransaction, Handles, Arrived
<1> HIDE DEF m
<1>3. Types'
  BY <1>1, <1>2, Answered
     DEF Inv, Types, ConsensusTypeOK, consensusVars, placeVars, cacheVars, timerVars, routeVars
<1>4. \A d \in Conns : Talk(d)'
  BY <1>1, <1>2, ReplyStep DEF cacheVars
<1> QED
  BY <1>2, <1>3, <1>4 DEF Inv, consensusVars

\* A session made by setPeers, and accepted, becomes the one for call backs.
LEMMA RegisterStep == ASSUME Inv, NEW c \in Conns, HandleRegister(c) PROVE Inv'
<1> DEFINE m == Say("REGISTER")
<1>1. m \in Message /\ m.command = "REGISTER" /\ m \in Complete(c)
  BY SayFacts DEF Complete, Command
<1>2. /\ toServer[c] # << >> /\ Head(toServer[c]).command = "REGISTER"
      /\ toServer' = Take(toServer, c) /\ toClient' = Put(toClient, c, m)
      /\ c \in hello /\ sessions' = [sessions EXCEPT ![Node[c]] = c]
      /\ UNCHANGED <<consensusVars, placeVars, peerCache, mapping, hello, up, serverUp,
                     routeVars, timerVars>>
      /\ server[c] = "reading" /\ story' = [story EXCEPT ![c].beside = Beside(c)]
  BY DEF HandleRegister, Handles, Arrived
<1> HIDE DEF m
<1>3. Node[c] \in Clients /\ sessions'[Node[c]] = c
      /\ \A n \in Clients \ {Node[c]} : sessions'[n] = sessions[n]
  BY <1>2, StrandFacts DEF Inv, Types
<1>4. /\ story' \in [Conns -> Story] /\ \A d \in Conns \ {c} : story'[d] = story[d]
      /\ story'[c].claimed = story[c].claimed /\ story'[c].answer = story[c].answer
      /\ story'[c].disturbed = story[c].disturbed /\ story'[c].beside = Beside(c)
  <2> DEFINE r == [story[c] EXCEPT !.beside = Beside(c)]
  <2>1. story \in [Conns -> Story] /\ story[c] \in Story /\ Beside(c) \in SUBSET Conns
    BY DEF Inv, Types, Beside
  <2>2. /\ r \in Story /\ r.claimed = story[c].claimed /\ r.answer = story[c].answer
        /\ r.disturbed = story[c].disturbed /\ r.beside = Beside(c)
    BY <2>1 DEF Story
  <2>3. story' = [story EXCEPT ![c] = r]
    BY <1>2
  <2> HIDE DEF r
  <2> QED
    BY <2>1, <2>2, <2>3, Stories
<1>5. Types'
  <2>1. toServer' \in Channel /\ toClient' \in Channel
    BY <1>1, <1>2, Answered DEF Inv
  <2>2. sessions' \in [Clients -> Conns \cup {None}]
    BY <1>2 DEF Inv, Types
  <2> QED
    BY <1>2, <1>3, <1>4, <2>1, <2>2
       DEF Inv, Types, ConsensusTypeOK, consensusVars, placeVars, timerVars, routeVars
<1>6. Talk(c) /\ ~NotRegistered(c)
  BY <1>1, <1>2, Answered DEF Inv, NotRegistered
<1>7. c \in Peered /\ story[c].answer = "ACCEPTED"
  BY <1>6 DEF Talk, Unanswered, Unpeered
<1>8. ASSUME NEW d \in Conns \ {c} PROVE Talk(d)'
  <2>1. toServer'[d] = toServer[d] /\ toClient'[d] = toClient[d] /\ Talk(d) /\ Node[d] \in Clients
    BY <1>1, <1>2, Answered, StrandFacts DEF Inv
  <2>2. Kept(d)'
    <3>1. CASE Node[d] # Node[c]
      BY <1>2, <1>3, <1>4, <2>1, <3>1, KeptOn DEF Talk, placeVars
    <3>2. CASE Node[d] = Node[c]
      <4>1. c \in Beside(d) /\ Beside(d)' = Beside(d)
        BY <1>2, <3>2 DEF Beside, placeVars
      <4> QED
        BY <1>2, <1>3, <1>4, <2>1, <3>2, <4>1 DEF Talk, Kept, placeVars
    <3> QED
      BY <3>1, <3>2
  <2>3. sessions'[Node[d]] = d => sessions[Node[d]] = d
    BY <1>3, <2>1
  <2> QED
    BY <1>2, <1>4, <2>1, <2>2, <2>3, StrandFacts, Bystander DEF consensusVars, placeVars
<1>9. Talk(c)'
  <2>1. Turn(c)' /\ (Quiet(c) => Quiet(c)')
    BY <1>1, <1>2, <1>4, <1>6, TurnOn DEF Inv, Talk, Hello, consensusVars
  <2>2. Strands(c)' /\ Fresh(c)' /\ NoHello(c)'
    BY <1>2, <1>6, <2>1 DEF Talk, consensusVars, placeVars, Strands, Fresh, NoHello
  <2>3. Beside(c)' = Beside(c)
    BY <1>2 DEF Beside, placeVars
  <2>4. Unanswered(c)' /\ Unpeered(c)' /\ Kept(c)'
    BY <1>2, <1>3, <1>4, <1>7, <2>3 DEF Unanswered, Unpeered, Kept
  <2>5. All(toClient'[c], Complete(c)) /\ All(toServer'[c], Claims(c))
    BY <1>1, <1>2, <1>6, Answered DEF Inv, Talk, Claimed
  <2>6. Claimed(c)' /\ Strikes(c)'
    BY <1>2, <1>4, <1>6, <2>5, ClaimsOn DEF Talk, consensusVars
  <2>7. All(toClient[c], Complete(c))'
    BY <2>5 DEF Complete
  <2> QED
    BY <2>1, <2>2, <2>4, <2>6, <2>7 DEF Talk
<1> QED
  BY <1>2, <1>5, <1>8, <1>9 DEF Inv, consensusVars

\* What is taken from the client's messages when nothing is answered yet.
LEMMA Taken ==
    ASSUME NEW channel \in Channel, NEW c \in Conns, channel[c] # << >>
    PROVE  /\ Take(channel, c) \in Channel
           /\ \A d \in Conns \ {c} : Take(channel, c)[d] = channel[d]
           /\ Head(channel[c]) \in Message
           /\ \A M : All(channel[c], M) => All(Take(channel, c)[c], M) /\ Head(channel[c]) \in M
           /\ \A C : Lacks(channel[c], C) =>
                         Lacks(Take(channel, c)[c], C) /\ Head(channel[c]).command \notin C
           /\ \A C : AtMostOne(channel[c], C) =>
                         /\ AtMostOne(Take(channel, c)[c], C)
                         /\ Head(channel[c]).command \in C => Lacks(Take(channel, c)[c], C)
<1>1. channel[c] \in Seq(Message)
  BY DEF Channel
<1> QED
  BY <1>1, Takes, Tails

\* The threads of the consensus that a step gives nothing to do, or something else.
LEMMA Works ==
    ASSUME Types, NEW t \in Threads, NEW w \in Work, work' = [work EXCEPT ![t] = w]
    PROVE  /\ work' \in [Threads -> Work] /\ work'[t] = w
           /\ \A u \in Threads \ {t} : work'[u] = work[u]
  BY DEF Types, ConsensusTypeOK

\* What a thread is given to do.
LEMMA Tasks ==
    /\ Idle \in Work /\ Idle.op = "idle" /\ Idle.hashes = {} /\ Idle.at = 1
    /\ \A k \in Keys \cup {NoKey} :
           /\ [Idle EXCEPT !.op = "key", !.key = k] \in Work
           /\ [Idle EXCEPT !.op = "key", !.key = k].op = "key"
           /\ [Idle EXCEPT !.op = "key", !.key = k].hashes = {}
           /\ [Idle EXCEPT !.op = "key", !.key = k].at = 1
    /\ [Idle EXCEPT !.op = "seed"] \in Work /\ [Idle EXCEPT !.op = "seed"].op = "seed"
    /\ [Idle EXCEPT !.op = "seed"].hashes = {}
    /\ \A h \in SUBSET Hash :
           /\ [Idle EXCEPT !.op = "validate", !.hashes = h] \in Work
           /\ [Idle EXCEPT !.op = "validate", !.hashes = h].op = "validate"
           /\ [Idle EXCEPT !.op = "validate", !.hashes = h].hashes = h
           /\ [Idle EXCEPT !.op = "validate", !.hashes = h].at = 1
<1>1. Idle \in Work /\ Idle.op = "idle" /\ Idle.hashes = {} /\ Idle.at = 1
  BY ConsensusAssumption DEF Idle, Work
<1> QED
  BY <1>1 DEF Work

\* The hashes of the same code are those the server has, one for each module.
LEMMA SameCode ==
    ASSUME NEW n, ~Foreign(n)
    PROVE  Own(n) = ServerHash /\ ServerHash = Rest(1)
<1>1. Own(n) = ServerHash
  BY DEF Foreign, Own, ServerHash
<1>2. \A m : m \in Module <=> \E j \in 1 .. Len(Generators) : Generators[j] = m /\ Generators[j] # "seed"
  BY DEF Module, Generator
<1>3. ServerHash = Rest(1)
  BY <1>2 DEF ServerHash, Rest
<1> QED
  BY <1>1, <1>3

\* The server begins to strike off what the client has sent.
LEMMA ValidateStep == ASSUME Inv, NEW c \in Conns, HandleHelloConsensus(c) PROVE Inv'
<1> DEFINE h == Head(toServer[c]).hashes
           w == [Idle EXCEPT !.op = "validate", !.hashes = h]
<1>1. /\ toServer[c] # << >> /\ Head(toServer[c]).command = "HELLO_CONSENSUS"
      /\ toServer' = Take(toServer, c) /\ c \in hello
      /\ work' = [work EXCEPT ![Far[c]] = w]
      /\ UNCHANGED <<altered, sessionKey, scripted, secret, up, toClient, placeVars, cacheVars,
                     routeVars, timerVars, serverUp>>
  BY DEF HandleHelloConsensus, Handles, Arrived, Generating
<1>2. /\ toServer' \in Channel /\ Head(toServer[c]) \in Message
      /\ \A d \in Conns \ {c} : toServer'[d] = toServer[d]
      /\ \A M : All(toServer[c], M) => All(toServer'[c], M) /\ Head(toServer[c]) \in M
      /\ \A C : Lacks(toServer[c], C) =>
                    Lacks(toServer'[c], C) /\ Head(toServer[c]).command \notin C
      /\ \A C : AtMostOne(toServer[c], C) =>
                    /\ AtMostOne(toServer'[c], C)
                    /\ Head(toServer[c]).command \in C => Lacks(toServer'[c], C)
  BY <1>1, Taken DEF Inv, Types
<1>3. h \in SUBSET Hash /\ w \in Work /\ w.op = "validate" /\ w.hashes = h /\ w.at = 1
  BY <1>2, Tasks DEF Message
<1> HIDE DEF h, w
<1>4. /\ work' \in [Threads -> Work] /\ work'[Far[c]] = w
      /\ \A t \in Threads \ {Far[c]} : work'[t] = work[t]
  BY <1>1, <1>3, Works, StrandFacts DEF Inv
<1>5. /\ story' \in [Conns -> Story] /\ \A d \in Conns \ {c} : story'[d] = story[d]
      /\ story'[c].claimed = story[c].claimed /\ story'[c].answer = story[c].answer
      /\ story'[c].beside = story[c].beside
      /\ ~story'[c].disturbed => Free(Timer) /\ scripted[Server] = Generator
  <2> DEFINE b == ~Free(Timer) \/ scripted[Server] # Generator
             r == [story[c] EXCEPT !.disturbed = b]
  <2>1. story \in [Conns -> Story] /\ story[c] \in Story /\ b \in BOOLEAN
    BY DEF Inv, Types
  <2>2. /\ r \in Story /\ r.claimed = story[c].claimed /\ r.answer = story[c].answer
        /\ r.disturbed = b /\ r.beside = story[c].beside
    BY <2>1 DEF Story
  <2>3. story' = [story EXCEPT ![c] = r]
    BY DEF HandleHelloConsensus
  <2>4. /\ story' \in [Conns -> Story] /\ story'[c] = r
        /\ \A d \in Conns \ {c} : story'[d] = story[d]
    <3> HIDE DEF r
    <3> QED
      BY <2>1, <2>2, <2>3, Stories
  <2> QED
    BY <2>2, <2>4
<1>6. Types'
  BY <1>1, <1>2, <1>4, <1>5
     DEF Inv, Types, ConsensusTypeOK, placeVars, cacheVars, timerVars, routeVars
<1>7. \A d \in Conns \ {c} : Talk(d)'
  BY <1>1, <1>2, <1>4, <1>5, Others DEF placeVars, cacheVars
<1>8. /\ Talk(c) /\ ~Lacks(toServer[c], Early) /\ Lacks(toClient[c], Hello) /\ ~Busy(c)
      /\ story[c].answer = "" /\ client[c] \notin {"none", "made", "open"}
  <2>1. Talk(c) /\ ~Lacks(toServer[c], Early)
    BY <1>1, <1>2 DEF Inv, Early
  <2> QED
    BY <2>1 DEF Talk, Turn, Fresh, Quiet
<1>9. Near[c] \in Threads \ {Far[c]} /\ Timer \in Threads \ {Far[c]}
  BY StrandFacts
<1>10. Talk(c)'
  <2>1. Turn(c)'
    <3>1. AtMostOne(toServer[c], Early) /\ AtMostOne(toClient[c], Hello) /\ "HELLO_CONSENSUS" \in Early
      BY <1>8 DEF Talk, Turn, Early
    <3>2. AtMostOne(toServer'[c], Early) /\ Lacks(toServer'[c], Early)
      BY <1>1, <1>2, <3>1
    <3>3. AtMostOne(toClient[c], Hello)' /\ Lacks(toClient[c], Hello)'
      BY <1>1, <1>8, <3>1 DEF AtMostOne, Lacks, All, Without
    <3>4. Free(Near[c])'
      BY <1>4, <1>8, <1>9 DEF Busy, Free
    <3> QED
      BY <1>5, <1>8, <3>2, <3>3, <3>4 DEF Turn
  <2>2. Strands(c)' /\ Fresh(c)' /\ NoHello(c)'
    BY <1>1, <1>3, <1>4, <1>8, <1>9 DEF Talk, placeVars, cacheVars, Strands, Fresh, NoHello
  <2>3. NotRegistered(c)'
    BY <1>1, <1>2, <1>8 DEF Talk, Unanswered, NotRegistered, placeVars, cacheVars
  <2>4. Unanswered(c)' /\ Unpeered(c)'
    BY <1>1, <1>5, <1>8, <2>3 DEF Talk, Unanswered, Unpeered, Lacks, All, Without
  <2>5. Kept(c)'
    BY <2>3 DEF Kept, NotRegistered
  <2>6. All(toClient[c], Complete(c))' /\ All(toServer'[c], Claims(c)) /\ h = story[c].claimed
    BY <1>1, <1>2, <1>8 DEF Talk, Complete, Claimed, Claims, h
  <2>7. Claimed(c)'
    <3>1. All(toServer[c], Claims(c))'
      BY <1>5, <2>6 DEF All, Claims
    <3>2. Own(Node[c])' = Own(Node[c]) /\ ServerHash' = ServerHash
      BY <1>1 DEF Own, ServerHash, HashOf
    <3> QED
      BY <1>3, <1>4, <1>5, <1>8, <1>9, <2>6, <3>1, <3>2 DEF Talk, Claimed
  <2>8. Strikes(c)'
    <3>1. (Foreign(Node[c])' <=> Foreign(Node[c])) /\ Rest(1)' = Rest(1)
      BY <1>1 DEF Foreign, Rest, HashOf
    <3>2. ~Foreign(Node[c]) => h \subseteq Rest(1)
      BY <1>8, <2>6, SameCode DEF Talk, Claimed
    <3>3. Undisturbed(c)' => ~Foreign(Node[c]) /\ Free(Timer) /\ scripted[Server] = Generator
      BY <1>5, <3>1 DEF Undisturbed
    <3>4. Rest(work[Far[c]].at)' = Rest(1)
      BY <1>1, <1>3, <1>4 DEF Rest, HashOf
    <3> QED
      BY <1>1, <1>3, <1>4, <1>5, <1>8, <1>9, <3>2, <3>3, <3>4 DEF Strikes, Free
  <2> QED
    BY <2>1, <2>2, <2>4, <2>5, <2>6, <2>7, <2>8 DEF Talk
<1> QED
  BY <1>4, <1>6, <1>7, <1>9, <1>10 DEF Inv

\* The server has struck off what it has, and tells the client the verdict.
LEMMA AnswerStep == ASSUME Inv, NEW c \in Conns, AnswerConsensus(c) PROVE Inv'
<1> DEFINE m == Say(Verdict(c))
<1>1. /\ work[Far[c]].op = "validated" /\ work' = [work EXCEPT ![Far[c]] = Idle]
      /\ toClient' = Put(toClient, c, m)
      /\ UNCHANGED <<altered, sessionKey, scripted, secret, up, toServer, placeVars, cacheVars,
                     routeVars, timerVars, serverUp>>
  BY DEF AnswerConsensus, Finish, Generating, Answer
<1>2. /\ m \in Message /\ m.command = Verdict(c) /\ Verdict(c) \in {"ACCEPTED", "GO_AWAY"}
      /\ m \in Complete(c)
      /\ Verdict(c) = "ACCEPTED" <=> work[Far[c]].hashes = {}
  BY SayFacts DEF Verdict, Valid, Command, Complete
<1> HIDE DEF m
<1>3. /\ toClient' \in Channel /\ toClient[c] \in Seq(Message)
      /\ \A d \in Conns \ {c} : toClient'[d] = toClient[d]
      /\ toClient'[c] = toClient[c] \/ toClient'[c] = Append(toClient[c], m)
  <2>1. toClient \in Channel
    BY DEF Inv, Types
  <2>2. toClient[c] \in Seq(Message)
    BY <2>1 DEF Channel
  <2> QED
    BY <1>1, <1>2, <2>1, <2>2, Puts
<1>4. /\ work' \in [Threads -> Work] /\ work'[Far[c]] = Idle
      /\ \A t \in Threads \ {Far[c]} : work'[t] = work[t]
  BY <1>1, Tasks, Works, StrandFacts DEF Inv
<1>5. /\ story' \in [Conns -> Story] /\ \A d \in Conns \ {c} : story'[d] = story[d]
      /\ story'[c].claimed = story[c].claimed /\ story'[c].answer = Verdict(c)
      /\ story'[c].disturbed = story[c].disturbed /\ story'[c].beside = story[c].beside
  <2> DEFINE r == [story[c] EXCEPT !.answer = Verdict(c)]
  <2>1. /\ story \in [Conns -> Story] /\ story[c] \in Story
        /\ Verdict(c) \in {"", "ACCEPTED", "GO_AWAY"}
    BY DEF Inv, Types, Verdict
  <2>2. /\ r \in Story /\ r.claimed = story[c].claimed /\ r.answer = Verdict(c)
        /\ r.disturbed = story[c].disturbed /\ r.beside = story[c].beside
    BY <2>1 DEF Story
  <2>3. story' = [story EXCEPT ![c] = r]
    BY DEF AnswerConsensus
  <2> HIDE DEF r
  <2> QED
    BY <2>1, <2>2, <2>3, Stories
<1>6. Types'
  BY <1>1, <1>3, <1>4, <1>5
     DEF Inv, Types, ConsensusTypeOK, placeVars, cacheVars, timerVars, routeVars
<1>7. \A d \in Conns \ {c} : Talk(d)'
  BY <1>1, <1>3, <1>4, <1>5, Others DEF placeVars, cacheVars
<1>8. Near[c] \in Threads \ {Far[c]} /\ Timer \in Threads \ {Far[c]}
  BY StrandFacts
<1>9. /\ Talk(c) /\ Busy(c) /\ Free(Near[c]) /\ Lacks(toServer[c], Early)
      /\ Lacks(toClient[c], Hello) /\ story[c].answer = ""
      /\ client[c] \notin {"none", "made", "open"} /\ c \in hello
  <2>1. Talk(c) /\ Busy(c)
    BY <1>1, Tasks DEF Inv, Busy, Free
  <2>2. ~Free(Far[c])
    BY <1>1, Tasks DEF Free
  <2> QED
    BY <2>1, <2>2 DEF Talk, Turn, Fresh, Quiet, NoHello
<1>10. Talk(c)'
  <2>1. /\ Lacks(toClient'[c], Hello)
        /\ All(toClient'[c], Complete(c))
        /\ Lacks(toClient[c], {"REGISTER"}) => Lacks(toClient'[c], {"REGISTER"})
        /\ Verdict(c) # "ACCEPTED" /\ Lacks(toClient[c], {"ACCEPTED"}) => Lacks(toClient'[c], {"ACCEPTED"})
    <3>1. Verdict(c) \notin Hello /\ Verdict(c) # "REGISTER"
      BY <1>2 DEF Hello
    <3>2. All(toClient[c], Complete(c))
      BY <1>9 DEF Talk
    <3>3. CASE toClient'[c] = toClient[c]
      BY <1>9, <3>2, <3>3
    <3>4. CASE toClient'[c] = Append(toClient[c], m)
      <4>1. \A M : All(toClient[c], M) /\ m \in M => All(toClient'[c], M)
        BY <1>2, <1>3, <3>4, Appends
      <4>2. \A C : Lacks(toClient[c], C) /\ m.command \notin C => Lacks(toClient'[c], C)
        BY <1>2, <1>3, <3>4, Appends
      <4>3. All(toClient'[c], Complete(c))
        BY <1>2, <3>2, <4>1
      <4> QED
        BY <1>2, <1>9, <3>1, <4>2, <4>3
    <3> QED
      BY <1>3, <3>3, <3>4
  <2>2. Turn(c)'
    <3>1. Lacks(toServer[c], Early)' /\ Lacks(toClient[c], Hello)'
      BY <1>1, <1>9, <2>1 DEF Lacks, All, Without
    <3>2. Free(Near[c])' /\ Free(Far[c])'
      BY <1>4, <1>8, <1>9 DEF Free, Idle
    <3>3. AtMostOne(toServer[c], Early)' /\ AtMostOne(toClient[c], Hello)'
      BY <3>1 DEF AtMostOne, Lacks, All, Without
    <3> QED
      BY <3>1, <3>2, <3>3 DEF Turn, Quiet, Busy
  <2>3. Strands(c)' /\ Fresh(c)' /\ NoHello(c)'
    BY <1>1, <1>4, <1>8, <1>9, Tasks DEF Talk, placeVars, cacheVars, Strands, Fresh, NoHello
  <2>4. NotRegistered(c)'
    BY <1>1, <1>9, <2>1 DEF Talk, Unanswered, NotRegistered, placeVars, cacheVars, Lacks, All, Without
  <2>5. Unanswered(c)' /\ Unpeered(c)'
    BY <1>5, <1>9, <2>1, <2>4 DEF Talk, Unanswered, Unpeered
  <2>6. Kept(c)'
    BY <2>4 DEF Kept, NotRegistered
  <2>7. All(toClient[c], Complete(c))'
    BY <2>1 DEF Complete
  <2>8. Claimed(c)'
    <3>1. All(toServer[c], Claims(c))'
      BY <1>1, <1>5, <1>9 DEF Talk, Claimed, All, Claims
    <3>2. Own(Node[c])' = Own(Node[c]) /\ ServerHash' = ServerHash
      BY <1>1 DEF Own, ServerHash, HashOf
    <3>3. Verdict(c) = "ACCEPTED" => story[c].claimed \subseteq ServerHash
      BY <1>1, <1>2, <1>9 DEF Talk, Claimed
    <3>4. work'[Far[c]].op = "idle" /\ work'[Near[c]] = work[Near[c]]
      BY <1>4, <1>8, Tasks
    <3>5. /\ work[Near[c]].hashes \subseteq Own(Node[c]) /\ story[c].claimed \subseteq Own(Node[c])
      BY <1>9 DEF Talk, Claimed
    <3> QED
      BY <1>5, <3>1, <3>2, <3>3, <3>4, <3>5 DEF Claimed
  <2>9. Strikes(c)'
    <3>1. Foreign(Node[c])' <=> Foreign(Node[c])
      BY <1>1 DEF Foreign, HashOf
    <3>2. Undisturbed(c)' <=> Undisturbed(c)
      BY <1>5, <3>1 DEF Undisturbed
    <3>3. Verdict(c) = "GO_AWAY" => ~Undisturbed(c)
      BY <1>1, <1>2, <1>9 DEF Talk, Strikes
    <3> QED
      BY <1>4, <1>5, <3>2, <3>3, Tasks DEF Strikes
  <2> QED
    BY <2>2, <2>3, <2>5, <2>6, <2>7, <2>8, <2>9 DEF Talk
<1> QED
  BY <1>4, <1>6, <1>7, <1>8, <1>10 DEF Inv

\* The process of the server is gone.
LEMMA CrashStep ==
    ASSUME Inv, Crash, routing' \in {routing, None},
           UNCHANGED <<consensusVars, placeVars, cacheVars, routed, timerVars, story>>
    PROVE  Inv'
<1>1. /\ serverUp' = FALSE /\ up' = {}
      /\ \A c \in Conns : toServer'[c] = << >> /\ toClient'[c] = << >>
      /\ toServer' \in Channel /\ toClient' \in Channel
  BY NoMessage DEF Crash, Channel
<1>2. Types'
  BY <1>1 DEF Inv, Types, ConsensusTypeOK, consensusVars, placeVars, cacheVars, timerVars
<1>3. ASSUME NEW c \in Conns PROVE Talk(c)'
  <2>1. Talk(c)
    BY DEF Inv
  <2>2. /\ \A C : Lacks(toServer'[c], C) /\ Lacks(toClient'[c], C)
        /\ \A C : AtMostOne(toServer'[c], C) /\ AtMostOne(toClient'[c], C)
        /\ \A M : All(toServer'[c], M) /\ All(toClient'[c], M)
    BY <1>1, NoMessage
  <2>3. Quiet(c) => Quiet(c)'
    BY <2>2 DEF Quiet, Busy, Free, consensusVars
  <2>4. Turn(c)'
    BY <2>1, <2>2, <2>3 DEF Talk, Turn, Free, consensusVars
  <2>5. Strands(c)' /\ Fresh(c)' /\ NoHello(c)'
    BY <1>1, <2>1, <2>2, <2>3
       DEF Talk, Strands, Fresh, NoHello, consensusVars, placeVars, cacheVars, Busy, Free
  <2>6. NotRegistered(c) => NotRegistered(c)'
    BY <2>2 DEF NotRegistered, placeVars, cacheVars
  <2>7. Unanswered(c)' /\ Unpeered(c)' /\ Kept(c)'
    BY <1>1, <2>1, <2>2, <2>6 DEF Talk, Unanswered, Unpeered, Kept
  <2>8. Claimed(c)' /\ Strikes(c)'
    BY <2>1, <2>2, ClaimsOn DEF Talk, consensusVars
  <2>9. All(toClient[c], Complete(c))'
    BY <2>2 DEF Complete
  <2> QED
    BY <2>1, <2>4, <2>5, <2>7, <2>8, <2>9 DEF Talk
<1> QED
  BY <1>2, <1>3 DEF Inv, consensusVars

\* A command before the hello is the end of the server.
LEMMA BeforeHelloStep == ASSUME Inv, NEW c \in Conns, CommandBeforeHello(c) PROVE Inv'
  BY CrashStep DEF CommandBeforeHello, routeVars

\* So is a route to a session that has closed.
LEMMA NobodyStep == ASSUME Inv, RouteToNobody PROVE Inv'
  BY CrashStep DEF RouteToNobody

(***************************************************************************)
(* Steps that take messages away, or put those of a route behind them.     *)
(***************************************************************************)

\* What a client claims stays its own while nothing it claimed of is altered.
LEMMA ClaimedOn ==
    ASSUME NEW c \in Conns, Claimed(c), altered' = altered, toServer'[c] = toServer[c],
           story'[c].claimed = story[c].claimed, story'[c].answer = story[c].answer,
           work'[Far[c]] = work[Far[c]], work'[Near[c]].hashes \subseteq Own(Node[c])
    PROVE  Claimed(c)'
<1>1. Own(Node[c])' = Own(Node[c]) /\ ServerHash' = ServerHash
  BY DEF Own, ServerHash, HashOf
<1>2. Claims(c)' = Claims(c)
  BY DEF Claims
<1>3. All(toServer[c], Claims(c))'
  BY <1>2 DEF Claimed, All
<1> QED
  BY <1>1, <1>3 DEF Claimed

\* A connection with fewer messages, or with more of those a route has.
LEMMA Fewer ==
    ASSUME Inv, NEW c \in Conns,
           \A C : "TRANSACTION" \notin C /\ Lacks(toServer[c], C) => Lacks(toServer'[c], C),
           AtMostOne(toServer[c], Early) => AtMostOne(toServer'[c], Early),
           All(toServer[c], Claims(c)) => All(toServer'[c], Claims(c)),
           \A C : "" \notin C /\ Lacks(toClient[c], C) => Lacks(toClient'[c], C),
           AtMostOne(toClient[c], Hello) => AtMostOne(toClient'[c], Hello),
           All(toClient[c], Complete(c)) => All(toClient'[c], Complete(c)),
           c \in hello \/ toClient'[c] = toClient[c] \/ toClient'[c] = << >>,
           client'[c] \in {client[c], "ended"},
           server'[c] = server[c] \/ client[c] \notin {"none", "made"},
           UNCHANGED <<consensusVars, hello, story>>,
           sessions'[Node[c]] = c => sessions[Node[c]] = c,
           Kept(c)'
    PROVE  Talk(c)'
<1>1. Talk(c)
  BY DEF Inv
<1>2. /\ Lacks(toServer[c], Early) => Lacks(toServer'[c], Early)
      /\ Lacks(toServer[c], {"REGISTER"}) => Lacks(toServer'[c], {"REGISTER"})
      /\ Lacks(toServer[c], Command \ {"HELLO", "TRANSACTION"}) =>
             Lacks(toServer'[c], Command \ {"HELLO", "TRANSACTION"})
  BY DEF Early
<1>3. /\ Lacks(toClient[c], Hello) => Lacks(toClient'[c], Hello)
      /\ Lacks(toClient[c], {"REGISTER"}) => Lacks(toClient'[c], {"REGISTER"})
      /\ Lacks(toClient[c], {"ACCEPTED"}) => Lacks(toClient'[c], {"ACCEPTED"})
  BY DEF Hello
<1>4. Quiet(c) => Quiet(c)'
  BY <1>2, <1>3 DEF Quiet, Busy, Free, consensusVars
<1>5. Turn(c)'
  BY <1>1, <1>2, <1>3, <1>4 DEF Talk, Turn, Busy, Free, consensusVars
<1>6. Strands(c)' /\ Fresh(c)' /\ NoHello(c)'
  <2>1. Strands(c)' /\ Fresh(c)'
    BY <1>1, <1>4 DEF Talk, Strands, Fresh, consensusVars
  <2>2. NoHello(c)'
    BY <1>1, <1>2 DEF Talk, NoHello, Busy, Free, consensusVars
  <2> QED
    BY <2>1, <2>2
<1>7. NotRegistered(c) => NotRegistered(c)'
  BY <1>2, <1>3 DEF NotRegistered
<1>8. Unanswered(c)' /\ Unpeered(c)'
  BY <1>1, <1>3, <1>7 DEF Talk, Unanswered, Unpeered
<1>9. Claimed(c)' /\ Strikes(c)'
  BY <1>1, ClaimsOn DEF Talk, Claimed, consensusVars
<1>10. All(toClient[c], Complete(c))'
  BY <1>1 DEF Talk, Complete
<1> QED
  BY <1>5, <1>6, <1>8, <1>9, <1>10 DEF Talk

\* A connection is lost with what is under way on it.
LEMMA LoseStep == ASSUME Inv, NEW c \in Conns, Lose(c) PROVE Inv'
<1>1. /\ toServer' \in Channel /\ toClient' \in Channel
      /\ toServer'[c] = << >> /\ toClient'[c] = << >>
      /\ \A d \in Conns \ {c} : toServer'[d] = toServer[d] /\ toClient'[d] = toClient[d]
  BY NoMessage DEF Lose, Inv, Types, Channel
<1>2. Types'
  BY <1>1 DEF Lose, Inv, Types, ConsensusTypeOK, consensusVars, placeVars, cacheVars, routeVars, timerVars
<1>3. \A d \in Conns \ {c} : Talk(d)'
  BY <1>1, Others DEF Lose, consensusVars, placeVars, cacheVars
<1>4. Kept(c)'
  BY DEF Lose, Kept
<1>5. Talk(c)'
  BY <1>1, <1>4, NoMessage, Fewer DEF Lose, placeVars, cacheVars
<1> QED
  BY <1>2, <1>3, <1>5 DEF Inv, Lose, consensusVars

\* The connection could not be made.
LEMMA UnreachableStep == ASSUME Inv, NEW c \in Conns, Unreachable(c) PROVE Inv'
<1>1. /\ client' \in [Conns -> Place] /\ client'[c] = "ended" /\ client[c] # "ended"
      /\ \A d \in Conns \ {c} : client'[d] = client[d]
  BY DEF Unreachable, Inv, Types, Place
<1>2. Types'
  BY <1>1 DEF Unreachable, Inv, Types, ConsensusTypeOK, consensusVars, wireVars, cacheVars, routeVars, timerVars
<1>3. \A d \in Conns \ {c} : Talk(d)'
  BY <1>1, Others DEF Unreachable, consensusVars, wireVars, cacheVars
<1>4. Kept(c)'
  BY <1>1, KeptOn DEF Inv, Talk, Unreachable, wireVars, cacheVars
<1>5. Talk(c)'
  BY <1>1, <1>4, Fewer DEF Unreachable, wireVars, cacheVars
<1> QED
  BY <1>2, <1>3, <1>5 DEF Inv, Unreachable, consensusVars

\* The client finds its connection closed.
LEMMA ClientFailsStep == ASSUME Inv, NEW c \in Conns, ClientFails(c) PROVE Inv'
<1>1. /\ client' \in [Conns -> Place] /\ client'[c] = "ended"
      /\ \A d \in Conns \ {c} : client'[d] = client[d] /\ toClient'[d] = toClient[d]
      /\ toClient' \in Channel /\ toClient'[c] = << >>
  BY NoMessage DEF ClientFails, Inv, Types, Place, Channel
<1>2. Types'
  BY <1>1 DEF ClientFails, Inv, Types, ConsensusTypeOK, consensusVars, cacheVars, routeVars, timerVars
<1>3. \A d \in Conns \ {c} : Talk(d)'
  BY <1>1, Others DEF ClientFails, consensusVars, cacheVars
<1>4. Kept(c)'
  BY DEF Kept, ClientFails
<1>5. Talk(c)'
  BY <1>1, <1>4, NoMessage, Fewer DEF ClientFails, cacheVars
<1> QED
  BY <1>2, <1>3, <1>5 DEF Inv, ClientFails, consensusVars

\* A closed session, and what it takes away from the others of its account.
LEMMA ServerClosesStep == ASSUME Inv, NEW c \in Conns, ServerCloses(c) PROVE Inv'
<1>1. /\ toServer' \in Channel /\ toServer'[c] = << >>
      /\ server' \in [Conns -> {"none", "reading", "ended"}]
      /\ server[c] = "reading" /\ server'[c] = "ended"
      /\ \A d \in Conns \ {c} : server'[d] = server[d] /\ toServer'[d] = toServer[d]
  BY NoMessage DEF ServerCloses, Inv, Types, Channel
<1>2. /\ sessions' \in [Clients -> Conns \cup {None}]
      /\ \A n \in Clients : \/ sessions'[n] = sessions[n]
                            \/ sessions'[n] = None /\ n = Node[c] /\ c \in hello
  BY StrandFacts DEF ServerCloses, SessionsWithout, Inv, Types
<1>3. Types'
  BY <1>1, <1>2 DEF ServerCloses, Inv, Types, ConsensusTypeOK, consensusVars, routeVars, timerVars
<1>4. ASSUME NEW d \in Conns \ {c} PROVE Talk(d)'
  <2>1. \/ sessions'[Node[d]] = sessions[Node[d]]
        \/ sessions'[Node[d]] = None /\ Node[d] = Node[c] /\ c \in hello
    BY <1>2, StrandFacts
  <2>2. Kept(d)'
    <3>1. CASE sessions'[Node[d]] = sessions[Node[d]]
      BY <1>1, <3>1, KeptOn DEF Inv, Talk, ServerCloses
    <3>2. CASE Node[d] = Node[c] /\ c \in hello
      <4>1. c \in Beside(d) /\ Beside(d)' \subseteq Beside(d)
        BY <1>1, <3>2 DEF Beside
      <4>2. Kept(d)
        BY DEF Inv, Talk
      <4> QED
        BY <1>1, <3>2, <4>1, <4>2 DEF Kept, TakenBeside, ServerCloses
    <3> QED
      BY <2>1, <3>1, <3>2
  <2> QED
    BY <1>1, <2>1, <2>2, ConnsAssumption, Bystander DEF ServerCloses, consensusVars
<1>5. Kept(c)'
  BY DEF Kept, ServerCloses
<1>6. sessions'[Node[c]] = c => sessions[Node[c]] = c
  BY <1>2, StrandFacts, ConnsAssumption
<1>7. Talk(c)'
  <2>1. client[c] \notin {"none", "made"}
    BY <1>1 DEF Inv, Talk, Fresh
  <2>2. /\ toServer'[c] = << >> /\ toClient'[c] = toClient[c] /\ client'[c] = client[c]
        /\ toClient' = toClient /\ UNCHANGED <<consensusVars, hello, story>>
    BY <1>1 DEF ServerCloses
  <2>3. /\ \A C : Lacks(toServer'[c], C) /\ AtMostOne(toServer'[c], Early)
        /\ All(toServer'[c], Claims(c))
    BY <2>2, NoMessage
  <2>4. /\ \A C : Lacks(toClient[c], C) => Lacks(toClient'[c], C)
        /\ AtMostOne(toClient[c], Hello) => AtMostOne(toClient'[c], Hello)
        /\ All(toClient[c], Complete(c)) => All(toClient'[c], Complete(c))
    BY <2>2
  <2> QED
    BY <1>5, <1>6, <2>1, <2>2, <2>3, <2>4, Fewer
<1> QED
  BY <1>3, <1>4, <1>7 DEF Inv, ServerCloses, consensusVars

\* What is put into a channel, and all that is so of it then.
LEMMA PutMore ==
    ASSUME NEW channel \in Channel, NEW c \in Conns, NEW m \in Message
    PROVE  /\ Put(channel, c, m) \in Channel
           /\ \A d \in Conns \ {c} : Put(channel, c, m)[d] = channel[d]
           /\ \A M : All(channel[c], M) /\ m \in M => All(Put(channel, c, m)[c], M)
           /\ \A C : Lacks(channel[c], C) /\ m.command \notin C => Lacks(Put(channel, c, m)[c], C)
           /\ \A C : AtMostOne(channel[c], C) /\ m.command \notin C =>
                         AtMostOne(Put(channel, c, m)[c], C)
           /\ \A C : Lacks(channel[c], C) => AtMostOne(Put(channel, c, m)[c], C)
<1>1. channel[c] \in Seq(Message)
  BY DEF Channel
<1>2. CASE Put(channel, c, m)[c] = channel[c]
  BY <1>1, <1>2, Puts, Appends
<1>3. CASE Put(channel, c, m)[c] = Append(channel[c], m)
  BY <1>1, <1>3, Puts, Appends
<1> QED
  BY <1>2, <1>3, Puts

\* A route up puts a transaction behind whatever is under way.
LEMMA RouteUpStep == ASSUME Inv, NEW n \in Clients, RouteUp(n) PROVE Inv'
<1> DEFINE m == Say("TRANSACTION")
<1>1. m \in Message /\ m.command = "TRANSACTION"
  BY SayFacts DEF Command
<1>2. PICK c \in Conns : toServer' = Put(toServer, c, m)
  <2>1. Candidates(n) \subseteq Conns
    BY DEF Candidates, Inv, Types
  <2> QED
    BY <2>1 DEF RouteUp
<1> HIDE DEF m
<1>3. /\ toServer' \in Channel
      /\ \A d \in Conns \ {c} : toServer'[d] = toServer[d]
      /\ \A M : All(toServer[c], M) /\ m \in M => All(toServer'[c], M)
      /\ \A C : Lacks(toServer[c], C) /\ m.command \notin C => Lacks(toServer'[c], C)
      /\ \A C : AtMostOne(toServer[c], C) /\ m.command \notin C => AtMostOne(toServer'[c], C)
  BY <1>1, <1>2, PutMore DEF Inv, Types
<1>4. Types'
  BY <1>3, ConnsAssumption DEF RouteUp, Inv, Types, ConsensusTypeOK, consensusVars, placeVars, cacheVars, timerVars
<1>5. \A d \in Conns \ {c} : Talk(d)'
  BY <1>3, Others DEF RouteUp, consensusVars, placeVars, cacheVars
<1>6. Talk(c)'
  <2>1. \A C : "TRANSACTION" \notin C /\ Lacks(toServer[c], C) => Lacks(toServer'[c], C)
    BY <1>1, <1>3
  <2>2. AtMostOne(toServer[c], Early) => AtMostOne(toServer'[c], Early)
    BY <1>1, <1>3 DEF Early
  <2>3. All(toServer[c], Claims(c)) => All(toServer'[c], Claims(c))
    BY <1>1, <1>3 DEF Claims
  <2>4. Kept(c)'
    BY KeptOn DEF Inv, Talk, RouteUp, placeVars, cacheVars
  <2> QED
    BY <2>1, <2>2, <2>3, <2>4, Fewer DEF RouteUp, placeVars, cacheVars
<1> QED
  BY <1>4, <1>5, <1>6 DEF Inv, RouteUp, consensusVars

\* The session of a route is looked up.
LEMMA RouteFoundStep == ASSUME Inv, NEW n \in Clients, RouteFound(n) PROVE Inv'
<1>1. Types'
  BY ConnsAssumption DEF RouteFound, Inv, Types, ConsensusTypeOK, consensusVars, wireVars, placeVars, cacheVars, timerVars
<1>2. ASSUME NEW c \in Conns PROVE Talk(c)'
  <2>1. Kept(c)'
    BY KeptOn DEF Inv, Talk, RouteFound, wireVars, placeVars, cacheVars
  <2> QED
    BY <2>1, Bystander DEF RouteFound, consensusVars, wireVars, placeVars, cacheVars
<1> QED
  BY <1>1, <1>2 DEF Inv, RouteFound, consensusVars

\* A route down writes what is in the session's buffer, or takes the session away.
LEMMA RouteWriteStep == ASSUME Inv, RouteWrite PROVE Inv'
<1>1. PICK c \in Conns :
      /\ routing \in Clients /\ sessions[routing] = c /\ Node[c] = routing
      /\ UNCHANGED <<consensusVars, up, toServer, placeVars, peerCache, mapping, hello,
                     routed, timerVars, serverUp, story>>
      /\ routing' = None
  BY DEF RouteWrite, Inv, Types
<1>2. \/ \E m \in Message :
            /\ toClient' = Put(toClient, c, m) /\ UNCHANGED sessions
            /\ \A C : "" \notin C /\ Lacks(toClient[c], C) => m.command \notin C
            /\ All(toClient[c], Complete(c)) => m \in Complete(c)
      \/ c \notin up /\ sessions' = [sessions EXCEPT ![routing] = None] /\ UNCHANGED toClient
  <2>1. CASE toClient' = Put(toClient, c, Say("")) /\ UNCHANGED sessions
    <3>1. Say("") \in Message /\ Say("").command = "" /\ Say("") \in Complete(c)
      BY SayFacts DEF Command, Complete
    <3> QED
      BY <2>1, <3>1
  <2>2. CASE /\ toClient[c] # << >> /\ UNCHANGED sessions
             /\ toClient' = Put(toClient, c, toClient[c][Len(toClient[c])])
    <3> DEFINE s == toClient[c]
    <3>1. s \in Seq(Message)
      BY <1>1 DEF Inv, Types, Channel
    <3>2. Len(s) \in 1 .. Len(s) /\ s[Len(s)] \in Message
      BY <2>2, <3>1
    <3>3. \A M : All(s, M) => s[Len(s)] \in M
      BY <3>2 DEF All
    <3>4. \A C : Lacks(s, C) => s[Len(s)].command \notin C
      BY <3>3 DEF Lacks, Without
    <3> QED
      BY <2>2, <3>2, <3>3, <3>4
  <2> QED
    BY <1>1, <2>1, <2>2 DEF RouteWrite, SessionsWithout
<1>3. Talk(c) /\ story[c].answer = "ACCEPTED"
  BY <1>1 DEF Inv, Talk, Unanswered, NotRegistered
<1>4. CASE \E m \in Message :
            /\ toClient' = Put(toClient, c, m) /\ UNCHANGED sessions
            /\ \A C : "" \notin C /\ Lacks(toClient[c], C) => m.command \notin C
            /\ All(toClient[c], Complete(c)) => m \in Complete(c)
  <2>1. PICK m \in Message :
            /\ toClient' = Put(toClient, c, m) /\ UNCHANGED sessions
            /\ \A C : "" \notin C /\ Lacks(toClient[c], C) => m.command \notin C
            /\ All(toClient[c], Complete(c)) => m \in Complete(c)
    BY <1>4
  <2>4. /\ toClient' \in Channel
        /\ \A d \in Conns \ {c} : toClient'[d] = toClient[d]
        /\ \A M : All(toClient[c], M) /\ m \in M => All(toClient'[c], M)
        /\ \A C : Lacks(toClient[c], C) /\ m.command \notin C => Lacks(toClient'[c], C)
        /\ \A C : Lacks(toClient[c], C) => AtMostOne(toClient'[c], C)
    <3>1. c \in Conns /\ m \in Message /\ toClient' = Put(toClient, c, m) /\ toClient \in Channel
      BY <1>1, <2>1 DEF Inv, Types
    <3> DEFINE r == Put(toClient, c, m)
    <3>2. /\ r \in Channel
          /\ \A d \in Conns \ {c} : r[d] = toClient[d]
          /\ \A M : All(toClient[c], M) /\ m \in M => All(r[c], M)
          /\ \A C : Lacks(toClient[c], C) /\ m.command \notin C => Lacks(r[c], C)
          /\ \A C : Lacks(toClient[c], C) => AtMostOne(r[c], C)
      BY <3>1, PutMore
    <3> QED
      BY <3>1, <3>2
  <2>5. Types'
    BY <1>1, <2>1, <2>4 DEF Inv, Types, ConsensusTypeOK, consensusVars, placeVars, timerVars
  <2>6. \A d \in Conns \ {c} : Talk(d)'
    BY <1>1, <2>1, <2>4, Others DEF consensusVars, placeVars
  <2>7. Talk(c)'
    <3>1. \A C : "" \notin C /\ Lacks(toClient[c], C) => Lacks(toClient'[c], C)
      BY <2>1, <2>4
    <3>2. Lacks(toClient[c], Hello)
      BY <1>3 DEF Talk, Turn, Quiet
    <3>3. AtMostOne(toClient[c], Hello) => AtMostOne(toClient'[c], Hello)
      BY <2>4, <3>2
    <3>4. All(toClient[c], Complete(c)) => All(toClient'[c], Complete(c))
      BY <2>1, <2>4
    <3>5. c \in hello
      BY <1>3 DEF Talk, NoHello
    <3>6. Kept(c)'
      BY <1>1, <1>3, <2>1, <3>1, KeptOn DEF Talk, placeVars
    <3> QED
      BY <1>1, <2>1, <3>1, <3>3, <3>4, <3>5, <3>6, Fewer DEF placeVars
  <2> QED
    BY <1>1, <2>5, <2>6, <2>7 DEF Inv, consensusVars
<1>5. CASE c \notin up /\ sessions' = [sessions EXCEPT ![routing] = None] /\ UNCHANGED toClient
  <2>1. /\ sessions' \in [Clients -> Conns \cup {None}] /\ sessions'[routing] = None
        /\ \A n \in Clients \ {routing} : sessions'[n] = sessions[n]
    BY <1>1, <1>5 DEF Inv, Types
  <2>2. Types'
    BY <1>1, <1>5, <2>1 DEF Inv, Types, ConsensusTypeOK, consensusVars, placeVars, timerVars
  <2>3. ASSUME NEW d \in Conns PROVE Talk(d)'
    <3>1. Node[d] \in Clients /\ Talk(d)
      BY StrandFacts DEF Inv
    <3>2. Kept(d)'
      <4>1. CASE Node[d] # routing
        BY <1>1, <1>5, <2>1, <3>1, <4>1, KeptOn DEF Talk, placeVars
      <4>2. CASE Node[d] = routing
        <5>1. sessions[Node[d]] = c
          BY <1>1, <4>2
        <5>2. c \in hello /\ c \in Peered
          BY <1>1, <1>3 DEF Talk, NoHello, Unpeered, NotRegistered
        <5>3. TakenBeside(d)' <=> TakenBeside(d)
          BY <1>1 DEF TakenBeside, placeVars
        <5>4. Beside(d)' = Beside(d)
          BY <1>1 DEF Beside, placeVars
        <5>5. c \in story[d].beside => TakenBeside(d)
          BY <1>5, <5>2 DEF TakenBeside
        <5> QED
          BY <1>1, <1>5, <3>1, <5>1, <5>3, <5>4, <5>5 DEF Talk, Kept, placeVars
      <4> QED
        BY <4>1, <4>2
    <3>3. sessions'[Node[d]] = d => sessions[Node[d]] = d
      BY <2>1, <3>1, ConnsAssumption
    <3> QED
      BY <1>1, <1>5, <3>2, <3>3, Bystander DEF consensusVars, placeVars
  <2> QED
    BY <1>1, <2>2, <2>3 DEF Inv, consensusVars
<1> QED
  BY <1>2, <1>4, <1>5

(***************************************************************************)
(* Steps of the client's strand.                                           *)
(***************************************************************************)

\* The connection is made: nothing is under way on it yet.
LEMMA ConnectStep == ASSUME Inv, NEW c \in Conns, Connect(c) PROVE Inv'
<1>1. /\ client' \in [Conns -> Place] /\ client[c] = "made" /\ client'[c] = "open"
      /\ server' \in [Conns -> {"none", "reading", "ended"}] /\ server'[c] = "reading"
      /\ \A d \in Conns \ {c} : client'[d] = client[d] /\ server'[d] = server[d]
  BY DEF Connect, Inv, Types, Place
<1>2. /\ Talk(c) /\ c \notin hello /\ Quiet(c) /\ server[c] = "none" /\ toClient[c] = << >>
  BY <1>1 DEF Inv, Talk, Fresh, NoHello
<1>3. Types'
  BY <1>1 DEF Connect, Inv, Types, ConsensusTypeOK, consensusVars, cacheVars, routeVars, timerVars
<1>4. \A d \in Conns \ {c} : Talk(d)'
  BY <1>1, <1>2, Others DEF Connect, consensusVars, cacheVars
<1>5. Talk(c)'
  <2>1. Quiet(c)' /\ Turn(c)'
    BY <1>2 DEF Talk, Quiet, Turn, Lacks, All, Without, AtMostOne, Busy, Free, Connect, consensusVars
  <2>2. Strands(c)' /\ Fresh(c)' /\ NoHello(c)'
    BY <1>1, <1>2, <2>1
       DEF Talk, Strands, Fresh, NoHello, Connect, consensusVars, cacheVars, Lacks, All, Without, Busy, Free
  <2>3. NotRegistered(c) => NotRegistered(c)'
    BY <1>1 DEF NotRegistered, Connect, cacheVars, Lacks, All, Without
  <2>4. Unanswered(c)' /\ Unpeered(c)'
    BY <1>2, <2>3 DEF Talk, Unanswered, Unpeered, Connect, Lacks, All, Without
  <2>5. Kept(c)'
    BY <1>1, <1>2, NoMessage DEF Kept, Connect, Lacks, All, Without
  <2>6. Claimed(c)' /\ Strikes(c)'
    BY <1>2, ClaimsOn DEF Talk, Claimed, Connect, consensusVars
  <2>7. All(toClient[c], Complete(c))'
    BY <1>2 DEF Talk, All, Complete, Connect
  <2> QED
    BY <2>1, <2>2, <2>4, <2>5, <2>6, <2>7 DEF Talk
<1> QED
  BY <1>3, <1>4, <1>5 DEF Inv, Connect, consensusVars

\* The hello is the first message of the handshake.
LEMMA OnHandshakeStep == ASSUME Inv, NEW c \in Conns, OnHandshake(c) PROVE Inv'
<1> DEFINE m == Say("HELLO")
<1>1. m \in Message /\ m.command = "HELLO"
  BY SayFacts DEF Command
<1>2. toServer' = Put(toServer, c, m)
  BY DEF OnHandshake
<1> HIDE DEF m
<1>3. /\ toServer' \in Channel
      /\ \A d \in Conns \ {c} : toServer'[d] = toServer[d]
      /\ \A M : All(toServer[c], M) /\ m \in M => All(toServer'[c], M)
      /\ \A C : Lacks(toServer[c], C) /\ m.command \notin C => Lacks(toServer'[c], C)
      /\ \A C : Lacks(toServer[c], C) => AtMostOne(toServer'[c], C)
  <2> DEFINE r == Put(toServer, c, m)
  <2>0. toServer \in Channel
    BY DEF Inv, Types
  <2>1. /\ r \in Channel
        /\ \A d \in Conns \ {c} : r[d] = toServer[d]
        /\ \A M : All(toServer[c], M) /\ m \in M => All(r[c], M)
        /\ \A C : Lacks(toServer[c], C) /\ m.command \notin C => Lacks(r[c], C)
        /\ \A C : Lacks(toServer[c], C) => AtMostOne(r[c], C)
    BY <1>1, <2>0, PutMore
  <2> QED
    BY <1>2, <2>1
<1>4. /\ client' \in [Conns -> Place] /\ client[c] = "open" /\ client'[c] = "reading"
      /\ \A d \in Conns \ {c} : client'[d] = client[d]
  BY DEF OnHandshake, Inv, Types, Place
<1>5. Talk(c) /\ c \notin hello /\ Quiet(c) /\ toClient[c] = << >> /\ story[c].answer = ""
  BY <1>4 DEF Inv, Talk, Fresh, NoHello
<1>6. Types'
  BY <1>3, <1>4 DEF OnHandshake, Inv, Types, ConsensusTypeOK, consensusVars, cacheVars, routeVars, timerVars
<1>7. \A d \in Conns \ {c} : Talk(d)'
  BY <1>3, <1>4, Others DEF OnHandshake, consensusVars, cacheVars
<1>8. Talk(c)'
  <2>1. toClient'[c] = << >> /\ \A C : Lacks(toClient'[c], C) /\ AtMostOne(toClient'[c], C)
    BY <1>5, NoMessage DEF OnHandshake
  <2>2. ~Busy(c)'
    BY <1>5 DEF Quiet, Busy, Free, OnHandshake, consensusVars
  <2>3. Turn(c)'
    BY <1>3, <1>5, <2>1, <2>2 DEF Quiet, Turn, Busy, OnHandshake
  <2>4. Strands(c)' /\ Fresh(c)'
    BY <1>4, <1>5 DEF Talk, Strands, Fresh, OnHandshake, consensusVars
  <2>5. NoHello(c)'
    BY <1>1, <1>3, <1>5, <2>1, <2>2 DEF Talk, NoHello, OnHandshake
  <2>6. NotRegistered(c)'
    BY <1>1, <1>3, <1>4, <1>5, <2>1 DEF Talk, Unanswered, NotRegistered, OnHandshake, cacheVars
  <2>7. Unanswered(c)' /\ Unpeered(c)' /\ Kept(c)'
    BY <2>1, <2>6 DEF Unanswered, Unpeered, Kept, NotRegistered
  <2>8. Claimed(c)' /\ Strikes(c)'
    <3>1. m \in Claims(c)
      BY <1>1 DEF Claims
    <3> QED
      BY <1>3, <1>5, <3>1, ClaimsOn DEF Talk, Claimed, OnHandshake, consensusVars
  <2>9. All(toClient[c], Complete(c))'
    BY <2>1, NoMessage
  <2> QED
    BY <2>3, <2>4, <2>5, <2>7, <2>8, <2>9 DEF Talk
<1> QED
  BY <1>6, <1>7, <1>8 DEF Inv, OnHandshake, consensusVars

\* What the client reads.
LEMMA Read ==
    ASSUME Inv, NEW c \in Conns, NEW command, Reads(c, command)
    PROVE  /\ toClient' \in Channel /\ \A d \in Conns \ {c} : toClient'[d] = toClient[d]
           /\ toClient[c] # << >> /\ Head(toClient[c]) \in Message
           /\ Head(toClient[c]).command = command
           /\ \A M : All(toClient[c], M) => All(toClient'[c], M) /\ Head(toClient[c]) \in M
           /\ \A C : Lacks(toClient[c], C) => Lacks(toClient'[c], C) /\ command \notin C
           /\ \A C : AtMostOne(toClient[c], C) =>
                         /\ AtMostOne(toClient'[c], C)
                         /\ command \in C => Lacks(toClient'[c], C)
           /\ c \in hello /\ client[c] \in {"reading", "registered"} /\ Talk(c)
<1>1. toClient[c] # << >> /\ Head(toClient[c]).command = command /\ toClient' = Take(toClient, c)
  BY DEF Reads, Arrived
<1>2. c \in hello /\ client[c] \in {"reading", "registered"} /\ Talk(c)
  BY <1>1 DEF Inv, Talk, NoHello, Reads
<1> DEFINE r == Take(toClient, c)
<1>3. /\ r \in Channel /\ \A d \in Conns \ {c} : r[d] = toClient[d]
      /\ Head(toClient[c]) \in Message
      /\ \A M : All(toClient[c], M) => All(r[c], M) /\ Head(toClient[c]) \in M
      /\ \A C : Lacks(toClient[c], C) => Lacks(r[c], C) /\ Head(toClient[c]).command \notin C
      /\ \A C : AtMostOne(toClient[c], C) =>
                    /\ AtMostOne(r[c], C)
                    /\ Head(toClient[c]).command \in C => Lacks(r[c], C)
  <2>1. toClient \in Channel
    BY DEF Inv, Types
  <2> QED
    BY <1>1, <2>1, Taken
<1> QED
  BY <1>1, <1>2, <1>3

\* It reads on.
LEMMA ReadOnStep == ASSUME Inv, NEW c \in Conns, ReadOn(c) PROVE Inv'
<1>1. PICK command : Reads(c, command)
  BY DEF ReadOn
<1>2. Types'
  BY <1>1, Read DEF ReadOn, Inv, Types, ConsensusTypeOK, consensusVars, placeVars, cacheVars, routeVars, timerVars
<1>3. \A d \in Conns \ {c} : Talk(d)'
  BY <1>1, Read, Others DEF ReadOn, consensusVars, placeVars, cacheVars
<1>4. Talk(c)'
  <2>1. Kept(c)'
    BY <1>1, Read, KeptOn DEF Talk, ReadOn, placeVars, cacheVars
  <2> QED
    BY <1>1, <2>1, Read, Fewer DEF ReadOn, placeVars, cacheVars
<1> QED
  BY <1>2, <1>3, <1>4 DEF Inv, ReadOn, consensusVars

\* The client is told to go away.
LEMMA GoAwayStep == ASSUME Inv, NEW c \in Conns, GoAway(c) PROVE Inv'
<1>1. Reads(c, "GO_AWAY")
  BY DEF GoAway
<1>2. /\ client' \in [Conns -> Place] /\ client'[c] = "ended" /\ c \notin up'
      /\ \A d \in Conns \ {c} : client'[d] = client[d]
  BY DEF GoAway, Inv, Types, Place
<1>3. Types'
  BY <1>1, <1>2, Read DEF GoAway, Inv, Types, ConsensusTypeOK, consensusVars, cacheVars, routeVars, timerVars
<1>4. \A d \in Conns \ {c} : Talk(d)'
  BY <1>1, <1>2, Read, Others DEF GoAway, consensusVars, cacheVars
<1>5. Talk(c)'
  <2>1. Kept(c)'
    BY <1>2 DEF Kept
  <2> QED
    BY <1>1, <1>2, <2>1, Read, Fewer DEF GoAway, cacheVars
<1> QED
  BY <1>3, <1>4, <1>5 DEF Inv, GoAway, consensusVars

\* The peers are dialled, and the connection they came by is closed.
LEMMA PeerResponseStep == ASSUME Inv, NEW c \in Conns, PeerResponse(c) PROVE Inv'
<1>1. Reads(c, "PEERS") /\ c \notin up' /\ (\A d \in Conns : d \in up' => d \in up)
      /\ UNCHANGED <<consensusVars, toServer, server, cacheVars, routeVars, timerVars,
                     serverUp, story>>
  BY DEF PeerResponse
<1>2. /\ client' \in [Conns -> Place] /\ client'[c] = "ended"
      /\ \A d \in Conns \ {c} : \/ client'[d] = client[d]
                                \/ client[d] = "none" /\ client'[d] = "made"
  <2>1. client[c] # "none"
    BY <1>1 DEF Reads
  <2> QED
    BY <2>1 DEF PeerResponse, Dialled, Inv, Types, Place
<1>3. up' \subseteq Conns
  BY DEF PeerResponse, Inv, Types
<1>4. Types'
  BY <1>1, <1>2, <1>3, Read DEF Inv, Types, ConsensusTypeOK, consensusVars, cacheVars, routeVars, timerVars
<1>5. ASSUME NEW d \in Conns \ {c} PROVE Talk(d)'
  <2>1. toClient'[d] = toClient[d]
    BY <1>1, Read
  <2>2. Kept(d)'
    BY <1>1, <1>2, <2>1, KeptOn DEF Inv, Talk, cacheVars
  <2> QED
    BY <1>1, <1>2, <2>1, <2>2, Bystander DEF consensusVars, cacheVars
<1>6. Talk(c)'
  <2>1. Kept(c)'
    BY <1>1 DEF Kept
  <2> QED
    BY <1>1, <1>2, <2>1, Read, Fewer DEF cacheVars
<1> QED
  BY <1>1, <1>4, <1>5, <1>6 DEF Inv, consensusVars

\* The client knows that it is registered: its session was accepted and is kept.
LEMMA RegisterResponseStep == ASSUME Inv, NEW c \in Conns, RegisterResponse(c) PROVE Inv'
<1>1. Reads(c, "REGISTER")
      /\ UNCHANGED <<consensusVars, up, toServer, server, sessions, peerCache, hello,
                     routeVars, timerVars, serverUp, story>>
  BY DEF RegisterResponse
<1>2. /\ client' \in [Conns -> Place] /\ client'[c] = "registered"
      /\ \A d \in Conns \ {c} : client'[d] = client[d]
  BY DEF RegisterResponse, Inv, Types, Place
<1>3. /\ mapping' \in [Clients -> Conns \cup {None}]
      /\ \A n \in Clients : mapping'[n] # None => Node[mapping'[n]] = n
  BY StrandFacts DEF RegisterResponse, Inv, Types
<1>4. Types'
  BY <1>1, <1>2, <1>3, Read DEF Inv, Types, ConsensusTypeOK, consensusVars, routeVars, timerVars
<1>5. \A d \in Conns \ {c} : Talk(d)'
  BY <1>1, <1>2, Read, Others DEF consensusVars
<1>6. Talk(c) /\ ~Lacks(toClient[c], {"REGISTER"})
  BY <1>1, Read
<1>7. story[c].answer = "ACCEPTED" /\ c \in Peered /\ Quiet(c) /\ c \in hello
  BY <1>6 DEF Talk, Unanswered, Unpeered, NotRegistered, Turn, NoHello, Lacks, All
<1>8. Talk(c)'
  <2>1. \A C : Lacks(toClient[c], C) => Lacks(toClient'[c], C)
    BY <1>1, Read
  <2>2. AtMostOne(toClient[c], Hello) => AtMostOne(toClient'[c], Hello)
    BY <1>1, Read
  <2>3. Turn(c)'
    BY <1>1, <1>6, <1>7, <2>1, <2>2
       DEF Talk, Turn, Quiet, Busy, Free, consensusVars, Lacks, All, Without, AtMostOne
  <2>4. Strands(c)' /\ Fresh(c)' /\ NoHello(c)'
    BY <1>1, <1>2, <1>6, <1>7 DEF Talk, Strands, Fresh, NoHello, consensusVars
  <2>5. Unanswered(c)' /\ Unpeered(c)'
    BY <1>1, <1>7 DEF Unanswered, Unpeered
  <2>6. Kept(c)'
    BY <1>1, <1>6 DEF Talk, Kept, TakenBeside, Beside
  <2>7. Claimed(c)' /\ Strikes(c)'
    BY <1>1, <1>6, ClaimsOn DEF Talk, Claimed, consensusVars
  <2>8. All(toClient'[c], Complete(c))
    BY <1>1, <1>6, Read DEF Talk
  <2>9. All(toClient[c], Complete(c))'
    BY <2>8 DEF Complete
  <2> QED
    BY <2>3, <2>4, <2>5, <2>6, <2>7, <2>9 DEF Talk
<1> QED
  BY <1>1, <1>4, <1>5, <1>8 DEF Inv, consensusVars

\* Whoever is accepted asks for peers or, if it was made for one, registers.
LEMMA AcceptedStep == ASSUME Inv, NEW c \in Conns, Accepted(c) PROVE Inv'
<1> DEFINE m == Say(IF c \in Peered THEN "REGISTER" ELSE "PEERS")
<1>1. /\ m \in Message /\ m.command # "HELLO" /\ m.command # "HELLO_CONSENSUS"
      /\ m.command = "REGISTER" => c \in Peered
  BY SayFacts DEF Command
<1>2. /\ toServer' = Put(toServer, c, m) /\ Reads(c, "ACCEPTED")
      /\ UNCHANGED <<consensusVars, up, placeVars, cacheVars, routeVars, timerVars,
                     serverUp, story>>
  BY DEF Accepted
<1> HIDE DEF m
<1>3. /\ toServer' \in Channel
      /\ \A d \in Conns \ {c} : toServer'[d] = toServer[d]
      /\ \A M : All(toServer[c], M) /\ m \in M => All(toServer'[c], M)
      /\ \A C : Lacks(toServer[c], C) /\ m.command \notin C => Lacks(toServer'[c], C)
      /\ \A C : Lacks(toServer[c], C) => AtMostOne(toServer'[c], C)
  <2> DEFINE r == Put(toServer, c, m)
  <2>0. toServer \in Channel
    BY DEF Inv, Types
  <2>1. /\ r \in Channel
        /\ \A d \in Conns \ {c} : r[d] = toServer[d]
        /\ \A M : All(toServer[c], M) /\ m \in M => All(r[c], M)
        /\ \A C : Lacks(toServer[c], C) /\ m.command \notin C => Lacks(r[c], C)
        /\ \A C : Lacks(toServer[c], C) => AtMostOne(r[c], C)
    BY <1>1, <2>0, PutMore
  <2> QED
    BY <1>2, <2>1
<1>4. Types'
  BY <1>2, <1>3, Read DEF Inv, Types, ConsensusTypeOK, consensusVars, placeVars, cacheVars, routeVars, timerVars
<1>5. \A d \in Conns \ {c} : Talk(d)'
  BY <1>2, <1>3, Read, Others DEF consensusVars, placeVars, cacheVars
<1>6. Talk(c) /\ ~Lacks(toClient[c], {"ACCEPTED"}) /\ c \in hello
  BY <1>2, Read
<1>7. story[c].answer = "ACCEPTED" /\ Quiet(c)
  BY <1>6 DEF Talk, Unanswered, Turn
<1>8. Talk(c)'
  <2>1. \A C : Lacks(toClient[c], C) => Lacks(toClient'[c], C)
    BY <1>2, Read
  <2>2. AtMostOne(toClient[c], Hello) => AtMostOne(toClient'[c], Hello)
    BY <1>2, Read
  <2>3. Turn(c)'
    <3>1. AtMostOne(toServer'[c], Early) /\ AtMostOne(toClient'[c], Hello)
      BY <1>3, <1>6, <1>7, <2>2 DEF Talk, Turn, Quiet
    <3>2. Lacks(toServer'[c], Early) /\ Lacks(toClient'[c], Hello)
      BY <1>1, <1>3, <1>7, <2>1 DEF Quiet, Early
    <3>3. ~Busy(c)' /\ Free(Near[c])'
      BY <1>2, <1>7 DEF Quiet, Busy, Free, consensusVars
    <3> QED
      BY <3>1, <3>2, <3>3 DEF Turn, Quiet
  <2>4. Strands(c)' /\ Fresh(c)' /\ NoHello(c)'
    BY <1>2, <1>6, Read DEF Talk, Strands, Fresh, NoHello, consensusVars, placeVars, cacheVars
  <2>5. Unanswered(c)'
    BY <1>2, <1>7 DEF Unanswered
  <2>6. Unpeered(c)'
    BY <1>1, <1>2, <1>3, <1>6, <2>1 DEF Talk, Unpeered, NotRegistered, placeVars, cacheVars
  <2>7. Kept(c)'
    BY <1>2, <1>6, <2>1, KeptOn DEF Talk, placeVars, cacheVars
  <2>8. Claimed(c)' /\ Strikes(c)'
    <3>1. m \in Claims(c)
      BY <1>1 DEF Claims
    <3> QED
      BY <1>2, <1>3, <1>6, <3>1, ClaimsOn DEF Talk, Claimed, consensusVars
  <2>9. All(toClient'[c], Complete(c))
    BY <1>2, <1>6, Read DEF Talk
  <2>10. All(toClient[c], Complete(c))'
    BY <2>9 DEF Complete
  <2> QED
    BY <2>3, <2>4, <2>5, <2>6, <2>7, <2>8, <2>10 DEF Talk
<1> QED
  BY <1>2, <1>4, <1>5, <1>8 DEF Inv, consensusVars

(***************************************************************************)
(* Steps of the consensus.                                                 *)
(***************************************************************************)

\* What a thread may have done in one step.
Reached(t) == work[t].op = "script" => work[t].at <= Len(Generators)
KeyDone(t) ==
    /\ work[t].op \in {"key", "script"} /\ work'[t].op \in {"key", "script"}
    /\ work'[t].hashes = work[t].hashes
SeedDone(t) ==
    /\ work[t].op = "seed" /\ work'[t].op \in {"build", "failed"}
    /\ work'[t].hashes = work[t].hashes
BuildDone(t) ==
    /\ work[t].op = "build" /\ work'[t].op \in {"build", "built"}
    /\ work'[t].hashes \subseteq work[t].hashes \cup Own(NodeOf[t])
ValidateDone(t) ==
    /\ work[t].op = "validate" /\ scripted' = scripted
    /\ \/ /\ HasModule(t) /\ work'[t].op = "validate" /\ work'[t].at = work[t].at + 1
          /\ \/ work'[t].hashes = Struck(t)
             \/ HashFails(NodeOf[t], Here(t)) /\ work'[t].hashes = work[t].hashes
       \/ /\ ~HasModule(t) /\ work'[t].op = "validated"
          /\ work'[t].hashes = work[t].hashes

\* A hash is a module and whether its code is another.
LEMMA HashIsHash == ASSUME NEW n, NEW m \in Module PROVE HashOf(n, m) \in Hash
<1>1. (<<n, m>> \in altered) \in BOOLEAN
  OBVIOUS
<1> QED
  BY <1>1, Zenon DEF HashOf, Hash

\* The module a thread is at is one of the server's.
LEMMA HereIs ==
    ASSUME Types, NEW t \in Threads
    PROVE  /\ work[t].at \in 1 .. Len(Generators) + 1 /\ work[t].hashes \in SUBSET Hash
           /\ work[t].at <= Len(Generators) => Here(t) \in Generator /\ work[t].at + 1 \in 1 .. Len(Generators) + 1
           /\ HasModule(t) => Here(t) \in Module /\ OwnHash(t) \in Own(NodeOf[t]) /\ OwnHash(t) \in Hash
<1>1. work[t] \in Work /\ Len(Generators) \in Nat
  BY ConsensusAssumption DEF Types, ConsensusTypeOK
<1>2. work[t].at \in 1 .. Len(Generators) + 1 /\ work[t].hashes \in SUBSET Hash
  BY <1>1 DEF Work
<1>3. work[t].at <= Len(Generators) => Here(t) \in Generator /\ work[t].at + 1 \in 1 .. Len(Generators) + 1
  BY <1>1, <1>2 DEF Here, Generator
<1>4. HasModule(t) => Here(t) \in Module
  BY <1>3 DEF HasModule, Module
<1>5. ASSUME Here(t) \in Module PROVE OwnHash(t) \in Own(NodeOf[t]) /\ OwnHash(t) \in Hash
  <2>1. OwnHash(t) = HashOf(NodeOf[t], Here(t))
    BY DEF OwnHash
  <2>2. HashOf(NodeOf[t], Here(t)) \in Own(NodeOf[t])
    BY <1>5 DEF Own
  <2>3. HashOf(NodeOf[t], Here(t)) \in Hash
    BY <1>5, HashIsHash
  <2> QED
    BY <2>1, <2>2, <2>3
<1> QED
  BY <1>2, <1>3, <1>4, <1>5

\* A part of what a thread is doing is changed.
Op == {"idle", "key", "script", "seed", "build", "validate", "built", "failed", "validated"}
LEMMA OpField ==
    ASSUME NEW w \in Work, NEW o \in Op
    PROVE  /\ [w EXCEPT !.op = o] \in Work /\ [w EXCEPT !.op = o].op = o
           /\ [w EXCEPT !.op = o].hashes = w.hashes /\ [w EXCEPT !.op = o].at = w.at
  BY DEF Work, Op

\* A step inside of an event of the consensus.
LEMMA Computed ==
    ASSUME Types, NEW t \in Threads, ConsensusStep(t), Reached(t)
    PROVE  /\ ConsensusTypeOK' /\ altered' = altered /\ work[t].op # "idle"
           /\ \A u \in Threads \ {t} : work'[u] = work[u]
           /\ \A n \in Nodes \ {NodeOf[t]} : scripted'[n] = scripted[n]
           /\ KeyDone(t) \/ SeedDone(t) \/ BuildDone(t) \/ ValidateDone(t)
           /\ Reached(t)'
<1> DEFINE w == work[t]
<1>1. /\ w \in Work /\ work \in [Threads -> Work] /\ NodeOf[t] \in Nodes
      /\ sessionKey \in [Nodes -> [Generator -> Keys \cup {NoKey}]]
      /\ scripted \in [Nodes -> SUBSET Generator] /\ secret \in [Nodes -> Keys \cup {NoKey}]
      /\ altered \subseteq MayAlter /\ w.key \in Keys \cup {NoKey}
  BY ConsensusAssumption DEF Types, ConsensusTypeOK, Work
<1>2. ASSUME NEW v \in Work, work' = [work EXCEPT ![t] = v]
      PROVE  /\ work' \in [Threads -> Work] /\ work'[t] = v
             /\ \A u \in Threads \ {t} : work'[u] = work[u]
  BY <1>1, <1>2
<1>3. CASE SetSessionKey(t)
  <2>1. /\ [w EXCEPT !.op = "script"] \in Work
        /\ work' = [work EXCEPT ![t] = [w EXCEPT !.op = "script"]]
        /\ w.op = "key" /\ Here(t) \in Generator
    BY <1>1, <1>3, OpField, HereIs DEF SetSessionKey, Op
  <2>2. sessionKey' \in [Nodes -> [Generator -> Keys \cup {NoKey}]]
    BY <1>1, <1>3, <2>1 DEF SetSessionKey
  <2>3. work'[t] = [w EXCEPT !.op = "script"]
    BY <1>2, <2>1
  <2>5. KeyDone(t) /\ Reached(t)'
    <3>1. /\ [w EXCEPT !.op = "script"].op = "script" /\ [w EXCEPT !.op = "script"].hashes = w.hashes
          /\ [w EXCEPT !.op = "script"].at = w.at
      BY <1>1, OpField DEF Op
    <3> QED
      BY <1>3, <2>1, <2>3, <3>1 DEF KeyDone, Reached, SetSessionKey
  <2>4. work' \in [Threads -> Work] /\ \A u \in Threads \ {t} : work'[u] = work[u]
    BY <1>2, <2>1
  <2> QED
    BY <1>1, <1>3, <2>1, <2>2, <2>4, <2>5 DEF SetSessionKey, ConsensusTypeOK
<1>4. CASE SetSessionScript(t)
  <2> DEFINE v == [w EXCEPT !.op = "key", !.at = w.at + 1]
  <2>1. /\ v \in Work /\ v.op = "key" /\ v.hashes = w.hashes /\ w.op = "script"
        /\ work' = [work EXCEPT ![t] = v]
    <3>1. w.at + 1 \in 1 .. Len(Generators) + 1 /\ w.hashes \in SUBSET Hash
      BY <1>4, HereIs DEF SetSessionScript, Reached
    <3>2. v \in Work /\ v.op = "key" /\ v.hashes = w.hashes
      BY <1>1, <3>1 DEF Work
    <3> QED
      BY <1>1, <1>4, <3>2 DEF SetSessionScript
  <2>2. /\ work' \in [Threads -> Work] /\ work'[t] = v
        /\ \A u \in Threads \ {t} : work'[u] = work[u]
    BY <1>2, <2>1
  <2>3. secret' \in [Nodes -> Keys \cup {NoKey}]
    BY <1>1, <1>4 DEF SetSessionScript
  <2>4. /\ scripted' \in [Nodes -> SUBSET Generator]
        /\ \A n \in Nodes \ {NodeOf[t]} : scripted'[n] = scripted[n]
    <3>1. PICK opened : scripted' = [scripted EXCEPT ![NodeOf[t]] = ScriptedAfter(NodeOf[t], Here(t), opened)]
      BY <1>4 DEF SetSessionScript
    <3>2. Here(t) \in Generator
      BY <1>4, HereIs DEF SetSessionScript, Reached
    <3>3. ScriptedAfter(NodeOf[t], Here(t), opened) \in SUBSET Generator
      BY <1>1, <3>2 DEF ScriptedAfter
    <3> QED
      BY <1>1, <3>1, <3>3
  <2>5. KeyDone(t) /\ Reached(t)'
    BY <2>1, <2>2 DEF KeyDone, Reached
  <2> QED
    BY <1>1, <1>4, <2>1, <2>2, <2>3, <2>4, <2>5 DEF SetSessionScript, ConsensusTypeOK
<1>5. CASE GenerateSeed(t)
  <2>1. PICK v \in Work : /\ work' = [work EXCEPT ![t] = v] /\ v.op \in {"build", "failed"}
                          /\ v.hashes = w.hashes
    <3>1. 1 \in 1 .. Len(Generators) + 1 /\ w.hashes \in SUBSET Hash
      BY HereIs, ConsensusAssumption
    <3>2. CASE work' = [work EXCEPT ![t] = [w EXCEPT !.op = "build", !.at = 1]]
      <4> DEFINE v == [w EXCEPT !.op = "build", !.at = 1]
      <4>1. v \in Work /\ v.op = "build" /\ v.hashes = w.hashes
        BY <1>1, <3>1 DEF Work
      <4> QED
        BY <3>2, <4>1
    <3>3. CASE work' = [work EXCEPT ![t] = [w EXCEPT !.op = "failed"]]
      <4> DEFINE v == [w EXCEPT !.op = "failed"]
      <4>1. v \in Work /\ v.op = "failed" /\ v.hashes = w.hashes
        BY <1>1 DEF Work
      <4> QED
        BY <3>3, <4>1
    <3> QED
      BY <1>1, <1>5, <3>2, <3>3 DEF GenerateSeed
  <2>2. /\ work' \in [Threads -> Work] /\ work'[t] = v
        /\ \A u \in Threads \ {t} : work'[u] = work[u]
    BY <1>2, <2>1
  <2>3. SeedDone(t) /\ Reached(t)'
    BY <1>5, <2>1, <2>2 DEF GenerateSeed, SeedDone, Reached
  <2> QED
    BY <1>1, <1>5, <2>2, <2>3 DEF GenerateSeed, ConsensusTypeOK
<1>6. CASE AddSystemHash(t)
  <2>1. PICK v \in Work : /\ work' = [work EXCEPT ![t] = v] /\ v.op = "build"
                          /\ v.hashes \subseteq w.hashes \cup Own(NodeOf[t])
    <3>1. /\ w.at + 1 \in 1 .. Len(Generators) + 1 /\ w.hashes \in SUBSET Hash
          /\ w.hashes \cup {OwnHash(t)} \in SUBSET Hash /\ OwnHash(t) \in Own(NodeOf[t])
      BY <1>6, HereIs DEF AddSystemHash, HasModule
    <3>2. CASE work' = [work EXCEPT ![t] = [w EXCEPT !.hashes = w.hashes \cup {OwnHash(t)}, !.at = w.at + 1]]
      <4>1. /\ [w EXCEPT !.hashes = w.hashes \cup {OwnHash(t)}, !.at = w.at + 1] \in Work
            /\ [w EXCEPT !.hashes = w.hashes \cup {OwnHash(t)}, !.at = w.at + 1].op = w.op
            /\ [w EXCEPT !.hashes = w.hashes \cup {OwnHash(t)}, !.at = w.at + 1].hashes
                   = w.hashes \cup {OwnHash(t)}
        BY <1>1, <3>1 DEF Work
      <4> QED
        BY <1>6, <3>1, <3>2, <4>1 DEF AddSystemHash
    <3>3. CASE work' = [work EXCEPT ![t] = [w EXCEPT !.at = w.at + 1]]
      <4> DEFINE v == [w EXCEPT !.at = w.at + 1]
      <4>1. v \in Work /\ v.op = w.op /\ v.hashes = w.hashes
        BY <1>1, <3>1 DEF Work
      <4> QED
        BY <1>6, <3>3, <4>1 DEF AddSystemHash
    <3> QED
      BY <1>1, <1>6, <3>2, <3>3 DEF AddSystemHash
  <2>2. /\ work' \in [Threads -> Work] /\ work'[t] = v
        /\ \A u \in Threads \ {t} : work'[u] = work[u]
    BY <1>2, <2>1
  <2>3. BuildDone(t) /\ Reached(t)'
    BY <1>6, <2>1, <2>2 DEF AddSystemHash, BuildDone, Reached
  <2> QED
    BY <1>1, <1>6, <2>2, <2>3 DEF AddSystemHash, ConsensusTypeOK
<1>7. CASE Built(t)
  <2> DEFINE v == [w EXCEPT !.op = "built"]
  <2>1. v \in Work /\ v.op = "built" /\ v.hashes = w.hashes /\ work' = [work EXCEPT ![t] = v]
    BY <1>1, <1>7, OpField DEF Built, Op
  <2>2. /\ work' \in [Threads -> Work] /\ work'[t] = v
        /\ \A u \in Threads \ {t} : work'[u] = work[u]
    BY <1>2, <2>1
  <2>3. BuildDone(t) /\ Reached(t)'
    BY <1>7, <2>1, <2>2 DEF Built, BuildDone, Reached
  <2> QED
    BY <1>1, <1>7, <2>2, <2>3 DEF Built, ConsensusTypeOK
<1>8. CASE CompareSystemHash(t)
  <2>1. PICK v \in Work : /\ work' = [work EXCEPT ![t] = v] /\ v.op = "validate" /\ v.at = w.at + 1
                          /\ \/ v.hashes = Struck(t)
                             \/ HashFails(NodeOf[t], Here(t)) /\ v.hashes = w.hashes
    <3>1. /\ w.at + 1 \in 1 .. Len(Generators) + 1 /\ w.hashes \in SUBSET Hash
          /\ Struck(t) \in SUBSET Hash
      BY <1>8, HereIs DEF CompareSystemHash, HasModule, Struck
    <3>2. CASE work' = [work EXCEPT ![t] = [w EXCEPT !.hashes = Struck(t), !.at = w.at + 1]]
      <4> DEFINE v == [w EXCEPT !.hashes = Struck(t), !.at = w.at + 1]
      <4>1. v \in Work /\ v.op = w.op /\ v.hashes = Struck(t) /\ v.at = w.at + 1
        BY <1>1, <3>1 DEF Work
      <4> QED
        BY <1>8, <3>2, <4>1 DEF CompareSystemHash
    <3>3. CASE /\ work' = [work EXCEPT ![t] = [w EXCEPT !.at = w.at + 1]]
               /\ HashFails(NodeOf[t], Here(t))
      <4> DEFINE v == [w EXCEPT !.at = w.at + 1]
      <4>1. v \in Work /\ v.op = w.op /\ v.hashes = w.hashes /\ v.at = w.at + 1
        BY <1>1, <3>1 DEF Work
      <4> QED
        BY <1>8, <3>3, <4>1 DEF CompareSystemHash
    <3> QED
      BY <1>1, <1>8, <3>2, <3>3 DEF CompareSystemHash
  <2>2. /\ work' \in [Threads -> Work] /\ work'[t] = v
        /\ \A u \in Threads \ {t} : work'[u] = work[u]
    BY <1>2, <2>1
  <2>3. ValidateDone(t) /\ Reached(t)'
    BY <1>8, <2>1, <2>2 DEF CompareSystemHash, ValidateDone, Reached
  <2> QED
    BY <1>1, <1>8, <2>2, <2>3 DEF CompareSystemHash, ConsensusTypeOK
<1>9. CASE Validated(t)
  <2> DEFINE v == [w EXCEPT !.op = "validated"]
  <2>1. v \in Work /\ v.op = "validated" /\ v.hashes = w.hashes /\ work' = [work EXCEPT ![t] = v]
    BY <1>1, <1>9, OpField DEF Validated, Op
  <2>2. /\ work' \in [Threads -> Work] /\ work'[t] = v
        /\ \A u \in Threads \ {t} : work'[u] = work[u]
    BY <1>2, <2>1
  <2>3. ValidateDone(t) /\ Reached(t)'
    BY <1>9, <2>1, <2>2 DEF Validated, ValidateDone, Reached
  <2> QED
    BY <1>1, <1>9, <2>2, <2>3 DEF Validated, ConsensusTypeOK
<1> QED
  BY <1>3, <1>4, <1>5, <1>6, <1>7, <1>8, <1>9 DEF ConsensusStep

\* A client's strand goes on with what it is busy with.
LEMMA NearStep ==
    ASSUME Inv, NEW c \in Conns, ~Free(Near[c]), ConsensusTypeOK', altered' = altered,
           scripted'[Server] = scripted[Server],
           \A t \in Threads \ {Near[c]} : work'[t] = work[t],
           work'[Near[c]].op \notin {"validate", "validated"},
           work'[Near[c]].op = "script" => work'[Near[c]].at <= Len(Generators),
           work'[Near[c]].hashes \subseteq Own(Node[c]),
           UNCHANGED <<wireVars, placeVars, cacheVars, routeVars, timerVars, serverUp, story>>
    PROVE  Inv'
<1>1. /\ work'[Far[c]] = work[Far[c]] /\ work'[Timer] = work[Timer]
      /\ \A t \in Threads \ {Near[c], Far[c]} : work'[t] = work[t]
  BY StrandFacts
<1>2. Types'
  BY DEF Inv, Types, wireVars, placeVars, cacheVars, routeVars, timerVars
<1>3. ASSUME NEW d \in Conns \ {c} PROVE Talk(d)'
  <2>1. work'[Near[d]] = work[Near[d]] /\ work'[Far[d]] = work[Far[d]]
    BY StrandFacts
  <2>2. Kept(d)'
    BY KeptOn DEF Inv, Talk, wireVars, placeVars, cacheVars
  <2> QED
    BY <1>1, <2>1, <2>2, Bystander DEF wireVars, placeVars, cacheVars
<1>4. /\ Talk(c) /\ Busy(c) /\ Free(Far[c]) /\ story[c].answer = "" /\ c \in hello
      /\ client[c] \notin {"none", "made", "open"}
      /\ Lacks(toServer[c], Early) /\ Lacks(toClient[c], Hello)
  BY DEF Inv, Talk, Turn, Fresh, NoHello, Quiet, Busy
<1>5. Talk(c)'
  <2>1. Turn(c)'
    BY <1>1, <1>4 DEF Talk, Turn, Free, wireVars, Lacks, All, Without, AtMostOne
  <2>2. Strands(c)' /\ Fresh(c)' /\ NoHello(c)'
    BY <1>1, <1>4 DEF Talk, Strands, Fresh, NoHello, placeVars, cacheVars
  <2>3. NotRegistered(c) => NotRegistered(c)'
    BY DEF NotRegistered, wireVars, placeVars, cacheVars, Lacks, All, Without
  <2>4. Unanswered(c)' /\ Unpeered(c)'
    BY <1>4, <2>3 DEF Talk, Unanswered, Unpeered, wireVars, Lacks, All, Without
  <2>5. Kept(c)'
    BY <1>4, KeptOn DEF Talk, wireVars, placeVars, cacheVars
  <2>6. Claimed(c)'
    BY <1>1, <1>4 DEF Talk, Claimed, Own, HashOf, ServerHash, All, Claims, wireVars
  <2>7. Strikes(c)'
    BY <1>1, <1>4 DEF Talk, Strikes, Undisturbed, Foreign, HashOf, Free, Rest
  <2>8. All(toClient[c], Complete(c))'
    BY <1>4 DEF Talk, All, Complete, wireVars
  <2> QED
    BY <2>1, <2>2, <2>4, <2>5, <2>6, <2>7, <2>8 DEF Talk
<1> QED
  BY <1>1, <1>2, <1>3, <1>5 DEF Inv

\* The modules have the key, and the seed is asked for.
LEMMA BuildConsensusStep == ASSUME Inv, NEW c \in Conns, BuildConsensus(c) PROVE Inv'
<1> DEFINE w == [Idle EXCEPT !.op = "seed"]
<1>1. w \in Work /\ w.op = "seed" /\ w.hashes = {}
  BY Tasks
<1>2. work' = [work EXCEPT ![Near[c]] = w] /\ work[Near[c]].op = "key"
  BY DEF BuildConsensus, Updated
<1> HIDE DEF w
<1>3. /\ work' \in [Threads -> Work] /\ work'[Near[c]] = w
      /\ \A t \in Threads \ {Near[c]} : work'[t] = work[t]
  BY <1>1, <1>2, Works, StrandFacts DEF Inv
<1>4. ~Free(Near[c])
  BY <1>2, Tasks DEF Free
<1>5. ConsensusTypeOK'
  BY <1>3 DEF BuildConsensus, Generating, Inv, Types, ConsensusTypeOK
<1> QED
  BY <1>1, <1>3, <1>4, <1>5, NearStep DEF BuildConsensus, Generating

\* Without a seed there is nothing to send.
LEMMA SendNothingStep == ASSUME Inv, NEW c \in Conns, SendNothing(c) PROVE Inv'
<1>1. work' = [work EXCEPT ![Near[c]] = Idle] /\ work[Near[c]].op = "failed"
  BY DEF SendNothing, Finish
<1>2. /\ work' \in [Threads -> Work] /\ work'[Near[c]] = Idle
      /\ \A t \in Threads \ {Near[c]} : work'[t] = work[t]
  BY <1>1, Tasks, Works, StrandFacts DEF Inv
<1>3. ~Free(Near[c])
  BY <1>1, Tasks DEF Free
<1>4. ConsensusTypeOK'
  BY <1>2 DEF SendNothing, Generating, Inv, Types, ConsensusTypeOK
<1> QED
  BY <1>2, <1>3, <1>4, Tasks, NearStep DEF SendNothing, Generating

\* A client's strand computes.
LEMMA ComputeNear == ASSUME Inv, NEW c \in Conns, Compute(Near[c]) PROVE Inv'
<1> DEFINE t == Near[c]
<1>1. /\ t \in Threads /\ NodeOf[t] = Node[c] /\ Server \in Nodes /\ Server # Node[c]
      /\ ConsensusStep(t) /\ Talk(c) /\ Types
      /\ UNCHANGED <<wireVars, placeVars, cacheVars, routeVars, timerVars, serverUp, story>>
  BY StrandFacts, ConnsAssumption DEF Compute, Inv
<1>2. Reached(t) /\ work[t].op \notin {"validate", "validated"} /\ work[t].hashes \subseteq Own(Node[c])
  BY <1>1 DEF Talk, Strands, Reached, Claimed
<1>3. /\ ConsensusTypeOK' /\ altered' = altered /\ work[t].op # "idle"
      /\ \A u \in Threads \ {t} : work'[u] = work[u]
      /\ \A n \in Nodes \ {NodeOf[t]} : scripted'[n] = scripted[n]
      /\ KeyDone(t) \/ SeedDone(t) \/ BuildDone(t) \/ ValidateDone(t)
      /\ Reached(t)'
  BY <1>1, <1>2, Computed
<1>4. /\ work'[t].op \notin {"validate", "validated"} /\ work'[t].hashes \subseteq Own(Node[c])
  BY <1>1, <1>2, <1>3 DEF KeyDone, SeedDone, BuildDone, ValidateDone
<1>5. ~Free(t) /\ scripted'[Server] = scripted[Server]
  BY <1>1, <1>3, Tasks DEF Free
<1> QED
  BY <1>1, <1>3, <1>4, <1>5, NearStep DEF Reached

\* The server's secret becomes the key of the client's modules.
LEMMA HelloConsensusResponseStep ==
    ASSUME Inv, NEW c \in Conns, HelloConsensusResponse(c) PROVE Inv'
<1> DEFINE k == Head(toClient[c]).key
           w == [Idle EXCEPT !.op = "key", !.key = k]
<1>1. /\ Reads(c, "HELLO_CONSENSUS") /\ work' = [work EXCEPT ![Near[c]] = w]
      /\ UNCHANGED <<altered, sessionKey, scripted, secret, up, toServer, placeVars, cacheVars,
                     routeVars, timerVars, serverUp, story>>
  BY DEF HelloConsensusResponse, UpdateSessionKey, Generating
<1>2. k \in Keys \cup {NoKey} /\ w \in Work /\ w.op = "key" /\ w.hashes = {}
  <2>1. Head(toClient[c]) \in Message
    BY <1>1, Read
  <2>2. k \in Keys \cup {NoKey}
    BY <2>1 DEF Message
  <2> QED
    BY <2>2, Tasks
<1> HIDE DEF k, w
<1>3. /\ work' \in [Threads -> Work] /\ work'[Near[c]] = w
      /\ \A t \in Threads \ {Near[c]} : work'[t] = work[t]
  BY <1>1, <1>2, Works, StrandFacts DEF Inv
<1>4. /\ work'[Far[c]] = work[Far[c]] /\ work'[Timer] = work[Timer]
      /\ \A t \in Threads \ {Near[c], Far[c]} : work'[t] = work[t]
  BY <1>3, StrandFacts
<1>5. Types'
  BY <1>1, <1>3, Read DEF Inv, Types, ConsensusTypeOK, placeVars, cacheVars, routeVars, timerVars
<1>6. \A d \in Conns \ {c} : Talk(d)'
  BY <1>1, <1>4, Read, Others DEF placeVars, cacheVars
<1>7. /\ Talk(c) /\ ~Lacks(toClient[c], Hello) /\ c \in hello
      /\ \A C : Lacks(toClient[c], C) => Lacks(toClient'[c], C)
      /\ AtMostOne(toClient'[c], Hello) /\ Lacks(toClient'[c], Hello)
      /\ All(toClient'[c], Complete(c))
  <2>1. Talk(c) /\ AtMostOne(toClient[c], Hello) /\ All(toClient[c], Complete(c)) /\ "HELLO_CONSENSUS" \in Hello
    BY <1>1, Read DEF Talk, Turn, Hello
  <2> QED
    BY <1>1, <2>1, Read
<1>8. /\ ~Busy(c) /\ Lacks(toServer[c], Early) /\ story[c].answer = ""
      /\ client[c] \notin {"none", "made", "open"}
  BY <1>7 DEF Talk, Turn, Fresh, Quiet
<1>9. Talk(c)'
  <2>1. Turn(c)'
    <3>1. AtMostOne(toServer[c], Early)' /\ Lacks(toServer[c], Early)'
      BY <1>1, <1>7, <1>8 DEF Talk, Turn, AtMostOne, Lacks, All, Without
    <3>2. Free(Far[c])'
      BY <1>4, <1>8 DEF Busy, Free
    <3> QED
      BY <1>1, <1>7, <1>8, <3>1, <3>2 DEF Turn
  <2>2. Strands(c)' /\ Fresh(c)' /\ NoHello(c)'
    BY <1>1, <1>2, <1>3, <1>4, <1>7, <1>8 DEF Talk, Strands, Fresh, NoHello, placeVars, cacheVars
  <2>3. NotRegistered(c) => NotRegistered(c)'
    BY <1>1, <1>7 DEF NotRegistered, placeVars, cacheVars, Lacks, All, Without
  <2>4. Unanswered(c)' /\ Unpeered(c)'
    BY <1>1, <1>7, <2>3 DEF Talk, Unanswered, Unpeered
  <2>5. Kept(c)'
    BY <1>1, <1>7, KeptOn DEF Talk, placeVars, cacheVars
  <2>6. Claimed(c)'
    BY <1>1, <1>2, <1>3, <1>4, <1>7, ClaimedOn DEF Talk
  <2>7. Strikes(c)'
    <3>1. (Undisturbed(c)' <=> Undisturbed(c)) /\ (Free(Timer)' <=> Free(Timer))
      BY <1>1, <1>4 DEF Undisturbed, Foreign, HashOf, Free
    <3>2. \A i : Rest(i)' = Rest(i)
      BY <1>1 DEF Rest, HashOf
    <3>3. work'[Far[c]] = work[Far[c]] /\ scripted' = scripted /\ story' = story
      BY <1>1, <1>4
    <3> QED
      BY <1>7, <3>1, <3>2, <3>3 DEF Talk, Strikes
  <2>8. All(toClient[c], Complete(c))'
    BY <1>7 DEF Complete
  <2> QED
    BY <2>1, <2>2, <2>4, <2>5, <2>6, <2>7, <2>8 DEF Talk
<1> QED
  BY <1>4, <1>5, <1>6, <1>9 DEF Inv

\* The client sends the hashes it has built.
LEMMA SendConsensusStep == ASSUME Inv, NEW c \in Conns, SendConsensus(c) PROVE Inv'
<1> DEFINE h == work[Near[c]].hashes
           m == [Say("HELLO_CONSENSUS") EXCEPT !.hashes = h]
           Sent == {x \in Message : x.command = "HELLO_CONSENSUS" => x.hashes = h}
<1>1. /\ work[Near[c]].op = "built" /\ work' = [work EXCEPT ![Near[c]] = Idle]
      /\ toServer' = Put(toServer, c, m) /\ story' = [story EXCEPT ![c].claimed = h]
      /\ UNCHANGED <<altered, sessionKey, scripted, secret, up, toClient, placeVars, cacheVars,
                     routeVars, timerVars, serverUp>>
  BY DEF SendConsensus, Finish, Generating
<1>2. h \in SUBSET Hash
  BY HereIs, StrandFacts DEF Inv
<1>3. m \in Message /\ m.command = "HELLO_CONSENSUS" /\ m.hashes = h /\ m \in Sent
  BY <1>2, SayMore
<1> HIDE DEF m, Sent
<1>4. /\ toServer' \in Channel
      /\ \A d \in Conns \ {c} : toServer'[d] = toServer[d]
      /\ \A M : All(toServer[c], M) /\ m \in M => All(toServer'[c], M)
      /\ \A C : Lacks(toServer[c], C) /\ m.command \notin C => Lacks(toServer'[c], C)
      /\ \A C : Lacks(toServer[c], C) => AtMostOne(toServer'[c], C)
  <2> DEFINE r == Put(toServer, c, m)
  <2>0. toServer \in Channel
    BY DEF Inv, Types
  <2>1. /\ r \in Channel
        /\ \A d \in Conns \ {c} : r[d] = toServer[d]
        /\ \A M : All(toServer[c], M) /\ m \in M => All(r[c], M)
        /\ \A C : Lacks(toServer[c], C) /\ m.command \notin C => Lacks(r[c], C)
        /\ \A C : Lacks(toServer[c], C) => AtMostOne(r[c], C)
    BY <1>3, <2>0, PutMore
  <2> QED
    BY <1>1, <2>1
<1>5. /\ work' \in [Threads -> Work] /\ work'[Near[c]] = Idle
      /\ \A t \in Threads \ {Near[c]} : work'[t] = work[t]
  BY <1>1, Tasks, Works, StrandFacts DEF Inv
<1>6. /\ work'[Far[c]] = work[Far[c]] /\ work'[Timer] = work[Timer]
      /\ \A t \in Threads \ {Near[c], Far[c]} : work'[t] = work[t]
  BY <1>5, StrandFacts
<1>7. /\ story' \in [Conns -> Story] /\ \A d \in Conns \ {c} : story'[d] = story[d]
      /\ story'[c].claimed = h /\ story'[c].answer = story[c].answer
      /\ story'[c].disturbed = story[c].disturbed /\ story'[c].beside = story[c].beside
  <2> DEFINE r == [story[c] EXCEPT !.claimed = h]
  <2>1. story \in [Conns -> Story] /\ story[c] \in Story /\ h \in SUBSET Hash
    BY <1>2 DEF Inv, Types
  <2>2. /\ r \in Story /\ r.claimed = h /\ r.answer = story[c].answer
        /\ r.disturbed = story[c].disturbed /\ r.beside = story[c].beside
    BY <2>1 DEF Story
  <2>3. story' = [story EXCEPT ![c] = r]
    BY <1>1
  <2> HIDE DEF r
  <2> QED
    BY <2>1, <2>2, <2>3, Stories
<1>8. Types'
  BY <1>1, <1>4, <1>5, <1>7
     DEF Inv, Types, ConsensusTypeOK, placeVars, cacheVars, routeVars, timerVars
<1>9. \A d \in Conns \ {c} : Talk(d)'
  BY <1>1, <1>4, <1>6, <1>7, Others DEF placeVars, cacheVars
<1>10. /\ Talk(c) /\ ~Free(Near[c]) /\ Busy(c) /\ Free(Far[c]) /\ story[c].answer = ""
       /\ c \in hello /\ client[c] \notin {"none", "made", "open"}
       /\ Lacks(toServer[c], Early) /\ Lacks(toClient[c], Hello)
  <2>1. Talk(c) /\ ~Free(Near[c]) /\ Busy(c)
    BY <1>1, Tasks DEF Inv, Busy, Free
  <2> QED
    BY <2>1 DEF Talk, Turn, Fresh, NoHello, Quiet
<1>11. Talk(c)'
  <2>1. Turn(c)'
    <3>1. AtMostOne(toServer'[c], Early) /\ ~Busy(c)'
      BY <1>4, <1>5, <1>6, <1>10 DEF Busy, Free
    <3>2. AtMostOne(toClient[c], Hello)' /\ Lacks(toClient[c], Hello)'
      BY <1>1, <1>10 DEF Talk, Turn, AtMostOne, Lacks, All, Without
    <3> QED
      BY <1>7, <1>10, <3>1, <3>2 DEF Turn, Busy
  <2>2. Strands(c)' /\ Fresh(c)' /\ NoHello(c)'
    BY <1>1, <1>5, <1>6, <1>10, Tasks DEF Talk, Strands, Fresh, NoHello, placeVars, cacheVars
  <2>3. NotRegistered(c) => NotRegistered(c)'
    BY <1>1, <1>3, <1>4 DEF NotRegistered, placeVars, cacheVars, Lacks, All, Without
  <2>4. Unanswered(c)' /\ Unpeered(c)'
    BY <1>1, <1>7, <1>10, <2>3 DEF Talk, Unanswered, Unpeered, Lacks, All, Without
  <2>5. Kept(c)'
    BY <1>1, <1>7, <1>10, KeptOn DEF Talk, placeVars, cacheVars
  <2>6. Claimed(c)'
    <3>1. All(toServer[c], Sent)
      BY <1>10 DEF Lacks, All, Without, Early, Sent
    <3>2. All(toServer'[c], Sent)
      BY <1>3, <1>4, <3>1
    <3>3. All(toServer[c], Claims(c))'
      BY <1>7, <3>2 DEF All, Claims, Sent
    <3>4. Own(Node[c])' = Own(Node[c]) /\ h \subseteq Own(Node[c])
      BY <1>1, <1>10 DEF Talk, Claimed, Own, HashOf
    <3>5. work'[Far[c]].op = "idle" /\ work'[Near[c]].hashes = {}
      <4>1. work'[Far[c]] = Idle /\ work'[Near[c]] = Idle
        BY <1>5, <1>6, <1>10 DEF Free
      <4>2. Idle.op = "idle" /\ Idle.hashes = {}
        BY Tasks
      <4> QED
        BY <4>1, <4>2
    <3> QED
      BY <1>7, <1>10, <3>3, <3>4, <3>5 DEF Claimed
  <2>7. Strikes(c)'
    <3>1. work'[Far[c]].op = "idle"
      BY <1>6, <1>10, Tasks DEF Free
    <3> QED
      BY <1>7, <1>10, <3>1 DEF Strikes
  <2>8. All(toClient[c], Complete(c))'
    BY <1>1, <1>10 DEF Talk, All, Complete
  <2> QED
    BY <2>1, <2>2, <2>4, <2>5, <2>6, <2>7, <2>8 DEF Talk
<1> QED
  BY <1>6, <1>8, <1>9, <1>11 DEF Inv

\* While the timer is at rest no script of the server is being moved.
LEMMA Still ==
    ASSUME Inv, Free(Timer), NEW g
    PROVE  ~Moving(Server, g)
<1> SUFFICES ASSUME NEW t \in Threads, NodeOf[t] = Server, work[t].op = "script" PROVE FALSE
  BY DEF Moving
<1>1. CASE t = Timer
  BY <1>1, Tasks DEF Free
<1>2. CASE \E d \in Conns : t = Near[d] \/ t = Far[d]
  <2>1. PICK d \in Conns : t = Near[d] \/ t = Far[d]
    BY <1>2
  <2>2. t = Far[d]
    BY <2>1, StrandFacts
  <2>3. Strands(d)
    BY DEF Inv, Talk
  <2> QED
    BY <2>2, <2>3 DEF Strands
<1> QED
  BY <1>1, <1>2, StrandsAssumption

\* What is left to be struck off when a module has been passed.
LEMMA Passed ==
    ASSUME Types, NEW t \in Threads, NodeOf[t] = Server
    PROVE  /\ HasModule(t) => Rest(work[t].at) \ {OwnHash(t)} \subseteq Rest(work[t].at + 1)
           /\ ~HasModule(t) => Rest(work[t].at) = {}
<1>1. work[t].at \in 1 .. Len(Generators) + 1 /\ Len(Generators) \in Nat
  BY HereIs, ConsensusAssumption
<1>2. ASSUME HasModule(t), NEW h \in Rest(work[t].at) \ {OwnHash(t)}
      PROVE  h \in Rest(work[t].at + 1)
  <2>1. PICK j \in work[t].at .. Len(Generators) :
            Generators[j] # "seed" /\ h = HashOf(Server, Generators[j])
    BY <1>2 DEF Rest
  <2>2. j # work[t].at
    BY <1>2, <2>1 DEF OwnHash, Here
  <2>3. j \in work[t].at + 1 .. Len(Generators)
    BY <1>1, <2>1, <2>2
  <2> QED
    BY <2>1, <2>3 DEF Rest
<1>3. ASSUME ~HasModule(t), NEW j \in work[t].at .. Len(Generators)
      PROVE  Generators[j] = "seed"
  <2>1. work[t].at <= Len(Generators) /\ Generators[work[t].at] = "seed"
    BY <1>1, <1>3 DEF HasModule, Here
  <2>2. work[t].at = Len(Generators)
    BY <1>1, <2>1, ConsensusAssumption
  <2> QED
    BY <1>1, <2>1, <2>2
<1>4. ~HasModule(t) => Rest(work[t].at) = {}
  BY <1>3 DEF Rest
<1> QED
  BY <1>2, <1>4

\* The server's strand strikes off one more hash, or is through.
LEMMA ComputeFar == ASSUME Inv, NEW c \in Conns, Compute(Far[c]) PROVE Inv'
<1> DEFINE t == Far[c]
<1>1. /\ t \in Threads /\ NodeOf[t] = Server /\ ConsensusStep(t) /\ Talk(c) /\ Types
      /\ UNCHANGED <<wireVars, placeVars, cacheVars, routeVars, timerVars, serverUp, story>>
  BY StrandFacts DEF Compute, Inv
<1>2. Reached(t)
  BY <1>1 DEF Talk, Strands, Reached
<1>3. /\ ConsensusTypeOK' /\ altered' = altered /\ work[t].op # "idle"
      /\ \A u \in Threads \ {t} : work'[u] = work[u]
      /\ KeyDone(t) \/ SeedDone(t) \/ BuildDone(t) \/ ValidateDone(t)
  BY <1>1, <1>2, Computed
<1>4. ValidateDone(t)
  BY <1>1, <1>3 DEF Talk, Strands, KeyDone, SeedDone, BuildDone
<1>5. /\ work'[Near[c]] = work[Near[c]] /\ work'[Timer] = work[Timer]
      /\ \A u \in Threads \ {Near[c], Far[c]} : work'[u] = work[u]
  BY <1>3, StrandFacts
<1>6. /\ work[t].op = "validate" /\ work'[t].op \in {"validate", "validated"} /\ scripted' = scripted
      /\ ~Free(t) /\ ~Free(t)'
  BY <1>4, Tasks DEF ValidateDone, Free
<1>7. Types'
  BY <1>1, <1>3 DEF Types, wireVars, placeVars, cacheVars, routeVars, timerVars
<1>8. \A d \in Conns \ {c} : Talk(d)'
  BY <1>1, <1>3, <1>5, <1>6, Others DEF wireVars, placeVars, cacheVars
<1>9. /\ Busy(c) /\ Free(Near[c]) /\ story[c].answer = "" /\ c \in hello
      /\ client[c] \notin {"none", "made", "open"}
      /\ Lacks(toServer[c], Early) /\ Lacks(toClient[c], Hello)
  BY <1>1, <1>6 DEF Talk, Turn, Fresh, NoHello, Quiet, Busy
<1>10. Talk(c)'
  <2>1. Turn(c)'
    BY <1>1, <1>5, <1>9 DEF Talk, Turn, Free, wireVars, Lacks, All, Without, AtMostOne
  <2>2. Strands(c)' /\ Fresh(c)' /\ NoHello(c)'
    BY <1>1, <1>5, <1>6, <1>9 DEF Talk, Strands, Fresh, NoHello, placeVars, cacheVars
  <2>3. NotRegistered(c) => NotRegistered(c)'
    BY <1>1 DEF NotRegistered, wireVars, placeVars, cacheVars, Lacks, All, Without
  <2>4. Unanswered(c)' /\ Unpeered(c)'
    BY <1>1, <1>9, <2>3 DEF Talk, Unanswered, Unpeered, wireVars, Lacks, All, Without
  <2>5. Kept(c)'
    BY <1>1, KeptOn DEF Talk, wireVars, placeVars, cacheVars
  <2>6. Claimed(c)'
    <3>1. /\ work'[t].hashes \subseteq work[t].hashes
          /\ work[t].hashes \subseteq work'[t].hashes \cup ServerHash
      <4>1. HasModule(t) => OwnHash(t) \in ServerHash
        BY <1>1, HereIs DEF Own, ServerHash
      <4> QED
        BY <1>4, <4>1 DEF ValidateDone, Struck
    <3>2. Own(Node[c])' = Own(Node[c]) /\ ServerHash' = ServerHash
      BY <1>3 DEF Own, ServerHash, HashOf
    <3>3. All(toServer[c], Claims(c))'
      BY <1>1 DEF Talk, Claimed, All, Claims, wireVars
    <3> QED
      BY <1>1, <1>5, <1>6, <3>1, <3>2, <3>3 DEF Talk, Claimed
  <2>7. Strikes(c)'
    <3>1. /\ Undisturbed(c)' <=> Undisturbed(c)
          /\ \A i : Rest(i)' = Rest(i)
      BY <1>1, <1>3 DEF Undisturbed, Foreign, HashOf, Rest
    <3>2. ASSUME Undisturbed(c)
          PROVE  /\ Free(Timer) /\ scripted[Server] = Generator
                 /\ work[t].hashes \subseteq Rest(work[t].at)
      BY <1>1, <1>6, <3>2 DEF Talk, Strikes
    <3>3. ASSUME Undisturbed(c), HasModule(t)
          PROVE  work'[t].op = "validate" /\ work'[t].hashes \subseteq Rest(work'[t].at)
      <4>1. ~HashFails(NodeOf[t], Here(t))
        BY <1>1, <3>2, <3>3, Still, HereIs DEF HashFails, HasModule
      <4>2. /\ work'[t].op = "validate" /\ work'[t].at = work[t].at + 1
            /\ work'[t].hashes = work[t].hashes \ {OwnHash(t)}
        BY <1>4, <3>3, <4>1 DEF ValidateDone, Struck
      <4> QED
        BY <1>1, <3>2, <3>3, <4>2, Passed
    <3>4. ASSUME Undisturbed(c), ~HasModule(t)
          PROVE  work'[t].op = "validated" /\ work'[t].hashes = {}
      BY <1>1, <1>4, <3>2, <3>4, Passed DEF ValidateDone
    <3>5. Free(Timer)' <=> Free(Timer)
      BY <1>5 DEF Free
    <3>6. Rest(work[Far[c]].at)' = Rest(work'[t].at)
      BY <1>3 DEF Rest, HashOf
    <3> QED
      BY <1>1, <1>6, <1>9, <3>1, <3>2, <3>3, <3>4, <3>5, <3>6 DEF Strikes
  <2>8. All(toClient[c], Complete(c))'
    BY <1>1 DEF Talk, All, Complete, wireVars
  <2> QED
    BY <2>1, <2>2, <2>4, <2>5, <2>6, <2>7, <2>8 DEF Talk
<1> QED
  BY <1>5, <1>7, <1>8, <1>10 DEF Inv

\* The timer is at work: no validation goes on that is not disturbed.
LEMMA TimerStep ==
    ASSUME Inv, altered' = altered, UNCHANGED <<wireVars, placeVars, cacheVars, serverUp>>,
           \A t \in Threads \ {Timer} : work'[t] = work[t],
           \A c \in Conns : /\ story'[c].claimed = story[c].claimed
                            /\ story'[c].answer = story[c].answer
                            /\ story'[c].beside = story[c].beside
                            /\ story[c].disturbed => story'[c].disturbed
                            /\ work[Far[c]].op = "validate" =>
                                   Foreign(Node[c]) \/ story'[c].disturbed
    PROVE  \A c \in Conns : Talk(c)'
<1> SUFFICES ASSUME NEW c \in Conns PROVE Talk(c)'
  OBVIOUS
<1>1. Talk(c) /\ work'[Near[c]] = work[Near[c]] /\ work'[Far[c]] = work[Far[c]]
  BY StrandFacts DEF Inv
<1>2. Quiet(c)' <=> Quiet(c)
  BY <1>1 DEF Quiet, Lacks, All, Without, Busy, Free, wireVars
<1>3. Turn(c)'
  BY <1>1, <1>2 DEF Talk, Turn, Lacks, All, Without, Busy, Free, AtMostOne, wireVars
<1>4. Strands(c)' /\ Fresh(c)'
  BY <1>1, <1>2 DEF Talk, Strands, Fresh, placeVars, cacheVars
<1>5. NotRegistered(c) => NotRegistered(c)'
  BY DEF NotRegistered, Lacks, All, Without, wireVars, placeVars, cacheVars
<1>6. NoHello(c)' /\ Unanswered(c)' /\ Unpeered(c)'
  BY <1>1, <1>5 DEF Talk, NoHello, Unanswered, Unpeered, Lacks, All, Without, Busy, Free, wireVars, cacheVars
<1>7. All(toClient[c], Complete(c))'
  BY <1>1 DEF Talk, All, Complete, wireVars
<1>8. Kept(c)'
  BY <1>1, KeptOn DEF Talk, wireVars, placeVars, cacheVars
<1>9. Claimed(c)'
  BY <1>1, ClaimedOn DEF Talk, Claimed, wireVars
<1>10. Strikes(c)'
  <2>1. Undisturbed(c)' => Undisturbed(c) /\ ~(Foreign(Node[c]) \/ story'[c].disturbed)
    BY DEF Undisturbed, Foreign, HashOf
  <2>2. ~(work'[Far[c]].op = "validate" /\ Undisturbed(c)')
    BY <1>1, <2>1
  <2> QED
    BY <1>1, <2>1, <2>2 DEF Talk, Strikes
<1> QED
  BY <1>1, <1>3, <1>4, <1>6, <1>7, <1>8, <1>9, <1>10 DEF Talk

\* The timer pushes the key into the modules, one after the other.
LEMMA ComputeTimer == ASSUME Inv, Compute(Timer) PROVE Inv'
<1>1. /\ Timer \in Threads /\ ConsensusStep(Timer) /\ Types
      /\ UNCHANGED <<wireVars, placeVars, cacheVars, routeVars, timerVars, serverUp, story>>
  BY StrandFacts DEF Compute, Inv
<1>2. Reached(Timer) /\ work[Timer].op \in {"idle", "key", "script"}
  BY DEF Inv, Reached
<1>3. /\ ConsensusTypeOK' /\ altered' = altered /\ work[Timer].op # "idle"
      /\ \A t \in Threads \ {Timer} : work'[t] = work[t]
      /\ KeyDone(Timer) \/ SeedDone(Timer) \/ BuildDone(Timer) \/ ValidateDone(Timer)
      /\ Reached(Timer)'
  BY <1>1, <1>2, Computed
<1>4. KeyDone(Timer) /\ ~Free(Timer)
  BY <1>2, <1>3, Tasks DEF SeedDone, BuildDone, ValidateDone, Free
<1>5. Types'
  BY <1>1, <1>3 DEF Types, wireVars, placeVars, cacheVars, routeVars, timerVars
<1>6. \A c \in Conns : work[Far[c]].op = "validate" => Foreign(Node[c]) \/ story'[c].disturbed
  BY <1>1, <1>4 DEF Inv, Talk, Strikes, Undisturbed
<1>7. \A c \in Conns : Talk(c)'
  BY <1>1, <1>3, <1>6, TimerStep
<1> QED
  BY <1>3, <1>4, <1>5, <1>7 DEF Inv, KeyDone, Reached

\* All modules have the key, and the timer rests.
LEMMA RearmStep == ASSUME Inv, Rearm PROVE Inv'
<1>1. /\ work[Timer].op = "key" /\ work' = [work EXCEPT ![Timer] = Idle]
      /\ UNCHANGED <<altered, sessionKey, scripted, secret, wireVars, placeVars, cacheVars,
                     routeVars, timerVars, serverUp, story>>
  BY DEF Rearm, Updated, Finish, Generating
<1>2. /\ work' \in [Threads -> Work] /\ work'[Timer] = Idle
      /\ \A t \in Threads \ {Timer} : work'[t] = work[t]
  BY <1>1, Tasks, Works, StrandFacts DEF Inv
<1>3. Types'
  BY <1>1, <1>2 DEF Inv, Types, ConsensusTypeOK, wireVars, placeVars, cacheVars, routeVars, timerVars
<1>4. ~Free(Timer)
  BY <1>1, Tasks DEF Free
<1>5. \A c \in Conns : work[Far[c]].op = "validate" => Foreign(Node[c]) \/ story'[c].disturbed
  BY <1>1, <1>4 DEF Inv, Talk, Strikes, Undisturbed
<1>6. \A c \in Conns : Talk(c)'
  BY <1>1, <1>2, <1>5, TimerStep
<1> QED
  BY <1>2, <1>3, <1>6, Tasks DEF Inv

\* The timer takes the next key: whoever is validated meanwhile is disturbed.
LEMMA ProcessStep == ASSUME Inv, Process PROVE Inv'
<1> DEFINE k == SessionKeys[NextPos]
           w == [Idle EXCEPT !.op = "key", !.key = k]
<1>1. /\ processed < MaxProcess /\ currentPos' = NextPos /\ processed' = processed + 1
      /\ work' = [work EXCEPT ![Timer] = w]
      /\ story' = [c \in Conns |-> [story[c] EXCEPT !.disturbed = @ \/ work[Far[c]].op = "validate"]]
      /\ UNCHANGED <<altered, sessionKey, scripted, secret, wireVars, placeVars, cacheVars,
                     routeVars, serverUp>>
  BY DEF Process, UpdateSessionKey, Generating
<1>2. NextPos \in 1 .. Len(SessionKeys) /\ k \in Keys
  <2>1. Len(SessionKeys) \in Nat /\ Len(SessionKeys) # 0 /\ currentPos \in 0 .. Len(SessionKeys)
    BY ConnsAssumption DEF Inv, Types
  <2>2. NextPos \in 1 .. Len(SessionKeys)
    BY <2>1 DEF NextPos
  <2> QED
    BY <2>2, ConnsAssumption
<1>3. w \in Work /\ w.op = "key"
  BY <1>2, Tasks
<1> HIDE DEF k, w
<1>4. /\ work' \in [Threads -> Work] /\ work'[Timer] = w
      /\ \A t \in Threads \ {Timer} : work'[t] = work[t]
  BY <1>1, <1>3, Works, StrandFacts DEF Inv
<1>5. /\ story' \in [Conns -> Story]
      /\ \A c \in Conns : /\ story'[c].claimed = story[c].claimed
                          /\ story'[c].answer = story[c].answer
                          /\ story'[c].beside = story[c].beside
                          /\ story[c].disturbed => story'[c].disturbed
                          /\ work[Far[c]].op = "validate" => story'[c].disturbed
  <2>1. ASSUME NEW c \in Conns
        PROVE  /\ story'[c] \in Story
               /\ story'[c].claimed = story[c].claimed /\ story'[c].answer = story[c].answer
               /\ story'[c].beside = story[c].beside
               /\ story[c].disturbed => story'[c].disturbed
               /\ work[Far[c]].op = "validate" => story'[c].disturbed
    <3> DEFINE b == story[c].disturbed \/ work[Far[c]].op = "validate"
    <3>1. story[c] \in Story /\ story'[c] = [story[c] EXCEPT !.disturbed = b] /\ b \in BOOLEAN
      BY <1>1 DEF Inv, Types
    <3>2. /\ story'[c] \in Story
          /\ story'[c].claimed = story[c].claimed /\ story'[c].answer = story[c].answer
          /\ story'[c].beside = story[c].beside /\ story'[c].disturbed = b
      <4> HIDE DEF b
      <4> QED
        BY <3>1 DEF Story
    <3> QED
      BY <3>2
  <2> QED
    BY <1>1, <2>1
<1>6. currentPos' \in 0 .. Len(SessionKeys) /\ processed' \in 0 .. MaxProcess
  BY <1>1, <1>2, ConnsAssumption DEF Inv, Types
<1>7. Types'
  BY <1>1, <1>4, <1>5, <1>6
     DEF Inv, Types, ConsensusTypeOK, wireVars, placeVars, cacheVars, routeVars
<1>8. \A c \in Conns : Talk(c)'
  BY <1>1, <1>4, <1>5, TimerStep
<1> QED
  BY <1>3, <1>4, <1>7, <1>8 DEF Inv

----------------------------------------------------------------------------
(* The theorems.                                                           *)

\* Every thread is a strand of a connection, or the timer.
LEMMA ComputeStep == ASSUME Inv, NEW t \in Threads, Compute(t) PROVE Inv'
  BY StrandsAssumption, ComputeTimer, ComputeNear, ComputeFar

\* The invariant holds before the first connection.
LEMMA InitInv == Init => Inv
<1> SUFFICES ASSUME Init PROVE Inv
  OBVIOUS
<1>1. /\ work = [t \in Threads |-> Idle] /\ client = [c \in Conns |-> IF c \in Peered THEN "none" ELSE "made"]
      /\ server = [c \in Conns |-> "none"] /\ up = {} /\ hello = {}
      /\ toServer = [c \in Conns |-> << >>] /\ toClient = [c \in Conns |-> << >>]
      /\ sessions = [n \in Clients |-> None] /\ mapping = [n \in Clients |-> None]
      /\ story = [c \in Conns |-> [claimed |-> {}, answer |-> "", disturbed |-> FALSE,
                                  beside |-> {}]]
  BY DEF Init, ConsensusInit
<1>2. ConsensusTypeOK
  BY Tasks DEF Init, ConsensusInit, ConsensusTypeOK
<1>3. toServer \in Channel /\ toClient \in Channel
  BY <1>1, NoMessage DEF Channel
<1>4. Types
  <2>1. client \in [Conns -> Place] /\ server \in [Conns -> {"none", "reading", "ended"}]
    BY <1>1 DEF Place
  <2>2. story \in [Conns -> Story]
    BY <1>1 DEF Story
  <2>3. /\ peerCache \subseteq Nodes /\ currentPos \in 0 .. Len(SessionKeys) /\ processed \in 0 .. MaxProcess
        /\ routing \in Clients \cup {None} /\ routed \in 0 .. MaxRoutes /\ serverUp \in BOOLEAN
    <3>1. Len(SessionKeys) \in Nat /\ MaxProcess \in Nat /\ MaxRoutes \in Nat
      BY ConnsAssumption
    <3>2. /\ peerCache = {} /\ currentPos = 0 /\ processed = 0 /\ routing = None /\ routed = 0
          /\ serverUp = TRUE
      BY DEF Init
    <3> QED
      BY <3>1, <3>2
  <2> QED
    BY <1>1, <1>2, <1>3, <2>1, <2>2, <2>3 DEF Types
<1>5. ASSUME NEW c \in Conns PROVE Talk(c)
  <2>1. /\ work[Near[c]] = Idle /\ work[Far[c]] = Idle /\ toServer[c] = << >> /\ toClient[c] = << >>
        /\ sessions[Node[c]] # c /\ client[c] \in {"none", "made"} /\ server[c] = "none"
        /\ story[c].claimed = {} /\ story[c].answer = "" /\ c \notin up
    BY <1>1, StrandFacts, ConnsAssumption
  <2>2. ~Busy(c) /\ Turn(c) /\ Quiet(c)
    BY <2>1, NoMessage DEF Busy, Free, Turn, Quiet
  <2>3. Strands(c) /\ Fresh(c) /\ NoHello(c)
    BY <1>1, <2>1, <2>2, Tasks, NoMessage DEF Strands, Fresh, NoHello
  <2>4. Unanswered(c) /\ Unpeered(c) /\ Kept(c)
    BY <2>1, NoMessage DEF Unanswered, Unpeered, Kept, NotRegistered
  <2>5. Idle.op = "idle" /\ Idle.hashes = {}
    BY Tasks
  <2>6. All(toClient[c], Complete(c)) /\ All(toServer[c], Claims(c))
    BY <2>1, NoMessage
  <2>7. Claimed(c)
    BY <2>1, <2>5, <2>6 DEF Claimed
  <2>8. Strikes(c)
    BY <2>1, <2>5 DEF Strikes
  <2> QED
    BY <2>2, <2>3, <2>4, <2>6, <2>7, <2>8 DEF Talk
<1> QED
  BY <1>1, <1>4, <1>5, StrandFacts, Tasks DEF Inv

\* Every step keeps the invariant.
LEMMA StepInv == Inv /\ [Next]_vars => Inv'
<1> SUFFICES ASSUME Inv, [Next]_vars PROVE Inv'
  OBVIOUS
<1>1. ASSUME NEW c \in Conns, ClientStep(c) PROVE Inv'
  BY <1>1, ConnectStep, UnreachableStep, OnHandshakeStep, HelloConsensusResponseStep,
     BuildConsensusStep, SendConsensusStep, SendNothingStep, AcceptedStep, GoAwayStep,
     PeerResponseStep, RegisterResponseStep, ReadOnStep, ClientFailsStep DEF ClientStep
<1>2. ASSUME NEW c \in Conns, ServerStep(c) PROVE Inv'
  BY <1>2, HelloStep, ValidateStep, AnswerStep, PeerStep, RegisterStep, TransactionStep,
     BeforeHelloStep, ServerClosesStep DEF ServerStep
<1>3. CASE UNCHANGED vars
  <2>1. Types' /\ \A t \in Threads : work'[t] = work[t]
    BY <1>3 DEF Inv, Types, ConsensusTypeOK, vars, consensusVars, wireVars, placeVars, cacheVars,
       routeVars, timerVars
  <2>2. ASSUME NEW d \in Conns PROVE Talk(d)'
    <3>1. Kept(d)'
      BY <1>3, KeptOn DEF Inv, Talk, vars, wireVars, placeVars, cacheVars
    <3> QED
      BY <1>3, <3>1, Bystander DEF vars, consensusVars, wireVars, placeVars, cacheVars
  <2> QED
    BY <1>3, <2>1, <2>2 DEF Inv, vars, consensusVars
<1> QED
  BY <1>1, <1>2, <1>3, ProcessStep, RearmStep, ComputeStep, LoseStep, RouteFoundStep, RouteUpStep,
     RouteWriteStep, NobodyStep DEF Next

\* The invariant holds in every state.
LEMMA Invariant == Spec => []Inv
  BY InitInv, StepInv, PTL DEF Spec

\* Types of the sessions' state, and no thread of a session before its connection
\* (RpcServer.cpp, RpcSession.cpp).
THEOREM TypesCorrect == Spec => []TypeOK
<1>1. Inv => TypeOK
  <2> SUFFICES ASSUME Inv PROVE TypeOK
    OBVIOUS
  <2>1. \A c \in Conns : /\ client[c] \in {"none", "made"} => Free(Near[c]) /\ Free(Far[c])
                         /\ work[Far[c]].op \in {"idle", "validate", "validated"}
    BY DEF Inv, Talk, Fresh, Quiet, Busy, Strands
  <2> QED
    BY <2>1 DEF Inv, Types, TypeOK, Place, Channel, Story
<1> QED
  BY <1>1, Invariant, PTL

\* Whoever is registered for call backs has shown hashes of the server's own code,
\* although handleRegister (RpcServer.cpp) does not ask for it; and whoever has the
\* same code is sent away by validateConsensus (ConsensusBuilder.cpp) only when a
\* change of the key overlapped, or before every module of the server had a script.
THEOREM VouchedCorrect == Spec => []Vouched
<1>1. Inv => Vouched
  <2> SUFFICES ASSUME Inv PROVE Vouched
    OBVIOUS
  <2>1. RegisteredVouched
    <3> SUFFICES ASSUME NEW n \in Clients, sessions[n] # None
                 PROVE  /\ story[sessions[n]].answer = "ACCEPTED"
                        /\ story[sessions[n]].claimed \subseteq ServerHash
      BY DEF RegisteredVouched
    <3>1. sessions[n] \in Conns /\ Node[sessions[n]] = n
      BY DEF Inv, Types
    <3>2. Talk(sessions[n]) /\ ~NotRegistered(sessions[n])
      BY <3>1 DEF Inv, NotRegistered
    <3> QED
      BY <3>2 DEF Talk, Unanswered, Claimed
  <2>2. GenuineKept
    BY DEF Inv, Talk, Strikes, Undisturbed, GenuineKept
  <2> QED
    BY <2>1, <2>2 DEF Vouched
<1> QED
  BY <1>1, Invariant, PTL

\* A client is told of at least one peer, and never of itself: handlePeer
\* (RpcServer.cpp) puts the server in before it takes the client's own address out.
THEOREM PeersCorrect == Spec => []PeersComplete
<1>1. Inv => PeersComplete
  BY DEF Inv, Talk, All, Complete, PeersComplete
<1> QED
  BY <1>1, Invariant, PTL

\* Nothing but a transaction comes before the hello.  A registered client is called
\* back on the session it registered or on a later one of its account, unless a
\* session of the account that was still open to the server when it registered has
\* closed: that takes the entry away, and what was closed before takes nothing
\* (on_read, on_outBoundWrite and handleRegister of RpcServer.cpp).
THEOREM ServedCorrect == Spec => []SessionsServed
<1>1. Inv => SessionsServed
  <2> SUFFICES ASSUME Inv PROVE SessionsServed
    OBVIOUS
  <2>1. HelloKnown
    <3> SUFFICES ASSUME NEW c \in Conns, c \notin hello, NEW i \in 1 .. Len(toServer[c])
                 PROVE  toServer[c][i].command \in {"HELLO", "TRANSACTION"}
      BY DEF HelloKnown
    <3>1. toServer[c][i] \in Without(Command \ {"HELLO", "TRANSACTION"})
      BY DEF Inv, Talk, NoHello, Lacks, All
    <3> QED
      BY <3>1 DEF Without, Message
  <2>2. KeptForCallBacks
    <3> SUFFICES ASSUME NEW c \in Conns, serverUp, c \in up, client[c] = "registered"
                 PROVE  sessions[Node[c]] \in {c} \cup story[c].beside \/ TakenBeside(c)
      BY DEF KeptForCallBacks
    <3> QED
      BY DEF Inv, Talk, Kept
  <2> QED
    BY <2>1, <2>2 DEF SessionsServed
<1> QED
  BY <1>1, Invariant, PTL
=============================================================================
