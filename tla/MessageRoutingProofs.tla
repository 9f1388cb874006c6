------------------------ MODULE MessageRoutingProofs ------------------------
(***************************************************************************)
(* What MessageRouting keeps true whatever the tree of servers, their      *)
(* accounts and the messages are, and whoever dies and is started again.   *)
(***************************************************************************)
EXTENDS MessageRouting, SequenceTheorems, TLAPS

----------------------------------------------------------------------------
(* Types.                                                                  *)

\* Only a server that has a default peer registers.
Registers == \A n \in Node : registered[n] # "fresh" => Upstream[n] \in Node

(* The status that updateStateRouteMessage computes is a status. *)
LEMMA NextStatusType == ASSUME NEW s \in Status PROVE NextStatus(s) \in Status
BY DEF Status, NextStatus, incrementStatus

(* The current account of a transaction is an account. *)
LEMMA CurrentAccountType ==
    ASSUME NEW m \in Message, NEW s PROVE CurrentAccount(m, s) \in Account
BY RoutingAssumption DEF CurrentAccount

(* Pushing a tree of accounts leaves a routing table a table. *)
LEMMA PushType ==
    ASSUME NEW n \in Node,
           NEW table \in [Account -> Account \cup {NoAccount, NoRoute}]
    PROVE  PushAccountRouting(n, table) \in [Account -> Account \cup {NoAccount, NoRoute}]
BY RoutingAssumption, ZenonT(30) DEF PushAccountRouting

(* The types hold at first. *)
LEMMA TypeInit == Init => TypeOK
BY RoutingAssumption DEF Init, TypeOK, Step, Operation, Status, Answer, Registration

(* The end of a process leaves the types alone. *)
LEMMA TypeDie ==
    ASSUME TypeOK, NEW n \in Node, Die(n) PROVE TypeOK'
<1>1. step' \in [Message -> Step]
  BY DEF TypeOK, Die, Step
<1>2. queue' \in [Node -> Seq(Entries)] /\ processed' \in [Node -> Seq(Message \X Status)]
  BY DEF TypeOK, Die
<1>3. peers' \in [Node -> SUBSET Node]
  BY DEF TypeOK, Die
<1>4. \A m \in Message : step'[m] \notin {"new", "over"} => step'[m] = step[m]
  BY DEF TypeOK, Die
<1> QED BY <1>1, <1>2, <1>3, <1>4 DEF TypeOK, Die

(* A step of a chain in the router leaves the types alone. *)
LEMMA TypeRoute ==
    ASSUME TypeOK, NEW m \in Message,
           \/ RouteLocal(m) \/ RouteToAccount(m) \/ RouteToRpcClient(m) \/ RouteToRpcPeer(m)
           \/ HandleTransaction(m) \/ UpdateStatus(m)
    PROVE  TypeOK'
<1>1. step[m] \notin {"new", "over"} /\ at[m] \in Node
  BY DEF TypeOK, RouteLocal, RouteToAccount, RouteToRpcClient, RouteToRpcPeer,
         HandleTransaction, UpdateStatus
<1>2. \A text \in Answer : Answered(m, text) \in Answer
  BY DEF TypeOK, Answered, Answer
<1>3. ASSUME NEW text \in Answer, ToBalancer(m, text), UNCHANGED <<queueVars, peerVars>>
      PROVE  TypeOK'
  <2>1. at[m] \in Account BY <1>1, RoutingAssumption
  <2> QED BY <1>1, <1>2, <1>3, <2>1 DEF TypeOK, ToBalancer, Step, Operation, queueVars, peerVars
<1>4. ASSUME NEW text \in Answer, Return(m, text),
             UNCHANGED <<at, account, operation, status, results, answer, queueVars, peerVars>>
      PROVE  TypeOK'
  BY <1>1, <1>2, <1>4 DEF TypeOK, Return, Reply, Step, queueVars, peerVars
<1>5. CASE RouteLocal(m)
  BY <1>3, <1>4, <1>5 DEF RouteLocal, NothingToDo, Answer
<1>6. CASE RouteToAccount(m)
  BY <1>3, <1>4, <1>6 DEF RouteToAccount, NothingToDo, Answer
<1>7. CASE RouteToRpcClient(m)
  BY <1>4, <1>7 DEF RouteToRpcClient, Answer
<1>8. CASE RouteToRpcPeer(m)
  <2>1. Upstream[at[m]] # NoNode => Upstream[at[m]] \in Node
    BY <1>1, RoutingAssumption
  <2>2. Answered(m, "to peer") \in Answer BY <1>2 DEF Answer
  <2> QED BY <1>1, <1>8, <2>1, <2>2 DEF TypeOK, RouteToRpcPeer, Reply, Step, queueVars, peerVars
<1>9. CASE HandleTransaction(m)
  BY <1>1, <1>9 DEF TypeOK, HandleTransaction, Step, queueVars, peerVars
<1>10. CASE UpdateStatus(m)
  <2>1. NextStatus(status[m]) \in Status BY NextStatusType DEF TypeOK
  <2>2. CurrentAccount(m, NextStatus(status[m])) \in Account BY CurrentAccountType
  <2> QED BY <1>1, <1>10, <2>1, <2>2 DEF TypeOK, UpdateStatus, Step, Operation, queueVars, peerVars
<1> QED BY <1>5, <1>6, <1>7, <1>8, <1>9, <1>10

(* A step of a chain in the balancer or the block service does. *)
LEMMA TypeBlock ==
    ASSUME TypeOK, NEW m \in Message,
           \/ BalanceMessage(m) \/ BalanceNowhere(m)
           \/ BlockMessage(m) \/ ProcessTransaction(m) \/ AddTransaction(m) \/ ProducerTerminated(m)
    PROVE  TypeOK'
<1>1. step[m] \notin {"new", "over"} /\ at[m] \in Node /\ at[m] \in Account
  BY RoutingAssumption
  DEF TypeOK, BalanceMessage, BalanceNowhere, BlockMessage, ProcessTransaction, AddTransaction,
      ProducerTerminated
<1>2. CASE BalanceMessage(m)
  BY <1>1, <1>2 DEF TypeOK, BalanceMessage, Step, Operation, queueVars, peerVars
<1>3. CASE BalanceNowhere(m)
  BY <1>1, <1>3, TypeDie DEF BalanceNowhere
<1>4. CASE BlockMessage(m)
  BY <1>1, <1>4 DEF TypeOK, BlockMessage, Step, queueVars, peerVars
<1>5. ASSUME Throw(m), UNCHANGED <<queueVars, peerVars>> PROVE TypeOK'
  BY <1>1, <1>5 DEF TypeOK, Throw, Reply, Step, queueVars, peerVars
<1>6. CASE ProcessTransaction(m)
  <2>1. <<m, status[m]>> \in Message \X Status BY DEF TypeOK
  <2>2. Append(processed[at[m]], <<m, status[m]>>) \in Seq(Message \X Status)
    BY <1>1, <2>1 DEF TypeOK
  <2>3. CASE Throw(m) /\ UNCHANGED processed
    BY <1>5, <1>6, <2>3 DEF ProcessTransaction, queueVars
  <2>4. CASE /\ step' = [step EXCEPT ![m] = "processed"]
             /\ processed' = [processed EXCEPT ![at[m]] = Append(@, <<m, status[m]>>)]
             /\ UNCHANGED <<at, account, operation, status, results, answer, reply>>
    BY <1>1, <1>6, <2>2, <2>4 DEF TypeOK, ProcessTransaction, Step, peerVars
  <2> QED BY <1>6, <2>3, <2>4 DEF ProcessTransaction
<1>7. CASE AddTransaction(m)
  <2> DEFINE e == [message |-> m, status |-> status[m], results |-> results[m] \cup {status[m]}]
  <2>1. e \in Entries BY DEF TypeOK, Entries
  <2>2. Append(queue[at[m]], e) \in Seq(Entries) BY <1>1, <2>1 DEF TypeOK
  <2>3. Append(phases[m], status[m]) \in Seq(Status) BY DEF TypeOK
  <2> HIDE DEF e
  <2>4. queue' = [queue EXCEPT ![at[m]] = Append(@, e)] BY <1>7 DEF AddTransaction, e
  <2> QED BY <1>1, <1>7, <2>2, <2>3, <2>4 DEF TypeOK, AddTransaction, Step, peerVars
<1>8. CASE ProducerTerminated(m)
  BY <1>5, <1>8 DEF ProducerTerminated
<1> QED BY <1>2, <1>3, <1>4, <1>6, <1>7, <1>8

(* A step of a registration does. *)
LEMMA TypeRegister ==
    ASSUME TypeOK, Registers, NEW n \in Node,
           RegisterRpcPeer(n) \/ CommitRegistration(n) \/ RegisterResponse(n) \/ Crash(n)
    PROVE  TypeOK'
<1>1. CASE RegisterRpcPeer(n)
  <2>1. Upstream[n] \in Node BY <1>1, RoutingAssumption DEF RegisterRpcPeer
  <2>2. peers[Upstream[n]] \cup {n} \in SUBSET Node BY <2>1 DEF TypeOK
  <2> QED BY <1>1, <2>1, <2>2
      DEF TypeOK, RegisterRpcPeer, Registration, chainVars, queueVars
<1>2. CASE CommitRegistration(n)
  <2>1. PICK up : up = Upstream[n] OBVIOUS
  <2>2. CASE up \in Node
    <3>1. PushAccountRouting(n, routes[up]) \in [Account -> Account \cup {NoAccount, NoRoute}]
      BY <2>2, PushType DEF TypeOK
    <3> QED BY <1>2, <2>1, <2>2, <3>1
        DEF TypeOK, CommitRegistration, Registration, chainVars, queueVars
  <2>3. CASE up \notin Node
    BY <1>2, <2>1, <2>3 DEF TypeOK, CommitRegistration, Registration, chainVars, queueVars
  <2> QED BY <2>2, <2>3
<1>3. CASE RegisterResponse(n)
  <2>1. Upstream[n] \in Node BY <1>3 DEF Registers, RegisterResponse
  <2>2. peers[n] \cup {Upstream[n]} \in SUBSET Node BY <2>1 DEF TypeOK
  <2> QED BY <1>3, <2>2
      DEF TypeOK, RegisterResponse, Registration, chainVars, queueVars
<1>4. CASE Crash(n)
  BY <1>4, TypeDie DEF Crash
<1> QED BY <1>1, <1>2, <1>3, <1>4

(* Everything else a step may be. *)
LEMMA TypeStep == TypeOK /\ Registers /\ [Next]_vars => TypeOK' /\ Registers'
<1> SUFFICES ASSUME TypeOK, Registers, [Next]_vars PROVE TypeOK' /\ Registers'
  OBVIOUS
<1>1. ASSUME NEW m \in Message, NEW n \in Node, Send(m, n) PROVE TypeOK'
  BY <1>1 DEF TypeOK, Send, Step, queueVars, peerVars
<1>2. ASSUME NEW m \in Message, Chain(m) PROVE TypeOK'
  BY <1>2, TypeRoute, TypeBlock DEF Chain
<1>3. ASSUME UNCHANGED vars PROVE TypeOK'
  BY <1>3 DEF vars, chainVars, queueVars, peerVars, TypeOK
<1>4. TypeOK'
  BY <1>1, <1>2, <1>3, TypeRegister DEF Next
<1>5. ASSUME NEW n \in Node, Die(n) PROVE Registers'
  <2>1. \A c \in Node : Upstream[c] = n \/ registered'[c] = "fresh" \/ registered[c] # "fresh"
    BY <1>5 DEF Die, AfterDeath
  <2> QED BY <2>1 DEF Registers
<1>6. ASSUME NEW m \in Message, BalanceNowhere(m) PROVE Registers'
  BY <1>5, <1>6 DEF BalanceNowhere, TypeOK
<1>7. ASSUME UNCHANGED registered PROVE Registers'
  BY <1>7 DEF Registers
<1>8. ASSUME NEW m \in Message, Chain(m), ~BalanceNowhere(m) PROVE UNCHANGED registered
  BY <1>8
  DEF Chain, RouteLocal, RouteToAccount, RouteToRpcClient, RouteToRpcPeer, HandleTransaction,
      UpdateStatus, BalanceMessage, BlockMessage, ProcessTransaction, AddTransaction,
      ProducerTerminated, peerVars
<1>9. ASSUME NEW m \in Message, NEW n \in Node, Send(m, n) PROVE UNCHANGED registered
  BY <1>9 DEF Send, peerVars
<1>10. ASSUME NEW n \in Node, RegisterRpcPeer(n) PROVE Registers'
  BY <1>10, RoutingAssumption DEF RegisterRpcPeer, Registers, TypeOK
<1>11. ASSUME NEW n \in Node, CommitRegistration(n) \/ RegisterResponse(n) PROVE Registers'
  BY <1>11 DEF CommitRegistration, RegisterResponse, Registers, TypeOK
<1>12. ASSUME NEW n \in Node, Crash(n) PROVE Registers'
  BY <1>5, <1>12 DEF Crash
<1>13. ASSUME UNCHANGED vars PROVE Registers'
  BY <1>7, <1>13 DEF vars, peerVars
<1>14. Registers'
  BY <1>6, <1>7, <1>8, <1>9, <1>10, <1>11, <1>12, <1>13 DEF Next
<1> QED BY <1>4, <1>14

(* Types are correct and only servers with a default peer register. *)
THEOREM TypeCorrect == Spec => [](TypeOK /\ Registers)
<1>1. Init => Registers
  BY DEF Init, Registers
<1> QED BY <1>1, TypeInit, TypeStep, PTL DEF Spec

----------------------------------------------------------------------------
(* The life of a message: what was queued follows from its step and status. *)

\* The phases queued before a message has this status.
Due(s) ==
    CASE s = "init" -> << >>
      [] s = "credit" -> <<"init">>
      [] OTHER -> <<"init", "credit">>

LifeAt(m) ==
    /\ step[m] \notin {"update", "over"} =>
           status[m] \in {"init", "credit", "complete"} /\ phases[m] = Due(status[m])
    /\ step[m] \in {"balance", "block", "locked", "processed", "update"} =>
           status[m] \in {"init", "credit"}
    /\ step[m] = "update" => phases[m] = Append(Due(status[m]), status[m])
    /\ step[m] \in {"new", "route", "wire"} => operation[m] = "INIT"
    /\ step[m] \in {"new", "route", "wire", "update"} /\ answer[m] \in {"local", "found"}
           => phases[m] # << >>
    /\ reply[m] \in {"local", "found"} => phases[m] # << >>
    /\ step[m] = "new" => answer[m] = "none"

Lives == \A m \in Message : LifeAt(m)

(* A second element makes a pair. *)
LEMMA AppendToOne ==
    ASSUME NEW S, NEW a \in S, NEW b \in S PROVE Append(<<a>>, b) = <<a, b>>
<1>1. <<a>> \in Seq(S) OBVIOUS
<1>2. PICK t : t = Append(<<a>>, b) OBVIOUS
<1>3. t \in Seq(S) /\ Len(t) = 2 /\ t[1] = a /\ t[2] = b
  BY <1>1, <1>2, AppendProperties
<1>4. PICK u : u = <<a, b>> OBVIOUS
<1>5. u \in Seq(S) /\ Len(u) = 2 /\ u[1] = a /\ u[2] = b BY <1>4
<1>6. \A i \in 1 .. Len(t) : t[i] = u[i] BY <1>3, <1>5
<1> QED BY <1>2, <1>3, <1>4, <1>5, <1>6, SeqEqual

(* What is due after a phase is what was due before it, and the phase. *)
LEMMA DueNext ==
    /\ Append(Due("init"), "init") = <<"init">>
    /\ Append(Due("credit"), "credit") = <<"init", "credit">>
    /\ Due("init") = << >> /\ Due("credit") = <<"init">>
    /\ Due("complete") = <<"init", "credit">>
    /\ NextStatus("init") = "credit" /\ NextStatus("credit") = "complete"
<1>1. Due("init") = << >> /\ Due("credit") = <<"init">> /\ Due("complete") = <<"init", "credit">>
  BY DEF Due
<1>2. NextStatus("init") = "credit" /\ NextStatus("credit") = "complete"
  BY DEF NextStatus, incrementStatus
<1>3. "init" \in Status /\ "credit" \in Status
  BY DEF Status
<1>4. Append(<<"init">>, "credit") = <<"init", "credit">>
  BY <1>3, AppendToOne
<1>5. Append(<< >>, "init") = <<"init">>
  OBVIOUS
<1> QED BY <1>1, <1>2, <1>4, <1>5

\* A step that does not concern a message.
Same(m) ==
    /\ step'[m] = step[m] /\ operation'[m] = operation[m] /\ status'[m] = status[m]
    /\ phases'[m] = phases[m] /\ answer'[m] = answer[m] /\ reply'[m] = reply[m]

(* It leaves the message's life as it is. *)
LEMMA SameLife == ASSUME NEW m, LifeAt(m), Same(m) PROVE LifeAt(m)'
BY DEF LifeAt, Same

(* A message that ends keeps its life when no answer is given. *)
LEMMA EndedLife ==
    ASSUME NEW m, LifeAt(m), step'[m] = "over", reply'[m] = reply[m], phases'[m] = phases[m]
    PROVE  LifeAt(m)'
BY DEF LifeAt

(* At first nothing is queued. *)
LEMMA LifeInit == Init => Lives
BY DEF Init, Lives, LifeAt, Due

(* A step of one chain concerns one message. *)
LEMMA ChainAlone ==
    ASSUME TypeOK, NEW m \in Message, NEW k \in Message, k # m,
           Chain(m), ~BalanceNowhere(m)
    PROVE  Same(k)
<1>1. ASSUME NEW text, Reply(m, text) PROVE reply'[k] = reply[k]
  BY <1>1 DEF Reply, TypeOK
<1>2. CASE RouteLocal(m)
  BY <1>1, <1>2 DEF RouteLocal, ToBalancer, NothingToDo, Return, Same, TypeOK, queueVars
<1>3. CASE RouteToAccount(m)
  BY <1>1, <1>3 DEF RouteToAccount, ToBalancer, NothingToDo, Return, Same, TypeOK, queueVars
<1>4. CASE RouteToRpcClient(m)
  BY <1>1, <1>4 DEF RouteToRpcClient, Return, Same, TypeOK, queueVars
<1>5. CASE RouteToRpcPeer(m)
  BY <1>1, <1>5 DEF RouteToRpcPeer, Same, TypeOK, queueVars
<1>6. CASE HandleTransaction(m) \/ UpdateStatus(m) \/ BalanceMessage(m) \/ BlockMessage(m)
  BY <1>6 DEF HandleTransaction, UpdateStatus, BalanceMessage, BlockMessage, Same, TypeOK, queueVars
<1>7. CASE ProcessTransaction(m)
  BY <1>1, <1>7 DEF ProcessTransaction, Throw, Same, TypeOK
<1>8. CASE AddTransaction(m)
  BY <1>8 DEF AddTransaction, Same, TypeOK
<1>9. CASE ProducerTerminated(m)
  BY <1>1, <1>9 DEF ProducerTerminated, Throw, Same, TypeOK, queueVars
<1> QED BY <1>2, <1>3, <1>4, <1>5, <1>6, <1>7, <1>8, <1>9 DEF Chain

(* A step of the router keeps the life of its message. *)
LEMMA LifeRoute ==
    ASSUME TypeOK, NEW m \in Message, LifeAt(m),
           \/ RouteLocal(m) \/ RouteToAccount(m) \/ RouteToRpcClient(m) \/ RouteToRpcPeer(m)
           \/ HandleTransaction(m) \/ UpdateStatus(m)
    PROVE  LifeAt(m)'
<1>1. CASE RouteLocal(m)
  <2>1. step[m] = "route" /\ operation[m] = "INIT" BY <1>1 DEF LifeAt, RouteLocal
  <2>2. CASE LocalBalances(m)
    BY <1>1, <2>1, <2>2 DEF RouteLocal, LocalBalances, ToBalancer, LifeAt, TypeOK, queueVars
  <2>3. CASE ~LocalBalances(m)
    <3>1. phases[m] # << >> BY <2>1, <2>3 DEF LifeAt, LocalBalances, Due
    <3> QED BY <1>1, <2>1, <2>3, <3>1
        DEF RouteLocal, NothingToDo, Return, Reply, LifeAt, TypeOK, queueVars
  <2> QED BY <2>2, <2>3
<1>2. CASE RouteToAccount(m)
  <2>1. step[m] = "route" /\ operation[m] = "INIT" BY <1>2 DEF LifeAt, RouteToAccount
  <2>2. CASE FoundBalances(m)
    BY <1>2, <2>1, <2>2 DEF RouteToAccount, FoundBalances, ToBalancer, LifeAt, TypeOK, queueVars
  <2>3. CASE ~FoundBalances(m)
    <3>1. phases[m] # << >> BY <2>1, <2>3 DEF LifeAt, FoundBalances, Due
    <3> QED BY <1>2, <2>1, <2>3, <3>1
        DEF RouteToAccount, NothingToDo, Return, Reply, LifeAt, TypeOK, queueVars
  <2> QED BY <2>2, <2>3
<1>3. CASE RouteToRpcClient(m)
  BY <1>3 DEF RouteToRpcClient, Return, Reply, Answered, LifeAt, TypeOK, queueVars
<1>4. CASE RouteToRpcPeer(m)
  BY <1>4 DEF RouteToRpcPeer, Reply, Answered, LifeAt, TypeOK, queueVars
<1>5. CASE HandleTransaction(m)
  BY <1>5 DEF HandleTransaction, LifeAt, TypeOK, queueVars
<1>6. CASE UpdateStatus(m)
  <2>1. PICK s : s = status[m] OBVIOUS
  <2>2. s \in {"init", "credit"} /\ phases[m] = Append(Due(s), s)
    BY <1>6, <2>1 DEF UpdateStatus, LifeAt
  <2>3. NextStatus(s) \in {"credit", "complete"} /\ Append(Due(s), s) = Due(NextStatus(s))
    BY <2>2, DueNext
  <2>4. Append(Due(s), s) # << >>
    BY <2>2, DueNext
  <2> QED BY <1>6, <2>1, <2>2, <2>3, <2>4 DEF UpdateStatus, LifeAt, TypeOK, queueVars
<1> QED BY <1>1, <1>2, <1>3, <1>4, <1>5, <1>6

(* A step of the balancer or the block service does, up to the end of the process. *)
LEMMA LifeBlock ==
    ASSUME TypeOK, NEW m \in Message, LifeAt(m),
           \/ BalanceMessage(m) \/ BlockMessage(m) \/ ProcessTransaction(m)
           \/ AddTransaction(m) \/ ProducerTerminated(m)
    PROVE  LifeAt(m)'
<1>1. CASE BalanceMessage(m) \/ BlockMessage(m)
  BY <1>1 DEF BalanceMessage, BlockMessage, LifeAt, TypeOK, queueVars
<1>2. ASSUME Throw(m), UNCHANGED phases PROVE LifeAt(m)'
  BY <1>2 DEF Throw, Reply, LifeAt, TypeOK
<1>3. CASE ProcessTransaction(m)
  <2>1. CASE Throw(m)
    BY <1>2, <1>3, <2>1 DEF ProcessTransaction
  <2>2. CASE ~Throw(m)
    BY <1>3, <2>2 DEF ProcessTransaction, LifeAt, TypeOK
  <2> QED BY <2>1, <2>2
<1>4. CASE AddTransaction(m)
  <2>1. PICK s : s = status[m] OBVIOUS
  <2>2. s \in {"init", "credit"} /\ phases[m] = Due(s)
    BY <1>4, <2>1 DEF AddTransaction, LifeAt
  <2>3. phases'[m] = Append(Due(s), s) BY <1>4, <2>1, <2>2 DEF AddTransaction, TypeOK
  <2>4. Append(Due(s), s) # << >> BY <2>2, DueNext
  <2>5. step'[m] = "update" /\ status'[m] = s BY <1>4, <2>1 DEF AddTransaction, TypeOK
  <2> QED BY <2>2, <2>3, <2>4, <2>5 DEF LifeAt
<1>5. CASE ProducerTerminated(m)
  BY <1>2, <1>5 DEF ProducerTerminated, queueVars
<1> QED BY <1>1, <1>3, <1>4, <1>5

(* The end of a process does. *)
LEMMA LifeDie ==
    ASSUME TypeOK, Lives, NEW n \in Node, Die(n) PROVE Lives'
<1> SUFFICES ASSUME NEW m \in Message PROVE LifeAt(m)'
  BY DEF Lives
<1>1. LifeAt(m) BY DEF Lives
<1>2. phases'[m] = phases[m] /\ reply'[m] = reply[m]
  BY DEF Die
<1>3. CASE at[m] = n
  BY <1>1, <1>2, <1>3, EndedLife DEF Die
<1>4. CASE at[m] # n
  <2>1. Same(m) BY <1>2, <1>4 DEF Die, Same
  <2> QED BY <1>1, <2>1, SameLife
<1> QED BY <1>3, <1>4

(* Every step does. *)
LEMMA LifeStep == TypeOK /\ Lives /\ [Next]_vars => Lives'
<1> SUFFICES ASSUME TypeOK, Lives, [Next]_vars PROVE Lives'
  OBVIOUS
<1>1. ASSUME NEW m \in Message, NEW n \in Node, Send(m, n) PROVE Lives'
  <2> SUFFICES ASSUME NEW k \in Message PROVE LifeAt(k)'
    BY DEF Lives
  <2>1. LifeAt(k) BY DEF Lives
  <2>2. CASE k = m
    BY <1>1, <2>1, <2>2 DEF Send, LifeAt, TypeOK, queueVars
  <2>3. CASE k # m
    <3>1. Same(k) BY <1>1, <2>3 DEF Send, Same, TypeOK, queueVars
    <3> QED BY <2>1, <3>1, SameLife
  <2> QED BY <2>2, <2>3
<1>2. ASSUME NEW m \in Message, Chain(m), ~BalanceNowhere(m) PROVE Lives'
  <2> SUFFICES ASSUME NEW k \in Message PROVE LifeAt(k)'
    BY DEF Lives
  <2>1. LifeAt(k) BY DEF Lives
  <2>2. CASE k = m
    BY <1>2, <2>1, <2>2, LifeRoute, LifeBlock DEF Chain
  <2>3. CASE k # m
    BY <1>2, <2>1, <2>3, ChainAlone, SameLife
  <2> QED BY <2>2, <2>3
<1>3. ASSUME NEW m \in Message, BalanceNowhere(m) PROVE Lives'
  BY <1>3, LifeDie DEF BalanceNowhere, TypeOK
<1>4. ASSUME NEW n \in Node, Crash(n) PROVE Lives'
  BY <1>4, LifeDie DEF Crash
<1>5. ASSUME UNCHANGED <<chainVars, reply, queueVars>> PROVE Lives'
  <2>1. \A k \in Message : Same(k) BY <1>5 DEF Same, chainVars, queueVars
  <2> QED BY <2>1, SameLife DEF Lives
<1>6. ASSUME NEW n \in Node, RegisterRpcPeer(n) \/ CommitRegistration(n) \/ RegisterResponse(n)
      PROVE  Lives'
  BY <1>5, <1>6 DEF RegisterRpcPeer, CommitRegistration, RegisterResponse
<1>7. ASSUME UNCHANGED vars PROVE Lives'
  BY <1>5, <1>7 DEF vars
<1> QED BY <1>1, <1>2, <1>3, <1>4, <1>6, <1>7 DEF Next

(* The answers the first server gives are true: RepliesHonest. *)
THEOREM RepliesCorrect == Spec => [](Lives /\ RepliesHonest)
<1>1. Lives => RepliesHonest
  BY DEF Lives, LifeAt, RepliesHonest
<1> QED BY <1>1, TypeCorrect, LifeInit, LifeStep, PTL DEF Spec

----------------------------------------------------------------------------
(* The path of a message implements the life of a transaction.             *)

(* A phase is queued by AddTransaction alone, in its turn. *)
LEMMA LifeImplements == TypeOK /\ Lives /\ [Next]_vars => [Life!Next]_phases
<1> SUFFICES ASSUME TypeOK, Lives, [Next]_vars PROVE [Life!Next]_phases
  OBVIOUS
<1>1. ASSUME NEW m \in Message, AddTransaction(m) PROVE Life!Next
  <2>1. LifeAt(m) BY DEF Lives
  <2>2. PICK s : s = status[m] OBVIOUS
  <2>3. s \in {"init", "credit"} /\ phases[m] = Due(s)
    BY <1>1, <2>1, <2>2 DEF AddTransaction, LifeAt
  <2>4. phases' = [phases EXCEPT ![m] = Append(phases[m], s)]
    BY <1>1, <2>2 DEF AddTransaction
  <2>5. CASE s = "init"
    <3>1. phases[m] = << >> /\ phases' = [phases EXCEPT ![m] = <<"init">>]
      BY <2>3, <2>4, <2>5, DueNext
    <3>2. Life!Debit(m) BY <3>1 DEF Life!Debit
    <3> QED BY <3>2 DEF Life!Next
  <2>6. CASE s = "credit"
    <3>1. phases[m] = <<"init">> /\ phases' = [phases EXCEPT ![m] = <<"init", "credit">>]
      BY <2>3, <2>4, <2>6, DueNext
    <3>2. Life!Credit(m) BY <3>1 DEF Life!Credit
    <3> QED BY <3>2 DEF Life!Next
  <2> QED BY <2>3, <2>5, <2>6
<1>2. ASSUME NEW m \in Message, Chain(m), ~AddTransaction(m) PROVE UNCHANGED phases
  BY <1>2
  DEF Chain, RouteLocal, RouteToAccount, RouteToRpcClient, RouteToRpcPeer, HandleTransaction,
      UpdateStatus, BalanceMessage, BalanceNowhere, Die, BlockMessage, ProcessTransaction,
      ProducerTerminated, queueVars
<1>3. ASSUME NEW m \in Message, NEW n \in Node, Send(m, n) PROVE UNCHANGED phases
  BY <1>3 DEF Send, queueVars
<1>4. ASSUME NEW n \in Node,
             RegisterRpcPeer(n) \/ CommitRegistration(n) \/ RegisterResponse(n) \/ Crash(n)
      PROVE  UNCHANGED phases
  BY <1>4 DEF RegisterRpcPeer, CommitRegistration, RegisterResponse, Crash, Die, queueVars
<1>5. ASSUME UNCHANGED vars PROVE UNCHANGED phases
  BY <1>5 DEF vars, queueVars
<1> QED BY <1>1, <1>2, <1>3, <1>4, <1>5 DEF Next

(* Each phase is queued once, the debit first: ImplementsLife. *)
THEOREM LifeCorrect == Spec => ImplementsLife
<1>1. Init => Life!Init
  BY DEF Init, Life!Init
<1> QED BY <1>1, TypeCorrect, RepliesCorrect, LifeImplements, PTL DEF Spec, ImplementsLife, Life!Spec

----------------------------------------------------------------------------
(* The queue of a server is in the order its contracts ran, account by     *)
(* account.  A message that has run but is not queued yet ran after every  *)
(* queued one of its account, and holds the account's lock.                *)

Run(e) == <<e.message, e.status>>
AccountOf(e) == CurrentAccount(e.message, e.status)

\* Of a queue q and the runs p on its server.
AllRan(q, p) == \A i \in DOMAIN q : \E k \in DOMAIN p : p[k] = Run(q[i])
Ordered(q, p) ==
    \A i, j \in DOMAIN q :
        i < j /\ AccountOf(q[i]) = AccountOf(q[j])
        => \E k, l \in DOMAIN p : k < l /\ p[k] = Run(q[i]) /\ p[l] = Run(q[j])
\* The run r is later than those of all that are queued for the account a.
RanLast(q, p, r, a) ==
    \E l \in DOMAIN p :
        /\ p[l] = r
        /\ \A i \in DOMAIN q :
              AccountOf(q[i]) = a => \E k \in DOMAIN p : k < l /\ p[k] = Run(q[i])

(* Another run changes nothing of the order, and is the last. *)
LEMMA RunMore ==
    ASSUME NEW q, NEW R, NEW p \in Seq(R), NEW r \in R, NEW P, P = Append(p, r)
    PROVE  /\ AllRan(q, p) => AllRan(q, P)
           /\ Ordered(q, p) => Ordered(q, P)
           /\ \A x, a : RanLast(q, p, x, a) => RanLast(q, P, x, a)
           /\ \A a : AllRan(q, p) => RanLast(q, P, r, a)
<1>1. /\ DOMAIN P = 1 .. Len(p) + 1 /\ DOMAIN p = 1 .. Len(p) /\ Len(p) \in Nat
      /\ \A i \in DOMAIN p : P[i] = p[i]
      /\ P[Len(p) + 1] = r
  BY AppendProperties
<1>2. DOMAIN p \subseteq DOMAIN P
  BY <1>1
<1>3. AllRan(q, p) => AllRan(q, P)
  BY <1>1, <1>2 DEF AllRan
<1>4. Ordered(q, p) => Ordered(q, P)
  <2> SUFFICES ASSUME Ordered(q, p), NEW i \in DOMAIN q, NEW j \in DOMAIN q,
                      i < j, AccountOf(q[i]) = AccountOf(q[j])
               PROVE  \E k, l \in DOMAIN P : k < l /\ P[k] = Run(q[i]) /\ P[l] = Run(q[j])
    BY DEF Ordered
  <2>1. PICK k \in DOMAIN p, l \in DOMAIN p : k < l /\ p[k] = Run(q[i]) /\ p[l] = Run(q[j])
    BY DEF Ordered
  <2> QED BY <1>1, <1>2, <2>1
<1>5. ASSUME NEW x, NEW a, RanLast(q, p, x, a) PROVE RanLast(q, P, x, a)
  <2>1. PICK l \in DOMAIN p :
          /\ p[l] = x
          /\ \A i \in DOMAIN q :
                AccountOf(q[i]) = a => \E k \in DOMAIN p : k < l /\ p[k] = Run(q[i])
    BY <1>5 DEF RanLast
  <2>2. l \in DOMAIN P /\ P[l] = x
    BY <1>1, <1>2, <2>1
  <2>3. ASSUME NEW i \in DOMAIN q, AccountOf(q[i]) = a
        PROVE  \E k \in DOMAIN P : k < l /\ P[k] = Run(q[i])
    <3>1. PICK k \in DOMAIN p : k < l /\ p[k] = Run(q[i]) BY <2>1, <2>3
    <3> QED BY <1>1, <1>2, <3>1
  <2> QED BY <2>2, <2>3 DEF RanLast
<1>6. ASSUME NEW a, AllRan(q, p) PROVE RanLast(q, P, r, a)
  <2>1. Len(p) + 1 \in DOMAIN P /\ P[Len(p) + 1] = r
    BY <1>1
  <2>2. ASSUME NEW i \in DOMAIN q
        PROVE  \E k \in DOMAIN P : k < Len(p) + 1 /\ P[k] = Run(q[i])
    <3>1. PICK k \in DOMAIN p : p[k] = Run(q[i]) BY <1>6 DEF AllRan
    <3>2. k \in DOMAIN P /\ k < Len(p) + 1 /\ P[k] = p[k] BY <1>1, <3>1
    <3> QED BY <3>1, <3>2
  <2> QED BY <2>1, <2>2 DEF RanLast
<1> QED BY <1>3, <1>4, <1>5, <1>6

(* An entry that ran last of its account may be queued last. *)
LEMMA QueueMore ==
    ASSUME NEW q \in Seq(Entries), NEW p \in Seq(Message \X Status), NEW e \in Entries,
           NEW Q, Q = Append(q, e), AllRan(q, p), Ordered(q, p), RanLast(q, p, Run(e), AccountOf(e))
    PROVE  /\ AllRan(Q, p)
           /\ Ordered(Q, p)
           /\ \A x, a : RanLast(q, p, x, a) /\ a # AccountOf(e) => RanLast(Q, p, x, a)
<1>1. /\ DOMAIN Q = 1 .. Len(q) + 1 /\ DOMAIN q = 1 .. Len(q) /\ Len(q) \in Nat
      /\ \A i \in DOMAIN q : Q[i] = q[i]
      /\ Q[Len(q) + 1] = e
  BY AppendProperties
<1>2. \A i \in DOMAIN Q : i \in DOMAIN q \/ i = Len(q) + 1
  BY <1>1
<1>3. PICK l \in DOMAIN p :
          /\ p[l] = Run(e)
          /\ \A i \in DOMAIN q :
                AccountOf(q[i]) = AccountOf(e) => \E k \in DOMAIN p : k < l /\ p[k] = Run(q[i])
  BY DEF RanLast
<1>4. AllRan(Q, p)
  BY <1>1, <1>2, <1>3 DEF AllRan
<1>5. Ordered(Q, p)
  <2> SUFFICES ASSUME NEW i \in DOMAIN Q, NEW j \in DOMAIN Q,
                      i < j, AccountOf(Q[i]) = AccountOf(Q[j])
               PROVE  \E k, h \in DOMAIN p : k < h /\ p[k] = Run(Q[i]) /\ p[h] = Run(Q[j])
    BY DEF Ordered
  <2>1. i \in DOMAIN q BY <1>1
  <2>2. CASE j \in DOMAIN q
    BY <1>1, <2>1, <2>2 DEF Ordered
  <2>3. CASE j = Len(q) + 1
    <3>1. Q[j] = e /\ Q[i] = q[i] BY <1>1, <2>1, <2>3
    <3>2. PICK k \in DOMAIN p : k < l /\ p[k] = Run(q[i]) BY <1>3, <2>1, <3>1
    <3> QED BY <1>3, <3>1, <3>2
  <2> QED BY <1>2, <2>2, <2>3
<1>6. ASSUME NEW x, NEW a, RanLast(q, p, x, a), a # AccountOf(e) PROVE RanLast(Q, p, x, a)
  <2>1. PICK h \in DOMAIN p :
          /\ p[h] = x
          /\ \A i \in DOMAIN q :
                AccountOf(q[i]) = a => \E k \in DOMAIN p : k < h /\ p[k] = Run(q[i])
    BY <1>6 DEF RanLast
  <2>2. ASSUME NEW i \in DOMAIN Q, AccountOf(Q[i]) = a
        PROVE  \E k \in DOMAIN p : k < h /\ p[k] = Run(Q[i])
    <3>1. i \in DOMAIN q BY <1>1, <1>2, <1>6, <2>2
    <3>2. Q[i] = q[i] BY <1>1, <3>1
    <3> QED BY <2>1, <2>2, <3>1, <3>2
  <2> QED BY <2>1, <2>2 DEF RanLast
<1> QED BY <1>4, <1>5, <1>6

\* Two messages that hold locks of one server hold different ones.
LocksApart ==
    \A m, k \in Message :
        m # k /\ Holds(m) /\ Holds(k) /\ at[m] = at[k] => ActiveAccount(m) # ActiveAccount(k)
QueuedRan == \A n \in Node : AllRan(queue[n], processed[n])
QueueOrdered == \A n \in Node : Ordered(queue[n], processed[n])
WaitingRanLast ==
    \A m \in Message :
        step[m] = "processed"
        => RanLast(queue[at[m]], processed[at[m]], <<m, status[m]>>, ActiveAccount(m))
OrderInv == LocksApart /\ QueuedRan /\ QueueOrdered /\ WaitingRanLast

(* At first nothing ran and nobody waits. *)
LEMMA OrderInit == Init => OrderInv
BY DEF Init, OrderInv, LocksApart, QueuedRan, QueueOrdered, WaitingRanLast, Holds, AllRan, Ordered

(* A step in which nobody takes a lock, runs or queues keeps the order. *)
LEMMA OrderKept ==
    ASSUME OrderInv, UNCHANGED <<queue, processed>>,
           \A m \in Message : step'[m] \in {"locked", "processed"} =>
               step'[m] = step[m] /\ at'[m] = at[m] /\ status'[m] = status[m]
    PROVE  OrderInv'
<1>1. \A m \in Message : Holds(m)' => /\ Holds(m) /\ at'[m] = at[m]
                                     /\ ActiveAccount(m)' = ActiveAccount(m)
  BY DEF Holds, ActiveAccount, CurrentAccount
<1>2. LocksApart'
  BY <1>1 DEF OrderInv, LocksApart
<1>3. QueuedRan' /\ QueueOrdered'
  BY DEF OrderInv, QueuedRan, QueueOrdered
<1>4. WaitingRanLast'
  <2> SUFFICES ASSUME NEW m \in Message, step'[m] = "processed"
               PROVE  RanLast(queue[at[m]], processed[at[m]], <<m, status[m]>>, ActiveAccount(m))'
    BY DEF WaitingRanLast
  <2>1. step[m] = "processed" /\ at'[m] = at[m] /\ status'[m] = status[m] OBVIOUS
  <2>2. ActiveAccount(m)' = ActiveAccount(m) BY <2>1 DEF ActiveAccount, CurrentAccount
  <2>3. RanLast(queue[at[m]], processed[at[m]], <<m, status[m]>>, ActiveAccount(m))
    BY <2>1 DEF OrderInv, WaitingRanLast
  <2> QED BY <2>1, <2>2, <2>3
<1> QED BY <1>2, <1>3, <1>4 DEF OrderInv

(* Taking a lock that is free keeps it. *)
LEMMA OrderBlock ==
    ASSUME TypeOK, OrderInv, NEW m \in Message, BlockMessage(m) PROVE OrderInv'
<1>1. UNCHANGED <<at, status, queue, processed>>
  BY DEF BlockMessage, queueVars
<1>2. \A k \in Message : step'[k] = IF k = m THEN "locked" ELSE step[k]
  BY DEF BlockMessage, TypeOK
<1>3. \A k \in Message : ActiveAccount(k)' = ActiveAccount(k)
  BY <1>1 DEF ActiveAccount, CurrentAccount
<1>4. \A k \in Message : k # m => (Holds(k)' <=> Holds(k))
  BY <1>2 DEF Holds
<1>5. \A k \in Message : Holds(k) /\ at[k] = at[m] => ActiveAccount(k) # ActiveAccount(m)
  BY DEF BlockMessage, Free
<1>6. LocksApart'
  BY <1>1, <1>3, <1>4, <1>5 DEF OrderInv, LocksApart
<1>7. QueuedRan' /\ QueueOrdered'
  BY <1>1 DEF OrderInv, QueuedRan, QueueOrdered
<1>8. WaitingRanLast'
  <2> SUFFICES ASSUME NEW k \in Message, step'[k] = "processed"
               PROVE  RanLast(queue[at[k]], processed[at[k]], <<k, status[k]>>, ActiveAccount(k))'
    BY DEF WaitingRanLast
  <2>1. step[k] = "processed" BY <1>2
  <2>2. RanLast(queue[at[k]], processed[at[k]], <<k, status[k]>>, ActiveAccount(k))
    BY <2>1 DEF OrderInv, WaitingRanLast
  <2> QED BY <1>1, <1>3, <2>2
<1> QED BY <1>6, <1>7, <1>8 DEF OrderInv

(* A run is the last one, and its message still holds the lock. *)
LEMMA OrderRun ==
    ASSUME TypeOK, OrderInv, NEW m \in Message, step[m] = "locked",
           step' = [step EXCEPT ![m] = "processed"],
           processed' = [processed EXCEPT ![at[m]] = Append(@, <<m, status[m]>>)],
           UNCHANGED <<at, status, queue>>
    PROVE  OrderInv'
<1>1. PICK n : n = at[m] OBVIOUS
<1>2. n \in Node BY <1>1 DEF TypeOK
<1>3. PICK r : r = <<m, status[m]>> OBVIOUS
<1>4. r \in Message \X Status BY <1>3 DEF TypeOK
<1>5. processed[n] \in Seq(Message \X Status) BY <1>2 DEF TypeOK
<1>6. processed'[n] = Append(processed[n], r) BY <1>1, <1>2, <1>3 DEF TypeOK
<1>7. \A h \in Node : h # n => processed'[h] = processed[h] BY <1>1 DEF TypeOK
<1>8. \A q :
        /\ AllRan(q, processed[n]) => AllRan(q, processed'[n])
        /\ Ordered(q, processed[n]) => Ordered(q, processed'[n])
        /\ \A x, a : RanLast(q, processed[n], x, a) => RanLast(q, processed'[n], x, a)
        /\ \A a : AllRan(q, processed[n]) => RanLast(q, processed'[n], r, a)
  BY <1>4, <1>5, <1>6, RunMore
<1>9. \A k \in Message : ActiveAccount(k)' = ActiveAccount(k)
  BY DEF ActiveAccount, CurrentAccount
<1>10. \A k \in Message : step'[k] = IF k = m THEN "processed" ELSE step[k]
  BY DEF TypeOK
<1>11. \A k \in Message : Holds(k)' <=> Holds(k)
  BY <1>10 DEF Holds
<1>12. LocksApart'
  BY <1>9, <1>11 DEF OrderInv, LocksApart
<1>13. QueuedRan'
  BY <1>7, <1>8 DEF OrderInv, QueuedRan
<1>14. QueueOrdered'
  BY <1>7, <1>8 DEF OrderInv, QueueOrdered
<1>15. WaitingRanLast'
  <2> SUFFICES ASSUME NEW k \in Message, step'[k] = "processed"
               PROVE  RanLast(queue[at[k]], processed'[at[k]], <<k, status[k]>>, ActiveAccount(k))
    BY <1>9 DEF WaitingRanLast
  <2>1. CASE k = m
    BY <1>1, <1>2, <1>3, <1>8, <2>1 DEF OrderInv, QueuedRan
  <2>2. CASE k # m
    <3>1. step[k] = "processed" BY <1>10, <2>2
    <3>2. RanLast(queue[at[k]], processed[at[k]], <<k, status[k]>>, ActiveAccount(k))
      BY <3>1 DEF OrderInv, WaitingRanLast
    <3>3. at[k] \in Node BY <3>1 DEF TypeOK
    <3>4. CASE at[k] = n BY <1>8, <3>2, <3>4
    <3>5. CASE at[k] # n BY <1>7, <3>2, <3>3, <3>5
    <3> QED BY <3>4, <3>5
  <2> QED BY <2>1, <2>2
<1> QED BY <1>12, <1>13, <1>14, <1>15 DEF OrderInv

(* What is queued ran last of its account, and nobody else waits with it. *)
LEMMA OrderAdd ==
    ASSUME TypeOK, OrderInv, NEW m \in Message, AddTransaction(m) PROVE OrderInv'
<1>1. PICK n : n = at[m] OBVIOUS
<1>2. step[m] = "processed" BY DEF AddTransaction
<1>3. n \in Node BY <1>1, <1>2 DEF TypeOK
<1>4. PICK e : e = [message |-> m, status |-> status[m], results |-> results[m] \cup {status[m]}]
  OBVIOUS
<1>5. e \in Entries BY <1>4 DEF TypeOK, Entries
<1>6. Run(e) = <<m, status[m]>> /\ AccountOf(e) = ActiveAccount(m)
  BY <1>4 DEF Run, AccountOf, ActiveAccount
<1>7. queue[n] \in Seq(Entries) /\ processed[n] \in Seq(Message \X Status)
  BY <1>3 DEF TypeOK
<1>8. queue'[n] = Append(queue[n], e) BY <1>1, <1>3, <1>4 DEF AddTransaction, TypeOK
<1>9. \A h \in Node : h # n => queue'[h] = queue[h] BY <1>1 DEF AddTransaction, TypeOK
<1>10. UNCHANGED <<at, status, processed>> BY DEF AddTransaction
<1>11. \A k \in Message : step'[k] = IF k = m THEN "update" ELSE step[k]
  BY DEF AddTransaction, TypeOK
<1>12. RanLast(queue[n], processed[n], Run(e), AccountOf(e))
  BY <1>1, <1>2, <1>6 DEF OrderInv, WaitingRanLast
<1>13. AllRan(queue[n], processed[n]) /\ Ordered(queue[n], processed[n])
  BY <1>3 DEF OrderInv, QueuedRan, QueueOrdered
<1>14. /\ AllRan(queue'[n], processed[n])
       /\ Ordered(queue'[n], processed[n])
       /\ \A x, a : RanLast(queue[n], processed[n], x, a) /\ a # AccountOf(e)
                   => RanLast(queue'[n], processed[n], x, a)
  BY <1>5, <1>7, <1>8, <1>12, <1>13, QueueMore
<1>15. \A k \in Message : ActiveAccount(k)' = ActiveAccount(k)
  BY <1>10 DEF ActiveAccount, CurrentAccount
<1>16. \A k \in Message : Holds(k)' => Holds(k)
  BY <1>11 DEF Holds
<1>17. LocksApart'
  BY <1>10, <1>15, <1>16 DEF OrderInv, LocksApart
<1>18. QueuedRan'
  BY <1>9, <1>10, <1>14 DEF OrderInv, QueuedRan
<1>19. QueueOrdered'
  BY <1>9, <1>10, <1>14 DEF OrderInv, QueueOrdered
<1>20. WaitingRanLast'
  <2> SUFFICES ASSUME NEW k \in Message, step'[k] = "processed"
               PROVE  RanLast(queue'[at[k]], processed[at[k]], <<k, status[k]>>, ActiveAccount(k))
    BY <1>10, <1>15 DEF WaitingRanLast
  <2>1. k # m /\ step[k] = "processed" BY <1>11
  <2>2. RanLast(queue[at[k]], processed[at[k]], <<k, status[k]>>, ActiveAccount(k))
    BY <2>1 DEF OrderInv, WaitingRanLast
  <2>3. at[k] \in Node BY <2>1 DEF TypeOK
  <2>4. CASE at[k] = n
    <3>1. Holds(k) /\ Holds(m) BY <1>2, <2>1 DEF Holds
    <3>2. ActiveAccount(k) # AccountOf(e) BY <1>1, <1>6, <2>1, <2>4, <3>1 DEF OrderInv, LocksApart
    <3> QED BY <1>14, <2>2, <2>4, <3>2
  <2>5. CASE at[k] # n BY <1>9, <2>2, <2>3, <2>5
  <2> QED BY <2>4, <2>5
<1> QED BY <1>17, <1>18, <1>19, <1>20 DEF OrderInv

(* The end of a process ends its queue, its runs and those who wait there. *)
LEMMA OrderDie ==
    ASSUME TypeOK, OrderInv, NEW n \in Node, Die(n) PROVE OrderInv'
<1>1. UNCHANGED <<at, status>>
  BY DEF Die
<1>2. \A k \in Message : step'[k] = IF at[k] = n THEN "over" ELSE step[k]
  BY DEF Die
<1>3. queue'[n] = << >> /\ processed'[n] = << >>
  BY DEF Die, TypeOK
<1>4. \A h \in Node : h # n => queue'[h] = queue[h] /\ processed'[h] = processed[h]
  BY DEF Die, TypeOK
<1>5. \A k \in Message : ActiveAccount(k)' = ActiveAccount(k)
  BY <1>1 DEF ActiveAccount, CurrentAccount
<1>6. \A k \in Message : Holds(k)' => Holds(k)
  BY <1>2 DEF Holds
<1>7. LocksApart'
  BY <1>1, <1>5, <1>6 DEF OrderInv, LocksApart
<1>8. AllRan(<< >>, << >>) /\ Ordered(<< >>, << >>)
  BY DEF AllRan, Ordered
<1>9. QueuedRan'
  BY <1>3, <1>4, <1>8 DEF OrderInv, QueuedRan
<1>10. QueueOrdered'
  BY <1>3, <1>4, <1>8 DEF OrderInv, QueueOrdered
<1>11. WaitingRanLast'
  <2> SUFFICES ASSUME NEW k \in Message, step'[k] = "processed"
               PROVE  RanLast(queue'[at[k]], processed'[at[k]], <<k, status[k]>>, ActiveAccount(k))
    BY <1>1, <1>5 DEF WaitingRanLast
  <2>1. at[k] # n /\ step[k] = "processed" BY <1>2
  <2>2. RanLast(queue[at[k]], processed[at[k]], <<k, status[k]>>, ActiveAccount(k))
    BY <2>1 DEF OrderInv, WaitingRanLast
  <2>3. at[k] \in Node BY <2>1 DEF TypeOK
  <2> QED BY <1>4, <2>1, <2>2, <2>3
<1> QED BY <1>7, <1>9, <1>10, <1>11 DEF OrderInv

(* Every step keeps the order. *)
LEMMA OrderStep == TypeOK /\ OrderInv /\ [Next]_vars => OrderInv'
<1> SUFFICES ASSUME TypeOK, OrderInv, [Next]_vars PROVE OrderInv'
  OBVIOUS
<1>1. ASSUME NEW m \in Message, NEW s \in Step, s \notin {"locked", "processed"},
             step' = [step EXCEPT ![m] = s],
             \A k \in Message : k # m => at'[k] = at[k] /\ status'[k] = status[k],
             UNCHANGED <<queue, processed>>
      PROVE  OrderInv'
  BY <1>1, OrderKept DEF TypeOK
<1>2. ASSUME NEW m \in Message, NEW n \in Node, Send(m, n) PROVE OrderInv'
  BY <1>1, <1>2 DEF Send, Step, queueVars, TypeOK
<1>3. ASSUME NEW m \in Message, RouteLocal(m) \/ RouteToAccount(m) PROVE OrderInv'
  BY <1>1, <1>3 DEF RouteLocal, RouteToAccount, ToBalancer, NothingToDo, Return, Step, queueVars
<1>4. ASSUME NEW m \in Message, RouteToRpcClient(m) PROVE OrderInv'
  BY <1>1, <1>4 DEF RouteToRpcClient, Return, Step, queueVars
<1>5. ASSUME NEW m \in Message, RouteToRpcPeer(m) PROVE OrderInv'
  BY <1>1, <1>5 DEF RouteToRpcPeer, Step, queueVars, TypeOK
<1>6. ASSUME NEW m \in Message, HandleTransaction(m) \/ UpdateStatus(m) \/ BalanceMessage(m)
      PROVE  OrderInv'
  BY <1>1, <1>6 DEF HandleTransaction, UpdateStatus, BalanceMessage, Step, queueVars, TypeOK
<1>7. ASSUME NEW m \in Message, Throw(m), UNCHANGED <<queue, processed>> PROVE OrderInv'
  BY <1>1, <1>7 DEF Throw, Step
<1>8. ASSUME NEW m \in Message, ProcessTransaction(m) PROVE OrderInv'
  <2>1. CASE Throw(m) /\ UNCHANGED processed
    BY <1>7, <1>8, <2>1 DEF ProcessTransaction
  <2>2. CASE /\ step' = [step EXCEPT ![m] = "processed"]
             /\ processed' = [processed EXCEPT ![at[m]] = Append(@, <<m, status[m]>>)]
             /\ UNCHANGED <<at, account, operation, status, results, answer, reply>>
    BY <1>8, <2>2, OrderRun DEF ProcessTransaction
  <2> QED BY <1>8, <2>1, <2>2 DEF ProcessTransaction
<1>9. ASSUME NEW m \in Message, BalanceNowhere(m) PROVE OrderInv'
  BY <1>9, OrderDie DEF BalanceNowhere, TypeOK
<1>10. ASSUME NEW m \in Message, Chain(m) PROVE OrderInv'
  BY <1>3, <1>4, <1>5, <1>6, <1>7, <1>8, <1>9, <1>10, OrderBlock, OrderAdd
  DEF Chain, ProducerTerminated, queueVars
<1>11. ASSUME NEW n \in Node, Crash(n) PROVE OrderInv'
  BY <1>11, OrderDie DEF Crash
<1>12. ASSUME UNCHANGED <<chainVars, queueVars>> PROVE OrderInv'
  BY <1>12, OrderKept DEF chainVars, queueVars
<1>13. ASSUME NEW n \in Node, RegisterRpcPeer(n) \/ CommitRegistration(n) \/ RegisterResponse(n)
      PROVE  OrderInv'
  BY <1>12, <1>13 DEF RegisterRpcPeer, CommitRegistration, RegisterResponse
<1>14. ASSUME UNCHANGED vars PROVE OrderInv'
  BY <1>12, <1>14 DEF vars
<1> QED BY <1>2, <1>10, <1>11, <1>13, <1>14 DEF Next

(* The account lock makes the order of the queue that of the runs, account by
   account: QueueInProcessingOrder. *)
THEOREM OrderCorrect == Spec => [](OrderInv /\ QueueInProcessingOrder)
<1>1. OrderInv => QueueInProcessingOrder
  BY DEF OrderInv, QueueOrdered, Ordered, Run, AccountOf, QueueInProcessingOrder
<1> QED BY <1>1, TypeCorrect, OrderInit, OrderStep, PTL DEF Spec

=============================================================================
