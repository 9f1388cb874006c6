---------------------- MODULE ContractExecutionProofs ----------------------
(***************************************************************************)
(* Theorems about the run of contracts and the blocks that are made of     *)
(* what they leave, for any number of threads, messages, accounts and      *)
(* contracts, whatever host calls they make.                               *)
(***************************************************************************)
EXTENDS ContractExecution, FiniteSetTheorems, TLAPS

(* The strings that a contract was handed, by its thread.                  *)

Within(b, pages) == b[1] >= InitialPages * PageBytes /\ b[1] + b[2] <= pages * PageBytes
Apart(b, c) == b[1] < c[1] => b[1] + b[2] <= c[1]

Handed(t) ==
    /\ step[t] = "running" => InitialPages <= memory[t]
    /\ \A b \in buffers[t] : Within(b, memory[t]) /\ b[2] \in {StringBytes(MaxText), StringBytes(HashText)}
    /\ \A b, c \in buffers[t] : Apart(b, c)

StringInv ==
    /\ step \in [Threads -> Step]
    /\ memory \in [Threads -> Nat]
    /\ buffers \in [Threads -> SUBSET (Nat \X Nat)]
    /\ \A t \in Threads : Handed(t)

\* The pages that are added hold the bytes that were asked for.
LEMMA Allocated ==
    ASSUME NEW pages \in Nat, NEW bytes \in Nat
    PROVE  LET got == AllocateMemory(pages, bytes)
           IN  /\ got.base = pages * PageBytes /\ got.pages \in Nat /\ pages <= got.pages
               /\ got.base + bytes <= got.pages * PageBytes
<1>1. RoundUp(bytes, 8) \in Nat /\ bytes <= RoundUp(bytes, 8)
  BY DEF RoundUp
<1>2. /\ DesiredPages(pages, bytes) \in Nat
      /\ pages * PageBytes + RoundUp(bytes, 8) <= DesiredPages(pages, bytes) * PageBytes
  BY <1>1 DEF DesiredPages, PageBytes
<1> QED
  BY <1>1, <1>2 DEF AllocateMemory, PageBytes

\* A length below the limit of three digits is read as it was written.
LEMMA ReadsBack ==
    ASSUME NEW n \in Nat, n < 1000000 PROVE ReadLength(LengthDigits(n)) = n
<1>1. /\ LengthDigits(n)[1] = n % 100 /\ LengthDigits(n)[2] = (n \div 100) % 100
      /\ LengthDigits(n)[3] = (n \div 10000) % 100
  BY DEF LengthDigits
<1>2. (n % 100) + ((n \div 100) % 100) * 100 + ((n \div 10000) % 100) * 10000 = n
  OBVIOUS
<1> QED
  BY <1>1, <1>2 DEF ReadLength

\* A string is handed in pages of its own.
LEMMA HandKeeps ==
    ASSUME StringInv, NEW t \in Threads, NEW length \in {MaxText, HashText}, Hand(t, length),
           step[t] = "running", step' = step
    PROVE  StringInv'
<1> DEFINE got == AllocateMemory(memory[t], StringBytes(length))
           new == <<got.base, StringBytes(length)>>
<1>1. StringBytes(length) \in Nat
  BY ContractAssumption DEF StringBytes, HashText
<1>2. memory[t] \in Nat /\ InitialPages <= memory[t] /\ InitialPages \in Nat
  BY ContractAssumption DEF StringInv, Handed
<1>3. /\ got.base = memory[t] * PageBytes /\ got.pages \in Nat /\ memory[t] <= got.pages
      /\ got.base + StringBytes(length) <= got.pages * PageBytes
  BY <1>1, <1>2, Allocated
<1>4. memory' = [memory EXCEPT ![t] = got.pages] /\ buffers' = [buffers EXCEPT ![t] = @ \cup {new}]
  BY DEF Hand
<1>5. new \in Nat \X Nat /\ new[1] = memory[t] * PageBytes /\ new[2] = StringBytes(length)
  BY <1>1, <1>2, <1>3 DEF PageBytes
<1>6. memory'[t] = got.pages /\ buffers'[t] = buffers[t] \cup {new}
  BY <1>4 DEF StringInv
<1> HIDE DEF got, new
<1>7. \A b \in buffers[t] : b \in Nat \X Nat /\ Within(b, memory[t])
  BY DEF StringInv, Handed
<1>8. Handed(t)'
  <2>1. \A b \in buffers'[t] : Within(b, memory'[t])
    BY <1>1, <1>2, <1>3, <1>5, <1>6, <1>7 DEF Within, PageBytes
  <2>2. \A b \in buffers'[t] : b[2] \in {StringBytes(MaxText), StringBytes(HashText)}
    BY <1>5, <1>6 DEF StringInv, Handed
  <2>3. \A b, c \in buffers'[t] : Apart(b, c)
    <3>1. \A b \in buffers[t] : Apart(b, new) /\ Apart(new, b)
      BY <1>1, <1>2, <1>3, <1>5, <1>7 DEF Within, Apart, PageBytes
    <3>2. Apart(new, new)
      BY <1>5 DEF Apart
    <3> QED
      BY <1>6, <3>1, <3>2 DEF StringInv, Handed
  <2> QED
    BY <1>2, <1>3, <1>6, <2>1, <2>2, <2>3 DEF Handed, Within, Apart, StringBytes, HashText, PageBytes
<1>9. ASSUME NEW u \in Threads, u # t PROVE Handed(u)'
  <2>1. memory'[u] = memory[u] /\ buffers'[u] = buffers[u]
    BY <1>4, <1>9 DEF StringInv
  <2> QED
    BY <2>1 DEF StringInv, Handed, Within, Apart, StringBytes, HashText, PageBytes
<1> QED
  BY <1>3, <1>4, <1>5, <1>8, <1>9 DEF StringInv

\* A step of a thread that hands nothing over and begins no run.
LEMMA HandsNothing ==
    ASSUME StringInv, step' \in [Threads -> Step], UNCHANGED <<memory, buffers>>,
           \A t \in Threads : step'[t] = "running" => step[t] = "running"
    PROVE  StringInv'
  BY DEF StringInv, Handed, Within, Apart, StringBytes, HashText, PageBytes

\* At the start nothing has been handed over.
LEMMA StringsStart == Init => StringInv
  BY DEF Init, StringInv, Handed, Step

\* Every step keeps the strings of every thread as Handed says.
LEMMA StringsStep == StringInv /\ [Next]_vars => StringInv'
<1> SUFFICES ASSUME StringInv, [Next]_vars PROVE StringInv'
  OBVIOUS
<1>0. step \in [Threads -> Step]
  BY DEF StringInv
<1>1. ASSUME NEW t \in Threads, NEW m \in Messages, ProcessTransaction(t, m) PROVE StringInv'
  BY <1>0, <1>1, HandsNothing DEF ProcessTransaction, Goes, Step
<1>2. ASSUME NEW t \in Threads, Throw(t) PROVE StringInv'
  BY <1>0, <1>2, HandsNothing DEF Throw, Goes, Step
<1>3. ASSUME NEW t \in Threads, Run(t) PROVE StringInv'
  <2>1. CASE GetContract(t)
    BY <1>0, <1>2, <2>1, HandsNothing DEF GetContract, Goes, Step
  <2>2. CASE Execute(t) /\ ~Throw(t)
    <3>1. /\ step' = [step EXCEPT ![t] = "running"]
          /\ memory' = [memory EXCEPT ![t] = InitialPages]
          /\ buffers' = [buffers EXCEPT ![t] = {}]
      BY <2>2 DEF Execute, Goes
    <3>2. Handed(t)'
      BY <3>1, ContractAssumption DEF StringInv, Handed
    <3>3. ASSUME NEW u \in Threads, u # t PROVE Handed(u)'
      <4>1. memory'[u] = memory[u] /\ buffers'[u] = buffers[u] /\ step'[u] = step[u]
        BY <3>1, <3>3 DEF StringInv
      <4> QED
        BY <4>1 DEF StringInv, Handed, Within, Apart, StringBytes, HashText, PageBytes
    <3> QED
      BY <3>1, <3>2, <3>3, ContractAssumption DEF StringInv, Step
  <2>3. CASE WriteCall(t) \/ Trap(t)
    BY <1>0, <1>2, <2>3, HandsNothing DEF WriteCall, Trap
  <2>4. CASE ReadCall(t)
    <3>1. CASE Throw(t)
      BY <1>2, <3>1
    <3>2. CASE step' = step /\ step[t] = "running"
               /\ (Hand(t, MaxText) \/ UNCHANGED <<memory, buffers>>)
      BY <1>0, <3>2, HandKeeps, HandsNothing
    <3> QED
      BY <2>4, <3>1, <3>2 DEF ReadCall, Calls
  <2>5. CASE AccountCall(t)
    BY <1>2, <2>5, HandKeeps DEF AccountCall, Calls
  <2>6. CASE OtherCall(t)
    <3>1. /\ step' = step /\ buffers' = buffers
          /\ \/ memory' = memory
             \/ memory' = [memory EXCEPT ![t] = memory[t] + Growth]
      BY <2>6 DEF OtherCall, StringInv
    <3>2. memory' \in [Threads -> Nat] /\ \A u \in Threads : memory[u] <= memory'[u]
      BY <3>1, ContractAssumption DEF StringInv
    <3>3. ASSUME NEW u \in Threads PROVE Handed(u)'
      <4>1. \A b \in buffers[u] : Within(b, memory'[u])
        BY <3>2, ContractAssumption DEF StringInv, Handed, Within, PageBytes
      <4>2. step[u] = "running" => InitialPages <= memory'[u]
        BY <3>2, ContractAssumption DEF StringInv, Handed
      <4> QED
        BY <3>1, <4>1, <4>2 DEF StringInv, Handed, Within, Apart, StringBytes, HashText, PageBytes
    <3> QED
      BY <3>1, <3>2, <3>3 DEF StringInv
  <2>7. CASE Finish(t)
    BY <1>0, <2>7, HandsNothing DEF Finish, Goes, Step
  <2> QED
    BY <1>2, <1>3, <2>1, <2>2, <2>3, <2>4, <2>5, <2>6, <2>7 DEF Run
<1>4. CASE GetTransactions \/ GenerateBlock \/ UNCHANGED vars
  BY <1>0, <1>4, HandsNothing DEF GetTransactions, GenerateBlock, vars, runVars
<1> QED
  BY <1>1, <1>3, <1>4 DEF Next

(* StringsApart: whatever contracts run beside each other, and however     *)
(* they grow their memory, the strings the host hands a contract lie in it,*)
(* apart from each other; and their length is read as it was written, as   *)
(* long as three digits to the base 100 hold it (allocateMemory and        *)
(* buildTypeScriptString).                                                 *)
THEOREM StringsCorrect ==
    ASSUME MaxText < 1000000 PROVE Spec => []StringsApart
<1>1. StringInv => StringsApart
  <2> SUFFICES ASSUME StringInv, NEW t \in Threads, NEW b \in buffers[t]
               PROVE  ReadLength(LengthDigits((b[2] - 4) \div 2)) = (b[2] - 4) \div 2
    BY DEF StringsApart, StringInv, Handed, Within, Apart
  <2>1. (b[2] - 4) \div 2 \in {MaxText, HashText}
    <3>1. \A n \in Nat : (StringBytes(n) - 4) \div 2 = n
      BY DEF StringBytes
    <3>2. b[2] \in {StringBytes(MaxText), StringBytes(HashText)}
      BY DEF StringInv, Handed
    <3> QED
      BY <3>1, <3>2, ContractAssumption DEF HashText
  <2> QED
    BY <2>1, ReadsBack, ContractAssumption DEF HashText
<1> QED
  BY StringsStart, StringsStep, <1>1, PTL DEF Spec
----------------------------------------------------------------------------
(* What is processed, and the blocks it is in.                             *)

(* What getSandboxCommandMessage makes of a message and a model. *)
Made(m, model) ==
    LET sent == Sent[m].message
    IN  AddChangeSet(sent, SignedChangeSet(NodeKey,
            ChangeSet(sent.transactionHash, GetCurrentAccount(sent), sent.currentStatus, model)))

Thing(slot) == Place(slot[1])[slot[2]]
IsSeq(s) == s \in Seq(Elements(s))

(* A thread at work has a message of its own, which nobody has queued, and *)
(* a run has the session of its thread's message.                          *)
Busy ==
    /\ step \in [Threads -> Step]
    /\ message \in [Threads -> Messages \cup {None}]
    /\ outcome \in [Messages -> {"new", "taken", "processed", "failed"}]
    /\ session = [t \in Threads |-> session[t]]
    /\ \A t \in Threads : step[t] # "idle" => message[t] \in Messages /\ outcome[message[t]] = "taken"
    /\ \A t, u \in Threads :
           t # u /\ step[t] # "idle" /\ step[u] # "idle" => message[t] # message[u]
    /\ \A t \in Threads : step[t] = "running" =>
           session[t] = [message |-> message[t], model |-> session[t].model,
                         store |-> session[t].store]

(* What is queued, taken or in a block was made of a message. *)
AllMade ==
    /\ IsSeq(queue) /\ IsSeq(taken) /\ IsSeq(chain) /\ Len(chain) >= 1
    /\ \A x \in Slots : \E m \in Messages : \E model : Thing(x) = Made(m, model)

LinkAt(blocks, i) ==
    LET b == blocks[i]
    IN  /\ IsSeq(b.block.transactions)
        /\ b.block.parent = blocks[i - 1].hash
        /\ b.hash = HashOf(b.block) /\ Signed(NodeKey, b.hash, b.signature)
Linked == \A i \in 2 .. Len(chain) : LinkAt(chain, i)

SealInv == Busy /\ AllMade /\ Linked /\ OnceEach

\* What a message's transaction is.
LEMMA SentFacts ==
    ASSUME NEW m \in Messages
    PROVE  LET sent == Sent[m].message
           IN  /\ sent.changeSet = << >>
               /\ sent.signedTransaction.transaction.value = m
               /\ sent.transactionHash = HashOf(sent.signedTransaction.transaction)
               /\ sent.signature = SignatureOf(Source[m], sent.transactionHash)
               /\ sent = [signedTransaction |-> sent.signedTransaction,
                          transactionHash |-> sent.transactionHash, signature |-> sent.signature,
                          sourceAccount |-> sent.sourceAccount, targetAccount |-> sent.targetAccount,
                          currentStatus |-> sent.currentStatus, changeSet |-> << >>]
  BY DEF Sent, TransactionProto, TransactionMessage, SignedTransaction, Transaction

\* What is made of a message is known by it, and signed by whom it should be.
LEMMA MadeFacts ==
    ASSUME NEW m \in Messages, NEW model
    PROVE  MessageOf(Made(m, model)) = m /\ SealedTransaction(Made(m, model))
<1> DEFINE sent == Sent[m].message
           set == ChangeSet(sent.transactionHash, GetCurrentAccount(sent), sent.currentStatus, model)
           signed == SignedChangeSet(NodeKey, set)
           made == Made(m, model)
<1>1. made = [sent EXCEPT !.changeSet = Append(<< >>, signed)]
  BY SentFacts DEF Made, AddChangeSet
<1> HIDE DEF signed
<1>2. /\ made.signedTransaction = sent.signedTransaction
      /\ made.transactionHash = sent.transactionHash /\ made.signature = sent.signature
      /\ made.changeSet = <<signed>>
  BY <1>1, SentFacts
<1>3. MessageOf(made) = m
  <2>1. \A n \in Messages :
            Sent[n].message.signedTransaction = made.signedTransaction => n = m
    <3>1. Sent[m].message.signedTransaction.transaction.value = m
      BY SentFacts
    <3>2. ASSUME NEW n \in Messages PROVE Sent[n].message.signedTransaction.transaction.value = n
      BY SentFacts
    <3> QED
      BY <1>2, <3>1, <3>2
  <2> QED
    BY <1>2, <2>1 DEF MessageOf
<1>4. /\ signed.changeSet.transactionHash = sent.transactionHash
      /\ signed.changeSetHash = HashOf(signed.changeSet)
      /\ Signed(NodeKey, signed.changeSetHash, signed.signature)
  BY DEF signed, SignedChangeSet, ChangeSet, Signed
<1>5. \A c \in Elements(made.changeSet) : c = signed
  BY <1>2 DEF Elements
<1>6. made.transactionHash = HashOf(made.signedTransaction.transaction)
  BY <1>2, SentFacts
<1>7. Signed(Source[MessageOf(made)], made.transactionHash, made.signature)
  BY <1>2, <1>3, SentFacts DEF Signed
<1> QED
  BY <1>2, <1>3, <1>4, <1>5, <1>6, <1>7 DEF SealedTransaction

\* A sequence and one more element.
LEMMA Appended ==
    ASSUME NEW s, IsSeq(s), NEW x
    PROVE  /\ IsSeq(Append(s, x)) /\ Len(Append(s, x)) = Len(s) + 1 /\ Len(s) \in Nat
           /\ DOMAIN s = 1 .. Len(s) /\ DOMAIN Append(s, x) = 1 .. (Len(s) + 1)
           /\ Append(s, x)[Len(s) + 1] = x
           /\ \A i \in 1 .. Len(s) : Append(s, x)[i] = s[i]
<1> DEFINE T == Elements(s) \cup {x}
<1>1. s \in Seq(T)
  BY DEF IsSeq
<1> HIDE DEF T
<1>2. /\ Append(s, x) \in Seq(T \cup {x}) /\ Len(Append(s, x)) = Len(s) + 1 /\ Len(s) \in Nat
      /\ DOMAIN s = 1 .. Len(s) /\ DOMAIN Append(s, x) = 1 .. (Len(s) + 1)
      /\ Append(s, x)[Len(s) + 1] = x
      /\ \A i \in 1 .. Len(s) : Append(s, x)[i] = s[i]
  BY <1>1
<1>3. IsSeq(Append(s, x))
  BY <1>2 DEF IsSeq, Elements
<1> QED
  BY <1>2, <1>3

\* The slots, one by one.
LEMMA SlotIs ==
    \A x : x \in Slots <=> \E j \in 0 .. Len(chain) : \E i \in DOMAIN Place(j) : x = <<j, i>>
  BY DEF Slots

\* At the start nothing is queued and the chain is the genesis block.
LEMMA SealStart == Init => SealInv
<1> SUFFICES ASSUME Init PROVE SealInv
  OBVIOUS
<1>1. queue = << >> /\ taken = << >> /\ Len(chain) = 1
  BY DEF Init
<1>2. Place(0) = << >> /\ Place(1) = << >>
  BY <1>1 DEF Place
<1>3. Slots = {}
  BY <1>1, <1>2, SlotIs
<1>4. Busy
  BY DEF Init, Busy, Step
<1>5. IsSeq(queue) /\ IsSeq(taken) /\ IsSeq(chain)
  <2>1. IsSeq(<< >>)
    BY DEF IsSeq, Elements
  <2>2. chain = Append(<< >>, GenesisBlock(NodeKey, GenesisParent, Genesis))
    BY DEF Init
  <2> QED
    BY <1>1, <2>1, <2>2, Appended
<1> QED
  BY <1>1, <1>3, <1>4, <1>5 DEF SealInv, AllMade, Linked, OnceEach, Init
\* A step that queues nothing and makes no block.
LEMMA QueuesNothing ==
    ASSUME AllMade, Linked, OnceEach, UNCHANGED blockVars,
           \A m \in Messages : outcome'[m] = "processed" <=> outcome[m] = "processed"
    PROVE  AllMade' /\ Linked' /\ OnceEach'
<1>1. queue' = queue /\ taken' = taken /\ chain' = chain
  BY DEF blockVars
<1>2. \A j : Place(j)' = Place(j)
  BY <1>1 DEF Place
<1>3. Slots' = Slots
  BY <1>1, <1>2 DEF Slots
<1>4. \A x \in Slots : Thing(x)' = Thing(x) /\ In(x)' = In(x)
  BY <1>2 DEF Thing, In, MessageOf
<1>5. AllMade'
  BY <1>1, <1>3, <1>4 DEF AllMade, IsSeq, Elements, Made
<1>6. Linked'
  <2>1. \A i \in 2 .. Len(chain') : LinkAt(chain', i)
    BY <1>1 DEF Linked
  <2> QED
    BY <2>1 DEF Linked, LinkAt, IsSeq, Elements, HashOf, Signed, SignatureOf
<1>7. OnceEach'
  BY <1>3, <1>4 DEF OnceEach
<1> QED
  BY <1>5, <1>6, <1>7

\* What is taken or made into a block only changes its place.
LEMMA Moved ==
    ASSUME AllMade, OnceEach, outcome' = outcome, NEW f,
           \A x \in Slots' : f[x] \in Slots /\ Thing(x)' = Thing(f[x]),
           \A x, y \in Slots' : f[x] = f[y] => x = y,
           \A y \in Slots : \E x \in Slots' : f[x] = y
    PROVE  /\ OnceEach'
           /\ \A x \in Slots' : \E m \in Messages : \E model : Thing(x)' = Made(m, model)
<1>1. \A x \in Slots' : In(x)' = In(f[x])
  BY DEF In, Thing, MessageOf
<1>2. \A x, y \in Slots' : In(x)' = In(y)' => x = y
  BY <1>1 DEF OnceEach
<1>3. \A m \in Messages : outcome'[m] = "processed" <=> \E x \in Slots' : In(x)' = m
  BY <1>1 DEF OnceEach
<1>4. OnceEach'
  BY <1>2, <1>3 DEF OnceEach
<1>5. \A x \in Slots' : \E m \in Messages : \E model : Thing(x)' = Made(m, model)
  BY DEF AllMade
<1> QED
  BY <1>4, <1>5

\* A thread that goes idle, or on, keeps its message to itself.
LEMMA BusyOn ==
    ASSUME Busy, NEW t \in Threads, NEW s \in Step, step' = [step EXCEPT ![t] = s],
           message' \in [Threads -> Messages \cup {None}],
           \A u \in Threads : u # t => message'[u] = message[u] /\ session'[u] = session[u],
           session' = [u \in Threads |-> session'[u]],
           outcome' \in [Messages -> {"new", "taken", "processed", "failed"}],
           \A m \in Messages : outcome'[m] = outcome[m] \/ m = message[t] \/ outcome[m] = "new",
           s = "idle" => step[t] # "idle",
           s # "idle" => /\ message'[t] \in Messages /\ outcome'[message'[t]] = "taken"
                         /\ \A m \in Messages : m # message'[t] => outcome'[m] = outcome[m]
                         /\ \/ message'[t] = message[t] /\ step[t] # "idle"
                            \/ outcome[message'[t]] # "taken",
           s = "running" => session'[t] = [message |-> message'[t], model |-> session'[t].model,
                                           store |-> session'[t].store]
    PROVE  Busy'
<1>1. step' \in [Threads -> Step] /\ step'[t] = s /\ \A u \in Threads : u # t => step'[u] = step[u]
  BY DEF Busy
<1>2. ASSUME NEW u \in Threads, step'[u] # "idle"
      PROVE  message'[u] \in Messages /\ outcome'[message'[u]] = "taken"
  BY <1>1, <1>2 DEF Busy
<1>3. ASSUME NEW u \in Threads, NEW v \in Threads, u # v, step'[u] # "idle", step'[v] # "idle"
      PROVE  message'[u] # message'[v]
  BY <1>1, <1>3 DEF Busy
<1>4. ASSUME NEW u \in Threads, step'[u] = "running"
      PROVE  session'[u] = [message |-> message'[u], model |-> session'[u].model,
                            store |-> session'[u].store]
  BY <1>1, <1>4 DEF Busy
<1> QED
  BY <1>1, <1>2, <1>3, <1>4 DEF Busy

\* The steps of a run, but for its last.
LEMMA SealRun ==
    ASSUME SealInv, NEW t \in Threads,
           \/ \E m \in Messages : ProcessTransaction(t, m)
           \/ Run(t) /\ ~Finish(t)
    PROVE  SealInv'
<1> USE DEF SealInv
<1>0. /\ step \in [Threads -> Step] /\ message \in [Threads -> Messages \cup {None}]
      /\ outcome \in [Messages -> {"new", "taken", "processed", "failed"}]
      /\ session = [u \in Threads |-> session[u]]
  BY DEF Busy
<1>1. ASSUME NEW m \in Messages, ProcessTransaction(t, m)
      PROVE  Busy' /\ UNCHANGED blockVars
                   /\ \A n \in Messages : outcome'[n] = "processed" <=> outcome[n] = "processed"
  <2>1. /\ step[t] = "idle" /\ outcome[m] = "new" /\ step' = [step EXCEPT ![t] = "contract"]
        /\ message' = [message EXCEPT ![t] = m] /\ outcome' = [outcome EXCEPT ![m] = "taken"]
        /\ session' = session
    BY <1>1 DEF ProcessTransaction, Goes
  <2>2. Busy'
    BY <1>0, <2>1, BusyOn DEF Step
  <2> QED
    BY <1>0, <1>1, <2>1, <2>2 DEF ProcessTransaction
<1>2. ASSUME Throw(t), step[t] # "idle"
      PROVE  Busy' /\ UNCHANGED blockVars
                   /\ \A n \in Messages : outcome'[n] = "processed" <=> outcome[n] = "processed"
  <2>1. /\ step' = [step EXCEPT ![t] = "idle"]
        /\ message' = [message EXCEPT ![t] = None]
        /\ outcome' = [outcome EXCEPT ![message[t]] = "failed"]
        /\ session' = [session EXCEPT ![t] = NoSession]
    BY <1>2 DEF Throw, Goes, EndScope
  <2>2. message[t] \in Messages /\ outcome[message[t]] = "taken"
    BY <1>2 DEF Busy
  <2>3. Busy'
    BY <1>0, <1>2, <2>1, <2>2, BusyOn DEF Step
  <2> QED
    BY <1>0, <1>2, <2>1, <2>2, <2>3 DEF Throw
<1>3. ASSUME NEW s \in Step, s # "idle", step[t] # "idle", step' = [step EXCEPT ![t] = s],
             UNCHANGED <<message, outcome, blockVars>>,
             session' = session \/ (\E x : session' = [session EXCEPT ![t] = x]),
             s = "running" => session'[t] = [message |-> message[t], model |-> session'[t].model,
                                             store |-> session'[t].store]
      PROVE  Busy' /\ UNCHANGED blockVars
                   /\ \A n \in Messages : outcome'[n] = "processed" <=> outcome[n] = "processed"
  <2>1. message[t] \in Messages /\ outcome[message[t]] = "taken"
    BY <1>3 DEF Busy
  <2>2. /\ \A u \in Threads : u # t => session'[u] = session[u]
        /\ session' = [u \in Threads |-> session'[u]]
    BY <1>0, <1>3
  <2>3. Busy'
    BY <1>0, <1>3, <2>1, <2>2, BusyOn
  <2> QED
    BY <1>3, <2>3
<1>4. ASSUME Run(t), ~Finish(t)
      PROVE  Busy' /\ UNCHANGED blockVars
                   /\ \A n \in Messages : outcome'[n] = "processed" <=> outcome[n] = "processed"
  <2>1. CASE GetContract(t)
    BY <1>2, <1>3, <2>1 DEF GetContract, Goes, Step
  <2>2. CASE Execute(t)
    <3>1. CASE Throw(t)
      BY <1>2, <2>2, <3>1 DEF Execute
    <3>2. CASE ~Throw(t)
      <4>1. /\ step' = [step EXCEPT ![t] = "running"] /\ step[t] # "idle"
            /\ session' = [session EXCEPT ![t] = [message |-> message[t], model |-> << >>, store |-> {}]]
            /\ UNCHANGED <<message, outcome, blockVars>>
        BY <2>2, <3>2 DEF Execute, Goes
      <4>2. session'[t] = [message |-> message[t], model |-> session'[t].model,
                           store |-> session'[t].store]
        <5>1. session'[t] = [message |-> message[t], model |-> << >>, store |-> {}]
          BY <1>0, <4>1
        <5> QED
          BY <5>1
      <4> QED
        BY <1>3, <4>1, <4>2 DEF Step
    <3> QED
      BY <3>1, <3>2
  <2>3. CASE WriteCall(t)
    <3> DEFINE s == session[t]
               more == WithEntries(s, EntriesOf(s.message, Head(calls[t])))
    <3>1. /\ step[t] = "running" /\ step' = step /\ session' = [session EXCEPT ![t] = more]
          /\ UNCHANGED <<message, outcome, blockVars>>
      BY <2>3 DEF WriteCall, Calls, Owner
    <3>2. s = [message |-> message[t], model |-> s.model, store |-> s.store]
      BY <3>1 DEF Busy
    <3>3. more = [message |-> message[t], model |-> more.model, store |-> more.store]
      <4>1. s.message = message[t]
        BY <3>2
      <4> QED
        BY <4>1 DEF WithEntries
    <3>4. session'[t] = more
      BY <1>0, <3>1
    <3>5. step' = [step EXCEPT ![t] = "running"]
      BY <1>0, <3>1
    <3> HIDE DEF more
    <3> QED
      BY <1>3, <3>1, <3>3, <3>4, <3>5 DEF Step
  <2>4. CASE ReadCall(t) \/ AccountCall(t) \/ OtherCall(t) \/ Trap(t)
    <3>1. CASE Throw(t)
      BY <1>2, <2>4, <3>1 DEF ReadCall, AccountCall, OtherCall, Trap, Calls
    <3>2. CASE ~Throw(t)
      <4>1. /\ step[t] = "running" /\ step' = step /\ session' = session
            /\ UNCHANGED <<message, outcome, blockVars>>
        BY <2>4, <3>2 DEF ReadCall, AccountCall, OtherCall, Trap, Calls
      <4>2. step' = [step EXCEPT ![t] = "running"]
        BY <1>0, <4>1
      <4>3. session'[t] = [message |-> message[t], model |-> session'[t].model,
                           store |-> session'[t].store]
        BY <4>1 DEF Busy
      <4> QED
        BY <1>3, <4>1, <4>2, <4>3 DEF Step
    <3> QED
      BY <3>1, <3>2
  <2> QED
    BY <1>4, <2>1, <2>2, <2>3, <2>4 DEF Run
<1> QED
  BY <1>1, <1>4, QueuesNothing
\* The last step of a run queues what was made of its thread's message.
LEMMA SealFinish ==
    ASSUME SealInv, NEW t \in Threads, Finish(t)
    PROVE  SealInv'
<1> USE DEF SealInv
<1>0. PICK m, model, new :
          m = message[t] /\ model = session[t].model /\ new = <<0, Len(queue) + 1>>
  OBVIOUS
<1> DEFINE made == Made(m, model)
<1>1. m \in Messages /\ outcome[m] = "taken" /\ step[t] = "running" /\ session[t].message = m
  BY <1>0 DEF Finish, Busy
<1>2. /\ queue' = Append(queue, made) /\ taken' = taken /\ chain' = chain
      /\ outcome' = [outcome EXCEPT ![m] = "processed"]
      /\ step' = [step EXCEPT ![t] = "idle"] /\ message' = [message EXCEPT ![t] = None]
      /\ session' = [session EXCEPT ![t] = NoSession]
  BY <1>0, <1>1 DEF Finish, AddTransaction, Goes, EndScope, Owner, Made
<1>3. MessageOf(made) = m
  BY <1>1, MadeFacts
<1> HIDE DEF made
<1>4. Busy'
  <2>1. message' \in [Threads -> Messages \cup {None}]
    BY <1>2 DEF Busy
  <2>2. outcome' \in [Messages -> {"new", "taken", "processed", "failed"}]
    BY <1>2 DEF Busy
  <2>3. /\ \A u \in Threads : u # t => message'[u] = message[u] /\ session'[u] = session[u]
        /\ session' = [u \in Threads |-> session'[u]]
    BY <1>2 DEF Busy
  <2>4. \A n \in Messages : outcome'[n] = outcome[n] \/ n = message[t]
    BY <1>0, <1>2 DEF Busy
  <2> QED
    BY <1>0, <1>1, <1>2, <2>1, <2>2, <2>3, <2>4, BusyOn DEF Step
<1>5. /\ IsSeq(queue') /\ Len(queue) \in Nat
      /\ DOMAIN queue = 1 .. Len(queue) /\ DOMAIN queue' = 1 .. (Len(queue) + 1)
      /\ queue'[Len(queue) + 1] = made /\ \A i \in 1 .. Len(queue) : queue'[i] = queue[i]
  BY <1>2, Appended DEF AllMade
<1>6. Len(chain) \in Nat
  BY Appended DEF AllMade
<1>7. \A j \in 0 .. Len(chain) : Place(j)' = IF j = 0 THEN queue' ELSE Place(j)
  BY <1>2, <1>6 DEF Place
<1>8. Place(0) = queue
  BY DEF Place
<1>9. \A x : x \in Slots' <=> x \in Slots \/ x = new
  <2>1. \A x : x \in Slots' <=> \E j \in 0 .. Len(chain) : \E i \in DOMAIN Place(j)' : x = <<j, i>>
    BY <1>2 DEF Slots
  <2>2. DOMAIN queue' = DOMAIN queue \cup {Len(queue) + 1} /\ 0 \in 0 .. Len(chain)
    BY <1>5, <1>6
  <2> QED
    BY <1>0, <1>7, <1>8, <2>1, <2>2, SlotIs
<1>10. \A x \in Slots : Thing(x)' = Thing(x)
  BY <1>5, <1>7, <1>8, SlotIs DEF Thing
<1>11. Thing(new)' = made
  BY <1>0, <1>5, <1>6, <1>7 DEF Thing
<1>12. new \notin Slots
  <2>1. Len(queue) + 1 \notin DOMAIN Place(0)
    BY <1>5, <1>8
  <2> QED
    BY <1>0, <2>1, SlotIs
<1>13. AllMade'
  <2>1. \A x \in Slots' : \E n \in Messages : \E kept : Thing(x)' = Made(n, kept)
    BY <1>1, <1>9, <1>10, <1>11 DEF AllMade, made
  <2>2. IsSeq(queue') /\ IsSeq(taken') /\ IsSeq(chain') /\ Len(chain') >= 1
    BY <1>2, <1>5 DEF AllMade
  <2> QED
    BY <2>1, <2>2 DEF AllMade, IsSeq, Elements, Made
<1>14. Linked'
  <2>1. \A i \in 2 .. Len(chain') : LinkAt(chain', i)
    BY <1>2 DEF Linked
  <2> QED
    BY <2>1 DEF Linked, LinkAt, IsSeq, Elements, HashOf, Signed, SignatureOf
<1>15. OnceEach'
  <2>1. \A x \in Slots : In(x)' = In(x)
    BY <1>10 DEF In, Thing, MessageOf
  <2>2. In(new)' = m
    <3>1. In(new)' = MessageOf(Thing(new)')
      BY DEF In, Thing, MessageOf
    <3> QED
      BY <1>3, <1>11, <3>1
  <2>3. \A x \in Slots : In(x) # m
    BY <1>1 DEF OnceEach
  <2>4. \A x, y \in Slots' : In(x)' = In(y)' => x = y
    BY <1>9, <2>1, <2>2, <2>3 DEF OnceEach
  <2>5. \A n \in Messages : outcome'[n] = "processed" <=> \E x \in Slots' : In(x)' = n
    <3>1. \A n \in Messages : outcome'[n] = "processed" <=> (outcome[n] = "processed" \/ n = m)
      BY <1>1, <1>2 DEF Busy
    <3> QED
      BY <1>9, <2>1, <2>2, <3>1 DEF OnceEach
  <2> QED
    BY <2>4, <2>5 DEF OnceEach
<1> QED
  BY <1>4, <1>13, <1>14, <1>15

\* A thread other than the producer's is not concerned by what it does.
LEMMA BusyApart ==
    ASSUME Busy, UNCHANGED <<step, message, session, outcome>> PROVE Busy'
  BY DEF Busy

\* What is queued is taken, all of it.
LEMMA SealTake ==
    ASSUME SealInv, GetTransactions PROVE SealInv'
<1> USE DEF SealInv
<1>1. /\ taken = << >> /\ taken' = queue /\ queue' = << >> /\ chain' = chain
      /\ outcome' = outcome /\ UNCHANGED <<step, message, session>>
  BY DEF GetTransactions, runVars
<1>2. Busy'
  BY <1>1, BusyApart
<1>3. Len(chain) \in Nat /\ 1 <= Len(chain)
  BY Appended DEF AllMade
<1>4. /\ Place(0) = queue /\ Place(1) = << >> /\ Place(0)' = << >> /\ Place(1)' = queue
      /\ \A j \in 2 .. Len(chain) : Place(j)' = Place(j)
  BY <1>1, <1>3 DEF Place
<1>5. \A x : x \in Slots' <=> \E j \in 0 .. Len(chain) : \E i \in DOMAIN Place(j)' : x = <<j, i>>
  BY <1>1 DEF Slots
<1> DEFINE f == [x \in Slots' |-> IF x[1] = 1 THEN <<0, x[2]>> ELSE x]
<1>6. \A x \in Slots' : \/ x[1] = 1 /\ x[2] \in DOMAIN queue /\ x = <<1, x[2]>>
                        \/ x[1] \in 2 .. Len(chain) /\ x \in Slots /\ x = <<x[1], x[2]>>
  BY <1>3, <1>4, <1>5, SlotIs
<1>7. \A x \in Slots : \/ x[1] = 0 /\ x[2] \in DOMAIN queue /\ x = <<0, x[2]>>
                       \/ x[1] \in 2 .. Len(chain) /\ x \in Slots'
  BY <1>3, <1>4, <1>5, SlotIs
<1>8. \A i \in DOMAIN queue : <<0, i>> \in Slots /\ <<1, i>> \in Slots'
  BY <1>3, <1>4, <1>5, SlotIs
<1>9. ASSUME NEW x \in Slots' PROVE f[x] \in Slots /\ Thing(x)' = Thing(f[x])
  BY <1>3, <1>4, <1>6, <1>8 DEF Thing
<1>10. ASSUME NEW x \in Slots', NEW y \in Slots', f[x] = f[y] PROVE x = y
  BY <1>3, <1>6, <1>10
<1>11. ASSUME NEW y \in Slots PROVE \E x \in Slots' : f[x] = y
  <2>1. CASE y[1] = 0
    <3>1. f[<<1, y[2]>>] = y /\ <<1, y[2]>> \in Slots'
      BY <1>3, <1>7, <1>8, <2>1
    <3> QED
      BY <3>1
  <2>2. CASE y[1] # 0
    BY <1>3, <1>7, <2>2
  <2> QED
    BY <2>1, <2>2
<1> HIDE DEF f
<1>12. /\ OnceEach'
       /\ \A x \in Slots' : \E m \in Messages : \E model : Thing(x)' = Made(m, model)
  BY <1>1, <1>9, <1>10, <1>11, Moved
<1>13. AllMade'
  <2>1. IsSeq(<< >>)
    BY DEF IsSeq, Elements
  <2>2. IsSeq(queue') /\ IsSeq(taken') /\ IsSeq(chain') /\ Len(chain') >= 1
    BY <1>1, <2>1 DEF AllMade
  <2> QED
    BY <1>12, <2>2 DEF AllMade, IsSeq, Elements, Made
<1>14. Linked'
  <2>1. \A i \in 2 .. Len(chain') : LinkAt(chain', i)
    BY <1>1 DEF Linked
  <2> QED
    BY <2>1 DEF Linked, LinkAt, IsSeq, Elements, HashOf, Signed, SignatureOf
<1> QED
  BY <1>2, <1>12, <1>13, <1>14
\* A block of what was taken names the last block, and is the next one.
LEMMA SealBlock ==
    ASSUME SealInv, GenerateBlock PROVE SealInv'
<1> USE DEF SealInv
<1>0. PICK n, b : n = Len(chain) + 1 /\ b = SignedBlock(NodeKey, Block(chain[Len(chain)].hash, taken))
  OBVIOUS
<1>1. /\ chain' = Append(chain, b) /\ taken' = << >> /\ queue' = queue
      /\ outcome' = outcome /\ UNCHANGED <<step, message, session>>
  BY <1>0 DEF GenerateBlock, runVars
<1>2. Busy'
  BY <1>1, BusyApart
<1>3. /\ b.block.transactions = taken /\ b.block.parent = chain[Len(chain)].hash
      /\ b.hash = HashOf(b.block) /\ Signed(NodeKey, b.hash, b.signature)
  BY <1>0 DEF SignedBlock, Block, Signed
<1>4. /\ IsSeq(chain') /\ Len(chain') = n /\ Len(chain) \in Nat /\ 1 <= Len(chain)
      /\ n \in Nat /\ 1 < n /\ n = Len(chain) + 1
      /\ chain'[n] = b /\ \A i \in 1 .. Len(chain) : chain'[i] = chain[i]
  BY <1>0, <1>1, Appended DEF AllMade
<1>5. /\ Place(0) = queue /\ Place(1) = taken /\ Place(0)' = queue /\ Place(1)' = << >>
      /\ Place(n)' = taken /\ \A j \in 2 .. Len(chain) : Place(j)' = Place(j)
  BY <1>1, <1>3, <1>4 DEF Place
<1>6. \A x : x \in Slots' <=> \E j \in 0 .. n : \E i \in DOMAIN Place(j)' : x = <<j, i>>
  BY <1>4 DEF Slots
<1> DEFINE f == [x \in Slots' |-> IF x[1] = n THEN <<1, x[2]>> ELSE x]
<1>7. \A j \in 0 .. n : j = 0 \/ j = 1 \/ j = n \/ j \in 2 .. Len(chain)
  BY <1>4
<1>8. \A x \in Slots' : \/ x[1] = n /\ x[2] \in DOMAIN taken /\ x = <<n, x[2]>>
                        \/ x[1] = 0 /\ x \in Slots /\ x = <<x[1], x[2]>>
                        \/ x[1] \in 2 .. Len(chain) /\ x \in Slots /\ x = <<x[1], x[2]>>
  BY <1>4, <1>5, <1>6, <1>7, SlotIs
<1>9. \A x \in Slots : \/ x[1] = 1 /\ x[2] \in DOMAIN taken /\ x = <<1, x[2]>>
                       \/ x[1] = 0 /\ x \in Slots'
                       \/ x[1] \in 2 .. Len(chain) /\ x \in Slots'
  BY <1>4, <1>5, <1>6, SlotIs
<1>10. \A i \in DOMAIN taken : <<1, i>> \in Slots /\ <<n, i>> \in Slots'
  BY <1>4, <1>5, <1>6, SlotIs
<1>11. ASSUME NEW x \in Slots' PROVE f[x] \in Slots /\ Thing(x)' = Thing(f[x])
  BY <1>4, <1>5, <1>8, <1>10 DEF Thing
<1>12. ASSUME NEW x \in Slots', NEW y \in Slots', f[x] = f[y] PROVE x = y
  BY <1>4, <1>8, <1>12
<1>13. ASSUME NEW y \in Slots PROVE \E x \in Slots' : f[x] = y
  <2>1. CASE y[1] = 1
    <3>1. f[<<n, y[2]>>] = y /\ <<n, y[2]>> \in Slots'
      BY <1>4, <1>9, <1>10, <2>1
    <3> QED
      BY <3>1
  <2>2. CASE y[1] # 1
    BY <1>4, <1>9, <2>2
  <2> QED
    BY <2>1, <2>2
<1> HIDE DEF f
<1>14. /\ OnceEach'
       /\ \A x \in Slots' : \E m \in Messages : \E model : Thing(x)' = Made(m, model)
  BY <1>1, <1>11, <1>12, <1>13, Moved
<1>15. AllMade'
  <2>1. IsSeq(<< >>)
    BY DEF IsSeq, Elements
  <2>2. IsSeq(queue') /\ IsSeq(taken') /\ IsSeq(chain') /\ Len(chain') >= 1
    BY <1>1, <1>4, <2>1 DEF AllMade
  <2> QED
    BY <1>14, <2>2 DEF AllMade, IsSeq, Elements, Made
<1>16. Linked'
  <2>1. LinkAt(chain', n)
    <3>1. chain'[n - 1] = chain[Len(chain)]
      BY <1>4
    <3> QED
      BY <1>3, <1>4, <3>1 DEF LinkAt, AllMade
  <2>2. ASSUME NEW i \in 2 .. Len(chain) PROVE LinkAt(chain', i)
    <3>1. chain'[i] = chain[i] /\ chain'[i - 1] = chain[i - 1] /\ LinkAt(chain, i)
      BY <1>4 DEF Linked
    <3> QED
      BY <3>1 DEF LinkAt
  <2>3. \A i \in 2 .. Len(chain') : LinkAt(chain', i)
    BY <1>4, <2>1, <2>2
  <2> QED
    BY <2>3 DEF Linked, LinkAt, IsSeq, Elements, HashOf, Signed, SignatureOf
<1> QED
  BY <1>2, <1>14, <1>15, <1>16

\* Every step keeps the chain sealed and each message in one place.
LEMMA SealStep == SealInv /\ [Next]_vars => SealInv'
<1> SUFFICES ASSUME SealInv, [Next]_vars PROVE SealInv'
  OBVIOUS
<1>1. ASSUME NEW t \in Threads, Run(t) \/ \E m \in Messages : ProcessTransaction(t, m)
      PROVE  SealInv'
  BY <1>1, SealRun, SealFinish
<1>2. CASE UNCHANGED vars
  <2>1. UNCHANGED <<step, message, session, outcome, blockVars>>
    BY <1>2 DEF vars, runVars
  <2> QED
    BY <2>1, BusyApart, QueuesNothing DEF SealInv
<1> QED
  BY <1>1, <1>2, SealTake, SealBlock DEF Next

(* BlocksSealed: however runs and the producer interleave, and whatever    *)
(* contracts leave, each block names the one before it and is signed as a  *)
(* whole, its transactions are those their clients signed with change sets *)
(* this node signed for them, and every processed message is queued or in  *)
(* a block exactly once (getTransactions, generateBlock, executeAction-    *)
(* Message and its session of the thread).                                 *)
THEOREM BlocksCorrect == Spec => []BlocksSealed
<1>1. SealInv => BlocksSealed
  <2> SUFFICES ASSUME SealInv PROVE Sealed
    BY DEF SealInv, BlocksSealed
  <2>1. Len(chain) \in Nat
    BY Appended DEF SealInv, AllMade
  <2>2. ASSUME NEW i \in 2 .. Len(chain), NEW x \in Elements(chain[i].block.transactions)
        PROVE  SealedTransaction(x)
    <3>1. Place(i) = chain[i].block.transactions
      BY DEF Place
    <3>2. PICK k \in DOMAIN Place(i) : x = Place(i)[k]
      BY <3>1 DEF Elements
    <3>3. <<i, k>> \in Slots /\ Thing(<<i, k>>) = x
      BY <2>1, <3>2, SlotIs DEF Thing
    <3>4. PICK m \in Messages : \E model : x = Made(m, model)
      BY <3>3 DEF SealInv, AllMade
    <3>5. PICK model : x = Made(m, model)
      BY <3>4
    <3> QED
      BY <3>5, MadeFacts
  <2> QED
    BY <2>2 DEF SealInv, Linked, LinkAt, Sealed
<1> QED
  BY SealStart, SealStep, <1>1, PTL DEF Spec

----------------------------------------------------------------------------
(* What the variables hold.                                                *)

\* A thread has a message unless it is idle, and a session and calls to make
\* only while its contract runs.
Placed(t) ==
    /\ (step[t] = "idle") <=> (message[t] = None)
    /\ (session[t] = NoSession) <=> (step[t] # "running")
    /\ calls[t] # << >> => step[t] = "running"

TypeInv ==
    /\ StringInv
    /\ Busy
    /\ calls = [t \in Threads |-> calls[t]]
    /\ \A t \in Threads : Placed(t)
    /\ taken # << >> => Len(chain) <= MaxBlocks

\* The threads a step does not concern keep their place.
LEMMA OthersPlaced ==
    ASSUME TypeInv, NEW t \in Threads, Placed(t)', calls' = [u \in Threads |-> calls'[u]],
           \A u \in Threads : u # t => /\ step'[u] = step[u] /\ message'[u] = message[u]
                                       /\ session'[u] = session[u] /\ calls'[u] = calls[u]
    PROVE  /\ calls' = [u \in Threads |-> calls'[u]]
           /\ \A u \in Threads : Placed(u)'
<1>1. ASSUME NEW u \in Threads, u # t PROVE Placed(u)'
  BY <1>1 DEF TypeInv, Placed, NoSession
<1> QED
  BY <1>1

\* What a step of a thread changes of the thread.
LEMMA ThreadPlaced ==
    ASSUME TypeInv, NEW t \in Threads, Run(t) \/ \E m \in Messages : ProcessTransaction(t, m)
    PROVE  /\ calls' = [u \in Threads |-> calls'[u]]
           /\ \A u \in Threads : Placed(u)'
           /\ UNCHANGED <<taken, chain>>
<1> USE DEF TypeInv
<1>0. /\ step \in [Threads -> Step] /\ message \in [Threads -> Messages \cup {None}]
      /\ session = [u \in Threads |-> session[u]] /\ calls = [u \in Threads |-> calls[u]]
      /\ None \notin Messages
  BY ContractAssumption DEF Busy
<1>1. ASSUME NEW m \in Messages, ProcessTransaction(t, m)
      PROVE  (\A u \in Threads : Placed(u)') /\ UNCHANGED <<calls, taken, chain>>
  <2>1. /\ step' = [step EXCEPT ![t] = "contract"] /\ message' = [message EXCEPT ![t] = m]
        /\ session' = session /\ calls' = calls /\ step[t] = "idle"
    BY <1>1 DEF ProcessTransaction, Goes
  <2>2. Placed(t)'
    BY <1>0, <2>1 DEF Placed, NoSession
  <2>3. \A u \in Threads : u # t => step'[u] = step[u] /\ message'[u] = message[u]
    BY <1>0, <2>1
  <2> QED
    BY <1>0, <1>1, <2>1, <2>2, <2>3, OthersPlaced DEF ProcessTransaction, blockVars
<1>2. ASSUME Throw(t)
      PROVE  /\ calls' = [u \in Threads |-> calls'[u]]
             /\ \A u \in Threads : Placed(u)'
             /\ UNCHANGED <<taken, chain>>
  <2>1. /\ step' = [step EXCEPT ![t] = "idle"] /\ message' = [message EXCEPT ![t] = None]
        /\ session' = [session EXCEPT ![t] = NoSession] /\ calls' = [calls EXCEPT ![t] = << >>]
    BY <1>2 DEF Throw, Goes, EndScope
  <2>2. Placed(t)'
    <3>1. step'[t] = "idle" /\ message'[t] = None /\ session'[t] = NoSession /\ calls'[t] = << >>
      BY <1>0, <2>1
    <3> QED
      BY <3>1 DEF Placed, NoSession
  <2>3. /\ \A u \in Threads : u # t => /\ step'[u] = step[u] /\ message'[u] = message[u]
                                       /\ session'[u] = session[u] /\ calls'[u] = calls[u]
        /\ calls' = [u \in Threads |-> calls'[u]]
    BY <1>0, <2>1
  <2> QED
    BY <1>2, <2>2, <2>3, OthersPlaced DEF Throw, blockVars
<1>3. ASSUME Finish(t)
      PROVE  (\A u \in Threads : Placed(u)') /\ UNCHANGED <<calls, taken, chain>>
  <2>1. /\ step' = [step EXCEPT ![t] = "idle"] /\ message' = [message EXCEPT ![t] = None]
        /\ session' = [session EXCEPT ![t] = NoSession] /\ calls' = calls /\ calls[t] = << >>
    BY <1>3 DEF Finish, Goes, EndScope
  <2>2. Placed(t)'
    <3>1. step'[t] = "idle" /\ message'[t] = None /\ session'[t] = NoSession /\ calls'[t] = << >>
      BY <1>0, <2>1
    <3> QED
      BY <3>1 DEF Placed, NoSession
  <2>3. \A u \in Threads : u # t => /\ step'[u] = step[u] /\ message'[u] = message[u]
                                    /\ session'[u] = session[u]
    BY <1>0, <2>1
  <2> QED
    BY <1>0, <1>3, <2>1, <2>2, <2>3, OthersPlaced DEF Finish
<1>4. ASSUME GetContract(t), ~Throw(t)
      PROVE  (\A u \in Threads : Placed(u)') /\ UNCHANGED <<calls, taken, chain>>
  <2>1. /\ step' = [step EXCEPT ![t] = "sandbox"] /\ step[t] = "contract"
        /\ UNCHANGED <<message, session, calls, taken, chain>>
    BY <1>4 DEF GetContract, Goes, blockVars
  <2>2. Placed(t)'
    BY <1>0, <2>1 DEF Placed, NoSession
  <2>3. \A u \in Threads : u # t => step'[u] = step[u]
    BY <1>0, <2>1
  <2> QED
    BY <1>0, <2>1, <2>2, <2>3, OthersPlaced
<1>5. ASSUME NEW s, NEW c, s.message \in Messages, step[t] \in {"sandbox", "running"},
             step' = [step EXCEPT ![t] = "running"], UNCHANGED <<message, taken, chain>>,
             session' = [session EXCEPT ![t] = s], calls' = [calls EXCEPT ![t] = c]
      PROVE  /\ calls' = [u \in Threads |-> calls'[u]]
             /\ \A u \in Threads : Placed(u)'
             /\ UNCHANGED <<taken, chain>>
  <2>1. step'[t] = "running" /\ message'[t] = message[t] /\ session'[t] = s
    BY <1>0, <1>5
  <2>2. s # NoSession
    BY <1>0, <1>5 DEF NoSession
  <2>3. Placed(t)'
    BY <1>5, <2>1, <2>2 DEF Placed, NoSession
  <2>4. /\ \A u \in Threads : u # t => /\ step'[u] = step[u] /\ message'[u] = message[u]
                                       /\ session'[u] = session[u] /\ calls'[u] = calls[u]
        /\ calls' = [u \in Threads |-> calls'[u]]
    BY <1>0, <1>5
  <2> QED
    BY <1>5, <2>3, <2>4, OthersPlaced
<1>6. step[t] # "idle" => message[t] \in Messages
  BY DEF Busy
<1>7. step[t] = "running" => session[t].message = message[t]
  BY DEF Busy
<1>8. step[t] = "running" /\ step' = step => step' = [step EXCEPT ![t] = "running"]
  BY <1>0
<1>9. session' = session => session' = [session EXCEPT ![t] = session[t]]
  BY <1>0
<1>10. CASE Execute(t) /\ ~Throw(t)
  <2> DEFINE s == [message |-> message[t], model |-> << >>, store |-> {}]
             c == contract[t].start \o EntryCalls(contract[t], StatusOf[message[t]])
  <2>1. /\ step[t] = "sandbox" /\ step' = [step EXCEPT ![t] = "running"]
        /\ session' = [session EXCEPT ![t] = s] /\ calls' = [calls EXCEPT ![t] = c]
        /\ UNCHANGED <<message, taken, chain>>
    BY <1>10 DEF Execute, Goes, blockVars
  <2>2. s.message \in Messages
    BY <1>6, <2>1
  <2> HIDE DEF s, c
  <2> QED
    BY <1>5, <2>1, <2>2
<1>11. CASE WriteCall(t)
  <2> DEFINE s == WithEntries(session[t], EntriesOf(session[t].message, Head(calls[t])))
             c == Tail(calls[t])
  <2>1. /\ step[t] = "running" /\ step' = step /\ UNCHANGED <<message, taken, chain>>
        /\ session' = [session EXCEPT ![t] = s] /\ calls' = [calls EXCEPT ![t] = c]
    BY <1>11 DEF WriteCall, Calls, Called, Owner, blockVars
  <2>2. s.message \in Messages
    BY <1>6, <1>7, <2>1 DEF WithEntries
  <2> HIDE DEF s, c
  <2> QED
    BY <1>5, <1>8, <2>1, <2>2
<1>12. CASE (ReadCall(t) \/ AccountCall(t) \/ OtherCall(t) \/ Trap(t)) /\ ~Throw(t)
  <2> DEFINE c == Tail(calls[t])
  <2>1. /\ step[t] = "running" /\ step' = step /\ UNCHANGED <<message, session, taken, chain>>
        /\ calls' = [calls EXCEPT ![t] = c]
    BY <1>12 DEF ReadCall, AccountCall, OtherCall, Trap, Calls, Called, blockVars
  <2> HIDE DEF c
  <2> QED
    BY <1>5, <1>6, <1>7, <1>8, <1>9, <2>1
<1>13. CASE Finish(t) \/ Throw(t) \/ GetContract(t)
  BY <1>0, <1>2, <1>3, <1>4, <1>13
<1>14. CASE \E m \in Messages : ProcessTransaction(t, m)
  BY <1>0, <1>1, <1>14
<1> QED
  BY <1>10, <1>11, <1>12, <1>13, <1>14 DEF Run

\* At the start every thread is idle.
LEMMA TypeStart == Init => TypeInv
<1> SUFFICES ASSUME Init PROVE TypeInv
  OBVIOUS
<1>1. StringInv /\ Busy
  BY StringsStart, SealStart DEF SealInv
<1>2. /\ calls = [t \in Threads |-> << >>] /\ step = [t \in Threads |-> "idle"]
      /\ message = [t \in Threads |-> None] /\ session = [t \in Threads |-> NoSession]
      /\ taken = << >>
  BY DEF Init
<1>3. ASSUME NEW t \in Threads PROVE Placed(t)
  BY <1>2 DEF Placed, NoSession
<1> QED
  BY <1>1, <1>2, <1>3 DEF TypeInv

\* Every step keeps what the variables hold.
LEMMA TypeStep == SealInv /\ TypeInv /\ [Next]_vars => TypeInv'
<1> SUFFICES ASSUME SealInv, TypeInv, [Next]_vars PROVE TypeInv'
  OBVIOUS
<1>1. StringInv' /\ Busy'
  BY StringsStep, SealStep DEF SealInv, TypeInv
<1>2. ASSUME NEW t \in Threads, Run(t) \/ \E m \in Messages : ProcessTransaction(t, m)
      PROVE  TypeInv'
  BY <1>1, <1>2, ThreadPlaced DEF TypeInv
<1>3. CASE GetTransactions \/ GenerateBlock \/ UNCHANGED vars
  <2>1. UNCHANGED <<step, message, session, calls>>
    BY <1>3 DEF GetTransactions, GenerateBlock, vars, runVars
  <2>2. \A t \in Threads : Placed(t)'
    BY <2>1 DEF TypeInv, Placed, NoSession
  <2>3. taken' # << >> => Len(chain') <= MaxBlocks
    BY <1>3 DEF GetTransactions, GenerateBlock, vars, blockVars, TypeInv
  <2> QED
    BY <1>1, <2>1, <2>2, <2>3 DEF TypeInv
<1> QED
  BY <1>2, <1>3 DEF Next

(* TypeOK: a thread has a message exactly while it works on one, and calls *)
(* to make only while its contract runs, however the run ends              *)
(* (executeActionMessage and the rethrow of processTransaction).           *)
THEOREM RunsTyped == Spec => []TypeOK
<1>1. TypeInv => TypeOK
  BY DEF TypeInv, TypeOK, StringInv, Busy, Placed
<1> QED
  BY SealStart, SealStep, TypeStart, TypeStep, <1>1, PTL DEF Spec

----------------------------------------------------------------------------
(* The model that a run leaves, as AddModelEntry makes it.                 *)

PredicatesShaped(ps) ==
    /\ IsSeq(ps)
    /\ \A i \in DOMAIN ps : /\ ps[i] = [predicate |-> ps[i].predicate, objects |-> ps[i].objects]
                            /\ IsSeq(ps[i].objects)
    /\ \A i, j \in DOMAIN ps : ps[i].predicate = ps[j].predicate => i = j
Shaped(model) ==
    /\ IsSeq(model)
    /\ \A i \in DOMAIN model :
           /\ model[i] = [subject |-> model[i].subject, predicates |-> model[i].predicates]
           /\ PredicatesShaped(model[i].predicates)
    /\ \A i, j \in DOMAIN model : model[i].subject = model[j].subject => i = j

Lists(ps, p, objects) == \E i \in DOMAIN ps : ps[i].predicate = p /\ ps[i].objects = objects
At(model, s, p, objects) ==
    \E i \in DOMAIN model : model[i].subject = s /\ Lists(model[i].predicates, p, objects)

\* A function on the first numbers is a sequence.
LEMMA Numbered ==
    ASSUME NEW n \in Nat, NEW f, f = [i \in 1 .. n |-> f[i]]
    PROVE  IsSeq(f) /\ DOMAIN f = 1 .. n
<1>1. DOMAIN f = 1 .. n
  OBVIOUS
<1>2. f \in [1 .. n -> Elements(f)]
  BY <1>1 DEF Elements
<1> QED
  BY <1>1, <1>2 DEF IsSeq

\* The sequence with nothing in it.
LEMMA EmptySeq == IsSeq(<< >>) /\ DOMAIN << >> = {}
<1>1. << >> \in Seq(Elements(<< >>)) /\ Len(<< >>) = 0
  OBVIOUS
<1> QED
  BY <1>1 DEF IsSeq

\* A predicate is there once it has been asked for.
LEMMA PredicateNamed ==
    ASSUME NEW ps, PredicatesShaped(ps), NEW p
    PROVE  LET named == GetPredicate(ps, p)
           IN  /\ PredicatesShaped(named)
               /\ \E k \in DOMAIN named : named[k].predicate = p
               /\ \A q, l : Lists(named, q, l) <=>
                      \/ Lists(ps, q, l)
                      \/ q = p /\ l = << >> /\ ~HasPredicate(ps, p)
<1>1. HasPredicate(ps, p) <=> \E k \in DOMAIN ps : ps[k].predicate = p
  BY DEF HasPredicate, Elements
<1>2. CASE HasPredicate(ps, p)
  BY <1>1, <1>2 DEF GetPredicate
<1>3. CASE ~HasPredicate(ps, p)
  <2> DEFINE new == [predicate |-> p, objects |-> << >>]
             n == Len(ps) + 1
  <2>1. PICK named : named = GetPredicate(ps, p)
    OBVIOUS
  <2>2. named = Append(ps, new)
    BY <1>3, <2>1 DEF GetPredicate
  <2>3. /\ IsSeq(named) /\ Len(ps) \in Nat /\ DOMAIN ps = 1 .. Len(ps)
        /\ DOMAIN named = 1 .. n /\ named[n] = new /\ \A i \in 1 .. Len(ps) : named[i] = ps[i]
    BY <2>2, Appended DEF PredicatesShaped
  <2>4. /\ new.predicate = p /\ new.objects = << >> /\ IsSeq(new.objects)
        /\ new = [predicate |-> new.predicate, objects |-> new.objects]
    BY EmptySeq
  <2> HIDE DEF new
  <2>5. DOMAIN named = DOMAIN ps \cup {n} /\ n \notin DOMAIN ps
    BY <2>3
  <2>6. PredicatesShaped(named)
    <3>1. \A i \in DOMAIN named : /\ named[i] = [predicate |-> named[i].predicate, objects |-> named[i].objects]
                                  /\ IsSeq(named[i].objects)
      BY <2>3, <2>4, <2>5 DEF PredicatesShaped
    <3>2. \A i, j \in DOMAIN named : named[i].predicate = named[j].predicate => i = j
      BY <1>1, <1>3, <2>3, <2>4, <2>5 DEF PredicatesShaped
    <3> QED
      BY <2>3, <3>1, <3>2 DEF PredicatesShaped
  <2>7. \A q, l : Lists(named, q, l) <=> Lists(ps, q, l) \/ (q = p /\ l = << >>)
    BY <2>3, <2>4, <2>5 DEF Lists
  <2> QED
    BY <1>3, <2>1, <2>3, <2>4, <2>5, <2>6, <2>7
<1> QED
  BY <1>2, <1>3

\* An object goes to the end of its predicate's.
LEMMA ObjectAdded ==
    ASSUME NEW ps, PredicatesShaped(ps), NEW p, NEW v
    PROVE  LET new == AddObject(GetPredicate(ps, p), p, v)
           IN  /\ PredicatesShaped(new)
               /\ \A q, l : Lists(new, q, l) <=>
                      \/ q # p /\ Lists(ps, q, l)
                      \/ q = p /\ \E k : Lists(ps, p, k) /\ l = Append(k, v)
                      \/ q = p /\ l = <<v>> /\ ~\E k : Lists(ps, p, k)
<1>1. PICK named, new : named = GetPredicate(ps, p) /\ new = AddObject(named, p, v)
  OBVIOUS
<1>2. /\ PredicatesShaped(named)
      /\ \A q, l : Lists(named, q, l) <=>
             Lists(ps, q, l) \/ (q = p /\ l = << >> /\ ~HasPredicate(ps, p))
  BY <1>1, PredicateNamed
<1>3. HasPredicate(ps, p) <=> \E k : Lists(ps, p, k)
  BY DEF HasPredicate, Elements, Lists
<1>4. DOMAIN new = DOMAIN named /\ new = [i \in DOMAIN named |-> new[i]]
  BY <1>1 DEF AddObject
<1>5. ASSUME NEW i \in DOMAIN named
      PROVE  /\ new[i] = [predicate |-> new[i].predicate, objects |-> new[i].objects]
             /\ new[i].predicate = named[i].predicate
             /\ named[i].predicate = p => new[i].objects = Append(named[i].objects, v)
             /\ named[i].predicate # p => new[i].objects = named[i].objects
             /\ IsSeq(new[i].objects)
  <2>1. new[i] = IF named[i].predicate = p
                 THEN [named[i] EXCEPT !.objects = Append(@, v)] ELSE named[i]
    BY <1>1 DEF AddObject
  <2>2. /\ named[i] = [predicate |-> named[i].predicate, objects |-> named[i].objects]
        /\ IsSeq(named[i].objects)
    BY <1>2 DEF PredicatesShaped
  <2>3. IsSeq(Append(named[i].objects, v))
    BY <2>2, Appended
  <2>4. PICK a, b : a = named[i].predicate /\ b = named[i].objects
    OBVIOUS
  <2>5. named[i] = [predicate |-> a, objects |-> b]
    BY <2>2, <2>4
  <2>6. new[i] = IF a = p THEN [predicate |-> a, objects |-> Append(b, v)] ELSE [predicate |-> a, objects |-> b]
    BY <2>1, <2>4, <2>5
  <2> QED
    BY <2>2, <2>3, <2>4, <2>6
<1>6. IsSeq(named) /\ Len(named) \in Nat /\ DOMAIN named = 1 .. Len(named)
  BY <1>2, Appended DEF PredicatesShaped
<1>7. IsSeq(new)
  BY <1>4, <1>6, Numbered
<1>8. PredicatesShaped(new)
  BY <1>2, <1>4, <1>5, <1>7 DEF PredicatesShaped
<1>9. \A q, l : Lists(new, q, l) <=>
          \/ q # p /\ Lists(named, q, l)
          \/ q = p /\ \E k : Lists(named, p, k) /\ l = Append(k, v)
  <2>1. ASSUME NEW q, NEW l, q # p PROVE Lists(new, q, l) <=> Lists(named, q, l)
    BY <1>4, <1>5, <2>1 DEF Lists
  <2>2. ASSUME NEW l, Lists(new, p, l) PROVE \E k : Lists(named, p, k) /\ l = Append(k, v)
    BY <1>4, <1>5, <2>2 DEF Lists
  <2>3. ASSUME NEW k, Lists(named, p, k) PROVE Lists(new, p, Append(k, v))
    BY <1>4, <1>5, <2>3 DEF Lists
  <2> QED
    BY <2>1, <2>2, <2>3
<1>10. Append(<< >>, v) = <<v>>
  OBVIOUS
<1> QED
  BY <1>1, <1>2, <1>3, <1>8, <1>9, <1>10

\* A subject is there once it has been asked for.
LEMMA SubjectNamed ==
    ASSUME NEW model, Shaped(model), NEW s
    PROVE  LET named == GetSubject(model, s)
           IN  /\ Shaped(named)
               /\ \E k \in DOMAIN named : named[k].subject = s
               /\ \A x, q, l : At(named, x, q, l) <=> At(model, x, q, l)
               /\ Subjects(named) = Subjects(model) \cup {s}
<1>1. HasSubject(model, s) <=> \E k \in DOMAIN model : model[k].subject = s
  BY DEF HasSubject, Elements
<1>2. CASE HasSubject(model, s)
  BY <1>1, <1>2 DEF GetSubject, Subjects, Elements
<1>3. CASE ~HasSubject(model, s)
  <2> DEFINE new == [subject |-> s, predicates |-> << >>]
             n == Len(model) + 1
  <2>1. PICK named : named = GetSubject(model, s)
    OBVIOUS
  <2>2. named = Append(model, new)
    BY <1>3, <2>1 DEF GetSubject
  <2>3. /\ IsSeq(named) /\ Len(model) \in Nat /\ DOMAIN model = 1 .. Len(model)
        /\ DOMAIN named = 1 .. n /\ named[n] = new /\ \A i \in 1 .. Len(model) : named[i] = model[i]
    BY <2>2, Appended DEF Shaped
  <2>4. /\ new.subject = s /\ PredicatesShaped(new.predicates)
        /\ \A q, l : ~Lists(new.predicates, q, l)
        /\ new = [subject |-> new.subject, predicates |-> new.predicates]
    <3>1. new.predicates = << >> /\ new.subject = s
      OBVIOUS
    <3> QED
      BY <3>1, EmptySeq DEF PredicatesShaped, Lists
  <2> HIDE DEF new
  <2>5. DOMAIN named = DOMAIN model \cup {n} /\ n \notin DOMAIN model
    BY <2>3
  <2>6. Shaped(named)
    <3>1. \A i \in DOMAIN named : /\ named[i] = [subject |-> named[i].subject, predicates |-> named[i].predicates]
                                  /\ PredicatesShaped(named[i].predicates)
      BY <2>3, <2>4, <2>5 DEF Shaped
    <3>2. \A i, j \in DOMAIN named : named[i].subject = named[j].subject => i = j
      BY <1>1, <1>3, <2>3, <2>4, <2>5 DEF Shaped
    <3> QED
      BY <2>3, <3>1, <3>2 DEF Shaped
  <2>7. \A x, q, l : At(named, x, q, l) <=> At(model, x, q, l)
    BY <2>3, <2>4, <2>5 DEF At
  <2>8. Subjects(named) = Subjects(model) \cup {s}
    BY <2>3, <2>4, <2>5 DEF Subjects, Elements
  <2> QED
    BY <2>1, <2>3, <2>4, <2>5, <2>6, <2>7, <2>8
<1> QED
  BY <1>2, <1>3

\* An entry adds an object to the end of its list, and to no other.
LEMMA EntryAdded ==
    ASSUME NEW model, Shaped(model), NEW s, NEW p, NEW v
    PROVE  LET new == AddModelEntry(model, s, p, v)
           IN  /\ Shaped(new)
               /\ Subjects(new) = Subjects(model) \cup {s}
               /\ \A x, q, l : At(new, x, q, l) <=>
                      \/ <<x, q>> # <<s, p>> /\ At(model, x, q, l)
                      \/ x = s /\ q = p /\ \E k : At(model, s, p, k) /\ l = Append(k, v)
                      \/ x = s /\ q = p /\ l = <<v>> /\ ~\E k : At(model, s, p, k)
<1>1. PICK named, new : named = GetSubject(model, s) /\ new = AddModelEntry(model, s, p, v)
  OBVIOUS
<1>2. /\ Shaped(named) /\ \E k \in DOMAIN named : named[k].subject = s
      /\ \A x, q, l : At(named, x, q, l) <=> At(model, x, q, l)
      /\ Subjects(named) = Subjects(model) \cup {s}
  BY <1>1, SubjectNamed
<1>3. DOMAIN new = DOMAIN named /\ new = [i \in DOMAIN named |-> new[i]]
  BY <1>1 DEF AddModelEntry
<1>4. ASSUME NEW i \in DOMAIN named
      PROVE  /\ new[i] = [subject |-> new[i].subject, predicates |-> new[i].predicates]
             /\ new[i].subject = named[i].subject
             /\ named[i].subject = s =>
                    new[i].predicates = AddObject(GetPredicate(named[i].predicates, p), p, v)
             /\ named[i].subject # s => new[i].predicates = named[i].predicates
  <2>1. new[i] = IF named[i].subject = s
                 THEN [named[i] EXCEPT !.predicates = AddObject(GetPredicate(@, p), p, v)] ELSE named[i]
    BY <1>1 DEF AddModelEntry
  <2>2. named[i] = [subject |-> named[i].subject, predicates |-> named[i].predicates]
    BY <1>2 DEF Shaped
  <2>3. PICK a, b : a = named[i].subject /\ b = named[i].predicates
    OBVIOUS
  <2>4. named[i] = [subject |-> a, predicates |-> b]
    BY <2>2, <2>3
  <2>5. new[i] = IF a = s THEN [subject |-> a, predicates |-> AddObject(GetPredicate(b, p), p, v)]
                 ELSE [subject |-> a, predicates |-> b]
    BY <2>1, <2>3, <2>4
  <2> QED
    BY <2>2, <2>3, <2>4, <2>5
<1>5. IsSeq(new)
  <2>1. IsSeq(named) /\ Len(named) \in Nat /\ DOMAIN named = 1 .. Len(named)
    BY <1>2, Appended DEF Shaped
  <2> QED
    BY <1>3, <2>1, Numbered
<1>6. ASSUME NEW i \in DOMAIN named, named[i].subject = s
      PROVE  /\ PredicatesShaped(new[i].predicates)
             /\ \A q, l : Lists(new[i].predicates, q, l) <=>
                    \/ q # p /\ Lists(named[i].predicates, q, l)
                    \/ q = p /\ \E k : Lists(named[i].predicates, p, k) /\ l = Append(k, v)
                    \/ q = p /\ l = <<v>> /\ ~\E k : Lists(named[i].predicates, p, k)
  <2>1. PredicatesShaped(named[i].predicates)
    BY <1>2 DEF Shaped
  <2>2. new[i].predicates = AddObject(GetPredicate(named[i].predicates, p), p, v)
    BY <1>4, <1>6
  <2> QED
    BY <2>1, <2>2, ObjectAdded
<1>7. Shaped(new)
  <2>1. \A i \in DOMAIN named : PredicatesShaped(new[i].predicates)
    BY <1>2, <1>4, <1>6 DEF Shaped
  <2> QED
    BY <1>2, <1>3, <1>4, <1>5, <2>1 DEF Shaped
<1>8. Subjects(new) = Subjects(named)
  BY <1>3, <1>4 DEF Subjects, Elements
<1>9. PICK h \in DOMAIN named : named[h].subject = s /\ \A i \in DOMAIN named : named[i].subject = s => i = h
  BY <1>2 DEF Shaped
<1>10. ASSUME NEW q, NEW l
       PROVE  /\ At(named, s, q, l) <=> Lists(named[h].predicates, q, l)
              /\ At(new, s, q, l) <=> Lists(new[h].predicates, q, l)
  BY <1>3, <1>4, <1>9 DEF At
<1>11. ASSUME NEW x, x # s, NEW q, NEW l PROVE At(new, x, q, l) <=> At(named, x, q, l)
  BY <1>3, <1>4, <1>11 DEF At
<1>12. ASSUME NEW x, NEW q, NEW l
       PROVE  At(new, x, q, l) <=>
                      \/ <<x, q>> # <<s, p>> /\ At(named, x, q, l)
                      \/ x = s /\ q = p /\ \E k : At(named, s, p, k) /\ l = Append(k, v)
                      \/ x = s /\ q = p /\ l = <<v>> /\ ~\E k : At(named, s, p, k)
  <2>1. <<x, q>> # <<s, p>> <=> x # s \/ q # p
    OBVIOUS
  <2>2. CASE x # s
    BY <1>11, <2>1, <2>2
  <2>3. CASE x = s
    BY <1>6, <1>9, <1>10, <2>1, <2>3
  <2> QED
    BY <2>2, <2>3
<1> QED
  BY <1>1, <1>2, <1>7, <1>8, <1>12

\* A list is found by its subject and predicate.
LEMMA Listed ==
    ASSUME NEW model, Shaped(model), NEW s, NEW p, NEW l, At(model, s, p, l)
    PROVE  ListObjects(model, s, p) = l /\ IsSeq(l)
<1>1. PICK i \in DOMAIN model : model[i].subject = s /\ Lists(model[i].predicates, p, l)
  BY DEF At
<1>2. PICK j \in DOMAIN model[i].predicates :
          model[i].predicates[j].predicate = p /\ model[i].predicates[j].objects = l
  BY <1>1 DEF Lists
<1>3. (CHOOSE x \in Elements(model) : x.subject = s) = model[i]
  BY <1>1 DEF Shaped, Elements
<1>4. PredicatesShaped(model[i].predicates)
  BY DEF Shaped
<1>5. (CHOOSE x \in Elements(model[i].predicates) : x.predicate = p) = model[i].predicates[j]
  BY <1>2, <1>4 DEF PredicatesShaped, Elements
<1> QED
  BY <1>2, <1>3, <1>4, <1>5 DEF ListObjects, PredicatesShaped

Earlier(v, w) == v.call < w.call \/ (v.call = w.call /\ v.number < w.number)

(* The model is what these writes, all of one message, come to.            *)
Holds(model, writes) ==
    /\ Shaped(model)
    /\ Subjects(model) = {w.entry[1] : w \in writes}
    /\ \A w \in writes : \E l :
           /\ At(model, w.entry[1], w.entry[2], l)
           /\ Len(l) = Cardinality(Beside(writes, w))
           /\ l[Cardinality(Before(writes, w)) + 1] = w.entry[3]
    /\ \A s, p, l : At(model, s, p, l) => \E w \in writes : w.entry[1] = s /\ w.entry[2] = p

\* One more write, later than those there are, gives one more object.
LEMMA WriteAdded ==
    ASSUME NEW model, NEW writes, IsFiniteSet(writes), Holds(model, writes),
           NEW x, x.call \in Nat, x.number \in Nat,
           \A w \in writes : /\ w.of = x.of /\ w.call \in Nat /\ w.number \in Nat
                             /\ Earlier(w, x)
    PROVE  /\ IsFiniteSet(writes \cup {x})
           /\ Holds(AddModelEntry(model, x.entry[1], x.entry[2], x.entry[3]), writes \cup {x})
<1>1. PICK s, p, v, new, all :
          /\ s = x.entry[1] /\ p = x.entry[2] /\ v = x.entry[3]
          /\ new = AddModelEntry(model, s, p, v) /\ all = writes \cup {x}
  OBVIOUS
<1> DEFINE Same(w) == w.entry[1] = s /\ w.entry[2] = p
<1>2. /\ Shaped(new) /\ Subjects(new) = Subjects(model) \cup {s}
      /\ \A y, q, l : At(new, y, q, l) <=>
             \/ <<y, q>> # <<s, p>> /\ At(model, y, q, l)
             \/ y = s /\ q = p /\ \E k : At(model, s, p, k) /\ l = Append(k, v)
             \/ y = s /\ q = p /\ l = <<v>> /\ ~\E k : At(model, s, p, k)
  BY <1>1, EntryAdded DEF Holds
<1>3. IsFiniteSet(all) /\ x \notin writes
  BY <1>1, FS_AddElement DEF Earlier
<1>4. Subjects(new) = {w.entry[1] : w \in all}
  BY <1>1, <1>2 DEF Holds
<1>5. ASSUME NEW w \in writes
      PROVE  /\ Before(all, w) = Before(writes, w)
             /\ Same(w) => Beside(all, w) = Beside(writes, w) \cup {x}
             /\ ~Same(w) => Beside(all, w) = Beside(writes, w)
             /\ Same(w) => Beside(writes, w) = Before(all, x)
  BY <1>1, <1>3 DEF Before, Beside, Earlier
<1>6. ASSUME NEW w \in writes
      PROVE  /\ IsFiniteSet(Beside(writes, w)) /\ Cardinality(Beside(writes, w)) \in Nat
             /\ Cardinality(Before(writes, w)) \in Nat
             /\ Cardinality(Before(writes, w)) + 1 <= Cardinality(Beside(writes, w))
             /\ x \notin Beside(writes, w)
  <2>1. IsFiniteSet(Beside(writes, w)) /\ IsFiniteSet(Before(writes, w))
    <3>1. Beside(writes, w) \subseteq writes /\ Before(writes, w) \subseteq writes
      BY DEF Beside, Before
    <3> QED
      BY <3>1, FS_Subset
  <2>2. w \notin Before(writes, w) /\ Before(writes, w) \cup {w} \subseteq Beside(writes, w)
    BY DEF Beside, Before
  <2>3. Cardinality(Before(writes, w) \cup {w}) = Cardinality(Before(writes, w)) + 1
    BY <2>1, <2>2, FS_AddElement
  <2>4. Cardinality(Before(writes, w) \cup {w}) <= Cardinality(Beside(writes, w))
    BY <2>1, <2>2, FS_Subset
  <2> QED
    BY <1>3, <2>1, <2>3, <2>4, FS_CardinalityType DEF Beside
<1>7. Beside(all, x) = Before(all, x) \cup {x} /\ x \notin Before(all, x)
  BY <1>1, <1>3 DEF Before, Beside, Earlier
<1>8. ASSUME NEW w \in writes, ~Same(w)
      PROVE  \E l : /\ At(new, w.entry[1], w.entry[2], l)
                    /\ Len(l) = Cardinality(Beside(all, w))
                    /\ l[Cardinality(Before(all, w)) + 1] = w.entry[3]
  <2>1. <<w.entry[1], w.entry[2]>> # <<s, p>>
    BY <1>8
  <2> QED
    BY <1>2, <1>5, <1>8, <2>1 DEF Holds
<1>9. ASSUME NEW w \in writes, Same(w)
      PROVE  /\ \E l : /\ At(new, s, p, l)
                       /\ Len(l) = Cardinality(Beside(all, w))
                       /\ l[Cardinality(Before(all, w)) + 1] = w.entry[3]
             /\ \E l : /\ At(new, s, p, l)
                       /\ Len(l) = Cardinality(Beside(all, x))
                       /\ l[Cardinality(Before(all, x)) + 1] = v
  <2>1. PICK k : /\ At(model, s, p, k)
                 /\ Len(k) = Cardinality(Beside(writes, w))
                 /\ k[Cardinality(Before(writes, w)) + 1] = w.entry[3]
    BY <1>9 DEF Holds
  <2>2. IsSeq(k)
    BY <2>1, Listed DEF Holds
  <2>3. PICK l : l = Append(k, v)
    OBVIOUS
  <2>4. At(new, s, p, l)
    BY <1>2, <2>1, <2>3
  <2>5. /\ Len(l) = Len(k) + 1 /\ Len(k) \in Nat /\ l[Len(k) + 1] = v
        /\ \A i \in 1 .. Len(k) : l[i] = k[i]
    BY <2>2, <2>3, Appended
  <2>6. /\ Cardinality(Beside(all, w)) = Cardinality(Beside(writes, w)) + 1
        /\ Cardinality(Before(all, x)) = Cardinality(Beside(writes, w))
        /\ Cardinality(Beside(all, x)) = Cardinality(Beside(writes, w)) + 1
    <3>1. /\ Beside(all, w) = Beside(writes, w) \cup {x} /\ Before(all, x) = Beside(writes, w)
          /\ Beside(all, x) = Beside(writes, w) \cup {x}
      BY <1>5, <1>7, <1>9
    <3>2. Cardinality(Beside(writes, w) \cup {x}) = Cardinality(Beside(writes, w)) + 1
      BY <1>6, FS_AddElement
    <3> QED
      BY <3>1, <3>2
  <2>7. l[Cardinality(Before(all, w)) + 1] = w.entry[3]
    BY <1>5, <1>6, <2>1, <2>5
  <2> QED
    BY <2>1, <2>4, <2>5, <2>6, <2>7
<1>10. ASSUME \A w \in writes : ~Same(w)
       PROVE  \E l : /\ At(new, s, p, l)
                     /\ Len(l) = Cardinality(Beside(all, x))
                     /\ l[Cardinality(Before(all, x)) + 1] = v
  <2>1. ~\E k : At(model, s, p, k)
    BY <1>10 DEF Holds
  <2>2. At(new, s, p, <<v>>)
    BY <1>2, <2>1
  <2>3. Before(all, x) = {}
    BY <1>1, <1>10 DEF Before, Beside
  <2>4. Cardinality(Before(all, x)) = 0 /\ Cardinality(Beside(all, x)) = 1
    <3>1. IsFiniteSet(Before(all, x)) /\ Cardinality(Before(all, x)) = 0
      BY <2>3, FS_EmptySet
    <3>2. Cardinality(Before(all, x) \cup {x}) = Cardinality(Before(all, x)) + 1
      BY <1>7, <3>1, FS_AddElement
    <3> QED
      BY <1>7, <3>1, <3>2
  <2> QED
    BY <2>2, <2>4
<1>11. \A w \in all : \E l : /\ At(new, w.entry[1], w.entry[2], l)
                             /\ Len(l) = Cardinality(Beside(all, w))
                             /\ l[Cardinality(Before(all, w)) + 1] = w.entry[3]
  <2>1. ASSUME NEW w \in writes
        PROVE  \E l : /\ At(new, w.entry[1], w.entry[2], l)
                      /\ Len(l) = Cardinality(Beside(all, w))
                      /\ l[Cardinality(Before(all, w)) + 1] = w.entry[3]
    BY <1>8, <1>9
  <2> QED
    BY <1>1, <1>9, <1>10, <2>1
<1>12. ASSUME NEW y, NEW q, NEW l, At(new, y, q, l)
       PROVE  \E w \in all : w.entry[1] = y /\ w.entry[2] = q
  BY <1>1, <1>2, <1>12 DEF Holds
<1>13. Holds(new, all)
  BY <1>2, <1>4, <1>11, <1>12 DEF Holds
<1> QED
  BY <1>1, <1>3, <1>13

\* One entry of a list, to the model and to the store.
EntryAt(model, entries, i) == AddModelEntry(model, entries[i][1], entries[i][2], entries[i][3])
StoredAt(store, entries, i) == SetValue(store, entries[i][1], entries[i][2], entries[i][3])

\* The entries of a list go to the model one after the other; no call has more than five.
LEMMA ModelSteps ==
    ASSUME NEW model, NEW entries, Len(entries) \in 0 .. 5
    PROVE  \E f : /\ f[0] = model /\ f[Len(entries)] = ModelWith(model, entries)
                 /\ \A i \in 1 .. Len(entries) : f[i] = EntryAt(f[i - 1], entries, i)
<1>0. PICK n \in 0 .. 5 : n = Len(entries)
  OBVIOUS
<1> DEFINE r1 == EntryAt(model, entries, 1)
           r2 == EntryAt(r1, entries, 2)
           r3 == EntryAt(r2, entries, 3)
           r4 == EntryAt(r3, entries, 4)
           r5 == EntryAt(r4, entries, 5)
           g == [i \in 0 .. n |->
                    CASE i = 0 -> model [] i = 1 -> r1 [] i = 2 -> r2
                      [] i = 3 -> r3 [] i = 4 -> r4 [] i = 5 -> r5]
           Is(f) == f = [i \in 0 .. n |->
                            IF i = 0 THEN model ELSE EntryAt(f[i - 1], entries, i)]
<1>1. Is(g)
  <2>1. \A i \in 0 .. n : i = 0 \/ (i \in 1 .. 5 /\ i - 1 \in 0 .. n)
    OBVIOUS
  <2>2. \A i \in 0 .. n :
            /\ i = 0 => g[i] = model
            /\ i = 1 => g[i] = EntryAt(g[0], entries, 1)
            /\ i = 2 => g[i] = EntryAt(g[1], entries, 2)
            /\ i = 3 => g[i] = EntryAt(g[2], entries, 3)
            /\ i = 4 => g[i] = EntryAt(g[3], entries, 4)
            /\ i = 5 => g[i] = EntryAt(g[4], entries, 5)
    <3> HIDE DEF r1, r2, r3, r4, r5
    <3>1. \A i \in 0 .. n :
            /\ i = 0 => g[i] = model
            /\ i = 1 => g[i] = r1 /\ g[0] = model
            /\ i = 2 => g[i] = r2 /\ g[1] = r1
            /\ i = 3 => g[i] = r3 /\ g[2] = r2
            /\ i = 4 => g[i] = r4 /\ g[3] = r3
            /\ i = 5 => g[i] = r5 /\ g[4] = r4
      OBVIOUS
    <3> HIDE DEF g
    <3> QED
      BY <3>1 DEF r1, r2, r3, r4, r5
  <2>3. g = [i \in 0 .. n |-> g[i]]
    <3> HIDE DEF r1, r2, r3, r4, r5
    <3> QED
      OBVIOUS
  <2> HIDE DEF g
  <2>4. \A i \in 0 .. n : g[i] = IF i = 0 THEN model ELSE EntryAt(g[i - 1], entries, i)
    BY <2>1, <2>2
  <2> QED
    BY <2>3, <2>4
<1> HIDE DEF g
<1>2. PICK f : f = CHOOSE h : Is(h)
  OBVIOUS
<1>3. Is(f)
  BY <1>1, <1>2
<1>4. ModelWith(model, entries) = f[Len(entries)]
  BY <1>0, <1>2 DEF ModelWith, EntryAt
<1>5. f[0] = model /\ \A i \in 1 .. Len(entries) : f[i] = EntryAt(f[i - 1], entries, i)
  BY <1>0, <1>3
<1> QED
  BY <1>4, <1>5

\* And so they go to the store.
LEMMA StoreSteps ==
    ASSUME NEW store, NEW entries, Len(entries) \in 0 .. 5
    PROVE  \E f : /\ f[0] = store /\ f[Len(entries)] = StoreWith(store, entries)
                 /\ \A i \in 1 .. Len(entries) : f[i] = StoredAt(f[i - 1], entries, i)
<1>0. PICK n \in 0 .. 5 : n = Len(entries)
  OBVIOUS
<1> DEFINE r1 == StoredAt(store, entries, 1)
           r2 == StoredAt(r1, entries, 2)
           r3 == StoredAt(r2, entries, 3)
           r4 == StoredAt(r3, entries, 4)
           r5 == StoredAt(r4, entries, 5)
           g == [i \in 0 .. n |->
                    CASE i = 0 -> store [] i = 1 -> r1 [] i = 2 -> r2
                      [] i = 3 -> r3 [] i = 4 -> r4 [] i = 5 -> r5]
           Is(f) == f = [i \in 0 .. n |->
                            IF i = 0 THEN store ELSE StoredAt(f[i - 1], entries, i)]
<1>1. Is(g)
  <2>1. \A i \in 0 .. n : i = 0 \/ (i \in 1 .. 5 /\ i - 1 \in 0 .. n)
    OBVIOUS
  <2>2. \A i \in 0 .. n :
            /\ i = 0 => g[i] = store
            /\ i = 1 => g[i] = StoredAt(g[0], entries, 1)
            /\ i = 2 => g[i] = StoredAt(g[1], entries, 2)
            /\ i = 3 => g[i] = StoredAt(g[2], entries, 3)
            /\ i = 4 => g[i] = StoredAt(g[3], entries, 4)
            /\ i = 5 => g[i] = StoredAt(g[4], entries, 5)
    <3> HIDE DEF r1, r2, r3, r4, r5
    <3>1. \A i \in 0 .. n :
            /\ i = 0 => g[i] = store
            /\ i = 1 => g[i] = r1 /\ g[0] = store
            /\ i = 2 => g[i] = r2 /\ g[1] = r1
            /\ i = 3 => g[i] = r3 /\ g[2] = r2
            /\ i = 4 => g[i] = r4 /\ g[3] = r3
            /\ i = 5 => g[i] = r5 /\ g[4] = r4
      OBVIOUS
    <3> HIDE DEF g
    <3> QED
      BY <3>1 DEF r1, r2, r3, r4, r5
  <2>3. g = [i \in 0 .. n |-> g[i]]
    <3> HIDE DEF r1, r2, r3, r4, r5
    <3> QED
      OBVIOUS
  <2> HIDE DEF g
  <2>4. \A i \in 0 .. n : g[i] = IF i = 0 THEN store ELSE StoredAt(g[i - 1], entries, i)
    BY <2>1, <2>2
  <2> QED
    BY <2>3, <2>4
<1> HIDE DEF g
<1>2. PICK f : f = CHOOSE h : Is(h)
  OBVIOUS
<1>3. Is(f)
  BY <1>1, <1>2
<1>4. StoreWith(store, entries) = f[Len(entries)]
  BY <1>0, <1>2 DEF StoreWith, StoredAt
<1>5. f[0] = store /\ \A i \in 1 .. Len(entries) : f[i] = StoredAt(f[i - 1], entries, i)
  BY <1>0, <1>3
<1> QED
  BY <1>4, <1>5

(* What the contract of m has written when n of its calls are done.        *)
Done(m, n) == {w \in Writes : w.of = m /\ w.call <= n}

\* What a call writes.
LEMMA EntriesFacts ==
    ASSUME NEW m, NEW call
    PROVE  LET entries == EntriesOf(m, call)
           IN  /\ Len(entries) \in 0 .. 5 /\ DOMAIN entries = 1 .. Len(entries)
               /\ \A j \in 1 .. Len(entries) :
                      entries[j] = <<entries[j][1], entries[j][2], entries[j][3]>>
               /\ call.op \notin {"set", "debit", "credit"} => Len(entries) = 0
<1>1. CASE call.op \in {"debit", "credit"}
  <2>1. EntriesOf(m, call) = TransferEntries(m, call)
    BY <1>1 DEF EntriesOf
  <2>2. PICK s, a, b, c, d, e, f, g, h, i, j : TransferEntries(m, call) =
            << <<s, a, b>>, <<s, c, d>>, <<s, e, f>>, <<s, g, h>>, <<s, i, j>> >>
    BY DEF TransferEntries, Entry
  <2> QED
    BY <1>1, <2>1, <2>2
<1>2. CASE call.op = "set"
  <2>1. PICK s, a, b : EntriesOf(m, call) = << <<s, a, b>> >>
    BY <1>2 DEF EntriesOf, Entry
  <2> QED
    BY <1>2, <2>1
<1>3. CASE call.op \notin {"set", "debit", "credit"}
  <2>1. EntriesOf(m, call) = << >>
    BY <1>3 DEF EntriesOf
  <2> QED
    BY <2>1, EmptySeq
<1> QED
  BY <1>1, <1>2, <1>3

\* A write is one of the entries of one of the calls of its message's contract.
LEMMA WriteFacts ==
    \A w : w \in Writes <=>
        \E m \in Messages : \E i \in DOMAIN Script(m) :
            \E j \in 1 .. Len(EntriesOf(m, Script(m)[i])) :
                w = [of |-> m, call |-> i, number |-> j, entry |-> EntriesOf(m, Script(m)[i])[j]]
<1>1. \A m, i : DOMAIN EntriesOf(m, Script(m)[i]) = 1 .. Len(EntriesOf(m, Script(m)[i]))
  BY EntriesFacts
<1>2. \A w : w \in Writes <=> \E m \in Messages : \E i \in DOMAIN Script(m) : w \in WritesOf(m, i)
  BY DEF Writes
<1> QED
  BY <1>1, <1>2 DEF WritesOf

\* At first nothing is written.
LEMMA DoneFirst ==
    ASSUME NEW m, IsSeq(Script(m))
    PROVE  Done(m, 0) = {} /\ IsFiniteSet(Done(m, 0)) /\ Holds(<< >>, Done(m, 0))
<1>1. DOMAIN Script(m) = 1 .. Len(Script(m)) /\ Len(Script(m)) \in Nat
  BY Appended
<1>2. Done(m, 0) = {}
  <2> SUFFICES ASSUME NEW w \in Writes, w.of = m, w.call <= 0 PROVE FALSE
    BY DEF Done
  <2>1. w.call \in DOMAIN Script(m)
    BY WriteFacts
  <2> QED
    BY <1>1, <2>1
<1>3. Shaped(<< >>)
  BY EmptySeq DEF Shaped
<1>4. Subjects(<< >>) = {} /\ \A s, p, l : ~At(<< >>, s, p, l)
  BY EmptySeq DEF Subjects, Elements, At
<1>5. IsFiniteSet({})
  BY FS_EmptySet
<1> QED
  BY <1>2, <1>3, <1>4, <1>5 DEF Holds

\* What a call writes goes to the model and to the store.
LEMMA CallDone ==
    ASSUME NEW m \in Messages, IsSeq(Script(m)), NEW n \in Nat, n + 1 <= Len(Script(m)),
           NEW run, IsFiniteSet(Done(m, n)), Holds(run.model, Done(m, n)),
           run.store \subseteq {w.entry : w \in Done(m, n)}
    PROVE  LET more == WithEntries(run, EntriesOf(m, Script(m)[n + 1]))
           IN  /\ IsFiniteSet(Done(m, n + 1)) /\ Holds(more.model, Done(m, n + 1))
               /\ more.store \subseteq {w.entry : w \in Done(m, n + 1)}
<1>1. PICK e : e = EntriesOf(m, Script(m)[n + 1])
  OBVIOUS
<1>2. /\ Len(e) \in 0 .. 5
      /\ \A j \in 1 .. Len(e) : e[j] = <<e[j][1], e[j][2], e[j][3]>>
  BY <1>1, EntriesFacts
<1>3. PICK f : /\ f[0] = run.model /\ f[Len(e)] = ModelWith(run.model, e)
               /\ \A i \in 1 .. Len(e) : f[i] = EntryAt(f[i - 1], e, i)
  <2>1. Len(e) \in 0 .. 5
    BY <1>2
  <2> QED
    BY <2>1, ModelSteps
<1>4. PICK g : /\ g[0] = run.store /\ g[Len(e)] = StoreWith(run.store, e)
               /\ \A i \in 1 .. Len(e) : g[i] = StoredAt(g[i - 1], e, i)
  BY <1>2, StoreSteps
<1> DEFINE w(j) == [of |-> m, call |-> n + 1, number |-> j, entry |-> e[j]]
           upTo(j) == Done(m, n) \cup {w(k) : k \in 1 .. j}
           Good(j) == /\ IsFiniteSet(upTo(j)) /\ Holds(f[j], upTo(j))
                      /\ g[j] \subseteq {x.entry : x \in upTo(j)}
<1>5. DOMAIN Script(m) = 1 .. Len(Script(m)) /\ Len(Script(m)) \in Nat
  BY Appended
<1>6. ASSUME NEW x \in Done(m, n)
      PROVE  x.of = m /\ x.call \in Nat /\ x.call <= n /\ x.number \in Nat
  <2>1. x \in Writes /\ x.of = m /\ x.call <= n
    BY DEF Done
  <2>2. x.call \in DOMAIN Script(m) /\ x.number \in 1 .. Len(EntriesOf(m, Script(m)[x.call]))
    BY <2>1, WriteFacts
  <2> QED
    BY <1>5, <2>1, <2>2
<1>7. Good(0)
  <2>1. upTo(0) = Done(m, n)
    OBVIOUS
  <2> QED
    BY <1>3, <1>4, <2>1
<1>8. ASSUME NEW j \in 1 .. Len(e), Good(j - 1) PROVE Good(j)
  <2>1. upTo(j) = upTo(j - 1) \cup {w(j)}
    <3>1. 1 .. j = (1 .. (j - 1)) \cup {j}
      BY <1>2
    <3> QED
      BY <3>1
  <2>2. /\ w(j).call = n + 1 /\ w(j).number = j /\ w(j).of = m /\ w(j).entry = e[j]
        /\ j \in Nat /\ n + 1 \in Nat
    BY <1>2
  <2>3. ASSUME NEW x \in upTo(j - 1)
        PROVE  /\ x.of = w(j).of /\ x.call \in Nat /\ x.number \in Nat
               /\ Earlier(x, w(j))
    <3>1. CASE x \in Done(m, n)
      BY <1>6, <2>2, <3>1 DEF Earlier
    <3>2. CASE x \notin Done(m, n)
      <4>1. PICK k \in 1 .. (j - 1) : x = w(k)
        BY <3>2
      <4>2. x.of = m /\ x.call = n + 1 /\ x.number = k
        BY <4>1
      <4> QED
        BY <1>2, <2>2, <4>2 DEF Earlier
    <3> QED
      BY <3>1, <3>2
  <2>4. PICK x, old : x = w(j) /\ old = upTo(j - 1)
    OBVIOUS
  <2>5. IsFiniteSet(old \cup {x}) /\ Holds(AddModelEntry(f[j - 1], x.entry[1], x.entry[2], x.entry[3]), old \cup {x})
    <3>1. IsFiniteSet(old) /\ Holds(f[j - 1], old) /\ x.call \in Nat /\ x.number \in Nat
      BY <1>8, <2>2, <2>4
    <3>2. \A y \in old : /\ y.of = x.of /\ y.call \in Nat /\ y.number \in Nat /\ Earlier(y, x)
      BY <2>3, <2>4
    <3> HIDE DEF w, upTo
    <3> QED
      BY <3>1, <3>2, WriteAdded
  <2>6. f[j] = AddModelEntry(f[j - 1], x.entry[1], x.entry[2], x.entry[3])
    BY <1>3, <2>2, <2>4 DEF EntryAt
  <2>7. g[j] = g[j - 1] \cup {x.entry}
    <3>1. g[j] = SetValue(g[j - 1], e[j][1], e[j][2], e[j][3])
      BY <1>4 DEF StoredAt
    <3>2. e[j] = <<e[j][1], e[j][2], e[j][3]>>
      BY <1>2
    <3> QED
      BY <2>2, <2>4, <3>1, <3>2 DEF SetValue
  <2>8. g[j - 1] \subseteq {y.entry : y \in old}
    BY <1>8, <2>4
  <2>9. upTo(j) = old \cup {x}
    BY <2>1, <2>4
  <2>10. IsFiniteSet(upTo(j)) /\ Holds(f[j], upTo(j))
    BY <2>5, <2>6, <2>9
  <2>11. g[j] \subseteq {y.entry : y \in upTo(j)}
    BY <2>7, <2>8, <2>9
  <2> QED
    BY <2>10, <2>11
<1> HIDE DEF Good
<1>9. Good(Len(e))
  <2>1. 1 <= Len(e) => Good(1)
    BY <1>2, <1>7, <1>8
  <2>2. 2 <= Len(e) => Good(2)
    BY <1>2, <2>1, <1>8
  <2>3. 3 <= Len(e) => Good(3)
    BY <1>2, <2>2, <1>8
  <2>4. 4 <= Len(e) => Good(4)
    BY <1>2, <2>3, <1>8
  <2>5. 5 <= Len(e) => Good(5)
    BY <1>2, <2>4, <1>8
  <2>6. \A k \in 0 .. 5 : k = 0 \/ k = 1 \/ k = 2 \/ k = 3 \/ k = 4 \/ k = 5
    OBVIOUS
  <2>7. \A k \in 0 .. 5 : k <= Len(e) => Good(k)
    BY <1>7, <2>1, <2>2, <2>3, <2>4, <2>5, <2>6
  <2>8. Len(e) \in 0 .. 5 /\ Len(e) <= Len(e)
    BY <1>2
  <2> QED
    BY <2>7, <2>8
<1>10. upTo(Len(e)) = Done(m, n + 1)
  <2>1. ASSUME NEW x \in upTo(Len(e)) PROVE x \in Done(m, n + 1)
    <3>1. CASE x \in Done(m, n)
      BY <1>6, <3>1 DEF Done
    <3>2. CASE x \notin Done(m, n)
      <4>1. PICK k \in 1 .. Len(e) : x = w(k)
        BY <3>2
      <4>2. x \in Writes
        BY <1>1, <1>5, <4>1, WriteFacts
      <4> QED
        BY <4>1, <4>2 DEF Done
    <3> QED
      BY <3>1, <3>2
  <2>2. ASSUME NEW x \in Done(m, n + 1), x \notin Done(m, n) PROVE x \in upTo(Len(e))
    <3>1. x \in Writes /\ x.of = m /\ x.call <= n + 1 /\ ~(x.call <= n)
      BY <2>2 DEF Done
    <3>2. PICK i \in DOMAIN Script(m) : \E j \in 1 .. Len(EntriesOf(m, Script(m)[i])) :
              x = [of |-> m, call |-> i, number |-> j, entry |-> EntriesOf(m, Script(m)[i])[j]]
      BY <3>1, WriteFacts
    <3>3. i = n + 1
      BY <1>5, <3>1, <3>2
    <3> QED
      BY <1>1, <3>2, <3>3
  <2> QED
    BY <2>1, <2>2
<1>11. PICK more : more = WithEntries(run, e)
  OBVIOUS
<1>12. more.model = f[Len(e)] /\ more.store = g[Len(e)]
  BY <1>3, <1>4, <1>11 DEF WithEntries
<1> QED
  BY <1>1, <1>9, <1>10, <1>11, <1>12 DEF Good

----------------------------------------------------------------------------
(* What a contract writes and reads is its own.                            *)

(* A contract is the one of its message's account.                         *)
ContractOf(m, c) ==
    /\ Contracts[CurrentAccount(m)] # {}
    /\ c = CHOOSE k \in Contracts[CurrentAccount(m)] : TRUE

(* A run has made the first calls of its contract and has the others before*)
(* it; its model and its store are what those calls write.                 *)
RunAt(m, todo, run, n) ==
    /\ Len(todo) = Len(Script(m)) - n
    /\ \A i \in 1 .. Len(todo) : todo[i] = Script(m)[n + i]
    /\ IsFiniteSet(Done(m, n)) /\ Holds(run.model, Done(m, n))
    /\ run.store \subseteq {w.entry : w \in Done(m, n)}
RunOf(m, todo, run) ==
    /\ IsSeq(Script(m)) /\ IsSeq(todo)
    /\ \E n \in 0 .. Len(Script(m)) : RunAt(m, todo, run, n)

ReadOf(m, what) ==
    \E w \in Writes :
        /\ w.of = m
        /\ w.entry[1] = what[1] /\ w.entry[2] = what[2]
        /\ what[3] = ReadAs(what[3].type, w.entry[3].text)

HoldingOf(s, m, c, todo, run, what) ==
    /\ s = "sandbox" /\ c # None => ContractOf(m, c)
    /\ s = "running" => RunOf(m, todo, run)
    /\ what # None => s = "running" /\ ReadOf(m, what)
Holding(t) == HoldingOf(step[t], message[t], contract[t], calls[t], session[t], read[t])

OwnInv ==
    /\ contract = [t \in Threads |-> contract[t]] /\ read = [t \in Threads |-> read[t]]
    /\ \A t \in Threads : Holding(t)
    /\ OwnEntries

(* What OwnEntries says of one transaction.                                *)
OwnOf(x) == EntriesOwn(MessageOf(x), x)

LEMMA OwnEach == OwnEntries <=> \A x \in Queued : OwnOf(x)
  BY DEF OwnEntries, OwnOf

\* The account and the status of a message's transaction.
LEMMA CurrentFacts ==
    ASSUME NEW m \in Messages
    PROVE  LET sent == Sent[m].message
           IN  /\ CurrentAccount(m) = GetCurrentAccount(sent) /\ CurrentAccount(m) \in Accounts
               /\ sent.currentStatus = StatusOf[m]
<1>1. PICK sent, signed : /\ sent = TransactionMessage(signed, StatusOf[m])
                          /\ signed.transaction.sourceAccount = Source[m]
                          /\ signed.transaction.targetAccount = Target[m]
                          /\ Sent[m] = TransactionProto(sent)
  <2> DEFINE signed == SignedTransaction(Source[m],
                 Transaction(GenesisParent, Source[m], Target[m], m,
                             <<Action("transaction", GenesisParent, "")>>))
  <2>1. /\ signed.transaction.sourceAccount = Source[m]
        /\ signed.transaction.targetAccount = Target[m]
    BY DEF SignedTransaction, Transaction
  <2>2. Sent[m] = TransactionProto(TransactionMessage(signed, StatusOf[m]))
    BY DEF Sent
  <2> HIDE DEF signed
  <2> QED
    BY <2>1, <2>2
<1>2. Sent[m].message = sent /\ Sent[m].activeAccount = GetCurrentAccount(sent)
  BY <1>1 DEF TransactionProto
<1>3. /\ sent.currentStatus = StatusOf[m] /\ sent.sourceAccount = Source[m]
      /\ sent.targetAccount = Target[m]
  BY <1>1 DEF TransactionMessage
<1> QED
  BY <1>2, <1>3, ContractAssumption DEF CurrentAccount, GetCurrentAccount

\* Two sequences after each other are a sequence.
LEMMA Joined ==
    ASSUME NEW T, NEW a \in Seq(T), NEW b \in Seq(T) PROVE IsSeq(a \o b)
<1>1. PICK q : q = a \o b
  OBVIOUS
<1>2. q \in Seq(T) /\ Len(q) \in Nat /\ DOMAIN q = 1 .. Len(q)
  BY <1>1
<1>3. q \in [1 .. Len(q) -> T]
  BY <1>2
<1>4. q = [i \in 1 .. Len(q) |-> q[i]]
  BY <1>3
<1> QED
  BY <1>1, <1>2, <1>4, Numbered

\* The calls of a contract are a sequence.
LEMMA ScriptIsSeq ==
    ASSUME NEW m \in Messages, NEW c, ContractOf(m, c)
    PROVE  IsSeq(Script(m)) /\ Script(m) = c.start \o EntryCalls(c, StatusOf[m])
<1>1. Script(m) = c.start \o EntryCalls(c, StatusOf[m])
  BY DEF Script, ContractOf
<1>2. c \in Contracts[CurrentAccount(m)] /\ CurrentAccount(m) \in Accounts
  BY CurrentFacts DEF ContractOf
<1>3. IsSeq(c.start) /\ \A e \in DOMAIN c.exports : IsSeq(c.exports[e])
  BY <1>2, ContractAssumption DEF IsSeq
<1>4. IsSeq(NoEntry)
  BY EmptySeq DEF NoEntry, IsSeq, Elements
<1>5. IsSeq(EntryCalls(c, StatusOf[m]))
  BY <1>3, <1>4 DEF EntryCalls
<1>6. PICK a, b, T : /\ a = c.start /\ b = EntryCalls(c, StatusOf[m])
                     /\ T = Elements(a) \cup Elements(b)
  OBVIOUS
<1>7. a \in Seq(T) /\ b \in Seq(T)
  BY <1>3, <1>5, <1>6 DEF IsSeq
<1>8. /\ a \o b \in Seq(T) /\ DOMAIN (a \o b) = 1 .. Len(a \o b)
      /\ Len(a \o b) \in Nat
  BY <1>7
<1>9. IsSeq(a \o b)
  BY <1>7, Joined
<1> QED
  BY <1>1, <1>6, <1>9

\* What is made of a run that has made all its calls is as it should be.
LEMMA MadeOwn ==
    ASSUME NEW m \in Messages, IsSeq(Script(m)), NEW model, Holds(model, Done(m, Len(Script(m))))
    PROVE  OwnOf(Made(m, model))
<1> DEFINE sent == Sent[m].message
           set == ChangeSet(sent.transactionHash, GetCurrentAccount(sent), sent.currentStatus, model)
           signed == SignedChangeSet(NodeKey, set)
           made == Made(m, model)
           all == Done(m, Len(Script(m)))
<1>1. MessageOf(made) = m
  BY MadeFacts
<1>2. made.changeSet = <<signed>>
  <2>1. made = [sent EXCEPT !.changeSet = Append(<< >>, signed)]
    BY SentFacts DEF Made, AddChangeSet
  <2> HIDE DEF signed
  <2> QED
    BY <2>1, SentFacts
<1>3. /\ signed.changeSet = set /\ set.accountHash = CurrentAccount(m)
      /\ set.status = StatusOf[m] /\ set.changes[1] = model
  BY CurrentFacts DEF SignedChangeSet, ChangeSet
<1>4. \A w : w \in all <=> w \in Writes /\ w.of = m
  <2>1. DOMAIN Script(m) = 1 .. Len(Script(m)) /\ Len(Script(m)) \in Nat
    BY Appended
  <2>2. ASSUME NEW w \in Writes, w.of = m PROVE w.call <= Len(Script(m))
    <3>1. w.call \in DOMAIN Script(m)
      BY <2>2, WriteFacts
    <3> QED
      BY <2>1, <3>1
  <2> QED
    BY <2>2 DEF Done
<1> HIDE DEF all
<1>5. ASSUME NEW w \in all PROVE Before(all, w) = Before(Writes, w) /\ Beside(all, w) = Beside(Writes, w)
  BY <1>4 DEF Before, Beside
<1>6. \A e : e \in Expected /\ e.of = m <=>
          \E w \in all : e = [of |-> m, entry |-> w.entry, before |-> Cardinality(Before(all, w)),
                              all |-> Cardinality(Beside(all, w))]
  <2>1. ASSUME NEW e \in Expected, e.of = m
        PROVE  \E w \in all : e = [of |-> m, entry |-> w.entry, before |-> Cardinality(Before(all, w)),
                                   all |-> Cardinality(Beside(all, w))]
    BY <1>4, <1>5, <2>1 DEF Expected
  <2>2. ASSUME NEW w \in all
        PROVE  [of |-> m, entry |-> w.entry, before |-> Cardinality(Before(all, w)),
                all |-> Cardinality(Beside(all, w))] \in Expected
    BY <1>4, <1>5 DEF Expected
  <2> QED
    BY <2>1, <2>2
<1>7. Subjects(model) = {w.entry[1] : w \in {v \in Expected : v.of = m}}
  <2>1. Subjects(model) = {w.entry[1] : w \in all}
    BY DEF Holds, all
  <2>2. ASSUME NEW w \in all
        PROVE  \E v \in Expected : v.of = m /\ v.entry = w.entry
    <3>1. PICK v : v = [of |-> m, entry |-> w.entry, before |-> Cardinality(Before(all, w)),
                        all |-> Cardinality(Beside(all, w))]
      OBVIOUS
    <3>2. v \in Expected
      BY <1>6, <3>1
    <3> QED
      BY <3>1, <3>2
  <2>3. ASSUME NEW v \in Expected, v.of = m
        PROVE  \E w \in all : v.entry = w.entry
    BY <1>6, <2>3
  <2> QED
    BY <2>1, <2>2, <2>3
<1>8. ASSUME NEW e \in Expected, e.of = m
      PROVE  LET objects == ListObjects(model, e.entry[1], e.entry[2])
             IN  Len(objects) = e.all /\ objects[e.before + 1] = e.entry[3]
  <2>1. PICK w \in all : e = [of |-> m, entry |-> w.entry, before |-> Cardinality(Before(all, w)),
                              all |-> Cardinality(Beside(all, w))]
    BY <1>6, <1>8
  <2>2. PICK l : /\ At(model, w.entry[1], w.entry[2], l)
                 /\ Len(l) = Cardinality(Beside(all, w))
                 /\ l[Cardinality(Before(all, w)) + 1] = w.entry[3]
    BY DEF Holds, all
  <2>3. ListObjects(model, w.entry[1], w.entry[2]) = l
    BY <2>2, Listed DEF Holds, all
  <2> QED
    BY <2>1, <2>2, <2>3
<1>9. made.changeSet[1] = signed /\ Len(made.changeSet) = 1
  BY <1>2
<1> HIDE DEF made, signed, set
<1>10. made.changeSet[1].changeSet = set
  BY <1>3, <1>9
<1> QED
  BY <1>1, <1>3, <1>7, <1>8, <1>9, <1>10 DEF OwnOf, EntriesOwn, made

\* A call is made: what it writes, if anything, is done, and the others are left.
LEMMA Advance ==
    ASSUME NEW m \in Messages, NEW todo, NEW run, RunOf(m, todo, run), todo # << >>
    PROVE  LET more == WithEntries(run, EntriesOf(m, Head(todo)))
           IN  /\ \A next : next.model = more.model /\ next.store = more.store =>
                      RunOf(m, Tail(todo), next)
               /\ Head(todo).op \notin {"set", "debit", "credit"} =>
                      more.model = run.model /\ more.store = run.store
<1>1. PICK n \in 0 .. Len(Script(m)) : RunAt(m, todo, run, n)
  BY DEF RunOf
<1>2. /\ IsSeq(Script(m)) /\ IsSeq(todo) /\ Len(Script(m)) \in Nat /\ Len(todo) \in Nat
  BY Appended DEF RunOf
<1>3. /\ Len(todo) >= 1 /\ Head(todo) = todo[1] /\ Len(Tail(todo)) = Len(todo) - 1
      /\ \A i \in 1 .. Len(Tail(todo)) : Tail(todo)[i] = todo[i + 1]
      /\ Tail(todo) \in Seq(Elements(todo))
  BY <1>2 DEF IsSeq
<1>4. IsSeq(Tail(todo))
  <2>1. PICK q : q = Tail(todo)
    OBVIOUS
  <2>2. q \in Seq(Elements(todo)) /\ Len(q) \in Nat /\ DOMAIN q = 1 .. Len(q)
    BY <1>3, <2>1
  <2>3. q \in [1 .. Len(q) -> Elements(todo)]
    BY <2>2
  <2>4. q = [i \in 1 .. Len(q) |-> q[i]]
    BY <2>3
  <2> QED
    BY <2>1, <2>2, <2>4, Numbered
<1>5. Head(todo) = Script(m)[n + 1] /\ n \in Nat /\ n + 1 <= Len(Script(m)) /\ n + 1 \in 0 .. Len(Script(m))
  BY <1>1, <1>2, <1>3 DEF RunAt
<1>6. PICK more : more = WithEntries(run, EntriesOf(m, Head(todo)))
  OBVIOUS
<1>7. /\ IsFiniteSet(Done(m, n + 1)) /\ Holds(more.model, Done(m, n + 1))
      /\ more.store \subseteq {w.entry : w \in Done(m, n + 1)}
  BY <1>1, <1>2, <1>5, <1>6, CallDone DEF RunAt
<1>8. /\ Len(Tail(todo)) = Len(Script(m)) - (n + 1)
      /\ \A i \in 1 .. Len(Tail(todo)) : Tail(todo)[i] = Script(m)[(n + 1) + i]
  BY <1>1, <1>2, <1>3 DEF RunAt
<1>9. ASSUME NEW next, next.model = more.model, next.store = more.store
      PROVE  RunOf(m, Tail(todo), next)
  <2>1. RunAt(m, Tail(todo), next, n + 1)
    BY <1>7, <1>8, <1>9 DEF RunAt
  <2> QED
    BY <1>2, <1>4, <1>5, <2>1 DEF RunOf
<1>10. ASSUME Head(todo).op \notin {"set", "debit", "credit"}
       PROVE  more.model = run.model /\ more.store = run.store
  <2>1. PICK e : e = EntriesOf(m, Head(todo))
    OBVIOUS
  <2>2. Len(e) = 0 /\ Len(e) \in 0 .. 5
    BY <1>10, <2>1, EntriesFacts
  <2>3. ModelWith(run.model, e) = run.model
    BY <2>2, ModelSteps
  <2>4. StoreWith(run.store, e) = run.store
    BY <2>2, StoreSteps
  <2> QED
    BY <1>6, <2>1, <2>3, <2>4 DEF WithEntries
<1> QED
  BY <1>6, <1>9, <1>10

\* The threads a step does not concern keep what they hold.
LEMMA OthersHold ==
    ASSUME OwnInv, NEW t \in Threads, Holding(t)',
           contract' = [u \in Threads |-> contract'[u]], read' = [u \in Threads |-> read'[u]],
           \A u \in Threads : u # t =>
               /\ step'[u] = step[u] /\ message'[u] = message[u] /\ contract'[u] = contract[u]
               /\ session'[u] = session[u] /\ calls'[u] = calls[u] /\ read'[u] = read[u]
    PROVE  /\ contract' = [u \in Threads |-> contract'[u]] /\ read' = [u \in Threads |-> read'[u]]
           /\ \A u \in Threads : Holding(u)'
<1>1. ASSUME NEW u \in Threads, u # t PROVE Holding(u)'
  <2>1. /\ step'[u] = step[u] /\ message'[u] = message[u] /\ contract'[u] = contract[u]
        /\ session'[u] = session[u] /\ calls'[u] = calls[u] /\ read'[u] = read[u]
    BY <1>1
  <2>2. Holding(u)
    BY DEF OwnInv
  <2> QED
    BY <2>1, <2>2 DEF Holding
<1> QED
  BY <1>1

\* A step of a thread, but for the last of a run: what it holds is its own.
LEMMA ThreadHolds ==
    ASSUME TypeInv, OwnInv, NEW t \in Threads,
           \/ \E m \in Messages : ProcessTransaction(t, m)
           \/ Run(t) /\ ~Finish(t)
    PROVE  /\ contract' = [u \in Threads |-> contract'[u]] /\ read' = [u \in Threads |-> read'[u]]
           /\ \A u \in Threads : Holding(u)'
           /\ UNCHANGED blockVars
<1> DEFINE Kept == /\ contract' = [u \in Threads |-> contract'[u]]
                   /\ read' = [u \in Threads |-> read'[u]]
                   /\ \A u \in Threads : Holding(u)'
                   /\ UNCHANGED blockVars
<1>0. /\ step \in [Threads -> Step] /\ message \in [Threads -> Messages \cup {None}]
      /\ session = [u \in Threads |-> session[u]] /\ calls = [u \in Threads |-> calls[u]]
      /\ contract = [u \in Threads |-> contract[u]] /\ read = [u \in Threads |-> read[u]]
  BY DEF TypeInv, Busy, OwnInv
<1>1. /\ step[t] # "idle" => message[t] \in Messages
      /\ HoldingOf(step[t], message[t], contract[t], calls[t], session[t], read[t])
      /\ step[t] = "running" => session[t].message = message[t]
  BY DEF TypeInv, Busy, OwnInv, Holding
<1>2. step[t] # "running" => read[t] = None
  BY <1>1 DEF HoldingOf
<1>3. ASSUME NEW s, NEW m, NEW c, NEW todo, NEW run, NEW what,
             step' = [step EXCEPT ![t] = s], message' = [message EXCEPT ![t] = m],
             contract' = [contract EXCEPT ![t] = c], calls' = [calls EXCEPT ![t] = todo],
             session' = [session EXCEPT ![t] = run], read' = [read EXCEPT ![t] = what],
             HoldingOf(s, m, c, todo, run, what), UNCHANGED blockVars
      PROVE  Kept
  <2>1. /\ step'[t] = s /\ message'[t] = m /\ contract'[t] = c /\ calls'[t] = todo
        /\ session'[t] = run /\ read'[t] = what
    BY <1>0, <1>3
  <2>2. Holding(t)'
    BY <1>3, <2>1 DEF Holding
  <2>3. /\ contract' = [u \in Threads |-> contract'[u]] /\ read' = [u \in Threads |-> read'[u]]
        /\ \A u \in Threads : u # t =>
               /\ step'[u] = step[u] /\ message'[u] = message[u] /\ contract'[u] = contract[u]
               /\ session'[u] = session[u] /\ calls'[u] = calls[u] /\ read'[u] = read[u]
    BY <1>0, <1>3
  <2> QED
    BY <1>3, <2>2, <2>3, OthersHold
<1>4. /\ step' = step => step' = [step EXCEPT ![t] = step[t]]
      /\ message' = message => message' = [message EXCEPT ![t] = message[t]]
      /\ contract' = contract => contract' = [contract EXCEPT ![t] = contract[t]]
      /\ calls' = calls => calls' = [calls EXCEPT ![t] = calls[t]]
      /\ session' = session => session' = [session EXCEPT ![t] = session[t]]
      /\ read' = read => read' = [read EXCEPT ![t] = read[t]]
  BY <1>0
<1>5. ASSUME NEW m \in Messages, ProcessTransaction(t, m) PROVE Kept
  <2>1. /\ step[t] = "idle" /\ step' = [step EXCEPT ![t] = "contract"]
        /\ message' = [message EXCEPT ![t] = m]
        /\ UNCHANGED <<contract, session, calls, read, blockVars>>
    BY <1>5 DEF ProcessTransaction, Goes
  <2>2. HoldingOf("contract", m, contract[t], calls[t], session[t], read[t])
    BY <1>2, <2>1 DEF HoldingOf
  <2>3. /\ contract' = [contract EXCEPT ![t] = contract[t]] /\ calls' = [calls EXCEPT ![t] = calls[t]]
        /\ session' = [session EXCEPT ![t] = session[t]] /\ read' = [read EXCEPT ![t] = read[t]]
        /\ step' = [step EXCEPT ![t] = "contract"] /\ message' = [message EXCEPT ![t] = m]
        /\ UNCHANGED blockVars
    BY <1>4, <2>1
  <2> HIDE DEF Kept
  <2> QED
    BY <1>3, <2>2, <2>3
<1>6. ASSUME Throw(t) PROVE Kept
  <2>1. /\ step' = [step EXCEPT ![t] = "idle"] /\ message' = [message EXCEPT ![t] = None]
        /\ session' = [session EXCEPT ![t] = NoSession] /\ calls' = [calls EXCEPT ![t] = << >>]
        /\ read' = [read EXCEPT ![t] = None] /\ UNCHANGED <<contract, blockVars>>
    BY <1>6 DEF Throw, Goes, EndScope
  <2>2. HoldingOf("idle", None, contract[t], << >>, NoSession, None)
    BY DEF HoldingOf
  <2>3. contract' = [contract EXCEPT ![t] = contract[t]] /\ UNCHANGED blockVars
    BY <1>4, <2>1
  <2> HIDE DEF Kept
  <2> QED
    BY <1>3, <2>1, <2>2, <2>3
<1>7. ASSUME GetContract(t), ~Throw(t) PROVE Kept
  <2>1. PICK a, c : /\ a = CurrentAccount(message[t])
                    /\ c = IF a \in Known THEN CHOOSE k \in Contracts[a] : TRUE ELSE None
    OBVIOUS
  <2>2. /\ step[t] = "contract" /\ step' = [step EXCEPT ![t] = "sandbox"]
        /\ contract' = [contract EXCEPT ![t] = c] /\ (a \in Known => Cardinality(Contracts[a]) = 1)
        /\ UNCHANGED <<message, session, calls, read, blockVars>>
    BY <1>7, <2>1 DEF GetContract, Goes
  <2>3. a \in Known => Contracts[a] # {}
    BY <2>2, FS_EmptySet
  <2>4. c # None => ContractOf(message[t], c)
    BY <2>1, <2>3 DEF ContractOf
  <2>5. HoldingOf("sandbox", message[t], c, calls[t], session[t], read[t])
    BY <1>2, <2>2, <2>4 DEF HoldingOf
  <2>6. /\ message' = [message EXCEPT ![t] = message[t]] /\ calls' = [calls EXCEPT ![t] = calls[t]]
        /\ session' = [session EXCEPT ![t] = session[t]] /\ read' = [read EXCEPT ![t] = read[t]]
        /\ step' = [step EXCEPT ![t] = "sandbox"] /\ contract' = [contract EXCEPT ![t] = c]
        /\ UNCHANGED blockVars
    BY <1>4, <2>2
  <2> HIDE DEF Kept
  <2> QED
    BY <1>3, <2>5, <2>6
<1>8. ASSUME Execute(t), ~Throw(t) PROVE Kept
  <2>1. PICK m, c, run, todo :
            /\ m = message[t] /\ c = contract[t]
            /\ run = [message |-> m, model |-> << >>, store |-> {}]
            /\ todo = c.start \o EntryCalls(c, StatusOf[m])
    OBVIOUS
  <2>2. /\ step[t] = "sandbox" /\ step' = [step EXCEPT ![t] = "running"] /\ c # None
        /\ session' = [session EXCEPT ![t] = run] /\ calls' = [calls EXCEPT ![t] = todo]
        /\ UNCHANGED <<message, contract, read, blockVars>>
    BY <1>8, <2>1 DEF Execute, Goes
  <2>3. m \in Messages /\ ContractOf(m, c)
    BY <1>1, <2>1, <2>2 DEF HoldingOf
  <2>4. IsSeq(Script(m)) /\ todo = Script(m)
    BY <2>1, <2>3, ScriptIsSeq
  <2>5. run.model = << >> /\ run.store = {}
    BY <2>1
  <2>6. RunAt(m, todo, run, 0)
    <3>1. Len(Script(m)) \in Nat
      BY <2>4, Appended
    <3>2. IsFiniteSet(Done(m, 0)) /\ Holds(<< >>, Done(m, 0))
      BY <2>4, DoneFirst
    <3> QED
      BY <2>4, <2>5, <3>1, <3>2 DEF RunAt
  <2>7. 0 \in 0 .. Len(Script(m))
    BY <2>4, Appended
  <2>8. HoldingOf("running", m, c, todo, run, read[t])
    BY <1>2, <2>2, <2>4, <2>6, <2>7 DEF HoldingOf, RunOf
  <2>9. /\ message' = [message EXCEPT ![t] = m] /\ contract' = [contract EXCEPT ![t] = c]
        /\ read' = [read EXCEPT ![t] = read[t]] /\ step' = [step EXCEPT ![t] = "running"]
        /\ session' = [session EXCEPT ![t] = run] /\ calls' = [calls EXCEPT ![t] = todo]
        /\ UNCHANGED blockVars
    BY <1>4, <2>1, <2>2
  <2> HIDE DEF Kept
  <2> QED
    BY <1>3, <2>8, <2>9
<1>9. ASSUME step[t] = "running", calls[t] # << >>,
             NEW run, NEW what, step' = step, UNCHANGED <<message, contract, blockVars>>,
             calls' = [calls EXCEPT ![t] = Tail(calls[t])],
             session' = [session EXCEPT ![t] = run], read' = [read EXCEPT ![t] = what],
             \/ run = WithEntries(session[t], EntriesOf(message[t], Head(calls[t])))
             \/ run = session[t] /\ Head(calls[t]).op \notin {"set", "debit", "credit"},
             what # None => ReadOf(message[t], what)
      PROVE  Kept
  <2>1. message[t] \in Messages /\ RunOf(message[t], calls[t], session[t])
    BY <1>1, <1>9 DEF HoldingOf
  <2>2. RunOf(message[t], Tail(calls[t]), run)
    BY <1>9, <2>1, Advance
  <2>3. HoldingOf("running", message[t], contract[t], Tail(calls[t]), run, what)
    BY <1>9, <2>2 DEF HoldingOf
  <2>4. /\ step' = [step EXCEPT ![t] = "running"] /\ message' = [message EXCEPT ![t] = message[t]]
        /\ contract' = [contract EXCEPT ![t] = contract[t]] /\ UNCHANGED blockVars
    BY <1>0, <1>4, <1>9
  <2> HIDE DEF Kept
  <2> QED
    BY <1>3, <1>9, <2>3, <2>4
<1>10. step[t] = "running" /\ read[t] # None => ReadOf(message[t], read[t])
  BY <1>1 DEF HoldingOf
<1>11. ASSUME WriteCall(t) PROVE Kept
  <2>1. PICK run : run = WithEntries(session[t], EntriesOf(message[t], Head(calls[t])))
    OBVIOUS
  <2>2. /\ step[t] = "running" /\ calls[t] # << >> /\ step' = step
        /\ UNCHANGED <<message, contract, read, blockVars>>
        /\ calls' = [calls EXCEPT ![t] = Tail(calls[t])]
        /\ session' = [session EXCEPT ![t] = run]
    BY <1>1, <1>11, <2>1 DEF WriteCall, Calls, Called, Owner
  <2> HIDE DEF Kept
  <2> QED
    BY <1>4, <1>9, <1>10, <2>1, <2>2
<1>12. ASSUME AccountCall(t) \/ OtherCall(t), ~Throw(t) PROVE Kept
  <2>1. /\ step[t] = "running" /\ calls[t] # << >> /\ step' = step
        /\ UNCHANGED <<message, contract, session, read, blockVars>>
        /\ calls' = [calls EXCEPT ![t] = Tail(calls[t])]
        /\ Head(calls[t]).op \notin {"set", "debit", "credit"}
    BY <1>12 DEF AccountCall, OtherCall, Calls, Called
  <2> HIDE DEF Kept
  <2> QED
    BY <1>4, <1>9, <1>10, <2>1
<1>13. ASSUME ReadCall(t), ~Throw(t) PROVE Kept
  <2>0. PICK s, call, key :
            /\ s = session[t] /\ call = Head(calls[t])
            /\ key = IF call.op = "get" THEN <<call.subject, call.predicate>>
                     ELSE <<SubjectUrl(call.valueModel, s.message), PredicateUrl(call.valueModel, "value")>>
    OBVIOUS
  <2>1. PICK v : /\ v \in GetValue(s.store, call.type, key[1], key[2])
                 /\ read' = [read EXCEPT ![t] = <<key[1], key[2], v>>]
    BY <1>13, <2>0 DEF ReadCall, Owner
  <2>2. /\ step[t] = "running" /\ calls[t] # << >> /\ step' = step
        /\ UNCHANGED <<message, contract, session, blockVars>>
        /\ calls' = [calls EXCEPT ![t] = Tail(calls[t])]
        /\ Head(calls[t]).op \notin {"set", "debit", "credit"}
    BY <1>13 DEF ReadCall, Calls, Called
  <2>3. RunOf(message[t], calls[t], s)
    BY <1>1, <2>0, <2>2 DEF HoldingOf
  <2>4. PICK n \in 0 .. Len(Script(message[t])) : s.store \subseteq {w.entry : w \in Done(message[t], n)}
    BY <2>3 DEF RunOf, RunAt
  <2>5. PICK x \in s.store : x[1] = key[1] /\ x[2] = key[2] /\ v = ReadAs(call.type, x[3].text)
    BY <2>1 DEF GetValue, Targets
  <2>6. PICK w \in Done(message[t], n) : w.entry = x
    BY <2>4, <2>5
  <2>7. w \in Writes /\ w.of = message[t]
    BY <2>6 DEF Done
  <2>8. v.type = call.type
    BY <2>5 DEF ReadAs, Value
  <2>9. PICK what : what = <<key[1], key[2], v>>
    OBVIOUS
  <2>10. what[1] = key[1] /\ what[2] = key[2] /\ what[3] = v
    BY <2>9
  <2>11. ReadOf(message[t], what)
    BY <2>5, <2>6, <2>7, <2>8, <2>10 DEF ReadOf
  <2> HIDE DEF Kept
  <2> QED
    BY <1>4, <1>9, <2>1, <2>2, <2>9, <2>11
<1>14. CASE \E m \in Messages : ProcessTransaction(t, m)
  BY <1>5, <1>14
<1>15. CASE Run(t) /\ ~Finish(t)
  <2> HIDE DEF Kept
  <2>1. Kept
    BY <1>6, <1>7, <1>8, <1>11, <1>12, <1>13, <1>15 DEF Run, Trap
  <2> QED
    BY <2>1 DEF Kept
<1> QED
  BY <1>14, <1>15

\* A step that adds to what is queued nothing but what is as it should be.
LEMMA OwnKept ==
    ASSUME OwnEntries, \A x \in Queued' : x \in Queued \/ OwnOf(x)
    PROVE  OwnEntries'
<1>1. \A x \in Queued' : OwnOf(x)
  BY OwnEach
<1>2. OwnEntries' <=> \A x \in Queued' : OwnOf(x)
  BY DEF OwnEntries, OwnOf, EntriesOwn, MessageOf, Expected, Writes, WritesOf, Script, Before, Beside
<1> QED
  BY <1>1, <1>2

\* What the blocks and the queue hold when neither changes.
LEMMA QueuedSame == UNCHANGED blockVars => Queued' = Queued
  BY DEF blockVars, Queued, Elements

\* The last step of a run queues what was made of all its calls.
LEMMA FinishHolds ==
    ASSUME SealInv, TypeInv, OwnInv, NEW t \in Threads, Finish(t)
    PROVE  OwnInv'
<1>0. /\ step \in [Threads -> Step] /\ message \in [Threads -> Messages \cup {None}]
      /\ session = [u \in Threads |-> session[u]] /\ calls = [u \in Threads |-> calls[u]]
      /\ contract = [u \in Threads |-> contract[u]] /\ read = [u \in Threads |-> read[u]]
  BY DEF TypeInv, Busy, OwnInv
<1>1. PICK m, model : m = message[t] /\ model = session[t].model
  OBVIOUS
<1>2. /\ step[t] = "running" /\ calls[t] = << >> /\ m \in Messages /\ session[t].message = m
      /\ RunOf(m, calls[t], session[t])
  BY <1>1 DEF Finish, TypeInv, Busy, OwnInv, Holding, HoldingOf
<1>3. /\ queue' = Append(queue, Made(m, model)) /\ UNCHANGED <<taken, chain, contract, calls>>
      /\ step' = [step EXCEPT ![t] = "idle"] /\ message' = [message EXCEPT ![t] = None]
      /\ session' = [session EXCEPT ![t] = NoSession] /\ read' = [read EXCEPT ![t] = None]
  BY <1>1, <1>2 DEF Finish, AddTransaction, Goes, EndScope, Owner, Made
<1>4. Holding(t)'
  <2>1. step'[t] = "idle" /\ read'[t] = None
    BY <1>0, <1>3
  <2>2. HoldingOf(step'[t], message'[t], contract'[t], calls'[t], session'[t], read'[t])
    BY <2>1 DEF HoldingOf
  <2> QED
    BY <2>2 DEF Holding
<1>5. /\ contract' = [u \in Threads |-> contract'[u]] /\ read' = [u \in Threads |-> read'[u]]
      /\ \A u \in Threads : u # t =>
             /\ step'[u] = step[u] /\ message'[u] = message[u] /\ contract'[u] = contract[u]
             /\ session'[u] = session[u] /\ calls'[u] = calls[u] /\ read'[u] = read[u]
  BY <1>0, <1>3
<1>6. IsSeq(Script(m)) /\ Holds(model, Done(m, Len(Script(m))))
  <2>1. PICK n \in 0 .. Len(Script(m)) : RunAt(m, calls[t], session[t], n)
    BY <1>2 DEF RunOf
  <2>2. n = Len(Script(m))
    <3>1. Len(calls[t]) = 0 /\ Len(Script(m)) \in Nat
      BY <1>2, Appended DEF RunOf
    <3> QED
      BY <2>1, <3>1 DEF RunAt
  <2> QED
    BY <1>1, <1>2, <2>1, <2>2 DEF RunOf, RunAt
<1>7. OwnOf(Made(m, model))
  BY <1>2, <1>6, MadeOwn
<1>8. \A x \in Queued' : x \in Queued \/ OwnOf(x)
  <2>1. PICK made : made = Made(m, model)
    OBVIOUS
  <2>2. \A x \in Elements(queue') : x \in Elements(queue) \/ x = made
    <3>1. IsSeq(queue)
      BY DEF SealInv, AllMade
    <3>2. /\ DOMAIN queue = 1 .. Len(queue) /\ DOMAIN queue' = 1 .. (Len(queue) + 1) /\ Len(queue) \in Nat
          /\ queue'[Len(queue) + 1] = made /\ \A i \in 1 .. Len(queue) : queue'[i] = queue[i]
      BY <1>3, <2>1, <3>1, Appended
    <3> QED
      BY <3>2 DEF Elements
  <2>3. Elements(taken') = Elements(taken)
    BY <1>3
  <2>4. \A x \in Queued' : x \in Elements(queue') \/ x \in Queued
    BY <1>3, <2>3 DEF Queued
  <2>5. \A x \in Elements(queue) : x \in Queued
    BY DEF Queued
  <2> QED
    BY <1>7, <2>1, <2>2, <2>4, <2>5
<1> QED
  BY <1>4, <1>5, <1>8, OthersHold, OwnKept DEF OwnInv

\* The producer only moves what is queued.
LEMMA ProducerHolds ==
    ASSUME SealInv, OwnInv, GetTransactions \/ GenerateBlock \/ UNCHANGED vars
    PROVE  OwnInv'
<1>1. UNCHANGED <<step, message, contract, session, calls, read>>
  BY DEF GetTransactions, GenerateBlock, vars, runVars
<1>2. \A u \in Threads : Holding(u)'
  BY <1>1 DEF OwnInv, Holding
<1>3. contract' = [u \in Threads |-> contract'[u]] /\ read' = [u \in Threads |-> read'[u]]
  BY <1>1 DEF OwnInv
<1>4. Elements(<< >>) = {}
  BY EmptySeq DEF Elements
<1>5. Queued' \subseteq Queued
  <2>1. CASE GetTransactions
    <3>1. queue' = << >> /\ taken' = queue /\ chain' = chain
      BY <2>1 DEF GetTransactions
    <3>2. Elements(queue') = {} /\ Elements(taken') = Elements(queue)
      BY <1>4, <3>1
    <3> QED
      BY <3>1, <3>2 DEF Queued
  <2>2. CASE GenerateBlock
    <3>1. PICK b, n : /\ b = SignedBlock(NodeKey, Block(chain[Len(chain)].hash, taken))
                      /\ n = Len(chain) + 1
      OBVIOUS
    <3>2. chain' = Append(chain, b) /\ taken' = << >> /\ queue' = queue
      BY <2>2, <3>1 DEF GenerateBlock
    <3>3. b.block.transactions = taken
      BY <3>1 DEF SignedBlock, Block
    <3>4. /\ Len(chain') = n /\ Len(chain) \in Nat /\ chain'[n] = b
          /\ \A i \in 1 .. Len(chain) : chain'[i] = chain[i]
      BY <3>1, <3>2, Appended DEF SealInv, AllMade
    <3>5. Elements(queue') = Elements(queue) /\ Elements(taken') = {}
      BY <1>4, <3>2
    <3>6. ASSUME NEW i \in 2 .. Len(chain')
          PROVE  Elements(chain'[i].block.transactions) \subseteq Queued
      <4>1. CASE i = n
        BY <3>3, <3>4, <4>1 DEF Queued
      <4>2. CASE i # n
        <5>1. i \in 2 .. Len(chain) /\ chain'[i] = chain[i]
          BY <3>1, <3>4, <4>2
        <5> QED
          BY <5>1 DEF Queued
      <4> QED
        BY <4>1, <4>2
    <3>7. Elements(queue) \subseteq Queued
      BY DEF Queued
    <3>8. ASSUME NEW x \in Queued' PROVE x \in Queued
      <4>1. \/ x \in Elements(queue') \/ x \in Elements(taken')
            \/ \E i \in 2 .. Len(chain') : x \in Elements(chain'[i].block.transactions)
        BY DEF Queued
      <4> QED
        BY <3>5, <3>6, <3>7, <4>1
    <3> QED
      BY <3>8
  <2>3. CASE UNCHANGED vars
    BY <2>3, QueuedSame DEF vars
  <2> QED
    BY <2>1, <2>2, <2>3
<1>6. OwnEntries'
  BY <1>5, OwnKept DEF OwnInv
<1> QED
  BY <1>2, <1>3, <1>6 DEF OwnInv

\* At the start nothing runs and nothing is queued.
LEMMA OwnStart == Init => OwnInv
<1> SUFFICES ASSUME Init PROVE OwnInv
  OBVIOUS
<1>1. /\ step = [t \in Threads |-> "idle"] /\ contract = [t \in Threads |-> None]
      /\ read = [t \in Threads |-> None] /\ queue = << >> /\ taken = << >> /\ Len(chain) = 1
  BY DEF Init
<1>2. ASSUME NEW t \in Threads PROVE Holding(t)
  BY <1>1 DEF Holding, HoldingOf
<1>3. Queued = {}
  <2>1. Elements(<< >>) = {}
    BY EmptySeq DEF Elements
  <2> QED
    BY <1>1, <2>1 DEF Queued
<1> QED
  BY <1>1, <1>2, <1>3, OwnEach DEF OwnInv

\* Every step keeps what runs write and read their own.
LEMMA OwnStep == SealInv /\ TypeInv /\ OwnInv /\ [Next]_vars => OwnInv'
<1> SUFFICES ASSUME SealInv, TypeInv, OwnInv, [Next]_vars PROVE OwnInv'
  OBVIOUS
<1>1. ASSUME NEW t \in Threads, Run(t) \/ \E m \in Messages : ProcessTransaction(t, m)
      PROVE  OwnInv'
  <2>1. CASE Finish(t)
    BY <2>1, FinishHolds
  <2>2. CASE ~Finish(t)
    <3>1. /\ contract' = [u \in Threads |-> contract'[u]] /\ read' = [u \in Threads |-> read'[u]]
          /\ \A u \in Threads : Holding(u)'
          /\ UNCHANGED blockVars
      BY <1>1, <2>2, ThreadHolds
    <3>2. OwnEntries'
      BY <3>1, QueuedSame, OwnKept DEF OwnInv
    <3> QED
      BY <3>1, <3>2 DEF OwnInv
  <2> QED
    BY <2>1, <2>2
<1>2. CASE GetTransactions \/ GenerateBlock \/ UNCHANGED vars
  BY <1>2, ProducerHolds
<1> QED
  BY <1>1, <1>2 DEF Next

(* OwnData: whatever runs beside it, the change set of a processed         *)
(* transaction has every entry that the contract of its account makes in   *)
(* that phase, in the order of its calls, and no other; and what a         *)
(* contract reads it has set itself (the thread local wavmSessionPtr,      *)
(* addModelEntry, RDFMemorySession), and its session ends with its run     *)
(* (~WavmSessionScope).                                                    *)
THEOREM OwnCorrect == Spec => []OwnData
<1>1. TypeInv /\ OwnInv => OwnData
  BY DEF TypeInv, Placed, OwnInv, OwnData, ReadsOwn, SessionsScoped, Holding, HoldingOf, ReadOf
<1> QED
  BY SealStart, SealStep, TypeStart, TypeStep, OwnStart, OwnStep, <1>1, PTL DEF Spec
----------------------------------------------------------------------------
(* As if each phase was processed in one step.                             *)

\* A sequence is where another one, put before it, ends.
LEMMA Cut ==
    ASSUME NEW a, IsSeq(a), NEW b, IsSeq(b)
    PROVE  /\ Len(a) \in Nat /\ Len(b) \in Nat /\ Len(a \o b) = Len(a) + Len(b)
           /\ SubSeq(a \o b, 1, Len(a)) = a
           /\ SubSeq(a \o b, Len(a) + 1, Len(a \o b)) = b
<1>1. PICK T : a \in Seq(T) /\ b \in Seq(T)
  <2>1. a \in Seq(Elements(a) \cup Elements(b)) /\ b \in Seq(Elements(a) \cup Elements(b))
    BY DEF IsSeq
  <2> QED
    BY <2>1
<1>2. PICK c : c = a \o b
  OBVIOUS
<1>3. /\ Len(a) \in Nat /\ Len(b) \in Nat /\ c \in Seq(T) /\ Len(c) = Len(a) + Len(b)
      /\ \A i \in 1 .. Len(a) : c[i] = a[i]
      /\ \A i \in 1 .. Len(b) : c[Len(a) + i] = b[i]
  BY <1>1, <1>2
<1>4. SubSeq(c, 1, Len(a)) = a
  BY <1>1, <1>3
<1>5. SubSeq(c, Len(a) + 1, Len(c)) = b
  BY <1>1, <1>3
<1> QED
  BY <1>2, <1>3, <1>4, <1>5

\* One more at the end of the second is one more at the end of both.
LEMMA Longer ==
    ASSUME NEW a, IsSeq(a), NEW b, IsSeq(b), NEW x
    PROVE  LET more == a \o Append(b, x)
           IN  /\ Len(more) = Len(a \o b) + 1
               /\ SubSeq(more, 1, Len(a \o b)) = a \o b
               /\ more[Len(a \o b) + 1] = x
<1>1. PICK T : a \in Seq(T) /\ b \in Seq(T) /\ x \in T
  <2>1. PICK T : T = Elements(a) \cup Elements(b) \cup {x}
    OBVIOUS
  <2>2. a \in Seq(T) /\ b \in Seq(T) /\ x \in T
    BY <2>1 DEF IsSeq
  <2> QED
    BY <2>2
<1>2. PICK c, d, e : c = a \o b /\ d = Append(b, x) /\ e = a \o d
  OBVIOUS
<1>3. /\ Len(a) \in Nat /\ Len(b) \in Nat /\ c \in Seq(T) /\ Len(c) = Len(a) + Len(b)
      /\ \A i \in 1 .. Len(a) : c[i] = a[i]
      /\ \A i \in 1 .. Len(b) : c[Len(a) + i] = b[i]
  BY <1>1, <1>2
<1>4. /\ d \in Seq(T) /\ Len(d) = Len(b) + 1 /\ d[Len(b) + 1] = x
      /\ \A i \in 1 .. Len(b) : d[i] = b[i]
  BY <1>1, <1>2
<1>5. /\ e \in Seq(T) /\ Len(e) = Len(a) + Len(d)
      /\ \A i \in 1 .. Len(a) : e[i] = a[i]
      /\ \A i \in 1 .. Len(d) : e[Len(a) + i] = d[i]
  BY <1>1, <1>2, <1>4
<1>6. Len(e) = Len(c) + 1 /\ e[Len(c) + 1] = x
  <2>1. Len(c) + 1 = Len(a) + (Len(b) + 1) /\ Len(b) + 1 \in 1 .. Len(d)
    BY <1>3, <1>4
  <2> QED
    BY <1>3, <1>4, <1>5, <2>1
<1>7. \A i \in 1 .. Len(c) : e[i] = c[i]
  <2>1. ASSUME NEW i \in 1 .. Len(c), i > Len(a) PROVE e[i] = c[i]
    <3>1. PICK j \in 1 .. Len(b) : i = Len(a) + j
      <4>1. i - Len(a) \in 1 .. Len(b) /\ i = Len(a) + (i - Len(a))
        BY <1>3, <2>1
      <4> QED
        BY <4>1
    <3>2. c[Len(a) + j] = b[j] /\ d[j] = b[j]
      BY <1>3, <1>4
    <3>3. j \in 1 .. Len(d)
      BY <1>3, <1>4
    <3>4. e[Len(a) + j] = d[j]
      BY <1>5, <3>3
    <3>5. e[Len(a) + j] = c[Len(a) + j]
      BY <3>2, <3>4
    <3> QED
      BY <3>1, <3>5, Zenon
  <2>2. ASSUME NEW i \in 1 .. Len(c), i <= Len(a) PROVE e[i] = c[i]
    <3>1. i \in 1 .. Len(a)
      BY <1>3, <2>2
    <3> QED
      BY <1>3, <1>5, <3>1
  <2>3. \A i \in 1 .. Len(c) : i > Len(a) \/ i <= Len(a)
    BY <1>3
  <2> QED
    BY <2>1, <2>2, <2>3, Zenon
<1>8. SubSeq(e, 1, Len(c)) = c
  BY <1>3, <1>5, <1>6, <1>7
<1> QED
  BY <1>2, <1>6, <1>8

(* The messages that are over, for the promise.                            *)
Over == {m \in Messages : outcome[m] \in {"processed", "failed"}}
InBlocks == [i \in 1 .. Len(chain) - 1 |-> chain[i + 1].block.transactions]

\* At the start nothing was processed.
LEMMA SerialStart == Init => Serial!Init
<1> SUFFICES ASSUME Init PROVE Serial!Init
  OBVIOUS
<1>1. /\ queue = << >> /\ taken = << >> /\ Len(chain) = 1
      /\ \A m \in Messages : outcome[m] = "new"
  BY DEF Init
<1>2. << >> \o << >> = << >>
  OBVIOUS
<1>3. InBlocks = << >>
  BY <1>1 DEF InBlocks
<1> QED
  BY <1>1, <1>2, <1>3 DEF Serial!Init, InBlocks

\* What is queued and what is in blocks stays, and who is over.
LEMMA SerialRests ==
    ASSUME UNCHANGED blockVars,
           \A m \in Messages : outcome'[m] \in {"processed", "failed"}
                                   <=> outcome[m] \in {"processed", "failed"}
    PROVE  UNCHANGED Serial!vars
  BY DEF blockVars, Serial!vars

\* A run fails: its message is over, and there is nothing of it.
LEMMA SerialFails ==
    ASSUME SealInv, NEW t \in Threads, step[t] # "idle", Throw(t)
    PROVE  Serial!Next
<1>1. PICK m : m = message[t]
  OBVIOUS
<1>2. /\ m \in Messages /\ outcome[m] = "taken"
      /\ outcome \in [Messages -> {"new", "taken", "processed", "failed"}]
  BY <1>1 DEF SealInv, Busy
<1>3. outcome' = [outcome EXCEPT ![m] = "failed"] /\ UNCHANGED blockVars
  BY <1>1 DEF Throw
<1>4. m \notin Over /\ Over' = Over \cup {m}
  BY <1>2, <1>3 DEF Over
<1>5. Serial!Fail(m)
  BY <1>3, <1>4 DEF Serial!Fail, Serial!Ends, Over, blockVars
<1> QED
  BY <1>2, <1>5 DEF Serial!Next

\* A run that ends is over, and what it made is the last of what waits.
LEMMA SerialFinish ==
    ASSUME SealInv, SealInv', OwnInv', NEW t \in Threads, Finish(t)
    PROVE  Serial!Next
<1>1. PICK m, made : m = message[t] /\ made = Made(m, session[t].model)
  OBVIOUS
<1>2. /\ m \in Messages /\ outcome[m] = "taken" /\ session[t].message = m
      /\ outcome \in [Messages -> {"new", "taken", "processed", "failed"}]
  BY <1>1 DEF Finish, SealInv, Busy
<1>3. /\ queue' = Append(queue, made) /\ taken' = taken /\ chain' = chain
      /\ outcome' = [outcome EXCEPT ![m] = "processed"]
  BY <1>1, <1>2 DEF Finish, AddTransaction, Owner, Made
<1>4. IsSeq(queue) /\ IsSeq(taken)
  BY DEF SealInv, AllMade
<1>5. m \notin Over /\ Over' = Over \cup {m}
  BY <1>2, <1>3 DEF Over
<1>6. ComesTo(m, made)
  <2>1. MessageOf(made) = m /\ SealedTransaction(made)
    BY <1>1, <1>2, MadeFacts
  <2>2. made \in Queued'
    <3>1. queue'[Len(queue) + 1] = made /\ Len(queue) + 1 \in DOMAIN queue'
      BY <1>3, <1>4, Appended
    <3> QED
      BY <3>1 DEF Queued, Elements
  <2>3. OwnEntries'
    BY DEF OwnInv
  <2>4. \A x \in Queued' : OwnOf(x)
    BY <2>3 DEF OwnEntries, OwnOf, EntriesOwn, MessageOf, Expected, Writes, WritesOf, Script,
                Before, Beside
  <2> QED
    BY <2>1, <2>2, <2>4 DEF OwnOf, ComesTo
<1>7. /\ Len(taken' \o queue') = Len(taken \o queue) + 1
      /\ SubSeq(taken' \o queue', 1, Len(taken \o queue)) = taken \o queue
      /\ (taken' \o queue')[Len(taken \o queue) + 1] = made
  BY <1>3, <1>4, Longer
<1>8. Serial!Process(m)
  BY <1>3, <1>5, <1>6, <1>7 DEF Serial!Process, Serial!Ends, Over
<1> QED
  BY <1>2, <1>8 DEF Serial!Next

\* Taking the queue leaves what waits, and its order, as it was.
LEMMA SerialTakes ==
    ASSUME SealInv, GetTransactions PROVE UNCHANGED Serial!vars
<1>1. /\ taken = << >> /\ taken' = queue /\ queue' = << >> /\ chain' = chain /\ outcome' = outcome
  BY DEF GetTransactions
<1>2. queue \in Seq(Elements(queue))
  BY DEF SealInv, AllMade, IsSeq
<1>3. << >> \o queue = queue /\ queue \o << >> = queue
  BY <1>2
<1>4. taken' \o queue' = taken \o queue
  BY <1>1, <1>3
<1> QED
  BY <1>1, <1>4 DEF Serial!vars

\* A block is of the first that wait: those that were taken.
LEMMA SerialBlocks ==
    ASSUME SealInv, GenerateBlock PROVE Serial!Next
<1>1. PICK n, k, b : /\ n = Len(taken) /\ k = Len(chain)
                     /\ b = SignedBlock(NodeKey, Block(chain[Len(chain)].hash, taken))
  OBVIOUS
<1>2. /\ chain' = Append(chain, b) /\ taken' = << >> /\ queue' = queue /\ outcome' = outcome
      /\ taken # << >>
  BY <1>1 DEF GenerateBlock
<1>3. b.block.transactions = taken
  BY <1>1 DEF SignedBlock, Block
<1>4. IsSeq(queue) /\ IsSeq(taken) /\ IsSeq(chain) /\ 1 <= k
  BY <1>1 DEF SealInv, AllMade
<1>5. /\ n \in Nat /\ Len(queue) \in Nat /\ Len(taken \o queue) = n + Len(queue)
      /\ SubSeq(taken \o queue, 1, n) = taken
      /\ SubSeq(taken \o queue, n + 1, Len(taken \o queue)) = queue
  BY <1>1, <1>4, Cut
<1>6. n \in 1 .. Len(taken \o queue)
  <2>1. n # 0
    BY <1>1, <1>2, <1>4 DEF IsSeq
  <2> QED
    BY <1>5, <2>1
<1>7. taken' \o queue' = queue
  BY <1>2, <1>4 DEF IsSeq
<1>8. InBlocks' = Append(InBlocks, taken)
  <2>1. /\ k \in Nat /\ Len(chain') = k + 1 /\ chain'[k + 1] = b
        /\ \A i \in 1 .. k : chain'[i] = chain[i]
    BY <1>1, <1>2, <1>4, Appended
  <2>2. PICK f : f = InBlocks
    OBVIOUS
  <2>3. f = [i \in 1 .. k - 1 |-> chain[i + 1].block.transactions]
    BY <1>1, <2>2 DEF InBlocks
  <2>4. InBlocks' = [i \in 1 .. k |-> chain'[i + 1].block.transactions]
    <3>1. Len(chain') - 1 = k
      BY <2>1
    <3> QED
      BY <3>1 DEF InBlocks
  <2>5. Append(f, taken) = [i \in 1 .. k |-> IF i = k THEN taken ELSE f[i]]
    <3>1. k - 1 \in Nat /\ k - 1 + 1 = k
      BY <1>4, <2>1
    <3>2. PICK T : T = {f[i] : i \in 1 .. k - 1} \cup {taken}
      OBVIOUS
    <3>3. f \in [1 .. k - 1 -> T]
      BY <2>3, <3>2
    <3>4. f \in Seq(T) /\ Len(f) = k - 1
      BY <3>1, <3>3
    <3>5. PICK q : q = Append(f, taken)
      OBVIOUS
    <3>6. /\ q \in Seq(T) /\ Len(q) = k /\ q[k] = taken
          /\ \A i \in 1 .. k - 1 : q[i] = f[i]
      BY <3>1, <3>2, <3>4, <3>5
    <3>7. q \in [1 .. k -> T]
      BY <3>6
    <3>8. q = [i \in 1 .. k |-> q[i]]
      BY <3>7
    <3>9. \A i \in 1 .. k : q[i] = IF i = k THEN taken ELSE f[i]
      BY <2>1, <3>6
    <3> QED
      BY <3>5, <3>8, <3>9
  <2>6. ASSUME NEW i \in 1 .. k
        PROVE  chain'[i + 1].block.transactions = IF i = k THEN taken ELSE f[i]
    <3>1. CASE i = k
      BY <1>3, <2>1, <3>1
    <3>2. CASE i # k
      <4>1. i \in 1 .. k - 1 /\ i + 1 \in 1 .. k
        BY <2>1, <3>2
      <4>2. chain'[i + 1] = chain[i + 1]
        BY <2>1, <4>1
      <4>3. f[i] = chain[i + 1].block.transactions
        BY <2>3, <4>1
      <4> QED
        BY <3>2, <4>2, <4>3
    <3> QED
      BY <3>1, <3>2
  <2> QED
    BY <2>2, <2>4, <2>5, <2>6
<1>9. Serial!MakeBlock(n)
  BY <1>2, <1>5, <1>7, <1>8 DEF Serial!MakeBlock, InBlocks
<1> QED
  BY <1>6, <1>9 DEF Serial!Next

\* A step of a run that goes on, or its beginning, is no step of the promise.
LEMMA SerialRuns ==
    ASSUME SealInv, NEW t \in Threads,
           \/ \E m \in Messages : ProcessTransaction(t, m)
           \/ Run(t) /\ ~Finish(t)
    PROVE  Serial!Next \/ UNCHANGED Serial!vars
<1>1. ASSUME NEW m \in Messages, ProcessTransaction(t, m) PROVE UNCHANGED Serial!vars
  <2>1. /\ outcome[m] = "new" /\ outcome' = [outcome EXCEPT ![m] = "taken"] /\ UNCHANGED blockVars
        /\ outcome \in [Messages -> {"new", "taken", "processed", "failed"}]
    BY <1>1 DEF ProcessTransaction, SealInv, Busy
  <2>2. \A k \in Messages : outcome'[k] \in {"processed", "failed"}
                                 <=> outcome[k] \in {"processed", "failed"}
    BY <2>1
  <2> QED
    BY <2>1, <2>2, SerialRests
<1>2. CASE UNCHANGED <<outcome, blockVars>>
  BY <1>2, SerialRests
<1>3. CASE step[t] # "idle" /\ Throw(t)
  BY <1>3, SerialFails
<1>4. CASE Run(t) /\ ~Finish(t)
  <2>1. CASE GetContract(t)
    BY <1>2, <1>3, <2>1 DEF GetContract
  <2>2. CASE Execute(t)
    BY <1>2, <1>3, <2>2 DEF Execute
  <2>3. CASE WriteCall(t) \/ OtherCall(t)
    BY <1>2, <2>3 DEF WriteCall, OtherCall
  <2>4. CASE ReadCall(t) \/ AccountCall(t)
    BY <1>2, <1>3, <2>4 DEF ReadCall, AccountCall, Calls
  <2>5. CASE Trap(t)
    BY <1>3, <2>5 DEF Trap, Calls
  <2> QED
    BY <1>4, <2>1, <2>2, <2>3, <2>4, <2>5 DEF Run
<1> QED
  BY <1>1, <1>4

(* ImplementsSerial: however threads, contracts and the producer           *)
(* interleave, every step is a step of the promise or none: a phase ends   *)
(* at once with the entries of its own contract or with nothing, and is    *)
(* not processed again; blocks take what was processed in its order, each  *)
(* once (executeActionMessage, addTransaction, getTransactions,            *)
(* generateBlock).                                                         *)
THEOREM SerialCorrect == Spec => ImplementsSerial
<1>1. SealInv /\ SealInv' /\ OwnInv' /\ [Next]_vars => [Serial!Next]_(Serial!vars)
  <2> SUFFICES ASSUME SealInv, SealInv', OwnInv', [Next]_vars
               PROVE  Serial!Next \/ UNCHANGED Serial!vars
    OBVIOUS
  <2>1. ASSUME NEW t \in Threads, Run(t) \/ \E m \in Messages : ProcessTransaction(t, m)
        PROVE  Serial!Next \/ UNCHANGED Serial!vars
    BY <2>1, SerialRuns, SerialFinish
  <2>2. CASE UNCHANGED vars
    BY <2>2, SerialRests DEF vars
  <2> QED
    BY <2>1, <2>2, SerialTakes, SerialBlocks DEF Next
<1>2. SealInv /\ TypeInv /\ OwnInv /\ [Next]_vars => SealInv' /\ TypeInv' /\ OwnInv'
  BY SealStep, TypeStep, OwnStep
<1> QED
  BY SealStart, TypeStart, OwnStart, SerialStart, <1>1, <1>2, PTL
     DEF Spec, ImplementsSerial, Serial!Spec
=============================================================================
