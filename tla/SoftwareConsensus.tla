-------------------------- MODULE SoftwareConsensus --------------------------
(***************************************************************************)
(* The software consensus of one or more servers: every module holds a     *)
(* hash generator whose script a session key decrypts, a key is pushed to  *)
(* the modules one event at a time, a builder collects the hashes of a     *)
(* server's modules and a validator strikes them off against its own       *)
(* (src/src/libs/software_consensus, src/src/modules/consensus_module).    *)
(*                                                                         *)
(* Nothing in this code is locked, so the steps of the threads interleave. *)
(* The scripts in the repository ask for the module's signature only: a    *)
(* hash is the pair of the module and the signature of its code, and a     *)
(* generator without a script, or whose script is being moved while it is  *)
(* read, may throw instead.                                                *)
(***************************************************************************)
EXTENDS ConsensusScripts, FiniteSets

CONSTANTS
    Nodes,       \* servers, each with all the modules
    Threads,     \* threads that push keys, build or validate
    NodeOf,      \* [Threads -> Nodes]
    Generators,  \* the modules in the order of the events, then "seed"
    MayAlter,    \* <<node, module>> whose code may differ from the others'
    Scripts,     \* [generators -> their scripts, as compiled in]
    Keys,        \* session keys
    NoKey        \* the empty secret before the first session

ASSUME ConsensusAssumption ==
    /\ Generators \in Seq(STRING)
    /\ \A i \in 1 .. Len(Generators) : Generators[i] = "seed" <=> i = Len(Generators)
    /\ NodeOf \in [Threads -> Nodes]

VARIABLES
    altered,     \* the modules whose code does differ, for ever
    sessionKey,  \* [Nodes -> [generators -> Keys \cup {NoKey}]]
    scripted,    \* [Nodes -> the generators with a decrypted script]
    secret,      \* [Nodes -> what the RPC server offers to its clients]
    work         \* [Threads -> what its handler is doing]

consensusVars == <<altered, sessionKey, scripted, secret, work>>

Generator == {Generators[i] : i \in 1 .. Len(Generators)}
Module == Generator \ {"seed"}
Hash == Module \X BOOLEAN

\* Whether setSession finds a script: for a key and a generator, what may come of it.
Opens == [k \in Keys \cup {NoKey} |-> [g \in Generator |-> Opening(k, Scripts[g])]]

\* What generateHash(getModuleSignature()) tells apart.
HashOf(n, m) == <<m, <<n, m>> \in altered>>

Idle == [op |-> "idle", key |-> NoKey, at |-> 1, hashes |-> {}]
Work == [op : {"idle", "key", "script", "seed", "build", "validate", "built", "failed", "validated"},
         key : Keys \cup {NoKey}, at : 1 .. Len(Generators) + 1, hashes : SUBSET Hash]

ConsensusInit ==
    /\ altered \in SUBSET MayAlter
    /\ sessionKey = [n \in Nodes |-> [g \in Generator |-> NoKey]]
    /\ scripted = [n \in Nodes |-> {}]
    /\ secret = [n \in Nodes |-> NoKey]
    /\ work = [t \in Threads |-> Idle]

\* ConsensusSessionManager::updateSessionKey begins its loop over the modules.
UpdateSessionKey(t, k) == work' = [work EXCEPT ![t] = [Idle EXCEPT !.op = "key", !.key = k]]

Here(t) == Generators[work[t].at]

\* setSession assigns the key first ...
SetSessionKey(t) ==
    /\ work[t].op = "key"
    /\ work[t].at <= Len(Generators)
    /\ sessionKey' = [sessionKey EXCEPT ![NodeOf[t]][Here(t)] = work[t].key]
    /\ work' = [work EXCEPT ![t].op = "script"]
    /\ UNCHANGED <<altered, scripted, secret>>

\* ... then looks for the script the key opens; without one the old one stays.
ScriptedAfter(n, g, opened) ==
    IF opened THEN scripted[n] \cup {g} ELSE scripted[n]

\* The RPC server's module hands the key on as its secret, whatever it opened.
SetSessionScript(t) ==
    LET n == NodeOf[t]  k == work[t].key
    IN  /\ work[t].op = "script"
        /\ \E opened \in Opens[k][Here(t)] :
               scripted' = [scripted EXCEPT ![n] = ScriptedAfter(n, Here(t), opened)]
        /\ secret' = IF Here(t) = "rpc_server" THEN [secret EXCEPT ![n] = k] ELSE secret
        /\ work' = [work EXCEPT ![t].op = "key", ![t].at = @ + 1]
        /\ UNCHANGED <<altered, sessionKey>>

Updated(t) == work[t].op = "key" /\ work[t].at > Len(Generators)

\* Another thread is between the two assignments of this generator.
Moving(n, g) ==
    \E t \in Threads : /\ NodeOf[t] = n
                       /\ work[t].op = "script"
                       /\ Here(t) = g
                       /\ TRUE \in Opens[work[t].key][g]

\* What a generator may answer: its hash, or an exception.
HashMade(n, g) == g \in scripted[n] \/ Moving(n, g)
HashFails(n, g) == g \notin scripted[n] \/ Moving(n, g)

\* ConsensusBuilder::buildConsensus: the seed is asked for outside of the try.
GenerateSeed(t) ==
    /\ work[t].op = "seed"
    /\ \/ HashMade(NodeOf[t], "seed") /\ work' = [work EXCEPT ![t].op = "build", ![t].at = 1]
       \/ HashFails(NodeOf[t], "seed") /\ work' = [work EXCEPT ![t].op = "failed"]
    /\ UNCHANGED <<altered, sessionKey, scripted, secret>>

HasModule(t) == work[t].at <= Len(Generators) /\ Here(t) # "seed"
OwnHash(t) == HashOf(NodeOf[t], Here(t))

\* The loop over the modules; one that throws is logged and left out.
AddSystemHash(t) ==
    /\ work[t].op = "build"
    /\ HasModule(t)
    /\ \/ /\ HashMade(NodeOf[t], Here(t))
          /\ work' = [work EXCEPT ![t].hashes = @ \cup {OwnHash(t)}, ![t].at = @ + 1]
       \/ /\ HashFails(NodeOf[t], Here(t))
          /\ work' = [work EXCEPT ![t].at = @ + 1]
    /\ UNCHANGED <<altered, sessionKey, scripted, secret>>

Built(t) ==
    /\ work[t].op = "build"
    /\ ~HasModule(t)
    /\ work' = [work EXCEPT ![t].op = "built"]
    /\ UNCHANGED <<altered, sessionKey, scripted, secret>>

\* (A slip: a module's own hash strikes off whatever the message has for it.)
StruckByName(t) == {h \in work[t].hashes : h[1] # Here(t)}

\* The own hash strikes the first equal one of the message off.
Struck(t) == work[t].hashes \ {OwnHash(t)}

\* ConsensusBuilder::validateConsensus: the same loop over its own modules.
CompareSystemHash(t) ==
    /\ work[t].op = "validate"
    /\ HasModule(t)
    /\ \/ /\ HashMade(NodeOf[t], Here(t))
          /\ work' = [work EXCEPT ![t].hashes = Struck(t), ![t].at = @ + 1]
       \/ /\ HashFails(NodeOf[t], Here(t))
          /\ work' = [work EXCEPT ![t].at = @ + 1]
    /\ UNCHANGED <<altered, sessionKey, scripted, secret>>

\* Valid is that no hash of the message is left; an empty message is valid.
Validated(t) ==
    /\ work[t].op = "validate"
    /\ ~HasModule(t)
    /\ work' = [work EXCEPT ![t].op = "validated"]
    /\ UNCHANGED <<altered, sessionKey, scripted, secret>>

Valid(t) == work[t].hashes = {}

\* The steps a thread takes inside of an event of the consensus.
ConsensusStep(t) ==
    \/ SetSessionKey(t) \/ SetSessionScript(t)
    \/ GenerateSeed(t) \/ AddSystemHash(t) \/ Built(t)
    \/ CompareSystemHash(t) \/ Validated(t)

ConsensusTypeOK ==
    /\ altered \subseteq MayAlter
    /\ sessionKey \in [Nodes -> [Generator -> Keys \cup {NoKey}]]
    /\ scripted \in [Nodes -> SUBSET Generator]
    /\ secret \in [Nodes -> Keys \cup {NoKey}]
    /\ work \in [Threads -> Work]
=============================================================================
