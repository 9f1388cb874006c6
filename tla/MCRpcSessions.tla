---------------------------- MODULE MCRpcSessions ----------------------------
(* An instance of RpcSessions: a client's configured session, and the one it *)
(* makes for the peer it is told of, which is the same server.               *)
EXTENDS RpcSessions

MCConns == {"c", "p"}
MCNode == [x \in MCConns |-> "A"]
MCNear == [x \in MCConns |-> <<x, "near">>]
MCFar == [x \in MCConns |-> <<x, "far">>]
MCTimer == <<"timer", "far">>
MCThreads == {<<x, y>> : x \in MCConns, y \in {"near", "far"}} \cup {MCTimer}
MCNodeOf == [t \in MCThreads |-> IF t[2] = "far" THEN "S" ELSE "A"]
MCGenerators == <<"rpc_server", "consensus", "seed">>
MCMayAlter == {<<"A", "consensus">>}
MCMaster == <<KeyPairCreator("k2", "short"), KeyPairCreator("k1", "long")>>
\* One of the encryption keys is longer than its secret: k2 may fail to open it.
MCEncryption == [g \in {"rpc_server", "consensus", "seed"} |->
                    IF g = "consensus" THEN <<"long", "long">> ELSE <<"short", "short">>]
MCScripts == [g \in {"rpc_server", "consensus", "seed"} |->
                 ScriptInfos(ModuleKeys(MCMaster, MCEncryption[g]), "script")]
MCLength == [k1 |-> 4, k2 |-> 3, none |-> 0, long |-> 4, short |-> 3]
MCSessionKeys == PrivateKeys(MCMaster)
=============================================================================
