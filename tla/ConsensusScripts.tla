--------------------------- MODULE ConsensusScripts ---------------------------
(***************************************************************************)
(* The key files and the encrypted scripts a module is built with, and the *)
(* search a session key makes among them (src/src/libs/key_tools,          *)
(* src/src/programs/tools, src/scripts/tools, ConsensusHashGenerator).     *)
(*                                                                         *)
(* A script is encrypted with a key of its own, kept as the exclusive or   *)
(* of its bytes and those of a secret.  Two encodings of a key differ in   *)
(* length by a few bytes, and the loops run over the bytes of the encoded  *)
(* key: where it is the longer one they read on behind the secret, and     *)
(* what is read there is anything.  38 of the 336 key files in the         *)
(* repository are of that kind (modules/block_module/keys/key_1.json).     *)
(***************************************************************************)
EXTENDS Naturals, Sequences

CONSTANTS
    Length,     \* [secrets and encryption keys -> the bytes of their encoding]
    Garbled     \* any bytes that are no key, or not the right one

\* keto_tools -G, and the key file it prints ...
KeyPairCreator(secret, key) == [secret |-> secret, encodedKey |-> [with |-> secret, key |-> key]]

\* ... or -G -k: another encryption key for the secret of a file.
GenerateKey(pair, key) == KeyPairCreator(pair.secret, key)

\* GenerateKeysModuleKeys.sh: the files of a module have the secrets of the first.
ModuleKeys(pairs, keys) == [i \in DOMAIN pairs |-> GenerateKey(pairs[i], keys[i])]

\* -P: the secrets become the session keys of a server.
PrivateKeys(pairs) == [i \in DOMAIN pairs |-> pairs[i].secret]

\* -H.
HashFile(content) == [hashOf |-> content]

\* -E: only the public half is used, and it ends before the last bytes.
EncryptData(pair, content) == [content |-> content, key |-> pair.encodedKey.key]

\* GenerateConsensusScriptInfo.sh: what is compiled into the module.
ScriptInfo(pair, content) ==
    [hash |-> HashFile(content), encodedKey |-> pair.encodedKey, code |-> EncryptData(pair, content)]

ScriptInfos(pairs, content) == [i \in DOMAIN pairs |-> ScriptInfo(pairs[i], content)]

\* What the encoded key may turn out to be with a secret.
GetDerivedKey(secret, encodedKey) ==
    CASE secret # encodedKey.with -> {Garbled}
      [] secret = encodedKey.with /\ Length[encodedKey.key] > Length[secret] ->
             {encodedKey.key, Garbled}
      [] OTHER -> {encodedKey.key}

\* With any other key there is an exception or other content.
ContentDecryptor(secret, encodedKey, code) ==
    {IF key = code.key THEN code.content ELSE Garbled : key \in GetDerivedKey(secret, encodedKey)}

\* ConsensusHashGenerator::setSession: whether one of the scripts has the hash it
\* should have.  What is behind a secret is not the same the next time.
Opening(secret, infos) ==
    LET Outcomes(i) == {HashFile(content) = infos[i].hash :
                           content \in ContentDecryptor(secret, infos[i].encodedKey, infos[i].code)}
    IN  {opened \in BOOLEAN :
            IF opened THEN \E i \in DOMAIN infos : TRUE \in Outcomes(i)
                      ELSE \A i \in DOMAIN infos : FALSE \in Outcomes(i)}
=============================================================================
