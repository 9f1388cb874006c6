---------------------------- MODULE MCBlockChain ----------------------------
(* Instances of the block module: two phases of one transaction share a hash. *)
EXTENDS BlockChain, TLC

CONSTANTS b1, b2, b3, b4, m1, m2, h1

MCThread == {Main, Producer}
MCHashOfTwo == (m1 :> h1) @@ (m2 :> h1)
NoDatabases == {}
IndexDatabases == {"childs", "transactions"}
Always == {TRUE}
Either == BOOLEAN
=============================================================================
