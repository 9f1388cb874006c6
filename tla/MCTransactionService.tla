------------------------ MODULE MCTransactionService ------------------------
(* An instance of TransactionService: two threads that write the same row   *)
(* of an account database, of its graph store and of a block database.      *)
EXTENDS TransactionService, TLC

CONSTANTS t1, t2, x1, x2

MCThread == {t1, t2}
MCTwo == {x1, x2}
MCResource == {"account", "block"}
MCDatabase == {"accounts", "graph", "blocks"}
MCOwner == [d \in MCDatabase |-> IF d \in {"accounts", "graph"} THEN "account" ELSE "block"]
MCPosition == "accounts" :> 1 @@ "graph" :> 2 @@ "blocks" :> 1
MCRow == {1}
MCShared == [t \in MCThread |-> MCRow]
=============================================================================
