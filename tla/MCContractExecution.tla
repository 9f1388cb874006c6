------------------------ MODULE MCContractExecution -------------------------
(* Contracts that write and read back, one that fails half-way, one that no  *)
(* status finds an entry in, and an account with two contracts.              *)
EXTENDS ContractExecution, TLC

Coin == [base |-> "coin", name |-> "transaction"]
S == <<"coin", "note", "n">>
P == <<"coin", "text">>
Q == <<"coin", "flag">>

Call(op) == [op |-> op]
Set(p, type, v) == [op |-> "set", subject |-> S, predicate |-> p, type |-> type, value |-> v]
Get(p, type) == [op |-> "get", subject |-> S, predicate |-> p, type |-> type]
Transfer(op) == [op |-> op, valueModel |-> Coin, value |-> "5"]
TransactionValue == [op |-> "getValue", type |-> "long", valueModel |-> Coin]

Account == [loads |-> TRUE, start |-> << >>, exports |->
              "debit" :> <<Call("account"), Transfer("debit"), Set(P, "string", "first"),
                           Get(P, "string"), Set(P, "string", "second"), Get(P, "string")>>
           @@ "credit" :> <<Transfer("credit"), Call("grow"), Call("account")>>]
Careful == [loads |-> TRUE, start |-> <<Call("log")>>, exports |->
              "_main" :> <<Set(Q, "boolean", "true"), Get(Q, "boolean"), TransactionValue>>]
Trapping == [loads |-> TRUE, start |-> << >>, exports |->
              "debit" :> <<Transfer("debit"), Call("trap")>>]
Broken == [loads |-> FALSE, start |-> << >>, exports |-> << >>]

MCAccounts == {"x", "y", "z", "w", "v", "u"}
MCContracts == [a \in MCAccounts |->
                   CASE a = "x" -> {Account} [] a = "y" -> {Careful} [] a = "z" -> {Trapping}
                     [] a = "w" -> {Broken} [] OTHER -> {Account, Careful}]
MCMessages == {"m1", "m2", "m3", "m4", "m5", "m6", "m7"}
MCSource == "m1" :> "x" @@ "m2" :> "x" @@ "m3" :> "y" @@ "m4" :> "z" @@ "m5" :> "w" @@ "m6" :> "u"
            @@ "m7" :> "x"
MCTarget == "m1" :> "y" @@ "m2" :> "x" @@ "m3" :> "x" @@ "m4" :> "v" @@ "m5" :> "x" @@ "m6" :> "x"
            @@ "m7" :> "v"
MCStatus == "m1" :> "init" @@ "m2" :> "credit" @@ "m3" :> "processing" @@ "m4" :> "debit"
            @@ "m5" :> "init" @@ "m6" :> "init" @@ "m7" :> "credit"
MCGenesis == <<[account |-> "x", privateKey |-> "x key", value |-> 0, model |-> << >>]>>
ThreadSymmetry == Permutations(Threads)
=============================================================================
