--------------------------- MODULE TransactionLife ---------------------------
(***************************************************************************)
(* What the routing of messages promises of a transaction, whatever server *)
(* each of its phases is handled on: it is put into a block queue at most  *)
(* once for each phase, first to be debited from its source account, then  *)
(* to be credited to its target.                                           *)
(***************************************************************************)
EXTENDS Sequences

CONSTANT Message        \* the transactions
VARIABLE phases         \* the phases of each that were queued, in their order

Init == phases = [m \in Message |-> << >>]

Debit(m) ==
    /\ phases[m] = << >>
    /\ phases' = [phases EXCEPT ![m] = <<"init">>]

Credit(m) ==
    /\ phases[m] = <<"init">>
    /\ phases' = [phases EXCEPT ![m] = <<"init", "credit">>]

Next == \E m \in Message : Debit(m) \/ Credit(m)

Spec == Init /\ [][Next]_phases
=============================================================================
