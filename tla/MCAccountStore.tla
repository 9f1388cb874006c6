--------------------------- MODULE MCAccountStore ---------------------------
(* Instances of AccountStore.  The accounts are alike but for which of them *)
(* may be later masters.                                                    *)
EXTENDS AccountStore, TLC

CONSTANTS a1, a2, a3, r1, r2

MCAccount == {a1, a2, a3}
MCLater == {a1}
MCOne == {r1}
MCTwo == {r1, r2}
SymmetryLater == Permutations({a2, a3})
=============================================================================
