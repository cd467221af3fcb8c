--------------------------- MODULE MCObjectTable ----------------------------
(* Two tables, four addresses, an array that starts with two slots. *)
EXTENDS ObjectTable, TLC

CONSTANTS a1, a2, a3, a4, t1, t2, k1, k2

MCAddrs      == {a1, a2, a3, a4}
MCTables     == {t1, t2}
MCComparable == {k1, k2}

\* Addresses, handles and keys are only compared for equality.
Symmetry == Permutations(MCAddrs) \union Permutations(MCTables) \union Permutations(MCComparable)
=============================================================================
