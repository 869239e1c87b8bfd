----------------------------- MODULE MCJSONStore -----------------------------
(* Small instances of JSONStore for TLC.                                   *)
EXTENDS JSONStore, TLC

Symmetry == Permutations(Threads) \cup Permutations(Ids) \cup Permutations(Values)
=============================================================================
