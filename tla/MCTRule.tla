------------------------------ MODULE MCTRule ------------------------------
(***************************************************************************)
(* Small instances of TRule for TLC.  Transactions and spots are           *)
(* interchangeable, so the safety runs take both as symmetry sets.         *)
(***************************************************************************)
EXTENDS TRuleInvariant, TLC

Symmetry == Permutations(Trans) \cup Permutations(Spots)

SymmetryOfTrans == Permutations(Trans)
=============================================================================
