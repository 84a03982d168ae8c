-------------------------- MODULE MCTRuleLifecycle -------------------------
(* Small instances of TRuleLifecycle; the clients are interchangeable.     *)
EXTENDS TRuleLifecycle, TLC

Symmetry == Permutations(Clients)
=============================================================================
