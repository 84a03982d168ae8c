---------------------------- MODULE MCDRuleUsers ----------------------------
EXTENDS DRuleUsers, TLC

Symmetry == Permutations(Unids) \cup Permutations(Workers)

\* Every method that manages a DRule.
Everything == {m \in DOMAIN O!Methods : Manages(m)} \cup {"WriteFather", "ReadFather"}
=============================================================================
