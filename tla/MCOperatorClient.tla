-------------------------- MODULE MCOperatorClient --------------------------
EXTENDS OperatorClient, TLC

Symmetry == Permutations(Trans)
=============================================================================
