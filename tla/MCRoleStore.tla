---------------------------- MODULE MCRoleStore ----------------------------
(* Sets of operations for the runs: at most one of each effect.            *)
EXTENDS RoleStore, TLC

StoreAndDelete == {WriteFather, StoreRole, DeleteRole}

WriteReadDelete == {WriteFather, DropContext, ReadFather, DeleteRole}

Symmetry == Permutations(Trans)
=============================================================================
