---------------------------- MODULE MCRoleFiles ----------------------------
(***************************************************************************)
(* Small instances of RoleFiles.                                           *)
(***************************************************************************)
EXTENDS RoleFiles

TwoValues == {0, 2}
=============================================================================
