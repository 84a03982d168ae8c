----------------------------- MODULE MCRelaDB -----------------------------
(***************************************************************************)
(* A small instance of RelaDB: reladb.cfg gives every constant its value.  *)
(***************************************************************************)
EXTENDS RelaDB

\* The ids are among the values, as one of the fields takes them.
MCValues == Ids
=============================================================================
