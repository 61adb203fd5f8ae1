------------------------------ MODULE MCRequests ------------------------------
(***************************************************************************)
(* Two browsers for every part; the constants have their values in the     *)
(* cfg, but for Python's order of the photos: the database sorts photo 1   *)
(* before the others and Python after them, as with a name in "e-acute" and two  *)
(* in "z" on a database with a linguistic collation.                       *)
(***************************************************************************)
EXTENDS Requests

MCPyOrder == [p \in Shots |-> IF p = 1 THEN 4 ELSE p]
=============================================================================
