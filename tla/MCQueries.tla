----------------------------- MODULE MCQueries -----------------------------
(***************************************************************************)
(* A small instance of Queries.                                            *)
(***************************************************************************)
EXTENDS Queries

CONSTANTS q1, q2, q3, o1, o2
=============================================================================
