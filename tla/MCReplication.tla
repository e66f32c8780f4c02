--------------------------- MODULE MCReplication ---------------------------
(***************************************************************************)
(* Small instances of Replication.                                         *)
(***************************************************************************)
EXTENDS Replication

CONSTANTS p, a, b, c

(* More peers than the target asks for are closer than the publisher. *)
FourClosest == <<a, b, p, c>>
=============================================================================
