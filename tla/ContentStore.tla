---------------------------- MODULE ContentStore ----------------------------
(***************************************************************************)
(* What a node's content store promises, seen from outside: it holds whole *)
(* sets, its operator's own and other people's.  A set appears all at once *)
(* and with every blob; an owned set never goes away; a hosted set goes    *)
(* away only at the moment another one arrives; and the hosted sets fit    *)
(* the budget.                                                             *)
(***************************************************************************)
EXTENDS Integers, FiniteSets

CONSTANTS Root, SetBytes, Budget

VARIABLES owned, hosted

Bytes(R) == Cardinality(UNION {{r} \X (1 .. SetBytes[r]) : r \in R})

Init == owned = {} /\ hosted = {}

(* The operator publishes r, which may have been hosted before. *)
Publish(r) ==
    /\ owned' = owned \cup {r}
    /\ hosted' = hosted \ {r}

(* Somebody else's copy of r arrives, for the first time or once more, and *)
(* takes the place of the sets in gone.  A set that is the operator's own  *)
(* stays so.                                                               *)
Host(r, gone) ==
    /\ hosted' = (hosted \ gone) \cup ({r} \ owned)
    /\ Bytes(hosted') <= Budget
    /\ owned' = owned

Next ==
    \/ \E r \in Root : Publish(r)
    \/ \E r \in Root, gone \in SUBSET hosted : Host(r, gone)

Spec == Init /\ [][Next]_<<owned, hosted>>
=============================================================================
