--------------------------- MODULE MCEvictionLoop ---------------------------
(***************************************************************************)
(* A small instance of EvictionLoop: a manifest that names one chunk       *)
(* twice, with its chunks, each of which may also be a set of its own.     *)
(***************************************************************************)
EXTENDS EvictionLoop, TLC

CONSTANTS m, a, b

MCBlob == {m, a, b}
MCManifest == m :> [totalSize |-> 3, chunks |-> <<a, b, a>>]
MCSize == [h \in MCBlob |-> 1]
MCDirectories == {MCBlob, {m, a}}
MCClaims == {[h \in MCBlob |-> IF h \in S THEN 1 ELSE 0] : S \in {{}, {b}, {m, a}}}
=============================================================================
