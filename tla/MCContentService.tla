-------------------------- MODULE MCContentService --------------------------
(***************************************************************************)
(* Small instances of ContentService: a manifest that names one chunk      *)
(* twice, a file identical to its other chunk, and a second manifest that  *)
(* shares that chunk.                                                      *)
(***************************************************************************)
EXTENDS ContentService, TLC

CONSTANTS m, n, a, b

MCBlob == {m, n, a, b}
MCManifest == (m :> [totalSize |-> 3, chunks |-> <<a, b, a>>])
           @@ (n :> [totalSize |-> 2, chunks |-> <<b, b>>])
MCSize == [h \in MCBlob |-> 1]
NoBlobs == {}

Symmetry == Permutations(Writer)
=============================================================================
