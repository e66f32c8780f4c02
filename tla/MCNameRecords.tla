---------------------------- MODULE MCNameRecords ----------------------------
(***************************************************************************)
(* Small instances of NameRecords, and Validator.Select as the loop it is. *)
(***************************************************************************)
EXTENDS NameRecords, Sequences, SequencesExt, TLC

Symmetry == Permutations(Locked)

(* Select over a sequence of values, from first to last.                   *)
Selected(vals) ==
    FoldLeft(LAMBDA best, v : IF Better(v, best) THEN v ELSE best, Head(vals), Tail(vals))

SomeRecords == [seq : 0 .. 1, eol : 0 .. 1, body : Body]

(* Whatever the order of the values, Select returns the one best of them.  *)
ASSUME SelectIsBest ==
    \A a, b, c \in SomeRecords :
        /\ Selected(<<a, b, c>>) = Selected(<<c, b, a>>)
        /\ Selected(<<a, b, c>>) = Selected(<<b, a, c>>)
        /\ IsBest(Selected(<<a, b, c>>), {a, b, c})
=============================================================================
