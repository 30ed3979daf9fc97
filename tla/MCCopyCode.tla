----------------------------- MODULE MCCopyCode -----------------------------
(***************************************************************************)
(* Eight bytes, half the store sizes and half the fetch window: stores of  *)
(* two and four bytes, windows of four.                                    *)
(***************************************************************************)
EXTENDS CopyCode, TLC

\* Instructions inside a window and across two.
MCLayouts == {{0, 3}, {0, 1, 7}}
MCCodes == {[a \in Addr |-> 0]}
MCNewCodes == [Addr -> {0, 1}]
Symmetry == Permutations(Procs)
=============================================================================
