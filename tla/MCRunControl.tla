--------------------------- MODULE MCRunControl ----------------------------
(* Small instances of RunControl for TLC. *)
EXTENDS RunControl, TLC

\* Runs are told apart only by the state they are in.
RunSymmetry == Permutations(Runs)
=============================================================================
