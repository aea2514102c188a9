--------------------------- MODULE MCSandboxPool ---------------------------
(* Small instances of SandboxPool for TLC. *)
EXTENDS SandboxPool, TLC

\* Containers are told apart only by the state they are in.
BoxSymmetry == Permutations(Boxes)
=============================================================================
