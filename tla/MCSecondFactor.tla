-------------------------- MODULE MCSecondFactor --------------------------
(* Small instance of SecondFactor: interchangeable requests. *)
EXTENDS SecondFactor, TLC

Symmetry == Permutations(Procs)
=============================================================================
