--------------------------- MODULE MCSessionTokens ---------------------------
(* Small instance of SessionTokens: interchangeable users and requests.      *)
EXTENDS SessionTokens, TLC

Symmetry == Permutations(Users) \cup Permutations(Procs)
=============================================================================
