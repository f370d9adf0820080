------------------------------- MODULE MCOtp -------------------------------
(* Small instance of Otp with interchangeable requests.                      *)
EXTENDS Otp, TLC

Symmetry == Permutations(Procs)
=============================================================================
