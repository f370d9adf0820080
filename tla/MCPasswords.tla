--------------------------- MODULE MCPasswords ---------------------------
(* Small instance of Passwords: interchangeable requests, and passwords that *)
(* are interchangeable but for one, which the policy refuses.                *)
EXTENDS Passwords, FiniteSetsExt, TLC

CONSTANT Weak

Profiles ==
  [w \in Passwords |->
     [length |-> IF w = Weak THEN 11 ELSE 12, common |-> FALSE, upper |-> TRUE,
      lower |-> TRUE, digit |-> TRUE, special |-> TRUE, hasUsername |-> FALSE,
      hasEmail |-> FALSE]]

Strong == Passwords \ {Weak}

\* Four tokens only for the daily limit, all passwords only for the history.
Workloads ==
  {[ops |-> {"forgot"}, tokens |-> 4, words |-> s] : s \in kSubset(1, Strong)} \cup
  {[ops |-> {"forgot", "reset"}, tokens |-> 2, words |-> s] : s \in kSubset(1, Strong)} \cup
  {[ops |-> AllOps, tokens |-> 1, words |-> s] : s \in kSubset(2, Strong)} \cup
  {[ops |-> {"change"}, tokens |-> 0, words |-> Passwords]}

Symmetry == Permutations(Procs) \cup Permutations(Strong)
=============================================================================
