---------------------------- MODULE MCIdentities ----------------------------
(* Small instance of Identities: two people at GitHub, of whom the second hides the
   address, and the person of a test code at Microsoft. *)
EXTENDS Identities, TLC

CONSTANTS a, b, n

GitHub(w) == [provider |-> "github", who |-> w]
Microsoft == [provider |-> "microsoft", who |-> 1]

People == {GitHub(1), GitHub(2), Microsoft}
Coded == {Microsoft}
Short == [i \in People |-> i]

Shown(e) == [public |-> e, primary |-> e, verified |-> {e}]
Hidden(e) == [public |-> NoEmail, primary |-> e, verified |-> {e}]

\* The first person at GitHub changes the address, the others share one.
Accounts == [i \in People |-> CASE i = GitHub(1) -> {Shown(a), Shown(b)}
                                [] i = GitHub(2) -> {Hidden(a)}
                                [] i = Microsoft -> {Shown(a)}]

\* Two flows and a death only where fewer operations meet.
Workloads ==
  {[ops |-> {"callback", "unlink"}, flows |-> 2, deaths |-> 1],
   [ops |-> {"callback", "delete"}, flows |-> 2, deaths |-> 1],
   [ops |-> {"callback", "register"}, flows |-> 2, deaths |-> 1],
   [ops |-> {"callback", "unlink", "register", "delete"}, flows |-> 1, deaths |-> 0]}

Symmetry == Permutations(Procs)
=============================================================================
