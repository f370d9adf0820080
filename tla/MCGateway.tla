----------------------------- MODULE MCGateway -----------------------------
(* Small instance of Gateway: interchangeable calls, and four ways a client  *)
(* and its service may behave.                                               *)
EXTENDS Gateway, TLC

\* Refreshes and the end of their session run into each other.
Crossing == [routes |-> {"refresh", "logoutAll"}, outages |-> FALSE]

\* Refreshes meet a service that goes down and comes back.
Retrying == [routes |-> {"refresh"}, outages |-> TRUE]

Leaving == [routes |-> {"logout", "me", "logoutAll"}, outages |-> FALSE]
Browsing == [routes |-> {"me", "oauth"}, outages |-> TRUE]

Workloads == {Crossing, Retrying, Leaving, Browsing}

Symmetry == Permutations(Procs)
=============================================================================
