------------------------------ MODULE MCRoles ------------------------------
(* Small instance of Roles: every role has a permission of its own.        *)
EXTENDS Roles

MCMatrix == [r \in Role |-> {r}]
=============================================================================
