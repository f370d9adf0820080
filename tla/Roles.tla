------------------------------- MODULE Roles -------------------------------
(***************************************************************************)
(* RbacService: seeding of the role tables by every instance of the        *)
(* service that starts, assignment and revocation of roles, and the two    *)
(* cached lists (rbac:roles:<user>, rbac:permissions:<user>) that sign-ins *)
(* and refreshes read for the claims of an access token.                   *)
(*                                                                         *)
(* A step ends where the code awaits PostgreSQL or Redis.  Rows of roles   *)
(* and permissions are never changed or deleted, so the last SELECT of     *)
(* findUserRoles and of findUserPermissions, which looks up rows by ids    *)
(* already read, is part of the step before it.  The role named i is the   *)
(* i-th of DEFAULT_MATRIX; likewise for permissions.                       *)
(***************************************************************************)
EXTENDS Naturals

CONSTANTS Req, Svc, User,
          NRoles, NPerms,   \* entries of DEFAULT_MATRIX, distinct permissions
          Matrix,           \* DEFAULT_MATRIX: the permissions of each role
          MaxChanges,       \* bound on assignments and revocations begun
          MaxFailures,      \* bound on seedings that fail and instances that die
          Null

Role == 1..NRoles
Perm == 1..NPerms

ASSUME ConstantsAssumption ==
  /\ NRoles \in Nat \ {0} /\ NPerms \in Nat \ {0} /\ MaxChanges \in Nat
  /\ MaxFailures \in Nat
  /\ Matrix \in [Role -> (SUBSET Perm) \ {{}}]

VARIABLES permissions, roles, \* rows, by name
          links,              \* role_permissions, per role
          users,              \* users with a row
          userRoles,          \* user_roles, per user
          roleCache,          \* rbac:roles:<user>
          permCache,          \* rbac:permissions:<user>
          svc,                \* start-up of each instance
          req,                \* calls in progress
          changes,            \* assignments and revocations begun
          failures,           \* seedings that failed and instances that died
          cut                 \* ghost: a seeding died or failed half-way

tables == <<permissions, roles, links>>
caches == <<roleCache, permCache>>
vars == <<tables, users, userRoles, caches, svc, req, changes, failures, cut>>

\* The ghost doubt marks a list, in the cache or about to be stored, that may
\* be out of date: a change overlapped the read, a call died before its DEL,
\* or a seeding linked a permission after the read.
Entry(S) == [val : SUBSET S, doubt : BOOLEAN, expires : BOOLEAN]

\* A start-up: the permission or role to create next, or the role being
\* linked and what is left to link to it.
Instance == [at : {"down", "find", "perm", "role", "link", "up"},
             next : Role \cup Perm, todo : SUBSET Perm]

\* A call, with what it has read.
Call == [at : {"idle", "find", "assign", "revoke", "delPerms", "delRoles", "readRoles",
               "setRoles", "getPerms", "readRoleIds", "readLinks", "setPerms"},
         user : User \cup {Null}, role : Role \cup {Null},
         got : SUBSET Role, perms : SUBSET Perm, doubt : BOOLEAN]

Idle == [at |-> "idle", user |-> Null, role |-> Null,
         got |-> {}, perms |-> {}, doubt |-> FALSE]

Init ==
  /\ permissions = {} /\ roles = {} /\ links = [r \in Role |-> {}]
  /\ users = {} /\ userRoles = [u \in User |-> {}]
  /\ roleCache = [u \in User |-> Null] /\ permCache = [u \in User |-> Null]
  /\ svc = [s \in Svc |-> [at |-> "down", next |-> 1, todo |-> {}]]
  /\ req = [r \in Req |-> Idle]
  /\ changes = 0 /\ failures = 0 /\ cut = FALSE

PermsOf(u) == UNION {links[r] : r \in userRoles[u]}

-----------------------------------------------------------------------------
\* Seeding.

At(s, a) == svc[s].at = a
Seeding(s) == svc[s].at \in {"perm", "role", "link"}
Go(s, a, n, todo) == svc' = [svc EXCEPT ![s] = [at |-> a, next |-> n, todo |-> todo]]

Start(s) ==
  /\ At(s, "down")
  /\ Go(s, "find", 1, {})
  /\ UNCHANGED <<tables, users, userRoles, caches, req, changes, failures, cut>>

FindAllRoles(s) ==
  /\ At(s, "find")
  /\ Go(s, IF roles = {} THEN "perm" ELSE "up", 1, {})
  /\ UNCHANGED <<tables, users, userRoles, caches, req, changes, failures, cut>>

\* The unique index refuses a name that exists: the error ends the seeding,
\* and buildApp logs it and goes on.
CreatePermission(s) ==
  /\ At(s, "perm")
  /\ LET n == svc[s].next IN
     IF n \in permissions
     THEN Go(s, "up", 1, {}) /\ UNCHANGED permissions
     ELSE /\ permissions' = permissions \cup {n}
          /\ IF n = NPerms THEN Go(s, "role", 1, {}) ELSE Go(s, "perm", n + 1, {})
  /\ UNCHANGED <<roles, links, users, userRoles, caches, req, changes, failures, cut>>

CreateRole(s) ==
  /\ At(s, "role")
  /\ LET n == svc[s].next IN
     IF n \in roles
     THEN Go(s, "up", 1, {}) /\ UNCHANGED roles
     ELSE roles' = roles \cup {n} /\ Go(s, "link", n, Matrix[n])
  /\ UNCHANGED <<permissions, links, users, userRoles, caches, req, changes, failures, cut>>

Doubt(e) == IF e = Null THEN Null ELSE [e EXCEPT !.doubt = TRUE]
RolesInHand(q) == req[q].at = "setRoles"
PermsInHand(q) == req[q].at \in {"readLinks", "setPerms"}

\* MUTANT: the loop over the roles runs once too often.
AfterLinkOneMore(s, p) ==
  LET left == svc[s].todo \ {p}
      n == svc[s].next IN
  IF left # {} THEN Go(s, "link", n, left)
  ELSE IF n <= NRoles THEN Go(s, "role", n + 1, {})
  ELSE Go(s, "up", 1, {})

\* MUTANT: the loop over the roles stops before the last one.
AfterLinkOneLess(s, p) ==
  LET left == svc[s].todo \ {p}
      n == svc[s].next IN
  IF left # {} THEN Go(s, "link", n, left)
  ELSE IF n + 1 < NRoles THEN Go(s, "role", n + 1, {})
  ELSE Go(s, "up", 1, {})

AfterLink(s, p) ==
  LET left == svc[s].todo \ {p}
      n == svc[s].next IN
  IF left # {} THEN Go(s, "link", n, left)
  ELSE IF n < NRoles THEN Go(s, "role", n + 1, {})
  ELSE Go(s, "up", 1, {})

\* No cached list is cleared when a role gains a permission.
LinkPermission(s) ==
  /\ At(s, "link")
  /\ \E p \in svc[s].todo :
       /\ \A q \in svc[s].todo : p <= q
       /\ links' = [links EXCEPT ![svc[s].next] = @ \cup {p}]
       /\ AfterLink(s, p)
  /\ permCache' = [u \in User |-> Doubt(permCache[u])]
  /\ req' = [q \in Req |-> IF PermsInHand(q) THEN [req[q] EXCEPT !.doubt = TRUE] ELSE req[q]]
  /\ UNCHANGED <<permissions, roles, users, userRoles, roleCache, changes, failures, cut>>

\* A failed statement: the catch around seedRolesAndPermissions.
SeedFails(s) ==
  /\ At(s, "find") \/ Seeding(s)
  /\ Go(s, "up", 1, {})
  /\ failures < MaxFailures /\ failures' = failures + 1
  /\ cut' = TRUE
  /\ UNCHANGED <<tables, users, userRoles, caches, req, changes>>

\* The process dies.
Die(s) ==
  /\ svc[s].at # "down"
  /\ Go(s, "down", 1, {})
  /\ failures < MaxFailures /\ failures' = failures + 1
  /\ cut' = (cut \/ Seeding(s))
  /\ UNCHANGED <<tables, users, userRoles, caches, req, changes>>

-----------------------------------------------------------------------------
\* assignRoleToUser and revokeRoleFromUser.

Move(r, a) == req' = [req EXCEPT ![r].at = a]
Served(r) == req[r] = Idle /\ \E s \in Svc : At(s, "up")

BeginChange(r, u, n, a) ==
  /\ Served(r) /\ changes < MaxChanges
  /\ changes' = changes + 1
  /\ req' = [req EXCEPT ![r] = [Idle EXCEPT !.at = a, !.user = u, !.role = n]]

\* register and the first OAuth sign-in insert the row of the user, then
\* assign its first role.
Register(r) ==
  /\ \E u \in User \ users, n \in Role :
       BeginChange(r, u, n, "find") /\ users' = users \cup {u}
  /\ UNCHANGED <<tables, userRoles, caches, svc, failures, cut>>

\* findRoleByName; without the role a 404 leaves the new user without any.
FindRole(r) ==
  /\ req[r].at = "find"
  /\ IF req[r].role \in roles
     THEN Move(r, "assign")
     ELSE req' = [req EXCEPT ![r] = Idle]
  /\ UNCHANGED <<tables, users, userRoles, caches, svc, changes, failures, cut>>

\* The calls of an operator begin with findRoleByName, and end with it when
\* the role is missing.
BeginAssign(r) ==
  /\ \E u \in users, n \in roles : BeginChange(r, u, n, "assign")
  /\ UNCHANGED <<tables, users, userRoles, caches, svc, failures, cut>>

BeginRevoke(r) ==
  /\ \E u \in users, n \in roles : BeginChange(r, u, n, "revoke")
  /\ UNCHANGED <<tables, users, userRoles, caches, svc, failures, cut>>

\* What the change does to the calls: it goes on to clear the cache, and
\* every list of that user read before it is doubtful.
Changed(r, u) ==
  req' = [q \in Req |->
    IF q = r THEN [req[r] EXCEPT !.at = "delPerms", !.role = Null]
    ELSE IF req[q].user = u /\ (RolesInHand(q) \/ PermsInHand(q))
    THEN [req[q] EXCEPT !.doubt = TRUE] ELSE req[q]]

InsertUserRole(r) ==
  /\ req[r].at = "assign"
  /\ userRoles' = [userRoles EXCEPT ![req[r].user] = @ \cup {req[r].role}]
  /\ Changed(r, req[r].user)
  /\ UNCHANGED <<tables, users, caches, svc, changes, failures, cut>>

DeleteUserRole(r) ==
  /\ req[r].at = "revoke"
  /\ userRoles' = [userRoles EXCEPT ![req[r].user] = @ \ {req[r].role}]
  /\ Changed(r, req[r].user)
  /\ UNCHANGED <<tables, users, caches, svc, changes, failures, cut>>

\* MUTANT: the second key is forgotten.
DelPermsOnly(r) ==
  /\ req[r].at = "delPerms"
  /\ permCache' = [permCache EXCEPT ![req[r].user] = Null]
  /\ req' = [req EXCEPT ![r] = Idle]
  /\ UNCHANGED <<tables, users, userRoles, roleCache, svc, changes, failures, cut>>

DelPerms(r) ==
  /\ req[r].at = "delPerms"
  /\ permCache' = [permCache EXCEPT ![req[r].user] = Null]
  /\ Move(r, "delRoles")
  /\ UNCHANGED <<tables, users, userRoles, roleCache, svc, changes, failures, cut>>

DelRoles(r) ==
  /\ req[r].at = "delRoles"
  /\ roleCache' = [roleCache EXCEPT ![req[r].user] = Null]
  /\ req' = [req EXCEPT ![r] = Idle]
  /\ UNCHANGED <<tables, users, userRoles, permCache, svc, changes, failures, cut>>

-----------------------------------------------------------------------------
\* getUserRoles, then getUserPermissions, as every issue of an access token
\* calls them.

\* It begins with the GET of the list of roles: a hit goes on to the other.
BeginRead(r) ==
  /\ Served(r)
  /\ \E u \in users :
       req' = [req EXCEPT ![r] = [Idle EXCEPT !.user = u,
                 !.at = IF roleCache[u] = Null THEN "readRoles" ELSE "getPerms"]]
  /\ UNCHANGED <<tables, users, userRoles, caches, svc, changes, failures, cut>>

ReadRoles(r) ==
  /\ req[r].at = "readRoles"
  /\ req' = [req EXCEPT ![r].at = "setRoles", ![r].got = userRoles[req[r].user]]
  /\ UNCHANGED <<tables, users, userRoles, caches, svc, changes, failures, cut>>

SetRoles(r) ==
  /\ req[r].at = "setRoles"
  /\ roleCache' = [roleCache EXCEPT ![req[r].user] =
       [val |-> req[r].got, doubt |-> req[r].doubt, expires |-> TRUE]]
  /\ req' = [req EXCEPT ![r] = [Idle EXCEPT !.at = "getPerms", !.user = req[r].user]]
  /\ UNCHANGED <<tables, users, userRoles, permCache, svc, changes, failures, cut>>

GetPerms(r) ==
  /\ req[r].at = "getPerms"
  /\ IF permCache[req[r].user] = Null
     THEN Move(r, "readRoleIds")
     ELSE req' = [req EXCEPT ![r] = Idle]
  /\ UNCHANGED <<tables, users, userRoles, caches, svc, changes, failures, cut>>

\* Without a role the second SELECT is skipped.
ReadRoleIds(r) ==
  /\ req[r].at = "readRoleIds"
  /\ LET got == userRoles[req[r].user] IN
     req' = [req EXCEPT ![r].at = IF got = {} THEN "setPerms" ELSE "readLinks",
                        ![r].got = got, ![r].perms = {}]
  /\ UNCHANGED <<tables, users, userRoles, caches, svc, changes, failures, cut>>

ReadLinks(r) ==
  /\ req[r].at = "readLinks"
  /\ req' = [req EXCEPT ![r].at = "setPerms", ![r].got = {},
                        ![r].perms = UNION {links[n] : n \in req[r].got}]
  /\ UNCHANGED <<tables, users, userRoles, caches, svc, changes, failures, cut>>

\* MUTANT: the list is stored without its time to live.
SetPermsForever(r) ==
  /\ req[r].at = "setPerms"
  /\ permCache' = [permCache EXCEPT ![req[r].user] =
       [val |-> req[r].perms, doubt |-> req[r].doubt, expires |-> FALSE]]
  /\ req' = [req EXCEPT ![r] = Idle]
  /\ UNCHANGED <<tables, users, userRoles, roleCache, svc, changes, failures, cut>>

SetPerms(r) ==
  /\ req[r].at = "setPerms"
  /\ permCache' = [permCache EXCEPT ![req[r].user] =
       [val |-> req[r].perms, doubt |-> req[r].doubt, expires |-> TRUE]]
  /\ req' = [req EXCEPT ![r] = Idle]
  /\ UNCHANGED <<tables, users, userRoles, roleCache, svc, changes, failures, cut>>

\* A failed statement, or the death of the process that serves the call.
Drop(r) ==
  /\ req[r] # Idle
  /\ LET u == req[r].user IN
     /\ permCache' = IF req[r].at = "delPerms"
                     THEN [permCache EXCEPT ![u] = Doubt(@)] ELSE permCache
     /\ roleCache' = IF req[r].at \in {"delPerms", "delRoles"}
                     THEN [roleCache EXCEPT ![u] = Doubt(@)] ELSE roleCache
  /\ req' = [req EXCEPT ![r] = Idle]
  /\ UNCHANGED <<tables, users, userRoles, svc, changes, failures, cut>>

\* EX CACHE_TTL.
RolesExpire(u) ==
  /\ roleCache[u] # Null /\ roleCache[u].expires
  /\ roleCache' = [roleCache EXCEPT ![u] = Null]
  /\ UNCHANGED <<tables, users, userRoles, permCache, svc, req, changes, failures, cut>>

PermsExpire(u) ==
  /\ permCache[u] # Null /\ permCache[u].expires
  /\ permCache' = [permCache EXCEPT ![u] = Null]
  /\ UNCHANGED <<tables, users, userRoles, roleCache, svc, req, changes, failures, cut>>

-----------------------------------------------------------------------------
Seed(s) == FindAllRoles(s) \/ CreatePermission(s) \/ CreateRole(s) \/ LinkPermission(s)
Begin(r) == Register(r) \/ BeginAssign(r) \/ BeginRevoke(r) \/ BeginRead(r)
Continue(r) ==
  \/ FindRole(r) \/ InsertUserRole(r) \/ DeleteUserRole(r) \/ DelPerms(r) \/ DelRoles(r)
  \/ ReadRoles(r) \/ SetRoles(r)
  \/ GetPerms(r) \/ ReadRoleIds(r) \/ ReadLinks(r) \/ SetPerms(r)

Next ==
  \/ \E s \in Svc : Start(s) \/ Seed(s) \/ SeedFails(s) \/ Die(s)
  \/ \E r \in Req : Begin(r) \/ Continue(r) \/ Drop(r)
  \/ \E u \in User : RolesExpire(u) \/ PermsExpire(u)

Spec == Init /\ [][Next]_vars

\* A call in progress goes on unless it is dropped, and a key expires.
FairSpec ==
  /\ Spec
  /\ \A r \in Req : WF_vars(Continue(r))
  /\ \A u \in User : WF_vars(RolesExpire(u)) /\ WF_vars(PermsExpire(u))

-----------------------------------------------------------------------------
\* Properties.

\* Type invariant: tables, caches, start-ups and calls of RbacService hold
\* values of their types; nobody is past the last role or permission.
TypeOK ==
  /\ permissions \subseteq Perm /\ roles \subseteq Role
  /\ links \in [Role -> SUBSET Perm]
  /\ users \subseteq User /\ userRoles \in [User -> SUBSET roles]
  /\ roleCache \in [User -> Entry(Role) \cup {Null}]
  /\ permCache \in [User -> Entry(Perm) \cup {Null}]
  /\ svc \in [Svc -> Instance] /\ req \in [Req -> Call]
  /\ changes \in 0..MaxChanges /\ failures \in 0..MaxFailures /\ cut \in BOOLEAN

\* Calls that have changed the roles of u and have yet to clear the list.
PermsPending(u) == \E r \in Req : req[r].user = u /\ req[r].at = "delPerms"
RolesPending(u) == \E r \in Req : req[r].user = u /\ req[r].at \in {"delPerms", "delRoles"}

\* A cached list is the one the tables give, unless a change of that user is
\* about to clear it (rbac.service.ts:170-173) or it is marked doubtful: a read that overlapped a change, a call that died before its
\* DEL, a permission linked since.  So a fill that begins after an assignment
\* or a revocation was written never outlives it with the old list.
RolesCoherent(u) ==
  roleCache[u] # Null =>
    \/ roleCache[u].val = userRoles[u]
    \/ roleCache[u].doubt \/ RolesPending(u)

PermsCoherent(u) ==
  permCache[u] # Null =>
    \/ permCache[u].val = PermsOf(u)
    \/ permCache[u].doubt \/ PermsPending(u)

CacheCoherent == \A u \in User : RolesCoherent(u) /\ PermsCoherent(u)

\* An instance that has started (rbac.service.ts:62-93, app.ts:159-165) finds
\* every default role with all its permissions, unless another is still
\* seeding or a seeding once died or failed half-way: instances that start
\* together do not spoil each other's seeding.
Seeded == roles = Role /\ links = Matrix
SeedComplete ==
  (\E s \in Svc : At(s, "up")) => Seeded \/ cut \/ \E s \in Svc : Seeding(s)

\* Once the changes are over, the cached lists agree with the tables for
\* good: every stale list, whatever made it so, ends with its TTL.
Agrees(u) ==
  /\ roleCache[u] = Null \/ roleCache[u].val = userRoles[u]
  /\ permCache[u] = Null \/ permCache[u].val = PermsOf(u)
CacheSettles == <>[](\A u \in User : Agrees(u))
=============================================================================
