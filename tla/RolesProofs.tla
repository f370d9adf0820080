---------------------------- MODULE RolesProofs ----------------------------
(***************************************************************************)
(* For any instances, users, calls and matrix: a cached list of roles or   *)
(* permissions is out of date only where CacheCoherent says, and instances *)
(* that seed the role tables together leave them complete.                 *)
(***************************************************************************)
EXTENDS Roles, TLAPS

\* What makes TypeOK inductive: a call has a user, and writes a role that
\* exists; a start-up counts permissions, then roles.
CallsTyped ==
  \A r \in Req : /\ req[r].at # "idle" => req[r].user \in User
                 /\ req[r].at \in {"assign", "revoke"} => req[r].role \in roles
StartsTyped ==
  \A s \in Svc : /\ At(s, "perm") => svc[s].next \in Perm
                 /\ svc[s].at \in {"role", "link"} => svc[s].next \in Role
TInv == TypeOK /\ CallsTyped /\ StartsTyped

\* The initial call and the counters of a start-up are well typed.
LEMMA Small ==
  /\ Idle \in Call /\ 1 \in Role /\ 1 \in Perm
  /\ \A n \in Role : Matrix[n] \subseteq Perm
  /\ \A n \in Role : n # NRoles => n + 1 \in Role
  /\ \A n \in Perm : n # NPerms => n + 1 \in Perm
BY ConstantsAssumption DEF Idle, Call, Role, Perm

\* A call that is marked doubtful is still a call.
LEMMA Marked == \A c \in Call : [c EXCEPT !.doubt = TRUE] \in Call
BY DEF Call

\* So is one that has changed the tables and clears the cache next.
LEMMA Clearing == \A c \in Call : [c EXCEPT !.at = "delPerms", !.role = Null] \in Call
BY DEF Call

\* The initial state is well typed.
LEMMA TInit == Init => TInv
<1> SUFFICES ASSUME Init PROVE TInv
  OBVIOUS
<1>1. links \in [Role -> SUBSET Perm] /\ userRoles \in [User -> SUBSET roles]
  BY DEF Init
<1>2. svc \in [Svc -> Instance] /\ \A s \in Svc : At(s, "down")
  BY Small DEF Init, Instance, At
<1>3. req \in [Req -> Call] /\ \A r \in Req : req[r].at = "idle"
  BY Small DEF Init, Idle
<1>4. changes \in 0..MaxChanges /\ failures \in 0..MaxFailures
  BY ConstantsAssumption DEF Init
<1>9. cut \in BOOLEAN
  BY DEF Init
<1>5. roleCache \in [User -> Entry(Role) \cup {Null}] /\ permCache \in [User -> Entry(Perm) \cup {Null}]
  BY Zenon DEF Init
<1>6. permissions \subseteq Perm /\ roles \subseteq Role /\ users \subseteq User
  BY DEF Init
<1>7. TypeOK
  BY <1>1, <1>2, <1>3, <1>4, <1>5, <1>6, <1>9 DEF TypeOK
<1> QED BY <1>2, <1>3, <1>7 DEF TInv, CallsTyped, StartsTyped, At

\* The steps of a start-up.
LEMMA TStart == TInv /\ (\E s \in Svc : Start(s) \/ Seed(s) \/ SeedFails(s) \/ Die(s)) => TInv'
<1> SUFFICES ASSUME TInv, NEW s \in Svc, Start(s) \/ Seed(s) \/ SeedFails(s) \/ Die(s)
             PROVE  TInv'
  OBVIOUS
<1> USE Small, ConstantsAssumption DEF At, Go
<1>s. /\ svc \in [Svc -> Instance] /\ req \in [Req -> Call] /\ links \in [Role -> SUBSET Perm]
      /\ permCache \in [User -> Entry(Perm) \cup {Null}] /\ roles \subseteq Role
      /\ permissions \subseteq Perm /\ failures \in 0..MaxFailures /\ cut \in BOOLEAN
  BY DEF TInv, TypeOK
<1>1. CASE Start(s)
  BY <1>1, <1>s DEF Start, TInv, TypeOK, CallsTyped, StartsTyped, Instance, tables, caches
<1>2. CASE FindAllRoles(s)
  BY <1>2, <1>s DEF FindAllRoles, TInv, TypeOK, CallsTyped, StartsTyped, Instance, tables, caches
<1>3. CASE CreatePermission(s)
  BY <1>3, <1>s DEF CreatePermission, TInv, TypeOK, CallsTyped, StartsTyped, Instance, tables, caches
<1>4. CASE CreateRole(s)
  BY <1>4, <1>s DEF CreateRole, TInv, TypeOK, CallsTyped, StartsTyped, Instance, tables, caches
<1>5. CASE LinkPermission(s)
  <2>1. PICK p \in svc[s].todo : links' = [links EXCEPT ![svc[s].next] = @ \cup {p}] /\ AfterLink(s, p)
    BY <1>5 DEF LinkPermission
  <2>2. svc[s].next \in Role /\ svc[s].todo \subseteq Perm /\ p \in Perm
    BY <1>5, <1>s, <2>1 DEF LinkPermission, TInv, StartsTyped, Instance
  <2>3. links' \in [Role -> SUBSET Perm]
    BY <1>s, <2>1, <2>2
  <2>4. svc' \in [Svc -> Instance] /\ StartsTyped'
    BY <1>s, <2>1, <2>2 DEF AfterLink, TInv, StartsTyped, Instance
  <2>5. \A u \in User : Doubt(permCache[u]) \in Entry(Perm) \cup {Null}
    BY <1>s DEF Doubt, Entry
  <2>6. permCache' \in [User -> Entry(Perm) \cup {Null}]
    BY <1>5, <2>5 DEF LinkPermission
  <2>7. req' = [q \in Req |-> IF PermsInHand(q) THEN [req[q] EXCEPT !.doubt = TRUE] ELSE req[q]]
    BY <1>5 DEF LinkPermission
  <2>9. req' \in [Req -> Call]
    BY <1>s, <2>7, Marked
  <2>10. \A r \in Req : /\ req'[r].at = req[r].at /\ req'[r].user = req[r].user
                        /\ req'[r].role = req[r].role
    BY <1>s, <2>7 DEF Call
  <2>8. UNCHANGED <<permissions, roles, users, userRoles, roleCache, changes, failures, cut>>
    BY <1>5 DEF LinkPermission
  <2> QED BY <2>3, <2>4, <2>6, <2>8, <2>9, <2>10 DEF TInv, TypeOK, CallsTyped
<1>6. CASE SeedFails(s)
  BY <1>6, <1>s DEF SeedFails, TInv, TypeOK, CallsTyped, StartsTyped, Instance, tables, caches
<1>7. CASE Die(s)
  <2>1. svc' \in [Svc -> Instance] /\ StartsTyped'
    BY <1>7, <1>s DEF Die, TInv, StartsTyped, Instance
  <2>2. cut' \in BOOLEAN /\ failures' \in 0..MaxFailures
    BY <1>7, <1>s DEF Die, Seeding
  <2>3. UNCHANGED <<permissions, roles, links, users, userRoles, roleCache, permCache, req, changes>>
    BY <1>7 DEF Die, tables, caches
  <2> QED BY <2>1, <2>2, <2>3 DEF TInv, TypeOK, CallsTyped
<1> QED BY <1>1, <1>2, <1>3, <1>4, <1>5, <1>6, <1>7 DEF Seed

\* The steps of a call.
LEMMA TCalls == TInv /\ (\E r \in Req : Begin(r) \/ Continue(r) \/ Drop(r)) => TInv'
<1> SUFFICES ASSUME TInv, NEW r \in Req, Begin(r) \/ Continue(r) \/ Drop(r) PROVE TInv'
  OBVIOUS
<1> USE DEF tables, caches
<1>s. /\ req \in [Req -> Call] /\ userRoles \in [User -> SUBSET roles] /\ roles \subseteq Role
      /\ links \in [Role -> SUBSET Perm] /\ users \subseteq User /\ changes \in 0..MaxChanges
      /\ permCache \in [User -> Entry(Perm) \cup {Null}]
      /\ roleCache \in [User -> Entry(Role) \cup {Null}]
      /\ CallsTyped /\ Idle \in Call /\ Idle.at = "idle"
  BY Small DEF TInv, TypeOK, Idle
<1>c. /\ changes < MaxChanges => changes + 1 \in 0..MaxChanges
  BY <1>s, ConstantsAssumption
<1>f. \A e : e \in Entry(Perm) \cup {Null} => Doubt(e) \in Entry(Perm) \cup {Null}
  BY DEF Doubt, Entry
<1>g. \A e : e \in Entry(Role) \cup {Null} => Doubt(e) \in Entry(Role) \cup {Null}
  BY DEF Doubt, Entry
<1>k. ASSUME NEW c \in Call, req' = [req EXCEPT ![r] = c], roles' = roles,
             c.at # "idle" => c.user \in User, c.at \in {"assign", "revoke"} => c.role \in roles
      PROVE  req' \in [Req -> Call] /\ CallsTyped'
  BY <1>k, <1>s DEF CallsTyped
<1>1. CASE Register(r)
  <2>1. PICK u \in User, n \in Role :
          /\ req' = [req EXCEPT ![r] = [Idle EXCEPT !.at = "find", !.user = u, !.role = n]]
          /\ "find" # "find" => n \in roles
    BY <1>1, <1>s DEF Register, BeginChange
  <2>2. req' \in [Req -> Call] /\ CallsTyped'
    <3> DEFINE c == [Idle EXCEPT !.at = "find", !.user = u, !.role = n]
    <3>1. c \in Call /\ c.at = "find" /\ c.user = u /\ c.role = n
      BY DEF Call, Idle
    <3> QED BY <1>k, <1>1, <2>1, <3>1 DEF Register
  <2>3. changes' \in 0..MaxChanges /\ users' \subseteq User
    BY <1>1, <1>s, <1>c DEF Register, BeginChange
  <2> QED BY <1>1, <2>2, <2>3 DEF Register, TInv, TypeOK, StartsTyped, At
<1>2. CASE BeginAssign(r)
  <2>1. PICK u \in User, n \in Role :
          /\ req' = [req EXCEPT ![r] = [Idle EXCEPT !.at = "assign", !.user = u, !.role = n]]
          /\ "assign" # "find" => n \in roles
    BY <1>2, <1>s DEF BeginAssign, BeginChange
  <2>2. req' \in [Req -> Call] /\ CallsTyped'
    <3> DEFINE c == [Idle EXCEPT !.at = "assign", !.user = u, !.role = n]
    <3>1. c \in Call /\ c.at = "assign" /\ c.user = u /\ c.role = n
      BY DEF Call, Idle
    <3> QED BY <1>k, <1>2, <2>1, <3>1 DEF BeginAssign
  <2>3. changes' \in 0..MaxChanges /\ users' \subseteq User
    BY <1>2, <1>s, <1>c DEF BeginAssign, BeginChange
  <2> QED BY <1>2, <2>2, <2>3 DEF BeginAssign, TInv, TypeOK, StartsTyped, At
<1>3. CASE BeginRevoke(r)
  <2>1. PICK u \in User, n \in Role :
          /\ req' = [req EXCEPT ![r] = [Idle EXCEPT !.at = "revoke", !.user = u, !.role = n]]
          /\ "revoke" # "find" => n \in roles
    BY <1>3, <1>s DEF BeginRevoke, BeginChange
  <2>2. req' \in [Req -> Call] /\ CallsTyped'
    <3> DEFINE c == [Idle EXCEPT !.at = "revoke", !.user = u, !.role = n]
    <3>1. c \in Call /\ c.at = "revoke" /\ c.user = u /\ c.role = n
      BY DEF Call, Idle
    <3> QED BY <1>k, <1>3, <2>1, <3>1 DEF BeginRevoke
  <2>3. changes' \in 0..MaxChanges /\ users' \subseteq User
    BY <1>3, <1>s, <1>c DEF BeginRevoke, BeginChange
  <2> QED BY <1>3, <2>2, <2>3 DEF BeginRevoke, TInv, TypeOK, StartsTyped, At
<1>4. CASE BeginRead(r)
  <2>1. PICK u \in User, a \in {"readRoles", "getPerms"} :
          req' = [req EXCEPT ![r] = [Idle EXCEPT !.user = u, !.at = a]]
    BY <1>4, <1>s DEF BeginRead
  <2>2. req' \in [Req -> Call] /\ CallsTyped'
    <3> DEFINE c == [Idle EXCEPT !.user = u, !.at = a]
    <3>1. c \in Call /\ c.at = a /\ c.user = u
      BY DEF Call, Idle
    <3> QED BY <1>k, <1>4, <2>1, <3>1 DEF BeginRead
  <2> QED BY <1>4, <2>2 DEF BeginRead, TInv, TypeOK, StartsTyped, At
<1>5. CASE FindRole(r)
  <2>1. req[r] \in Call /\ req[r].user \in User
    BY <1>5, <1>s DEF FindRole, CallsTyped
  <2>2. CASE req[r].role \in roles
    <3> DEFINE c == [req[r] EXCEPT !.at = "assign"]
    <3>1. c \in Call /\ c.at = "assign" /\ c.user = req[r].user /\ c.role = req[r].role
      BY <2>1 DEF Call
    <3>2. req' = [req EXCEPT ![r] = c] /\ roles' = roles
      BY <1>5, <1>s, <2>2 DEF FindRole, Move
    <3>3. req' \in [Req -> Call] /\ CallsTyped'
      BY <1>k, <2>1, <2>2, <3>1, <3>2
    <3> QED BY <1>5, <3>3 DEF FindRole, TInv, TypeOK, StartsTyped, At
  <2>3. CASE req[r].role \notin roles
    <3>1. req' \in [Req -> Call] /\ CallsTyped'
      BY <1>5, <1>k, <1>s, <2>3 DEF FindRole
    <3> QED BY <1>5, <3>1 DEF FindRole, TInv, TypeOK, StartsTyped, At
  <2> QED BY <2>2, <2>3
<1>6. CASE InsertUserRole(r) \/ DeleteUserRole(r)
  <2>1. req[r].user \in User /\ req[r].role \in roles
    BY <1>6, <1>s DEF InsertUserRole, DeleteUserRole, CallsTyped
  <2>2. userRoles' \in [User -> SUBSET roles]
    BY <1>6, <1>s, <2>1 DEF InsertUserRole, DeleteUserRole
  <2>3. Changed(r, req[r].user)
    BY <1>6 DEF InsertUserRole, DeleteUserRole
  <2>6. req' \in [Req -> Call]
    BY <1>s, <2>3, Marked, Clearing DEF Changed
  <2>4. /\ req'[r].at = "delPerms" /\ req'[r].user = req[r].user
        /\ \A q \in Req : q # r => /\ req'[q].user = req[q].user /\ req'[q].at = req[q].at
                                  /\ req'[q].role = req[q].role
    BY <1>s, <2>3 DEF Changed, Call
  <2>5. UNCHANGED <<tables, users, caches, svc, changes, failures, cut>>
    BY <1>6 DEF InsertUserRole, DeleteUserRole
  <2> QED BY <1>s, <2>1, <2>2, <2>4, <2>5, <2>6 DEF TInv, TypeOK, CallsTyped, StartsTyped, At
<1>7. CASE DelPerms(r)
  <2> DEFINE c == [req[r] EXCEPT !.at = "delRoles"]
  <2>1. c \in Call /\ c.at = "delRoles" /\ c.user = req[r].user /\ req[r].user \in User
    BY <1>7, <1>s DEF DelPerms, Call, CallsTyped
  <2>2. req' = [req EXCEPT ![r] = c] /\ roles' = roles
    BY <1>7 DEF DelPerms, Move
  <2>3. req' \in [Req -> Call] /\ CallsTyped'
    BY <1>k, <2>1, <2>2
  <2>4. permCache' \in [User -> Entry(Perm) \cup {Null}]
    BY <1>7, <1>s DEF DelPerms
  <2> QED BY <1>7, <2>3, <2>4 DEF DelPerms, TInv, TypeOK, StartsTyped, At
<1>14. CASE DelRoles(r)
  <2>1. req' \in [Req -> Call] /\ CallsTyped'
    BY <1>14, <1>k, <1>s DEF DelRoles
  <2>2. roleCache' \in [User -> Entry(Role) \cup {Null}]
    BY <1>14, <1>s DEF DelRoles
  <2> QED BY <1>14, <2>1, <2>2 DEF DelRoles, TInv, TypeOK, StartsTyped, At
<1>8. CASE ReadRoles(r) \/ GetPerms(r)
  BY <1>8, <1>s DEF ReadRoles, GetPerms, Move, Call, CallsTyped, TInv, TypeOK, StartsTyped, At
<1>13. CASE ReadRoleIds(r)
  <2>1. req[r].user \in User /\ userRoles[req[r].user] \subseteq Role
    BY <1>13, <1>s DEF ReadRoleIds, CallsTyped
  <2>2. PICK a \in {"setPerms", "readLinks"} :
          req' = [req EXCEPT ![r].at = a, ![r].got = userRoles[req[r].user], ![r].perms = {}]
    BY <1>13 DEF ReadRoleIds
  <2>3. req' \in [Req -> Call] /\ CallsTyped'
    <3> DEFINE c == [req[r] EXCEPT !.at = a, !.got = userRoles[req[r].user], !.perms = {}]
    <3>1. c \in Call /\ c.at = a /\ c.user = req[r].user
      BY <1>s, <2>1 DEF Call
    <3>2. req' = [req EXCEPT ![r] = c]
      BY <2>2
    <3>3. roles' = roles
      BY <1>13 DEF ReadRoleIds
    <3> HIDE DEF c
    <3> QED BY <1>k, <2>1, <3>1, <3>2, <3>3
  <2> QED BY <1>13, <2>3 DEF ReadRoleIds, TInv, TypeOK, StartsTyped, At
<1>9. CASE ReadLinks(r)
  <2>1. UNION {links[n] : n \in req[r].got} \subseteq Perm
    BY <1>s DEF Call
  <2> DEFINE c == [req[r] EXCEPT !.at = "setPerms", !.got = {},
                                  !.perms = UNION {links[n] : n \in req[r].got}]
  <2>2. c \in Call /\ c.at = "setPerms" /\ c.user = req[r].user /\ req[r].user \in User
    BY <1>9, <1>s, <2>1 DEF ReadLinks, Call, CallsTyped
  <2>3. req' = [req EXCEPT ![r] = c] /\ roles' = roles
    BY <1>9 DEF ReadLinks
  <2>4. req' \in [Req -> Call] /\ CallsTyped'
    BY <1>k, <2>2, <2>3
  <2> QED BY <1>9, <2>4 DEF ReadLinks, TInv, TypeOK, StartsTyped, At
<1>10. CASE SetRoles(r)
  BY <1>10, <1>s DEF SetRoles, Call, Entry, Idle, CallsTyped, TInv, TypeOK, StartsTyped, At
<1>11. CASE SetPerms(r)
  BY <1>11, <1>s DEF SetPerms, Call, Entry, CallsTyped, TInv, TypeOK, StartsTyped, At
<1>12. CASE Drop(r)
  <2>1. /\ permCache' \in [User -> Entry(Perm) \cup {Null}]
        /\ roleCache' \in [User -> Entry(Role) \cup {Null}]
    BY <1>12, <1>s, <1>f, <1>g DEF Drop
  <2> QED BY <1>12, <1>s, <2>1 DEF Drop, CallsTyped, TInv, TypeOK, StartsTyped, At
<1> QED BY <1>1, <1>2, <1>3, <1>4, <1>5, <1>6, <1>7, <1>8, <1>9, <1>10, <1>11, <1>12, <1>13, <1>14
        DEF Begin, Continue

\* Every step keeps the types.
LEMMA TNext == TInv /\ [Next]_vars => TInv'
<1> SUFFICES ASSUME TInv, [Next]_vars PROVE TInv'
  OBVIOUS
<1>1. CASE \E s \in Svc : Start(s) \/ Seed(s) \/ SeedFails(s) \/ Die(s)
  BY <1>1, TStart
<1>2. CASE \E r \in Req : Begin(r) \/ Continue(r) \/ Drop(r)
  BY <1>2, TCalls
<1>3. CASE \E u \in User : RolesExpire(u) \/ PermsExpire(u)
  BY <1>3 DEF RolesExpire, PermsExpire, TInv, TypeOK, CallsTyped, StartsTyped, At, tables
<1>4. CASE UNCHANGED vars
  BY <1>4 DEF vars, tables, caches, TInv, TypeOK, CallsTyped, StartsTyped, At
<1> QED BY <1>1, <1>2, <1>3, <1>4 DEF Next

\* Tables, caches, start-ups and calls keep their types.
THEOREM RolesTypes == Spec => []TypeOK
<1>1. TInv => TypeOK
  BY DEF TInv
<1> QED BY TInit, TNext, <1>1, PTL DEF Spec

-----------------------------------------------------------------------------
\* A list that a call has read and is about to store, or to go on from, is
\* that of the tables, or it is marked doubtful.
HandCoherent ==
  \A r \in Req :
    /\ req[r].at \in {"setRoles", "readLinks"} /\ ~req[r].doubt =>
         req[r].got = userRoles[req[r].user]
    /\ req[r].at = "setPerms" /\ ~req[r].doubt => req[r].perms = PermsOf(req[r].user)

CInv == CacheCoherent /\ HandCoherent

\* Nothing is cached or read at first.
LEMMA CInit == Init => CInv
<1> SUFFICES ASSUME Init PROVE CInv
  OBVIOUS
<1>1. \A u \in User : roleCache[u] = Null /\ permCache[u] = Null
  BY DEF Init
<1>2. \A r \in Req : req[r].at = "idle"
  BY DEF Init, Idle
<1>3. CacheCoherent
  BY <1>1 DEF CacheCoherent, RolesCoherent, PermsCoherent
<1>4. HandCoherent
  BY <1>2 DEF HandCoherent
<1> QED BY <1>3, <1>4 DEF CInv

\* A step that leaves the tables, the caches and the calls alone.
LEMMA CIdle ==
  ASSUME CInv, UNCHANGED <<links, userRoles, roleCache, permCache, req>> PROVE CInv'
<1>1. \A u : PermsOf(u)' = PermsOf(u)
  BY DEF PermsOf
<1> QED BY <1>1 DEF CInv, CacheCoherent, RolesCoherent, PermsCoherent, HandCoherent,
                    PermsPending, RolesPending

\* A step of a call that writes neither tables nor caches, clears nothing that
\* is pending, and takes nothing false in hand.
LEMMA CMove ==
  ASSUME TInv, CInv, NEW r \in Req, NEW c \in Call, req' = [req EXCEPT ![r] = c],
         UNCHANGED <<links, userRoles, roleCache, permCache>>,
         req[r].at \notin {"delPerms", "delRoles"},
         c.at \in {"setRoles", "readLinks"} => c.doubt \/ c.got = userRoles[c.user],
         c.at = "setPerms" => c.doubt \/ c.perms = PermsOf(c.user)
  PROVE  CInv'
<1>1. \A u : PermsOf(u)' = PermsOf(u)
  BY DEF PermsOf
<1>2. req'[r] = c /\ \A q \in Req : q # r => req'[q] = req[q]
  BY DEF TInv, TypeOK
<1>3. HandCoherent'
  BY <1>1, <1>2 DEF CInv, HandCoherent
<1>4. \A u \in User : (PermsPending(u) => PermsPending(u)') /\ (RolesPending(u) => RolesPending(u)')
  BY <1>2 DEF PermsPending, RolesPending
<1>5. CacheCoherent'
  BY <1>1, <1>4 DEF CInv, CacheCoherent, RolesCoherent, PermsCoherent
<1> QED BY <1>3, <1>5 DEF CInv

\* A permission linked to a role puts every list of permissions in doubt.
LEMMA CLink == ASSUME TInv, CInv, NEW s \in Svc, LinkPermission(s) PROVE CInv'
<1>1. \A q \in Req : /\ req'[q].at = req[q].at /\ req'[q].user = req[q].user
                    /\ req'[q].got = req[q].got
  BY DEF TInv, TypeOK, LinkPermission, PermsInHand, Call
<1>d. ASSUME NEW q \in Req, ~req'[q].doubt
      PROVE  ~req[q].doubt /\ req[q].at \notin {"readLinks", "setPerms"}
  BY <1>d DEF TInv, TypeOK, LinkPermission, PermsInHand, Call
<1>2. \A u \in User : permCache[u] \in Entry(Perm) \cup {Null} /\ permCache'[u] = Doubt(permCache[u])
  BY DEF TInv, TypeOK, LinkPermission
<1>3. \A u \in User : permCache'[u] # Null => permCache'[u].doubt
  BY <1>2 DEF Doubt, Entry
<1>4. roleCache' = roleCache /\ userRoles' = userRoles
  BY DEF LinkPermission
<1>5. ASSUME NEW u \in User, RolesPending(u) PROVE RolesPending(u)'
  <2>1. PICK q \in Req : req[q].user = u /\ req[q].at \in {"delPerms", "delRoles"}
    BY <1>5 DEF RolesPending
  <2>2. req'[q].user = u /\ req'[q].at \in {"delPerms", "delRoles"}
    BY <1>1, <2>1
  <2> QED BY <2>2 DEF RolesPending
<1>6. CacheCoherent'
  BY <1>3, <1>4, <1>5 DEF CInv, CacheCoherent, RolesCoherent, PermsCoherent
<1>7. HandCoherent'
  <2> SUFFICES ASSUME NEW q \in Req, req'[q].at \in {"setRoles", "readLinks", "setPerms"},
                      ~req'[q].doubt
               PROVE  req'[q].at = "setRoles" /\ req'[q].got = userRoles'[req'[q].user]
    BY DEF HandCoherent
  <2>1. req[q].at = "setRoles" /\ ~req[q].doubt
    <3>1. req[q].at \in {"setRoles", "readLinks", "setPerms"}
      BY <1>1
    <3>2. req[q].at \notin {"readLinks", "setPerms"} /\ ~req[q].doubt
      BY <1>d
    <3> QED BY <3>1, <3>2
  <2> QED BY <1>1, <1>4, <2>1 DEF CInv, HandCoherent
<1> QED BY <1>6, <1>7 DEF CInv

\* A change of the roles of a user: its lists are about to be cleared, and
\* what was read of it is in doubt; the other users are not concerned.
LEMMA CChange ==
  ASSUME TInv, CInv, NEW r \in Req, InsertUserRole(r) \/ DeleteUserRole(r) PROVE CInv'
<1> DEFINE u == req[r].user
<1>1. u \in User /\ req \in [Req -> Call] /\ userRoles \in [User -> SUBSET roles]
      /\ req[r].at \in {"assign", "revoke"}
  BY DEF InsertUserRole, DeleteUserRole, TInv, TypeOK, CallsTyped
<1>2. /\ \A v \in User : v # u => userRoles'[v] = userRoles[v]
      /\ UNCHANGED <<links, roleCache, permCache>>
      /\ Changed(r, u)
  BY <1>1 DEF InsertUserRole, DeleteUserRole, tables, caches
<1>3. \A v \in User : v # u => PermsOf(v)' = PermsOf(v)
  BY <1>2 DEF PermsOf
<1>4. /\ req'[r].at = "delPerms" /\ req'[r].user = u
      /\ \A q \in Req : q # r =>
           /\ req'[q].at = req[q].at /\ req'[q].user = req[q].user
           /\ req'[q].got = req[q].got /\ req'[q].perms = req[q].perms
  BY <1>1, <1>2 DEF Changed, Call
<1>8. \A q \in Req : q # r =>
        /\ req[q].user # u => req'[q] = req[q]
        /\ req[q].user = u /\ req[q].at \in {"setRoles", "readLinks", "setPerms"} => req'[q].doubt
  BY <1>1, <1>2 DEF Changed, Call, RolesInHand, PermsInHand
<1>5. HandCoherent'
  <2> SUFFICES ASSUME NEW q \in Req, q # r, req[q].at \in {"setRoles", "readLinks", "setPerms"},
                      ~req'[q].doubt
               PROVE  /\ req[q].at # "setPerms" => req[q].got = userRoles'[req[q].user]
                      /\ req[q].at = "setPerms" => req[q].perms = PermsOf(req[q].user)'
    BY <1>4 DEF HandCoherent
  <2>1. req[q].user # u /\ ~req[q].doubt /\ req[q].user \in User
    BY <1>8 DEF TInv, CallsTyped
  <2> QED BY <1>2, <1>3, <1>4, <2>1 DEF CInv, HandCoherent
<1>6. /\ \A v : v = u => RolesPending(v)' /\ PermsPending(v)'
      /\ \A v : (RolesPending(v) => RolesPending(v)') /\ (PermsPending(v) => PermsPending(v)')
  BY <1>1, <1>4 DEF RolesPending, PermsPending
<1>7. CacheCoherent'
  <2> SUFFICES ASSUME NEW v \in User PROVE RolesCoherent(v)' /\ PermsCoherent(v)'
    BY DEF CacheCoherent
  <2>1. CASE v = u
    BY <1>6, <2>1 DEF RolesCoherent, PermsCoherent
  <2>2. CASE v # u
    <3>1. RolesCoherent(v) /\ PermsCoherent(v)
      BY DEF CInv, CacheCoherent
    <3> QED BY <1>2, <1>3, <1>6, <2>2, <3>1 DEF RolesCoherent, PermsCoherent
  <2> QED BY <2>1, <2>2
<1> QED BY <1>5, <1>7 DEF CInv

\* A step of a call that reads, or that ends without touching a cache.
LEMMA CRead ==
  ASSUME TInv, CInv, NEW r \in Req,
         Begin(r) \/ FindRole(r) \/ ReadRoles(r) \/ GetPerms(r) \/ ReadRoleIds(r) \/ ReadLinks(r)
  PROVE  CInv'
<1> USE DEF tables, caches
<1>s. /\ req \in [Req -> Call] /\ userRoles \in [User -> SUBSET roles] /\ roles \subseteq Role
      /\ links \in [Role -> SUBSET Perm] /\ users \subseteq User /\ CallsTyped
      /\ Idle \in Call /\ Idle.at = "idle"
  BY Small DEF TInv, TypeOK, Idle
<1>1. CASE Register(r) \/ BeginAssign(r) \/ BeginRevoke(r)
  <2>1. PICK u \in User, n \in Role, a \in {"find", "assign", "revoke"} :
          req' = [req EXCEPT ![r] = [Idle EXCEPT !.at = a, !.user = u, !.role = n]]
    BY <1>1, <1>s DEF Register, BeginAssign, BeginRevoke, BeginChange
  <2> DEFINE c == [Idle EXCEPT !.at = a, !.user = u, !.role = n]
  <2>2. c \in Call /\ c.at = a /\ req[r].at = "idle"
    BY <1>1, <1>s DEF Call, Idle, Register, BeginAssign, BeginRevoke, BeginChange, Served
  <2> QED BY <1>1, <2>1, <2>2, CMove DEF Register, BeginAssign, BeginRevoke
<1>2. CASE BeginRead(r)
  <2>1. PICK u \in User, a \in {"readRoles", "getPerms"} :
          req' = [req EXCEPT ![r] = [Idle EXCEPT !.user = u, !.at = a]]
    BY <1>2, <1>s DEF BeginRead
  <2> DEFINE c == [Idle EXCEPT !.user = u, !.at = a]
  <2>2. c \in Call /\ c.at = a /\ req[r].at = "idle"
    BY <1>2, <1>s DEF Call, Idle, BeginRead, Served
  <2> QED BY <1>2, <2>1, <2>2, CMove DEF BeginRead
<1>3. CASE FindRole(r) \/ GetPerms(r)
  <2>1. PICK c \in {Idle, [req[r] EXCEPT !.at = "assign"], [req[r] EXCEPT !.at = "readRoleIds"]} :
          req' = [req EXCEPT ![r] = c]
    BY <1>3, <1>s DEF FindRole, GetPerms, Move
  <2>2. c \in Call /\ c.at \notin {"setRoles", "readLinks", "setPerms"}
        /\ req[r].at \notin {"delPerms", "delRoles"}
    BY <1>3, <1>s DEF Call, FindRole, GetPerms
  <2> QED BY <1>3, <2>1, <2>2, CMove DEF FindRole, GetPerms
<1>4. CASE ReadRoles(r)
  <2> DEFINE c == [req[r] EXCEPT !.at = "setRoles", !.got = userRoles[req[r].user]]
  <2>1. req[r].user \in User
    BY <1>4, <1>s DEF ReadRoles, CallsTyped
  <2>2. c \in Call /\ c.at = "setRoles" /\ c.got = userRoles[c.user]
    BY <1>s, <2>1 DEF Call
  <2>3. req' = [req EXCEPT ![r] = c]
    BY <1>4 DEF ReadRoles
  <2> QED BY <1>4, <2>2, <2>3, CMove DEF ReadRoles
<1>5. CASE ReadRoleIds(r)
  <2>1. PICK a \in {"setPerms", "readLinks"} :
          /\ req' = [req EXCEPT ![r].at = a, ![r].got = userRoles[req[r].user], ![r].perms = {}]
          /\ a = "setPerms" => userRoles[req[r].user] = {}
    BY <1>5 DEF ReadRoleIds
  <2> DEFINE c == [req[r] EXCEPT !.at = a, !.got = userRoles[req[r].user], !.perms = {}]
  <2>2. req[r].user \in User
    BY <1>5, <1>s DEF ReadRoleIds, CallsTyped
  <2>3. /\ c \in Call /\ c.at = a /\ c.user = req[r].user /\ c.perms = {}
        /\ c.got = userRoles[c.user]
    BY <1>s, <2>2 DEF Call
  <2>4. a = "setPerms" => c.perms = PermsOf(c.user)
    BY <2>1, <2>3 DEF PermsOf
  <2>5. req' = [req EXCEPT ![r] = c]
    BY <2>1
  <2>6. UNCHANGED <<links, userRoles, roleCache, permCache>> /\ req[r].at = "readRoleIds"
    BY <1>5 DEF ReadRoleIds
  <2>7. c.at = "setPerms" => c.perms = PermsOf(c.user)
    BY <2>3, <2>4
  <2> HIDE DEF c
  <2> QED BY <2>3, <2>5, <2>6, <2>7, CMove
<1>6. CASE ReadLinks(r)
  <2> DEFINE got == UNION {links[n] : n \in req[r].got}
             c == [req[r] EXCEPT !.at = "setPerms", !.got = {}, !.perms = got]
  <2>1. got \subseteq Perm
    BY <1>s DEF Call
  <2>2. /\ c \in Call /\ c.at = "setPerms" /\ c.user = req[r].user /\ c.perms = got
        /\ c.doubt = req[r].doubt
    BY <1>s, <2>1 DEF Call
  <2>3. c.doubt \/ c.perms = PermsOf(c.user)
    BY <1>6, <2>2 DEF ReadLinks, CInv, HandCoherent, PermsOf
  <2>4. req' = [req EXCEPT ![r] = c]
    BY <1>6 DEF ReadLinks
  <2> QED BY <1>6, <2>2, <2>3, <2>4, CMove DEF ReadLinks
<1> QED BY <1>1, <1>2, <1>3, <1>4, <1>5, <1>6 DEF Begin

\* The steps that clear or store a list, or die before they clear it.
LEMMA CStore ==
  ASSUME TInv, CInv, NEW r \in Req,
         DelPerms(r) \/ DelRoles(r) \/ SetRoles(r) \/ SetPerms(r) \/ Drop(r)
  PROVE  CInv'
<1> DEFINE u == req[r].user
<1> USE DEF tables, caches
<1>s. /\ req \in [Req -> Call] /\ CallsTyped
      /\ roleCache \in [User -> Entry(Role) \cup {Null}]
      /\ permCache \in [User -> Entry(Perm) \cup {Null}]
      /\ UNCHANGED <<links, userRoles>>
  BY DEF TInv, TypeOK, DelPerms, DelRoles, SetRoles, SetPerms, Drop
<1>p. \A v : PermsOf(v)' = PermsOf(v)
  BY <1>s DEF PermsOf
<1>o. CacheCoherent /\ HandCoherent
  BY DEF CInv
\* Nothing is taken in hand.
<1>h. HandCoherent'
  <2>1. /\ req'[r].at \in {"idle", "delRoles", "getPerms"}
        /\ \A q \in Req : q # r => req'[q] = req[q]
    <3>1. CASE DelPerms(r)
      BY <1>s, <3>1 DEF DelPerms, Move, Call
    <3>2. CASE SetRoles(r)
      BY <1>s, <3>2 DEF SetRoles, Idle
    <3>3. CASE DelRoles(r) \/ SetPerms(r) \/ Drop(r)
      BY <1>s, <3>3 DEF DelRoles, SetPerms, Drop, Idle
    <3> QED BY <3>1, <3>2, <3>3
  <2> QED BY <1>s, <1>p, <1>o, <2>1 DEF HandCoherent
\* The list of another user, and what is pending for it, stay.
<1>v. ASSUME NEW v \in User, v # u PROVE RolesCoherent(v)' /\ PermsCoherent(v)'
  <2>1. roleCache'[v] = roleCache[v] /\ permCache'[v] = permCache[v]
    BY <1>v, <1>s DEF DelPerms, DelRoles, SetRoles, SetPerms, Drop
  <2>2. \A q \in Req : q # r => req'[q] = req[q]
    BY <1>s DEF DelPerms, DelRoles, SetRoles, SetPerms, Drop, Move
  <2>3. RolesPending(v) => RolesPending(v)'
    BY <1>v, <2>2 DEF RolesPending
  <2>4. PermsPending(v) => PermsPending(v)'
    BY <1>v, <2>2 DEF PermsPending
  <2>5. RolesCoherent(v) /\ PermsCoherent(v)
    BY <1>o DEF CacheCoherent
  <2> QED BY <1>s, <1>p, <2>1, <2>3, <2>4, <2>5 DEF RolesCoherent, PermsCoherent
<1>1. CASE DelPerms(r)
  <2>1. /\ u \in User => permCache'[u] = Null
        /\ roleCache' = roleCache /\ req'[r].at = "delRoles" /\ req'[r].user = u
        /\ \A q \in Req : q # r => req'[q] = req[q]
    BY <1>1, <1>s DEF DelPerms, Move, Call
  <2>2. ASSUME NEW v \in User, v = u PROVE RolesCoherent(v)' /\ PermsCoherent(v)'
    <3>1. RolesPending(v)'
      BY <2>1, <2>2 DEF RolesPending
    <3>2. permCache'[v] = Null
      BY <2>1, <2>2
    <3> QED BY <3>1, <3>2 DEF RolesCoherent, PermsCoherent
  <2> QED BY <1>h, <1>v, <2>2 DEF CInv, CacheCoherent
<1>2. CASE DelRoles(r)
  <2>1. /\ req[r].at = "delRoles" /\ permCache' = permCache
        /\ u \in User => roleCache'[u] = Null
        /\ \A q \in Req : q # r => req'[q] = req[q]
    BY <1>2, <1>s DEF DelRoles
  <2>2. ASSUME NEW v \in User, v = u PROVE RolesCoherent(v)' /\ PermsCoherent(v)'
    <3>1. PermsPending(v) => PermsPending(v)'
      BY <2>1 DEF PermsPending
    <3>2. roleCache'[v] = Null /\ PermsCoherent(v)
      BY <1>o, <2>1, <2>2 DEF CacheCoherent
    <3> QED BY <1>p, <1>s, <2>1, <3>1, <3>2 DEF RolesCoherent, PermsCoherent
  <2> QED BY <1>h, <1>v, <2>2 DEF CInv, CacheCoherent
<1>3. CASE SetRoles(r)
  <2>1. /\ req[r].at = "setRoles" /\ permCache' = permCache
        /\ u \in User => roleCache'[u].val = req[r].got /\ roleCache'[u].doubt = req[r].doubt
        /\ \A q \in Req : q # r => req'[q] = req[q]
    BY <1>3, <1>s DEF SetRoles
  <2>2. ASSUME NEW v \in User, v = u PROVE RolesCoherent(v)' /\ PermsCoherent(v)'
    <3>1. PermsPending(v) => PermsPending(v)'
      BY <2>1 DEF PermsPending
    <3>2. PermsCoherent(v)
      BY <1>o DEF CacheCoherent
    <3>3. PermsCoherent(v)'
      BY <1>p, <1>s, <2>1, <3>1, <3>2 DEF PermsCoherent
    <3>4. req[r].doubt \/ req[r].got = userRoles[v]
      BY <1>o, <2>1, <2>2 DEF HandCoherent
    <3>5. RolesCoherent(v)'
      BY <1>s, <2>1, <2>2, <3>4 DEF RolesCoherent
    <3> QED BY <3>3, <3>5
  <2> QED BY <1>h, <1>v, <2>2 DEF CInv, CacheCoherent
<1>4. CASE SetPerms(r)
  <2>1. /\ req[r].at = "setPerms" /\ roleCache' = roleCache
        /\ u \in User => permCache'[u].val = req[r].perms /\ permCache'[u].doubt = req[r].doubt
        /\ \A q \in Req : q # r => req'[q] = req[q]
    BY <1>4, <1>s DEF SetPerms
  <2>2. ASSUME NEW v \in User, v = u PROVE RolesCoherent(v)' /\ PermsCoherent(v)'
    <3>1. RolesPending(v) => RolesPending(v)'
      BY <2>1 DEF RolesPending
    <3>2. RolesCoherent(v)
      BY <1>o DEF CacheCoherent
    <3>3. RolesCoherent(v)'
      BY <1>s, <2>1, <3>1, <3>2 DEF RolesCoherent
    <3>4. req[r].doubt \/ req[r].perms = PermsOf(v)
      BY <1>o, <2>1, <2>2 DEF HandCoherent
    <3>5. PermsCoherent(v)'
      BY <1>p, <2>1, <2>2, <3>4 DEF PermsCoherent
    <3> QED BY <3>3, <3>5
  <2> QED BY <1>h, <1>v, <2>2 DEF CInv, CacheCoherent
<1>5. CASE Drop(r)
  <2>1. \A q \in Req : q # r => req'[q] = req[q]
    BY <1>5, <1>s DEF Drop
  <2>2. ASSUME NEW v \in User, v = u PROVE RolesCoherent(v)'
    <3>1. CASE req[r].at \in {"delPerms", "delRoles"}
      <4>1. roleCache'[v] = Doubt(roleCache[v]) /\ roleCache[v] \in Entry(Role) \cup {Null}
        BY <1>5, <1>s, <2>2, <3>1 DEF Drop
      <4>2. roleCache'[v] # Null => roleCache'[v].doubt
        BY <4>1 DEF Doubt, Entry
      <4> QED BY <4>2 DEF RolesCoherent
    <3>2. CASE req[r].at \notin {"delPerms", "delRoles"}
      <4>1. roleCache' = roleCache
        BY <1>5, <3>2 DEF Drop
      <4>2. RolesPending(v) => RolesPending(v)'
        BY <2>1, <3>2 DEF RolesPending
      <4>3. RolesCoherent(v)
        BY <1>o DEF CacheCoherent
      <4> QED BY <1>s, <4>1, <4>2, <4>3 DEF RolesCoherent
    <3> QED BY <3>1, <3>2
  <2>3. ASSUME NEW v \in User, v = u PROVE PermsCoherent(v)'
    <3>1. CASE req[r].at = "delPerms"
      <4>1. permCache'[v] = Doubt(permCache[v]) /\ permCache[v] \in Entry(Perm) \cup {Null}
        BY <1>5, <1>s, <2>3, <3>1 DEF Drop
      <4>2. permCache'[v] # Null => permCache'[v].doubt
        BY <4>1 DEF Doubt, Entry
      <4> QED BY <4>2 DEF PermsCoherent
    <3>2. CASE req[r].at # "delPerms"
      <4>1. permCache' = permCache
        BY <1>5, <3>2 DEF Drop
      <4>2. PermsPending(v) => PermsPending(v)'
        BY <2>1, <3>2 DEF PermsPending
      <4>3. PermsCoherent(v)
        BY <1>o DEF CacheCoherent
      <4> QED BY <1>p, <4>1, <4>2, <4>3 DEF PermsCoherent
    <3> QED BY <3>1, <3>2
  <2> QED BY <1>h, <1>v, <2>2, <2>3 DEF CInv, CacheCoherent
<1> QED BY <1>1, <1>2, <1>3, <1>4, <1>5

\* A key that expires takes its list away.
LEMMA CExpire ==
  ASSUME TInv, CInv, NEW u \in User, RolesExpire(u) \/ PermsExpire(u) PROVE CInv'
<1>1. UNCHANGED <<links, userRoles, req>>
  BY DEF RolesExpire, PermsExpire, tables
<1>2. \A v : /\ PermsOf(v)' = PermsOf(v)
             /\ RolesPending(v)' = RolesPending(v) /\ PermsPending(v)' = PermsPending(v)
  BY <1>1 DEF PermsOf, RolesPending, PermsPending
<1>3. \A v \in User : /\ roleCache'[v] \in {roleCache[v], Null}
                     /\ permCache'[v] \in {permCache[v], Null}
  BY DEF RolesExpire, PermsExpire, TInv, TypeOK
<1>4. CacheCoherent'
  BY <1>1, <1>2, <1>3 DEF CInv, CacheCoherent, RolesCoherent, PermsCoherent
<1>5. HandCoherent'
  BY <1>1, <1>2 DEF CInv, HandCoherent
<1> QED BY <1>4, <1>5 DEF CInv

\* Every step keeps the cached lists coherent.
LEMMA CNext == TInv /\ CInv /\ [Next]_vars => CInv'
<1> SUFFICES ASSUME TInv, CInv, [Next]_vars PROVE CInv'
  OBVIOUS
<1>1. ASSUME NEW s \in Svc, Start(s) \/ Seed(s) \/ SeedFails(s) \/ Die(s) PROVE CInv'
  <2>1. CASE LinkPermission(s)
    BY <2>1, CLink
  <2>2. CASE ~LinkPermission(s)
    <3>1. UNCHANGED <<links, userRoles, roleCache, permCache, req>>
      BY <1>1, <2>2 DEF Start, Seed, SeedFails, Die, FindAllRoles, CreatePermission, CreateRole,
                        tables, caches
    <3> QED BY <3>1, CIdle
  <2> QED BY <2>1, <2>2
<1>2. ASSUME NEW r \in Req, Begin(r) \/ Continue(r) \/ Drop(r) PROVE CInv'
  BY <1>2, CRead, CChange, CStore DEF Continue
<1>3. ASSUME NEW u \in User, RolesExpire(u) \/ PermsExpire(u) PROVE CInv'
  BY <1>3, CExpire
<1>4. CASE UNCHANGED vars
  BY <1>4, CIdle DEF vars, tables, caches
<1> QED BY <1>1, <1>2, <1>3, <1>4 DEF Next

\* The cached lists of roles and permissions are those of the tables, but for
\* a pending clear or a list marked doubtful.
THEOREM RolesCached == Spec => []CacheCoherent
<1>1. CInv => CacheCoherent
  BY DEF CInv
<1> QED BY TInit, TNext, CInit, CNext, <1>1, PTL DEF Spec

-----------------------------------------------------------------------------
\* Seeding.  A seeding is under way once it has created a permission; the
\* unique index lets only one instance get there.
Underway(s) == Seeding(s) /\ ~(At(s, "perm") /\ svc[s].next = 1)

\* How far a seeding under way has come.
Progress(s) ==
  LET n == svc[s].next IN
  /\ At(s, "perm") => permissions = 1..(n - 1) /\ roles = {}
  /\ At(s, "role") => permissions = Perm /\ roles = 1..(n - 1)
  /\ At(s, "link") => permissions = Perm /\ roles = 1..n
  /\ At(s, "link") => svc[s].todo # {} /\ links[n] = Matrix[n] \ svc[s].todo
                      /\ svc[s].todo \subseteq Matrix[n]
  /\ \A m \in Role : m < n /\ ~At(s, "perm") => links[m] = Matrix[m]

SInv ==
  ~cut =>
    /\ permissions = {} => roles = {}
    /\ permissions # {} => 1 \in permissions
    /\ \A m \in Role \ roles : links[m] = {}
    /\ permissions # {} => Seeded \/ \E s \in Svc : Underway(s)
    /\ \A s \in Svc : At(s, "up") => permissions # {}
    /\ \A s \in Svc : Underway(s) => Progress(s) /\ permissions # {}
    /\ \A s, t \in Svc : Underway(s) /\ Underway(t) => s = t

\* Nothing is seeded at first.
LEMMA SInit == Init => SInv
BY DEF Init, SInv, At, Underway, Seeding

\* Steps that leave the role tables and the start-ups alone.
LEMMA SIdle ==
  ASSUME SInv, UNCHANGED <<permissions, roles, links, svc, cut>> PROVE SInv'
BY DEF SInv, Seeded, Underway, Seeding, Progress, At

\* A start-up that is under way neither before nor after its step, and changes
\* no table, disturbs nothing; it may be up only once a permission exists.
LEMMA SAside ==
  ASSUME TInv, SInv, NEW s \in Svc, ~cut, ~Underway(s), NEW a, NEW n, Go(s, a, n, {}),
         UNCHANGED <<permissions, roles, links>>,
         a \in {"find", "down", "up"} \/ (a = "perm" /\ n = 1),
         a = "up" => permissions # {}
  PROVE  SInv'
<1>1. /\ svc'[s] = [at |-> a, next |-> n, todo |-> {}]
      /\ \A t \in Svc : t # s => svc'[t] = svc[t]
  BY DEF Go, TInv, TypeOK
<1>2. ~Underway(s)'
  BY <1>1 DEF Underway, Seeding, At
<1>3. ASSUME NEW t \in Svc, t # s
      PROVE  /\ Underway(t)' => Underway(t)
             /\ Underway(t) => Underway(t)'
             /\ Progress(t) => Progress(t)'
             /\ At(t, "up")' => At(t, "up")
  <2>1. svc'[t] = svc[t]
    BY <1>1, <1>3
  <2>2. Underway(t)' = Underway(t) /\ At(t, "up")' = At(t, "up")
    BY <2>1 DEF Underway, Seeding, At
  <2>3. Progress(t) => Progress(t)'
    BY <2>1 DEF Progress, At
  <2> QED BY <2>2, <2>3
<1>4. Seeded' <=> Seeded
  BY DEF Seeded
<1>5. At(s, "up")' => permissions # {}
  BY <1>1 DEF At
<1>6. permissions # {} => Seeded' \/ \E t \in Svc : Underway(t)'
  BY <1>3, <1>4 DEF SInv
<1>7. \A t \in Svc : At(t, "up")' => permissions # {}
  BY <1>3, <1>5 DEF SInv
<1>8. \A t \in Svc : Underway(t)' => Progress(t)' /\ permissions # {}
  BY <1>2, <1>3 DEF SInv
<1>9. \A q, t \in Svc : Underway(q)' /\ Underway(t)' => q = t
  BY <1>2, <1>3 DEF SInv
<1> QED BY <1>6, <1>7, <1>8, <1>9 DEF SInv

\* The one start-up under way takes a step and stays under way: what is to be
\* shown is its progress.
LEMMA SAhead ==
  ASSUME TInv, SInv, NEW s \in Svc, ~cut, NEW a, NEW n, NEW todo, Go(s, a, n, todo),
         permissions = {} \/ Underway(s), Underway(s)', Progress(s)',
         1 \in permissions', \A m \in Role \ roles' : links'[m] = {}
  PROVE  SInv'
<1>1. /\ svc'[s] = [at |-> a, next |-> n, todo |-> todo]
      /\ \A t \in Svc : t # s => svc'[t] = svc[t]
  BY DEF Go, TInv, TypeOK
<1>2. \A t \in Svc : t # s => ~Underway(t)
  BY DEF SInv
<1>3. \A t \in Svc : t # s => ~Underway(t)'
  BY <1>1, <1>2 DEF Underway, Seeding, At
<1> QED BY <1>3 DEF SInv

\* A seeding step.
LEMMA SSeed == ASSUME TInv, SInv, NEW s \in Svc, ~cut, Seed(s) PROVE SInv'
<1> USE ConstantsAssumption DEF Role, Perm
<1>s. /\ svc \in [Svc -> Instance] /\ StartsTyped /\ links \in [Role -> SUBSET Perm]
      /\ permissions \subseteq Perm /\ roles \subseteq Role
  BY DEF TInv, TypeOK
<1>1. CASE FindAllRoles(s)
  <2>1. ~Underway(s) /\ UNCHANGED <<permissions, roles, links>> /\ (roles # {} => permissions # {})
    BY <1>1 DEF FindAllRoles, Underway, Seeding, At, tables, SInv
  <2>2. CASE roles = {}
    <3>1. Go(s, "perm", 1, {})
      BY <1>1, <2>2 DEF FindAllRoles
    <3> QED BY <2>1, <3>1, SAside
  <2>3. CASE roles # {}
    <3>1. Go(s, "up", 1, {})
      BY <1>1, <2>3 DEF FindAllRoles
    <3> QED BY <2>1, <2>3, <3>1, SAside
  <2> QED BY <2>2, <2>3
<1>2. CASE CreatePermission(s)
  <2> DEFINE n == svc[s].next
  <2>1. At(s, "perm") /\ n \in 1..NPerms /\ n \in Nat /\ UNCHANGED <<roles, links>>
    BY <1>2, <1>s DEF CreatePermission, StartsTyped
  <2>2. Underway(s) => permissions = 1..(n - 1) /\ roles = {} /\ permissions # {}
    BY <2>1 DEF SInv, Progress
  <2>3. CASE n \in permissions
    <3>1. Go(s, "up", 1, {}) /\ UNCHANGED permissions /\ ~Underway(s) /\ permissions # {}
      BY <1>2, <2>1, <2>2, <2>3 DEF CreatePermission
    <3> QED BY <2>1, <3>1, SAside
  <2>4. CASE n \notin permissions
    <3>1. permissions' = permissions \cup {n}
      BY <1>2, <2>4 DEF CreatePermission
    <3>2. permissions = 1..(n - 1) /\ roles = {} /\ (permissions = {} \/ Underway(s))
      <4>1. CASE Underway(s)
        BY <2>2, <4>1
      <4>2. CASE ~Underway(s)
        <5>1. n = 1
          BY <2>1, <4>2 DEF Underway, Seeding, At
        <5>2. permissions = {} /\ roles = {}
          BY <2>4, <5>1 DEF SInv
        <5> QED BY <5>1, <5>2
      <4> QED BY <4>1, <4>2
    <3>3. permissions' = 1..n /\ 1 \in permissions' /\ roles' = {}
      BY <2>1, <3>1, <3>2
    <3>4. \A m \in Role \ roles' : links'[m] = {}
      BY <2>1, <3>2 DEF SInv
    <3>5. CASE n = NPerms
      <4>1. Go(s, "role", 1, {}) /\ svc'[s] = [at |-> "role", next |-> 1, todo |-> {}]
        BY <1>2, <1>s, <2>4, <3>5 DEF CreatePermission, Go
      <4>2. Underway(s)' /\ Progress(s)'
        BY <3>3, <3>5, <4>1 DEF Underway, Seeding, Progress, At
      <4> QED BY <3>2, <3>3, <3>4, <4>1, <4>2, SAhead
    <3>6. CASE n # NPerms
      <4>1. Go(s, "perm", n + 1, {}) /\ svc'[s] = [at |-> "perm", next |-> n + 1, todo |-> {}]
        BY <1>2, <1>s, <2>4, <3>6 DEF CreatePermission, Go
      <4>2. Underway(s)' /\ Progress(s)'
        BY <2>1, <3>3, <4>1 DEF Underway, Seeding, Progress, At
      <4> QED BY <3>2, <3>3, <3>4, <4>1, <4>2, SAhead
    <3> QED BY <3>5, <3>6
  <2> QED BY <2>3, <2>4
<1>3. CASE CreateRole(s)
  <2> DEFINE n == svc[s].next
  <2>1. At(s, "role") /\ Underway(s) /\ n \in Role /\ n \in Nat /\ UNCHANGED <<permissions, links>>
    BY <1>3, <1>s DEF CreateRole, StartsTyped, Underway, Seeding, At
  <2>2. permissions = Perm /\ roles = 1..(n - 1) /\ \A m \in Role : m < n => links[m] = Matrix[m]
    BY <2>1 DEF SInv, Progress, At
  <2>3. n \notin roles
    BY <2>1, <2>2
  <2>4. /\ roles' = roles \cup {n} /\ Go(s, "link", n, Matrix[n])
        /\ svc'[s] = [at |-> "link", next |-> n, todo |-> Matrix[n]]
    BY <1>3, <1>s, <2>3 DEF CreateRole, Go
  <2>5. roles' = 1..n /\ links[n] = {} /\ Matrix[n] # {} /\ links'[n] = Matrix[n] \ Matrix[n]
    BY <2>1, <2>2, <2>3, <2>4 DEF SInv
  <2>6. Underway(s)'
    BY <2>4 DEF Underway, Seeding, At
  <2>7. Progress(s)'
    <3>1. permissions' = Perm /\ \A m \in Role : m < n => links'[m] = Matrix[m]
      BY <2>1, <2>2
    <3>2. svc'[s].at = "link" /\ svc'[s].next = n /\ svc'[s].todo = Matrix[n]
      BY <2>4
    <3>3. roles' = 1..n /\ links'[n] = Matrix[n] \ Matrix[n] /\ Matrix[n] # {}
      BY <2>5
    <3> HIDE DEF n
    <3> QED BY <3>1, <3>2, <3>3 DEF Progress, At
  <2>8. \A m \in Role \ roles' : links'[m] = {}
    BY <2>1, <2>4 DEF SInv
  <2>9. 1 \in permissions'
    BY <2>1, <2>2
  <2> QED BY <2>1, <2>4, <2>6, <2>7, <2>8, <2>9, SAhead
<1>4. CASE LinkPermission(s)
  <2> DEFINE n == svc[s].next
             left(p) == svc[s].todo \ {p}
  <2>1. At(s, "link") /\ Underway(s) /\ n \in Role /\ n \in Nat /\ UNCHANGED <<permissions, roles>>
    BY <1>4, <1>s DEF LinkPermission, StartsTyped, Underway, Seeding, At
  <2>2. /\ permissions = Perm /\ roles = 1..n /\ links[n] = Matrix[n] \ svc[s].todo
        /\ svc[s].todo \subseteq Matrix[n] /\ \A m \in Role : m < n => links[m] = Matrix[m]
    BY <2>1 DEF SInv, Progress, At
  <2>3. PICK p \in svc[s].todo : links' = [links EXCEPT ![n] = @ \cup {p}] /\ AfterLink(s, p)
    BY <1>4 DEF LinkPermission
  <2>4. /\ links'[n] = Matrix[n] \ left(p) /\ \A m \in Role : m # n => links'[m] = links[m]
    BY <1>s, <2>1, <2>2, <2>3
  <2>5. 1 \in permissions' /\ \A m \in Role \ roles' : links'[m] = {}
    <3>1. 1 \in permissions' /\ n \in roles
      BY <2>1, <2>2
    <3>2. \A m \in Role \ roles : links[m] = {}
      BY DEF SInv
    <3> QED BY <2>1, <2>4, <3>1, <3>2
  <2>9. left(p) = {} => links'[n] = Matrix[n]
    BY <2>4
  <2>6. CASE left(p) # {}
    <3>1. /\ Go(s, "link", n, left(p))
          /\ svc'[s] = [at |-> "link", next |-> n, todo |-> left(p)]
      BY <1>s, <2>3, <2>6 DEF AfterLink, Go
    <3>2. Underway(s)'
      BY <3>1 DEF Underway, Seeding, At
    <3>3. \A m \in Role : m < n => links'[m] = Matrix[m]
      BY <2>1, <2>2, <2>4
    <3>4. Progress(s)'
      BY <2>1, <2>2, <2>4, <2>6, <3>1, <3>3 DEF Progress, At
    <3> QED BY <2>1, <2>5, <3>1, <3>2, <3>4, SAhead
  <2>7. CASE left(p) = {} /\ n < NRoles
    <3>1. /\ Go(s, "role", n + 1, {})
          /\ svc'[s] = [at |-> "role", next |-> n + 1, todo |-> {}]
      BY <1>s, <2>3, <2>7 DEF AfterLink, Go
    <3>2. Underway(s)'
      BY <3>1 DEF Underway, Seeding, At
    <3>3. \A m \in Role : m < n + 1 => links'[m] = Matrix[m]
      <4>1. \A m \in Role : m < n + 1 => m = n \/ m < n
        BY <2>1
      <4> QED BY <2>1, <2>2, <2>4, <2>7, <2>9, <4>1
    <3>4. Progress(s)'
      <4>1. permissions' = Perm /\ roles' = 1..((n + 1) - 1)
        BY <2>1, <2>2
      <4> QED BY <3>1, <3>3, <4>1 DEF Progress, At
    <3> QED BY <2>1, <2>5, <3>1, <3>2, <3>4, SAhead
  <2>8. CASE left(p) = {} /\ ~(n < NRoles)
    <3>1. n = NRoles
      BY <2>1, <2>8
    <3>2. /\ Go(s, "up", 1, {}) /\ svc'[s] = [at |-> "up", next |-> 1, todo |-> {}]
          /\ \A t \in Svc : t # s => svc'[t] = svc[t]
      BY <1>s, <2>3, <2>8 DEF AfterLink, Go
    <3>3. \A m \in Role : links'[m] = Matrix[m]
      <4>1. \A m \in Role : m = n \/ m < n
        BY <2>1, <3>1
      <4> QED BY <2>1, <2>2, <2>4, <2>8, <2>9, <4>1
    <3>4. links' \in [Role -> SUBSET Perm]
      BY <1>s, <2>1, <2>3, TNext, <1>4 DEF TInv, TypeOK, Next, Seed, Instance
    <3>5. links' = Matrix
      BY <3>3, <3>4
    <3>6. Seeded'
      BY <2>1, <2>2, <3>1, <3>5 DEF Seeded
    <3>7. \A t \in Svc : ~Underway(t)'
      BY <2>1, <3>2 DEF SInv, Underway, Seeding, At
    <3> QED BY <2>1, <2>2, <2>5, <3>6, <3>7 DEF SInv
  <2> QED BY <2>6, <2>7, <2>8
<1> QED BY <1>1, <1>2, <1>3, <1>4 DEF Seed

\* Every step keeps the seeding in order.
LEMMA SNext == TInv /\ SInv /\ [Next]_vars => SInv'
<1> SUFFICES ASSUME TInv, SInv, [Next]_vars, ~cut' PROVE SInv'
  BY DEF SInv
<1> USE DEF tables, caches
<1>1. ASSUME NEW s \in Svc, Start(s) PROVE SInv'
  <2>1. ~cut /\ ~Underway(s) /\ Go(s, "find", 1, {}) /\ UNCHANGED <<permissions, roles, links>>
    BY <1>1 DEF Start, Underway, Seeding, At
  <2> QED BY <2>1, SAside
<1>2. ASSUME NEW s \in Svc, Seed(s) PROVE SInv'
  <2>1. ~cut
    BY <1>2 DEF Seed, FindAllRoles, CreatePermission, CreateRole, LinkPermission
  <2> QED BY <1>2, <2>1, SSeed
<1>3. ASSUME NEW s \in Svc, SeedFails(s) PROVE SInv'
  BY <1>3 DEF SeedFails
<1>4. ASSUME NEW s \in Svc, Die(s) PROVE SInv'
  <2>1. ~cut /\ ~Underway(s) /\ Go(s, "down", 1, {}) /\ UNCHANGED <<permissions, roles, links>>
    BY <1>4 DEF Die, Underway
  <2> QED BY <2>1, SAside
<1>5. ASSUME NEW r \in Req, Begin(r) \/ Continue(r) \/ Drop(r) PROVE SInv'
  <2>1. UNCHANGED <<permissions, roles, links, svc, cut>>
    BY <1>5 DEF Begin, Continue, Drop, Register, BeginAssign, BeginRevoke, BeginRead, FindRole,
       InsertUserRole, DeleteUserRole, DelPerms, DelRoles, ReadRoles, SetRoles, GetPerms,
       ReadRoleIds, ReadLinks, SetPerms
  <2> QED BY <2>1, SIdle
<1>6. ASSUME NEW u \in User, RolesExpire(u) \/ PermsExpire(u) PROVE SInv'
  BY <1>6, SIdle DEF RolesExpire, PermsExpire
<1>7. CASE UNCHANGED vars
  BY <1>7, SIdle DEF vars
<1> QED BY <1>1, <1>2, <1>3, <1>4, <1>5, <1>6, <1>7 DEF Next

\* An instance that has started finds the role tables complete, unless another
\* is seeding or a seeding was cut short.
THEOREM RolesSeeded == Spec => []SeedComplete
<1>1. SInv => SeedComplete
  BY DEF SInv, SeedComplete, Underway
<1> QED BY TInit, TNext, SInit, SNext, <1>1, PTL DEF Spec
=============================================================================
