----------------------------- MODULE Identities -----------------------------
(***************************************************************************)
(* How accounts come to be and which identities at OAuth providers belong  *)
(* to them: registration, the OAuth flow and its callback, unlinking.      *)
(*                                                                         *)
(* A link is written to two tables, one row each.  A callback finds its    *)
(* account by the e-mail address alone.  A granted sign-in continues in    *)
(* SessionTokens, a scheduled deletion in Accounts.                        *)
(***************************************************************************)
EXTENDS Integers, FiniteSets

CONSTANTS
  Procs,         \* request slots
  Mixes,         \* bound: one of them is what clients do, see Mix
  Emails,
  NoEmail,
  Identities,    \* people at providers: [provider |-> .., who |-> ..]
  Mocks,         \* those of a code that begins with 'test_code'
  Prefix,        \* the first ten characters of profile.id, by identity
  Names,         \* user names that registrations ask for
  Discloses,     \* what the provider may disclose of each, at one time or another
  MaxUsers,      \* bound: rows of `users` ever inserted
  MaxFlows,      \* bound: OAuth states ever issued, in any mix
  MaxDeaths      \* bound: requests that die half-way, in any mix

AllOps == {"callback", "unlink", "register", "delete"}

\* The operations of clients, the OAuth states ever issued and the requests that die.
Mix == [ops: SUBSET AllOps, flows: 0..MaxFlows, deaths: 0..MaxDeaths]

\* What a provider discloses: the address of the profile, the primary one and the
\* verified ones.
Person == [public: Emails \cup {NoEmail}, primary: Emails \cup {NoEmail},
           verified: SUBSET Emails]

ASSUME MixAssumption == Mixes \subseteq Mix
ASSUME NoEmailAssumption == NoEmail \notin Emails
ASSUME IdentitiesAssumption == IsFiniteSet(Identities) /\ Mocks \subseteq Identities
ASSUME PersonAssumption ==
  /\ Discloses \in [Identities -> SUBSET Person]
  /\ DOMAIN Prefix = Identities
ASSUME BoundAssumption == MaxUsers \in Nat /\ MaxFlows \in Nat /\ MaxDeaths \in Nat

VARIABLES
  mix,           \* what clients do in this behaviour
  users,         \* the rows of `users` and, as flags, of credentials and user_roles
  lastUser,      \* rows inserted so far
  flows,         \* oauth:flow keys: the provider of each
  lastFlow,      \* states issued so far
  spent,         \* states that a callback deleted
  oauth,         \* oauth_accounts: [user, id]
  connected,     \* connected_accounts: [user, provider]
  torn,          \* links of which one write was crossed or lost
  deaths,        \* requests that died so far
  req            \* local state of the requests in flight

vars == <<mix, users, lastUser, flows, lastFlow, spent, oauth, connected, torn,
          deaths, req>>
rows == <<users, lastUser>>
states == <<flows, lastFlow, spent>>
links == <<oauth, connected, torn>>

-----------------------------------------------------------------------------
UserIds == 1..MaxUsers
Providers == {i.provider : i \in Identities}
Usernames == Names \cup {Prefix[i] : i \in Identities}

User == [email: Emails, username: Usernames,
         status: {"pending_verification", "active", "pending_deletion"},
         deleted: BOOLEAN,       \* deletedAt is set
         overdue: BOOLEAN,       \* the grace period of its deletion is over
         cred: BOOLEAN,          \* a row in credentials
         role: BOOLEAN]          \* a row in user_roles

NoRow == [email |-> NoEmail]

\* An identity belongs to one account; an account shows each provider once.
OauthAccount == [user: UserIds, id: Identities]
ConnectedAccount == [user: UserIds, provider: Providers]

Labels == {"idle", "getFlow", "delFlow", "fetch", "findUser", "createUser", "activateNew",
           "assignRole", "purgeCred", "purge", "activate", "findLink", "insertOauth",
           "insertConnected", "session", "findEmail", "findName", "insertUser", "createCred", "registerRole",
           "readLinks", "readCred", "delOauth", "delConnected"}

Request == [pc: Labels,
            flow: 0..MaxFlows,
            id: Identities \cup {NoEmail},       \* who came back
            provider: Providers \cup {"none"},
            email: Emails \cup {NoEmail},
            name: Usernames \cup {NoEmail},
            user: 0..MaxUsers,
            links: 0..Cardinality(Identities),   \* links.length
            late: BOOLEAN,                       \* its state was spent on arrival
            crossed: BOOLEAN]                    \* links were deleted since it counted them, or
                                                 \* the password since it looked at it

\* Half of a link is written.
SecondWrite == {"insertConnected", "delConnected"}

\* NoEmail stands for "no value" in the fields a request does not use.
Idle == [pc |-> "idle", flow |-> 0, id |-> NoEmail, provider |-> "none", email |-> NoEmail,
         name |-> NoEmail, user |-> 0, links |-> 0, late |-> FALSE, crossed |-> FALSE]

Init ==
  /\ mix \in Mixes
  /\ users = [u \in UserIds |-> NoRow] /\ lastUser = 0
  /\ flows = <<>> /\ lastFlow = 0 /\ spent = {}
  /\ oauth = {} /\ connected = {} /\ torn = {}
  /\ deaths = 0
  /\ req = [p \in Procs |-> Idle]

-----------------------------------------------------------------------------
At(p, l) == req[p].pc = l
Become(p, r) == req' = [req EXCEPT ![p] = r]
Goto(p, l) == Become(p, [req[p] EXCEPT !.pc = l])
Finish(p) == Become(p, Idle)

There == {u \in UserIds : users[u] # NoRow}
OfEmail(e) == {u \in There : users[u].email = e}

Visible(u) == ~users[u].deleted

\* createUser; the unique indexes also see rows scheduled for deletion.
CreateUser(p, e, name, next) ==
  /\ lastUser < MaxUsers
  /\ \/ /\ \E u \in There : users[u].email = e \/ users[u].username = name
        /\ UNCHANGED rows
        /\ Finish(p)
     \/ /\ \A u \in There : users[u].email # e /\ users[u].username # name
        /\ lastUser' = lastUser + 1
        /\ users' = [users EXCEPT ![lastUser + 1] =
                       [email |-> e, username |-> name, status |-> "pending_verification",
                        deleted |-> FALSE, overdue |-> FALSE, cred |-> FALSE, role |-> FALSE]]
        /\ Become(p, [req[p] EXCEPT !.pc = next, !.user = lastUser + 1, !.name = NoEmail])
  /\ UNCHANGED <<mix, states, links, deaths>>

\* updateUser: without the row it returns nothing, and the callback throws.
Update(p, u, row, next) ==
  /\ IF u \in There
     THEN users' = [users EXCEPT ![u] = row] /\ Goto(p, next)
     ELSE UNCHANGED users /\ Finish(p)
  /\ UNCHANGED <<mix, lastUser, states, links, deaths>>

-----------------------------------------------------------------------------
(* The OAuth flow up to the profile.                                       *)

\* Nobody is signed in yet: whoever comes back is the user.
InitiateFlow(provider) ==
  /\ "callback" \in mix.ops /\ lastFlow < mix.flows
  /\ lastFlow' = lastFlow + 1
  /\ flows' = [f \in DOMAIN flows \cup {lastFlow + 1} |->
                 IF f = lastFlow + 1 THEN provider ELSE flows[f]]
  /\ UNCHANGED <<mix, rows, spent, links, deaths, req>>

FlowExpires(f) ==
  /\ f \in DOMAIN flows
  /\ flows' = [g \in DOMAIN flows \ {f} |-> flows[g]]
  /\ UNCHANGED <<mix, rows, lastFlow, spent, links, deaths, req>>

BeginCallback(p, f) ==
  /\ "callback" \in mix.ops /\ At(p, "idle")
  /\ Become(p, [Idle EXCEPT !.pc = "getFlow", !.flow = f, !.late = f \in spent])
  /\ UNCHANGED <<mix, rows, states, links, deaths>>

GetFlow(p) ==
  /\ At(p, "getFlow")
  /\ IF req[p].flow \in DOMAIN flows
     THEN Become(p, [req[p] EXCEPT !.pc = "delFlow", !.provider = flows[req[p].flow]])
     ELSE Finish(p)
  /\ UNCHANGED <<mix, rows, states, links, deaths>>

\* MUTANT: the state is left to its expiry.
DelFlowNot(p) ==
  /\ At(p, "delFlow")
  /\ spent' = spent \cup {req[p].flow}
  /\ Goto(p, "fetch")
  /\ UNCHANGED <<mix, rows, flows, lastFlow, links, deaths>>

DelFlow(p) ==
  /\ At(p, "delFlow")
  /\ flows' = [g \in DOMAIN flows \ {req[p].flow} |-> flows[g]]
  /\ spent' = spent \cup {req[p].flow}
  /\ Goto(p, "fetch")
  /\ UNCHANGED <<mix, rows, lastFlow, links, deaths>>

\* The addresses that each provider's profile may bring; none is an error.
GoogleProfile(a) == {a.public} \ {NoEmail}

LinkedInProfile(a) == {a.public} \ {NoEmail}

GitHubProfile(a) ==
  CASE a.public # NoEmail -> {a.public}
    [] a.public = NoEmail /\ a.primary \in a.verified -> {a.primary}
    [] OTHER -> a.verified

\* Flows of other providers can be initiated, and end here.
ProviderProfile(provider, a) ==
  CASE provider = "google"   -> GoogleProfile(a)
    [] provider = "linkedin" -> LinkedInProfile(a)
    [] provider = "github"   -> GitHubProfile(a)
    [] OTHER -> {}

\* A test code names its own profile, at any provider.
Profile(i, a) ==
  IF i \in Mocks THEN {a.public} \ {NoEmail} ELSE ProviderProfile(i.provider, a)

\* The exchange of the code or the query of the profile may fail.
FetchProfile(p) ==
  /\ At(p, "fetch")
  /\ \/ \E i \in Identities : \E a \in Discloses[i] : \E e \in Profile(i, a) :
          /\ i.provider = req[p].provider
          /\ Become(p, [req[p] EXCEPT !.pc = "findUser", !.id = i, !.email = e])
     \/ Finish(p)
  /\ UNCHANGED <<mix, rows, states, links, deaths>>

-----------------------------------------------------------------------------
(* The account of the profile.                                             *)

\* findByEmailIncludingDeleted.  Nothing reads restore:temp, which a row within
\* its grace period sets.
FindUser(p) ==
  /\ At(p, "findUser")
  /\ \/ /\ OfEmail(req[p].email) = {}
        /\ Goto(p, "createUser")
     \/ \E u \in OfEmail(req[p].email) :
          LET next == CASE ~Visible(u) /\ users[u].overdue -> "purgeCred"
                        [] ~Visible(u) /\ ~users[u].overdue -> "idle"
                        [] Visible(u) /\ users[u].status = "pending_verification" -> "activate"
                        [] Visible(u) /\ users[u].status # "pending_verification" -> "findLink" IN
          Become(p, IF next = "idle" THEN Idle ELSE [req[p] EXCEPT !.pc = next, !.user = u])
  /\ UNCHANGED <<mix, rows, states, links, deaths>>

CreateSsoUser(p) ==
  /\ At(p, "createUser")
  /\ CreateUser(p, req[p].email, Prefix[req[p].id], "activateNew")

ActivateNew(p) ==
  /\ At(p, "activateNew")
  /\ Update(p, req[p].user, [users[req[p].user] EXCEPT !.status = "active"], "assignRole")

\* The foreign key refuses a purged user.
AssignRole(p) ==
  /\ At(p, "assignRole")
  /\ Update(p, req[p].user, [users[req[p].user] EXCEPT !.role = TRUE], "findLink")

\* Only the status is written: a row deleted meanwhile stays so.
Activate(p) ==
  /\ At(p, "activate")
  /\ LET u == req[p].user IN
     IF u \in There
     THEN users' = [users EXCEPT ![u].status = "active"]
     ELSE UNCHANGED users
  /\ Goto(p, "findLink")
  /\ UNCHANGED <<mix, lastUser, states, links, deaths>>

\* hardDeleteUser: the credentials first.  Unlinkings that have looked at them go on.
PurgeCred(p) ==
  /\ At(p, "purgeCred")
  /\ LET u == req[p].user
         had == u \in There /\ users[u].cred IN
     /\ users' = IF had THEN [users EXCEPT ![u].cred = FALSE] ELSE users
     /\ req' = [q \in Procs |->
                  IF q = p THEN [req[p] EXCEPT !.pc = "purge"]
                  ELSE [req[q] EXCEPT !.crossed =
                          @ \/ (had /\ req[q].pc = "delOauth" /\ req[q].user = u)]]
  /\ UNCHANGED <<mix, lastUser, states, links, deaths>>

\* MUTANT: the links do not refer to the row.
PurgeRowOnly(p) ==
  /\ At(p, "purge")
  /\ users' = [users EXCEPT ![req[p].user] = NoRow]
  /\ Finish(p)
  /\ UNCHANGED <<mix, lastUser, states, links, deaths>>

\* Then the row and all that refers to it.
Purge(p) ==
  /\ At(p, "purge")
  /\ LET u == req[p].user IN
     /\ users' = [users EXCEPT ![u] = NoRow]
     /\ oauth' = {l \in oauth : l.user # u}
     /\ connected' = {c \in connected : c.user # u}
  /\ Finish(p)
  /\ UNCHANGED <<mix, lastUser, states, torn, deaths>>

-----------------------------------------------------------------------------
(* The link of the identity, in two tables.                                *)

\* Whose link it is does not matter.
FindLink(p) ==
  /\ At(p, "findLink")
  /\ IF \E l \in oauth : l.id = req[p].id THEN Goto(p, "session") ELSE Goto(p, "insertOauth")
  /\ UNCHANGED <<mix, rows, states, links, deaths>>

\* The other kind of request is between its two writes to the same link.
Crossing(u, provider, l) ==
  IF \E q \in Procs : At(q, l) /\ req[q].user = u
                      /\ req[q].provider = provider
  THEN {[user |-> u, provider |-> provider]}
  ELSE {}

\* The unique index on the identity or the foreign key may refuse the row.
InsertOauth(p) ==
  /\ At(p, "insertOauth")
  /\ LET u == req[p].user  i == req[p].id IN
     IF u \in There /\ ~\E l \in oauth : l.id = i
     THEN /\ oauth' = oauth \cup {[user |-> u, id |-> i]}
          /\ torn' = torn \cup Crossing(u, i.provider, "delConnected")
          /\ Goto(p, "insertConnected")
     ELSE UNCHANGED <<oauth, torn>> /\ Finish(p)
  /\ UNCHANGED <<mix, rows, states, connected, deaths>>

\* One row for each user and provider.
InsertConnected(p) ==
  /\ At(p, "insertConnected")
  /\ LET c == [user |-> req[p].user, provider |-> req[p].id.provider] IN
     IF req[p].user \in There /\ c \notin connected
     THEN connected' = connected \cup {c} /\ Goto(p, "session")
     ELSE UNCHANGED connected /\ Finish(p)
  /\ UNCHANGED <<mix, rows, states, oauth, torn, deaths>>

\* The sign-in goes on.
CreateSession(p) ==
  /\ At(p, "session")
  /\ Finish(p)
  /\ UNCHANGED <<mix, rows, states, links, deaths>>

-----------------------------------------------------------------------------
(* unlinkProvider.                                                         *)

BeginUnlink(p, u, provider) ==
  /\ "unlink" \in mix.ops /\ At(p, "idle")
  /\ Become(p, [Idle EXCEPT !.pc = "readLinks", !.user = u, !.provider = provider])
  /\ UNCHANGED <<mix, rows, states, links, deaths>>

OauthOf(u) == {l \in oauth : l.user = u}

ReadLinks(p) ==
  /\ At(p, "readLinks")
  /\ Become(p, [req[p] EXCEPT !.pc = "readCred", !.links = Cardinality(OauthOf(req[p].user))])
  /\ UNCHANGED <<mix, rows, states, links, deaths>>

\* MUTANT: the link that is to go counts as one that stays.
RefusesLate(cred, n) == ~cred /\ n < 1

Refuses(cred, n) == ~cred /\ n <= 1

ReadCred(p) ==
  /\ At(p, "readCred")
  /\ LET u == req[p].user IN
     IF Refuses(u \in There /\ users[u].cred, req[p].links)
     THEN Finish(p)
     ELSE Goto(p, "delOauth")
  /\ UNCHANGED <<mix, rows, states, links, deaths>>

Removed(u, provider) == {l \in OauthOf(u) : l.id.provider = provider}

DelOauth(p) ==
  /\ At(p, "delOauth")
  /\ LET u == req[p].user  provider == req[p].provider IN
     /\ oauth' = oauth \ Removed(u, provider)
     /\ torn' = torn \cup Crossing(u, provider, "insertConnected")
     /\ req' = [q \in Procs |->
                  IF q = p THEN [req[p] EXCEPT !.pc = "delConnected", !.crossed = FALSE]
                  ELSE [req[q] EXCEPT !.crossed =
                          @ \/ (req[q].pc \in {"readCred", "delOauth"} /\ req[q].user = u)]]
  /\ UNCHANGED <<mix, rows, states, connected, deaths>>

\* MUTANT: only the identity is unlinked.
DelConnectedNot(p) ==
  /\ At(p, "delConnected")
  /\ Finish(p)
  /\ UNCHANGED <<mix, rows, states, links, deaths>>

DelConnected(p) ==
  /\ At(p, "delConnected")
  /\ connected' = connected \ {[user |-> req[p].user, provider |-> req[p].provider]}
  /\ Finish(p)
  /\ UNCHANGED <<mix, rows, states, oauth, torn, deaths>>

-----------------------------------------------------------------------------
(* AuthService.register, of a password that the policy accepts.            *)

BeginRegister(p, e, name) ==
  /\ "register" \in mix.ops /\ At(p, "idle")
  /\ Become(p, [Idle EXCEPT !.pc = "findEmail", !.email = e, !.name = name])
  /\ UNCHANGED <<mix, rows, states, links, deaths>>

FindEmail(p) ==
  /\ At(p, "findEmail")
  /\ IF \E u \in OfEmail(req[p].email) : Visible(u) THEN Finish(p) ELSE Goto(p, "findName")
  /\ UNCHANGED <<mix, rows, states, links, deaths>>

FindName(p) ==
  /\ At(p, "findName")
  /\ IF \E u \in There : users[u].username = req[p].name /\ Visible(u)
     THEN Finish(p)
     ELSE Goto(p, "insertUser")
  /\ UNCHANGED <<mix, rows, states, links, deaths>>

InsertUser(p) ==
  /\ At(p, "insertUser")
  /\ CreateUser(p, req[p].email, req[p].name, "createCred")

CreateCredentials(p) ==
  /\ At(p, "createCred")
  /\ Update(p, req[p].user, [users[req[p].user] EXCEPT !.cred = TRUE], "registerRole")

RegisterRole(p) ==
  /\ At(p, "registerRole")
  /\ LET u == req[p].user IN
     IF u \in There
     THEN users' = [users EXCEPT ![u].role = TRUE]
     ELSE UNCHANGED users
  /\ Finish(p)
  /\ UNCHANGED <<mix, lastUser, states, links, deaths>>

-----------------------------------------------------------------------------
(* The rest of the world.                                                  *)

\* deleteAccount or restoreAccount of a user; the end of the grace period.
Schedule(u, status, deleted, overdue) ==
  /\ "delete" \in mix.ops
  /\ u \in There
  /\ users' = [users EXCEPT ![u].status = status, ![u].deleted = deleted, ![u].overdue = overdue]
  /\ UNCHANGED <<mix, lastUser, states, links, deaths, req>>

Delete(u) == Visible(u) /\ users[u].status = "active" /\ Schedule(u, "pending_deletion", TRUE, FALSE)
Restore(u) == ~Visible(u) /\ ~users[u].overdue /\ Schedule(u, "active", FALSE, FALSE)
GraceEnds(u) == ~Visible(u) /\ ~users[u].overdue /\ Schedule(u, users[u].status, TRUE, TRUE)

\* A login or a restoration found the row overdue.
BeginPurge(p, u) ==
  /\ "delete" \in mix.ops /\ At(p, "idle")
  /\ ~Visible(u) /\ users[u].overdue
  /\ Become(p, [Idle EXCEPT !.pc = "purgeCred", !.user = u])
  /\ UNCHANGED <<mix, rows, states, links, deaths>>

\* A statement throws or the instance dies.
Abort(p) ==
  /\ ~At(p, "idle") /\ deaths < mix.deaths
  /\ deaths' = deaths + 1
  /\ torn' = torn \cup
       (IF req[p].pc \in SecondWrite THEN {[user |-> req[p].user, provider |-> req[p].provider]}
                                      ELSE {})
  /\ Finish(p)
  /\ UNCHANGED <<mix, rows, states, oauth, connected>>

Begin(p) ==
  \/ \E f \in 1..lastFlow : BeginCallback(p, f)
  \/ \E u \in There, provider \in Providers : BeginUnlink(p, u, provider)
  \/ \E e \in Emails, name \in Names : BeginRegister(p, e, name)
  \/ \E u \in There : BeginPurge(p, u)

Continue(p) ==
  \/ GetFlow(p) \/ DelFlow(p) \/ FetchProfile(p)
  \/ FindUser(p) \/ CreateSsoUser(p) \/ ActivateNew(p) \/ AssignRole(p) \/ Activate(p)
  \/ PurgeCred(p) \/ Purge(p) \/ FindLink(p) \/ InsertOauth(p) \/ InsertConnected(p) \/ CreateSession(p)
  \/ ReadLinks(p) \/ ReadCred(p) \/ DelOauth(p) \/ DelConnected(p)
  \/ FindEmail(p) \/ FindName(p) \/ InsertUser(p) \/ CreateCredentials(p) \/ RegisterRole(p)

Next ==
  \/ \E p \in Procs : Begin(p) \/ Continue(p) \/ Abort(p)
  \/ \E provider \in Providers : InitiateFlow(provider)
  \/ \E f \in 1..MaxFlows : FlowExpires(f)
  \/ \E u \in There : Delete(u) \/ Restore(u) \/ GraceEnds(u)

Spec == Init /\ [][Next]_vars

-----------------------------------------------------------------------------
(* Properties.                                                             *)

\* The rows, the keys and the requests hold values of their types; addresses, user
\* names and identities are unique, and links belong to accounts that exist.
TypeOK ==
  /\ mix \in Mixes
  /\ lastUser \in 0..MaxUsers
  /\ users \in [UserIds -> User \cup {NoRow}]
  /\ \A u, v \in There : u # v => users[u].email # users[v].email
                                  /\ users[u].username # users[v].username
  /\ lastFlow \in 0..MaxFlows /\ spent \subseteq 1..lastFlow
  /\ DOMAIN flows \subseteq 1..lastFlow
  /\ \A f \in DOMAIN flows : flows[f] \in Providers
  /\ oauth \subseteq OauthAccount /\ connected \subseteq ConnectedAccount
  /\ \A l \in oauth \cup connected : l.user \in There
  /\ \A l, m \in oauth : l.id = m.id => l = m
  /\ deaths \in 0..MaxDeaths
  /\ req \in [Procs -> Request]

\* A callback whose state an earlier callback already deleted gets nowhere: a state
\* serves twice only for callbacks that overlap.
StateServesOnce == \A p \in Procs : req[p].late => req[p].pc \in {"idle", "getFlow"}

\* The two tables agree on which providers an account is linked to, once no request
\* is between its two writes, unless a request died there or a linking and an
\* unlinking crossed.
LinksAgree ==
  \A u \in There, provider \in Providers :
    LET c == [user |-> u, provider |-> provider] IN
    c \notin torn =>
      \/ Removed(u, provider) # {} <=> c \in connected
      \/ \E p \in Procs : /\ req[p].pc \in SecondWrite /\ req[p].user = u
                          /\ req[p].provider = provider

\* "to prevent getting permanently locked out" (oauth.service.ts:318): an unlinking
\* takes the last link of an account without a password only if another one took
\* links of it since the links were counted, if a purge took the password since it was
\* looked at, or if the provider had several.
UnlinkLeavesAWayIn ==
  [][\A p \in Procs :
       LET u == req[p].user IN
       DelOauth(p) /\ OauthOf(u) # {} /\ u \in There /\ ~users[u].cred =>
         \/ OauthOf(u)' # {}
         \/ req[p].crossed
         \/ Cardinality(Removed(u, req[p].provider)) > 1]_vars
=============================================================================
