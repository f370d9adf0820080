-------------------------- MODULE IdentitiesProofs --------------------------
(***************************************************************************)
(* The tables of links agree, a state serves once and an unlinking leaves  *)
(* a way in, for any number of requests, accounts, identities and states.  *)
(***************************************************************************)
EXTENDS Identities, FiniteSetTheorems, TLAPS

IdLabels == {"findUser", "createUser", "activateNew", "assignRole", "activate", "findLink",
             "insertOauth", "insertConnected"}
NameLabels == {"findEmail", "findName", "insertUser"}
EmailLabels == {"findUser", "createUser"} \cup NameLabels
UnlinkLabels == {"readLinks", "readCred", "delOauth", "delConnected"}
UserLabels == {"activateNew", "assignRole", "activate", "purgeCred", "purge", "findLink",
               "insertOauth", "insertConnected", "createCred", "registerRole"} \cup UnlinkLabels

\* Which fields a request has filled in where, in terms of the counters; an account or
\* a state it names was handed out.
FieldsOK(r, lastU, lastF, sp) ==
  /\ r.user <= lastU /\ r.flow <= lastF
  /\ r.pc \in {"getFlow", "delFlow"} => r.flow >= 1
  /\ r.pc \in IdLabels => r.id \in Identities /\ r.provider = r.id.provider
  /\ r.pc \in EmailLabels => r.email \in Emails
  /\ r.pc \in NameLabels => r.name \in Usernames
  /\ r.pc \in UserLabels => r.user >= 1
  /\ r.pc \in UnlinkLabels => r.provider \in Providers
  /\ r.late => r.pc = "getFlow" /\ r.flow \in sp

Owned(oa, u) == {l \in oa : l.user = u}
Has(oa, u, provider) == \E l \in oa : l.user = u /\ l.id.provider = provider
LinkOf(r) == [user |-> r.user, provider |-> r.provider]

\* What a request that links or unlinks knows of the links while the account is there:
\* its own first write still stands, unless the link is torn; the links it counted are
\* there, unless it was crossed.
LinkOK(r, row, oa, tn) ==
  row[r.user] # NoRow =>
    /\ r.pc = "insertConnected" /\ LinkOf(r) \notin tn => Has(oa, r.user, r.provider)
    /\ r.pc = "delConnected" /\ LinkOf(r) \notin tn => ~Has(oa, r.user, r.provider)
    /\ r.pc = "readCred" /\ ~r.crossed => r.links <= Cardinality(Owned(oa, r.user))
    /\ r.pc = "delOauth" /\ ~r.crossed /\ ~row[r.user].cred =>
         Cardinality(Owned(oa, r.user)) >= 2

RequestsOK ==
  /\ req \in [Procs -> Request]
  /\ \A p \in Procs : FieldsOK(req[p], lastUser, lastFlow, spent)
  /\ \A p \in Procs : req[p].pc \in UserLabels => LinkOK(req[p], users, oauth, torn)

UsersOK ==
  /\ lastUser \in 0..MaxUsers
  /\ users \in [UserIds -> User \cup {NoRow}]
  /\ \A u \in There : u <= lastUser
  /\ \A u, v \in There : u # v => users[u].email # users[v].email
                                  /\ users[u].username # users[v].username

FlowsOK ==
  /\ lastFlow \in 0..MaxFlows /\ spent \subseteq 1..lastFlow
  /\ DOMAIN flows \subseteq 1..lastFlow /\ DOMAIN flows \cap spent = {}
  /\ \A f \in DOMAIN flows : flows[f] \in Providers

LinksOK ==
  /\ oauth \subseteq OauthAccount /\ connected \subseteq ConnectedAccount
  /\ \A l \in oauth \cup connected : l.user \in There
  /\ \A l, m \in oauth : l.id = m.id => l = m

\* LinksAgree for one account and one provider.
PairOK(u, provider, oa, cn, tn, rq) ==
  LET c == [user |-> u, provider |-> provider] IN
  c \notin tn =>
    \/ Has(oa, u, provider) <=> c \in cn
    \/ \E p \in Procs : /\ rq[p].pc \in SecondWrite /\ rq[p].user = u
                        /\ rq[p].provider = provider

PairsOK == \A u \in There, provider \in Providers :
             PairOK(u, provider, oauth, connected, torn, req)

IInv == /\ mix \in Mixes /\ deaths \in 0..MaxDeaths
        /\ RequestsOK /\ UsersOK /\ FlowsOK /\ LinksOK /\ PairsOK

-----------------------------------------------------------------------------
(* Values.                                                                 *)

\* The constants, as the proofs use them.
LEMMA Bounds ==
  /\ MaxUsers \in Nat /\ MaxFlows \in Nat /\ MaxDeaths \in Nat
  /\ IsFiniteSet(Identities) /\ Cardinality(Identities) \in Nat
  /\ UserIds = 1..MaxUsers
BY BoundAssumption, IdentitiesAssumption, FS_CardinalityType DEF UserIds

\* A request that is not in flight.
LEMMA IdleFine ==
  /\ Idle \in Request /\ Idle.pc = "idle" /\ Idle.flow = 0 /\ Idle.user = 0 /\ ~Idle.late
  /\ Idle.pc \notin UserLabels
  /\ \A lastU, lastF \in Nat : \A sp : FieldsOK(Idle, lastU, lastF, sp)
<1>1. /\ Idle \in Request /\ Idle.pc = "idle" /\ Idle.flow = 0 /\ Idle.user = 0 /\ ~Idle.late
  BY Bounds DEF Idle, Request, Labels
<1>2. Idle.pc \notin UserLabels
  BY <1>1 DEF UserLabels, UnlinkLabels
<1> HIDE DEF Idle
<1>3. ASSUME NEW lastU \in Nat, NEW lastF \in Nat, NEW sp PROVE FieldsOK(Idle, lastU, lastF, sp)
  BY <1>1 DEF FieldsOK, IdLabels, NameLabels, EmailLabels, UserLabels, UnlinkLabels
<1> QED BY <1>1, <1>2, <1>3

\* A request goes on with what it has.
LEMMA GotoFine ==
  ASSUME NEW c \in Request, NEW l \in Labels
  PROVE  LET r == [c EXCEPT !.pc = l]
         IN  /\ r \in Request /\ r.pc = l /\ r.flow = c.flow /\ r.id = c.id
             /\ r.provider = c.provider /\ r.email = c.email /\ r.name = c.name
             /\ r.user = c.user /\ r.links = c.links
             /\ r.late <=> c.late
             /\ r.crossed <=> c.crossed
BY DEF Request

\* An identity belongs to one account: an account has no more links than there are
\* identities.
LEMMA OwnedFinite ==
  ASSUME NEW oa \in SUBSET OauthAccount, \A l, m \in oa : l.id = m.id => l = m, NEW u
  PROVE  /\ IsFiniteSet(Owned(oa, u)) /\ Cardinality(Owned(oa, u)) \in Nat
         /\ Cardinality(Owned(oa, u)) <= Cardinality(Identities)
<1> DEFINE f == [l \in Owned(oa, u) |-> l.id]
<1>1. f \in [Owned(oa, u) -> Identities]
  BY DEF Owned, OauthAccount
<1>2. \A l, m \in Owned(oa, u) : f[l] = f[m] => l = m
  BY DEF Owned
<1>3. f \in Injection(Owned(oa, u), Identities)
  BY <1>1, <1>2 DEF Injection, IsInjective
<1>4. IsFiniteSet(Owned(oa, u)) /\ Cardinality(Owned(oa, u)) <= Cardinality(Identities)
  BY <1>3, Bounds, FS_Injection
<1> QED BY <1>4, FS_CardinalityType

\* An address that a profile brings is an address.
LEMMA ProfileEmails == ASSUME NEW i, NEW a \in Person PROVE Profile(i, a) \subseteq Emails
BY DEF Profile, ProviderProfile, GoogleProfile, LinkedInProfile, GitHubProfile, Person

-----------------------------------------------------------------------------
(* What a step does to the requests and to the links.                      *)

\* Nothing that was handed out is taken back.
Counters ==
  /\ lastUser \in Nat /\ lastUser' \in Nat /\ lastUser <= lastUser'
  /\ lastFlow \in Nat /\ lastFlow' \in Nat /\ lastFlow <= lastFlow'
  /\ spent \subseteq spent'

\* But for purges, accounts stay and keep their credentials, and none comes back under
\* an old number.
RowsKept ==
  \A u \in UserIds :
    /\ users[u] # NoRow => users'[u] # NoRow /\ (users[u].cred => users'[u].cred)
    /\ users'[u] # NoRow /\ u <= lastUser => users[u] # NoRow

LEMMA FieldsKept ==
  ASSUME Counters, NEW r \in Request, FieldsOK(r, lastUser, lastFlow, spent)
  PROVE  FieldsOK(r, lastUser', lastFlow', spent')
<1>1. r.user \in Nat /\ r.flow \in Nat
  BY Bounds DEF Request
<1> QED BY <1>1 DEF FieldsOK, Counters

LEMMA UserFine ==
  ASSUME IInv, NEW p \in Procs, req[p].pc \in UserLabels
  PROVE  req[p].user \in 1..lastUser /\ req[p].user \in UserIds /\ lastUser \in Nat
BY Bounds DEF IInv, RequestsOK, UsersOK, FieldsOK, Request

\* The links of an account are as they were, or those of another account changed.
LEMMA LinkKept ==
  ASSUME NEW r, NEW row1, NEW row2, NEW oa1, NEW oa2, NEW tn1, NEW tn2,
         LinkOK(r, row1, oa1, tn1), tn1 \subseteq tn2,
         row2[r.user] # NoRow => /\ row1[r.user] # NoRow
                                 /\ row1[r.user].cred => row2[r.user].cred
                                 /\ Owned(oa2, r.user) = Owned(oa1, r.user)
  PROVE  LinkOK(r, row2, oa2, tn2)
<1>1. SUFFICES ASSUME row2[r.user] # NoRow PROVE LinkOK(r, row2, oa2, tn2)
  BY DEF LinkOK
<1>2. Has(oa2, r.user, r.provider) <=> Has(oa1, r.user, r.provider)
  BY <1>1 DEF Has, Owned
<1> QED BY <1>1, <1>2 DEF LinkOK

\* One request moves; the others know what they knew.
LEMMA RequestStep ==
  ASSUME RequestsOK, Counters, NEW p \in Procs, NEW r \in Request, Become(p, r),
         FieldsOK(r, lastUser', lastFlow', spent'),
         r.pc \in UserLabels => LinkOK(r, users', oauth', torn'),
         \A q \in Procs \ {p} : req[q].pc \in UserLabels => LinkOK(req[q], users', oauth', torn')
  PROVE  RequestsOK' /\ req'[p] = r /\ \A q \in Procs \ {p} : req'[q] = req[q]
<1>1. /\ req' \in [Procs -> Request] /\ req'[p] = r
      /\ \A q \in Procs \ {p} : req'[q] = req[q]
  BY DEF RequestsOK, Become
<1>2. \A q \in Procs : FieldsOK(req'[q], lastUser', lastFlow', spent')
  BY <1>1, FieldsKept DEF RequestsOK
<1>3. \A q \in Procs : req'[q].pc \in UserLabels => LinkOK(req'[q], users', oauth', torn')
  BY <1>1
<1> QED BY <1>1, <1>2, <1>3 DEF RequestsOK

\* An account and a provider whose link nobody touches.
LEMMA PairKept ==
  ASSUME NEW u, NEW provider, NEW p \in Procs, NEW rq1, NEW rq2, NEW oa1, NEW oa2,
         NEW cn1, NEW cn2, NEW tn1, NEW tn2,
         PairOK(u, provider, oa1, cn1, tn1, rq1), tn1 \subseteq tn2,
         Has(oa2, u, provider) <=> Has(oa1, u, provider),
         [user |-> u, provider |-> provider] \in cn2 <=> [user |-> u, provider |-> provider] \in cn1,
         \A q \in Procs \ {p} : /\ rq2[q].pc = rq1[q].pc /\ rq2[q].user = rq1[q].user
                                /\ rq2[q].provider = rq1[q].provider,
         rq1[p].pc \in SecondWrite =>
           \/ rq1[p].user # u \/ rq1[p].provider # provider
           \/ [user |-> u, provider |-> provider] \in tn2
  PROVE  PairOK(u, provider, oa2, cn2, tn2, rq2)
BY DEF PairOK

\* An account that is not there has no links.
LEMMA NoLinks ==
  ASSUME LinksOK, NEW u, u \notin There, NEW provider
  PROVE  ~Has(oauth, u, provider) /\ [user |-> u, provider |-> provider] \notin connected
<1>1. \A l \in oauth \cup connected : l.user # u
  BY DEF LinksOK
<1> QED BY <1>1 DEF Has

\* Steps that write no link.
LEMMA QuietLinks ==
  ASSUME IInv, UNCHANGED links, RowsKept, UsersOK',
         \A q \in Procs : req[q].pc \in SecondWrite => req'[q] = req[q]
  PROVE  LinksOK' /\ PairsOK'
<1>1. /\ LinksOK /\ UsersOK /\ PairsOK /\ UNCHANGED <<oauth, connected, torn>>
      /\ There \subseteq There' /\ \A u \in There' : u \in UserIds /\ (u <= lastUser => u \in There)
  BY DEF IInv, RowsKept, There, links
<1>2. LinksOK'
  BY <1>1 DEF LinksOK
<1>3. ASSUME NEW u \in There', NEW provider \in Providers
      PROVE  PairOK(u, provider, oauth', connected', torn', req')
  <2>1. CASE u \in There
    <3>1. PairOK(u, provider, oauth, connected, torn, req)
      BY <1>1, <2>1 DEF PairsOK
    <3> QED BY <1>1, <3>1 DEF PairOK
  <2>2. CASE u \notin There
    BY <1>1, <2>2, NoLinks DEF PairOK
  <2> QED BY <2>1, <2>2
<1> QED BY <1>2, <1>3 DEF PairsOK

\* A step that moves one request and writes no link.
LEMMA Quiet ==
  ASSUME IInv, NEW p \in Procs, NEW r \in Request, Become(p, r), Counters, RowsKept,
         UsersOK', FlowsOK', UNCHANGED <<mix, links, deaths>>, req[p].pc \notin SecondWrite,
         FieldsOK(r, lastUser', lastFlow', spent'),
         r.pc \in UserLabels => LinkOK(r, users', oauth', torn')
  PROVE  IInv'
<1>1. UNCHANGED <<oauth, connected, torn>> /\ RequestsOK /\ UsersOK
  BY DEF links, IInv
<1>2. ASSUME NEW q \in Procs, req[q].pc \in UserLabels PROVE LinkOK(req[q], users', oauth', torn')
  <2>1. LinkOK(req[q], users, oauth, torn) /\ req[q].user \in UserIds /\ req[q].user <= lastUser
    BY <1>1, <1>2, UserFine DEF RequestsOK
  <2> QED BY <1>1, <2>1, LinkKept DEF RowsKept
<1>3. RequestsOK' /\ req'[p] = r /\ \A q \in Procs \ {p} : req'[q] = req[q]
  BY <1>1, <1>2, RequestStep
<1>4. LinksOK' /\ PairsOK'
  BY <1>3, QuietLinks
<1> QED BY <1>3, <1>4 DEF IInv

\* A step that writes neither table of accounts nor a state.
LEMMA Same ==
  ASSUME IInv, UNCHANGED <<rows, states>>
  PROVE  /\ Counters /\ RowsKept /\ UsersOK' /\ FlowsOK' /\ UsersOK /\ FlowsOK
         /\ There' = There /\ UNCHANGED <<users, lastUser, flows, lastFlow, spent>>
<1>1. UNCHANGED <<users, lastUser, flows, lastFlow, spent>> /\ UsersOK /\ FlowsOK
  BY DEF rows, states, IInv
<1>2. There' = There
  BY <1>1 DEF There
<1>3. Counters
  BY <1>1, Bounds DEF Counters, UsersOK, FlowsOK
<1> QED BY <1>1, <1>2, <1>3 DEF RowsKept, UsersOK, FlowsOK

\* A request that finishes.
LEMMA Finished ==
  ASSUME IInv, NEW p \in Procs, Finish(p), UNCHANGED <<mix, rows, states, links, deaths>>,
         req[p].pc \notin SecondWrite
  PROVE  IInv'
<1>1. Counters /\ RowsKept /\ UsersOK' /\ FlowsOK' /\ lastUser' \in Nat /\ lastFlow' \in Nat
  BY Same DEF Counters
<1>2. Become(p, Idle)
  BY DEF Finish
<1> QED BY <1>1, <1>2, IdleFine, Quiet

\* A request that goes to another label where it needs nothing it does not have.
LEMMA Moved ==
  ASSUME IInv, NEW p \in Procs, NEW l \in Labels, Goto(p, l),
         UNCHANGED <<mix, rows, states, links, deaths>>, req[p].pc \notin SecondWrite,
         l \notin {"getFlow", "insertConnected", "delConnected", "readCred", "delOauth"}, ~req[p].late,
         l = "delFlow" => req[p].flow >= 1,
         l \in IdLabels => req[p].pc \in IdLabels,
         l \in EmailLabels => req[p].pc \in EmailLabels,
         l \in NameLabels => req[p].pc \in NameLabels,
         l \in UserLabels => req[p].pc \in UserLabels,
         l \in UnlinkLabels => req[p].pc \in UnlinkLabels
  PROVE  IInv'
<1>1. Counters /\ RowsKept /\ UsersOK' /\ FlowsOK' /\ UNCHANGED <<lastUser, lastFlow, spent>>
  BY Same
<1>2. req[p] \in Request /\ FieldsOK(req[p], lastUser, lastFlow, spent)
  BY DEF IInv, RequestsOK
<1> DEFINE r == [req[p] EXCEPT !.pc = l]
<1>3. Become(p, r)
  BY DEF Goto
<1>4. /\ r \in Request /\ r.pc = l /\ r.flow = req[p].flow /\ r.id = req[p].id
      /\ r.provider = req[p].provider /\ r.email = req[p].email /\ r.name = req[p].name
      /\ r.user = req[p].user /\ ~r.late
  BY <1>2, GotoFine
<1> HIDE DEF r
<1>5. FieldsOK(r, lastUser', lastFlow', spent')
  BY <1>1, <1>2, <1>4 DEF FieldsOK
<1>6. LinkOK(r, users', oauth', torn')
  BY <1>4 DEF LinkOK
<1> QED BY <1>1, <1>3, <1>4, <1>5, <1>6, Quiet

-----------------------------------------------------------------------------
(* The OAuth flow up to the profile.                                       *)

\* The others know what they knew while only states change.
LEMMA StatesStep ==
  ASSUME IInv, UNCHANGED <<mix, rows, links, deaths, req>>, Counters, FlowsOK'
  PROVE  IInv'
<1>1. /\ UNCHANGED <<users, lastUser, oauth, connected, torn>> /\ There' = There
      /\ RequestsOK /\ UsersOK /\ LinksOK /\ PairsOK
  BY DEF rows, links, There, IInv
<1>2. RequestsOK'
  BY <1>1, FieldsKept DEF RequestsOK
<1> QED BY <1>1, <1>2 DEF IInv, UsersOK, LinksOK, PairsOK

LEMMA FlowSteps ==
  ASSUME IInv
  PROVE  /\ \A provider \in Providers : InitiateFlow(provider) => IInv'
         /\ \A f \in 1..MaxFlows : FlowExpires(f) => IInv'
<1>1. FlowsOK /\ UsersOK /\ mix \in Mixes /\ mix.flows \in 0..MaxFlows
  BY MixAssumption DEF IInv, Mix
<1>2. lastFlow \in Nat /\ lastFlow <= MaxFlows /\ lastUser \in Nat
  BY <1>1, Bounds DEF FlowsOK, UsersOK
<1>3. ASSUME NEW provider \in Providers, InitiateFlow(provider) PROVE IInv'
  <2>1. /\ lastFlow' = lastFlow + 1 /\ lastFlow < mix.flows /\ UNCHANGED <<mix, rows, spent, links, deaths, req>>
        /\ DOMAIN flows' = DOMAIN flows \cup {lastFlow + 1}
        /\ \A f \in DOMAIN flows' : flows'[f] = IF f = lastFlow + 1 THEN provider ELSE flows[f]
    BY <1>3 DEF InitiateFlow
  <2>2. Counters
    BY <1>2, <2>1 DEF Counters, rows
  <2>3. 1..lastFlow \subseteq 1..lastFlow' /\ lastFlow' \in 1..lastFlow' /\ lastFlow' \notin 1..lastFlow
        /\ lastFlow' \in 0..MaxFlows
    BY <1>1, <1>2, <2>1, Bounds
  <2>4. FlowsOK'
    BY <1>1, <2>1, <2>3 DEF FlowsOK
  <2> QED BY <2>1, <2>2, <2>4, StatesStep
<1>4. ASSUME NEW f \in 1..MaxFlows, FlowExpires(f) PROVE IInv'
  <2>1. /\ UNCHANGED <<mix, rows, lastFlow, spent, links, deaths, req>>
        /\ DOMAIN flows' = DOMAIN flows \ {f} /\ \A g \in DOMAIN flows' : flows'[g] = flows[g]
    BY <1>4 DEF FlowExpires
  <2>2. Counters
    BY <1>2, <2>1 DEF Counters, rows
  <2>3. FlowsOK'
    BY <1>1, <2>1 DEF FlowsOK
  <2> QED BY <2>1, <2>2, <2>3, StatesStep
<1> QED BY <1>3, <1>4

LEMMA CallbackStarts ==
  ASSUME IInv, NEW p \in Procs, NEW f \in 1..lastFlow, BeginCallback(p, f) PROVE IInv'
<1> DEFINE b == f \in spent
           r == [Idle EXCEPT !.pc = "getFlow", !.flow = f, !.late = b]
<1>1. /\ Become(p, r) /\ UNCHANGED <<mix, rows, states, links, deaths>> /\ At(p, "idle")
  BY DEF BeginCallback
<1>2. /\ Counters /\ RowsKept /\ UsersOK' /\ FlowsOK' /\ FlowsOK
      /\ UNCHANGED <<lastUser, lastFlow, spent>>
  BY <1>1, Same
<1>3. f \in 0..MaxFlows /\ f \in Nat /\ f >= 1 /\ f <= lastFlow /\ lastUser' \in Nat
  BY <1>2, Bounds DEF FlowsOK, Counters
<1>0. b \in BOOLEAN /\ (b => f \in spent)
  OBVIOUS
<1> HIDE DEF b
<1>4. /\ r \in Request /\ r.pc = "getFlow" /\ r.flow = f /\ r.user = 0
      /\ r.late <=> b
  BY <1>0, <1>3, IdleFine DEF Request, Labels
<1> HIDE DEF r
<1>5. FieldsOK(r, lastUser', lastFlow', spent') /\ r.pc \notin UserLabels
  BY <1>0, <1>2, <1>3, <1>4 DEF FieldsOK, IdLabels, EmailLabels, NameLabels, UserLabels, UnlinkLabels
<1>6. req[p].pc \notin SecondWrite
  BY <1>1 DEF At, SecondWrite
<1> QED BY <1>1, <1>2, <1>4, <1>5, <1>6, Quiet

LEMMA FlowRead == ASSUME IInv, NEW p \in Procs, GetFlow(p) PROVE IInv'
<1>1. /\ UNCHANGED <<mix, rows, states, links, deaths>> /\ At(p, "getFlow")
  BY DEF GetFlow
<1>2. req[p].pc \notin SecondWrite
  BY <1>1 DEF At, SecondWrite
<1>3. CASE Finish(p)
  BY <1>1, <1>2, <1>3, Finished
<1>4. CASE req[p].flow \in DOMAIN flows
  <2> DEFINE r == [req[p] EXCEPT !.pc = "delFlow", !.provider = flows[req[p].flow]]
  <2>1. Become(p, r)
    BY <1>4 DEF GetFlow
  <2>2. /\ Counters /\ RowsKept /\ UsersOK' /\ FlowsOK' /\ FlowsOK
        /\ UNCHANGED <<lastUser, lastFlow, spent>>
    BY <1>1, Same
  <2>3. req[p] \in Request /\ FieldsOK(req[p], lastUser, lastFlow, spent)
    BY DEF IInv, RequestsOK
  <2>4. flows[req[p].flow] \in Providers /\ req[p].flow \notin spent
    BY <1>4, <2>2 DEF FlowsOK
  <2>5. /\ r \in Request /\ r.pc = "delFlow" /\ r.flow = req[p].flow /\ r.user = req[p].user
        /\ r.late <=> req[p].late
    BY <2>3, <2>4 DEF Request, Labels
  <2> HIDE DEF r
  <2>6. ~req[p].late /\ req[p].flow >= 1
    BY <1>1, <2>3, <2>4 DEF FieldsOK, At
  <2>7. FieldsOK(r, lastUser', lastFlow', spent') /\ r.pc \notin UserLabels
    BY <2>2, <2>3, <2>5, <2>6 DEF FieldsOK, IdLabels, EmailLabels, NameLabels, UserLabels, UnlinkLabels
  <2> QED BY <1>1, <1>2, <2>1, <2>2, <2>5, <2>7, Quiet
<1> QED BY <1>3, <1>4 DEF GetFlow

LEMMA FlowDeleted == ASSUME IInv, NEW p \in Procs, DelFlow(p) PROVE IInv'
<1> DEFINE r == [req[p] EXCEPT !.pc = "fetch"]
<1>1. /\ UNCHANGED <<mix, rows, lastFlow, links, deaths>> /\ At(p, "delFlow") /\ Become(p, r)
      /\ DOMAIN flows' = DOMAIN flows \ {req[p].flow} /\ \A g \in DOMAIN flows' : flows'[g] = flows[g]
      /\ spent' = spent \cup {req[p].flow}
  BY DEF DelFlow, Goto
<1>2. /\ req[p] \in Request /\ FieldsOK(req[p], lastUser, lastFlow, spent) /\ FlowsOK /\ UsersOK
      /\ lastFlow \in Nat /\ lastUser \in Nat
  BY Bounds DEF IInv, RequestsOK, FlowsOK, UsersOK
<1>3. req[p].flow \in 1..lastFlow /\ ~req[p].late
  BY <1>1, <1>2 DEF FieldsOK, At, Request
<1>4. FlowsOK'
  BY <1>1, <1>2, <1>3 DEF FlowsOK
<1>5. Counters /\ RowsKept /\ UsersOK'
  BY <1>1, <1>2 DEF Counters, RowsKept, rows, UsersOK, There
<1>6. /\ r \in Request /\ r.pc = "fetch" /\ r.flow = req[p].flow /\ r.user = req[p].user /\ ~r.late
  BY <1>2, <1>3 DEF Request, Labels
<1> HIDE DEF r
<1>7. FieldsOK(r, lastUser', lastFlow', spent') /\ r.pc \notin UserLabels
  BY <1>1, <1>2, <1>6 DEF FieldsOK, IdLabels, EmailLabels, NameLabels, UserLabels, UnlinkLabels, rows
<1>8. req[p].pc \notin SecondWrite
  BY <1>1 DEF At, SecondWrite
<1> QED BY <1>1, <1>4, <1>5, <1>6, <1>7, <1>8, Quiet

LEMMA ProfileFetched == ASSUME IInv, NEW p \in Procs, FetchProfile(p) PROVE IInv'
<1>1. /\ UNCHANGED <<mix, rows, states, links, deaths>> /\ At(p, "fetch")
  BY DEF FetchProfile
<1>2. req[p].pc \notin SecondWrite
  BY <1>1 DEF At, SecondWrite
<1>3. CASE Finish(p)
  BY <1>1, <1>2, <1>3, Finished
<1>4. ASSUME NEW i \in Identities, NEW a \in Discloses[i], NEW e \in Profile(i, a),
             i.provider = req[p].provider,
             Become(p, [req[p] EXCEPT !.pc = "findUser", !.id = i, !.email = e])
      PROVE  IInv'
  <2> DEFINE r == [req[p] EXCEPT !.pc = "findUser", !.id = i, !.email = e]
  <2>1. Counters /\ RowsKept /\ UsersOK' /\ FlowsOK' /\ UNCHANGED <<lastUser, lastFlow, spent>>
    BY <1>1, Same
  <2>2. req[p] \in Request /\ FieldsOK(req[p], lastUser, lastFlow, spent)
    BY DEF IInv, RequestsOK
  <2>3. a \in Person
    BY PersonAssumption
  <2>4. e \in Emails
    BY <2>3, ProfileEmails
  <2>5. ~req[p].late
    BY <1>1, <2>2 DEF FieldsOK, At
  <2>6. /\ r \in Request /\ r.pc = "findUser" /\ r.flow = req[p].flow /\ r.user = req[p].user
        /\ r.id = i /\ r.provider = req[p].provider /\ r.email = e /\ ~r.late
    BY <2>2, <2>4, <2>5 DEF Request, Labels
  <2> HIDE DEF r
  <2>7. FieldsOK(r, lastUser', lastFlow', spent') /\ r.pc \notin UserLabels
    BY <1>4, <2>1, <2>2, <2>4, <2>6 DEF FieldsOK, IdLabels, EmailLabels, NameLabels, UserLabels, UnlinkLabels
  <2>8. Become(p, r)
    BY <1>4 DEF r
  <2> QED BY <1>1, <1>2, <2>1, <2>6, <2>7, <2>8, Quiet
<1> QED BY <1>3, <1>4 DEF FetchProfile

-----------------------------------------------------------------------------
(* The rows of accounts.                                                   *)

\* A row is changed, not who it belongs to, and keeps its credentials.
LEMMA RowChanges ==
  ASSUME IInv, NEW u \in There, NEW row \in User, users' = [users EXCEPT ![u] = row],
         row.email = users[u].email, row.username = users[u].username,
         users[u].cred => row.cred, UNCHANGED <<lastUser, states>>
  PROVE  Counters /\ RowsKept /\ UsersOK' /\ FlowsOK'
<1>1. UsersOK /\ FlowsOK /\ UNCHANGED <<flows, lastFlow, spent>>
  BY DEF IInv, states
<1>2. row # NoRow
  BY NoEmailAssumption DEF User, NoRow
<1>3. u \in UserIds /\ users' \in [UserIds -> User \cup {NoRow}] /\ users[u] # NoRow
  BY <1>1 DEF UsersOK, There
<1>4. There' = There
  BY <1>1, <1>2, <1>3 DEF There, UsersOK
<1>5. UsersOK'
  BY <1>1, <1>3, <1>4 DEF UsersOK
<1>6. FlowsOK' /\ Counters /\ RowsKept
  BY <1>1, <1>2, <1>3, Bounds DEF FlowsOK, Counters, RowsKept, UsersOK
<1> QED BY <1>5, <1>6

\* A request that changes the row it works on and goes on, or finds it gone.
LEMMA UpdateStep ==
  ASSUME IInv, NEW p \in Procs, NEW row, NEW l \in Labels, Update(p, req[p].user, row, l),
         req[p].user \in There => /\ row \in User /\ row.email = users[req[p].user].email
                                  /\ row.username = users[req[p].user].username
                                  /\ users[req[p].user].cred => row.cred,
         req[p].pc \in UserLabels \ (SecondWrite \cup UnlinkLabels), ~req[p].late,
         l \in UserLabels \ (SecondWrite \cup UnlinkLabels),
         l \in IdLabels => req[p].pc \in IdLabels, l \notin EmailLabels
  PROVE  IInv'
<1>1. UNCHANGED <<mix, lastUser, states, links, deaths>> /\ req[p].pc \notin SecondWrite
  BY DEF Update
<1>2. CASE req[p].user \notin There
  <2>1. Finish(p) /\ UNCHANGED <<mix, rows, states, links, deaths>>
    BY <1>1, <1>2 DEF Update, rows
  <2> QED BY <1>1, <2>1, Finished
<1>3. CASE req[p].user \in There
  <2> DEFINE r == [req[p] EXCEPT !.pc = l]
  <2>1. users' = [users EXCEPT ![req[p].user] = row] /\ Become(p, r)
    BY <1>3 DEF Update, Goto
  <2>2. Counters /\ RowsKept /\ UsersOK' /\ FlowsOK'
    BY <1>1, <1>3, <2>1, RowChanges
  <2>3. req[p] \in Request /\ FieldsOK(req[p], lastUser, lastFlow, spent) /\ req[p].user >= 1
    BY DEF IInv, RequestsOK, FieldsOK
  <2>4. FieldsOK(req[p], lastUser', lastFlow', spent')
    BY <2>2, <2>3, FieldsKept
  <2>5. /\ r \in Request /\ r.pc = l /\ r.flow = req[p].flow /\ r.id = req[p].id
        /\ r.provider = req[p].provider /\ r.user = req[p].user /\ ~r.late
    BY <2>3, GotoFine
  <2> HIDE DEF r
  <2>6. FieldsOK(r, lastUser', lastFlow', spent')
    BY <2>3, <2>4, <2>5 DEF FieldsOK, UserLabels, EmailLabels, NameLabels
  <2>7. LinkOK(r, users', oauth', torn')
    BY <2>5 DEF LinkOK, SecondWrite, UnlinkLabels
  <2> QED BY <1>1, <2>1, <2>2, <2>5, <2>6, <2>7, Quiet
<1> QED BY <1>2, <1>3

\* createUser refuses an address or a name that is there, or inserts the next row.
LEMMA CreateStep ==
  ASSUME IInv, NEW p \in Procs, NEW e \in Emails, NEW name \in Usernames,
         NEW l \in {"activateNew", "createCred"}, CreateUser(p, e, name, l),
         req[p].pc \in {"createUser", "insertUser"}, l = "activateNew" => req[p].pc = "createUser"
  PROVE  IInv'
<1>1. /\ UNCHANGED <<mix, states, links, deaths>> /\ lastUser < MaxUsers /\ UsersOK /\ FlowsOK
      /\ UNCHANGED <<flows, lastFlow, spent>> /\ lastUser \in Nat /\ lastFlow \in Nat
  BY Bounds DEF CreateUser, IInv, states, UsersOK, FlowsOK
<1>2. req[p].pc \notin SecondWrite
  BY DEF SecondWrite
<1>3. CASE Finish(p) /\ UNCHANGED rows
  BY <1>1, <1>2, <1>3, Finished
<1>4. CASE /\ \A u \in There : users[u].email # e /\ users[u].username # name
           /\ lastUser' = lastUser + 1
           /\ users' = [users EXCEPT ![lastUser + 1] =
                          [email |-> e, username |-> name, status |-> "pending_verification",
                           deleted |-> FALSE, overdue |-> FALSE, cred |-> FALSE, role |-> FALSE]]
           /\ Become(p, [req[p] EXCEPT !.pc = l, !.user = lastUser + 1, !.name = NoEmail])
  <2> DEFINE row == [email |-> e, username |-> name, status |-> "pending_verification",
                     deleted |-> FALSE, overdue |-> FALSE, cred |-> FALSE, role |-> FALSE]
             n == lastUser + 1
             r == [req[p] EXCEPT !.pc = l, !.user = n, !.name = NoEmail]
  <2>1. row \in User /\ row # NoRow /\ row.email = e /\ row.username = name
    BY NoEmailAssumption DEF User, NoRow
  <2>2. n \in UserIds /\ n \notin There /\ n \in Nat /\ n >= 1 /\ n <= MaxUsers
    BY <1>1, Bounds DEF UsersOK
  <2>3. users' = [users EXCEPT ![n] = row] /\ lastUser' = n /\ Become(p, r)
    BY <1>4
  <2> HIDE DEF row
  <2>4. There' = There \cup {n} /\ users' \in [UserIds -> User \cup {NoRow}]
    BY <1>1, <2>1, <2>2, <2>3 DEF There, UsersOK
  <2>5. /\ \A u \in There : users'[u] = users[u] /\ users[u].email # e /\ users[u].username # name
        /\ users'[n] = row
    BY <1>1, <1>4, <2>2, <2>3 DEF UsersOK, There
  <2>6. \A u, v \in There' : u # v => /\ users'[u].email # users'[v].email
                                      /\ users'[u].username # users'[v].username
    BY <1>1, <2>1, <2>4, <2>5 DEF UsersOK
  <2>7. \A u \in There' : u <= lastUser'
    BY <1>1, <2>2, <2>3, <2>4, Bounds DEF UsersOK, There
  <2>8. UsersOK'
    BY <2>2, <2>3, <2>4, <2>6, <2>7, Bounds DEF UsersOK
  <2>9. FlowsOK' /\ Counters
    BY <1>1, <2>2, <2>3 DEF FlowsOK, Counters
  <2>10. RowsKept
    <3> SUFFICES ASSUME NEW u \in UserIds
                 PROVE  /\ users[u] # NoRow => users'[u] # NoRow /\ (users[u].cred => users'[u].cred)
                        /\ users'[u] # NoRow /\ u <= lastUser => users[u] # NoRow
      BY DEF RowsKept
    <3>1. CASE u = n
      BY <1>1, <2>2, <3>1 DEF There
    <3>2. CASE u # n
      BY <1>1, <2>3, <3>2 DEF UsersOK
    <3> QED BY <3>1, <3>2
  <2>11. req[p] \in Request /\ FieldsOK(req[p], lastUser, lastFlow, spent)
    BY DEF IInv, RequestsOK
  <2>12. /\ r \in Request /\ r.pc = l /\ r.flow = req[p].flow /\ r.id = req[p].id
         /\ r.provider = req[p].provider /\ r.user = n
         /\ r.late <=> req[p].late
    <3> DEFINE c == [req[p] EXCEPT !.user = n, !.name = NoEmail]
    <3>1. n \in 0..MaxUsers /\ l \in Labels
      BY <2>2, Bounds DEF Labels
    <3>2. c \in Request
      BY <2>11, <3>1 DEF Request
    <3>3. /\ c.flow = req[p].flow /\ c.id = req[p].id /\ c.provider = req[p].provider
          /\ c.user = n
          /\ c.late <=> req[p].late
      BY <2>11 DEF Request
    <3>4. r = [c EXCEPT !.pc = l]
      BY <2>11 DEF Request
    <3> HIDE DEF c, r
    <3> QED BY <3>1, <3>2, <3>3, <3>4, GotoFine
  <2> HIDE DEF r
  <2>13. FieldsOK(r, lastUser', lastFlow', spent')
    BY <1>1, <2>2, <2>3, <2>11, <2>12
       DEF FieldsOK, IdLabels, EmailLabels, NameLabels, UnlinkLabels
  <2>14. LinkOK(r, users', oauth', torn')
    BY <2>12 DEF LinkOK
  <2> QED BY <1>1, <1>2, <2>3, <2>8, <2>9, <2>10, <2>12, <2>13, <2>14, Quiet
<1> QED BY <1>3, <1>4 DEF CreateUser

\* deleteAccount, restoreAccount and the end of the grace period.
LEMMA ScheduleStep ==
  ASSUME IInv, NEW u \in There,
         NEW status \in {"pending_verification", "active", "pending_deletion"},
         NEW d \in BOOLEAN, NEW o \in BOOLEAN, Schedule(u, status, d, o)
  PROVE  IInv'
<1> DEFINE row == [users[u] EXCEPT !.status = status, !.deleted = d, !.overdue = o]
<1>1. /\ users[u] \in User /\ u \in UserIds /\ users \in [UserIds -> User \cup {NoRow}]
      /\ UNCHANGED <<mix, lastUser, states, links, deaths, req>>
  BY DEF IInv, UsersOK, There, Schedule
<1>2. users' = [users EXCEPT ![u] = row]
  <2>1. users' = [users EXCEPT ![u].status = status, ![u].deleted = d, ![u].overdue = o]
    BY DEF Schedule
  <2> QED BY <1>1, <2>1
<1>3. /\ row \in User /\ row.email = users[u].email /\ row.username = users[u].username
      /\ row.cred <=> users[u].cred
  BY <1>1 DEF User
<1> HIDE DEF row
<1>4. Counters /\ RowsKept /\ UsersOK' /\ FlowsOK'
  BY <1>1, <1>2, <1>3, RowChanges
<1>5. /\ UNCHANGED <<oauth, torn>> /\ RequestsOK
  BY <1>1 DEF links, IInv
<1>6. RequestsOK'
  <2>1. ASSUME NEW q \in Procs, req[q].pc \in UserLabels
        PROVE  LinkOK(req[q], users', oauth', torn')
    <3>1. LinkOK(req[q], users, oauth, torn) /\ req[q].user \in UserIds /\ req[q].user <= lastUser
      BY <1>5, <2>1, UserFine DEF RequestsOK
    <3> QED BY <1>4, <1>5, <3>1, LinkKept DEF RowsKept
  <2> QED BY <1>1, <1>4, <1>5, <2>1, FieldsKept DEF RequestsOK
<1>7. LinksOK' /\ PairsOK'
  BY <1>1, <1>4, QuietLinks
<1> QED BY <1>1, <1>4, <1>6, <1>7 DEF IInv

-----------------------------------------------------------------------------
(* The account of the profile, and registration.                           *)

LEMMA UserFound == ASSUME IInv, NEW p \in Procs, FindUser(p) PROVE IInv'
<1>1. /\ UNCHANGED <<mix, rows, states, links, deaths>> /\ At(p, "findUser")
  BY DEF FindUser
<1>2. req[p].pc = "findUser" /\ req[p].pc \notin SecondWrite
  BY <1>1 DEF At, SecondWrite
<1>3. /\ req[p] \in Request /\ FieldsOK(req[p], lastUser, lastFlow, spent) /\ ~req[p].late
  BY <1>2 DEF IInv, RequestsOK, FieldsOK
<1>4. CASE Goto(p, "createUser")
  BY <1>1, <1>2, <1>3, <1>4, Moved
     DEF Labels, SecondWrite, IdLabels, EmailLabels, NameLabels, UserLabels, UnlinkLabels
<1>5. CASE Finish(p)
  BY <1>1, <1>2, <1>5, Finished
<1>6. ASSUME NEW u \in OfEmail(req[p].email), NEW l \in {"purgeCred", "activate", "findLink"},
             Become(p, [req[p] EXCEPT !.pc = l, !.user = u])
      PROVE  IInv'
  <2> DEFINE r == [req[p] EXCEPT !.pc = l, !.user = u]
  <2>1. /\ Counters /\ RowsKept /\ UsersOK' /\ FlowsOK' /\ UNCHANGED <<lastUser, lastFlow, spent>>
        /\ UsersOK
    BY <1>1, Same
  <2>2. u \in UserIds /\ u <= lastUser /\ u \in 0..MaxUsers /\ u >= 1
    BY <2>1, Bounds DEF OfEmail, There, UsersOK
  <2>3. /\ r \in Request /\ r.pc = l /\ r.flow = req[p].flow /\ r.user = u
        /\ r.id = req[p].id /\ r.provider = req[p].provider /\ ~r.late
    BY <1>3, <2>2 DEF Request, Labels
  <2>4. Become(p, r)
    BY <1>6
  <2> HIDE DEF r
  <2>5. FieldsOK(r, lastUser', lastFlow', spent')
    BY <1>2, <1>3, <2>1, <2>2, <2>3 DEF FieldsOK, IdLabels, EmailLabels, NameLabels, UnlinkLabels
  <2>6. LinkOK(r, users', oauth', torn')
    BY <2>3 DEF LinkOK
  <2> QED BY <1>1, <1>2, <2>1, <2>3, <2>4, <2>5, <2>6, Quiet
<1>7. ASSUME NEW u \in OfEmail(req[p].email)
      PROVE  LET next == CASE ~Visible(u) /\ users[u].overdue -> "purgeCred"
                           [] ~Visible(u) /\ ~users[u].overdue -> "idle"
                           [] Visible(u) /\ users[u].status = "pending_verification" -> "activate"
                           [] Visible(u) /\ users[u].status # "pending_verification" -> "findLink"
             IN  next \in {"purgeCred", "idle", "activate", "findLink"}
  OBVIOUS
<1> QED BY <1>4, <1>5, <1>6, <1>7 DEF FindUser, Finish

LEMMA AccountSteps ==
  ASSUME IInv, NEW p \in Procs,
         \/ CreateSsoUser(p) \/ ActivateNew(p) \/ AssignRole(p) \/ InsertUser(p)
         \/ CreateCredentials(p)
  PROVE  IInv'
<1>1. /\ req[p] \in Request /\ FieldsOK(req[p], lastUser, lastFlow, spent)
      /\ req[p].pc # "getFlow" => ~req[p].late
  BY DEF IInv, RequestsOK, FieldsOK
<1> DEFINE u == req[p].user
<1>2. u \in There => users[u] \in User
  BY DEF There, IInv, UsersOK
<1>3. CASE CreateSsoUser(p)
  <2>1. req[p].pc = "createUser" /\ CreateUser(p, req[p].email, Prefix[req[p].id], "activateNew")
    BY <1>3 DEF CreateSsoUser, At
  <2>2. req[p].email \in Emails /\ Prefix[req[p].id] \in Usernames
    BY <1>1, <2>1 DEF FieldsOK, EmailLabels, IdLabels, Usernames
  <2> QED BY <2>1, <2>2, CreateStep
<1>4. CASE InsertUser(p)
  <2>1. req[p].pc = "insertUser" /\ CreateUser(p, req[p].email, req[p].name, "createCred")
    BY <1>4 DEF InsertUser, At
  <2>2. req[p].email \in Emails /\ req[p].name \in Usernames
    BY <1>1, <2>1 DEF FieldsOK, EmailLabels, NameLabels
  <2> QED BY <2>1, <2>2, CreateStep
<1>5. CASE ActivateNew(p)
  <2> DEFINE row == [users[u] EXCEPT !.status = "active"]
  <2>1. req[p].pc = "activateNew" /\ Update(p, u, row, "assignRole")
    BY <1>5 DEF ActivateNew, At
  <2>2. u \in There => /\ row \in User /\ row.email = users[u].email
                       /\ row.username = users[u].username /\ (users[u].cred => row.cred)
    BY <1>2 DEF User
  <2> HIDE DEF row
  <2> QED BY <1>1, <2>1, <2>2, UpdateStep
       DEF Labels, SecondWrite, IdLabels, EmailLabels, NameLabels, UserLabels, UnlinkLabels
<1>6. CASE AssignRole(p)
  <2> DEFINE row == [users[u] EXCEPT !.role = TRUE]
  <2>1. req[p].pc = "assignRole" /\ Update(p, u, row, "findLink")
    BY <1>6 DEF AssignRole, At
  <2>2. u \in There => /\ row \in User /\ row.email = users[u].email
                       /\ row.username = users[u].username /\ (users[u].cred => row.cred)
    BY <1>2 DEF User
  <2> HIDE DEF row
  <2> QED BY <1>1, <2>1, <2>2, UpdateStep
       DEF Labels, SecondWrite, IdLabels, EmailLabels, NameLabels, UserLabels, UnlinkLabels
<1>7. CASE CreateCredentials(p)
  <2> DEFINE row == [users[u] EXCEPT !.cred = TRUE]
  <2>1. req[p].pc = "createCred" /\ Update(p, u, row, "registerRole")
    BY <1>7 DEF CreateCredentials, At
  <2>2. u \in There => /\ row \in User /\ row.email = users[u].email
                       /\ row.username = users[u].username /\ (users[u].cred => row.cred)
    BY <1>2 DEF User
  <2> HIDE DEF row
  <2> QED BY <1>1, <2>1, <2>2, UpdateStep
       DEF Labels, SecondWrite, IdLabels, EmailLabels, NameLabels, UserLabels, UnlinkLabels
<1> QED BY <1>3, <1>4, <1>5, <1>6, <1>7

\* The two statements that do not notice that the account is gone.
LEMMA UnnoticedSteps == ASSUME IInv, NEW p \in Procs, Activate(p) \/ RegisterRole(p) PROVE IInv'
<1> DEFINE u == req[p].user
           l == IF req[p].pc = "activate" THEN "findLink" ELSE "idle"
<1>1. /\ req[p] \in Request /\ FieldsOK(req[p], lastUser, lastFlow, spent) /\ ~req[p].late
      /\ req[p].pc \in {"activate", "registerRole"} /\ req[p].pc \notin SecondWrite
      /\ UNCHANGED <<mix, lastUser, states, links, deaths>>
  BY DEF IInv, RequestsOK, FieldsOK, Activate, RegisterRole, At, SecondWrite
<1>2. PICK r \in Request :
        /\ Become(p, r)
        /\ \/ r = Idle
           \/ /\ req[p].pc = "activate" /\ r.pc = "findLink" /\ r.user = u /\ r.flow = req[p].flow
              /\ r.id = req[p].id /\ r.provider = req[p].provider /\ ~r.late
  <2>1. CASE Activate(p)
    <3> DEFINE r == [req[p] EXCEPT !.pc = "findLink"]
    <3>1. Become(p, r)
      BY <2>1 DEF Activate, Goto
    <3>2. "findLink" \in Labels /\ req[p].pc = "activate"
      BY <2>1 DEF Labels, Activate, At
    <3>3. /\ r \in Request /\ r.pc = "findLink" /\ r.user = u /\ r.flow = req[p].flow
          /\ r.id = req[p].id /\ r.provider = req[p].provider /\ ~r.late
      BY <1>1, <3>2, GotoFine
    <3> HIDE DEF r
    <3> QED BY <3>1, <3>2, <3>3
  <2>2. CASE RegisterRole(p)
    BY <2>2, IdleFine DEF RegisterRole, Finish
  <2> QED BY <2>1, <2>2
<1>3. Counters /\ RowsKept /\ UsersOK' /\ FlowsOK'
  <2>1. CASE UNCHANGED users
    BY <1>1, <2>1, Same DEF rows
  <2>2. CASE u \in There
    <3>1. PICK row \in User : /\ users' = [users EXCEPT ![u] = row] /\ row.email = users[u].email
                              /\ row.username = users[u].username /\ (users[u].cred => row.cred)
      <4>1. users[u] \in User
        BY <2>2 DEF There, IInv, UsersOK
      <4>2. CASE Activate(p)
        <5> DEFINE row == [users[u] EXCEPT !.status = "active"]
        <5>1. users' = [users EXCEPT ![u] = row]
          BY <2>2, <4>2 DEF Activate
        <5>2. row \in User /\ row.email = users[u].email /\ row.username = users[u].username
              /\ (users[u].cred => row.cred)
          BY <4>1 DEF User
        <5> HIDE DEF row
        <5> QED BY <5>1, <5>2
      <4>3. CASE RegisterRole(p)
        <5> DEFINE row == [users[u] EXCEPT !.role = TRUE]
        <5>1. users' = [users EXCEPT ![u] = row]
          BY <2>2, <4>3 DEF RegisterRole
        <5>2. row \in User /\ row.email = users[u].email /\ row.username = users[u].username
              /\ (users[u].cred => row.cred)
          BY <4>1 DEF User
        <5> HIDE DEF row
        <5> QED BY <5>1, <5>2
      <4> QED BY <4>2, <4>3
    <3> QED BY <1>1, <2>2, <3>1, RowChanges
  <2> QED BY <2>1, <2>2 DEF Activate, RegisterRole
<1>4. FieldsOK(r, lastUser', lastFlow', spent') /\ (r.pc \in UserLabels => LinkOK(r, users', oauth', torn'))
  <2>1. CASE r = Idle
    BY <1>3, <2>1, IdleFine DEF Counters
  <2>2. CASE r # Idle
    <3>1. FieldsOK(req[p], lastUser', lastFlow', spent')
      BY <1>1, <1>3, FieldsKept
    <3> QED BY <1>1, <1>2, <2>2, <3>1
         DEF FieldsOK, LinkOK, IdLabels, EmailLabels, NameLabels, UserLabels, UnlinkLabels
  <2> QED BY <2>1, <2>2
<1> QED BY <1>1, <1>2, <1>3, <1>4, Quiet

\* The reads of a registration and of a link.
LEMMA RegisterReads ==
  ASSUME IInv, NEW p \in Procs, FindEmail(p) \/ FindName(p) \/ FindLink(p) \/ CreateSession(p)
  PROVE  IInv'
<1>1. /\ UNCHANGED <<mix, rows, states, links, deaths>>
      /\ req[p].pc \in {"findEmail", "findName", "findLink", "session"}
      /\ req[p].pc \notin SecondWrite /\ ~req[p].late
  BY DEF FindEmail, FindName, FindLink, CreateSession, At, IInv, RequestsOK, FieldsOK, SecondWrite
<1>2. CASE Finish(p)
  BY <1>1, <1>2, Finished
<1>3. CASE req[p].pc = "findEmail" /\ Goto(p, "findName")
  BY <1>1, <1>3, Moved
     DEF Labels, SecondWrite, IdLabels, EmailLabels, NameLabels, UserLabels, UnlinkLabels
<1>4. CASE req[p].pc = "findName" /\ Goto(p, "insertUser")
  BY <1>1, <1>4, Moved
     DEF Labels, SecondWrite, IdLabels, EmailLabels, NameLabels, UserLabels, UnlinkLabels
<1>5. CASE req[p].pc = "findLink" /\ \E l \in {"session", "insertOauth"} : Goto(p, l)
  BY <1>1, <1>5, Moved
     DEF Labels, SecondWrite, IdLabels, EmailLabels, NameLabels, UserLabels, UnlinkLabels
<1> QED BY <1>2, <1>3, <1>4, <1>5 DEF FindEmail, FindName, FindLink, CreateSession, At

-----------------------------------------------------------------------------
(* The starts of the other requests, and the counting of links.            *)

LEMMA OthersStart ==
  ASSUME IInv, NEW p \in Procs,
         \/ \E u \in There, provider \in Providers : BeginUnlink(p, u, provider)
         \/ \E e \in Emails, name \in Names : BeginRegister(p, e, name)
         \/ \E u \in There : BeginPurge(p, u)
  PROVE  IInv'
<1>1. /\ UNCHANGED <<mix, rows, states, links, deaths>> /\ req[p].pc \notin SecondWrite
  BY DEF BeginUnlink, BeginRegister, BeginPurge, At, SecondWrite
<1>2. /\ Counters /\ RowsKept /\ UsersOK' /\ FlowsOK' /\ UsersOK
      /\ UNCHANGED <<lastUser, lastFlow, spent>>
      /\ lastUser' \in Nat /\ lastFlow' \in Nat
  BY <1>1, Same DEF Counters
<1>3. ASSUME NEW u \in There, NEW provider \in Providers, BeginUnlink(p, u, provider)
      PROVE  IInv'
  <2> DEFINE r == [Idle EXCEPT !.pc = "readLinks", !.user = u, !.provider = provider]
  <2>1. Become(p, r)
    BY <1>3 DEF BeginUnlink
  <2>2. u \in UserIds /\ u \in 0..MaxUsers /\ u >= 1 /\ u <= lastUser
    BY <1>2, Bounds DEF UsersOK, There
  <2>3. /\ r \in Request /\ r.pc = "readLinks" /\ r.flow = 0 /\ r.user = u
        /\ r.provider = provider /\ ~r.late
    BY <2>2, IdleFine DEF Request, Labels
  <2> HIDE DEF r
  <2>4. FieldsOK(r, lastUser', lastFlow', spent')
    BY <1>2, <2>2, <2>3 DEF FieldsOK, IdLabels, EmailLabels, NameLabels
  <2>5. LinkOK(r, users', oauth', torn')
    BY <2>3 DEF LinkOK
  <2> QED BY <1>1, <1>2, <2>1, <2>3, <2>4, <2>5, Quiet
<1>4. ASSUME NEW e \in Emails, NEW name \in Names, BeginRegister(p, e, name)
      PROVE  IInv'
  <2> DEFINE r == [Idle EXCEPT !.pc = "findEmail", !.email = e, !.name = name]
  <2>1. Become(p, r)
    BY <1>4 DEF BeginRegister
  <2>2. name \in Usernames
    BY DEF Usernames
  <2>3. /\ r \in Request /\ r.pc = "findEmail" /\ r.flow = 0 /\ r.user = 0
        /\ r.email = e /\ r.name = name /\ ~r.late
    BY <2>2, IdleFine DEF Request, Labels
  <2> HIDE DEF r
  <2>4. FieldsOK(r, lastUser', lastFlow', spent') /\ r.pc \notin UserLabels
    BY <1>2, <2>2, <2>3 DEF FieldsOK, IdLabels, UserLabels, UnlinkLabels
  <2> QED BY <1>1, <1>2, <2>1, <2>3, <2>4, Quiet
<1>5. ASSUME NEW u \in There, BeginPurge(p, u)
      PROVE  IInv'
  <2> DEFINE r == [Idle EXCEPT !.pc = "purgeCred", !.user = u]
  <2>1. Become(p, r)
    BY <1>5 DEF BeginPurge
  <2>2. u \in 0..MaxUsers /\ u >= 1 /\ u <= lastUser
    BY <1>2, Bounds DEF UsersOK, There
  <2>3. r \in Request /\ r.pc = "purgeCred" /\ r.flow = 0 /\ r.user = u /\ ~r.late
    BY <2>2, IdleFine DEF Request, Labels
  <2> HIDE DEF r
  <2>4. FieldsOK(r, lastUser', lastFlow', spent')
    BY <1>2, <2>2, <2>3 DEF FieldsOK, IdLabels, EmailLabels, NameLabels, UnlinkLabels
  <2>5. LinkOK(r, users', oauth', torn')
    BY <2>3 DEF LinkOK
  <2> QED BY <1>1, <1>2, <2>1, <2>3, <2>4, <2>5, Quiet
<1> QED BY <1>3, <1>4, <1>5

\* The links are counted as they are.
LEMMA LinksCounted == ASSUME IInv, NEW p \in Procs, ReadLinks(p) PROVE IInv'
<1> DEFINE n == Cardinality(OauthOf(req[p].user))
           r == [req[p] EXCEPT !.pc = "readCred", !.links = n]
<1>1. /\ UNCHANGED <<mix, rows, states, links, deaths>> /\ req[p].pc = "readLinks"
      /\ req[p].pc \notin SecondWrite /\ Become(p, r) /\ UNCHANGED oauth
  BY DEF ReadLinks, At, SecondWrite, links
<1>2. /\ Counters /\ RowsKept /\ UsersOK' /\ FlowsOK' /\ UNCHANGED <<lastUser, lastFlow, spent>>
  BY <1>1, Same
<1>3. /\ req[p] \in Request /\ FieldsOK(req[p], lastUser, lastFlow, spent) /\ ~req[p].late
      /\ LinksOK
  BY <1>1 DEF IInv, RequestsOK, FieldsOK
<1>4. OauthOf(req[p].user) = Owned(oauth, req[p].user)
  BY DEF OauthOf, Owned
<1>5. n \in 0..Cardinality(Identities) /\ n = Cardinality(Owned(oauth, req[p].user))
  BY <1>3, <1>4, Bounds, OwnedFinite DEF LinksOK
<1> HIDE DEF n
<1>6. /\ r \in Request /\ r.pc = "readCred" /\ r.flow = req[p].flow /\ r.user = req[p].user
      /\ r.provider = req[p].provider /\ r.links = n /\ ~r.late
  BY <1>3, <1>5 DEF Request, Labels
<1> HIDE DEF r
<1>7. FieldsOK(r, lastUser', lastFlow', spent')
  BY <1>1, <1>2, <1>3, <1>6
     DEF FieldsOK, IdLabels, EmailLabels, NameLabels, UserLabels, UnlinkLabels
<1>8. n \in Nat
  BY <1>5, Bounds
<1>9. LinkOK(r, users', oauth', torn')
  BY <1>1, <1>5, <1>6, <1>8 DEF LinkOK
<1> QED BY <1>1, <1>2, <1>6, <1>7, <1>9, Quiet

\* Without a password, the unlinking goes on with two links or more.
LEMMA CredentialsRead == ASSUME IInv, NEW p \in Procs, ReadCred(p) PROVE IInv'
<1> DEFINE u == req[p].user
<1>1. /\ UNCHANGED <<mix, rows, states, links, deaths>> /\ req[p].pc = "readCred"
      /\ req[p].pc \notin SecondWrite /\ UNCHANGED <<users, oauth, torn>>
  BY DEF ReadCred, At, SecondWrite, links, rows
<1>2. CASE Finish(p)
  BY <1>1, <1>2, Finished
<1>3. CASE ~Refuses(u \in There /\ users[u].cred, req[p].links) /\ Goto(p, "delOauth")
  <2> DEFINE r == [req[p] EXCEPT !.pc = "delOauth"]
  <2>1. /\ Counters /\ RowsKept /\ UsersOK' /\ FlowsOK' /\ UNCHANGED <<lastUser, lastFlow, spent>>
    BY <1>1, Same
  <2>2. /\ req[p] \in Request /\ FieldsOK(req[p], lastUser, lastFlow, spent) /\ ~req[p].late
        /\ LinkOK(req[p], users, oauth, torn) /\ LinksOK /\ u \in UserIds
    BY <1>1, UserFine DEF IInv, RequestsOK, FieldsOK, UserLabels, UnlinkLabels
  <2>3. /\ r \in Request /\ r.pc = "delOauth" /\ r.flow = req[p].flow /\ r.user = u
        /\ r.provider = req[p].provider /\ ~r.late
        /\ r.crossed <=> req[p].crossed
    <3>1. "delOauth" \in Labels
      BY DEF Labels
    <3> QED BY <2>2, <3>1, GotoFine
  <2>4. Become(p, r)
    BY <1>3 DEF Goto
  <2> HIDE DEF r
  <2>5. FieldsOK(r, lastUser', lastFlow', spent')
    BY <1>1, <2>1, <2>2, <2>3
       DEF FieldsOK, IdLabels, EmailLabels, NameLabels, UserLabels, UnlinkLabels
  <2>6. ASSUME users[u] # NoRow, ~req[p].crossed, ~users[u].cred
        PROVE  Cardinality(Owned(oauth, u)) >= 2
    <3>1. req[p].links <= Cardinality(Owned(oauth, u))
      BY <1>1, <2>2, <2>6 DEF LinkOK
    <3>2. req[p].links \in Nat /\ req[p].links > 1
      BY <1>3, <2>2, <2>6, Bounds DEF Refuses, Request
    <3>3. Cardinality(Owned(oauth, u)) \in Nat
      BY <2>2, OwnedFinite DEF LinksOK
    <3> QED BY <3>1, <3>2, <3>3
  <2>7. LinkOK(r, users', oauth', torn')
    BY <1>1, <2>3, <2>6 DEF LinkOK
  <2> QED BY <1>1, <2>1, <2>3, <2>4, <2>5, <2>7, Quiet
<1> QED BY <1>2, <1>3 DEF ReadCred

-----------------------------------------------------------------------------
(* The writes to the two tables of links.                                  *)

\* The account of the last request is purged with its links.
LEMMA Purged == ASSUME IInv, NEW p \in Procs, Purge(p) PROVE IInv'
<1> DEFINE u == req[p].user
<1>1. /\ UNCHANGED <<mix, lastUser, states, torn, deaths>> /\ req[p].pc = "purge"
      /\ users' = [users EXCEPT ![u] = NoRow]
      /\ oauth' = {l \in oauth : l.user # u} /\ connected' = {c \in connected : c.user # u}
      /\ Become(p, Idle)
      /\ UNCHANGED <<flows, lastFlow, spent>>
  BY DEF Purge, At, Finish, states
<1>2. /\ RequestsOK /\ UsersOK /\ FlowsOK /\ LinksOK /\ PairsOK
      /\ mix \in Mixes /\ deaths \in 0..MaxDeaths
      /\ u \in UserIds /\ lastUser \in Nat /\ lastFlow \in Nat
  BY <1>1, UserFine, Bounds DEF IInv, FlowsOK, UserLabels
<1>3. /\ There' = There \ {u} /\ users' \in [UserIds -> User \cup {NoRow}]
      /\ \A v \in UserIds \ {u} : users'[v] = users[v]
      /\ users'[u] = NoRow
  BY <1>1, <1>2 DEF UsersOK, There
<1>4. UsersOK' /\ FlowsOK' /\ Counters
  BY <1>1, <1>2, <1>3 DEF UsersOK, FlowsOK, Counters, There
<1>5. ASSUME NEW q \in Procs, req[q].pc \in UserLabels PROVE LinkOK(req[q], users', oauth', torn')
  <2>1. LinkOK(req[q], users, oauth, torn) /\ req[q].user \in UserIds
    BY <1>2, <1>5, UserFine DEF RequestsOK
  <2>2. CASE req[q].user = u
    BY <1>3, <2>2 DEF LinkOK
  <2>3. CASE req[q].user # u
    <3>1. Owned(oauth', req[q].user) = Owned(oauth, req[q].user)
      BY <1>1, <2>3 DEF Owned
    <3>2. users'[req[q].user] = users[req[q].user]
      BY <1>3, <2>1, <2>3
    <3> QED BY <1>1, <2>1, <3>1, <3>2, LinkKept
  <2> QED BY <2>2, <2>3
<1>6. RequestsOK' /\ \A q \in Procs \ {p} : req'[q] = req[q]
  <2>1. lastUser' \in Nat /\ lastFlow' \in Nat
    BY <1>4 DEF Counters
  <2> QED BY <1>1, <1>2, <1>4, <1>5, <2>1, IdleFine, RequestStep
<1>7. LinksOK'
  BY <1>1, <1>2, <1>3 DEF LinksOK
<1>8. ASSUME NEW v \in There', NEW provider \in Providers
      PROVE  PairOK(v, provider, oauth', connected', torn', req')
  <2>1. v # u /\ PairOK(v, provider, oauth, connected, torn, req)
    BY <1>2, <1>3, <1>8 DEF PairsOK
  <2>2. Has(oauth', v, provider) <=> Has(oauth, v, provider)
    BY <1>1, <2>1 DEF Has
  <2>3. [user |-> v, provider |-> provider] \in connected'
          <=> [user |-> v, provider |-> provider] \in connected
    BY <1>1, <2>1
  <2>4. req[p].pc \notin SecondWrite
    BY <1>1 DEF SecondWrite
  <2> QED BY <1>1, <1>6, <2>1, <2>2, <2>3, <2>4, PairKept
<1> QED BY <1>1, <1>2, <1>4, <1>6, <1>7, <1>8 DEF IInv, PairsOK

\* One request is between its two writes: whatever it did to the links of its account
\* and provider, they need not agree now.
LEMMA PairsMoved ==
  ASSUME IInv, NEW p \in Procs, UNCHANGED <<users, connected>>, torn \subseteq torn',
         NEW u, NEW provider, req[p].pc \notin SecondWrite,
         req'[p].pc \in SecondWrite, req'[p].user = u, req'[p].provider = provider,
         \A q \in Procs \ {p} : /\ req'[q].pc = req[q].pc /\ req'[q].user = req[q].user
                                /\ req'[q].provider = req[q].provider,
         \A v, pr : v # u \/ pr # provider => (Has(oauth', v, pr) <=> Has(oauth, v, pr))
  PROVE  PairsOK'
<1>1. There' = There /\ PairsOK
  BY DEF There, IInv
<1>2. ASSUME NEW v \in There, NEW pr \in Providers
      PROVE  PairOK(v, pr, oauth', connected', torn', req')
  <2>1. CASE v = u /\ pr = provider
    BY <2>1 DEF PairOK
  <2>2. CASE v # u \/ pr # provider
    <3>1. PairOK(v, pr, oauth, connected, torn, req)
      BY <1>1 DEF PairsOK
    <3>2. Has(oauth', v, pr) <=> Has(oauth, v, pr)
      BY <2>2
    <3> QED BY <3>1, <3>2 DEF PairOK
  <2> QED BY <2>1, <2>2
<1> QED BY <1>1, <1>2 DEF PairsOK

\* What the other kind of request, between its two writes to the same link, finds.
LEMMA Crossed ==
  ASSUME NEW u, NEW provider, NEW l, NEW q \in Procs, req[q].pc = l, req[q].user = u,
         req[q].provider = provider
  PROVE  LinkOf(req[q]) \in Crossing(u, provider, l)
BY DEF Crossing, LinkOf, At

\* A link is added: nobody has fewer, and who just removed it is crossed.
LEMMA OauthInserted == ASSUME IInv, NEW p \in Procs, InsertOauth(p) PROVE IInv'
<1> DEFINE u == req[p].user
           i == req[p].id
           new == [user |-> u, id |-> i]
           r == [req[p] EXCEPT !.pc = "insertConnected"]
<1>1. /\ UNCHANGED <<mix, rows, states, connected, deaths>> /\ req[p].pc = "insertOauth"
      /\ req[p].pc \notin SecondWrite
  BY DEF InsertOauth, At, SecondWrite
<1>2. CASE Finish(p) /\ UNCHANGED <<oauth, torn>>
  BY <1>1, <1>2, Finished DEF links
<1>3. CASE /\ u \in There /\ ~\E l \in oauth : l.id = i
           /\ oauth' = oauth \cup {new}
           /\ torn' = torn \cup Crossing(u, i.provider, "delConnected")
           /\ Goto(p, "insertConnected")
  <2>1. /\ Counters /\ RowsKept /\ UsersOK' /\ FlowsOK' /\ There' = There
        /\ UNCHANGED <<users, lastUser, lastFlow, spent>>
    BY <1>1, Same
  <2>2. /\ req[p] \in Request /\ FieldsOK(req[p], lastUser, lastFlow, spent) /\ ~req[p].late
        /\ i \in Identities /\ req[p].provider = i.provider /\ u \in UserIds /\ u >= 1
        /\ RequestsOK /\ LinksOK /\ mix \in Mixes /\ deaths \in 0..MaxDeaths
    BY <1>1, UserFine DEF IInv, RequestsOK, FieldsOK, IdLabels, UserLabels
  <2>3. /\ r \in Request /\ r.pc = "insertConnected" /\ r.flow = req[p].flow /\ r.user = u
        /\ r.id = i /\ r.provider = i.provider /\ ~r.late
    <3>1. "insertConnected" \in Labels
      BY DEF Labels
    <3> QED BY <2>2, <3>1, GotoFine
  <2>4. Become(p, r)
    BY <1>3 DEF Goto
  <2> HIDE DEF r
  <2>5. LinksOK'
    <3>1. new \in OauthAccount /\ new.user \in There /\ new.id = i
      BY <1>3, <2>2 DEF OauthAccount
    <3> QED BY <1>1, <1>3, <2>1, <2>2, <3>1 DEF LinksOK
  <2>6. FieldsOK(r, lastUser', lastFlow', spent')
    BY <1>1, <2>1, <2>2, <2>3
       DEF FieldsOK, IdLabels, EmailLabels, NameLabels, UserLabels, UnlinkLabels
  <2>7. /\ Has(oauth', u, i.provider)
        /\ \A v, pr : v # u \/ pr # i.provider => (Has(oauth', v, pr) <=> Has(oauth, v, pr))
        /\ \A v, pr : Has(oauth, v, pr) => Has(oauth', v, pr)
    <3>1. new \in oauth' /\ new.user = u /\ new.id = i
          /\ \A l \in oauth' : l \in oauth \/ l = new
      BY <1>3
    <3>2. oauth \subseteq oauth'
      BY <1>3
    <3> HIDE DEF new
    <3> QED BY <3>1, <3>2 DEF Has
  <2>8. LinkOK(r, users', oauth', torn')
    BY <2>3, <2>7 DEF LinkOK
  <2>9. ASSUME NEW q \in Procs \ {p}, req[q].pc \in UserLabels
        PROVE  LinkOK(req[q], users', oauth', torn')
    <3>1. LinkOK(req[q], users, oauth, torn) /\ torn \subseteq torn' /\ UNCHANGED users
      BY <1>3, <2>1, <2>2, <2>9 DEF RequestsOK
    <3> DEFINE v == req[q].user
    <3>2. /\ Cardinality(Owned(oauth, v)) <= Cardinality(Owned(oauth', v))
          /\ Cardinality(Owned(oauth, v)) \in Nat /\ Cardinality(Owned(oauth', v)) \in Nat
      <4>1. /\ IsFiniteSet(Owned(oauth', v)) /\ Cardinality(Owned(oauth', v)) \in Nat
            /\ Cardinality(Owned(oauth, v)) \in Nat
        BY <2>2, <2>5, OwnedFinite DEF LinksOK
      <4>2. Owned(oauth, v) \subseteq Owned(oauth', v)
        BY <1>3 DEF Owned
      <4> QED BY <4>1, <4>2, FS_Subset
    <3>3. req[q].pc = "delConnected" /\ LinkOf(req[q]) \notin torn' =>
            (Has(oauth', v, req[q].provider) <=> Has(oauth, v, req[q].provider))
      BY <1>3, <2>7, Crossed
    <3>4. req[q].links \in Nat
      BY <2>2, Bounds DEF RequestsOK, Request
    <3> QED BY <2>7, <3>1, <3>2, <3>3, <3>4 DEF LinkOK
  <2>10. RequestsOK' /\ req'[p] = r /\ \A q \in Procs \ {p} : req'[q] = req[q]
    BY <2>1, <2>2, <2>3, <2>4, <2>6, <2>8, <2>9, RequestStep
  <2>11. PairsOK'
    <3>1. torn \subseteq torn' /\ r.pc \in SecondWrite /\ UNCHANGED connected
      BY <1>1, <1>3, <2>3 DEF SecondWrite
    <3> QED BY <1>1, <2>1, <2>3, <2>7, <2>10, <3>1, PairsMoved
  <2> QED BY <1>1, <2>1, <2>2, <2>5, <2>10, <2>11 DEF IInv
<1> QED BY <1>2, <1>3 DEF InsertOauth

\* A request makes its second write, or finds that it is not needed.
LEMMA SecondWritten ==
  ASSUME IInv, NEW p \in Procs, UNCHANGED <<mix, rows, states, oauth, torn, deaths>>,
         req[p].pc \in SecondWrite, LinksOK',
         NEW r \in Request, Become(p, r), r.pc \notin UserLabels,
         FieldsOK(r, lastUser', lastFlow', spent'),
         \A c : c # LinkOf(req[p]) => (c \in connected' <=> c \in connected),
         req[p].user \in There =>
           (LinkOf(req[p]) \in connected' <=> req[p].pc = "insertConnected")
  PROVE  IInv'
<1> DEFINE u == req[p].user
           provider == req[p].provider
<1>1. /\ Counters /\ RowsKept /\ UsersOK' /\ FlowsOK' /\ There' = There
      /\ UNCHANGED <<users, lastUser, flows, lastFlow, spent, oauth, torn>>
      /\ RequestsOK /\ PairsOK /\ mix \in Mixes /\ deaths \in 0..MaxDeaths
  BY Same DEF IInv
<1>2. LinkOK(req[p], users, oauth, torn)
  BY <1>1 DEF RequestsOK, SecondWrite, UserLabels, UnlinkLabels
<1>3. \A q \in Procs : req[q].pc \in UserLabels => LinkOK(req[q], users', oauth', torn')
  BY <1>1 DEF RequestsOK
<1>4. RequestsOK' /\ req'[p] = r /\ \A q \in Procs \ {p} : req'[q] = req[q]
  BY <1>1, <1>3, RequestStep
<1>5. ASSUME NEW v \in There, NEW pr \in Providers
      PROVE  PairOK(v, pr, oauth', connected', torn', req')
  <2>1. PairOK(v, pr, oauth, connected, torn, req)
    BY <1>1 DEF PairsOK
  <2>2. CASE v = u /\ pr = provider
    <3>1. LinkOf(req[p]) = [user |-> v, provider |-> pr] /\ users[u] # NoRow
      BY <2>2 DEF LinkOf, There
    <3>2. CASE req[p].pc = "insertConnected"
      BY <1>1, <1>2, <2>2, <3>1, <3>2 DEF LinkOK, PairOK
    <3>3. CASE req[p].pc = "delConnected"
      BY <1>1, <1>2, <2>2, <3>1, <3>3 DEF LinkOK, PairOK
    <3> QED BY <3>2, <3>3 DEF SecondWrite
  <2>3. CASE v # u \/ pr # provider
    <3>1. [user |-> v, provider |-> pr] # LinkOf(req[p])
      BY <2>3 DEF LinkOf
    <3> QED BY <1>1, <1>4, <2>1, <2>3, <3>1, PairKept
  <2> QED BY <2>2, <2>3
<1> QED BY <1>1, <1>4, <1>5 DEF IInv, PairsOK

LEMMA ConnectedInserted == ASSUME IInv, NEW p \in Procs, InsertConnected(p) PROVE IInv'
<1> DEFINE c == LinkOf(req[p])
           r == [req[p] EXCEPT !.pc = "session"]
<1>1. /\ UNCHANGED <<mix, rows, states, oauth, torn, deaths>> /\ req[p].pc = "insertConnected"
      /\ req[p].pc \in SecondWrite
  BY DEF InsertConnected, At, SecondWrite
<1>2. /\ req[p] \in Request /\ FieldsOK(req[p], lastUser, lastFlow, spent) /\ ~req[p].late
      /\ req[p].id \in Identities /\ req[p].provider = req[p].id.provider
      /\ req[p].user \in UserIds /\ LinksOK
  BY <1>1, UserFine DEF IInv, RequestsOK, FieldsOK, IdLabels, UserLabels
<1>3. /\ There' = There /\ UNCHANGED <<users, lastUser, lastFlow, spent>>
      /\ lastUser' \in Nat /\ lastFlow' \in Nat
  BY <1>1, Same DEF Counters
<1>4. c \in ConnectedAccount /\ c.user = req[p].user
  BY <1>2 DEF LinkOf, ConnectedAccount, Providers
<1>5. c = [user |-> req[p].user, provider |-> req[p].id.provider]
  BY <1>2 DEF LinkOf
<1> HIDE DEF c
<1>6. CASE req[p].user \in There /\ c \notin connected /\ connected' = connected \cup {c}
           /\ Goto(p, "session")
  <2>1. LinksOK'
    BY <1>1, <1>2, <1>3, <1>4, <1>6 DEF LinksOK
  <2>2. /\ r \in Request /\ r.pc = "session" /\ r.flow = req[p].flow /\ r.user = req[p].user
        /\ ~r.late
    <3>1. "session" \in Labels
      BY DEF Labels
    <3> QED BY <1>2, <3>1, GotoFine
  <2>3. Become(p, r)
    BY <1>6 DEF Goto
  <2> HIDE DEF r
  <2>4. FieldsOK(r, lastUser', lastFlow', spent') /\ r.pc \notin UserLabels
    BY <1>2, <1>3, <2>2 DEF FieldsOK, IdLabels, EmailLabels, NameLabels, UserLabels, UnlinkLabels
  <2> QED BY <1>1, <1>6, <2>1, <2>2, <2>3, <2>4, SecondWritten DEF c
<1>7. CASE ~(req[p].user \in There /\ c \notin connected) /\ UNCHANGED connected /\ Finish(p)
  <2>1. LinksOK' /\ Become(p, Idle)
    BY <1>1, <1>2, <1>3, <1>7 DEF LinksOK, Finish
  <2>2. req[p].user \in There => c \in connected'
    BY <1>7
  <2> QED BY <1>1, <1>3, <1>7, <2>1, <2>2, IdleFine, SecondWritten DEF c
<1> QED BY <1>5, <1>6, <1>7 DEF InsertConnected

LEMMA ConnectedDeleted == ASSUME IInv, NEW p \in Procs, DelConnected(p) PROVE IInv'
<1>1. /\ UNCHANGED <<mix, rows, states, oauth, torn, deaths>> /\ req[p].pc = "delConnected"
      /\ connected' = connected \ {LinkOf(req[p])} /\ Become(p, Idle)
      /\ req[p].pc \in SecondWrite
  BY DEF DelConnected, At, SecondWrite, LinkOf, Finish
<1>2. /\ There' = There /\ lastUser' \in Nat /\ lastFlow' \in Nat
  BY <1>1, Same DEF Counters
<1>3. LinksOK'
  BY <1>1, <1>2 DEF IInv, LinksOK
<1> QED BY <1>1, <1>2, <1>3, IdleFine, SecondWritten

\* Links are removed: the requests that counted them are crossed, the one that just
\* added one has a torn link.
LEMMA OauthDeleted == ASSUME IInv, NEW p \in Procs, DelOauth(p) PROVE IInv'
<1> DEFINE u == req[p].user
           provider == req[p].provider
           hit(q) == req[q].crossed \/ (req[q].pc \in {"readCred", "delOauth"} /\ req[q].user = u)
<1>1. /\ UNCHANGED <<mix, rows, states, connected, deaths>> /\ req[p].pc = "delOauth"
      /\ oauth' = oauth \ Removed(u, provider)
      /\ torn' = torn \cup Crossing(u, provider, "insertConnected")
      /\ req' = [q \in Procs |-> IF q = p THEN [req[p] EXCEPT !.pc = "delConnected", !.crossed = FALSE]
                                 ELSE [req[q] EXCEPT !.crossed = hit(q)]]
  BY DEF DelOauth, At
<1>2. /\ Counters /\ RowsKept /\ UsersOK' /\ FlowsOK' /\ There' = There
      /\ UNCHANGED <<users, lastUser, lastFlow, spent>>
      /\ RequestsOK /\ LinksOK /\ mix \in Mixes /\ deaths \in 0..MaxDeaths
  BY <1>1, Same DEF IInv
<1>3. LinksOK'
  BY <1>1, <1>2 DEF LinksOK
<1>4. /\ \A v, pr : v # u \/ pr # provider => (Has(oauth', v, pr) <=> Has(oauth, v, pr))
      /\ ~Has(oauth', u, provider)
      /\ \A v : v # u => Owned(oauth', v) = Owned(oauth, v)
  BY <1>1 DEF Has, Owned, Removed, OauthOf
<1>5. /\ req'[p] \in Request /\ FieldsOK(req'[p], lastUser', lastFlow', spent')
      /\ LinkOK(req'[p], users', oauth', torn')
      /\ req'[p].pc = "delConnected" /\ req'[p].user = u /\ req'[p].provider = provider
  <2> DEFINE r == [req[p] EXCEPT !.pc = "delConnected", !.crossed = FALSE]
  <2>1. req[p] \in Request /\ FieldsOK(req[p], lastUser, lastFlow, spent) /\ req'[p] = r
    BY <1>1, <1>2 DEF RequestsOK
  <2>2. /\ r \in Request /\ r.pc = "delConnected" /\ r.flow = req[p].flow /\ r.user = u
        /\ r.provider = provider
        /\ r.late <=> req[p].late
    BY <2>1 DEF Request, Labels
  <2> HIDE DEF r
  <2>3. FieldsOK(r, lastUser', lastFlow', spent')
    BY <1>1, <1>2, <2>1, <2>2
       DEF FieldsOK, IdLabels, EmailLabels, NameLabels, UserLabels, UnlinkLabels
  <2>4. LinkOK(r, users', oauth', torn')
    BY <1>4, <2>2 DEF LinkOK
  <2> QED BY <2>1, <2>2, <2>3, <2>4
<1>6. ASSUME NEW q \in Procs \ {p}
      PROVE  /\ req'[q] \in Request /\ FieldsOK(req'[q], lastUser', lastFlow', spent')
             /\ req'[q].pc \in UserLabels => LinkOK(req'[q], users', oauth', torn')
             /\ req'[q].pc = req[q].pc /\ req'[q].user = req[q].user
             /\ req'[q].provider = req[q].provider
  <2> DEFINE b == hit(q)
             c == req[q]
             r == [c EXCEPT !.crossed = b]
  <2>1. c \in Request /\ FieldsOK(c, lastUser, lastFlow, spent) /\ req'[q] = r
    BY <1>1, <1>2 DEF RequestsOK
  <2>2. /\ b \in BOOLEAN
        /\ c.crossed => b
        /\ c.pc \in {"readCred", "delOauth"} /\ c.user = u => b
    OBVIOUS
  <2> HIDE DEF b
  <2>3. /\ r \in Request /\ r.pc = c.pc /\ r.flow = c.flow /\ r.id = c.id
        /\ r.provider = c.provider /\ r.email = c.email /\ r.name = c.name
        /\ r.user = c.user /\ r.links = c.links
        /\ r.late <=> c.late
        /\ r.crossed <=> b
    BY <2>1, <2>2 DEF Request
  <2> HIDE DEF r
  <2>4. FieldsOK(r, lastUser', lastFlow', spent')
    BY <1>2, <2>1, <2>3 DEF FieldsOK
  <2>5. ASSUME c.pc \in UserLabels PROVE LinkOK(r, users', oauth', torn')
    <3>1. LinkOK(c, users, oauth, torn)
      BY <1>2, <2>5 DEF RequestsOK
    <3>2. /\ LinkOf(r) = LinkOf(c) /\ torn \subseteq torn'
      BY <1>1, <2>3 DEF LinkOf
    <3>3. CASE c.user # u
      BY <1>2, <1>4, <2>2, <2>3, <3>1, <3>2, <3>3 DEF LinkOK
    <3>4. CASE c.user = u
      <4>1. c.pc = "insertConnected" /\ c.provider = provider => LinkOf(c) \in torn'
        BY <1>1, <3>4, Crossed
      <4>2. Has(oauth', u, c.provider) => Has(oauth, u, c.provider)
        BY <1>4
      <4> QED BY <1>2, <1>4, <2>2, <2>3, <3>1, <3>2, <3>4, <4>1, <4>2 DEF LinkOK
    <3> QED BY <3>3, <3>4
  <2> QED BY <2>1, <2>3, <2>4, <2>5
<1>7. RequestsOK'
  BY <1>1, <1>5, <1>6 DEF RequestsOK
<1>8. PairsOK'
  <2>1. /\ req[p].pc \notin SecondWrite /\ req'[p].pc \in SecondWrite /\ torn \subseteq torn'
        /\ UNCHANGED connected
    BY <1>1, <1>5 DEF SecondWrite
  <2> QED BY <1>2, <1>4, <1>5, <1>6, <2>1, PairsMoved
<1> QED BY <1>1, <1>2, <1>3, <1>7, <1>8 DEF IInv

\* The credentials of the account of a purge go: the unlinkings that have looked at
\* them are crossed.
LEMMA CredPurged == ASSUME IInv, NEW p \in Procs, PurgeCred(p) PROVE IInv'
<1> DEFINE u == req[p].user
           had == u \in There /\ users[u].cred
           hit(q) == req[q].crossed \/ (had /\ req[q].pc = "delOauth" /\ req[q].user = u)
<1>1. /\ UNCHANGED <<mix, lastUser, states, links, deaths>> /\ req[p].pc = "purgeCred"
      /\ users' = IF had THEN [users EXCEPT ![u].cred = FALSE] ELSE users
      /\ req' = [q \in Procs |-> IF q = p THEN [req[p] EXCEPT !.pc = "purge"]
                                 ELSE [req[q] EXCEPT !.crossed = hit(q)]]
      /\ UNCHANGED <<flows, lastFlow, spent, oauth, connected, torn>>
  BY DEF PurgeCred, At, states, links
<1>2. /\ RequestsOK /\ UsersOK /\ FlowsOK /\ LinksOK /\ PairsOK
      /\ mix \in Mixes /\ deaths \in 0..MaxDeaths
      /\ u \in UserIds /\ lastUser \in Nat /\ lastFlow \in Nat
  BY <1>1, UserFine, Bounds DEF IInv, FlowsOK, UserLabels
<1>3. /\ There' = There /\ users' \in [UserIds -> User \cup {NoRow}]
      /\ \A v \in There : users'[v].email = users[v].email /\ users'[v].username = users[v].username
      /\ \A v \in UserIds : v # u \/ ~had => users'[v] = users[v]
      /\ \A v \in UserIds : users'[v] # NoRow => users[v] # NoRow
  <2>1. CASE ~had
    BY <1>1, <1>2, <2>1 DEF UsersOK, There
  <2>2. CASE had
    <3> DEFINE row == [users[u] EXCEPT !.cred = FALSE]
    <3>1. users' = [users EXCEPT ![u] = row] /\ users[u] \in User
      BY <1>1, <1>2, <2>2 DEF UsersOK, There
    <3>2. row \in User /\ row.email = users[u].email /\ row.username = users[u].username
      BY <3>1 DEF User
    <3>3. row # NoRow
      BY <3>2, NoEmailAssumption DEF User, NoRow
    <3> HIDE DEF row
    <3>4. \A v \in UserIds : users'[v] = IF v = u THEN row ELSE users[v]
      BY <1>2, <3>1 DEF UsersOK
    <3>5. There' = There
      BY <2>2, <3>3, <3>4 DEF There
    <3>6. users' \in [UserIds -> User \cup {NoRow}]
      BY <1>2, <3>1, <3>2 DEF UsersOK
    <3> QED BY <2>2, <3>2, <3>4, <3>5, <3>6 DEF There
  <2> QED BY <2>1, <2>2
<1>4. UsersOK' /\ FlowsOK' /\ Counters
  <2>1. UsersOK'
    BY <1>1, <1>2, <1>3 DEF UsersOK
  <2> QED BY <1>1, <1>2, <2>1 DEF FlowsOK, Counters
<1>5. LinksOK'
  BY <1>1, <1>2, <1>3 DEF LinksOK
<1>6. /\ req'[p] \in Request /\ FieldsOK(req'[p], lastUser', lastFlow', spent')
      /\ LinkOK(req'[p], users', oauth', torn')
      /\ req'[p].pc = "purge" /\ req'[p].user = u /\ req'[p].provider = req[p].provider
  <2> DEFINE r == [req[p] EXCEPT !.pc = "purge"]
  <2>1. req[p] \in Request /\ FieldsOK(req[p], lastUser, lastFlow, spent) /\ req'[p] = r
    BY <1>1, <1>2 DEF RequestsOK
  <2>2. "purge" \in Labels
    BY DEF Labels
  <2>3. /\ r \in Request /\ r.pc = "purge" /\ r.flow = req[p].flow /\ r.user = u
        /\ r.provider = req[p].provider
        /\ r.late <=> req[p].late
    BY <2>1, <2>2, GotoFine
  <2> HIDE DEF r
  <2>4. FieldsOK(r, lastUser', lastFlow', spent')
    BY <1>1, <2>1, <2>3
       DEF FieldsOK, IdLabels, EmailLabels, NameLabels, UserLabels, UnlinkLabels
  <2>5. LinkOK(r, users', oauth', torn')
    BY <2>3 DEF LinkOK
  <2> QED BY <2>1, <2>3, <2>4, <2>5
<1>7. ASSUME NEW q \in Procs \ {p}
      PROVE  /\ req'[q] \in Request /\ FieldsOK(req'[q], lastUser', lastFlow', spent')
             /\ req'[q].pc \in UserLabels => LinkOK(req'[q], users', oauth', torn')
             /\ req'[q].pc = req[q].pc /\ req'[q].user = req[q].user
             /\ req'[q].provider = req[q].provider
  <2> DEFINE b == hit(q)
             c == req[q]
             r == [c EXCEPT !.crossed = b]
  <2>1. c \in Request /\ FieldsOK(c, lastUser, lastFlow, spent) /\ req'[q] = r
    BY <1>1, <1>2 DEF RequestsOK
  <2>2. /\ b \in BOOLEAN
        /\ c.crossed => b
        /\ had /\ c.pc = "delOauth" /\ c.user = u => b
    OBVIOUS
  <2> HIDE DEF b
  <2>3. /\ r \in Request /\ r.pc = c.pc /\ r.flow = c.flow /\ r.id = c.id
        /\ r.provider = c.provider /\ r.email = c.email /\ r.name = c.name
        /\ r.user = c.user /\ r.links = c.links
        /\ r.late <=> c.late
        /\ r.crossed <=> b
    BY <2>1, <2>2 DEF Request
  <2> HIDE DEF r
  <2>4. FieldsOK(r, lastUser', lastFlow', spent')
    BY <1>1, <2>1, <2>3 DEF FieldsOK
  <2>5. ASSUME c.pc \in UserLabels PROVE LinkOK(r, users', oauth', torn')
    <3>1. LinkOK(c, users, oauth, torn) /\ c.user \in UserIds
      BY <1>2, <2>5, UserFine DEF RequestsOK
    <3>2. LinkOf(r) = LinkOf(c) /\ UNCHANGED <<oauth, torn>>
      BY <1>1, <2>3 DEF LinkOf
    <3>3. CASE c.user # u \/ ~had
      <4>1. users'[c.user] = users[c.user]
        BY <1>3, <3>1, <3>3
      <4> QED BY <2>2, <2>3, <3>1, <3>2, <4>1 DEF LinkOK
    <3>4. CASE c.user = u /\ had
      <4>1. users[c.user] # NoRow
        BY <3>4 DEF There
      <4> QED BY <2>2, <2>3, <3>1, <3>2, <3>4, <4>1 DEF LinkOK
    <3> QED BY <3>3, <3>4
  <2> QED BY <2>1, <2>3, <2>4, <2>5
<1>8. RequestsOK'
  BY <1>1, <1>6, <1>7 DEF RequestsOK
<1>9. ASSUME NEW v \in There', NEW pr \in Providers
      PROVE  PairOK(v, pr, oauth', connected', torn', req')
  <2>1. PairOK(v, pr, oauth, connected, torn, req)
    BY <1>2, <1>3 DEF PairsOK
  <2>2. req[p].pc \notin SecondWrite
    BY <1>1 DEF SecondWrite
  <2>3. /\ torn \subseteq torn' /\ connected' = connected
        /\ Has(oauth', v, pr) <=> Has(oauth, v, pr)
    BY <1>1
  <2>4. ASSUME NEW q \in Procs, req[q].pc \in SecondWrite
        PROVE  req'[q].pc = req[q].pc /\ req'[q].user = req[q].user
               /\ req'[q].provider = req[q].provider
    BY <1>7, <2>2, <2>4
  <2>5. ASSUME NEW q \in Procs, req'[q].pc \in SecondWrite
        PROVE  req'[q].pc = req[q].pc /\ req'[q].user = req[q].user
               /\ req'[q].provider = req[q].provider
    BY <1>6, <1>7, <2>5 DEF SecondWrite
  <2> QED BY <2>1, <2>3, <2>4, <2>5 DEF PairOK
<1> QED BY <1>1, <1>2, <1>4, <1>5, <1>8, <1>9 DEF IInv, PairsOK

\* A request dies; half of a link is left behind.
LEMMA Aborted == ASSUME IInv, NEW p \in Procs, Abort(p) PROVE IInv'
<1>1. /\ UNCHANGED <<mix, rows, states, oauth, connected>> /\ deaths < mix.deaths
      /\ deaths' = deaths + 1 /\ Become(p, Idle) /\ torn \subseteq torn'
      /\ req[p].pc \in SecondWrite => LinkOf(req[p]) \in torn'
  BY DEF Abort, Finish, LinkOf
<1>2. /\ Counters /\ RowsKept /\ UsersOK' /\ FlowsOK' /\ There' = There
      /\ UNCHANGED <<users, lastUser, lastFlow, spent>>
      /\ RequestsOK /\ LinksOK /\ PairsOK /\ mix \in Mixes
      /\ lastUser' \in Nat /\ lastFlow' \in Nat
  BY <1>1, Same DEF IInv, Counters
<1>3. deaths' \in 0..MaxDeaths
  <2>1. mix.deaths \in 0..MaxDeaths /\ deaths \in 0..MaxDeaths
    BY MixAssumption DEF IInv, Mix
  <2> QED BY <1>1, <2>1, Bounds
<1>4. ASSUME NEW q \in Procs, req[q].pc \in UserLabels PROVE LinkOK(req[q], users', oauth', torn')
  <2>1. LinkOK(req[q], users, oauth, torn)
    BY <1>2, <1>4 DEF RequestsOK
  <2> QED BY <1>1, <1>2, <2>1, LinkKept
<1>5. RequestsOK' /\ \A q \in Procs \ {p} : req'[q] = req[q]
  BY <1>1, <1>2, <1>4, IdleFine, RequestStep
<1>6. LinksOK'
  BY <1>1, <1>2 DEF LinksOK
<1>7. ASSUME NEW v \in There, NEW pr \in Providers
      PROVE  PairOK(v, pr, oauth', connected', torn', req')
  <2>1. PairOK(v, pr, oauth, connected, torn, req)
    BY <1>2 DEF PairsOK
  <2>2. Has(oauth', v, pr) <=> Has(oauth, v, pr)
    BY <1>1
  <2>3. req[p].pc \in SecondWrite =>
          \/ req[p].user # v \/ req[p].provider # pr
          \/ [user |-> v, provider |-> pr] \in torn'
    BY <1>1 DEF LinkOf
  <2> QED BY <1>1, <1>5, <2>1, <2>2, <2>3, PairKept
<1> QED BY <1>1, <1>2, <1>3, <1>5, <1>6, <1>7 DEF IInv, PairsOK

-----------------------------------------------------------------------------
(* The induction.                                                          *)

LEMMA InitIInv == Init => IInv
<1> SUFFICES ASSUME Init PROVE IInv
  OBVIOUS
<1>1. /\ mix \in Mixes /\ users = [u \in UserIds |-> NoRow] /\ lastUser = 0
      /\ flows = <<>> /\ lastFlow = 0 /\ spent = {} /\ oauth = {} /\ connected = {}
      /\ deaths = 0 /\ req = [p \in Procs |-> Idle]
  BY DEF Init
<1>2. deaths \in 0..MaxDeaths /\ lastUser \in 0..MaxUsers /\ lastFlow \in 0..MaxFlows
      /\ lastUser \in Nat /\ lastFlow \in Nat
  BY <1>1, Bounds
<1>3. There = {}
  BY <1>1 DEF There
<1>4. UsersOK
  BY <1>1, <1>2, <1>3 DEF UsersOK
<1>5. DOMAIN flows = {}
  BY <1>1
<1>6. FlowsOK
  BY <1>1, <1>2, <1>5 DEF FlowsOK
<1>7. LinksOK /\ PairsOK
  BY <1>1, <1>3 DEF LinksOK, PairsOK
<1>8. RequestsOK
  BY <1>1, <1>2, IdleFine DEF RequestsOK
<1> QED BY <1>1, <1>2, <1>4, <1>6, <1>7, <1>8 DEF IInv

LEMMA ContinueIInv == ASSUME IInv, NEW p \in Procs, Continue(p) PROVE IInv'
<1>1. CASE GetFlow(p) \/ DelFlow(p) \/ FetchProfile(p) \/ FindUser(p)
  BY <1>1, FlowRead, FlowDeleted, ProfileFetched, UserFound
<1>2. CASE \/ CreateSsoUser(p) \/ ActivateNew(p) \/ AssignRole(p) \/ InsertUser(p)
           \/ CreateCredentials(p)
  BY <1>2, AccountSteps
<1>3. CASE Activate(p) \/ RegisterRole(p)
  BY <1>3, UnnoticedSteps
<1>4. CASE FindEmail(p) \/ FindName(p) \/ FindLink(p) \/ CreateSession(p)
  BY <1>4, RegisterReads
<1>5. CASE ReadLinks(p) \/ ReadCred(p)
  BY <1>5, LinksCounted, CredentialsRead
<1>6. CASE \/ PurgeCred(p) \/ Purge(p) \/ InsertOauth(p) \/ InsertConnected(p) \/ DelOauth(p)
           \/ DelConnected(p)
  BY <1>6, CredPurged, Purged, OauthInserted, ConnectedInserted, OauthDeleted, ConnectedDeleted
<1> QED BY <1>1, <1>2, <1>3, <1>4, <1>5, <1>6 DEF Continue

LEMMA StepIInv == IInv /\ [Next]_vars => IInv'
<1> SUFFICES ASSUME IInv, [Next]_vars PROVE IInv'
  OBVIOUS
<1>1. CASE UNCHANGED vars
  <2>1. UNCHANGED <<mix, users, lastUser, flows, lastFlow, spent, oauth, connected, torn, deaths, req>>
    BY <1>1 DEF vars
  <2> QED BY <2>1 DEF IInv, RequestsOK, UsersOK, FlowsOK, LinksOK, PairsOK, There
<1>2. ASSUME NEW p \in Procs, Begin(p) \/ Continue(p) \/ Abort(p) PROVE IInv'
  BY <1>2, CallbackStarts, OthersStart, ContinueIInv, Aborted DEF Begin
<1>3. ASSUME NEW provider \in Providers, InitiateFlow(provider) PROVE IInv'
  BY <1>3, FlowSteps
<1>4. ASSUME NEW f \in 1..MaxFlows, FlowExpires(f) PROVE IInv'
  BY <1>4, FlowSteps
<1>5. ASSUME NEW u \in There, Delete(u) \/ Restore(u) \/ GraceEnds(u) PROVE IInv'
  <2>1. users[u].status \in {"pending_verification", "active", "pending_deletion"}
    BY DEF There, IInv, UsersOK, User
  <2> QED BY <1>5, <2>1, ScheduleStep DEF Delete, Restore, GraceEnds
<1> QED BY <1>1, <1>2, <1>3, <1>4, <1>5 DEF Next

LEMMA SpecIInv == Spec => []IInv
BY InitIInv, StepIInv, PTL DEF Spec

-----------------------------------------------------------------------------
(* The theorems.                                                           *)

\* Addresses, user names and identities stay unique and links belong to accounts that
\* are there (createUser, the foreign keys and hardDeleteUser).
THEOREM IdentityTypes == Spec => []TypeOK
<1>1. IInv => TypeOK
  BY DEF IInv, RequestsOK, UsersOK, FlowsOK, LinksOK, TypeOK
<1> QED BY <1>1, SpecIInv, PTL

\* A callback that arrives after its state was deleted ends at its first read
\* (handleCallback).
THEOREM StatesServeOnce == Spec => []StateServesOnce
<1>1. IInv => StateServesOnce
  BY DEF IInv, RequestsOK, FieldsOK, StateServesOnce
<1> QED BY <1>1, SpecIInv, PTL

\* oauth_accounts and connected_accounts agree, but for the links that a dead request
\* or a crossing left torn (handleCallback and unlinkProvider, any number at a time).
THEOREM LinkTablesAgree == Spec => []LinksAgree
<1>1. ASSUME IInv PROVE LinksAgree
  <2>1. \A u, provider : Removed(u, provider) # {} <=> Has(oauth, u, provider)
    BY DEF Removed, OauthOf, Has
  <2> QED BY <1>1, <2>1 DEF IInv, PairsOK, PairOK, LinksAgree
<1> QED BY <1>1, SpecIInv, PTL

\* An unlinking takes the last link of an account without a password only if the
\* provider had several, if another unlinking took links since they were counted or if a
\* purge took the password since it was looked at (unlinkProvider, hardDeleteUser).
THEOREM WayInLeft == Spec => UnlinkLeavesAWayIn
<1>1. ASSUME IInv, NEW p \in Procs, DelOauth(p), req[p].user \in There, ~users[req[p].user].cred,
             ~req[p].crossed, OauthOf(req[p].user)' = {}
      PROVE  Cardinality(Removed(req[p].user, req[p].provider)) > 1
  <2> DEFINE u == req[p].user
  <2>1. req[p].pc = "delOauth" /\ oauth' = oauth \ Removed(u, req[p].provider)
    BY <1>1 DEF DelOauth, At
  <2>2. LinkOK(req[p], users, oauth, torn) /\ LinksOK
    BY <1>1, <2>1 DEF IInv, RequestsOK, UserLabels, UnlinkLabels
  <2>3. Cardinality(Owned(oauth, u)) >= 2 /\ Cardinality(Owned(oauth, u)) \in Nat
    BY <1>1, <2>1, <2>2, OwnedFinite DEF LinkOK, There, LinksOK
  <2>4. \A l \in oauth' : l.user # req'[p].user
    BY <1>1 DEF OauthOf
  <2>5. req'[p].user = u
    BY <1>1 DEF DelOauth, IInv, RequestsOK, Request
  <2>6. Removed(u, req[p].provider) = Owned(oauth, u)
    BY <2>1, <2>4, <2>5 DEF Removed, OauthOf, Owned
  <2> QED BY <2>3, <2>6
<1>2. IInv => [\A p \in Procs :
                 LET u == req[p].user IN
                 DelOauth(p) /\ OauthOf(u) # {} /\ u \in There /\ ~users[u].cred =>
                   \/ OauthOf(u)' # {}
                   \/ req[p].crossed
                   \/ Cardinality(Removed(u, req[p].provider)) > 1]_vars
  BY <1>1
<1> QED BY <1>2, SpecIInv, PTL DEF UnlinkLeavesAWayIn
=============================================================================
