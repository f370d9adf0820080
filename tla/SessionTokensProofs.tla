------------------------ MODULE SessionTokensProofs ------------------------
(***************************************************************************)
(* Theorems about SessionTokens, for every set of users and requests, every *)
(* session limit, lifetime and bound.                                       *)
(***************************************************************************)
EXTENDS SessionTokens, FiniteSetTheorems, SequenceTheorems, TLAPS

-----------------------------------------------------------------------------
(* What the statements do to the tables and to the local state.            *)

\* A session row keeps its owner and its end; it is never reactivated.
SessionsKept ==
  \A s \in DOMAIN sessions :
    /\ s \in DOMAIN sessions'
    /\ sessions'[s].user = sessions[s].user
    /\ sessions'[s].exp = sessions[s].exp
    /\ sessions'[s].active => sessions[s].active

\* A token row keeps everything but its two flags, and they are never reset.
TokensKept ==
  \A t \in DOMAIN tokens :
    /\ t \in DOMAIN tokens'
    /\ tokens'[t].user = tokens[t].user
    /\ tokens'[t].sid = tokens[t].sid
    /\ tokens'[t].parent = tokens[t].parent
    /\ tokens'[t].exp = tokens[t].exp
    /\ tokens[t].used => tokens'[t].used
    /\ tokens[t].revoked => tokens'[t].revoked

SessionsTyped == DOMAIN sessions = 1..lastSid /\ sessions \in [DOMAIN sessions -> SessionRow]
TokensTyped == DOMAIN tokens \subseteq 1..lastHash /\ tokens \in [DOMAIN tokens -> TokenRow]
RequestsTyped == req \in [Procs -> Request]
AccountsTyped == present \subseteq Users \ gone /\ gone \subseteq Users

LEMMA AccountsStay ==
  ASSUME AccountsTyped, UNCHANGED accounts
  PROVE  AccountsTyped'
BY DEF AccountsTyped, accounts

\* A request that has ended is well typed.
LEMMA IdleType == Idle \in Request
BY DEF Idle, Request, Labels

\* Giving one request a new local state keeps all requests typed and leaves the
\* others as they are.
LEMMA BecomeType ==
  ASSUME RequestsTyped, NEW p \in Procs, NEW r \in Request, Become(p, r)
  PROVE  /\ RequestsTyped'
         /\ req'[p] = r
         /\ \A q \in Procs : q # p => req'[q] = req[q]
BY DEF Become, RequestsTyped

\* Moving one request to its next statement.
LEMMA GotoType ==
  ASSUME RequestsTyped, NEW p \in Procs, NEW l \in Labels, Goto(p, l)
  PROVE  /\ RequestsTyped'
         /\ req'[p] = [req[p] EXCEPT !.pc = l]
         /\ \A q \in Procs : q # p => req'[q] = req[q]
<1>1. [req[p] EXCEPT !.pc = l] \in Request
  BY DEF RequestsTyped, Request
<1> QED BY <1>1, BecomeType DEF Goto

\* Ending one request.
LEMMA FinishType ==
  ASSUME RequestsTyped, NEW p \in Procs, Finish(p)
  PROVE  /\ RequestsTyped'
         /\ req'[p] = Idle
         /\ \A q \in Procs : q # p => req'[q] = req[q]
BY IdleType, BecomeType DEF Finish

\* An UPDATE that revokes sessions keeps the table typed, turns no session back
\* to active and leaves the rows it does not match as they are.
LEMMA RevokeRows ==
  ASSUME SessionsTyped, NEW S, Revoke(S), UNCHANGED lastSid
  PROVE  /\ SessionsTyped'
         /\ SessionsKept
         /\ DOMAIN sessions' = DOMAIN sessions
         /\ \A s \in DOMAIN sessions : s \in S => ~sessions'[s].active
         /\ \A s \in DOMAIN sessions : s \notin S => sessions'[s] = sessions[s]
BY DEF SessionsTyped, SessionsKept, Revoke, SessionRow

\* An UPDATE that revokes tokens keeps the table typed and every row in it.
LEMMA RevokeTokensRows ==
  ASSUME TokensTyped, NEW T, RevokeTokens(T), UNCHANGED lastHash
  PROVE  TokensTyped' /\ TokensKept /\ DOMAIN tokens' = DOMAIN tokens
BY DEF TokensTyped, TokensKept, RevokeTokens, TokenRow

\* An INSERT of a fresh hash keeps the table typed and every other row.
LEMMA InsertTokenRows ==
  ASSUME TokensTyped, NEW h \in 1..lastHash, NEW row \in TokenRow,
         InsertTokenRow(h, row), UNCHANGED lastHash
  PROVE  /\ TokensTyped'
         /\ DOMAIN tokens' = DOMAIN tokens \cup {h}
         /\ tokens'[h] = row
         /\ h \notin DOMAIN tokens => TokensKept
BY DEF TokensTyped, TokensKept, InsertTokenRow

\* The count of a user's active sessions is a natural number.
LEMMA CountType ==
  ASSUME TypeOK, NEW u
  PROVE  Cardinality(ActiveOf(u)) \in Nat
<1>1. ActiveOf(u) \subseteq 1..lastSid
  BY DEF ActiveOf, TypeOK
<1>2. lastSid \in Int
  BY DEF TypeOK
<1>3. IsFiniteSet(1..lastSid)
  BY <1>2, FS_Interval
<1> QED BY <1>1, <1>3, FS_Subset, FS_CardinalityType

-----------------------------------------------------------------------------
(* The inductive invariant, and the part of it that speaks of one request. *)

IInv == TypeOK /\ Lineage /\ RequestInv
               /\ EndedMintsNothing /\ RevocationComplete

RefreshOK(p) == req[p].dead => req[p].pc \notin RotateLabels

RevokeOK(p) == At(p, "answerRevoke") =>
  \A s \in ActiveOf(req[p].user) : s > req[p].mark \/ s = req[p].sid

RequestOK(p) == Knows(p) /\ Fresh(p) /\ RefreshOK(p) /\ RevokeOK(p)

TablesGrow == /\ SessionsKept /\ TokensKept
              /\ lastSid <= lastSid' /\ lastHash <= lastHash'

\* What the invariant and the type invariant say, part by part.
LEMMA Parts ==
  /\ IInv <=> TypeOK /\ Lineage /\ \A p \in Procs : RequestOK(p)
  /\ TypeOK <=> /\ clock \in Nat /\ AccountsTyped
                /\ lastSid \in Nat /\ lastHash \in Nat
                /\ issued \subseteq 1..lastHash
                /\ SessionsTyped /\ TokensTyped /\ RequestsTyped
BY DEF IInv, RequestInv, EndedMintsNothing, RevocationComplete,
       RequestOK, RefreshOK, RevokeOK, TypeOK, AccountsTyped, SessionsTyped,
       TokensTyped, RequestsTyped

\* A request that has ended satisfies the invariant of requests.
LEMMA IdleOK ==
  ASSUME NEW p \in Procs, req'[p] = Idle
  PROVE  RequestOK(p)'
BY DEF RequestOK, Knows, Fresh, RefreshOK, RevokeOK, At, Idle, Pending,
       SignInLabels, RefreshLabels, RotateLabels, RevokeLabels

\* Rows that are kept keep their lineage.
LEMMA LineageKept ==
  ASSUME TypeOK, Lineage, SessionsKept, TokensKept, DOMAIN tokens' = DOMAIN tokens
  PROVE  Lineage'
BY DEF Lineage, SessionsKept, TokensKept, TypeOK, TokenRow

\* What another request does leaves intact what this one relies on: rows are
\* only added and kept, and a stored token was pending at the one who acted.
LEMMA OthersOK ==
  ASSUME IInv, TypeOK', TablesGrow,
         NEW p \in Procs, NEW q \in Procs, q # p,
         \A o \in Procs : o # p => req'[o] = req[o],
         Fresh(p)',
         \A h \in DOMAIN tokens' \ DOMAIN tokens :
            req[p].pc \in Pending /\ h = req[p].new
  PROVE  RequestOK(q)'
<1>1. RequestOK(q) /\ Fresh(p) /\ req[q] \in Request
  BY DEF IInv, TypeOK, RequestInv, EndedMintsNothing, RevocationComplete,
         RequestOK, RefreshOK, RevokeOK
<1>2. Knows(q)'
  <2> DEFINE r == req[q]
  <2>1. /\ Lineage /\ TypeOK /\ Knows(q) /\ req'[q] = r
        /\ r.new \in Nat /\ r.mark \in Nat
    BY <1>1 DEF IInv, RequestOK, Request
  <2>2. /\ r.pc \in SignInLabels => r.user \in Users
        /\ r.pc \in Pending \cup {"answerSignIn", "updateHash", "answerRefresh"} =>
             r.new \in 1..lastHash'
        /\ r.pc \in RevokeLabels => r.mark <= lastSid'
    BY <2>1 DEF Knows, TypeOK, TablesGrow
  <2>3. /\ r.pc \in {"evict", "insertToken", "logoutSession", "revokeOne"} =>
             /\ r.sid \in DOMAIN sessions'
             /\ r.user = sessions'[r.sid].user
        /\ r.pc = "insertToken" => r.exp = sessions'[r.sid].exp
    BY <2>1 DEF Knows, TablesGrow, SessionsKept
  <2>4. /\ r.pc \in RefreshLabels \ {"findToken"} =>
             /\ r.hash \in DOMAIN tokens'
             /\ r.sid = tokens'[r.hash].sid
             /\ r.user = tokens'[r.hash].user
             /\ r.exp = tokens'[r.hash].exp
        /\ r.pc \in RotateLabels => r.hash < r.new
        /\ r.pc \in RotateLabels \ {"markUsed"} => tokens'[r.hash].used
    <3>1. RotateLabels \subseteq RefreshLabels \ {"findToken"}
      BY DEF RotateLabels, RefreshLabels
    <3> QED BY <2>1, <3>1 DEF Knows, TablesGrow, TokensKept
  <2>5. r.dead => /\ r.pc \in RefreshLabels
                  /\ r.hash \in DOMAIN tokens'
                  /\ \/ tokens'[r.hash].used \/ tokens'[r.hash].revoked
                     \/ ~sessions'[tokens'[r.hash].sid].active
    BY <2>1 DEF Knows, Ended, TablesGrow, TokensKept, SessionsKept, Lineage
  <2>6. r.dead /\ r.pc \in {"findUser", "findSession"} =>
          ~sessions'[tokens'[r.hash].sid].active
    BY <2>1 DEF Knows, Ended, TablesGrow, TokensKept, SessionsKept, Lineage
  <2> HIDE DEF r
  <2> QED BY <2>1, <2>2, <2>3, <2>4, <2>5, <2>6 DEF Knows, Ended
<1>3. Fresh(q)'
  BY <1>1 DEF RequestOK, Fresh
<1>4. RefreshOK(q)'
  BY <1>1 DEF RequestOK, RefreshOK
<1>5. RevokeOK(q)'
  <2> SUFFICES ASSUME At(q, "answerRevoke"), NEW s \in ActiveOf(req[q].user)'
               PROVE  s > req[q].mark \/ s = req[q].sid
    BY DEF RevokeOK, At
  <2>1. CASE s \in DOMAIN sessions
    BY <1>1, <2>1 DEF RequestOK, RevokeOK, ActiveOf, TablesGrow, SessionsKept
  <2>2. CASE s \notin DOMAIN sessions
    BY <1>1, <2>2 DEF IInv, TypeOK, RequestOK, Knows, At, RevokeLabels, ActiveOf, Request
  <2> QED BY <2>1, <2>2
<1> QED BY <1>2, <1>3, <1>4, <1>5 DEF RequestOK

\* A step of request p re-establishes the invariant when p's own part holds.
LEMMA ActorSuffices ==
  ASSUME IInv, TypeOK', Lineage', TablesGrow,
         NEW p \in Procs, RequestOK(p)',
         \A q \in Procs : q # p => req'[q] = req[q],
         \A h \in DOMAIN tokens' \ DOMAIN tokens :
            req[p].pc \in Pending /\ h = req[p].new
  PROVE  IInv'
<1>1. ASSUME NEW q \in Procs, q # p PROVE RequestOK(q)'
  BY <1>1, OthersOK DEF RequestOK
<1> QED BY <1>1 DEF IInv, RequestInv, EndedMintsNothing, RevocationComplete,
                    RequestOK, RefreshOK, RevokeOK

\* Steps that leave both tables alone.
LEMMA QuietStep ==
  ASSUME IInv, NEW p \in Procs, NEW r \in Request, Become(p, r),
         UNCHANGED <<clock, sessions, tokens, lastSid>>,
         lastHash' \in Nat, lastHash <= lastHash',
         AccountsTyped', issued' \subseteq 1..lastHash',
         RequestOK(p)'
  PROVE  IInv' /\ TablesGrow
<1>1. TypeOK /\ Lineage /\ RequestsTyped
  BY Parts
<1>2. /\ RequestsTyped'
      /\ \A q \in Procs : q # p => req'[q] = req[q]
  BY <1>1, BecomeType
<1>3. TablesGrow
  BY <1>1 DEF TablesGrow, SessionsKept, TokensKept, TypeOK
<1>4. TypeOK'
  BY <1>1, <1>2 DEF TypeOK, AccountsTyped, RequestsTyped
<1>5. Lineage'
  BY <1>1, <1>3, LineageKept DEF TablesGrow
<1> QED BY <1>2, <1>3, <1>4, <1>5, ActorSuffices

\* What every step below uses of the request that takes it.
LEMMA Facts ==
  ASSUME IInv, NEW p \in Procs
  PROVE  /\ TypeOK /\ Lineage /\ RequestOK(p)
         /\ AccountsTyped /\ SessionsTyped /\ TokensTyped /\ RequestsTyped
         /\ req[p] \in Request
BY Parts DEF RequestsTyped

\* Requests that end without touching a table: rejections, answers, aborts.
LEMMA QuietFinish ==
  ASSUME IInv, NEW p \in Procs, Finish(p),
         UNCHANGED <<clock, accounts, sessions, tokens, lastSid, lastHash>>,
         issued' \subseteq 1..lastHash
  PROVE  IInv' /\ TablesGrow
<1>1. TypeOK /\ RequestsTyped /\ AccountsTyped'
  BY Facts, AccountsStay
<1>2. RequestOK(p)'
  BY <1>1, FinishType, IdleOK
<1> QED BY <1>1, <1>2, IdleType, QuietStep DEF Finish, TypeOK

\* A request that arrives knows only what its caller sent.
LEMMA BeginStep ==
  ASSUME IInv, NEW p \in Procs, Begin(p)
  PROVE  IInv' /\ TablesGrow
<1>0. /\ TypeOK /\ AccountsTyped /\ RequestsTyped /\ Lineage
      /\ \A h \in issued : h \in Nat
      /\ \A s \in DOMAIN sessions : s \in Nat /\ sessions[s].user \in Users
  BY Facts DEF TypeOK, SessionRow
<1>1. ASSUME NEW r \in Request, Become(p, r), r.pc # "idle",
             UNCHANGED <<clock, accounts, sessions, tokens, lastSid, lastHash, issued>>,
             r.pc \in {"count", "restoreUser", "purgeUser"} => r.user \in Users,
             r.pc \in {"count", "restoreUser", "purgeUser", "findToken", "logoutFind",
                       "revokeAll", "softDelete", "revokeOthers", "revokeOne"},
             r.pc = "revokeOne" => r.sid \in DOMAIN sessions /\ r.user = sessions[r.sid].user,
             r.mark <= lastSid,
             r.dead => /\ r.pc = "findToken"
                       /\ Ended(r.hash)
      PROVE  IInv' /\ TablesGrow
  <2>1. req'[p] = r
    BY <1>0, <1>1, BecomeType
  <2>2. Knows(p)'
    BY <1>1, <2>1 DEF Knows, Ended, SignInLabels, Pending, RefreshLabels, RotateLabels,
       RevokeLabels
  <2>3. Fresh(p)' /\ RefreshOK(p)' /\ RevokeOK(p)'
    BY <1>1, <2>1 DEF Fresh, RefreshOK, RevokeOK, At, Pending, RotateLabels
  <2>4. AccountsTyped'
    BY <1>0, <1>1, AccountsStay
  <2> QED BY <1>0, <1>1, <2>2, <2>3, <2>4, QuietStep DEF RequestOK, TypeOK
<1>2. ASSUME NEW u \in Users, BeginSignIn(p, u) PROVE IInv' /\ TablesGrow
  <2> DEFINE r == [Idle EXCEPT !.pc = "count", !.user = u, !.stores = TRUE]
  <2>1. /\ r \in Request /\ r.pc = "count" /\ r.user = u /\ r.mark = 0 /\ ~r.dead
    BY DEF Request, Labels, SignInLabels, Idle
  <2>2. Become(p, r)
    BY <1>2 DEF BeginSignIn
  <2> HIDE DEF r
  <2> QED BY <1>0, <1>1, <1>2, <2>1, <2>2 DEF BeginSignIn, TypeOK
<1>3. ASSUME NEW u \in Users, BeginRestore(p, u) PROVE IInv' /\ TablesGrow
  <2>0. PICK l \in {"restoreUser", "purgeUser"} : Become(p, [Idle EXCEPT !.pc = l, !.user = u])
    BY <1>3 DEF BeginRestore
  <2> DEFINE r == [Idle EXCEPT !.pc = l, !.user = u]
  <2>1. /\ r \in Request /\ r.pc = l /\ r.user = u /\ r.mark = 0 /\ ~r.dead
    BY DEF Request, Labels, SignInLabels, Idle
  <2>2. Become(p, r)
    BY <2>0
  <2> HIDE DEF r
  <2> QED BY <1>0, <1>1, <1>3, <2>1, <2>2 DEF BeginRestore, TypeOK
<1>4. ASSUME NEW u \in Users, NEW l \in {"revokeAll", "softDelete"}, BeginRevoking(p, u, l)
      PROVE  IInv' /\ TablesGrow
  <2> DEFINE r == [Idle EXCEPT !.pc = l, !.user = u, !.mark = lastSid]
  <2>1. /\ r \in Request /\ r.pc = l /\ r.mark = lastSid /\ ~r.dead
    BY <1>0 DEF Request, Labels, RevokeLabels, Idle, TypeOK
  <2>2. Become(p, r)
    BY <1>4 DEF BeginRevoking
  <2> HIDE DEF r
  <2> QED BY <1>0, <1>1, <1>4, <2>1, <2>2 DEF BeginRevoking, TypeOK
<1>5. ASSUME NEW u \in Users, NEW s \in DOMAIN sessions, BeginRevokeOne(p, u, s)
      PROVE  IInv' /\ TablesGrow
  <2> DEFINE r == [Idle EXCEPT !.pc = "revokeOne", !.user = u, !.sid = s]
  <2>1. /\ r \in Request /\ r.pc = "revokeOne" /\ r.user = u /\ r.sid = s
        /\ r.mark = 0 /\ ~r.dead
    BY <1>0 DEF Request, Labels, RevokeLabels, Idle
  <2>2. Become(p, r)
    BY <1>5 DEF BeginRevokeOne
  <2> HIDE DEF r
  <2> QED BY <1>0, <1>1, <1>5, <2>1, <2>2 DEF BeginRevokeOne, ActiveOf, TypeOK
<1>6. ASSUME NEW h \in issued, BeginRefresh(p, h) PROVE IInv' /\ TablesGrow
  <2> DEFINE d == Ended(h)
             r == [Idle EXCEPT !.pc = "findToken", !.hash = h, !.dead = d]
  <2>1. d \in BOOLEAN
    BY DEF Ended
  <2> HIDE DEF d
  <2>2. /\ r \in Request /\ r.pc = "findToken" /\ r.hash = h /\ r.mark = 0 /\ r.dead = d
    BY <1>0, <2>1 DEF Request, Labels, RefreshLabels, Idle
  <2>3. Become(p, r)
    BY <1>6 DEF BeginRefresh, d
  <2> HIDE DEF r
  <2>4. r.dead => Ended(h)
    BY <2>2 DEF d
  <2> QED BY <1>0, <1>1, <1>6, <2>2, <2>3, <2>4 DEF BeginRefresh, TypeOK
<1>7. ASSUME NEW h \in issued, BeginLogout(p, h) PROVE IInv' /\ TablesGrow
  <2> DEFINE r == [Idle EXCEPT !.pc = "logoutFind", !.hash = h]
  <2>1. /\ r \in Request /\ r.pc = "logoutFind" /\ r.mark = 0 /\ ~r.dead
    BY <1>0 DEF Request, Labels, LogoutLabels, Idle
  <2>2. Become(p, r)
    BY <1>7 DEF BeginLogout
  <2> HIDE DEF r
  <2> QED BY <1>0, <1>1, <1>7, <2>1, <2>2 DEF BeginLogout, TypeOK
<1>8. ASSUME NEW s \in DOMAIN sessions, BeginChangePassword(p, s) PROVE IInv' /\ TablesGrow
  <2> DEFINE r == [Idle EXCEPT !.pc = "revokeOthers", !.user = sessions[s].user,
                               !.sid = s, !.mark = lastSid]
  <2>1. /\ r \in Request /\ r.pc = "revokeOthers" /\ r.mark = lastSid /\ ~r.dead
    BY <1>0 DEF Request, Labels, RevokeLabels, Idle, TypeOK
  <2>2. Become(p, r)
    BY <1>8 DEF BeginChangePassword
  <2> HIDE DEF r
  <2> QED BY <1>0, <1>1, <1>8, <2>1, <2>2 DEF BeginChangePassword, TypeOK
<1> QED BY <1>2, <1>3, <1>4, <1>5, <1>6, <1>7, <1>8 DEF Begin, BeginLogoutAll, BeginDelete

-----------------------------------------------------------------------------
(* Steps that only read, or that change neither table.                     *)

\* Un-deleting the user touches no session and no token.
LEMMA RestoreUserStep ==
  ASSUME IInv, NEW p \in Procs, RestoreUser(p)
  PROVE  IInv' /\ TablesGrow
<1> DEFINE r == [req[p] EXCEPT !.pc = "count"]
<1>1. /\ TypeOK /\ AccountsTyped /\ RequestsTyped /\ RequestOK(p) /\ req[p] \in Request
      /\ At(p, "restoreUser")
  BY Facts DEF RestoreUser
<1>2. r \in Request /\ r.pc = "count" /\ r.user = req[p].user /\ r.dead = req[p].dead
  BY <1>1 DEF Request, Labels, SignInLabels
<1>3. Become(p, r)
  BY DEF RestoreUser, Goto
<1> HIDE DEF r
<1>4. req[p].user \in Users /\ ~req[p].dead
  BY <1>1 DEF RequestOK, Knows, At, SignInLabels, RefreshLabels, RotateLabels
<1>5. req'[p] = r
  BY <1>1, <1>2, <1>3, BecomeType
<1>6. RequestOK(p)'
  BY <1>2, <1>4, <1>5 DEF RequestOK, Knows, Fresh, RefreshOK, RevokeOK, At, Pending,
     SignInLabels, RefreshLabels, RotateLabels, RevokeLabels
<1>7. AccountsTyped'
  BY <1>1, <1>4 DEF RestoreUser, AccountsTyped
<1> QED BY <1>1, <1>2, <1>3, <1>6, <1>7, QuietStep DEF RestoreUser, TypeOK

\* The hash a request generates is above every hash that exists or is pending.
LEMMA NewHashFresh ==
  ASSUME IInv, NEW p \in Procs
  PROVE  /\ lastHash + 1 \notin DOMAIN tokens
         /\ \A q \in Procs : req[q].pc \in Pending => req[q].new # lastHash + 1
<1>1. TypeOK /\ \A q \in Procs : Knows(q)
  BY Parts DEF RequestOK
<1> QED BY <1>1 DEF TypeOK, Knows

\* Counting the sessions changes nothing but what the request knows.
LEMMA CountActiveStep ==
  ASSUME IInv, NEW p \in Procs, CountActive(p)
  PROVE  IInv' /\ TablesGrow
<1> DEFINE n == Cardinality(ActiveOf(req[p].user))
           l == IF n >= MaxActive THEN "findOldest" ELSE "insertSession"
           r == [req[p] EXCEPT !.pc = l, !.new = lastHash + 1, !.exp = clock + TTL,
                               !.seen = n, !.mark = lastSid]
<1>1. /\ TypeOK /\ AccountsTyped' /\ RequestsTyped /\ RequestOK(p) /\ req[p] \in Request
      /\ At(p, "count")
  BY Facts, AccountsStay DEF CountActive
<1>2. n \in Nat
  BY <1>1, CountType
<1>3. Become(p, r)
  BY DEF CountActive
<1>4. l \in {"findOldest", "insertSession"}
  OBVIOUS
<1> HIDE DEF n, l
<1>5. clock + TTL \in Nat /\ lastHash + 1 \in Nat /\ lastSid \in Nat /\ l \in Labels
  BY <1>1, <1>4, BoundsAssumption DEF TypeOK, Labels, SignInLabels
<1>6. /\ r \in Request /\ r.pc = l /\ r.user = req[p].user /\ r.dead = req[p].dead
      /\ r.new = lastHash + 1
  BY <1>1, <1>2, <1>5 DEF Request
<1> HIDE DEF r
<1>7. req[p].user \in Users /\ ~req[p].dead
  BY <1>1 DEF RequestOK, Knows, At, SignInLabels, RefreshLabels, RotateLabels
<1>8. /\ req'[p] = r
      /\ \A q \in Procs : q # p => req'[q] = req[q]
  BY <1>1, <1>6, <1>3, BecomeType
<1>9. Fresh(p)'
  BY <1>6, <1>8, NewHashFresh DEF Fresh, CountActive
<1>10. Knows(p)' /\ RefreshOK(p)' /\ RevokeOK(p)'
  BY <1>1, <1>4, <1>6, <1>7, <1>8 DEF Knows, RefreshOK, RevokeOK, At, Pending, TypeOK,
     SignInLabels, RefreshLabels, RotateLabels, RevokeLabels, CountActive
<1> QED BY <1>1, <1>3, <1>6, <1>9, <1>10, QuietStep DEF CountActive, TypeOK, RequestOK

\* Picking the session to evict changes nothing but what the request knows.
LEMMA FindOldestStep ==
  ASSUME IInv, NEW p \in Procs, FindOldest(p)
  PROVE  IInv' /\ TablesGrow
<1>1. /\ TypeOK /\ RequestsTyped /\ RequestOK(p) /\ req[p] \in Request /\ At(p, "findOldest")
      /\ req[p].user \in Users /\ ~req[p].dead
  BY Facts DEF FindOldest, RequestOK, Knows, At, SignInLabels, RefreshLabels, RotateLabels
<1>0. /\ UNCHANGED <<clock, accounts, sessions, tokens, lastSid, lastHash, issued>>
      /\ lastHash \in Nat /\ AccountsTyped' /\ issued \subseteq 1..lastHash
  BY <1>1, Facts, AccountsStay DEF FindOldest, TypeOK
<1>2. ASSUME NEW r \in Request, Become(p, r), r.new = req[p].new, r.user = req[p].user,
             ~r.dead, r.pc \in {"evict", "insertSession"},
             r.pc = "evict" => r.sid \in DOMAIN sessions /\ r.user = sessions[r.sid].user
      PROVE  IInv' /\ TablesGrow
  <2>1. /\ req'[p] = r
        /\ \A q \in Procs : q # p => req'[q] = req[q]
    BY <1>1, <1>2, BecomeType
  <2>2. RequestOK(p)'
    BY <1>1, <1>2, <2>1 DEF RequestOK, Knows, Fresh, RefreshOK, RevokeOK, At, Pending,
       SignInLabels, RefreshLabels, RotateLabels, RevokeLabels, FindOldest
  <2> QED BY <1>0, <1>1, <1>2, <2>2, QuietStep
<1>3. ASSUME NEW s \in OldestOf(req[p].user), Become(p, [req[p] EXCEPT !.pc = "evict", !.sid = s])
      PROVE  IInv' /\ TablesGrow
  <2> DEFINE r == [req[p] EXCEPT !.pc = "evict", !.sid = s]
  <2>1. s \in DOMAIN sessions /\ s \in Nat /\ sessions[s].user = req[p].user
    BY <1>1 DEF OldestOf, ActiveOf, TypeOK
  <2>2. /\ r \in Request /\ r.pc = "evict" /\ r.sid = s /\ r.user = req[p].user
        /\ r.new = req[p].new /\ r.dead = req[p].dead
    BY <1>1, <2>1 DEF Request, Labels, SignInLabels
  <2>3. Become(p, r)
    BY <1>3
  <2> HIDE DEF r
  <2> QED BY <1>1, <1>2, <2>1, <2>2, <2>3
<1>4. ASSUME Goto(p, "insertSession")
      PROVE  IInv' /\ TablesGrow
  <2> DEFINE r == [req[p] EXCEPT !.pc = "insertSession"]
  <2>1. /\ r \in Request /\ r.pc = "insertSession" /\ r.user = req[p].user
        /\ r.new = req[p].new /\ r.dead = req[p].dead
    BY <1>1 DEF Request, Labels, SignInLabels
  <2>2. Become(p, r)
    BY <1>4 DEF Goto
  <2> HIDE DEF r
  <2> QED BY <1>1, <1>2, <2>1, <2>2
<1> QED BY <1>3, <1>4 DEF FindOldest

\* Both answers hand out the token the request generated.
LEMMA AnswerStep ==
  ASSUME IInv, NEW p \in Procs, AnswerSignIn(p) \/ AnswerRefresh(p)
  PROVE  IInv' /\ TablesGrow
<1>1. TypeOK /\ req[p].new \in 1..lastHash
  BY Facts DEF RequestOK, Knows, AnswerSignIn, AnswerRefresh, At
<1> QED BY <1>1, QuietFinish DEF AnswerSignIn, AnswerRefresh, TypeOK

\* The token a refresh finds is a stored one, remembered as it was read.
LEMMA FindTokenStep ==
  ASSUME IInv, NEW p \in Procs, FindToken(p)
  PROVE  IInv' /\ TablesGrow
<1> DEFINE h == req[p].hash
           t == tokens[h]
           l == IF t.used \/ t.revoked THEN "replayRevoke"
                ELSE IF t.exp < clock THEN "expireRevoke" ELSE "findUser"
           r == [req[p] EXCEPT !.pc = l, !.sid = t.sid, !.user = t.user, !.exp = t.exp]
<1>1. /\ TypeOK /\ RequestsTyped /\ RequestOK(p) /\ req[p] \in Request /\ At(p, "findToken")
      /\ UNCHANGED <<clock, accounts, sessions, tokens, lastSid, lastHash, issued>>
      /\ issued \subseteq 1..lastHash /\ lastHash \in Nat /\ AccountsTyped'
  BY Facts, AccountsStay DEF FindToken, TypeOK
<1>2. CASE Finish(p)
  BY <1>1, <1>2, QuietFinish
<1>3. CASE h \in DOMAIN tokens /\ Become(p, r)
  <2>1. t \in TokenRow
    BY <1>1, <1>3 DEF TypeOK
  <2>2. l \in {"replayRevoke", "expireRevoke", "findUser"}
    OBVIOUS
  <2> HIDE DEF l
  <2>3. /\ r \in Request /\ r.pc = l /\ r.hash = h /\ r.sid = t.sid /\ r.user = t.user
        /\ r.exp = t.exp /\ r.dead = req[p].dead
    BY <1>1, <2>1, <2>2 DEF Request, TokenRow, Labels, RefreshLabels
  <2>4. Become(p, r)
    BY <1>3
  <2> HIDE DEF r
  <2>5. req'[p] = r
    BY <1>1, <2>3, <2>4, BecomeType
  <2>6. r.dead => \/ t.used \/ t.revoked
                  \/ ~sessions[t.sid].active
    BY <1>1, <2>3 DEF RequestOK, Knows, Ended
  <2>7. r.pc = "findUser" => ~t.used /\ ~t.revoked
    BY <2>3 DEF l
  <2>8. RequestOK(p)'
    BY <1>1, <1>3, <2>2, <2>3, <2>5, <2>6, <2>7
    DEF RequestOK, Knows, Ended, Fresh, RefreshOK, RevokeOK, At,
        Pending, SignInLabels, RefreshLabels, RotateLabels, RevokeLabels
  <2> QED BY <1>1, <2>3, <2>4, <2>8, QuietStep
<1> QED BY <1>2, <1>3 DEF FindToken, Stored

\* Checking that the user exists changes nothing but where the request is.
LEMMA FindUserStep ==
  ASSUME IInv, NEW p \in Procs, FindUser(p)
  PROVE  IInv' /\ TablesGrow
<1> DEFINE r == [req[p] EXCEPT !.pc = "findSession"]
<1>1. /\ TypeOK /\ RequestsTyped /\ RequestOK(p) /\ req[p] \in Request /\ At(p, "findUser")
      /\ UNCHANGED <<clock, accounts, sessions, tokens, lastSid, lastHash, issued>>
      /\ issued \subseteq 1..lastHash /\ lastHash \in Nat /\ AccountsTyped'
  BY Facts, AccountsStay DEF FindUser, TypeOK
<1>2. CASE Finish(p)
  BY <1>1, <1>2, QuietFinish
<1>3. CASE Goto(p, "findSession")
  <2>1. /\ r \in Request /\ r.pc = "findSession" /\ r.hash = req[p].hash
        /\ r.sid = req[p].sid /\ r.user = req[p].user
        /\ r.exp = req[p].exp /\ r.dead = req[p].dead
    BY <1>1 DEF Request, Labels, RefreshLabels
  <2>2. Become(p, r)
    BY <1>3 DEF Goto
  <2> HIDE DEF r
  <2>3. req'[p] = r
    BY <1>1, <2>1, <2>2, BecomeType
  <2>4. RequestOK(p)'
    BY <1>1, <2>1, <2>3 DEF RequestOK, Knows, Ended, Fresh, RefreshOK, RevokeOK, At,
       Pending, SignInLabels, RefreshLabels, RotateLabels, RevokeLabels
  <2> QED BY <1>1, <2>1, <2>2, <2>4, QuietStep
<1> QED BY <1>2, <1>3 DEF FindUser

\* The decisive read: a request whose token had ended when it began gets here
\* only if its session was revoked, and finds it inactive, because no step
\* reactivates a session.
LEMMA FindSessionStep ==
  ASSUME IInv, NEW p \in Procs, FindSession(p)
  PROVE  IInv' /\ TablesGrow
<1> DEFINE r == [req[p] EXCEPT !.pc = "markUsed", !.new = lastHash + 1]
<1>1. /\ TypeOK /\ RequestsTyped /\ RequestOK(p) /\ req[p] \in Request /\ At(p, "findSession")
      /\ UNCHANGED <<clock, accounts, sessions, tokens, lastSid, issued>>
      /\ issued \subseteq 1..lastHash /\ lastHash \in Nat /\ AccountsTyped'
  BY Facts, AccountsStay DEF FindSession, TypeOK
<1>2. CASE Finish(p) /\ UNCHANGED lastHash
  BY <1>1, <1>2, QuietFinish
<1>3. CASE SessionUsable(req[p].sid) /\ lastHash' = lastHash + 1 /\ Become(p, r)
  <2>1. /\ req[p].hash \in DOMAIN tokens /\ req[p].sid = tokens[req[p].hash].sid
        /\ req[p].user = tokens[req[p].hash].user
        /\ req[p].exp = tokens[req[p].hash].exp
        /\ req[p].hash <= lastHash
    BY <1>1 DEF RequestOK, Knows, At, RefreshLabels, TypeOK
  <2>2. ~req[p].dead
    BY <1>1, <1>3, <2>1 DEF RequestOK, Knows, At, SessionUsable
  <2>3. /\ r \in Request /\ r.pc = "markUsed" /\ r.hash = req[p].hash
        /\ r.sid = req[p].sid /\ r.user = req[p].user
        /\ r.exp = req[p].exp /\ r.dead = req[p].dead /\ r.new = lastHash + 1
    <3>1. "markUsed" \in Labels /\ lastHash + 1 \in Nat
      BY <1>1 DEF Labels, RefreshLabels, RotateLabels
    <3> QED BY <1>1, <3>1 DEF Request
  <2>4. Become(p, r)
    BY <1>3
  <2> HIDE DEF r
  <2>5. /\ req'[p] = r
        /\ \A q \in Procs : q # p => req'[q] = req[q]
    BY <1>1, <2>3, <2>4, BecomeType
  <2>6. Fresh(p)'
    BY <1>1, <2>3, <2>5, NewHashFresh DEF Fresh
  <2>7. r.new \in 1..lastHash' /\ r.hash < r.new
    BY <1>1, <1>3, <2>1, <2>3 DEF Request
  <2>8. Knows(p)'
    BY <1>1, <2>1, <2>2, <2>3, <2>5, <2>7 DEF Knows,
       Pending, SignInLabels, RefreshLabels, RotateLabels, RevokeLabels
  <2>9. RefreshOK(p)' /\ RevokeOK(p)'
    BY <2>2, <2>3, <2>5 DEF RefreshOK, RevokeOK, At
  <2> QED BY <1>1, <1>3, <2>3, <2>4, <2>6, <2>8, <2>9, QuietStep DEF RequestOK
<1> QED BY <1>2, <1>3 DEF FindSession

\* A logout that finds its token remembers the session of that token.
LEMMA LogoutFindStep ==
  ASSUME IInv, NEW p \in Procs, LogoutFind(p)
  PROVE  IInv' /\ TablesGrow
<1> DEFINE t == tokens[req[p].hash]
           r == [req[p] EXCEPT !.pc = "logoutSession", !.sid = t.sid, !.user = t.user]
<1>1. /\ TypeOK /\ Lineage /\ RequestsTyped /\ RequestOK(p) /\ req[p] \in Request
      /\ At(p, "logoutFind")
      /\ UNCHANGED <<clock, accounts, sessions, tokens, lastSid, lastHash, issued>>
      /\ issued \subseteq 1..lastHash /\ lastHash \in Nat /\ AccountsTyped'
  BY Facts, AccountsStay DEF LogoutFind, TypeOK
<1>2. CASE Finish(p)
  BY <1>1, <1>2, QuietFinish
<1>3. CASE req[p].hash \in DOMAIN tokens /\ Become(p, r)
  <2>1. /\ t \in TokenRow
        /\ t.sid \in DOMAIN sessions /\ t.user = sessions[t.sid].user
    BY <1>1, <1>3 DEF TypeOK, Lineage
  <2>2. /\ r \in Request /\ r.pc = "logoutSession" /\ r.sid = t.sid /\ r.user = t.user
        /\ r.dead = req[p].dead
    BY <1>1, <2>1 DEF Request, TokenRow, Labels, LogoutLabels
  <2>3. Become(p, r)
    BY <1>3
  <2>4. ~req[p].dead
    BY <1>1 DEF RequestOK, Knows, At, RefreshLabels, RotateLabels
  <2> HIDE DEF r, t
  <2>5. req'[p] = r
    BY <1>1, <2>2, <2>3, BecomeType
  <2>6. RequestOK(p)'
    BY <1>1, <2>1, <2>2, <2>4, <2>5 DEF RequestOK, Knows, Fresh, RefreshOK, RevokeOK, At,
       Pending, SignInLabels, RefreshLabels, RotateLabels, RevokeLabels
  <2> QED BY <1>1, <2>2, <2>3, <2>6, QuietStep
<1> QED BY <1>2, <1>3 DEF LogoutFind, Stored

\* Soft-deleting the user touches no session and no token.
LEMMA SoftDeleteStep ==
  ASSUME IInv, NEW p \in Procs, SoftDelete(p)
  PROVE  IInv' /\ TablesGrow
<1> DEFINE r == [req[p] EXCEPT !.pc = "revokeAll"]
<1>1. /\ TypeOK /\ RequestsTyped /\ RequestOK(p) /\ req[p] \in Request /\ At(p, "softDelete")
      /\ UNCHANGED <<clock, sessions, tokens, lastSid, lastHash, issued>>
      /\ issued \subseteq 1..lastHash /\ lastHash \in Nat /\ AccountsTyped'
  BY Facts DEF SoftDelete, TypeOK, AccountsTyped
<1>2. /\ r \in Request /\ r.pc = "revokeAll" /\ r.mark = req[p].mark /\ r.dead = req[p].dead
  BY <1>1 DEF Request, Labels, RevokeLabels
<1>3. Become(p, r)
  BY DEF SoftDelete, Goto
<1> HIDE DEF r
<1>4. req'[p] = r
  BY <1>1, <1>2, <1>3, BecomeType
<1>5. ~req[p].dead /\ req[p].mark <= lastSid
  BY <1>1 DEF RequestOK, Knows, At, RefreshLabels, RotateLabels, RevokeLabels
<1>6. RequestOK(p)'
  BY <1>1, <1>2, <1>4, <1>5 DEF RequestOK, Knows, Fresh, RefreshOK, RevokeOK, At,
     Pending, SignInLabels, RefreshLabels, RotateLabels, RevokeLabels
<1> QED BY <1>1, <1>2, <1>3, <1>6, QuietStep

\* Answers and aborts end a request and touch no table.
LEMMA EndStep ==
  ASSUME IInv, NEW p \in Procs, AnswerRevoke(p) \/ Abort(p) \/ \E l : Refused(p, l)
  PROVE  IInv' /\ TablesGrow
BY Facts, QuietFinish DEF AnswerRevoke, Abort, Refused, TypeOK

\* Time passing keeps every row, and keeps the tokens no longer than sessions.
LEMMA TickStep ==
  ASSUME IInv, Tick
  PROVE  IInv' /\ TablesGrow
<1>1. /\ TypeOK /\ Lineage /\ SessionsTyped /\ TokensTyped /\ RequestsTyped
      /\ \A p \in Procs : RequestOK(p)
  BY Parts
<1>2. TypeOK' /\ TablesGrow
  BY <1>1 DEF Tick, accounts, TypeOK, TablesGrow, SessionsKept, TokensKept
<1>3. Lineage'
  BY <1>1, <1>2, LineageKept DEF Tick, TablesGrow
<1>4. ASSUME NEW p \in Procs PROVE RequestOK(p)'
  BY <1>1 DEF Tick, RequestOK, Knows, Ended, Fresh, RefreshOK, RevokeOK, At, ActiveOf
<1> QED BY <1>2, <1>3, <1>4, Parts DEF IInv, RequestInv, EndedMintsNothing,
        RevocationComplete, RequestOK, RefreshOK, RevokeOK

-----------------------------------------------------------------------------
(* Steps that write `sessions`.                                            *)

\* What a statement that writes only `sessions` has to show.
LEMMA SessionsStep ==
  ASSUME IInv, NEW p \in Procs, NEW r \in Request, Become(p, r),
         UNCHANGED <<clock, tokens, lastHash, issued>>, AccountsTyped',
         SessionsTyped', SessionsKept, lastSid' \in Nat, lastSid <= lastSid',
         RequestOK(p)'
  PROVE  IInv' /\ TablesGrow
<1>1. TypeOK /\ Lineage /\ RequestsTyped
  BY Parts
<1>2. /\ RequestsTyped'
      /\ \A q \in Procs : q # p => req'[q] = req[q]
  BY <1>1, BecomeType
<1>3. TablesGrow
  BY <1>1 DEF TablesGrow, TokensKept, TypeOK
<1>4. TypeOK'
  BY <1>1, <1>2 DEF TypeOK, AccountsTyped, RequestsTyped, SessionsTyped
<1>5. Lineage'
  BY <1>1, <1>3, LineageKept DEF TablesGrow
<1> QED BY <1>2, <1>3, <1>4, <1>5, ActorSuffices

\* A statement that only revokes sessions.
LEMMA RevokeStep ==
  ASSUME IInv, NEW p \in Procs, NEW r \in Request, Become(p, r), NEW S, Revoke(S),
         UNCHANGED <<clock, accounts, tokens, lastSid, lastHash, issued>>,
         RequestOK(p)'
  PROVE  IInv' /\ TablesGrow
<1>1. TypeOK /\ SessionsTyped /\ AccountsTyped'
  BY Parts, AccountsStay
<1>2. SessionsTyped' /\ SessionsKept
  BY <1>1, RevokeRows
<1> QED BY <1>1, <1>2, SessionsStep DEF TypeOK

\* A purge closes the sessions of the user it removes.
LEMMA PurgeUserStep ==
  ASSUME IInv, NEW p \in Procs, PurgeUser(p)
  PROVE  IInv' /\ TablesGrow
<1>1. /\ TypeOK /\ AccountsTyped /\ SessionsTyped /\ RequestsTyped /\ RequestOK(p)
      /\ At(p, "purgeUser") /\ Finish(p) /\ Revoke(ActiveOf(req[p].user))
      /\ UNCHANGED <<clock, tokens, lastSid, lastHash, issued>>
  BY Facts DEF PurgeUser
<1>2. req[p].user \in Users
  BY <1>1 DEF RequestOK, Knows, At, SignInLabels
<1>3. AccountsTyped'
  BY <1>1, <1>2 DEF PurgeUser, AccountsTyped
<1>4. SessionsTyped' /\ SessionsKept
  BY <1>1, RevokeRows
<1>5. RequestOK(p)'
  BY <1>1, FinishType, IdleOK
<1> QED BY <1>1, <1>3, <1>4, <1>5, IdleType, SessionsStep DEF Finish, TypeOK

\* The last statement of the request.
LEMMA RevokeAndFinish ==
  ASSUME IInv, NEW p \in Procs, ExpireRevoke(p) \/ RevokeOne(p)
  PROVE  IInv' /\ TablesGrow
<1>1. /\ RequestsTyped /\ Finish(p) /\ Revoke({req[p].sid})
      /\ UNCHANGED <<clock, accounts, tokens, lastSid, lastHash, issued>>
  BY Facts DEF ExpireRevoke, RevokeOne
<1>2. RequestOK(p)'
  BY <1>1, FinishType, IdleOK
<1> QED BY <1>1, <1>2, IdleType, RevokeStep DEF Finish

\* A request that revokes one session and goes on keeps what it knows.
LEMMA EvictStep ==
  ASSUME IInv, NEW p \in Procs, Evict(p)
  PROVE  IInv' /\ TablesGrow
<1> DEFINE r == [req[p] EXCEPT !.pc = "insertSession"]
<1>1. /\ TypeOK /\ RequestsTyped /\ RequestOK(p) /\ req[p] \in Request
      /\ At(p, "evict") /\ Revoke({req[p].sid})
      /\ UNCHANGED <<clock, accounts, tokens, lastSid, lastHash, issued>>
  BY Facts DEF Evict
<1>2. /\ r \in Request /\ r.pc = "insertSession" /\ r.user = req[p].user
      /\ r.new = req[p].new /\ r.dead = req[p].dead
  BY <1>1 DEF Request, Labels, SignInLabels
<1>3. Become(p, r)
  BY DEF Evict, Goto
<1> HIDE DEF r
<1>4. /\ req'[p] = r
      /\ \A q \in Procs : q # p => req'[q] = req[q]
  BY <1>1, <1>2, <1>3, BecomeType
<1>5. RequestOK(p)'
  BY <1>1, <1>2, <1>4 DEF RequestOK, Knows, Fresh, RefreshOK, RevokeOK, At,
     Pending, SignInLabels, RefreshLabels, RotateLabels, RevokeLabels
<1> QED BY <1>1, <1>2, <1>3, <1>5, RevokeStep

\* A reused or expired token costs its own session.
LEMMA ReplayRevokeStep ==
  ASSUME IInv, NEW p \in Procs, ReplayRevoke(p)
  PROVE  IInv' /\ TablesGrow
<1> DEFINE r == [req[p] EXCEPT !.pc = "revokeFamily"]
<1>1. /\ TypeOK /\ Lineage /\ SessionsTyped /\ RequestsTyped /\ RequestOK(p)
      /\ req[p] \in Request /\ At(p, "replayRevoke") /\ Revoke({req[p].sid})
      /\ UNCHANGED <<clock, accounts, tokens, lastSid, lastHash, issued>>
  BY Facts DEF ReplayRevoke
<1>2. /\ r \in Request /\ r.pc = "revokeFamily" /\ r.user = req[p].user
      /\ r.hash = req[p].hash /\ r.sid = req[p].sid /\ r.exp = req[p].exp
      /\ r.dead = req[p].dead
  BY <1>1 DEF Request, Labels, RefreshLabels
<1>3. Become(p, r)
  BY DEF ReplayRevoke, Goto
<1> HIDE DEF r
<1>4. req'[p] = r
  BY <1>1, <1>2, <1>3, BecomeType
<1>5. SessionsKept
  BY <1>1, RevokeRows
<1>6. /\ r.hash \in DOMAIN tokens
      /\ r.sid = tokens[r.hash].sid
      /\ r.user = tokens[r.hash].user
      /\ r.exp = tokens[r.hash].exp
      /\ r.dead => \/ tokens[r.hash].used \/ tokens[r.hash].revoked
                   \/ ~sessions[tokens[r.hash].sid].active
  BY <1>1, <1>2 DEF RequestOK, Knows, Ended, At, RefreshLabels
<1>7. r.dead => \/ tokens[r.hash].used \/ tokens[r.hash].revoked
                \/ ~sessions'[tokens[r.hash].sid].active
  BY <1>1, <1>5, <1>6 DEF SessionsKept, Lineage
<1>8. RequestOK(p)'
  BY <1>1, <1>2, <1>4, <1>6, <1>7 DEF RequestOK, Knows, Ended, Fresh, RefreshOK, RevokeOK, At,
     Pending, SignInLabels, RefreshLabels, RotateLabels, RevokeLabels
<1> QED BY <1>1, <1>2, <1>3, <1>8, RevokeStep

\* A logout ends the session of its token first.
LEMMA LogoutSessionStep ==
  ASSUME IInv, NEW p \in Procs, LogoutSession(p)
  PROVE  IInv' /\ TablesGrow
<1> DEFINE r == [req[p] EXCEPT !.pc = "logoutToken"]
<1>1. /\ TypeOK /\ RequestsTyped /\ RequestOK(p) /\ req[p] \in Request
      /\ At(p, "logoutSession") /\ Revoke({req[p].sid})
      /\ UNCHANGED <<clock, accounts, tokens, lastSid, lastHash, issued>>
  BY Facts DEF LogoutSession
<1>2. r \in Request /\ r.pc = "logoutToken" /\ r.dead = req[p].dead
  BY <1>1 DEF Request, Labels, LogoutLabels
<1>3. Become(p, r)
  BY DEF LogoutSession, Goto
<1> HIDE DEF r
<1>4. req'[p] = r
  BY <1>1, <1>2, <1>3, BecomeType
<1>5. RequestOK(p)'
  BY <1>1, <1>2, <1>4 DEF RequestOK, Knows, Fresh, RefreshOK, RevokeOK, At,
     Pending, SignInLabels, RefreshLabels, RotateLabels, RevokeLabels
<1> QED BY <1>1, <1>2, <1>3, <1>5, RevokeStep

\* The revocation of many sessions: afterwards no session of the user that
\* existed at the statement is active, but the one that is kept.
LEMMA RevokeManyStep ==
  ASSUME IInv, NEW p \in Procs, RevokeAll(p) \/ RevokeOthers(p)
  PROVE  IInv' /\ TablesGrow
<1> DEFINE S == IF At(p, "revokeAll") THEN ActiveOf(req[p].user)
                ELSE ActiveOf(req[p].user) \ {req[p].sid}
           r == [req[p] EXCEPT !.pc = "answerRevoke"]
<1>1. /\ TypeOK /\ SessionsTyped /\ RequestsTyped /\ RequestOK(p) /\ req[p] \in Request
      /\ req[p].pc \in {"revokeAll", "revokeOthers"} /\ Revoke(S)
      /\ UNCHANGED <<clock, accounts, tokens, lastSid, lastHash, issued>>
  BY Facts DEF RevokeAll, RevokeOthers, At
<1>2. /\ r \in Request /\ r.pc = "answerRevoke" /\ r.user = req[p].user
      /\ r.sid = req[p].sid /\ r.mark = req[p].mark /\ r.dead = req[p].dead
  BY <1>1 DEF Request, Labels, RevokeLabels
<1>3. Become(p, r)
  BY DEF RevokeAll, RevokeOthers, Goto
<1>4. \A s \in ActiveOf(req[p].user) : s \in S \/ s = req[p].sid
  OBVIOUS
<1> HIDE DEF r, S
<1>5. req'[p] = r
  BY <1>1, <1>2, <1>3, BecomeType
<1>6. /\ DOMAIN sessions' = DOMAIN sessions
      /\ \A s \in DOMAIN sessions : s \in S => ~sessions'[s].active
      /\ \A s \in DOMAIN sessions : s \notin S => sessions'[s] = sessions[s]
  BY <1>1, RevokeRows
<1>7. RevokeOK(p)'
  BY <1>2, <1>4, <1>5, <1>6 DEF RevokeOK, ActiveOf
<1>8. Knows(p)' /\ Fresh(p)' /\ RefreshOK(p)'
  BY <1>1, <1>2, <1>5 DEF RequestOK, Knows, Fresh, RefreshOK,
     Pending, SignInLabels, RefreshLabels, RotateLabels, RevokeLabels
<1> QED BY <1>1, <1>2, <1>3, <1>7, <1>8, RevokeStep DEF RequestOK

\* The session a sign-in inserts is active, new and the user's own.
LEMMA InsertSessionStep ==
  ASSUME IInv, NEW p \in Procs, InsertSession(p)
  PROVE  IInv' /\ TablesGrow
<1> DEFINE l == IF req[p].stores THEN "insertToken" ELSE "answerSignIn"
           r == [req[p] EXCEPT !.pc = l, !.sid = lastSid + 1, !.seen = 0, !.mark = 0]
           row == [user |-> req[p].user, active |-> TRUE,
                   exp |-> req[p].exp, hash |-> req[p].new]
<1>1. /\ TypeOK /\ SessionsTyped /\ RequestsTyped /\ RequestOK(p) /\ req[p] \in Request
      /\ At(p, "insertSession") /\ lastSid \in Nat /\ AccountsTyped'
      /\ UNCHANGED <<clock, tokens, lastHash, issued>>
  BY Facts, AccountsStay DEF InsertSession, TypeOK
<1>2. /\ req[p].user \in Users /\ req[p].new \in 1..lastHash /\ ~req[p].dead
  BY <1>1 DEF RequestOK, Knows, At, Pending, SignInLabels, RefreshLabels, RotateLabels
<1>3. l \in {"insertToken", "answerSignIn"}
  OBVIOUS
<1>4. Become(p, r)
  BY DEF InsertSession
<1> HIDE DEF l
<1>5. row \in SessionRow
  BY <1>1, <1>2 DEF SessionRow, Request
<1>6. row.user = req[p].user /\ row.exp = req[p].exp
  OBVIOUS
<1>7. /\ lastSid' = lastSid + 1
      /\ sessions' = [s \in DOMAIN sessions \cup {lastSid + 1} |->
                        IF s = lastSid + 1 THEN row ELSE sessions[s]]
  BY DEF InsertSession
<1> HIDE DEF row
<1>8. /\ r \in Request /\ r.pc = l /\ r.user = req[p].user /\ r.sid = lastSid + 1
      /\ r.new = req[p].new /\ r.exp = req[p].exp /\ r.dead = req[p].dead
  <2>1. l \in Labels /\ lastSid + 1 \in Nat
    BY <1>1, <1>3 DEF Labels, SignInLabels
  <2> QED BY <1>1, <2>1 DEF Request
<1> HIDE DEF r
<1>9. /\ req'[p] = r
      /\ \A q \in Procs : q # p => req'[q] = req[q]
  BY <1>1, <1>4, <1>8, BecomeType
<1>10. SessionsTyped' /\ SessionsKept
  BY <1>1, <1>5, <1>7 DEF SessionsTyped, SessionsKept
<1>11. /\ lastSid + 1 \in DOMAIN sessions'
       /\ sessions'[lastSid + 1] = row
  BY <1>7
<1>12. Knows(p)'
  BY <1>1, <1>2, <1>3, <1>6, <1>8, <1>9, <1>11 DEF Knows,
     Pending, SignInLabels, RefreshLabels, RotateLabels, RevokeLabels
<1>13. Fresh(p)'
  BY <1>1, <1>3, <1>8, <1>9 DEF RequestOK, Fresh, At, Pending
<1>14. RefreshOK(p)' /\ RevokeOK(p)'
  BY <1>2, <1>3, <1>8, <1>9 DEF RefreshOK, RevokeOK, At
<1> QED BY <1>1, <1>4, <1>7, <1>8, <1>10, <1>12, <1>13, <1>14, SessionsStep DEF RequestOK

\* A rotation changes the hash of its session and nothing else of the row.
LEMMA UpdateHashStep ==
  ASSUME IInv, NEW p \in Procs, UpdateHash(p)
  PROVE  IInv' /\ TablesGrow
<1> DEFINE r == [req[p] EXCEPT !.pc = "answerRefresh"]
<1>1. /\ TypeOK /\ Lineage /\ SessionsTyped /\ RequestsTyped /\ RequestOK(p)
      /\ req[p] \in Request /\ At(p, "updateHash") /\ lastSid \in Nat
      /\ sessions' = [sessions EXCEPT ![req[p].sid].hash = req[p].new]
      /\ UNCHANGED <<clock, tokens, lastSid, lastHash, issued>> /\ AccountsTyped'
  BY Facts, AccountsStay DEF UpdateHash, TypeOK
<1>2. /\ r \in Request /\ r.pc = "answerRefresh" /\ r.user = req[p].user
      /\ r.hash = req[p].hash /\ r.sid = req[p].sid /\ r.exp = req[p].exp
      /\ r.new = req[p].new /\ r.dead = req[p].dead
  BY <1>1 DEF Request, Labels, RefreshLabels, RotateLabels
<1>3. Become(p, r)
  BY DEF UpdateHash, Goto
<1> HIDE DEF r
<1>4. req'[p] = r
  BY <1>1, <1>2, <1>3, BecomeType
<1>5. SessionsTyped' /\ SessionsKept
  BY <1>1 DEF SessionsTyped, SessionsKept, SessionRow, Request
<1>6. /\ r.hash \in DOMAIN tokens
      /\ r.sid = tokens[r.hash].sid
      /\ r.user = tokens[r.hash].user
      /\ r.exp = tokens[r.hash].exp
      /\ tokens[r.hash].used /\ r.hash < r.new /\ r.new \in 1..lastHash /\ ~r.dead
  BY <1>1, <1>2 DEF RequestOK, Knows, RefreshOK, At, RefreshLabels, RotateLabels
<1>7. RequestOK(p)'
  BY <1>1, <1>2, <1>4, <1>6 DEF RequestOK, Knows, Fresh, RefreshOK, RevokeOK, At,
     Pending, SignInLabels, RefreshLabels, RotateLabels, RevokeLabels
<1> QED BY <1>1, <1>2, <1>3, <1>5, <1>7, SessionsStep

-----------------------------------------------------------------------------
(* Steps that write `refresh_tokens`.                                      *)

\* What a statement that writes only `refresh_tokens` has to show.
LEMMA TokensStep ==
  ASSUME IInv, NEW p \in Procs, NEW r \in Request, Become(p, r),
         UNCHANGED <<clock, accounts, sessions, lastSid, lastHash, issued>>,
         TokensTyped', TokensKept, Lineage', RequestOK(p)',
         \A h \in DOMAIN tokens' \ DOMAIN tokens :
            req[p].pc \in Pending /\ h = req[p].new
  PROVE  IInv' /\ TablesGrow
<1>1. TypeOK /\ RequestsTyped /\ AccountsTyped'
  BY Parts, AccountsStay
<1>2. /\ RequestsTyped'
      /\ \A q \in Procs : q # p => req'[q] = req[q]
  BY <1>1, BecomeType
<1>3. TablesGrow
  BY <1>1 DEF TablesGrow, SessionsKept, TypeOK
<1>4. TypeOK'
  BY <1>1, <1>2 DEF TypeOK, AccountsTyped, RequestsTyped, TokensTyped
<1> QED BY <1>2, <1>3, <1>4, ActorSuffices

\* The last statement of a replay or a logout.
LEMMA RevokeTokensStep ==
  ASSUME IInv, NEW p \in Procs, RevokeFamily(p) \/ LogoutToken(p)
  PROVE  IInv' /\ TablesGrow
<1> DEFINE T == IF At(p, "revokeFamily") THEN FamilyOf(req[p].hash) ELSE {req[p].hash}
<1>1. /\ TypeOK /\ Lineage /\ TokensTyped /\ RequestsTyped
      /\ Finish(p) /\ RevokeTokens(T)
      /\ UNCHANGED <<clock, accounts, sessions, lastSid, lastHash, issued>>
  BY Facts DEF RevokeFamily, LogoutToken, At
<1> HIDE DEF T
<1>2. TokensTyped' /\ TokensKept /\ DOMAIN tokens' = DOMAIN tokens
  BY <1>1, RevokeTokensRows
<1>3. SessionsKept
  BY <1>1 DEF SessionsKept
<1>4. Lineage'
  BY <1>1, <1>2, <1>3, LineageKept
<1>5. RequestOK(p)'
  BY <1>1, FinishType, IdleOK
<1> QED BY <1>1, <1>2, <1>4, <1>5, IdleType, TokensStep DEF Finish

\* The token a refresh spends stays the parent its successor will name.
LEMMA MarkUsedStep ==
  ASSUME IInv, NEW p \in Procs, MarkUsed(p)
  PROVE  IInv' /\ TablesGrow
<1> DEFINE r == [req[p] EXCEPT !.pc = "insertChild"]
<1>1. /\ TypeOK /\ Lineage /\ TokensTyped /\ RequestsTyped /\ RequestOK(p)
      /\ req[p] \in Request /\ At(p, "markUsed")
      /\ tokens' = [tokens EXCEPT ![req[p].hash].used = TRUE]
      /\ UNCHANGED <<clock, accounts, sessions, lastSid, lastHash, issued>>
  BY Facts DEF MarkUsed
<1>2. /\ r \in Request /\ r.pc = "insertChild" /\ r.user = req[p].user
      /\ r.hash = req[p].hash /\ r.sid = req[p].sid /\ r.exp = req[p].exp
      /\ r.new = req[p].new /\ r.dead = req[p].dead
  BY <1>1 DEF Request, Labels, RefreshLabels, RotateLabels
<1>3. Become(p, r)
  BY DEF MarkUsed, Goto
<1> HIDE DEF r
<1>4. /\ req'[p] = r
      /\ \A q \in Procs : q # p => req'[q] = req[q]
  BY <1>1, <1>2, <1>3, BecomeType
<1>5. /\ r.hash \in DOMAIN tokens
      /\ r.sid = tokens[r.hash].sid
      /\ r.user = tokens[r.hash].user
      /\ r.exp = tokens[r.hash].exp
      /\ r.hash < r.new /\ r.new \in 1..lastHash /\ ~r.dead
  BY <1>1, <1>2 DEF RequestOK, Knows, RefreshOK, At, RefreshLabels, RotateLabels, Pending
<1>6. TokensTyped' /\ TokensKept /\ DOMAIN tokens' = DOMAIN tokens
  BY <1>1 DEF TokensTyped, TokensKept, TokenRow
<1>7. SessionsKept
  BY <1>1 DEF SessionsKept
<1>8. Lineage'
  BY <1>1, <1>6, <1>7, LineageKept
<1>9. /\ r.hash \in DOMAIN tokens'
      /\ r.sid = tokens'[r.hash].sid
      /\ r.user = tokens'[r.hash].user
      /\ r.exp = tokens'[r.hash].exp
      /\ tokens'[r.hash].used
  BY <1>1, <1>2, <1>5, <1>6 DEF TokensKept, TokensTyped, TokenRow
<1>10. Knows(p)'
  BY <1>1, <1>2, <1>4, <1>5, <1>9 DEF Knows, Pending, SignInLabels, RefreshLabels,
     RotateLabels, RevokeLabels
<1>11. Fresh(p)'
  BY <1>1, <1>2, <1>4, <1>6 DEF RequestOK, Fresh, At, Pending
<1>12. RefreshOK(p)' /\ RevokeOK(p)'
  BY <1>2, <1>4, <1>5 DEF RefreshOK, RevokeOK, At
<1> QED BY <1>1, <1>2, <1>3, <1>6, <1>8, <1>10, <1>11, <1>12, TokensStep DEF RequestOK

\* A new row keeps the lineage when it names its own session's user and end
\* and, unless it is the first of its chain, a used parent in that session.
LEMMA LineageGrows ==
  ASSUME TypeOK, Lineage, SessionsKept, TokensKept, NEW h \in Nat,
         h \notin DOMAIN tokens, DOMAIN tokens' = DOMAIN tokens \cup {h},
         tokens'[h].sid \in DOMAIN sessions,
         tokens'[h].user = sessions[tokens'[h].sid].user,
         tokens'[h].exp = sessions[tokens'[h].sid].exp,
         tokens'[h].parent # 0 =>
           /\ tokens'[h].parent \in DOMAIN tokens
           /\ tokens'[h].parent < h
           /\ tokens[tokens'[h].parent].used
           /\ tokens[tokens'[h].parent].sid = tokens'[h].sid
  PROVE  Lineage'
<1> SUFFICES ASSUME NEW t \in DOMAIN tokens'
             PROVE  /\ tokens'[t].sid \in DOMAIN sessions'
                    /\ tokens'[t].user = sessions'[tokens'[t].sid].user
                    /\ tokens'[t].exp = sessions'[tokens'[t].sid].exp
                    /\ tokens'[t].parent # 0 =>
                         /\ tokens'[t].parent \in DOMAIN tokens'
                         /\ tokens'[t].parent < t
                         /\ tokens'[tokens'[t].parent].used
                         /\ tokens'[tokens'[t].parent].sid = tokens'[t].sid
  BY DEF Lineage
<1>1. CASE t = h
  BY <1>1 DEF SessionsKept, TokensKept
<1>2. CASE t \in DOMAIN tokens
  BY <1>2 DEF Lineage, SessionsKept, TokensKept
<1> QED BY <1>1, <1>2

\* The first token of a chain belongs to the session just inserted.
LEMMA InsertTokenStep ==
  ASSUME IInv, NEW p \in Procs, InsertToken(p)
  PROVE  IInv' /\ TablesGrow
<1> DEFINE r == [req[p] EXCEPT !.pc = "answerSignIn"]
           h == req[p].new
           row == [user |-> req[p].user, sid |-> req[p].sid, parent |-> 0,
                   used |-> FALSE, revoked |-> FALSE, exp |-> req[p].exp]
<1>1. /\ TypeOK /\ Lineage /\ TokensTyped /\ RequestsTyped /\ RequestOK(p)
      /\ req[p] \in Request /\ At(p, "insertToken") /\ InsertTokenRow(h, row)
      /\ UNCHANGED <<clock, accounts, sessions, lastSid, lastHash, issued>>
  BY Facts DEF InsertToken
<1>2. /\ r \in Request /\ r.pc = "answerSignIn" /\ r.user = req[p].user
      /\ r.new = h /\ r.dead = req[p].dead
  BY <1>1 DEF Request, Labels, SignInLabels
<1>3. Become(p, r)
  BY DEF InsertToken, Goto
<1> HIDE DEF r
<1>4. /\ req'[p] = r
      /\ \A q \in Procs : q # p => req'[q] = req[q]
  BY <1>1, <1>2, <1>3, BecomeType
<1>5. /\ h \in 1..lastHash /\ h \notin DOMAIN tokens /\ ~req[p].dead
      /\ req[p].user \in Users /\ req[p].sid \in DOMAIN sessions
      /\ req[p].user = sessions[req[p].sid].user
      /\ req[p].exp = sessions[req[p].sid].exp
      /\ req[p].pc \in Pending
  BY <1>1 DEF RequestOK, Knows, Fresh, At, Pending, SignInLabels, RefreshLabels, RotateLabels
<1>6. row \in TokenRow
  BY <1>1, <1>5 DEF TokenRow, Request
<1>7. /\ row.user = req[p].user /\ row.sid = req[p].sid
      /\ row.parent = 0 /\ row.exp = req[p].exp
  OBVIOUS
<1> HIDE DEF row, h
<1>8. /\ TokensTyped' /\ TokensKept /\ tokens'[h] = row
      /\ DOMAIN tokens' = DOMAIN tokens \cup {h}
  BY <1>1, <1>5, <1>6, InsertTokenRows
<1>9. SessionsKept
  BY <1>1 DEF SessionsKept
<1>10. h \in Nat
  BY <1>1, <1>5 DEF TypeOK
<1>11. Lineage'
  BY <1>1, <1>5, <1>7, <1>8, <1>9, <1>10, LineageGrows
<1>12. RequestOK(p)'
  BY <1>1, <1>2, <1>4, <1>5 DEF RequestOK, Knows, Fresh, RefreshOK, RevokeOK, At,
     Pending, SignInLabels, RefreshLabels, RotateLabels, RevokeLabels
<1> QED BY <1>1, <1>2, <1>3, <1>5, <1>8, <1>11, <1>12, TokensStep DEF h

\* The successor of a spent token belongs to the session of that token.
LEMMA InsertChildStep ==
  ASSUME IInv, NEW p \in Procs, InsertChild(p)
  PROVE  IInv' /\ TablesGrow
<1> DEFINE r == [req[p] EXCEPT !.pc = "updateHash"]
           h == req[p].new
           row == [user |-> req[p].user, sid |-> req[p].sid, parent |-> req[p].hash,
                   used |-> FALSE, revoked |-> FALSE, exp |-> req[p].exp]
<1>1. /\ TypeOK /\ Lineage /\ TokensTyped /\ RequestsTyped /\ RequestOK(p)
      /\ req[p] \in Request /\ At(p, "insertChild") /\ InsertTokenRow(h, row)
      /\ UNCHANGED <<clock, accounts, sessions, lastSid, lastHash, issued>>
  BY Facts DEF InsertChild
<1>2. /\ r \in Request /\ r.pc = "updateHash" /\ r.user = req[p].user
      /\ r.hash = req[p].hash /\ r.sid = req[p].sid /\ r.exp = req[p].exp
      /\ r.new = h /\ r.dead = req[p].dead
  BY <1>1 DEF Request, Labels, RefreshLabels, RotateLabels
<1>3. Become(p, r)
  BY DEF InsertChild, Goto
<1> HIDE DEF r
<1>4. /\ req'[p] = r
      /\ \A q \in Procs : q # p => req'[q] = req[q]
  BY <1>1, <1>2, <1>3, BecomeType
<1>5. /\ h \in 1..lastHash /\ h \notin DOMAIN tokens /\ ~req[p].dead
      /\ req[p].hash \in DOMAIN tokens /\ req[p].hash < h
      /\ req[p].sid = tokens[req[p].hash].sid
      /\ req[p].user = tokens[req[p].hash].user
      /\ req[p].exp = tokens[req[p].hash].exp
      /\ tokens[req[p].hash].used
      /\ req[p].pc \in Pending
  BY <1>1 DEF RequestOK, Knows, Fresh, RefreshOK, At, Pending, RefreshLabels, RotateLabels
<1>6. /\ req[p].sid \in DOMAIN sessions
      /\ req[p].user = sessions[req[p].sid].user
      /\ req[p].exp = sessions[req[p].sid].exp
      /\ req[p].user \in Users
  BY <1>1, <1>5 DEF Lineage, TypeOK, TokenRow
<1>7. row \in TokenRow
  BY <1>1, <1>6 DEF TokenRow, Request
<1>8. /\ row.user = req[p].user /\ row.sid = req[p].sid
      /\ row.parent = req[p].hash /\ row.exp = req[p].exp
  OBVIOUS
<1> HIDE DEF row, h
<1>9. /\ TokensTyped' /\ TokensKept /\ tokens'[h] = row
      /\ DOMAIN tokens' = DOMAIN tokens \cup {h}
  BY <1>1, <1>5, <1>7, InsertTokenRows
<1>10. SessionsKept
  BY <1>1 DEF SessionsKept
<1>11. h \in Nat
  BY <1>1, <1>5 DEF TypeOK
<1>12. Lineage'
  BY <1>1, <1>5, <1>6, <1>8, <1>9, <1>10, <1>11, LineageGrows
<1>13. /\ r.hash \in DOMAIN tokens' /\ r.hash < r.new
       /\ r.sid = tokens'[r.hash].sid
       /\ r.user = tokens'[r.hash].user
       /\ r.exp = tokens'[r.hash].exp
       /\ tokens'[r.hash].used
  BY <1>2, <1>5, <1>9 DEF TokensKept
<1>14. Knows(p)'
  BY <1>1, <1>2, <1>4, <1>5, <1>13 DEF Knows, Pending, SignInLabels, RefreshLabels,
     RotateLabels, RevokeLabels
<1>15. Fresh(p)' /\ RefreshOK(p)' /\ RevokeOK(p)'
  BY <1>2, <1>4, <1>5 DEF Fresh, RefreshOK, RevokeOK, At, Pending
<1> QED BY <1>1, <1>2, <1>3, <1>5, <1>9, <1>12, <1>14, <1>15, TokensStep DEF RequestOK, h

-----------------------------------------------------------------------------
(* The theorems.                                                           *)

\* The tables and requests start empty.
LEMMA InitIInv == Init => IInv
<1> SUFFICES ASSUME Init PROVE IInv
  OBVIOUS
<1>1. \A p \in Procs : req[p] = Idle
  BY DEF Init
<1>2. TypeOK
  BY IdleType DEF Init, TypeOK
<1>3. Lineage
  BY DEF Init, Lineage
<1>4. ASSUME NEW p \in Procs PROVE RequestOK(p)
  BY <1>1 DEF RequestOK, Knows, Fresh, RefreshOK, RevokeOK, At, Idle, Pending,
     SignInLabels, RefreshLabels, RotateLabels, RevokeLabels
<1> QED BY <1>2, <1>3, <1>4, Parts

\* Every statement of every request preserves the invariant, and only adds
\* rows and settles their flags.
LEMMA StepIInv ==
  ASSUME IInv, [Next]_vars
  PROVE  IInv' /\ TablesGrow
<1>1. ASSUME NEW p \in Procs, Continue(p) PROVE IInv' /\ TablesGrow
  <2>1. CASE \/ RestoreUser(p) \/ PurgeUser(p) \/ CountActive(p) \/ FindOldest(p)
             \/ Evict(p) \/ \E l : Refused(p, l)
             \/ InsertSession(p) \/ InsertToken(p) \/ AnswerSignIn(p)
    BY <2>1, RestoreUserStep, PurgeUserStep, CountActiveStep, FindOldestStep, EvictStep,
       EndStep, InsertSessionStep, InsertTokenStep, AnswerStep
  <2>2. CASE \/ FindToken(p) \/ ReplayRevoke(p) \/ RevokeFamily(p) \/ ExpireRevoke(p)
             \/ FindUser(p) \/ FindSession(p) \/ MarkUsed(p) \/ InsertChild(p)
             \/ UpdateHash(p) \/ AnswerRefresh(p)
    BY <2>2, FindTokenStep, ReplayRevokeStep, RevokeTokensStep, RevokeAndFinish,
       FindUserStep, FindSessionStep, MarkUsedStep, InsertChildStep, UpdateHashStep,
       AnswerStep
  <2>3. CASE LogoutFind(p) \/ LogoutSession(p) \/ LogoutToken(p)
    BY <2>3, LogoutFindStep, LogoutSessionStep, RevokeTokensStep
  <2>4. CASE \/ SoftDelete(p) \/ RevokeAll(p) \/ RevokeOthers(p) \/ AnswerRevoke(p)
             \/ RevokeOne(p)
    BY <2>4, SoftDeleteStep, RevokeManyStep, EndStep, RevokeAndFinish
  <2> QED BY <1>1, <2>1, <2>2, <2>3, <2>4 DEF Continue
<1>2. CASE UNCHANGED vars
  <2>1. TypeOK /\ Lineage /\ TypeOK'
    BY <1>2, Parts DEF vars, TypeOK
  <2>2. TablesGrow
    BY <1>2, <2>1 DEF vars, TablesGrow, SessionsKept, TokensKept, TypeOK
  <2>3. IInv'
    BY <1>2, <2>1 DEF vars, IInv, Lineage, RequestInv, Knows, Ended, Fresh,
       EndedMintsNothing, RevocationComplete, At, ActiveOf
  <2> QED BY <2>2, <2>3
<1> QED BY <1>1, <1>2, BeginStep, EndStep, TickStep DEF Next

\* The inductive invariant holds in every state the requests can reach.
THEOREM Invariance == Spec => []IInv
<1>1. IInv /\ [Next]_vars => IInv'
  BY StepIInv
<1> QED BY <1>1, InitIInv, PTL DEF Spec

\* The tables and the local state of every request keep their types.
THEOREM TypeCorrect == Spec => []TypeOK
<1>1. IInv => TypeOK
  BY DEF IInv
<1> QED BY <1>1, Invariance, PTL

\* Every stored token leads back, through used parents, to a sign-in of the
\* same user and session, and never outlives it.
THEOREM LineageHolds == Spec => []Lineage
<1>1. IInv => Lineage
  BY DEF IInv
<1> QED BY <1>1, Invariance, PTL

\* What a request read stays true until it uses it, and the token it generated
\* belongs to it alone.
THEOREM RequestsIsolated == Spec => []RequestInv
<1>1. IInv => RequestInv
  BY DEF IInv
<1> QED BY <1>1, Invariance, PTL

\* A refresh whose token was rotated out or whose session was revoked before it
\* arrived mints no token.
THEOREM RefreshSafe == Spec => []EndedMintsNothing
<1>1. IInv => EndedMintsNothing
  BY DEF IInv
<1> QED BY <1>1, Invariance, PTL

\* An answered logoutAll, deleteAccount or changePassword left no older session
\* of the user active, but the one it keeps.
THEOREM RevocationSafe == Spec => []RevocationComplete
<1>1. IInv => RevocationComplete
  BY DEF IInv
<1> QED BY <1>1, Invariance, PTL

-----------------------------------------------------------------------------
(* The session limit: between its count and its insert a sign-in answers   *)
(* for the sessions there were when it counted.                            *)

Counted == {"findOldest", "evict", "insertSession"}

\* The sessions a sign-in counted that are still active.
Old(p) == {s \in ActiveOf(req[p].user) : s <= req[p].mark}

\* Another sign-in of the user inserted a session since.
Overlapped(p) == \E s \in DOMAIN sessions : s > req[p].mark /\ sessions[s].user = req[p].user

\* Unless another one overlaps, what is left when it inserts is one less than it
\* counted, less than the limit, or nothing.
RoomOK(p) ==
  /\ req[p].pc \in Counted => req[p].mark <= lastSid
  /\ At(p, "findOldest") => Cardinality(Old(p)) <= req[p].seen
  /\ At(p, "evict") => \/ Overlapped(p)
                       \/ Cardinality(Old(p) \ {req[p].sid}) < req[p].seen
  /\ At(p, "insertSession") =>
       \/ Overlapped(p)
       \/ Cardinality(Old(p)) < req[p].seen
       \/ Cardinality(Old(p)) < MaxActive
       \/ Old(p) = {}

LEMMA OldFinite ==
  ASSUME TypeOK, NEW p \in Procs
  PROVE  /\ IsFiniteSet(Old(p)) /\ Cardinality(Old(p)) \in Nat
         /\ Old(p) \subseteq ActiveOf(req[p].user) /\ IsFiniteSet(ActiveOf(req[p].user))
<1>1. ActiveOf(req[p].user) \subseteq 1..lastSid /\ lastSid \in Int
  BY DEF ActiveOf, TypeOK
<1>2. IsFiniteSet(ActiveOf(req[p].user))
  <2>1. IsFiniteSet(1..lastSid)
    BY <1>1, FS_Interval
  <2> QED BY <1>1, <2>1, FS_Subset
<1>3. Old(p) \subseteq ActiveOf(req[p].user)
  BY DEF Old
<1> QED BY <1>2, <1>3, FS_Subset, FS_CardinalityType

\* Fewer of them are left after every step, and an overlap stays one.
LEMMA OldShrinks ==
  ASSUME TypeOK, TypeOK', TablesGrow, NEW p \in Procs, req[p].mark <= lastSid,
         req'[p].user = req[p].user, req'[p].mark = req[p].mark
  PROVE  Old(p)' \subseteq Old(p) /\ (Overlapped(p) => Overlapped(p)')
<1>1. req[p].mark \in Nat
  BY DEF TypeOK, Request
<1>2. ASSUME NEW s \in Old(p)' PROVE s \in Old(p)
  <2>1. /\ s \in DOMAIN sessions' /\ sessions'[s].user = req[p].user /\ sessions'[s].active
        /\ s <= req[p].mark
    BY DEF Old, ActiveOf
  <2>2. s \in DOMAIN sessions
    BY <1>1, <2>1 DEF TypeOK
  <2> QED BY <2>1, <2>2 DEF Old, ActiveOf, TablesGrow, SessionsKept
<1>3. Overlapped(p) => Overlapped(p)'
  BY DEF Overlapped, TablesGrow, SessionsKept
<1> QED BY <1>2, <1>3

\* The others' steps leave a sign-in its room.
LEMMA RoomKept ==
  ASSUME TypeOK, TypeOK', TablesGrow, NEW p \in Procs, RoomOK(p), req'[p] = req[p]
  PROVE  RoomOK(p)'
<1>1. CASE req[p].pc \notin Counted
  BY <1>1 DEF RoomOK, Counted, At
<1>2. CASE req[p].pc \in Counted
  <2>1. /\ Old(p)' \subseteq Old(p) /\ (Overlapped(p) => Overlapped(p)')
        /\ req[p].mark <= lastSid /\ lastSid <= lastSid' /\ lastSid \in Nat /\ lastSid' \in Nat
        /\ req[p].mark \in Nat /\ req[p].seen \in Nat
    BY <1>2, OldShrinks DEF RoomOK, TablesGrow, TypeOK, Request
  <2>2. IsFiniteSet(Old(p)) /\ IsFiniteSet(Old(p) \ {req[p].sid})
    BY OldFinite, FS_Subset
  <2> DEFINE old == Old(p)
             new == Old(p)'
             sid == req[p].sid
  <2>3. new \ {sid} \subseteq old \ {sid}
    BY <2>1
  <2> HIDE DEF old, new, sid
  <2>4. Cardinality(new) <= Cardinality(old) /\ Cardinality(new) \in Nat /\ Cardinality(old) \in Nat
    BY <2>1, <2>2, FS_Subset, FS_CardinalityType DEF old, new
  <2>5. /\ Cardinality(new \ {sid}) <= Cardinality(old \ {sid})
        /\ Cardinality(new \ {sid}) \in Nat /\ Cardinality(old \ {sid}) \in Nat
    BY <2>2, <2>3, FS_Subset, FS_CardinalityType DEF old, sid
  <2>6. MaxActive \in Nat
    BY BoundsAssumption
  <2>7. At(p, "findOldest") => Cardinality(new) <= req[p].seen
    BY <2>1, <2>4 DEF RoomOK, old
  <2>8. At(p, "evict") => Overlapped(p)' \/ Cardinality(new \ {sid}) < req[p].seen
    BY <2>1, <2>5 DEF RoomOK, old, sid
  <2>9. At(p, "insertSession") => \/ Overlapped(p)'
                                  \/ Cardinality(new) < req[p].seen
                                  \/ Cardinality(new) < MaxActive
                                  \/ new = {}
    BY <2>1, <2>4, <2>6 DEF RoomOK, old, new
  <2>10. req[p].mark <= lastSid'
    BY <2>1
  <2>11. \A l : At(p, l)' <=> At(p, l)
    BY DEF At
  <2> QED BY <2>7, <2>8, <2>9, <2>10, <2>11 DEF RoomOK, new, sid
<1> QED BY <1>1, <1>2

LEMMA CountActiveRoom ==
  ASSUME IInv, NEW p \in Procs, CountActive(p) PROVE RoomOK(p)'
<1> DEFINE n == Cardinality(ActiveOf(req[p].user))
           l == IF n >= MaxActive THEN "findOldest" ELSE "insertSession"
           r == [req[p] EXCEPT !.pc = l, !.new = lastHash + 1, !.exp = clock + TTL,
                               !.seen = n, !.mark = lastSid]
<1>1. TypeOK /\ Become(p, r) /\ UNCHANGED <<sessions, lastSid>> /\ RequestsTyped /\ req[p] \in Request
  BY Facts DEF CountActive
<1>2. n \in Nat /\ MaxActive \in Nat /\ (n >= MaxActive => l = "findOldest")
      /\ (n < MaxActive => l = "insertSession")
  BY <1>1, CountType, BoundsAssumption
<1> HIDE DEF n, l
<1>3. r.pc = l /\ r.user = req[p].user /\ r.seen = n /\ r.mark = lastSid
  BY <1>1 DEF Request
<1>4. req'[p] = r
  BY <1>1 DEF Become, RequestsTyped
<1> HIDE DEF r
<1>5. Old(p)' = ActiveOf(req[p].user) /\ lastSid \in Nat
  BY <1>1, <1>3, <1>4 DEF Old, ActiveOf, TypeOK
<1>6. Cardinality(Old(p)') = n
  BY <1>5 DEF n
<1>7. l \in {"findOldest", "insertSession"}
  BY <1>2
<1> QED BY <1>1, <1>2, <1>3, <1>4, <1>5, <1>6, <1>7 DEF RoomOK, At

LEMMA FindOldestRoom ==
  ASSUME IInv, NEW p \in Procs, RoomOK(p), FindOldest(p) PROVE RoomOK(p)'
<1>1. /\ TypeOK /\ At(p, "findOldest") /\ UNCHANGED <<sessions, lastSid>> /\ RequestsTyped
      /\ req[p] \in Request
  BY Facts DEF FindOldest
<1>2. /\ Cardinality(Old(p)) <= req[p].seen /\ req[p].mark <= lastSid /\ req[p].seen \in Nat
      /\ IsFiniteSet(Old(p)) /\ Cardinality(Old(p)) \in Nat
  BY <1>1, OldFinite DEF RoomOK, At, Counted, Request
<1>3. ASSUME NEW s \in OldestOf(req[p].user), Become(p, [req[p] EXCEPT !.pc = "evict", !.sid = s])
      PROVE  RoomOK(p)'
  <2> DEFINE r == [req[p] EXCEPT !.pc = "evict", !.sid = s]
  <2>1. /\ r.pc = "evict" /\ r.sid = s /\ r.user = req[p].user /\ r.mark = req[p].mark
        /\ r.seen = req[p].seen
    BY <1>1 DEF Request
  <2>2. req'[p] = r
    BY <1>1, <1>3 DEF Become, RequestsTyped
  <2> HIDE DEF r
  <2>3. Old(p)' = Old(p) /\ (Overlapped(p)' <=> Overlapped(p))
    BY <1>1, <2>1, <2>2 DEF Old, ActiveOf, Overlapped
  <2>4. s \in ActiveOf(req[p].user) /\ s \in DOMAIN sessions /\ sessions[s].user = req[p].user
        /\ s \in Nat /\ req[p].mark \in Nat
    BY <1>1 DEF OldestOf, ActiveOf, TypeOK, Request
  <2>5. CASE s \in Old(p)
    <3>1. Cardinality(Old(p) \ {s}) = Cardinality(Old(p)) - 1
      BY <1>2, <2>5, FS_RemoveElement
    <3>2. Cardinality(Old(p) \ {s}) < req[p].seen
      BY <1>2, <3>1
    <3> QED BY <1>1, <1>2, <2>1, <2>2, <2>3, <3>2 DEF RoomOK, At
  <2>6. CASE s \notin Old(p)
    <3>1. Overlapped(p)
      BY <2>4, <2>6 DEF Old, Overlapped
    <3> QED BY <1>1, <1>2, <2>1, <2>2, <2>3, <3>1 DEF RoomOK, At
  <2> QED BY <2>5, <2>6
<1>4. ASSUME ActiveOf(req[p].user) = {}, Goto(p, "insertSession") PROVE RoomOK(p)'
  <2> DEFINE r == [req[p] EXCEPT !.pc = "insertSession"]
  <2>1. r.pc = "insertSession" /\ r.user = req[p].user /\ r.mark = req[p].mark
    BY <1>1 DEF Request
  <2>2. req'[p] = r
    BY <1>1, <1>4 DEF Goto, Become, RequestsTyped
  <2> HIDE DEF r
  <2>3. Old(p)' = {}
    BY <1>1, <1>4, <2>1, <2>2 DEF Old, ActiveOf
  <2> QED BY <1>1, <1>2, <2>1, <2>2, <2>3 DEF RoomOK, At
<1> QED BY <1>3, <1>4 DEF FindOldest

LEMMA EvictRoom ==
  ASSUME IInv, NEW p \in Procs, RoomOK(p), Evict(p) PROVE RoomOK(p)'
<1> DEFINE r == [req[p] EXCEPT !.pc = "insertSession"]
<1>1. /\ TypeOK /\ SessionsTyped /\ At(p, "evict") /\ Revoke({req[p].sid}) /\ UNCHANGED lastSid
      /\ RequestsTyped /\ req[p] \in Request /\ Become(p, r)
  BY Facts DEF Evict, Goto
<1>2. /\ r.pc = "insertSession" /\ r.user = req[p].user /\ r.mark = req[p].mark
      /\ r.seen = req[p].seen
  BY <1>1 DEF Request
<1>3. req'[p] = r
  BY <1>1 DEF Become, RequestsTyped
<1> HIDE DEF r
<1>4. /\ req[p].mark <= lastSid /\ req[p].seen \in Nat
      /\ Overlapped(p) \/ Cardinality(Old(p) \ {req[p].sid}) < req[p].seen
  BY <1>1 DEF RoomOK, At, Counted, Request
<1>5. /\ DOMAIN sessions' = DOMAIN sessions /\ SessionsKept
      /\ \A s \in DOMAIN sessions : s = req[p].sid => ~sessions'[s].active
  BY <1>1, RevokeRows
<1>6. Old(p)' \subseteq Old(p) \ {req[p].sid}
  BY <1>2, <1>3, <1>5 DEF Old, ActiveOf, SessionsKept
<1>7. Overlapped(p) => Overlapped(p)'
  BY <1>2, <1>3, <1>5 DEF Overlapped, SessionsKept
<1>8. /\ Cardinality(Old(p)') <= Cardinality(Old(p) \ {req[p].sid})
      /\ Cardinality(Old(p)') \in Nat /\ Cardinality(Old(p) \ {req[p].sid}) \in Nat
  <2>1. IsFiniteSet(Old(p) \ {req[p].sid})
    BY <1>1, OldFinite, FS_Subset
  <2> QED BY <1>6, <2>1, FS_Subset, FS_CardinalityType
<1>9. Overlapped(p)' \/ Cardinality(Old(p)') < req[p].seen
  BY <1>4, <1>7, <1>8
<1> QED BY <1>1, <1>2, <1>3, <1>4, <1>9 DEF RoomOK, At

\* No other step of a request leads between the count and the insert.
LEMMA RoomEnters ==
  ASSUME IInv, NEW p \in Procs, Begin(p) \/ Continue(p) \/ Abort(p)
  PROVE  /\ \A q \in Procs : q # p => req'[q] = req[q]
         /\ CountActive(p) \/ FindOldest(p) \/ Evict(p) \/ req'[p].pc \notin Counted
<1>1. RequestsTyped /\ req[p] \in Request
  BY Facts
<1>2. ASSUME NEW r, Become(p, r)
      PROVE  req'[p] = r /\ \A q \in Procs : q # p => req'[q] = req[q]
  BY <1>1, <1>2 DEF Become, RequestsTyped
<1>3. ASSUME Finish(p)
      PROVE  req'[p].pc \notin Counted /\ \A q \in Procs : q # p => req'[q] = req[q]
  BY <1>2, <1>3 DEF Finish, Idle, Counted
<1>4. ASSUME NEW l, l \notin Counted, Goto(p, l)
      PROVE  req'[p].pc \notin Counted /\ \A q \in Procs : q # p => req'[q] = req[q]
  BY <1>1, <1>2, <1>4 DEF Goto, Request
<1>5. CASE Begin(p)
  <2> DEFINE Outside == \E r : Become(p, r) /\ r.pc \notin Counted
  <2>1. ASSUME NEW u \in Users, BeginSignIn(p, u) PROVE Outside
    <3> DEFINE r == [Idle EXCEPT !.pc = "count", !.user = u, !.stores = TRUE]
    <3>1. r.pc = "count"
      BY DEF Idle
    <3>2. Become(p, r)
      BY <2>1 DEF BeginSignIn
    <3> HIDE DEF r
    <3> QED BY <3>1, <3>2 DEF Counted
  <2>2. ASSUME NEW u \in Users, BeginRestore(p, u) PROVE Outside
    <3>0. PICK l \in {"restoreUser", "purgeUser"} : Become(p, [Idle EXCEPT !.pc = l, !.user = u])
      BY <2>2 DEF BeginRestore
    <3> DEFINE r == [Idle EXCEPT !.pc = l, !.user = u]
    <3>1. r.pc \in {"restoreUser", "purgeUser"}
      BY DEF Idle
    <3>2. Become(p, r)
      BY <3>0
    <3> HIDE DEF r
    <3> QED BY <3>1, <3>2 DEF Counted
  <2>3. ASSUME NEW u \in Users, BeginLogoutAll(p, u) PROVE Outside
    <3> DEFINE r == [Idle EXCEPT !.pc = "revokeAll", !.user = u, !.mark = lastSid]
    <3>1. r.pc = "revokeAll"
      BY DEF Idle
    <3>2. Become(p, r)
      BY <2>3 DEF BeginLogoutAll, BeginRevoking
    <3> HIDE DEF r
    <3> QED BY <3>1, <3>2 DEF Counted
  <2>4. ASSUME NEW u \in Users, BeginDelete(p, u) PROVE Outside
    <3> DEFINE r == [Idle EXCEPT !.pc = "softDelete", !.user = u, !.mark = lastSid]
    <3>1. r.pc = "softDelete"
      BY DEF Idle
    <3>2. Become(p, r)
      BY <2>4 DEF BeginDelete, BeginRevoking
    <3> HIDE DEF r
    <3> QED BY <3>1, <3>2 DEF Counted
  <2>5. ASSUME NEW u \in Users, NEW s \in DOMAIN sessions, BeginRevokeOne(p, u, s) PROVE Outside
    <3> DEFINE r == [Idle EXCEPT !.pc = "revokeOne", !.user = u, !.sid = s]
    <3>1. r.pc = "revokeOne"
      BY DEF Idle
    <3>2. Become(p, r)
      BY <2>5 DEF BeginRevokeOne
    <3> HIDE DEF r
    <3> QED BY <3>1, <3>2 DEF Counted
  <2>6. ASSUME NEW h \in issued, BeginRefresh(p, h) PROVE Outside
    <3> DEFINE r == [Idle EXCEPT !.pc = "findToken", !.hash = h, !.dead = Ended(h)]
    <3>1. r.pc = "findToken"
      BY DEF Idle
    <3>2. Become(p, r)
      BY <2>6 DEF BeginRefresh
    <3> HIDE DEF r
    <3> QED BY <3>1, <3>2 DEF Counted
  <2>7. ASSUME NEW h \in issued, BeginLogout(p, h) PROVE Outside
    <3> DEFINE r == [Idle EXCEPT !.pc = "logoutFind", !.hash = h]
    <3>1. r.pc = "logoutFind"
      BY DEF Idle
    <3>2. Become(p, r)
      BY <2>7 DEF BeginLogout
    <3> HIDE DEF r
    <3> QED BY <3>1, <3>2 DEF Counted
  <2>8. ASSUME NEW s \in DOMAIN sessions, BeginChangePassword(p, s) PROVE Outside
    <3> DEFINE r == [Idle EXCEPT !.pc = "revokeOthers", !.user = sessions[s].user,
                            !.sid = s, !.mark = lastSid]
    <3>1. r.pc = "revokeOthers"
      BY DEF Idle
    <3>2. Become(p, r)
      BY <2>8 DEF BeginChangePassword
    <3> HIDE DEF r
    <3> QED BY <3>1, <3>2 DEF Counted
  <2>9. Outside
    BY <1>5, <2>1, <2>2, <2>3, <2>4, <2>5, <2>6, <2>7, <2>8 DEF Begin
  <2> QED BY <1>2, <2>9
<1>6. CASE CountActive(p) \/ FindOldest(p) \/ Evict(p)
  <2>1. \E r : Become(p, r)
    BY <1>6 DEF CountActive, FindOldest, Evict, Goto
  <2> QED BY <1>2, <1>6, <2>1
<1>7. CASE InsertSession(p)
  <2> DEFINE l == IF req[p].stores THEN "insertToken" ELSE "answerSignIn"
             r == [req[p] EXCEPT !.pc = l, !.sid = lastSid + 1, !.seen = 0, !.mark = 0]
  <2>1. Become(p, r) /\ r.pc = l /\ l \notin Counted
    BY <1>1, <1>7 DEF InsertSession, Request, Counted
  <2> HIDE DEF r
  <2> QED BY <1>2, <2>1
<1>8. CASE FindToken(p) \/ LogoutFind(p) \/ FindSession(p)
  <2>1. CASE Finish(p)
    BY <1>3, <2>1
  <2>2. CASE ~Finish(p)
    <3>1. CASE FindToken(p)
      <4> DEFINE t == tokens[req[p].hash]
                 next == IF t.used \/ t.revoked THEN "replayRevoke"
                         ELSE IF t.exp < clock THEN "expireRevoke" ELSE "findUser"
                 r == [req[p] EXCEPT !.pc = next, !.sid = t.sid, !.user = t.user, !.exp = t.exp]
      <4>1. r.pc = next
        BY <1>1 DEF Request
      <4>2. Become(p, r)
        BY <2>2, <3>1 DEF FindToken
      <4>3. next \notin Counted
        BY DEF Counted
      <4> HIDE DEF r, next
      <4> QED BY <1>2, <4>1, <4>2, <4>3
    <3>2. CASE LogoutFind(p)
      <4> DEFINE t == tokens[req[p].hash]
                 r == [req[p] EXCEPT !.pc = "logoutSession", !.sid = t.sid, !.user = t.user]
      <4>1. r.pc = "logoutSession"
        BY <1>1 DEF Request
      <4>2. Become(p, r)
        BY <2>2, <3>2 DEF LogoutFind
      <4> HIDE DEF r
      <4> QED BY <1>2, <4>1, <4>2 DEF Counted
    <3>3. CASE FindSession(p)
      <4> DEFINE r == [req[p] EXCEPT !.pc = "markUsed", !.new = lastHash + 1]
      <4>1. r.pc = "markUsed"
        BY <1>1 DEF Request
      <4>2. Become(p, r)
        BY <2>2, <3>3 DEF FindSession
      <4> HIDE DEF r
      <4> QED BY <1>2, <4>1, <4>2 DEF Counted
    <3> QED BY <1>8, <3>1, <3>2, <3>3
  <2> QED BY <2>1, <2>2
<1>9. CASE Finish(p) \/ \E l : l \notin Counted /\ Goto(p, l)
  BY <1>3, <1>4, <1>9
<1>10. CASE \/ RestoreUser(p) \/ InsertToken(p) \/ AnswerSignIn(p) \/ ReplayRevoke(p)
            \/ RevokeFamily(p) \/ ExpireRevoke(p) \/ FindUser(p) \/ Abort(p)
            \/ PurgeUser(p) \/ \E l : Refused(p, l)
  BY <1>9, <1>10 DEF RestoreUser, PurgeUser, Refused, InsertToken, AnswerSignIn,
     ReplayRevoke, RevokeFamily, ExpireRevoke, FindUser, Abort, Counted
<1>11. CASE \/ MarkUsed(p) \/ InsertChild(p) \/ UpdateHash(p) \/ AnswerRefresh(p)
            \/ LogoutSession(p) \/ LogoutToken(p)
  BY <1>9, <1>11 DEF MarkUsed, InsertChild, UpdateHash, AnswerRefresh, LogoutSession,
     LogoutToken, Counted
<1>12. CASE \/ SoftDelete(p) \/ RevokeAll(p) \/ RevokeOthers(p) \/ AnswerRevoke(p)
            \/ RevokeOne(p)
  BY <1>9, <1>12 DEF SoftDelete, RevokeAll, RevokeOthers, AnswerRevoke, RevokeOne, Counted
<1> QED BY <1>5, <1>6, <1>7, <1>8, <1>10, <1>11, <1>12 DEF Continue

LEMMA RoomStep ==
  ASSUME IInv, \A p \in Procs : RoomOK(p), [Next]_vars
  PROVE  \A p \in Procs : RoomOK(p)'
<1>1. IInv' /\ TablesGrow /\ TypeOK /\ TypeOK'
  BY StepIInv DEF IInv
<1>2. ASSUME NEW p \in Procs, req'[p] = req[p] PROVE RoomOK(p)'
  BY <1>1, <1>2, RoomKept
<1>3. ASSUME NEW p \in Procs, req'[p].pc \notin Counted PROVE RoomOK(p)'
  BY <1>3 DEF RoomOK, Counted, At
<1>4. ASSUME NEW p \in Procs, Begin(p) \/ Continue(p) \/ Abort(p)
      PROVE  RoomOK(p)' /\ \A q \in Procs : q # p => RoomOK(q)'
  BY <1>2, <1>3, <1>4, RoomEnters, CountActiveRoom, FindOldestRoom, EvictRoom
<1>5. CASE Tick \/ UNCHANGED vars
  BY <1>2, <1>5 DEF Tick, vars
<1> QED BY <1>4, <1>5 DEF Next

\* Sign-ins that do not overlap stay within maxActiveSessions, or do not add to a
\* number that was above it already.
THEOREM OvershootExplained == Spec => OvershootNeedsOverlap
<1> DEFINE Rooms == \A p \in Procs : RoomOK(p)
<1>1. Init => Rooms
  BY DEF Init, Idle, RoomOK, Counted, At
<1>2. IInv /\ Rooms /\ [Next]_vars => Rooms'
  BY RoomStep
<1>3. ASSUME IInv, Rooms, NEW p \in Procs, NEW u \in Users, InsertSession(p), u = req[p].user
      PROVE  \/ Cardinality(ActiveOf(u)') <= MaxActive
             \/ Cardinality(ActiveOf(u)') <= req[p].seen
             \/ \E s \in DOMAIN sessions : s > req[p].mark /\ sessions[s].user = u
  <2>1. /\ TypeOK /\ RoomOK(p) /\ At(p, "insertSession") /\ MaxActive \in Nat /\ MaxActive >= 1
        /\ req[p].seen \in Nat /\ req[p].mark \in Nat /\ lastSid \in Nat
    <3>1. TypeOK /\ RequestsTyped /\ req[p] \in Request
      BY <1>3, Facts
    <3>2. req[p].seen \in Nat /\ req[p].mark \in Nat
      BY <3>1 DEF Request
    <3>3. MaxActive \in Nat /\ MaxActive >= 1
      BY BoundsAssumption
    <3>4. lastSid \in Nat
      BY <3>1 DEF TypeOK
    <3>5. RoomOK(p)
      BY <1>3
    <3>6. At(p, "insertSession")
      BY <1>3 DEF InsertSession
    <3> QED BY <3>1, <3>2, <3>3, <3>4, <3>5, <3>6
  <2>2. SUFFICES ASSUME ~Overlapped(p)
                 PROVE  \/ Cardinality(ActiveOf(u)') <= MaxActive
                        \/ Cardinality(ActiveOf(u)') <= req[p].seen
    BY <1>3 DEF Overlapped
  <2>3. ActiveOf(u) = Old(p)
    <3>1. \A s \in ActiveOf(u) : s \in Nat /\ s <= req[p].mark
      BY <1>3, <2>1, <2>2 DEF Overlapped, ActiveOf, TypeOK
    <3> QED BY <1>3, <3>1 DEF Old
  <2>4. lastSid + 1 \notin DOMAIN sessions
    BY <2>1 DEF TypeOK
  <2>5. ActiveOf(u)' = Old(p) \cup {lastSid + 1}
    BY <1>3, <2>3, <2>4 DEF InsertSession, ActiveOf
  <2>6. lastSid + 1 \notin Old(p)
    BY <2>3, <2>4 DEF ActiveOf
  <2>7. IsFiniteSet(Old(p)) /\ Cardinality(Old(p)) \in Nat
    BY <2>1, OldFinite
  <2>8. Cardinality(ActiveOf(u)') = Cardinality(Old(p)) + 1
    BY <2>5, <2>6, <2>7, FS_AddElement
  <2>9. Old(p) = {} => Cardinality(Old(p)) = 0
    BY FS_EmptySet
  <2> QED BY <2>1, <2>2, <2>7, <2>8, <2>9 DEF RoomOK
<1> HIDE DEF Rooms
<1>4. IInv /\ Rooms => (\A p \in Procs : \A u \in Users :
         InsertSession(p) /\ u = req[p].user =>
           \/ Cardinality(ActiveOf(u)') <= MaxActive
           \/ Cardinality(ActiveOf(u)') <= req[p].seen
           \/ \E s \in DOMAIN sessions : s > req[p].mark /\ sessions[s].user = u)
  BY <1>3
<1> QED BY <1>1, <1>2, <1>4, Invariance, PTL DEF Spec, OvershootNeedsOverlap

-----------------------------------------------------------------------------
(* SessionTokens implements SessionLedger: every statement of every request *)
(* opens a session, closes sessions of one user, stores or spends tokens of *)
(* one session, or leaves the ledger as it is.                              *)

\* The ledger does not see clocks, requests, users or the hash of a session.
LEMMA LedgerUnchanged ==
  ASSUME SessionsTyped, UNCHANGED <<tokens, lastSid>>,
         DOMAIN sessions' = DOMAIN sessions,
         \A s \in DOMAIN sessions : /\ sessions'[s].user = sessions[s].user
                                    /\ sessions'[s].active = sessions[s].active
  PROVE  UNCHANGED Ledger!ledger
<1>1. [s \in 1..lastSid |-> sessions[s].user]'
        = [s \in 1..lastSid |-> sessions[s].user]
  BY DEF SessionsTyped
<1>2. {s \in DOMAIN sessions : sessions[s].active}'
        = {s \in DOMAIN sessions : sessions[s].active}
  OBVIOUS
<1>3. /\ [t \in DOMAIN tokens |-> tokens[t].sid]'
           = [t \in DOMAIN tokens |-> tokens[t].sid]
      /\ {t \in DOMAIN tokens : tokens[t].used \/ tokens[t].revoked}'
           = {t \in DOMAIN tokens : tokens[t].used \/ tokens[t].revoked}
  OBVIOUS
<1> QED BY <1>1, <1>2, <1>3 DEF Ledger!ledger

\* Revoking sessions is a Close of the ledger, or shows nothing of it.
LEMMA LedgerCloses ==
  ASSUME SessionsTyped, UNCHANGED <<tokens, lastSid>>, NEW S, Revoke(S),
         NEW u \in Users, \A s \in S : s \in DOMAIN sessions => sessions[s].user = u
  PROVE  Ledger!LedgerNext
<1>1. /\ SessionsKept
      /\ DOMAIN sessions' = DOMAIN sessions
      /\ \A s \in DOMAIN sessions : s \notin S => sessions'[s] = sessions[s]
  BY RevokeRows
<1>2. [s \in 1..lastSid |-> sessions[s].user]'
        = [s \in 1..lastSid |-> sessions[s].user]
  BY <1>1 DEF SessionsTyped, SessionsKept
<1>3. /\ {s \in DOMAIN sessions : sessions[s].active}'
           \subseteq {s \in DOMAIN sessions : sessions[s].active}
      /\ \A s \in {s \in DOMAIN sessions : sessions[s].active}
                    \ {s \in DOMAIN sessions : sessions[s].active}' :
           s \in DOMAIN sessions /\ sessions[s].user = u
  BY <1>1 DEF SessionsKept
<1>4. \A s \in DOMAIN sessions :
        [r \in 1..lastSid |-> sessions[r].user][s] = sessions[s].user
  BY DEF SessionsTyped
<1>5. Ledger!Close(u)
  BY <1>2, <1>3, <1>4 DEF Ledger!Close
<1> QED BY <1>5 DEF Ledger!LedgerNext

\* Inserting a session is an Open of the ledger.
LEMMA LedgerOpens ==
  ASSUME IInv, NEW p \in Procs, InsertSession(p)
  PROVE  Ledger!LedgerNext
<1>1. /\ TypeOK /\ SessionsTyped /\ RequestOK(p) /\ At(p, "insertSession")
      /\ lastSid \in Nat /\ UNCHANGED tokens
  BY Facts DEF InsertSession, TypeOK
<1>2. PICK u \in Users : u = req[p].user
  BY <1>1 DEF RequestOK, Knows, At, SignInLabels
<1> DEFINE old == [s \in 1..lastSid |-> sessions[s].user]
<1>3. /\ lastSid' = lastSid + 1
      /\ DOMAIN sessions' = DOMAIN sessions \cup {lastSid + 1}
      /\ sessions'[lastSid + 1].user = u /\ sessions'[lastSid + 1].active
      /\ \A s \in DOMAIN sessions : s # lastSid + 1 => sessions'[s] = sessions[s]
  BY <1>2 DEF InsertSession
<1>4. old \in Seq(Users) /\ Len(old) = lastSid
  BY <1>1 DEF SessionsTyped, SessionRow
<1>5. [s \in 1..lastSid |-> sessions[s].user]' = Append(old, u)
  <2> DEFINE seq == Append(old, u)
  <2>1. /\ seq \in Seq(Users) /\ Len(seq) = lastSid + 1
        /\ \A s \in 1..lastSid : seq[s] = sessions[s].user
        /\ seq[lastSid + 1] = u
    BY <1>1, <1>2, <1>4, AppendProperties
  <2> HIDE DEF seq
  <2>2. seq = [s \in 1..(lastSid + 1) |-> seq[s]]
    BY <1>1, <2>1
  <2>3. \A s \in 1..(lastSid + 1) : sessions'[s].user = seq[s]
    BY <1>1, <1>3, <2>1 DEF SessionsTyped
  <2>4. [s \in 1..lastSid |-> sessions[s].user]' = [s \in 1..(lastSid + 1) |-> seq[s]]
    BY <1>3, <2>3
  <2> QED BY <2>2, <2>4 DEF seq
<1>6. {s \in DOMAIN sessions : sessions[s].active}'
        = {s \in DOMAIN sessions : sessions[s].active} \cup {lastSid + 1}
  BY <1>1, <1>3 DEF SessionsTyped
<1>7. Ledger!Open(u)
  BY <1>1, <1>4, <1>5, <1>6 DEF Ledger!Open
<1> QED BY <1>7 DEF Ledger!LedgerNext

\* Flags of tokens of one session are set.
LEMMA LedgerSpends ==
  ASSUME TokensTyped, UNCHANGED <<sessions, lastSid>>, NEW s \in 1..lastSid,
         DOMAIN tokens' = DOMAIN tokens, TokensKept,
         \A t \in DOMAIN tokens : tokens[t].sid = s \/ tokens'[t] = tokens[t]
  PROVE  Ledger!LedgerNext
<1>1. [t \in DOMAIN tokens |-> tokens[t].sid]' = [t \in DOMAIN tokens |-> tokens[t].sid]
  BY DEF TokensKept
<1>2. UNCHANGED <<[r \in 1..lastSid |-> sessions[r].user],
                  {r \in DOMAIN sessions : sessions[r].active}>>
  OBVIOUS
<1>3. {t \in DOMAIN tokens : tokens[t].used \/ tokens[t].revoked}
        \subseteq {t \in DOMAIN tokens : tokens[t].used \/ tokens[t].revoked}'
  BY DEF TokensKept
<1>4. \A t \in {t \in DOMAIN tokens : tokens[t].used \/ tokens[t].revoked}'
                 \ {t \in DOMAIN tokens : tokens[t].used \/ tokens[t].revoked} :
        t \in DOMAIN tokens /\ tokens[t].sid = s
  OBVIOUS
<1>5. \A t \in DOMAIN tokens : [r \in DOMAIN tokens |-> tokens[r].sid][t] = tokens[t].sid
  OBVIOUS
<1>6. Ledger!Spend(s)
  BY <1>1, <1>2, <1>3, <1>4, <1>5 DEF Ledger!Spend
<1>7. s \in DOMAIN [r \in 1..lastSid |-> sessions[r].user]
  OBVIOUS
<1> QED BY <1>6, <1>7 DEF Ledger!LedgerNext

\* Inserting a token whose session exists is a step of the ledger.
LEMMA LedgerStores ==
  ASSUME TokensTyped, UNCHANGED <<sessions, lastSid>>, NEW h \in Nat, NEW row \in TokenRow,
         h \notin DOMAIN tokens, InsertTokenRow(h, row),
         row.sid \in 1..lastSid, ~row.used, ~row.revoked
  PROVE  Ledger!LedgerNext
<1> DEFINE old == [t \in DOMAIN tokens |-> tokens[t].sid]
           new == [t \in DOMAIN tokens |-> tokens[t].sid]'
<1>1. /\ DOMAIN tokens' = DOMAIN tokens \cup {h}
      /\ tokens'[h] = row
      /\ \A t \in DOMAIN tokens : tokens'[t] = tokens[t]
  BY DEF InsertTokenRow
<1>2. new = [r \in DOMAIN old \cup {h} |-> IF r = h THEN row.sid ELSE old[r]]
  BY <1>1
<1>3. h \in DOMAIN new \ DOMAIN old
  BY <1>1
<1>4. {t \in DOMAIN tokens : tokens[t].used \/ tokens[t].revoked}'
        = {t \in DOMAIN tokens : tokens[t].used \/ tokens[t].revoked}
  BY <1>1
<1>5. UNCHANGED <<[r \in 1..lastSid |-> sessions[r].user],
                  {r \in DOMAIN sessions : sessions[r].active}>>
  OBVIOUS
<1>6. Ledger!Store(row.sid)
  BY <1>2, <1>3, <1>4, <1>5 DEF Ledger!Store
<1>7. row.sid \in DOMAIN [r \in 1..lastSid |-> sessions[r].user]
  OBVIOUS
<1> QED BY <1>6, <1>7 DEF Ledger!LedgerNext

-----------------------------------------------------------------------------
(* Every step of SessionTokens.                                            *)

\* Requests that read, answer or end leave both tables as they are.
LEMMA LedgerQuiet ==
  ASSUME SessionsTyped, UNCHANGED <<sessions, tokens, lastSid>>
  PROVE  UNCHANGED Ledger!ledger
BY LedgerUnchanged

\* Every statement of a sign-in.
LEMMA LedgerSignIn ==
  ASSUME IInv, NEW p \in Procs,
         \/ RestoreUser(p) \/ PurgeUser(p) \/ CountActive(p) \/ FindOldest(p)
         \/ Evict(p) \/ \E l : Refused(p, l)
         \/ InsertSession(p) \/ InsertToken(p) \/ AnswerSignIn(p)
  PROVE  [Ledger!LedgerNext]_(Ledger!ledger)
<1>1. /\ TypeOK /\ SessionsTyped /\ TokensTyped /\ RequestOK(p) /\ req[p] \in Request
  BY Facts
<1>2. CASE \/ RestoreUser(p) \/ CountActive(p) \/ FindOldest(p) \/ AnswerSignIn(p)
           \/ \E l : Refused(p, l)
  BY <1>1, <1>2, LedgerQuiet DEF RestoreUser, CountActive, FindOldest, AnswerSignIn, Refused
<1>3. CASE Evict(p)
  <2>1. /\ req[p].user \in Users
        /\ req[p].sid \in DOMAIN sessions => sessions[req[p].sid].user = req[p].user
    BY <1>1, <1>3 DEF Evict, RequestOK, Knows, At, SignInLabels
  <2>2. Revoke({req[p].sid}) /\ UNCHANGED <<tokens, lastSid>>
    BY <1>3 DEF Evict
  <2> QED BY <1>1, <2>1, <2>2, LedgerCloses
<1>4. CASE InsertSession(p)
  BY <1>4, LedgerOpens
<1>5. CASE InsertToken(p)
  <2> DEFINE row == [user |-> req[p].user, sid |-> req[p].sid, parent |-> 0,
                     used |-> FALSE, revoked |-> FALSE, exp |-> req[p].exp]
  <2>1. /\ req[p].new \in Nat /\ req[p].new \notin DOMAIN tokens
        /\ req[p].user \in Users /\ req[p].sid \in DOMAIN sessions
    BY <1>1, <1>5 DEF InsertToken, RequestOK, Knows, Fresh, At, SignInLabels, Pending, TypeOK
  <2>2. row \in TokenRow /\ row.sid \in 1..lastSid /\ ~row.used /\ ~row.revoked
    BY <1>1, <2>1 DEF TokenRow, Request, SessionsTyped
  <2>3. InsertTokenRow(req[p].new, row) /\ UNCHANGED <<sessions, lastSid>>
    BY <1>5 DEF InsertToken
  <2> HIDE DEF row
  <2> QED BY <1>1, <2>1, <2>2, <2>3, LedgerStores
<1>6. CASE PurgeUser(p)
  <2>1. req[p].user \in Users
    BY <1>1, <1>6 DEF PurgeUser, RequestOK, Knows, At, SignInLabels
  <2>2. Revoke(ActiveOf(req[p].user)) /\ UNCHANGED <<tokens, lastSid>>
    BY <1>6 DEF PurgeUser
  <2>3. \A s \in ActiveOf(req[p].user) : sessions[s].user = req[p].user
    BY DEF ActiveOf
  <2> QED BY <1>1, <2>1, <2>2, <2>3, LedgerCloses
<1> QED BY <1>2, <1>3, <1>4, <1>5, <1>6

\* Every statement of a refresh.
LEMMA LedgerRefresh ==
  ASSUME IInv, NEW p \in Procs,
         \/ FindToken(p) \/ ReplayRevoke(p) \/ RevokeFamily(p) \/ ExpireRevoke(p)
         \/ FindUser(p) \/ FindSession(p) \/ MarkUsed(p) \/ InsertChild(p)
         \/ UpdateHash(p) \/ AnswerRefresh(p)
  PROVE  [Ledger!LedgerNext]_(Ledger!ledger)
<1>1. /\ TypeOK /\ Lineage /\ SessionsTyped /\ TokensTyped /\ RequestOK(p)
      /\ req[p] \in Request
  BY Facts
<1>2. CASE FindToken(p) \/ FindUser(p) \/ FindSession(p) \/ AnswerRefresh(p)
  BY <1>1, <1>2, LedgerQuiet DEF FindToken, FindUser, FindSession, AnswerRefresh
<1>3. ASSUME req[p].pc \in RefreshLabels \ {"findToken"}
      PROVE  /\ req[p].hash \in DOMAIN tokens
             /\ req[p].sid = tokens[req[p].hash].sid
             /\ req[p].user = tokens[req[p].hash].user
             /\ req[p].sid \in DOMAIN sessions /\ req[p].sid \in 1..lastSid
             /\ sessions[req[p].sid].user = req[p].user
             /\ req[p].user \in Users
  <2>1. /\ req[p].hash \in DOMAIN tokens
        /\ req[p].sid = tokens[req[p].hash].sid
        /\ req[p].user = tokens[req[p].hash].user
    BY <1>1, <1>3 DEF RequestOK, Knows
  <2> QED BY <1>1, <2>1 DEF Lineage, TokensTyped, TokenRow, SessionsTyped
<1>4. CASE ReplayRevoke(p) \/ ExpireRevoke(p)
  <2>1. /\ req[p].pc \in RefreshLabels \ {"findToken"}
        /\ Revoke({req[p].sid}) /\ UNCHANGED <<tokens, lastSid>>
    BY <1>4 DEF ReplayRevoke, ExpireRevoke, At, RefreshLabels
  <2> QED BY <1>1, <1>3, <2>1, LedgerCloses
<1>5. CASE RevokeFamily(p)
  <2>1. /\ req[p].pc \in RefreshLabels \ {"findToken"}
        /\ RevokeTokens(FamilyOf(req[p].hash))
        /\ UNCHANGED <<sessions, lastSid, lastHash>>
    BY <1>5 DEF RevokeFamily, At, RefreshLabels
  <2>2. TokensKept /\ DOMAIN tokens' = DOMAIN tokens
    BY <1>1, <2>1, RevokeTokensRows
  <2>3. \A t \in FamilyOf(req[p].hash) : t \in DOMAIN tokens /\ tokens[t].sid = req[p].sid
    <3>1. req[p].hash \in Nat \ {0}
      BY <1>1, <1>3, <2>1 DEF TokensTyped, TypeOK
    <3> QED BY <1>1, <1>3, <2>1, <3>1 DEF FamilyOf, Lineage
  <2>4. \A t \in DOMAIN tokens : tokens[t].sid = req[p].sid \/ tokens'[t] = tokens[t]
    BY <2>1, <2>3 DEF RevokeTokens
  <2> QED BY <1>1, <1>3, <2>1, <2>2, <2>4, LedgerSpends
<1>6. CASE MarkUsed(p)
  <2>1. /\ req[p].pc \in RefreshLabels \ {"findToken"}
        /\ tokens' = [tokens EXCEPT ![req[p].hash].used = TRUE]
        /\ UNCHANGED <<sessions, lastSid, lastHash>>
    BY <1>6 DEF MarkUsed, At, RefreshLabels, RotateLabels
  <2>2. TokensKept /\ DOMAIN tokens' = DOMAIN tokens
    BY <1>1, <2>1 DEF TokensKept, TokensTyped, TokenRow
  <2>3. \A t \in DOMAIN tokens : tokens[t].sid = req[p].sid \/ tokens'[t] = tokens[t]
    BY <1>3, <2>1
  <2> QED BY <1>1, <1>3, <2>1, <2>2, <2>3, LedgerSpends
<1>7. CASE InsertChild(p)
  <2> DEFINE row == [user |-> req[p].user, sid |-> req[p].sid, parent |-> req[p].hash,
                     used |-> FALSE, revoked |-> FALSE, exp |-> req[p].exp]
  <2>1. req[p].pc \in RefreshLabels \ {"findToken"} /\ req[p].pc \in Pending
    BY <1>7 DEF InsertChild, At, RefreshLabels, RotateLabels, Pending
  <2>2. req[p].new \in Nat /\ req[p].new \notin DOMAIN tokens
    BY <1>1, <2>1 DEF RequestOK, Knows, Fresh, TypeOK
  <2>3. row \in TokenRow /\ row.sid \in 1..lastSid /\ ~row.used /\ ~row.revoked
    BY <1>1, <1>3, <2>1 DEF TokenRow, Request
  <2>4. InsertTokenRow(req[p].new, row) /\ UNCHANGED <<sessions, lastSid>>
    BY <1>7 DEF InsertChild
  <2> HIDE DEF row
  <2> QED BY <1>1, <2>2, <2>3, <2>4, LedgerStores
<1>8. CASE UpdateHash(p)
  <2>1. /\ sessions' = [sessions EXCEPT ![req[p].sid].hash = req[p].new]
        /\ UNCHANGED <<tokens, lastSid>>
    BY <1>8 DEF UpdateHash
  <2>2. /\ DOMAIN sessions' = DOMAIN sessions
        /\ \A s \in DOMAIN sessions : /\ sessions'[s].user = sessions[s].user
                                      /\ sessions'[s].active = sessions[s].active
    BY <1>1, <2>1 DEF SessionsTyped, SessionRow
  <2> QED BY <1>1, <2>1, <2>2, LedgerUnchanged
<1> QED BY <1>2, <1>4, <1>5, <1>6, <1>7, <1>8

\* Every statement of a logout or of a revocation.
LEMMA LedgerRevoke ==
  ASSUME IInv, NEW p \in Procs,
         \/ LogoutFind(p) \/ LogoutSession(p) \/ LogoutToken(p)
         \/ SoftDelete(p) \/ RevokeAll(p) \/ RevokeOthers(p) \/ AnswerRevoke(p)
         \/ RevokeOne(p)
  PROVE  [Ledger!LedgerNext]_(Ledger!ledger)
<1>1. /\ TypeOK /\ Lineage /\ SessionsTyped /\ TokensTyped /\ RequestOK(p)
      /\ req[p] \in Request
  BY Facts
<1>2. CASE LogoutFind(p) \/ SoftDelete(p) \/ AnswerRevoke(p)
  BY <1>1, <1>2, LedgerQuiet DEF LogoutFind, SoftDelete, AnswerRevoke
<1>3. CASE LogoutSession(p) \/ RevokeOne(p)
  <2>1. /\ req[p].pc \in {"logoutSession", "revokeOne"}
        /\ Revoke({req[p].sid}) /\ UNCHANGED <<tokens, lastSid>>
    BY <1>3 DEF LogoutSession, RevokeOne, At
  <2>2. req[p].sid \in DOMAIN sessions /\ req[p].user = sessions[req[p].sid].user
    BY <1>1, <2>1 DEF RequestOK, Knows
  <2>3. req[p].user \in Users
    BY <1>1, <2>2 DEF SessionsTyped, SessionRow
  <2> QED BY <1>1, <2>1, <2>2, <2>3, LedgerCloses
<1>4. CASE RevokeAll(p) \/ RevokeOthers(p)
  <2>1. PICK S \in SUBSET ActiveOf(req[p].user) : Revoke(S) /\ UNCHANGED <<tokens, lastSid>>
    BY <1>4 DEF RevokeAll, RevokeOthers
  <2>2. \A s \in S : s \in DOMAIN sessions /\ sessions[s].user = req[p].user
    BY DEF ActiveOf
  <2>3. CASE req[p].user \in Users
    BY <1>1, <2>1, <2>2, <2>3, LedgerCloses
  <2>4. CASE req[p].user \notin Users
    <3>1. S = {}
      BY <1>1, <2>2, <2>4 DEF SessionsTyped, SessionRow
    <3>2. sessions' = sessions
      BY <1>1, <2>1, <3>1 DEF Revoke, SessionsTyped
    <3> QED BY <1>1, <2>1, <3>2, LedgerQuiet
  <2> QED BY <2>3, <2>4
<1>5. CASE LogoutToken(p)
  <2>1. /\ RevokeTokens({req[p].hash})
        /\ UNCHANGED <<sessions, lastSid, lastHash>>
    BY <1>5 DEF LogoutToken
  <2>2. TokensKept /\ DOMAIN tokens' = DOMAIN tokens
    BY <1>1, <2>1, RevokeTokensRows
  <2>3. CASE req[p].hash \in DOMAIN tokens
    <3>1. tokens[req[p].hash].sid \in 1..lastSid
      BY <1>1, <2>3 DEF Lineage, SessionsTyped
    <3>2. \A t \in DOMAIN tokens :
            tokens[t].sid = tokens[req[p].hash].sid \/ tokens'[t] = tokens[t]
      BY <2>1 DEF RevokeTokens
    <3> QED BY <1>1, <2>1, <2>2, <3>1, <3>2, LedgerSpends
  <2>4. CASE req[p].hash \notin DOMAIN tokens
    <3>1. tokens' = tokens
      BY <1>1, <2>1, <2>4 DEF RevokeTokens, TokensTyped
    <3> QED BY <1>1, <2>1, <3>1, LedgerQuiet
  <2> QED BY <2>3, <2>4
<1> QED BY <1>2, <1>3, <1>4, <1>5

\* Every step of the requests is a step of the ledger or a stutter.
LEMMA LedgerStep ==
  ASSUME IInv, [Next]_vars
  PROVE  [Ledger!LedgerNext]_(Ledger!ledger)
<1>1. SessionsTyped
  BY Parts
<1>2. ASSUME NEW p \in Procs, Begin(p) \/ Abort(p)
      PROVE  UNCHANGED <<sessions, tokens, lastSid>>
  BY <1>2 DEF Begin, Abort, BeginSignIn, BeginRestore, BeginLogoutAll, BeginDelete,
     BeginRevoking, BeginRevokeOne, BeginRefresh, BeginLogout, BeginChangePassword
<1>3. ASSUME NEW p \in Procs, Continue(p)
      PROVE  [Ledger!LedgerNext]_(Ledger!ledger)
  BY <1>3, LedgerSignIn, LedgerRefresh, LedgerRevoke DEF Continue
<1>4. CASE Tick \/ UNCHANGED vars
  BY <1>1, <1>4, LedgerQuiet DEF Tick, vars
<1> QED BY <1>1, <1>2, <1>3, <1>4, LedgerQuiet DEF Next

\* The requests, however they interleave, implement the ledger.
THEOREM Refinement == Spec => ImplementsLedger
<1>1. Init => Ledger!LedgerInit
  BY DEF Init, Ledger!LedgerInit
<1>2. IInv /\ [Next]_vars => [Ledger!LedgerNext]_(Ledger!ledger)
  BY LedgerStep
<1> QED BY <1>1, <1>2, Invariance, PTL DEF Spec, ImplementsLedger, Ledger!LedgerSpec
=============================================================================
