--------------------------- MODULE SessionTokens ---------------------------
(***************************************************************************)
(* Sessions and rotating refresh tokens of the auth service.               *)
(*                                                                         *)
(* The PostgreSQL tables `sessions` and `refresh_tokens` are shared by     *)
(* every request of every instance of the service; no handler opens a      *)
(* transaction, so each awaited statement is one atomic step and any other *)
(* request may run between two of them.  A request that throws, or whose   *)
(* instance dies, stops between two statements (Abort).                    *)
(***************************************************************************)
EXTENDS Integers, FiniteSets

CONSTANTS
  Users,            \* accounts
  NoUser,           \* "no account" in the local state of an idle request
  Procs,            \* request slots: requests that can be in flight together
  Ops,              \* the operations clients use (a subset of AllOps)
  MaxActive,        \* maxActiveSessions of SessionService (5 in the code)
  TTL,              \* refreshTokenExpiryDays, in ticks of the clock
  MaxTime,          \* bound: last tick of the clock
  MaxSessions,      \* bound: rows ever inserted into `sessions`
  MaxTokens         \* bound: refresh tokens ever generated

AllOps == {"signIn", "restore", "refresh", "logout", "logoutAll",
           "changePassword", "deleteAccount", "revokeOne"}

ASSUME UsersAssumption == NoUser \notin Users
ASSUME OpsAssumption == Ops \subseteq AllOps
ASSUME BoundsAssumption ==
  /\ MaxActive \in Nat \ {0}
  /\ TTL \in Nat
  /\ MaxTime \in Nat
  /\ MaxSessions \in Nat
  /\ MaxTokens \in Nat

VARIABLES
  clock,            \* the time all instances read with Date.now()
  present,          \* users whose deletedAt is null (what findById finds)
  gone,             \* users who were purged; no statement sees rows of theirs
  sessions,         \* table: session id -> row; ids grow with createdAt
  tokens,           \* table: token hash -> row
  lastSid,          \* id of the youngest session row, 0 when there is none
  lastHash,         \* last refresh token generated (hashes never collide)
  issued,           \* tokens that were sent to a client
  req               \* local state of the requests in flight

accounts == <<present, gone>>
vars == <<clock, present, gone, sessions, tokens, lastSid, lastHash, issued, req>>

-----------------------------------------------------------------------------
(* Rows and local state.  Hash 0 is the null parent of a first token.      *)

SessionRow == [user: Users, active: BOOLEAN, exp: Nat, hash: Nat]

TokenRow == [user: Users, sid: Nat, parent: Nat,
             used: BOOLEAN, revoked: BOOLEAN, exp: Nat]

SignInLabels == {"restoreUser", "purgeUser", "count", "findOldest", "evict",
                 "insertSession", "insertToken", "answerSignIn"}
RotateLabels == {"markUsed", "insertChild", "updateHash", "answerRefresh"}
RefreshLabels == {"findToken", "replayRevoke", "revokeFamily", "expireRevoke",
                  "findUser", "findSession"} \cup RotateLabels
LogoutLabels == {"logoutFind", "logoutSession", "logoutToken"}
RevokeLabels == {"softDelete", "revokeAll", "revokeOthers", "answerRevoke",
                 "revokeOne"}

Labels == {"idle"} \cup SignInLabels \cup RefreshLabels
                   \cup LogoutLabels \cup RevokeLabels

Request == [pc: Labels,
            user: Users \cup {NoUser},
            stores: BOOLEAN,   \* the sign-in writes a refresh_tokens row
            hash: Nat,         \* the refresh token the client presented
            new: Nat,          \* the refresh token this request generated
            sid: Nat,          \* session being evicted, used or kept
            exp: Nat,          \* expiresAt computed for the new rows
            seen: Nat,         \* active sessions counted
            mark: Nat,         \* youngest session when the request looked
            dead: BOOLEAN]     \* the token had ended before the request

Idle == [pc |-> "idle", user |-> NoUser, stores |-> FALSE, hash |-> 0,
         new |-> 0, sid |-> 0, exp |-> 0, seen |-> 0, mark |-> 0,
         dead |-> FALSE]

Init ==
  /\ clock = 0
  /\ present = Users
  /\ gone = {}
  /\ sessions = [s \in {} |-> 0]
  /\ tokens = [t \in {} |-> 0]
  /\ lastSid = 0
  /\ lastHash = 0
  /\ issued = {}
  /\ req = [p \in Procs |-> Idle]

-----------------------------------------------------------------------------
(* Statements of the two repositories.                                     *)

ActiveOf(u) == {s \in DOMAIN sessions : sessions[s].user = u /\ sessions[s].active}

\* findOldestActiveSession: ORDER BY created_at ASC LIMIT 1.
OldestOf(u) == {s \in ActiveOf(u) : \A r \in ActiveOf(u) : s <= r}

\* revokeSession, revokeAllUserSessions, revokeAllOtherUserSessions.
Revoke(S) == sessions' = [s \in DOMAIN sessions |->
                            IF s \in S THEN [sessions[s] EXCEPT !.active = FALSE]
                                       ELSE sessions[s]]

InsertTokenRow(h, row) ==
  tokens' = [t \in DOMAIN tokens \cup {h} |-> IF t = h THEN row ELSE tokens[t]]

\* revokeFamily: the token itself and the rows whose parent it is.
FamilyOf(h) == {t \in DOMAIN tokens : t = h \/ tokens[t].parent = h}

RevokeTokens(T) == tokens' = [t \in DOMAIN tokens |->
                                IF t \in T THEN [tokens[t] EXCEPT !.revoked = TRUE]
                                           ELSE tokens[t]]

-----------------------------------------------------------------------------
(* Request bookkeeping.                                                    *)

At(p, l) == req[p].pc = l
Become(p, r) == req' = [req EXCEPT ![p] = r]
Goto(p, l) == Become(p, [req[p] EXCEPT !.pc = l])
Finish(p) == Become(p, Idle)

Busy == {p \in Procs : req[p].pc # "idle"}

\* Room for what this request and those in flight can still insert.
Room == /\ lastSid + Cardinality(Busy) < MaxSessions
        /\ lastHash + Cardinality(Busy) < MaxTokens

\* A user with an access token: one was signed for a session of theirs.
SignedIn(u) == \E s \in DOMAIN sessions : sessions[s].user = u

-----------------------------------------------------------------------------
(* Sign-in: the tail of AuthService.login after the credentials were       *)
(* accepted; MFA login and OAuth callback run the same calls.  None asks   *)
(* again for the user, who may have been deleted since (see Accounts).     *)

BeginSignIn(p, u) ==
  /\ At(p, "idle") /\ "signIn" \in Ops /\ Room
  /\ Become(p, [Idle EXCEPT !.pc = "count", !.user = u,
                                            !.stores = TRUE])
  /\ UNCHANGED <<clock, accounts, sessions, tokens, lastSid, lastHash, issued>>

\* restoreAccount signs the user in again, but never calls createRefreshToken.  After
\* the grace period it purges the user, as login and the OAuth callback do.
BeginRestore(p, u) ==
  /\ At(p, "idle") /\ "restore" \in Ops /\ Room
  /\ u \in Users \ (present \cup gone)
  /\ \E l \in {"restoreUser", "purgeUser"} : Become(p, [Idle EXCEPT !.pc = l, !.user = u])
  /\ UNCHANGED <<clock, accounts, sessions, tokens, lastSid, lastHash, issued>>

RestoreUser(p) ==
  /\ At(p, "restoreUser")
  /\ present' = present \cup ({req[p].user} \ gone)
  /\ Goto(p, "count")
  /\ UNCHANGED <<clock, gone, sessions, tokens, lastSid, lastHash, issued>>

\* hardDeleteUser: the rows go with the user.  They stay here as closed sessions and
\* tokens that no request finds.
PurgeUser(p) ==
  /\ At(p, "purgeUser")
  /\ present' = present \ {req[p].user}
  /\ gone' = gone \cup {req[p].user}
  /\ Revoke(ActiveOf(req[p].user))
  /\ Finish(p)
  /\ UNCHANGED <<clock, tokens, lastSid, lastHash, issued>>

\* MUTANT: the generated token does not differ from the previous one.
CountActiveStaleToken(p) ==
  /\ At(p, "count")
  /\ LET n == Cardinality(ActiveOf(req[p].user))
     IN  Become(p, [req[p] EXCEPT !.pc = IF n >= MaxActive THEN "findOldest" ELSE "insertSession",
           !.new = lastHash + 1, !.exp = clock + TTL,
           !.seen = n, !.mark = lastSid])
  /\ UNCHANGED <<clock, accounts, sessions, tokens, lastSid, lastHash, issued>>

\* MUTANT: an off-by-one in the comparison with maxActiveSessions.
CountActiveOffByOne(p) ==
  /\ At(p, "count")
  /\ LET n == Cardinality(ActiveOf(req[p].user))
     IN  Become(p, [req[p] EXCEPT !.pc = IF n > MaxActive THEN "findOldest" ELSE "insertSession",
           !.new = lastHash + 1, !.exp = clock + TTL,
           !.seen = n, !.mark = lastSid])
  /\ lastHash' = lastHash + 1
  /\ UNCHANGED <<clock, accounts, sessions, tokens, lastSid, issued>>

\* The token and expiresAt are computed, then countActiveSessions is awaited.
CountActive(p) ==
  /\ At(p, "count")
  /\ LET n == Cardinality(ActiveOf(req[p].user))
     IN  Become(p, [req[p] EXCEPT !.pc = IF n >= MaxActive THEN "findOldest" ELSE "insertSession",
           !.new = lastHash + 1, !.exp = clock + TTL,
           !.seen = n, !.mark = lastSid])
  /\ lastHash' = lastHash + 1
  /\ UNCHANGED <<clock, accounts, sessions, tokens, lastSid, issued>>

FindOldest(p) ==
  /\ At(p, "findOldest")
  /\ \/ \E s \in OldestOf(req[p].user) :
          Become(p, [req[p] EXCEPT !.pc = "evict", !.sid = s])
     \/ /\ ActiveOf(req[p].user) = {}
        /\ Goto(p, "insertSession")
  /\ UNCHANGED <<clock, accounts, sessions, tokens, lastSid, lastHash, issued>>

Evict(p) ==
  /\ At(p, "evict")
  /\ Revoke({req[p].sid})
  /\ Goto(p, "insertSession")
  /\ UNCHANGED <<clock, accounts, tokens, lastSid, lastHash, issued>>

\* The foreign keys refuse the row of a purged user.
Refused(p, l) ==
  /\ At(p, l) /\ req[p].user \in gone
  /\ Finish(p)
  /\ UNCHANGED <<clock, accounts, sessions, tokens, lastSid, lastHash, issued>>

InsertSession(p) ==
  /\ At(p, "insertSession") /\ req[p].user \notin gone
  /\ lastSid' = lastSid + 1
  /\ sessions' = [s \in DOMAIN sessions \cup {lastSid + 1} |->
                    IF s = lastSid + 1
                    THEN [user |-> req[p].user, active |-> TRUE,
                          exp |-> req[p].exp, hash |-> req[p].new]
                    ELSE sessions[s]]
  /\ Become(p, [req[p] EXCEPT !.pc = IF req[p].stores THEN "insertToken" ELSE "answerSignIn",
       !.sid = lastSid + 1, !.seen = 0, !.mark = 0])
  /\ UNCHANGED <<clock, accounts, tokens, lastHash, issued>>

InsertToken(p) ==
  /\ At(p, "insertToken") /\ req[p].user \notin gone
  /\ InsertTokenRow(req[p].new,
       [user |-> req[p].user, sid |-> req[p].sid, parent |-> 0,
        used |-> FALSE, revoked |-> FALSE, exp |-> req[p].exp])
  /\ Goto(p, "answerSignIn")
  /\ UNCHANGED <<clock, accounts, sessions, lastSid, lastHash, issued>>

AnswerSignIn(p) ==
  /\ At(p, "answerSignIn")
  /\ issued' = issued \cup {req[p].new}
  /\ Finish(p)
  /\ UNCHANGED <<clock, accounts, sessions, tokens, lastSid, lastHash>>

-----------------------------------------------------------------------------
(* AuthService.refresh.                                                    *)

\* The token was rotated out or revoked, or its session was revoked.
Ended(h) == /\ h \in DOMAIN tokens
            /\ \/ tokens[h].used \/ tokens[h].revoked
               \/ ~sessions[tokens[h].sid].active

\* `dead` remembers that the token had ended when the request arrived; the code
\* does not read it.
BeginRefresh(p, h) ==
  /\ At(p, "idle") /\ "refresh" \in Ops /\ Room
  /\ h \in issued
  /\ Become(p, [Idle EXCEPT !.pc = "findToken", !.hash = h,
                    !.dead = Ended(h)])
  /\ UNCHANGED <<clock, accounts, sessions, tokens, lastSid, lastHash, issued>>

Stored(h) == h \in DOMAIN tokens /\ tokens[h].user \notin gone

FindToken(p) ==
  /\ At(p, "findToken")
  /\ LET h == req[p].hash IN
     \/ ~Stored(h) /\ Finish(p)
     \/ /\ Stored(h)
        /\ LET t == tokens[h]
               next == IF t.used \/ t.revoked THEN "replayRevoke"
                       ELSE IF t.exp < clock THEN "expireRevoke"
                       ELSE "findUser"
           IN  Become(p, [req[p] EXCEPT !.pc = next, !.sid = t.sid,
                                  !.user = t.user, !.exp = t.exp])
  /\ UNCHANGED <<clock, accounts, sessions, tokens, lastSid, lastHash, issued>>

ReplayRevoke(p) ==
  /\ At(p, "replayRevoke")
  /\ Revoke({req[p].sid})
  /\ Goto(p, "revokeFamily")
  /\ UNCHANGED <<clock, accounts, tokens, lastSid, lastHash, issued>>

RevokeFamily(p) ==
  /\ At(p, "revokeFamily")
  /\ RevokeTokens(FamilyOf(req[p].hash))
  /\ Finish(p)
  /\ UNCHANGED <<clock, accounts, sessions, lastSid, lastHash, issued>>

ExpireRevoke(p) ==
  /\ At(p, "expireRevoke")
  /\ Revoke({req[p].sid})
  /\ Finish(p)
  /\ UNCHANGED <<clock, accounts, tokens, lastSid, lastHash, issued>>

FindUser(p) ==
  /\ At(p, "findUser")
  /\ \/ req[p].user \in present /\ Goto(p, "findSession")
     \/ req[p].user \notin present /\ Finish(p)
  /\ UNCHANGED <<clock, accounts, sessions, tokens, lastSid, lastHash, issued>>

\* MUTANT: only the expiry of the session is looked at.
SessionUnexpired(s) == sessions[s].exp >= clock

\* `!session.isActive || session.expiresAt < now` rejects; otherwise the new
\* token is generated in the same synchronous stretch.
SessionUsable(s) == sessions[s].active /\ sessions[s].exp >= clock

FindSession(p) ==
  /\ At(p, "findSession")
  /\ \/ /\ SessionUsable(req[p].sid)
        /\ lastHash' = lastHash + 1
        /\ Become(p, [req[p] EXCEPT !.pc = "markUsed", !.new = lastHash + 1])
     \/ /\ ~SessionUsable(req[p].sid)
        /\ Finish(p)
        /\ UNCHANGED lastHash
  /\ UNCHANGED <<clock, accounts, sessions, tokens, lastSid, issued>>

\* MUTANT: the rotated token is not marked.
MarkUsedForgotten(p) ==
  /\ At(p, "markUsed")
  /\ Goto(p, "insertChild")
  /\ UNCHANGED <<clock, accounts, sessions, tokens, lastSid, lastHash, issued>>

MarkUsed(p) ==
  /\ At(p, "markUsed")
  /\ tokens' = [tokens EXCEPT ![req[p].hash].used = TRUE]
  /\ Goto(p, "insertChild")
  /\ UNCHANGED <<clock, accounts, sessions, lastSid, lastHash, issued>>

InsertChild(p) ==
  /\ At(p, "insertChild") /\ req[p].user \notin gone
  /\ InsertTokenRow(req[p].new,
       [user |-> req[p].user, sid |-> req[p].sid, parent |-> req[p].hash,
        used |-> FALSE, revoked |-> FALSE, exp |-> req[p].exp])
  /\ Goto(p, "updateHash")
  /\ UNCHANGED <<clock, accounts, sessions, lastSid, lastHash, issued>>

\* MUTANT: the update writes the whole row, with the flag of a fresh one.
UpdateHashWholeRow(p) ==
  /\ At(p, "updateHash")
  /\ sessions' = [sessions EXCEPT ![req[p].sid].hash = req[p].new,
                                  ![req[p].sid].active = TRUE]
  /\ Goto(p, "answerRefresh")
  /\ UNCHANGED <<clock, accounts, tokens, lastSid, lastHash, issued>>

UpdateHash(p) ==
  /\ At(p, "updateHash")
  /\ sessions' = [sessions EXCEPT ![req[p].sid].hash = req[p].new]
  /\ Goto(p, "answerRefresh")
  /\ UNCHANGED <<clock, accounts, tokens, lastSid, lastHash, issued>>

AnswerRefresh(p) ==
  /\ At(p, "answerRefresh")
  /\ issued' = issued \cup {req[p].new}
  /\ Finish(p)
  /\ UNCHANGED <<clock, accounts, sessions, tokens, lastSid, lastHash>>

-----------------------------------------------------------------------------
(* AuthService.logout: by the refresh token, whatever its state.           *)

BeginLogout(p, h) ==
  /\ At(p, "idle") /\ "logout" \in Ops
  /\ h \in issued
  /\ Become(p, [Idle EXCEPT !.pc = "logoutFind", !.hash = h])
  /\ UNCHANGED <<clock, accounts, sessions, tokens, lastSid, lastHash, issued>>

LogoutFind(p) ==
  /\ At(p, "logoutFind")
  /\ LET h == req[p].hash IN
     \/ ~Stored(h) /\ Finish(p)
     \/ /\ Stored(h)
        /\ Become(p, [req[p] EXCEPT !.pc = "logoutSession", !.sid = tokens[h].sid,
                                  !.user = tokens[h].user])
  /\ UNCHANGED <<clock, accounts, sessions, tokens, lastSid, lastHash, issued>>

LogoutSession(p) ==
  /\ At(p, "logoutSession")
  /\ Revoke({req[p].sid})
  /\ Goto(p, "logoutToken")
  /\ UNCHANGED <<clock, accounts, tokens, lastSid, lastHash, issued>>

LogoutToken(p) ==
  /\ At(p, "logoutToken")
  /\ RevokeTokens({req[p].hash})
  /\ Finish(p)
  /\ UNCHANGED <<clock, accounts, sessions, lastSid, lastHash, issued>>

-----------------------------------------------------------------------------
(* Operations authorised by an access token: logoutAll, deleteAccount, the *)
(* revocation at the end of changePassword, DELETE /auth/sessions/:id.     *)

BeginRevoking(p, u, l) ==
  /\ At(p, "idle")
  /\ SignedIn(u)
  /\ Become(p, [Idle EXCEPT !.pc = l, !.user = u, !.mark = lastSid])
  /\ UNCHANGED <<clock, accounts, sessions, tokens, lastSid, lastHash, issued>>

BeginLogoutAll(p, u) == "logoutAll" \in Ops /\ BeginRevoking(p, u, "revokeAll")

BeginDelete(p, u) == "deleteAccount" \in Ops /\ BeginRevoking(p, u, "softDelete")

SoftDelete(p) ==
  /\ At(p, "softDelete")
  /\ present' = present \ {req[p].user}
  /\ Goto(p, "revokeAll")
  /\ UNCHANGED <<clock, gone, sessions, tokens, lastSid, lastHash, issued>>

\* MUTANT: findFirst and update of that row, instead of updateMany.
RevokeFirst(p) ==
  /\ At(p, "revokeAll")
  /\ Revoke(OldestOf(req[p].user))
  /\ Goto(p, "answerRevoke")
  /\ UNCHANGED <<clock, accounts, tokens, lastSid, lastHash, issued>>

RevokeAll(p) ==
  /\ At(p, "revokeAll")
  /\ Revoke(ActiveOf(req[p].user))
  /\ Goto(p, "answerRevoke")
  /\ UNCHANGED <<clock, accounts, tokens, lastSid, lastHash, issued>>

\* changePassword passes the sessionId of the caller's access token.
BeginChangePassword(p, s) ==
  /\ At(p, "idle") /\ "changePassword" \in Ops
  /\ s \in DOMAIN sessions
  /\ Become(p, [Idle EXCEPT !.pc = "revokeOthers", !.user = sessions[s].user,
                    !.sid = s, !.mark = lastSid])
  /\ UNCHANGED <<clock, accounts, sessions, tokens, lastSid, lastHash, issued>>

RevokeOthers(p) ==
  /\ At(p, "revokeOthers")
  /\ Revoke(ActiveOf(req[p].user) \ {req[p].sid})
  /\ Goto(p, "answerRevoke")
  /\ UNCHANGED <<clock, accounts, tokens, lastSid, lastHash, issued>>

AnswerRevoke(p) ==
  /\ At(p, "answerRevoke")
  /\ Finish(p)
  /\ UNCHANGED <<clock, accounts, sessions, tokens, lastSid, lastHash, issued>>

\* The listing shows 5 rows by last activity: with more than 5 active sessions
\* any active one may be among them.
BeginRevokeOne(p, u, s) ==
  /\ At(p, "idle") /\ "revokeOne" \in Ops
  /\ s \in ActiveOf(u)
  /\ Become(p, [Idle EXCEPT !.pc = "revokeOne", !.user = u, !.sid = s])
  /\ UNCHANGED <<clock, accounts, sessions, tokens, lastSid, lastHash, issued>>

RevokeOne(p) ==
  /\ At(p, "revokeOne")
  /\ Revoke({req[p].sid})
  /\ Finish(p)
  /\ UNCHANGED <<clock, accounts, tokens, lastSid, lastHash, issued>>

-----------------------------------------------------------------------------
\* An awaited statement throws, or the instance dies: what was written stays,
\* the client gets no token.
Abort(p) ==
  /\ ~At(p, "idle")
  /\ Finish(p)
  /\ UNCHANGED <<clock, accounts, sessions, tokens, lastSid, lastHash, issued>>

Tick ==
  /\ clock < MaxTime
  /\ clock' = clock + 1
  /\ UNCHANGED <<accounts, sessions, tokens, lastSid, lastHash, issued, req>>

Begin(p) ==
  \/ \E u \in Users : \/ BeginSignIn(p, u)
                      \/ BeginRestore(p, u)
                      \/ BeginLogoutAll(p, u)
                      \/ BeginDelete(p, u)
                      \/ \E s \in DOMAIN sessions : BeginRevokeOne(p, u, s)
  \/ \E h \in issued : BeginRefresh(p, h) \/ BeginLogout(p, h)
  \/ \E s \in DOMAIN sessions : BeginChangePassword(p, s)

Continue(p) ==
  \/ RestoreUser(p) \/ PurgeUser(p) \/ CountActive(p) \/ FindOldest(p) \/ Evict(p)
  \/ \E l \in {"insertSession", "insertToken", "insertChild"} : Refused(p, l)
  \/ InsertSession(p) \/ InsertToken(p) \/ AnswerSignIn(p)
  \/ FindToken(p) \/ ReplayRevoke(p) \/ RevokeFamily(p) \/ ExpireRevoke(p)
  \/ FindUser(p) \/ FindSession(p) \/ MarkUsed(p) \/ InsertChild(p)
  \/ UpdateHash(p) \/ AnswerRefresh(p)
  \/ LogoutFind(p) \/ LogoutSession(p) \/ LogoutToken(p)
  \/ SoftDelete(p) \/ RevokeAll(p) \/ RevokeOthers(p) \/ AnswerRevoke(p)
  \/ RevokeOne(p)

Next == \/ \E p \in Procs : Begin(p) \/ Continue(p) \/ Abort(p)
        \/ Tick

Spec == Init /\ [][Next]_vars

-----------------------------------------------------------------------------
(* Properties.                                                             *)

\* The tables and the requests hold values of their types; row ids were
\* handed out by the two counters.
TypeOK ==
  /\ clock \in Nat
  /\ present \subseteq Users \ gone /\ gone \subseteq Users
  /\ lastSid \in Nat /\ lastHash \in Nat
  /\ DOMAIN sessions = 1..lastSid
  /\ sessions \in [DOMAIN sessions -> SessionRow]
  /\ DOMAIN tokens \subseteq 1..lastHash
  /\ tokens \in [DOMAIN tokens -> TokenRow]
  /\ issued \subseteq 1..lastHash
  /\ req \in [Procs -> Request]

\* Every stored token belongs to a stored session of the same user and ends
\* when that session ends; a token that was rotated out of another one names a
\* stored parent of the same session that is marked used.  Hence no chain of
\* refreshes outlives the sign-in it came from, and a token that has a
\* successor is treated as a replay by every later refresh.
Lineage ==
  \A t \in DOMAIN tokens :
    /\ tokens[t].sid \in DOMAIN sessions
    /\ tokens[t].user = sessions[tokens[t].sid].user
    /\ tokens[t].exp = sessions[tokens[t].sid].exp
    /\ tokens[t].parent # 0 =>
         /\ tokens[t].parent \in DOMAIN tokens
         /\ tokens[t].parent < t
         /\ tokens[tokens[t].parent].used
         /\ tokens[tokens[t].parent].sid = tokens[t].sid

\* What a request in flight may rely on although other requests run between
\* its statements: the row it read still says whose token it is, the token it
\* generated is nobody else's and not stored before it stores it itself.
Pending == {"findOldest", "evict", "insertSession", "insertToken",
            "markUsed", "insertChild"}

Knows(p) ==
  LET r == req[p] IN
  /\ r.pc \in SignInLabels => r.user \in Users
  /\ r.pc \in Pending \cup {"answerSignIn", "updateHash", "answerRefresh"} =>
       r.new \in 1..lastHash
  /\ r.pc \in {"evict", "insertToken", "logoutSession", "revokeOne"} =>
       /\ r.sid \in DOMAIN sessions
       /\ r.user = sessions[r.sid].user
  /\ r.pc = "insertToken" => r.exp = sessions[r.sid].exp
  /\ r.pc \in RefreshLabels \ {"findToken"} =>
       /\ r.hash \in DOMAIN tokens
       /\ r.sid = tokens[r.hash].sid
       /\ r.user = tokens[r.hash].user
       /\ r.exp = tokens[r.hash].exp
  /\ r.pc \in RotateLabels => r.hash < r.new
  /\ r.pc \in RotateLabels \ {"markUsed"} => tokens[r.hash].used
  /\ r.pc \in RevokeLabels => r.mark <= lastSid
  /\ r.dead => r.pc \in RefreshLabels /\ Ended(r.hash)
  /\ r.dead /\ r.pc \in {"findUser", "findSession"} =>
       ~sessions[tokens[r.hash].sid].active

Fresh(p) ==
  req[p].pc \in Pending =>
    /\ req[p].new \notin DOMAIN tokens
    /\ \A q \in Procs \ {p} : req[q].pc \in Pending => req[q].new # req[p].new

RequestInv == \A p \in Procs : Knows(p) /\ Fresh(p)

\* A refresh that arrives after its token was rotated out or after its session
\* was revoked (by a logout, an eviction, a replay, a password change...) never
\* gets as far as minting a token, whatever runs between its statements.  So a
\* token has two successors only when two refreshes of it overlapped.
EndedMintsNothing ==
  \A p \in Procs : req[p].dead => req[p].pc \notin RotateLabels

\* When logoutAll, deleteAccount or changePassword is about to answer, none of
\* the user's sessions that existed when the request arrived is active, except
\* the one changePassword keeps.
RevocationComplete ==
  \A p \in Procs : At(p, "answerRevoke") =>
    \A s \in ActiveOf(req[p].user) : s > req[p].mark \/ s = req[p].sid

\* createSession leaves a user with more than maxActiveSessions active sessions
\* only when another sign-in inserted a session between this one's count and
\* its insert, or when the user had that many already.
OvershootNeedsOverlap ==
  [][\A p \in Procs : \A u \in Users :
       InsertSession(p) /\ u = req[p].user =>
         \/ Cardinality(ActiveOf(u)') <= MaxActive
         \/ Cardinality(ActiveOf(u)') <= req[p].seen
         \/ \E s \in DOMAIN sessions : s > req[p].mark /\ sessions[s].user = u]_vars

\* The sessions and token chains behave as SessionLedger promises, whatever the
\* requests do between each other's statements: nothing that was closed or spent
\* comes back, no token is stored twice, and each statement opens one session,
\* closes sessions of one user, or stores or spends tokens of one session.
Ledger == INSTANCE SessionLedger WITH
  owner <- [s \in 1..lastSid |-> sessions[s].user],
  open  <- {s \in DOMAIN sessions : sessions[s].active},
  chain <- [t \in DOMAIN tokens |-> tokens[t].sid],
  spent <- {t \in DOMAIN tokens : tokens[t].used \/ tokens[t].revoked}

ImplementsLedger == Ledger!LedgerSpec
=============================================================================
