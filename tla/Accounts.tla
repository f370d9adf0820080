------------------------------ MODULE Accounts ------------------------------
(***************************************************************************)
(* One user row: its lockout, its verification and its scheduled deletion. *)
(*                                                                         *)
(* Login, email verification, password reset, deletion and restoration all *)
(* read the row in one statement and write it back, or act on what they    *)
(* read, in a later one.  The lockout lives twice: lockUntil in the row    *)
(* and the Redis key login:lockout.  With a second factor a login ends with *)
(* a temporary token, and a later request trades that for the session.     *)
(* Durations count down in ticks.                                          *)
(***************************************************************************)
EXTENDS Integers

CONSTANTS
  Procs,         \* request slots
  Mixes,         \* bound: sets of operations; clients use one of them
  First,         \* failed attempts that lock for ShortLock (5 in the code)
  Second,        \* failed attempts that lock for LongLock (10)
  ShortLock,     \* 30 minutes, in ticks
  LongLock,      \* 24 hours
  Grace          \* days before a deletion may be purged (15)

\* "guess" is a login with a wrong password.
\* "mfa": the second factor is on, for some of the logins, and temporary tokens are used.
AllOps == {"login", "mfa", "guess", "verifyEmail", "reset", "delete", "restore"}

ASSUME MixAssumption == Mixes \subseteq SUBSET AllOps
ASSUME LockAssumption ==
  /\ First \in Nat \ {0} /\ Second \in Nat /\ First < Second
  /\ ShortLock \in Nat \ {0} /\ LongLock \in Nat /\ ShortLock <= LongLock
ASSUME GraceAssumption == Grace \in Nat

VARIABLES
  ops,           \* the operations of this behaviour
  user,          \* the row of `users`
  attempts,      \* the key login:attempts and its expiry; nobody reads the count
  lockout,       \* ticks left of login:lockout, 0 when the key is absent
  temps,         \* kinds of the tokens stored under mfa:login:temp
  live,          \* kinds of the user's active sessions
  everIn,        \* some sign-in succeeded: access tokens exist
  severed,       \* a deletion completed and was not cancelled since
  req            \* local state of the requests in flight

vars == <<ops, user, attempts, lockout, temps, live, everIn, severed, req>>

-----------------------------------------------------------------------------
Null == -1                   \* a nullable timestamp that is null
Statuses == {"pending_verification", "active", "locked", "pending_deletion"}

UserRow == [there: BOOLEAN,                      \* not hard-deleted
            cred: BOOLEAN,                       \* its row of `credentials` is there
            status: Statuses,
            verified: BOOLEAN,                   \* emailVerified
            failed: 0..Second,                   \* failedLoginAttempts
            lock: {Null} \cup 0..LongLock,       \* lockUntil: ticks to go
            grace: {Null} \cup 0..Grace + 1]     \* deletedAt: ticks to the purge

\* A session is raced when a deletion or a restoration came between the read
\* of the row it was granted on and its insertion; with a second factor that
\* read is the one of the login, and its token is stale in between.
Kinds == {"clean", "raced"}
Temps == {"fresh", "stale"}

Labels == {"idle", "ttl", "find", "verify", "incr", "expire", "failRead", "failWrite",
           "setLockout", "delAttempts", "delLockout", "clearRead", "clearWrite",
           "session", "purgeCred", "purge", "activate", "resetRevoke",
           "softDelete", "revokeAll", "restoreFind", "restoreWrite",
           "mfaFind", "setTemp", "mfaGet", "mfaCheck", "mfaDel", "mfaSession", "mfaUser"}

\* What a request at these labels does depends on an earlier read of deletedAt.
Granting == {"verify", "clearRead", "clearWrite", "mfaFind", "setTemp", "delAttempts", "delLockout",
             "session", "mfaCheck", "mfaDel", "mfaSession", "purgeCred", "purge", "resetRevoke",
             "revokeAll"}

Request == [pc: Labels,
            why: {"none", "expired", "success", "reset"},   \* caller of the clear
            status: Statuses,                    \* login's and restore's copy of
            grace: {Null} \cup 0..Grace + 1,     \*   the row
            readStatus: Statuses,                \* the repository's copy
            readFailed: 0..Second,
            readLocked: BOOLEAN,
            fresh: BOOLEAN,                      \* no deletion or restoration since
            stale: BOOLEAN]                      \* that copy predates the verification

Idle == [pc |-> "idle", why |-> "none", status |-> "active", grace |-> Null,
         readStatus |-> "active", readFailed |-> 0, readLocked |-> FALSE,
         fresh |-> TRUE, stale |-> FALSE]

Init ==
  /\ ops \in Mixes
  /\ user = [there |-> TRUE, cred |-> TRUE, status |-> "pending_verification",
             verified |-> FALSE, failed |-> 0, lock |-> Null, grace |-> Null]
  /\ attempts = "absent"
  /\ lockout = 0
  /\ temps = {}
  /\ live = {}
  /\ everIn = FALSE
  /\ severed = FALSE
  /\ req = [p \in Procs |-> Idle]

-----------------------------------------------------------------------------
At(p, l) == req[p].pc = l
Become(p, r) == req' = [req EXCEPT ![p] = r]
Goto(p, l) == Become(p, [req[p] EXCEPT !.pc = l])
Finish(p) == Become(p, Idle)
Start(p, op, l) == /\ At(p, "idle") /\ op \in ops
                   /\ Become(p, [Idle EXCEPT !.pc = l])

redis == <<attempts, lockout, temps>>
sessions == <<live, everIn>>

\* findById does not see a row whose deletedAt is set.
Findable == user.there /\ user.grace = Null

Barred == lockout > 0 \/ user.lock > 0

-----------------------------------------------------------------------------
(* AuthService.login up to the password.                                   *)

BeginLogin(p) ==
  /\ Start(p, "login", "ttl")
  /\ UNCHANGED <<ops, user, redis, sessions, severed>>

\* MUTANT: a refused login renews the lock.
CheckLockoutRenews(p) ==
  /\ At(p, "ttl")
  /\ IF lockout > 0 THEN lockout' = LongLock /\ Finish(p)
                    ELSE UNCHANGED lockout /\ Goto(p, "find")
  /\ UNCHANGED <<ops, user, attempts, temps, sessions, severed>>

CheckLockout(p) ==
  /\ At(p, "ttl")
  /\ IF lockout > 0 THEN Finish(p) ELSE Goto(p, "find")
  /\ UNCHANGED <<ops, user, redis, sessions, severed>>

\* findByEmailIncludingDeleted; a lock that ended is cleared before going on.
FindUser(p) ==
  /\ At(p, "find")
  /\ \/ /\ ~user.there \/ user.lock > 0
        /\ Finish(p)
     \/ /\ user.there /\ user.lock <= 0
        /\ Become(p, [req[p] EXCEPT !.pc = IF user.lock = 0 THEN "clearRead" ELSE "verify",
                                    !.why = IF user.lock = 0 THEN "expired" ELSE "none",
                                    !.status = user.status, !.grace = user.grace,
                                    !.fresh = TRUE])
  /\ UNCHANGED <<ops, user, redis, sessions, severed>>

\* What the code does next once the password matched; `req[p]` holds login's copy.
Admit(p) ==
  IF req[p].grace = 0 THEN Become(p, [Idle EXCEPT !.pc = "purgeCred", !.fresh = req[p].fresh])
  ELSE IF req[p].grace # Null THEN Finish(p)     \* a restore token, no session
  ELSE IF req[p].status = "pending_verification" THEN Finish(p)
  ELSE Become(p, [Idle EXCEPT !.pc = "mfaFind", !.fresh = req[p].fresh])

\* A user without credentials counts as a failure.
VerifyPassword(p) ==
  /\ At(p, "verify")
  /\ \/ /\ "guess" \in ops \/ ~user.there \/ ~user.cred
        /\ Become(p, [Idle EXCEPT !.pc = "incr"])
     \/ user.there /\ user.cred /\ Admit(p)
  /\ UNCHANGED <<ops, user, redis, sessions, severed>>

-----------------------------------------------------------------------------
(* recordFailedLogin and incrementFailedAttempts.                          *)

IncrAttempts(p) ==
  /\ At(p, "incr")
  /\ IF attempts = "absent"
     THEN attempts' = "never" /\ Goto(p, "expire")
     ELSE UNCHANGED attempts /\ Goto(p, "failRead")
  /\ UNCHANGED <<ops, user, lockout, temps, sessions, severed>>

ExpireAttempts(p) ==
  /\ At(p, "expire")
  /\ attempts' = IF attempts = "absent" THEN "absent" ELSE "expires"
  /\ Goto(p, "failRead")
  /\ UNCHANGED <<ops, user, lockout, temps, sessions, severed>>

\* The repository's read of the status, and of what else the caller looks at; without
\* a row incrementFailedAttempts throws and clearFailedAttempts returns.
Copy(p, l, failed, locked) ==
  Become(p, [req[p] EXCEPT !.pc = l, !.readStatus = user.status,
                           !.readFailed = failed, !.readLocked = locked,
                           !.stale = user.verified /\ user.status = "pending_verification"])

FailRead(p) ==
  /\ At(p, "failRead")
  /\ IF Findable THEN Copy(p, "failWrite", user.failed, user.lock > 0) ELSE Finish(p)
  /\ UNCHANGED <<ops, user, redis, sessions, severed>>

\* Counts from Second on lock alike: the model does not tell them apart.
OneMore(n) == IF n < Second THEN n + 1 ELSE Second

LockFor(n) == IF n >= Second THEN LongLock ELSE IF n >= First THEN ShortLock ELSE Null

\* MUTANT: lockUntil is computed only for an account that is not locked yet.
FailWriteOnce(p) ==
  /\ At(p, "failWrite")
  /\ LET n == OneMore(req[p].readFailed)
         lock == IF req[p].readLocked THEN Null ELSE LockFor(n) IN
     IF user.there
     THEN /\ user' = [user EXCEPT !.failed = n, !.lock = lock,
                        !.status = IF lock = Null THEN req[p].readStatus ELSE "locked"]
          /\ IF n >= First
             THEN Become(p, [Idle EXCEPT !.pc = "setLockout", !.readFailed = req[p].readFailed])
             ELSE Finish(p)
     ELSE UNCHANGED user /\ Finish(p)
  /\ UNCHANGED <<ops, redis, sessions, severed>>

\* updateUser writes back the status it read; on a purged row it returns
\* nothing and the caller throws.
FailWrite(p) ==
  /\ At(p, "failWrite")
  /\ LET n == OneMore(req[p].readFailed) IN
     IF user.there
     THEN /\ user' = [user EXCEPT !.failed = n, !.lock = LockFor(n),
                        !.status = IF LockFor(n) = Null THEN req[p].readStatus
                                                        ELSE "locked"]
          /\ IF n >= First
             THEN Become(p, [Idle EXCEPT !.pc = "setLockout", !.readFailed = req[p].readFailed])
             ELSE Finish(p)
     ELSE UNCHANGED user /\ Finish(p)
  /\ UNCHANGED <<ops, redis, sessions, severed>>

\* MUTANT: the duration is that of the count before this failure.
SetLockoutBefore(p) ==
  /\ At(p, "setLockout")
  /\ lockout' = LockFor(req[p].readFailed)
  /\ Finish(p)
  /\ UNCHANGED <<ops, user, attempts, temps, sessions, severed>>

SetLockout(p) ==
  /\ At(p, "setLockout")
  /\ lockout' = LockFor(OneMore(req[p].readFailed))
  /\ Finish(p)
  /\ UNCHANGED <<ops, user, attempts, temps, sessions, severed>>

-----------------------------------------------------------------------------
(* clearFailedAttempts, for a lock that ended, a success or a reset.       *)

AfterClear(why) == CASE why = "expired" -> "verify"
                     [] why = "success" -> "session"
                     [] why = "reset"   -> "idle"

Proceed(p) == LET l == AfterClear(req[p].why) IN
  IF l = "idle" THEN Finish(p)
  ELSE Become(p, [req[p] EXCEPT !.pc = l, !.why = "none", !.stale = FALSE,
                     !.readStatus = "active", !.readFailed = 0, !.readLocked = FALSE])

ClearRead(p) ==
  /\ At(p, "clearRead")
  /\ IF Findable THEN Copy(p, "clearWrite", 0, FALSE) ELSE Proceed(p)
  /\ UNCHANGED <<ops, user, redis, sessions, severed>>

\* MUTANT: the status is not part of what is cleared.
ClearWriteCounters(p) ==
  /\ At(p, "clearWrite")
  /\ user' = IF user.there THEN [user EXCEPT !.failed = 0, !.lock = Null] ELSE user
  /\ Proceed(p)
  /\ UNCHANGED <<ops, redis, sessions, severed>>

\* MUTANT: a locked account gets the default status of the column.
ClearWriteDefault(p) ==
  /\ At(p, "clearWrite")
  /\ user' = IF user.there
             THEN [user EXCEPT !.failed = 0, !.lock = Null,
                     !.status = IF req[p].readStatus = "locked" THEN "pending_verification"
                                                                ELSE req[p].readStatus]
             ELSE user
  /\ Proceed(p)
  /\ UNCHANGED <<ops, redis, sessions, severed>>

ClearWrite(p) ==
  /\ At(p, "clearWrite")
  /\ user' = IF user.there
             THEN [user EXCEPT !.failed = 0, !.lock = Null,
                     !.status = IF req[p].readStatus = "locked" THEN "active"
                                                                ELSE req[p].readStatus]
             ELSE user
  /\ Proceed(p)
  /\ UNCHANGED <<ops, redis, sessions, severed>>

-----------------------------------------------------------------------------
(* The rest of a successful login.                                         *)

\* Whether the second factor is on is the subject of SecondFactor.
MfaFind(p) ==
  /\ At(p, "mfaFind")
  /\ Goto(p, "delAttempts") \/ ("mfa" \in ops /\ Goto(p, "setTemp"))
  /\ UNCHANGED <<ops, user, redis, sessions, severed>>

\* The temporary token of the login: no counter is cleared, there is no session yet.
SetTemp(p) ==
  /\ At(p, "setTemp")
  /\ temps' = temps \cup {IF req[p].fresh THEN "fresh" ELSE "stale"}
  /\ Finish(p)
  /\ UNCHANGED <<ops, user, attempts, lockout, sessions, severed>>

DelAttempts(p) ==
  /\ At(p, "delAttempts")
  /\ attempts' = "absent"
  /\ Goto(p, "delLockout")
  /\ UNCHANGED <<ops, user, lockout, temps, sessions, severed>>

DelLockout(p) ==
  /\ At(p, "delLockout")
  /\ lockout' = 0
  /\ Become(p, [req[p] EXCEPT !.pc = "clearRead", !.why = "success"])
  /\ UNCHANGED <<ops, user, attempts, temps, sessions, severed>>

\* The session and its tokens; the foreign key refuses a purged user.
CreateSession(p) ==
  /\ At(p, "session")
  /\ IF user.there
     THEN /\ live' = live \cup {IF req[p].fresh THEN "clean" ELSE "raced"}
          /\ everIn' = TRUE
     ELSE UNCHANGED sessions
  /\ Finish(p)
  /\ UNCHANGED <<ops, user, redis, severed>>

\* hardDeleteUser: the credentials, then the row and all that refers to it.
PurgeCred(p) ==
  /\ At(p, "purgeCred")
  /\ user' = [user EXCEPT !.cred = FALSE]
  /\ Goto(p, "purge")
  /\ UNCHANGED <<ops, redis, sessions, severed>>

Purge(p) ==
  /\ At(p, "purge")
  /\ user' = [user EXCEPT !.there = FALSE]
  /\ live' = {}
  /\ Finish(p)
  /\ UNCHANGED <<ops, redis, everIn, severed>>

-----------------------------------------------------------------------------
(* AuthController.mfaVerify with a temporary token: it asks for the code,   *)
(* and neither for the deletion, the status nor the lock.                  *)

BeginMfaVerify(p) ==
  /\ Start(p, "mfa", "mfaGet")
  /\ UNCHANGED <<ops, user, redis, sessions, severed>>

MfaGet(p) ==
  /\ At(p, "mfaGet")
  /\ \/ Finish(p)                               \* not there, or not there any more
     \/ \E k \in temps : Become(p, [req[p] EXCEPT !.pc = "mfaCheck", !.fresh = (k = "fresh")])
  /\ UNCHANGED <<ops, user, redis, sessions, severed>>

\* A code fits only while the user has settings of the second factor.
MfaCheck(p) ==
  /\ At(p, "mfaCheck")
  /\ Finish(p) \/ (user.there /\ Goto(p, "mfaDel"))
  /\ UNCHANGED <<ops, user, redis, sessions, severed>>

\* The token goes; others of its kind may be stored.
MfaDel(p) ==
  /\ At(p, "mfaDel")
  /\ temps' \in {temps, temps \ {IF req[p].fresh THEN "fresh" ELSE "stale"}}
  /\ Goto(p, "mfaSession")
  /\ UNCHANGED <<ops, user, attempts, lockout, sessions, severed>>

MfaSession(p) ==
  /\ At(p, "mfaSession")
  /\ IF user.there
     THEN live' = live \cup {IF req[p].fresh THEN "clean" ELSE "raced"} /\ Goto(p, "mfaUser")
     ELSE UNCHANGED live /\ Finish(p)
  /\ UNCHANGED <<ops, user, redis, everIn, severed>>

\* Without a user that findById sees there is no access token, but the session stays.
MfaUser(p) ==
  /\ At(p, "mfaUser")
  /\ everIn' = (everIn \/ Findable)
  /\ Finish(p)
  /\ UNCHANGED <<ops, user, redis, live, severed>>

-----------------------------------------------------------------------------
(* Email verification, password reset, deletion, restoration.              *)

\* findByEmail, emailVerified and the code were checked.
BeginVerifyEmail(p) ==
  /\ Findable /\ ~user.verified
  /\ Start(p, "verifyEmail", "activate")
  /\ UNCHANGED <<ops, user, redis, sessions, severed>>

\* Every request that holds an older copy of the row becomes stale.
Activate(p) ==
  /\ At(p, "activate")
  /\ user' = IF user.there
             THEN [user EXCEPT !.status = "active", !.verified = TRUE]
             ELSE user
  /\ req' = [q \in Procs |->
               IF q = p THEN Idle
               ELSE [req[q] EXCEPT !.stale = req[q].pc \in {"failWrite", "clearWrite"}]]
  /\ UNCHANGED <<ops, redis, sessions, severed>>

\* The token was accepted for a findable user and the password replaced.
BeginReset(p) ==
  /\ Findable
  /\ Start(p, "reset", "resetRevoke")
  /\ UNCHANGED <<ops, user, redis, sessions, severed>>

ResetRevoke(p) ==
  /\ At(p, "resetRevoke")
  /\ live' = {}
  /\ Become(p, [req[p] EXCEPT !.pc = "clearRead", !.why = "reset"])
  /\ UNCHANGED <<ops, user, redis, everIn, severed>>

\* Authorised by an access token, which outlives sessions and deletions.
BeginDelete(p) ==
  /\ everIn
  /\ Start(p, "delete", "softDelete")
  /\ UNCHANGED <<ops, user, redis, sessions, severed>>

\* A deletion or a restoration: the copies others hold, and the temporary tokens,
\* are no longer fresh.
Supersede(p, r) ==
  /\ req' = [q \in Procs |-> IF q = p THEN r
                             ELSE [req[q] EXCEPT !.fresh = @ /\ req[q].pc \notin Granting]]
  /\ temps' = {"stale" : k \in temps}

SoftDelete(p) ==
  /\ At(p, "softDelete")
  /\ user' = IF user.there
             THEN [user EXCEPT !.grace = Grace + 1, !.status = "pending_deletion"]
             ELSE user
  /\ Supersede(p, [req[p] EXCEPT !.pc = "revokeAll"])
  /\ UNCHANGED <<ops, attempts, lockout, sessions, severed>>

\* MUTANT: a deletion leaves the sessions to their expiry.
RevokeNone(p) ==
  /\ At(p, "revokeAll")
  /\ severed' = req[p].fresh
  /\ Finish(p)
  /\ UNCHANGED <<ops, user, redis, sessions>>

RevokeAll(p) ==
  /\ At(p, "revokeAll")
  /\ live' = {}
  /\ severed' = req[p].fresh
  /\ Finish(p)
  /\ UNCHANGED <<ops, user, redis, everIn>>

BeginRestore(p) ==
  /\ Start(p, "restore", "restoreFind")
  /\ UNCHANGED <<ops, user, redis, sessions, severed>>

\* MUTANT: the last tick of the grace period is not granted.
RestoreFindEarly(p) ==
  /\ At(p, "restoreFind")
  /\ \/ /\ ~user.there \/ user.grace = Null
        /\ Finish(p)
     \/ /\ user.there /\ user.grace # Null
        /\ Become(p, [Idle EXCEPT !.pc = IF user.grace <= 1 THEN "purgeCred" ELSE "restoreWrite"])
  /\ UNCHANGED <<ops, user, redis, sessions, severed>>

RestoreFind(p) ==
  /\ At(p, "restoreFind")
  /\ \/ /\ ~user.there \/ user.grace = Null
        /\ Finish(p)
     \/ /\ user.there /\ user.grace # Null
        /\ Become(p, [Idle EXCEPT !.pc = IF user.grace = 0 THEN "purgeCred" ELSE "restoreWrite"])
  /\ UNCHANGED <<ops, user, redis, sessions, severed>>

RestoreWrite(p) ==
  /\ At(p, "restoreWrite")
  /\ user' = IF user.there
             THEN [user EXCEPT !.grace = Null, !.status = "active"]
             ELSE user
  /\ Supersede(p, [req[p] EXCEPT !.pc = "session", !.fresh = TRUE])
  /\ severed' = FALSE
  /\ UNCHANGED <<ops, attempts, lockout, sessions>>

-----------------------------------------------------------------------------
\* A statement throws or the instance dies.
Abort(p) ==
  /\ ~At(p, "idle")
  /\ Finish(p)
  /\ UNCHANGED <<ops, user, redis, sessions, severed>>

AttemptsExpire ==
  /\ attempts = "expires"
  /\ attempts' = "absent"
  /\ UNCHANGED <<ops, user, lockout, temps, sessions, severed, req>>

TempExpires ==
  /\ \E k \in temps : temps' = temps \ {k}
  /\ UNCHANGED <<ops, user, attempts, lockout, sessions, severed, req>>

Less(n) == IF n > 0 THEN n - 1 ELSE n

\* Time passes for the row, for the lockout and for the copies of deletedAt.
Tick ==
  /\ user' = [user EXCEPT !.lock = Less(@), !.grace = Less(@)]
  /\ lockout' = Less(lockout)
  /\ req' = [p \in Procs |-> [req[p] EXCEPT !.grace = Less(@)]]
  /\ UNCHANGED <<ops, attempts, temps, sessions, severed>>

Begin(p) == BeginLogin(p) \/ BeginVerifyEmail(p) \/ BeginReset(p)
            \/ BeginDelete(p) \/ BeginRestore(p) \/ BeginMfaVerify(p)

Continue(p) ==
  \/ CheckLockout(p) \/ FindUser(p) \/ VerifyPassword(p)
  \/ IncrAttempts(p) \/ ExpireAttempts(p) \/ FailRead(p) \/ FailWrite(p) \/ SetLockout(p)
  \/ MfaFind(p) \/ SetTemp(p)
  \/ DelAttempts(p) \/ DelLockout(p) \/ ClearRead(p) \/ ClearWrite(p)
  \/ CreateSession(p) \/ PurgeCred(p) \/ Purge(p) \/ Activate(p) \/ ResetRevoke(p)
  \/ MfaGet(p) \/ MfaCheck(p) \/ MfaDel(p) \/ MfaSession(p) \/ MfaUser(p)
  \/ SoftDelete(p) \/ RevokeAll(p) \/ RestoreFind(p) \/ RestoreWrite(p)

Next == \/ \E p \in Procs : Begin(p) \/ Continue(p) \/ Abort(p)
        \/ Tick \/ AttemptsExpire \/ TempExpires

Spec == Init /\ [][Next]_vars

\* Time goes on; clients and requests owe nothing.
FairSpec == Spec /\ WF_vars(Tick)

-----------------------------------------------------------------------------
(* Properties.                                                             *)

\* The row, the keys and the requests hold values of their types.
TypeOK ==
  /\ ops \in Mixes
  /\ user \in UserRow
  /\ attempts \in {"absent", "expires", "never"}
  /\ lockout \in 0..LongLock
  /\ temps \subseteq Temps
  /\ live \subseteq Kinds
  /\ {everIn, severed} \subseteq BOOLEAN
  /\ req \in [Procs -> Request]

\* However the read-then-write updates interleave, the status "locked" comes
\* with a lockUntil and enough failures: no account is locked without an end.
NoOrphanLock ==
  user.status = "locked" => user.lock # Null /\ user.failed >= First

\* A lock that has not ended is lifted by clearFailedAttempts or by a failed
\* login that read the row before it was locked; a failed login that sees the
\* lock in force never shortens it to nothing.
NoBlindUnlock ==
  [][user.lock > 0 /\ user'.lock <= 0 =>
       \/ Tick
       \/ \E p \in Procs : \/ ClearWrite(p)
                           \/ FailWrite(p) /\ ~req[p].readLocked]_vars

\* A verified account falls back to "pending_verification" only when a write
\* carried a status that was read before the verification.
VerificationKept ==
  [][user.verified /\ user'.status = "pending_verification" =>
       \/ user.status = "pending_verification"
       \/ \E p \in Procs : req[p].stale /\ (FailWrite(p) \/ ClearWrite(p))]_vars

\* Lockouts end whatever clients do: again and again neither store bars logins,
\* unless the account is deleted and restored for ever, which keeps its failures.
LockoutEnds == []<>(~Barred \/ user.grace # Null)

\* A row is purged, and its credentials before it, only when its grace period is
\* over, unless it was restored or deleted anew between the purging request's
\* read and its DELETEs.
PurgeOnlyExpired ==
  [][user.there /\ (~user'.there \/ (user.cred /\ ~user'.cred)) =>
       \/ user.grace = 0
       \/ \E p \in Procs : (At(p, "purgeCred") \/ At(p, "purge")) /\ ~req[p].fresh]_vars

\* Once a deletion completed, a session of the account is active only if a
\* request that overlapped the deletion inserted it, or one that traded a
\* temporary token of a login from before the deletion for it, which mfaVerify
\* does at any time in the life of the token.
NoSessionAfterDelete == severed => "clean" \notin live

\* "6. Verify email is confirmed" (auth.service.ts:356): an account has a session
\* only if its address was verified.
UnverifiedKeptOut == live # {} => user.verified
=============================================================================
