--------------------------- MODULE AccountsProofs ---------------------------
(***************************************************************************)
(* What holds of an account however its requests overlap, for any number   *)
(* of requests, any thresholds and any durations: locks have an end, a     *)
(* completed deletion leaves no session but those of requests it overlapped *)
(* or of temporary tokens handed out before it, and what the read-then-write *)
(* updates may lose.                                                       *)
(***************************************************************************)
EXTENDS Accounts, TLAPS

\* The repository's copy: it says "locked" only with the failures that lock.
FailOK(r) == r.pc = "failWrite" /\ (r.readStatus = "locked" \/ r.readLocked)
               => r.readFailed >= First

\* A copy that would take a verification back is known to be stale.
StaleOK(r, u) ==
  r.pc \in {"failWrite", "clearWrite"} /\ u.verified
      /\ r.readStatus = "pending_verification" => r.stale

\* Requests that got past the grace period have a copy without one.
AliveLabels == {"resetRevoke", "mfaFind", "setTemp", "delAttempts", "delLockout"}

AliveOK(r) ==
  r.pc \in AliveLabels \/ (r.pc \in {"clearRead", "clearWrite"} /\ r.why # "expired")
    => r.grace = Null

\* While no deletion and no restoration came between, the copy of deletedAt is
\* what the row says, and what was concluded from it is true.
FreshLabels == AliveLabels \cup {"verify", "clearRead", "clearWrite"}
MfaLabels == {"mfaCheck", "mfaDel", "mfaSession"}
PurgeLabels == {"purgeCred", "purge"}

FreshOK(r, u) ==
  r.fresh /\ u.there =>
    /\ r.pc \in FreshLabels => r.grace = u.grace
    /\ r.pc \in MfaLabels \cup {"session"} => u.grace = Null
    /\ r.pc \in PurgeLabels => u.grace = 0
    /\ r.pc = "revokeAll" => u.grace # Null

\* A clear has a caller to go back to.
CallerOK(r) == r.pc \in {"clearRead", "clearWrite"} => r.why # "none"

CopyOK(r, u) == FailOK(r) /\ StaleOK(r, u) /\ AliveOK(r) /\ FreshOK(r, u) /\ CallerOK(r)

RequestsOK == req \in [Procs -> Request] /\ \A p \in Procs : CopyOK(req[p], user)

RowOK ==
  /\ user \in UserRow
  /\ NoOrphanLock
  /\ user.lock # Null => user.failed >= First

SessionsOK ==
  /\ live \subseteq Kinds /\ everIn \in BOOLEAN /\ severed \in BOOLEAN
  /\ severed /\ user.there => user.grace # Null
  /\ NoSessionAfterDelete

\* Who is about to bar logins counted enough failures.
CountedOK == \A p \in Procs : At(p, "setLockout") => OneMore(req[p].readFailed) >= First

KeysOK == ops \in Mixes /\ attempts \in {"absent", "expires", "never"} /\ lockout \in 0..LongLock

\* A temporary token is fresh while no deletion came after the login.
TempsOK ==
  /\ temps \subseteq Temps
  /\ "fresh" \in temps /\ user.there => user.grace = Null

AInv == RowOK /\ SessionsOK /\ KeysOK /\ TempsOK /\ CountedOK /\ RequestsOK

-----------------------------------------------------------------------------
\* The constants, as the proofs use them.
LEMMA Bounds ==
  /\ First \in Nat /\ Second \in Nat /\ First < Second /\ First > 0
  /\ ShortLock \in Nat /\ ShortLock > 0 /\ LongLock \in Nat /\ ShortLock <= LongLock
  /\ Grace \in Nat /\ Null = -1
BY LockAssumption, GraceAssumption DEF Null

\* The invariant gives the invariants of the runs.
LEMMA AInvGives == AInv => TypeOK /\ NoOrphanLock /\ NoSessionAfterDelete
BY DEF AInv, RowOK, SessionsOK, KeysOK, TempsOK, RequestsOK, TypeOK

\* A request that is not in flight has a copy of nothing.
LEMMA IdleFine ==
  /\ Idle \in Request /\ Idle.pc = "idle" /\ Idle.grace = Null
  /\ \A u : CopyOK(Idle, u)
BY Bounds DEF Idle, Request, Labels, Statuses, CopyOK, FailOK, StaleOK, AliveOK, CallerOK, FreshOK,
   AliveLabels, FreshLabels, MfaLabels, PurgeLabels

\* One more failure stays within its range, and its lock is that of the count.
LEMMA CountFine ==
  ASSUME NEW n \in 0..Second
  PROVE  /\ OneMore(n) \in 0..Second
         /\ n >= First => OneMore(n) >= First
         /\ LockFor(OneMore(n)) \in {Null} \cup 0..LongLock
         /\ LockFor(OneMore(n)) # Null <=> OneMore(n) >= First
         /\ OneMore(n) >= First => LockFor(OneMore(n)) \in 1..LongLock
BY Bounds DEF OneMore, LockFor

\* A step that gives one request a new local state and leaves the row alone.
LEMMA BecomeStep ==
  ASSUME RequestsOK, NEW p \in Procs, NEW r \in Request, Become(p, r), CopyOK(r, user),
         UNCHANGED user
  PROVE  RequestsOK'
BY DEF RequestsOK, Become

\* A request that ended.
LEMMA FinishStep ==
  ASSUME RequestsOK, NEW p \in Procs, Finish(p), UNCHANGED user PROVE RequestsOK'
BY IdleFine, BecomeStep DEF Finish

\* The row, what is known of the sessions and the keys do not depend on requests.
LEMMA Unchanged ==
  /\ RowOK /\ UNCHANGED user => RowOK'
  /\ SessionsOK /\ UNCHANGED <<user, live, everIn, severed>> => SessionsOK'
  /\ KeysOK /\ UNCHANGED <<ops, attempts, lockout>> => KeysOK'
BY DEF RowOK, SessionsOK, KeysOK, NoOrphanLock, NoSessionAfterDelete

\* A request that goes on with the copies it has.
LEMMA GotoStep ==
  ASSUME RequestsOK, NEW p \in Procs, NEW l \in Labels, Goto(p, l), UNCHANGED user,
         CopyOK([req[p] EXCEPT !.pc = l], user)
  PROVE  RequestsOK'
<1> DEFINE r == [req[p] EXCEPT !.pc = l]
<1>1. r \in Request
  BY DEF RequestsOK, Request
<1>2. Become(p, r) /\ CopyOK(r, user)
  BY DEF Goto
<1> HIDE DEF r
<1> QED BY <1>1, <1>2, BecomeStep

\* Goto, from a label and to a label at which nothing is asked of the copies.
Carefree == Labels \ ({"failWrite", "session", "revokeAll"} \cup MfaLabels \cup PurgeLabels
                          \cup FreshLabels)

LEMMA CarefreeStep ==
  ASSUME RequestsOK, NEW p \in Procs, NEW l \in Carefree, Goto(p, l), UNCHANGED user
  PROVE  RequestsOK'
<1>1. l \in Labels /\ req[p] \in Request
  BY DEF Carefree, RequestsOK
<1>2. CopyOK([req[p] EXCEPT !.pc = l], user)
  BY <1>1 DEF Carefree, Labels, FreshLabels, AliveLabels, MfaLabels, PurgeLabels, CopyOK, FailOK, StaleOK, AliveOK, CallerOK, FreshOK,
     Request
<1> QED BY <1>1, <1>2, GotoStep

\* An arrival starts from Idle; what it found true makes its copies right.
LEMMA StartStep ==
  ASSUME RequestsOK, NEW p \in Procs, NEW op, NEW l \in Labels, Start(p, op, l), UNCHANGED user,
         l \in Carefree \/ (l \in AliveLabels /\ user.grace = Null)
  PROVE  RequestsOK'
<1> DEFINE r == [Idle EXCEPT !.pc = l]
<1>1. r \in Request /\ r.pc = l /\ r.grace = Null
  BY IdleFine DEF Request
<1>2. CopyOK(r, user)
  <2> HIDE DEF r
  <2> QED BY <1>1 DEF Carefree, Labels, FreshLabels, AliveLabels, MfaLabels, PurgeLabels, CopyOK, FailOK, StaleOK, AliveOK,
      CallerOK, FreshOK, Request
<1>3. Become(p, r)
  BY DEF Start
<1> HIDE DEF r
<1> QED BY <1>1, <1>2, <1>3, BecomeStep

\* The repository copies the row as it is.
LEMMA CopyStep ==
  ASSUME RequestsOK, RowOK, NEW p \in Procs, NEW l \in {"failWrite", "clearWrite"},
         NEW failed \in 0..Second, NEW locked \in BOOLEAN, Copy(p, l, failed, locked),
         UNCHANGED user, l = "clearWrite" => req[p].pc = "clearRead",
         l = "failWrite" => /\ req[p].pc = "failRead"
                            /\ failed = user.failed /\ (locked <=> user.lock > 0)
  PROVE  RequestsOK'
<1> DEFINE stale == user.verified /\ user.status = "pending_verification"
           r == [req[p] EXCEPT !.pc = l, !.readStatus = user.status, !.readFailed = failed,
                               !.readLocked = locked, !.stale = stale]
<1>1. req[p] \in Request /\ CopyOK(req[p], user) /\ user \in UserRow
  BY DEF RequestsOK, RowOK
<1>2. stale \in BOOLEAN
  BY <1>1 DEF UserRow
<1>3. r \in Request
  BY <1>1, <1>2 DEF Request, UserRow, Labels
<1>4. /\ r.pc = l /\ r.why = req[p].why /\ r.grace = req[p].grace
      /\ r.readStatus = user.status /\ r.readFailed = failed
  BY <1>1 DEF Request
<1>5. (r.readLocked <=> locked) /\ (r.stale <=> stale) /\ (r.fresh <=> req[p].fresh)
  BY <1>1, <1>2 DEF Request
<1>6. Become(p, r)
  BY DEF Copy
<1> HIDE DEF r
<1>7. FailOK(r)
  BY <1>1, <1>4, <1>5, Bounds DEF FailOK, RowOK, NoOrphanLock, UserRow
<1>8. StaleOK(r, user)
  BY <1>4, <1>5 DEF StaleOK
<1>9. AliveOK(r) /\ CallerOK(r)
  BY <1>1, <1>4 DEF CopyOK, AliveOK, CallerOK, AliveLabels
<1>10. FreshOK(r, user)
  BY <1>1, <1>4, <1>5 DEF CopyOK, FreshOK, FreshLabels, AliveLabels, MfaLabels, PurgeLabels
<1> QED BY <1>3, <1>6, <1>7, <1>8, <1>9, <1>10, BecomeStep DEF CopyOK

\* What the copies are asked does not depend on the failures and the lock of the
\* row, and less is asked of them once the row is purged.
LEMMA RowStep ==
  ASSUME RequestsOK, NEW p \in Procs, NEW r \in Request, Become(p, r), CopyOK(r, user),
         user'.there => user.there, user'.grace = user.grace, user'.verified <=> user.verified
  PROVE  RequestsOK'
<1>1. \A c : CopyOK(c, user) => CopyOK(c, user')
  BY DEF CopyOK, StaleOK, FreshOK
<1>2. req' \in [Procs -> Request] /\ \A q \in Procs : CopyOK(req'[q], user)
  BY DEF RequestsOK, Become
<1> QED BY <1>1, <1>2 DEF RequestsOK

LEMMA FinishRowStep ==
  ASSUME RequestsOK, NEW p \in Procs, Finish(p),
         user'.there => user.there, user'.grace = user.grace, user'.verified <=> user.verified
  PROVE  RequestsOK'
BY IdleFine, RowStep DEF Finish

\* After the clear: back to the password, on to the session, or done.
LEMMA ProceedStep ==
  ASSUME RequestsOK, NEW p \in Procs, req[p].pc \in {"clearRead", "clearWrite"}, Proceed(p),
         user'.there => user.there, user'.grace = user.grace, user'.verified <=> user.verified
  PROVE  RequestsOK'
<1> DEFINE c == req[p]
           l == AfterClear(c.why)
           r == [c EXCEPT !.pc = l, !.why = "none", !.stale = FALSE,
                   !.readStatus = "active", !.readFailed = 0, !.readLocked = FALSE]
<1>1. c \in Request /\ CopyOK(c, user) /\ c.pc \in {"clearRead", "clearWrite"}
  BY DEF RequestsOK
<1>2. CASE l = "idle"
  BY <1>2, FinishRowStep DEF Proceed
<1>3. CASE l # "idle"
  <2>1. Become(p, r)
    BY <1>3 DEF Proceed
  <2>2. \/ l = "verify" /\ c.why = "expired"
        \/ l = "session" /\ c.why = "success"
    BY <1>1, <1>3 DEF AfterClear, Request, CopyOK, CallerOK
  <2>3. l \in Labels
    BY <2>2 DEF Labels
  <2> HIDE DEF l
  <2>4. r \in Request
    <3>1. "active" \in Statuses /\ 0 \in 0..Second /\ FALSE \in BOOLEAN
      BY Bounds DEF Statuses
    <3> QED BY <1>1, <2>3, <3>1 DEF Request
  <2>5. r.pc = l /\ r.grace = c.grace
    BY <1>1 DEF Request
  <2>6. r.fresh <=> c.fresh
    BY <1>1 DEF Request
  <2> HIDE DEF r
  <2>7. CopyOK(r, user)
    BY <1>1, <2>2, <2>5, <2>6 DEF CopyOK, FailOK, StaleOK, AliveOK, CallerOK, FreshOK,
       FreshLabels, AliveLabels, MfaLabels, PurgeLabels
  <2> QED BY <2>1, <2>4, <2>7, RowStep
<1> QED BY <1>2, <1>3

-----------------------------------------------------------------------------
(* One lemma per group of statements: what AInv needs of req, and of what   *)
(* else the statements write.                                               *)

\* The statements that leave the row alone.
LEMMA LoginReads ==
  ASSUME AInv, NEW p \in Procs, CheckLockout(p) \/ FindUser(p) \/ VerifyPassword(p)
  PROVE  RequestsOK'
<1>1. RequestsOK /\ RowOK /\ req[p] \in Request /\ CopyOK(req[p], user) /\ user \in UserRow
  BY DEF AInv, RequestsOK, RowOK
<1>2. CASE CheckLockout(p)
  <2>1. "find" \in Carefree
    BY DEF Carefree, Labels, FreshLabels, AliveLabels, MfaLabels, PurgeLabels
  <2> QED BY <1>1, <1>2, <2>1, FinishStep, CarefreeStep DEF CheckLockout
<1>3. CASE FindUser(p)
  <2>1. CASE Finish(p)
    BY <1>1, <1>3, <2>1, FinishStep DEF FindUser
  <2>2. CASE ~Finish(p)
    <3> DEFINE l == IF user.lock = 0 THEN "clearRead" ELSE "verify"
               w == IF user.lock = 0 THEN "expired" ELSE "none"
               r == [req[p] EXCEPT !.pc = l, !.why = w, !.status = user.status,
                       !.grace = user.grace, !.fresh = TRUE]
    <3>1. Become(p, r) /\ UNCHANGED user
      BY <1>3, <2>2 DEF FindUser
    <3>2. \/ l = "clearRead" /\ w = "expired"
          \/ l = "verify" /\ w = "none"
      OBVIOUS
    <3>3. l \in Labels /\ w \in {"none", "expired", "success", "reset"}
      BY <3>2 DEF Labels
    <3> HIDE DEF l, w
    <3>4. user.status \in Statuses /\ user.grace \in {Null} \cup 0..Grace + 1 /\ TRUE \in BOOLEAN
      BY <1>1 DEF UserRow
    <3>5. r \in Request
      BY <1>1, <3>3, <3>4 DEF Request
    <3>6. r.pc = l /\ r.why = w /\ r.grace = user.grace
      BY <1>1 DEF Request
    <3> HIDE DEF r
    <3>7. CopyOK(r, user)
      BY <3>2, <3>6 DEF CopyOK, FailOK, StaleOK, AliveOK, CallerOK, FreshOK, FreshLabels, AliveLabels, MfaLabels, PurgeLabels
    <3> QED BY <1>1, <3>1, <3>5, <3>7, BecomeStep
  <2> QED BY <2>1, <2>2
<1>4. CASE VerifyPassword(p)
  <2>1. UNCHANGED user /\ req[p].pc = "verify"
    BY <1>4 DEF VerifyPassword, At
  <2>2. CASE Become(p, [Idle EXCEPT !.pc = "incr"])
    <3> DEFINE r == [Idle EXCEPT !.pc = "incr"]
    <3>1. r \in Request /\ r.pc = "incr"
      BY IdleFine DEF Request, Labels
    <3> HIDE DEF r
    <3>2. CopyOK(r, user)
      BY <3>1 DEF CopyOK, FailOK, StaleOK, AliveOK, CallerOK, FreshOK, FreshLabels, AliveLabels, MfaLabels, PurgeLabels
    <3>3. Become(p, r)
      BY <2>2 DEF r
    <3> QED BY <1>1, <2>1, <3>1, <3>2, <3>3, BecomeStep
  <2>3. CASE Admit(p) /\ user.there
    <3>1. CASE Finish(p)
      BY <1>1, <2>1, <3>1, FinishStep
    <3>2. CASE req[p].grace = 0
      <4> DEFINE r == [Idle EXCEPT !.pc = "purgeCred", !.fresh = req[p].fresh]
      <4>1. Become(p, r)
        BY <2>3, <3>2 DEF Admit
      <4>2. r \in Request /\ r.pc = "purgeCred"
        BY <1>1, IdleFine DEF Request, Labels
      <4>3. r.fresh <=> req[p].fresh
        BY <1>1, IdleFine DEF Request
      <4> HIDE DEF r
      <4>4. CopyOK(r, user)
        BY <1>1, <2>1, <3>2, <4>2, <4>3 DEF CopyOK, FailOK, StaleOK, AliveOK, CallerOK, FreshOK,
           FreshLabels, AliveLabels, MfaLabels, PurgeLabels
      <4> QED BY <1>1, <2>1, <4>1, <4>2, <4>4, BecomeStep
    <3>3. CASE req[p].grace = Null /\ ~Finish(p)
      <4> DEFINE r == [Idle EXCEPT !.pc = "mfaFind", !.fresh = req[p].fresh]
      <4>1. Become(p, r)
        BY <2>3, <3>3, Bounds DEF Admit
      <4>2. r \in Request /\ r.pc = "mfaFind" /\ r.grace = Null
        BY <1>1, IdleFine DEF Request, Labels
      <4>3. r.fresh <=> req[p].fresh
        BY <1>1, IdleFine DEF Request
      <4> HIDE DEF r
      <4>4. CopyOK(r, user)
        BY <1>1, <2>1, <3>3, <4>2, <4>3 DEF CopyOK, FailOK, StaleOK, AliveOK, CallerOK, FreshOK,
           FreshLabels, AliveLabels, MfaLabels, PurgeLabels
      <4> QED BY <1>1, <2>1, <4>1, <4>2, <4>4, BecomeStep
    <3> QED BY <2>3, <3>1, <3>2, <3>3 DEF Admit
  <2> QED BY <1>4, <2>2, <2>3 DEF VerifyPassword
<1> QED BY <1>2, <1>3, <1>4

LEMMA OtherReads ==
  ASSUME AInv, NEW p \in Procs,
         \/ IncrAttempts(p) \/ ExpireAttempts(p) \/ FailRead(p) \/ SetLockout(p)
         \/ DelAttempts(p) \/ DelLockout(p) \/ ClearRead(p) \/ CreateSession(p)
         \/ ResetRevoke(p) \/ RevokeAll(p) \/ RestoreFind(p) \/ Abort(p)
  PROVE  RequestsOK'
<1>1. RequestsOK /\ RowOK /\ req[p] \in Request /\ CopyOK(req[p], user) /\ user \in UserRow
  BY DEF AInv, RequestsOK, RowOK
<1>2. CASE IncrAttempts(p) \/ ExpireAttempts(p)
  <2>1. {"expire", "failRead"} \subseteq Carefree
    BY DEF Carefree, Labels, FreshLabels, AliveLabels, MfaLabels, PurgeLabels
  <2> QED BY <1>1, <1>2, <2>1, CarefreeStep DEF IncrAttempts, ExpireAttempts
<1>3. CASE FailRead(p)
  <2>1. user.failed \in 0..Second /\ (user.lock > 0) \in BOOLEAN
    BY <1>1 DEF UserRow
  <2> QED BY <1>1, <1>3, <2>1, FinishStep, CopyStep DEF FailRead, At
<1>4. CASE SetLockout(p) \/ CreateSession(p) \/ RevokeAll(p) \/ Abort(p)
  BY <1>1, <1>4, FinishStep DEF SetLockout, CreateSession, RevokeAll, Abort
<1>5. CASE DelAttempts(p)
  <2>1. Goto(p, "delLockout") /\ "delLockout" \in Labels /\ UNCHANGED user /\ req[p].pc = "delAttempts"
    BY <1>5 DEF DelAttempts, Labels, At
  <2>2. CopyOK([req[p] EXCEPT !.pc = "delLockout"], user)
    BY <1>1, <2>1 DEF CopyOK, FailOK, StaleOK, AliveOK, CallerOK, FreshOK, FreshLabels,
       AliveLabels, MfaLabels, PurgeLabels, Request
  <2> QED BY <1>1, <2>1, <2>2, GotoStep
<1>6. ASSUME NEW l \in AliveLabels, NEW w \in {"success", "reset"}, req[p].pc = l,
             Become(p, [req[p] EXCEPT !.pc = "clearRead", !.why = w]), UNCHANGED user
      PROVE  RequestsOK'
  <2> DEFINE r == [req[p] EXCEPT !.pc = "clearRead", !.why = w]
  <2>1. r \in Request
    BY <1>1 DEF Request, Labels
  <2>2. r.pc = "clearRead" /\ r.why = w /\ r.grace = req[p].grace
    BY <1>1 DEF Request
  <2>3. r.fresh <=> req[p].fresh
    BY <1>1 DEF Request
  <2>4. Become(p, r)
    BY <1>6
  <2> HIDE DEF r
  <2>5. CopyOK(r, user)
    BY <1>1, <1>6, <2>2, <2>3 DEF CopyOK, FailOK, StaleOK, AliveOK, CallerOK, FreshOK,
       FreshLabels, AliveLabels, MfaLabels, PurgeLabels
  <2> QED BY <1>1, <1>6, <2>1, <2>4, <2>5, BecomeStep
<1>7. CASE DelLockout(p) \/ ResetRevoke(p)
  BY <1>6, <1>7 DEF DelLockout, ResetRevoke, At, AliveLabels
<1>8. CASE ClearRead(p)
  <2>1. req[p].pc \in {"clearRead", "clearWrite"} /\ UNCHANGED user
    BY <1>8 DEF ClearRead, At
  <2>2. 0 \in 0..Second /\ FALSE \in BOOLEAN
    BY Bounds
  <2> QED BY <1>1, <1>8, <2>1, <2>2, CopyStep, ProceedStep DEF ClearRead, At
<1>9. CASE RestoreFind(p)
  <2>1. CASE Finish(p)
    BY <1>1, <1>9, <2>1, FinishStep DEF RestoreFind
  <2>2. CASE ~Finish(p)
    <3> DEFINE l == IF user.grace = 0 THEN "purgeCred" ELSE "restoreWrite"
               r == [Idle EXCEPT !.pc = l]
    <3>1. Become(p, r) /\ UNCHANGED user
      BY <1>9, <2>2 DEF RestoreFind
    <3>2. (l = "purgeCred" /\ user.grace = 0) \/ l = "restoreWrite"
      OBVIOUS
    <3>3. l \in Labels
      BY <3>2 DEF Labels
    <3> HIDE DEF l
    <3>5. r \in Request
      BY <3>3, IdleFine DEF Request
    <3>6. r.pc = l
      BY IdleFine DEF Request
    <3> HIDE DEF r
    <3>7. CopyOK(r, user)
      BY <3>2, <3>6 DEF CopyOK, FailOK, StaleOK, AliveOK, CallerOK, FreshOK, FreshLabels, AliveLabels, MfaLabels, PurgeLabels
    <3> QED BY <1>1, <3>1, <3>5, <3>7, BecomeStep
  <2> QED BY <2>1, <2>2
<1> QED BY <1>2, <1>3, <1>4, <1>5, <1>7, <1>8, <1>9

\* The statements of a login with a second factor.
MfaStatement(p) == \/ MfaFind(p) \/ SetTemp(p) \/ MfaGet(p) \/ MfaCheck(p)
                   \/ MfaDel(p) \/ MfaSession(p) \/ MfaUser(p)

LEMMA MfaKept ==
  ASSUME NEW p \in Procs, MfaStatement(p)
  PROVE  UNCHANGED <<ops, user, attempts, lockout, severed>>
BY DEF MfaStatement, MfaFind, SetTemp, MfaGet, MfaCheck, MfaDel, MfaSession, MfaUser, redis

\* A fresh token says what the row says.
LEMMA MfaReads ==
  ASSUME AInv, NEW p \in Procs, MfaStatement(p)
  PROVE  RequestsOK'
<1>1. RequestsOK /\ TempsOK /\ req[p] \in Request /\ CopyOK(req[p], user) /\ UNCHANGED user
  BY MfaKept DEF AInv, RequestsOK
<1>2. CASE Finish(p)
  BY <1>1, <1>2, FinishStep
<1>3. CASE \E l \in {"delAttempts", "setTemp"} : Goto(p, l) /\ req[p].pc = "mfaFind"
  <2>1. PICK l \in {"delAttempts", "setTemp"} : Goto(p, l) /\ req[p].pc = "mfaFind"
    BY <1>3
  <2>2. CopyOK([req[p] EXCEPT !.pc = l], user)
    BY <1>1, <2>1 DEF CopyOK, FailOK, StaleOK, AliveOK, CallerOK, FreshOK, FreshLabels,
       AliveLabels, MfaLabels, PurgeLabels, Request
  <2>3. l \in Labels
    BY DEF Labels
  <2> QED BY <1>1, <2>1, <2>2, <2>3, GotoStep
<1>4. CASE \E l \in {"mfaDel", "mfaSession"} : Goto(p, l) /\ req[p].pc \in {"mfaCheck", "mfaDel"}
  <2>1. PICK l \in {"mfaDel", "mfaSession"} : Goto(p, l) /\ req[p].pc \in {"mfaCheck", "mfaDel"}
    BY <1>4
  <2>2. CopyOK([req[p] EXCEPT !.pc = l], user)
    BY <1>1, <2>1 DEF CopyOK, FailOK, StaleOK, AliveOK, CallerOK, FreshOK, FreshLabels,
       AliveLabels, MfaLabels, PurgeLabels, Request
  <2>3. l \in Labels
    BY DEF Labels
  <2> QED BY <1>1, <2>1, <2>2, <2>3, GotoStep
<1>5. CASE Goto(p, "mfaUser")
  <2>1. "mfaUser" \in Carefree
    BY DEF Carefree, Labels, FreshLabels, AliveLabels, MfaLabels, PurgeLabels
  <2> QED BY <1>1, <1>5, <2>1, CarefreeStep
<1>6. ASSUME NEW k \in temps, Become(p, [req[p] EXCEPT !.pc = "mfaCheck", !.fresh = (k = "fresh")])
      PROVE  RequestsOK'
  <2> DEFINE b == k = "fresh"
             r == [req[p] EXCEPT !.pc = "mfaCheck", !.fresh = b]
  <2>1. b \in BOOLEAN /\ Become(p, r)
    BY <1>6
  <2>2. b /\ user.there => user.grace = Null
    BY <1>1 DEF TempsOK
  <2> HIDE DEF b
  <2>3. r \in Request /\ r.pc = "mfaCheck" /\ (r.fresh <=> b)
    BY <1>1, <2>1 DEF Request, Labels
  <2> HIDE DEF r
  <2>4. CopyOK(r, user)
    BY <2>2, <2>3 DEF CopyOK, FailOK, StaleOK, AliveOK, CallerOK, FreshOK, FreshLabels,
       AliveLabels, MfaLabels, PurgeLabels
  <2> QED BY <1>1, <2>1, <2>3, <2>4, BecomeStep
<1> QED BY <1>2, <1>3, <1>4, <1>5, <1>6 DEF MfaStatement, MfaFind, SetTemp, MfaGet, MfaCheck,
        MfaDel, MfaSession, MfaUser, At

\* Arrivals.
LEMMA Arrivals == ASSUME AInv, NEW p \in Procs, Begin(p) PROVE RequestsOK'
<1>1. RequestsOK
  BY DEF AInv
<1>2. {"ttl", "activate", "softDelete", "restoreFind", "mfaGet"} \subseteq Carefree
      /\ Carefree \subseteq Labels /\ "resetRevoke" \in Labels \cap AliveLabels
  BY DEF Carefree, Labels, FreshLabels, AliveLabels, MfaLabels, PurgeLabels
<1>3. ASSUME BeginReset(p) PROVE RequestsOK'
  BY <1>1, <1>2, <1>3, StartStep DEF BeginReset, Findable
<1>4. ASSUME NEW op, NEW l \in Carefree, Start(p, op, l), UNCHANGED user PROVE RequestsOK'
  BY <1>1, <1>2, <1>4, StartStep
<1> QED BY <1>2, <1>3, <1>4 DEF Begin, BeginLogin, BeginVerifyEmail, BeginDelete, BeginRestore,
        BeginMfaVerify

\* The writes of the repository: the failures and the lock change, and the status.
LEMMA FailWriteStep ==
  ASSUME AInv, NEW p \in Procs, FailWrite(p)
  PROVE  /\ RowOK' /\ RequestsOK'
         /\ user'.there = user.there /\ user'.grace = user.grace
         /\ user'.verified <=> user.verified
<1>1. RequestsOK /\ RowOK /\ req[p] \in Request /\ CopyOK(req[p], user) /\ user \in UserRow
  BY DEF AInv, RequestsOK, RowOK
<1>2. req[p].pc = "failWrite" /\ req[p].readFailed \in 0..Second /\ req[p].readStatus \in Statuses
  BY <1>1 DEF FailWrite, At, Request
<1>3. CASE ~user.there
  BY <1>1, <1>3, FinishStep, Unchanged DEF FailWrite
<1>4. CASE user.there
  <2> DEFINE n == OneMore(req[p].readFailed)
             k == LockFor(n)
             st == IF k = Null THEN req[p].readStatus ELSE "locked"
  <2>1. user' = [user EXCEPT !.failed = n, !.lock = k, !.status = st]
    BY <1>4 DEF FailWrite
  <2>2. /\ n \in 0..Second /\ k \in {Null} \cup 0..LongLock /\ (k # Null <=> n >= First)
        /\ req[p].readFailed >= First => n >= First
    BY <1>2, CountFine
  <2>3. st \in Statuses /\ (st = "locked" => k # Null)
    BY <1>1, <1>2, <2>2 DEF Statuses, CopyOK, FailOK
  <2> HIDE DEF n, k, st
  <2>4. user' \in UserRow
    BY <1>1, <2>1, <2>2, <2>3 DEF UserRow
  <2>5. user'.failed = n /\ user'.lock = k /\ user'.status = st /\ user'.grace = user.grace
    BY <1>1, <2>1 DEF UserRow
  <2>6. user'.there = user.there
    BY <1>1, <2>1 DEF UserRow
  <2>7. user'.verified <=> user.verified
    BY <1>1, <2>1 DEF UserRow
  <2>8. RowOK'
    BY <2>2, <2>3, <2>4, <2>5 DEF RowOK, NoOrphanLock
  <2>9. CASE Become(p, [Idle EXCEPT !.pc = "setLockout", !.readFailed = req[p].readFailed])
    <3> DEFINE r == [Idle EXCEPT !.pc = "setLockout", !.readFailed = req[p].readFailed]
    <3>1. r \in Request /\ r.pc = "setLockout"
      BY <1>2, IdleFine DEF Request, Labels
    <3> HIDE DEF r
    <3>2. CopyOK(r, user)
      BY <3>1 DEF CopyOK, FailOK, StaleOK, AliveOK, CallerOK, FreshOK, FreshLabels, AliveLabels, MfaLabels, PurgeLabels
    <3>3. Become(p, r)
      BY <2>9 DEF r
    <3> QED BY <1>1, <2>5, <2>6, <2>7, <2>8, <3>1, <3>2, <3>3, RowStep
  <2>10. CASE Finish(p)
    BY <1>1, <2>5, <2>6, <2>7, <2>8, <2>10, FinishRowStep
  <2> QED BY <1>4, <2>9, <2>10 DEF FailWrite
<1> QED BY <1>3, <1>4

LEMMA ClearWriteStep ==
  ASSUME AInv, NEW p \in Procs, ClearWrite(p)
  PROVE  /\ RowOK' /\ RequestsOK'
         /\ user'.there = user.there /\ user'.grace = user.grace
         /\ user'.verified <=> user.verified
<1>1. RequestsOK /\ RowOK /\ req[p] \in Request /\ user \in UserRow
  BY DEF AInv, RequestsOK, RowOK
<1>2. req[p].pc \in {"clearRead", "clearWrite"} /\ Proceed(p)
  BY DEF ClearWrite, At
<1>3. CASE ~user.there
  BY <1>1, <1>2, <1>3, ProceedStep, Unchanged DEF ClearWrite
<1>4. CASE user.there
  <2> DEFINE st == IF req[p].readStatus = "locked" THEN "active" ELSE req[p].readStatus
  <2>1. user' = [user EXCEPT !.failed = 0, !.lock = Null, !.status = st]
    BY <1>4 DEF ClearWrite
  <2>2. st \in Statuses /\ st # "locked"
    BY <1>1 DEF Statuses, Request
  <2> HIDE DEF st
  <2>3. user' \in UserRow
    <3>1. 0 \in 0..Second /\ Null \in {Null} \cup 0..LongLock
      BY Bounds
    <3> QED BY <1>1, <2>1, <2>2, <3>1 DEF UserRow
  <2>4. user'.lock = Null /\ user'.status = st /\ user'.grace = user.grace
    BY <1>1, <2>1 DEF UserRow
  <2>5. user'.there = user.there
    BY <1>1, <2>1 DEF UserRow
  <2>6. user'.verified <=> user.verified
    BY <1>1, <2>1 DEF UserRow
  <2>7. RowOK'
    BY <2>2, <2>3, <2>4 DEF RowOK, NoOrphanLock
  <2> QED BY <1>1, <1>2, <2>4, <2>5, <2>6, <2>7, ProceedStep
<1> QED BY <1>3, <1>4

\* Without credentials the row is what it was.
LEMMA PurgeCredStep ==
  ASSUME AInv, NEW p \in Procs, PurgeCred(p)
  PROVE  /\ RowOK' /\ RequestsOK'
         /\ user'.there = user.there /\ user'.grace = user.grace
         /\ user'.lock = user.lock /\ user'.status = user.status
<1>1. /\ RequestsOK /\ RowOK /\ user \in UserRow /\ req[p] \in Request
      /\ CopyOK(req[p], user) /\ req[p].pc = "purgeCred"
  BY DEF AInv, RowOK, RequestsOK, PurgeCred, At
<1>2. /\ user' \in UserRow
      /\ user'.grace = user.grace /\ user'.lock = user.lock /\ user'.failed = user.failed
      /\ user'.status = user.status
  BY <1>1 DEF PurgeCred, UserRow
<1>3. user'.there = user.there
  BY <1>1 DEF PurgeCred, UserRow
<1>4. user'.verified <=> user.verified
  BY <1>1 DEF PurgeCred, UserRow
<1> DEFINE r == [req[p] EXCEPT !.pc = "purge"]
<1>5. r \in Request
  BY <1>1 DEF Request, Labels
<1>6. CopyOK(r, user)
  BY <1>1 DEF CopyOK, FailOK, StaleOK, AliveOK, CallerOK, FreshOK, FreshLabels, AliveLabels,
     MfaLabels, PurgeLabels, Request
<1>7. Become(p, r)
  BY DEF PurgeCred, Goto
<1> HIDE DEF r
<1>8. RequestsOK'
  BY <1>1, <1>2, <1>3, <1>4, <1>5, <1>6, <1>7, RowStep
<1> QED BY <1>1, <1>2, <1>3, <1>8 DEF RowOK, NoOrphanLock

\* The purge takes the row away: nothing is asked of copies of it any more.
LEMMA PurgeStep == ASSUME AInv, NEW p \in Procs, Purge(p) PROVE RowOK' /\ RequestsOK'
<1>1. RequestsOK /\ RowOK /\ user \in UserRow
  BY DEF AInv, RowOK
<1>2. /\ user' \in UserRow /\ ~user'.there
      /\ user'.grace = user.grace /\ user'.lock = user.lock /\ user'.failed = user.failed
      /\ user'.status = user.status
  BY <1>1 DEF Purge, UserRow
<1>3. user'.verified <=> user.verified
  BY <1>1 DEF Purge, UserRow
<1> QED BY <1>1, <1>2, <1>3, FinishRowStep DEF Purge, RowOK, NoOrphanLock

\* The verification makes the copies of the row stale.
LEMMA ActivateStep == ASSUME AInv, NEW p \in Procs, Activate(p) PROVE RowOK' /\ RequestsOK'
<1>1. RequestsOK /\ RowOK /\ user \in UserRow
  BY DEF AInv, RowOK
<1>2. /\ user' \in UserRow /\ user'.grace = user.grace
      /\ user'.lock = user.lock /\ user'.failed = user.failed
      /\ user'.status = "active" \/ user'.status = user.status
  BY <1>1 DEF Activate, UserRow, Statuses
<1>3. user'.there <=> user.there
  BY <1>1 DEF Activate, UserRow
<1>4. RowOK'
  BY <1>1, <1>2 DEF RowOK, NoOrphanLock
<1>5. ASSUME NEW q \in Procs PROVE req'[q] \in Request /\ CopyOK(req'[q], user')
  <2>1. req[q] \in Request /\ CopyOK(req[q], user)
    BY <1>1 DEF RequestsOK
  <2>2. CASE q = p
    BY <2>2, IdleFine DEF Activate
  <2>3. CASE q # p
    <3> DEFINE b == req[q].pc \in {"failWrite", "clearWrite"}
               r == [req[q] EXCEPT !.stale = b]
    <3>1. req'[q] = r
      BY <2>3 DEF Activate
    <3>2. b \in BOOLEAN
      OBVIOUS
    <3>3. r \in Request
      BY <2>1, <3>2 DEF Request
    <3>4. /\ r.pc = req[q].pc /\ r.why = req[q].why /\ r.grace = req[q].grace
          /\ r.readStatus = req[q].readStatus /\ r.readFailed = req[q].readFailed
      BY <2>1 DEF Request
    <3>5. (r.stale <=> b) /\ (r.fresh <=> req[q].fresh) /\ (r.readLocked <=> req[q].readLocked)
      BY <2>1, <3>2 DEF Request
    <3> HIDE DEF r
    <3>6. FailOK(r) /\ AliveOK(r) /\ CallerOK(r)
      BY <2>1, <3>4, <3>5 DEF CopyOK, FailOK, AliveOK, CallerOK
    <3>7. StaleOK(r, user')
      BY <3>4, <3>5 DEF StaleOK
    <3>8. FreshOK(r, user')
      BY <1>2, <1>3, <2>1, <3>4, <3>5 DEF CopyOK, FreshOK
    <3> QED BY <3>1, <3>3, <3>6, <3>7, <3>8 DEF CopyOK
  <2> QED BY <2>2, <2>3
<1>6. req' \in [Procs -> Request]
  <2>1. req' = [q \in Procs |-> req'[q]]
    BY DEF Activate
  <2> QED BY <1>5, <2>1
<1> QED BY <1>4, <1>5, <1>6 DEF RequestsOK

\* A deletion or a restoration makes the copies others hold outdated.
LEMMA SupersedeStep ==
  ASSUME RequestsOK, NEW p \in Procs, NEW r \in Request, Supersede(p, r), CopyOK(r, user'),
         user'.verified <=> user.verified
  PROVE  RequestsOK'
<1>1. ASSUME NEW q \in Procs PROVE req'[q] \in Request /\ CopyOK(req'[q], user')
  <2>1. req[q] \in Request /\ CopyOK(req[q], user)
    BY DEF RequestsOK
  <2>2. CASE q = p
    BY <2>2 DEF Supersede
  <2>3. CASE q # p
    <3> DEFINE b == req[q].fresh /\ req[q].pc \notin Granting
               c == [req[q] EXCEPT !.fresh = b]
    <3>1. req'[q] = c
      BY <2>3 DEF Supersede
    <3>2. b \in BOOLEAN
      BY <2>1 DEF Request
    <3>3. c \in Request
      BY <2>1, <3>2 DEF Request
    <3>4. /\ c.pc = req[q].pc /\ c.why = req[q].why /\ c.grace = req[q].grace
          /\ c.readStatus = req[q].readStatus /\ c.readFailed = req[q].readFailed
      BY <2>1 DEF Request
    <3>5. (c.fresh <=> b) /\ (c.stale <=> req[q].stale) /\ (c.readLocked <=> req[q].readLocked)
      BY <2>1, <3>2 DEF Request
    <3> HIDE DEF c
    <3>6. FailOK(c) /\ AliveOK(c) /\ CallerOK(c)
      BY <2>1, <3>4, <3>5 DEF CopyOK, FailOK, AliveOK, CallerOK
    <3>7. StaleOK(c, user')
      BY <2>1, <3>4, <3>5 DEF CopyOK, StaleOK
    <3>8. FreshOK(c, user')
      BY <3>4, <3>5 DEF FreshOK, FreshLabels, AliveLabels, MfaLabels, PurgeLabels, Granting
    <3> QED BY <3>1, <3>3, <3>6, <3>7, <3>8 DEF CopyOK
  <2> QED BY <2>2, <2>3
<1>2. req' \in [Procs -> Request]
  <2>1. req' = [q \in Procs |-> req'[q]]
    BY DEF Supersede
  <2> QED BY <1>1, <2>1
<1> QED BY <1>1, <1>2 DEF RequestsOK

LEMMA SoftDeleteStep ==
  ASSUME AInv, NEW p \in Procs, SoftDelete(p)
  PROVE  RowOK' /\ RequestsOK' /\ (user'.there => user'.grace # Null)
<1>1. RequestsOK /\ RowOK /\ user \in UserRow /\ req[p] \in Request
  BY DEF AInv, RowOK, RequestsOK
<1>2. /\ user' \in UserRow
      /\ user'.lock = user.lock /\ user'.failed = user.failed
      /\ user'.status = "pending_deletion" \/ user'.status = user.status
      /\ user'.there => user'.grace # Null
  <2>1. CASE ~user.there
    BY <1>1, <2>1 DEF SoftDelete
  <2>2. CASE user.there
    <3>1. user' = [user EXCEPT !.grace = Grace + 1, !.status = "pending_deletion"]
      BY <2>2 DEF SoftDelete
    <3>2. Grace + 1 \in {Null} \cup 0..Grace + 1 /\ Grace + 1 # Null
      BY Bounds
    <3> QED BY <1>1, <3>1, <3>2 DEF UserRow, Statuses
  <2> QED BY <2>1, <2>2
<1>3. user'.verified <=> user.verified
  BY <1>1 DEF SoftDelete, UserRow
<1>4. RowOK'
  BY <1>1, <1>2 DEF RowOK, NoOrphanLock
<1> DEFINE r == [req[p] EXCEPT !.pc = "revokeAll"]
<1>5. r \in Request /\ r.pc = "revokeAll"
  BY <1>1 DEF Request, Labels
<1>6. Supersede(p, r)
  BY DEF SoftDelete
<1> HIDE DEF r
<1>7. CopyOK(r, user')
  BY <1>2, <1>5 DEF CopyOK, FailOK, StaleOK, AliveOK, CallerOK, FreshOK, FreshLabels, AliveLabels, MfaLabels, PurgeLabels
<1> QED BY <1>1, <1>2, <1>3, <1>4, <1>5, <1>6, <1>7, SupersedeStep

LEMMA RestoreWriteStep ==
  ASSUME AInv, NEW p \in Procs, RestoreWrite(p) PROVE RowOK' /\ RequestsOK'
<1>1. RequestsOK /\ RowOK /\ user \in UserRow /\ req[p] \in Request
  BY DEF AInv, RowOK, RequestsOK
<1>2. /\ user' \in UserRow
      /\ user'.lock = user.lock /\ user'.failed = user.failed
      /\ user'.status = "active" \/ user'.status = user.status
      /\ user'.there => user'.grace = Null
  BY <1>1, Bounds DEF RestoreWrite, UserRow, Statuses
<1>3. user'.verified <=> user.verified
  BY <1>1 DEF RestoreWrite, UserRow
<1>4. RowOK'
  BY <1>1, <1>2 DEF RowOK, NoOrphanLock
<1> DEFINE r == [req[p] EXCEPT !.pc = "session", !.fresh = TRUE]
<1>5. r \in Request /\ r.pc = "session"
  BY <1>1 DEF Request, Labels
<1>6. Supersede(p, r)
  BY DEF RestoreWrite
<1> HIDE DEF r
<1>7. CopyOK(r, user')
  BY <1>2, <1>5 DEF CopyOK, FailOK, StaleOK, AliveOK, CallerOK, FreshOK, FreshLabels, AliveLabels, MfaLabels, PurgeLabels
<1> QED BY <1>1, <1>3, <1>4, <1>5, <1>6, <1>7, SupersedeStep

\* Counting down never gets to Null, and never leaves it.
LEMMA LessFine ==
  ASSUME NEW m \in Nat, NEW n \in {Null} \cup 0..m
  PROVE  /\ Less(n) \in {Null} \cup 0..m
         /\ Less(n) = Null <=> n = Null
         /\ n = 0 => Less(n) = 0
BY Bounds DEF Less

LEMMA TickStep == ASSUME AInv, Tick PROVE RowOK' /\ RequestsOK' /\ (user'.there <=> user.there)
                                          /\ (user'.grace = Null <=> user.grace = Null)
<1>1. RequestsOK /\ RowOK /\ user \in UserRow /\ LongLock \in Nat /\ Grace + 1 \in Nat
  BY Bounds DEF AInv, RowOK
<1>2. /\ Less(user.lock) \in {Null} \cup 0..LongLock /\ (Less(user.lock) = Null <=> user.lock = Null)
      /\ Less(user.grace) \in {Null} \cup 0..Grace + 1 /\ (Less(user.grace) = Null <=> user.grace = Null)
      /\ user.grace = 0 => Less(user.grace) = 0
  BY <1>1, LessFine DEF UserRow
<1>3. user' = [user EXCEPT !.lock = Less(user.lock), !.grace = Less(user.grace)]
  BY DEF Tick
<1>4. /\ user' \in UserRow /\ user'.lock = Less(user.lock) /\ user'.grace = Less(user.grace)
      /\ user'.status = user.status /\ user'.failed = user.failed
  BY <1>1, <1>2, <1>3 DEF UserRow
<1>5. (user'.there <=> user.there) /\ (user'.verified <=> user.verified)
  BY <1>1, <1>3 DEF UserRow
<1>6. RowOK'
  BY <1>1, <1>2, <1>4 DEF RowOK, NoOrphanLock
<1>7. ASSUME NEW q \in Procs PROVE req'[q] \in Request /\ CopyOK(req'[q], user')
  <2> DEFINE g == Less(req[q].grace)
             r == [req[q] EXCEPT !.grace = g]
  <2>1. req[q] \in Request /\ CopyOK(req[q], user) /\ req'[q] = r
    BY <1>1 DEF RequestsOK, Tick
  <2>2. g \in {Null} \cup 0..Grace + 1 /\ (g = Null <=> req[q].grace = Null)
        /\ (req[q].grace = user.grace => g = user'.grace)
    BY <1>1, <1>4, <2>1, LessFine DEF Request
  <2> HIDE DEF g
  <2>3. r \in Request
    BY <2>1, <2>2 DEF Request
  <2>4. /\ r.pc = req[q].pc /\ r.why = req[q].why /\ r.grace = g
        /\ r.readStatus = req[q].readStatus /\ r.readFailed = req[q].readFailed
    BY <2>1 DEF Request
  <2>5. (r.stale <=> req[q].stale) /\ (r.fresh <=> req[q].fresh)
        /\ (r.readLocked <=> req[q].readLocked)
    BY <2>1 DEF Request
  <2> HIDE DEF r
  <2>6. FailOK(r) /\ AliveOK(r) /\ CallerOK(r)
    BY <2>1, <2>2, <2>4, <2>5 DEF CopyOK, FailOK, AliveOK, CallerOK
  <2>7. StaleOK(r, user')
    BY <1>5, <2>1, <2>4, <2>5 DEF CopyOK, StaleOK
  <2>8. FreshOK(r, user')
    BY <1>2, <1>4, <1>5, <2>1, <2>2, <2>4, <2>5 DEF CopyOK, FreshOK
  <2> QED BY <2>1, <2>3, <2>6, <2>7, <2>8 DEF CopyOK
<1>8. req' \in [Procs -> Request]
  <2>1. req' = [q \in Procs |-> req'[q]]
    BY DEF Tick
  <2> QED BY <1>7, <2>1
<1> QED BY <1>2, <1>4, <1>5, <1>6, <1>7, <1>8 DEF RequestsOK

-----------------------------------------------------------------------------
(* The invariant.                                                          *)

\* Whatever the step, the row, and what requests know of it, stay right.
LEMMA RowAndRequests == ASSUME AInv, [Next]_vars PROVE RowOK' /\ RequestsOK'
<1>1. RowOK /\ RequestsOK
  BY DEF AInv
<1>2. CASE UNCHANGED vars
  BY <1>1, <1>2 DEF vars, RowOK, NoOrphanLock, RequestsOK
<1>3. ASSUME NEW p \in Procs, Begin(p) PROVE RowOK' /\ RequestsOK'
  BY <1>1, <1>3, Arrivals, Unchanged
     DEF Begin, BeginLogin, BeginVerifyEmail, BeginReset, BeginDelete, BeginRestore,
     BeginMfaVerify
<1>4. ASSUME NEW p \in Procs, Continue(p) \/ Abort(p) PROVE RowOK' /\ RequestsOK'
  <2>1. CASE CheckLockout(p) \/ FindUser(p) \/ VerifyPassword(p)
    BY <1>1, <2>1, LoginReads, Unchanged DEF CheckLockout, FindUser, VerifyPassword
  <2>2. CASE \/ IncrAttempts(p) \/ ExpireAttempts(p) \/ FailRead(p) \/ SetLockout(p)
             \/ DelAttempts(p) \/ DelLockout(p) \/ ClearRead(p) \/ CreateSession(p)
             \/ ResetRevoke(p) \/ RevokeAll(p) \/ RestoreFind(p) \/ Abort(p)
    BY <1>1, <2>2, OtherReads, Unchanged DEF IncrAttempts, ExpireAttempts, FailRead, SetLockout,
       DelAttempts, DelLockout, ClearRead, CreateSession, ResetRevoke, RevokeAll, RestoreFind, Abort
  <2>3. CASE FailWrite(p) \/ ClearWrite(p) \/ PurgeCred(p) \/ Purge(p) \/ Activate(p)
             \/ SoftDelete(p) \/ RestoreWrite(p)
    BY <2>3, FailWriteStep, ClearWriteStep, PurgeCredStep, PurgeStep, ActivateStep, SoftDeleteStep,
       RestoreWriteStep
  <2>4. CASE MfaStatement(p)
    BY <1>1, <2>4, MfaReads, MfaKept, Unchanged
  <2> QED BY <1>4, <2>1, <2>2, <2>3, <2>4 DEF Continue, MfaStatement
<1>5. CASE Tick
  BY <1>5, TickStep
<1>6. CASE AttemptsExpire \/ TempExpires
  BY <1>1, <1>6, Unchanged DEF AttemptsExpire, TempExpires, RequestsOK
<1> QED BY <1>2, <1>3, <1>4, <1>5, <1>6 DEF Next

\* What a completed deletion promises holds until a restoration.
LEMMA SessionsStep == ASSUME AInv, [Next]_vars PROVE SessionsOK'
<1>1. /\ RowOK /\ RequestsOK /\ SessionsOK /\ user \in UserRow /\ live \subseteq Kinds
      /\ everIn \in BOOLEAN /\ severed \in BOOLEAN
  BY DEF AInv, RowOK, SessionsOK
<1>2. CASE UNCHANGED <<user, live, everIn, severed>>
  BY <1>1, <1>2, Unchanged
<1>3. ASSUME UNCHANGED <<live, everIn, severed>>, user'.there => user.there,
             user'.grace = Null => user.grace = Null
      PROVE  SessionsOK'
  BY <1>1, <1>3 DEF SessionsOK, NoSessionAfterDelete
<1>4. ASSUME NEW p \in Procs, CreateSession(p) PROVE SessionsOK'
  <2>1. req[p].fresh /\ user.there => user.grace = Null
    BY <1>1, <1>4 DEF CreateSession, At, RequestsOK, CopyOK, FreshOK
  <2>2. CASE ~user.there
    BY <1>1, <1>4, <2>2, Unchanged DEF CreateSession, sessions
  <2>3. CASE user.there
    <3>1. live' \subseteq Kinds /\ (severed => "clean" \notin live')
      BY <1>1, <1>4, <2>1, <2>3 DEF CreateSession, SessionsOK, NoSessionAfterDelete, Kinds
    <3> QED BY <1>1, <1>4, <2>3, <3>1 DEF CreateSession, SessionsOK, NoSessionAfterDelete
  <2> QED BY <2>2, <2>3
<1>5. ASSUME NEW p \in Procs, Purge(p) PROVE SessionsOK'
  <2>1. ~user'.there /\ live' = {} /\ UNCHANGED <<everIn, severed>>
    BY <1>1, <1>5 DEF Purge, UserRow
  <2> QED BY <1>1, <2>1 DEF SessionsOK, NoSessionAfterDelete
<1>6. ASSUME NEW p \in Procs, ResetRevoke(p) PROVE SessionsOK'
  BY <1>1, <1>6 DEF ResetRevoke, SessionsOK, NoSessionAfterDelete
<1>7. ASSUME NEW p \in Procs, RevokeAll(p) PROVE SessionsOK'
  <2>1. req[p].fresh /\ user.there => user.grace # Null
    BY <1>1, <1>7 DEF RevokeAll, At, RequestsOK, CopyOK, FreshOK
  <2>2. req[p].fresh \in BOOLEAN
    BY <1>1 DEF RequestsOK, Request
  <2> QED BY <1>1, <1>7, <2>1, <2>2 DEF RevokeAll, SessionsOK, NoSessionAfterDelete
<1>8. ASSUME NEW p \in Procs, RestoreWrite(p) PROVE SessionsOK'
  BY <1>1, <1>8 DEF RestoreWrite, sessions, SessionsOK, NoSessionAfterDelete
<1>9. ASSUME NEW p \in Procs, FailWrite(p) \/ ClearWrite(p) PROVE SessionsOK'
  <2>1. user'.there = user.there /\ user'.grace = user.grace
    BY <1>9, FailWriteStep, ClearWriteStep
  <2> QED BY <1>3, <1>9, <2>1 DEF FailWrite, ClearWrite, sessions
<1>10. ASSUME NEW p \in Procs, Activate(p) PROVE SessionsOK'
  <2>1. user'.there = user.there /\ user'.grace = user.grace
    BY <1>1, <1>10 DEF Activate, UserRow
  <2> QED BY <1>3, <1>10, <2>1 DEF Activate, sessions
<1>11. ASSUME NEW p \in Procs, SoftDelete(p) PROVE SessionsOK'
  <2>1. user'.there => user'.grace # Null
    BY <1>11, SoftDeleteStep
  <2> QED BY <1>1, <1>11, <2>1 DEF SoftDelete, sessions, SessionsOK, NoSessionAfterDelete
<1>16. ASSUME NEW p \in Procs, MfaStatement(p) PROVE SessionsOK'
  <2>1. UNCHANGED <<user, severed>>
    BY <1>16, MfaKept
  <2>2. CASE MfaSession(p) /\ user.there
    <3>1. req[p].fresh => user.grace = Null
      BY <1>1, <2>2 DEF MfaSession, At, RequestsOK, CopyOK, FreshOK, MfaLabels
    <3>2. live' \subseteq Kinds /\ (severed => "clean" \notin live')
      BY <1>1, <2>2, <3>1 DEF MfaSession, SessionsOK, NoSessionAfterDelete, Kinds
    <3> QED BY <1>1, <2>1, <2>2, <3>2 DEF MfaSession, SessionsOK, NoSessionAfterDelete
  <2>3. CASE MfaUser(p)
    <3>1. everIn' \in BOOLEAN /\ UNCHANGED live
      BY <1>1, <2>3 DEF MfaUser, Findable, UserRow
    <3> QED BY <1>1, <2>1, <3>1 DEF SessionsOK, NoSessionAfterDelete
  <2>4. CASE UNCHANGED <<live, everIn>>
    BY <1>2, <2>1, <2>4
  <2> QED BY <1>16, <2>2, <2>3, <2>4 DEF MfaStatement, MfaFind, SetTemp, MfaGet, MfaCheck, MfaDel,
          MfaSession, sessions
<1>17. ASSUME NEW p \in Procs, PurgeCred(p) PROVE SessionsOK'
  <2>1. user'.there = user.there /\ user'.grace = user.grace
    BY <1>17, PurgeCredStep
  <2> QED BY <1>3, <1>17, <2>1 DEF PurgeCred, sessions
<1>12. CASE Tick
  BY <1>3, <1>12, TickStep DEF Tick, sessions
<1>13. CASE UNCHANGED vars \/ AttemptsExpire \/ TempExpires
  BY <1>2, <1>13 DEF vars, AttemptsExpire, TempExpires, sessions
<1>14. ASSUME NEW p \in Procs, Begin(p) PROVE SessionsOK'
  BY <1>2, <1>14 DEF Begin, BeginLogin, BeginVerifyEmail, BeginReset, BeginDelete, BeginRestore,
     BeginMfaVerify,
     sessions
<1>15. ASSUME NEW p \in Procs,
              \/ CheckLockout(p) \/ FindUser(p) \/ VerifyPassword(p) \/ IncrAttempts(p)
              \/ ExpireAttempts(p) \/ FailRead(p) \/ SetLockout(p) \/ DelAttempts(p)
              \/ DelLockout(p) \/ ClearRead(p) \/ RestoreFind(p) \/ Abort(p)
       PROVE  SessionsOK'
  BY <1>2, <1>15 DEF CheckLockout, FindUser, VerifyPassword, IncrAttempts, ExpireAttempts, FailRead,
     SetLockout, DelAttempts, DelLockout, ClearRead, RestoreFind, Abort, sessions
<1> QED BY <1>4, <1>5, <1>6, <1>7, <1>8, <1>9, <1>10, <1>11, <1>12, <1>13, <1>14, <1>15, <1>16,
           <1>17 DEF Next, Continue, MfaStatement

\* A request other than FailWrite's does not get to the lockout key.
LEMMA CountedElsewhere ==
  ASSUME AInv, NEW p \in Procs,
         \/ \E r : Become(p, r) /\ r.pc # "setLockout"
         \/ \E l \in Labels \ {"setLockout"} : Goto(p, l)
         \/ Finish(p)
  PROVE  CountedOK'
<1>1. req \in [Procs -> Request] /\ CountedOK
  BY DEF AInv, RequestsOK
<1>2. ASSUME NEW r, Become(p, r), r.pc # "setLockout" PROVE CountedOK'
  BY <1>1, <1>2 DEF CountedOK, Become, At
<1>3. CASE Finish(p)
  BY <1>2, <1>3, IdleFine DEF Finish
<1>4. ASSUME NEW l \in Labels \ {"setLockout"}, Goto(p, l) PROVE CountedOK'
  <2>1. [req[p] EXCEPT !.pc = l].pc = l
    BY <1>1 DEF Request
  <2> QED BY <1>2, <1>4, <2>1 DEF Goto
<1> QED BY <1>2, <1>3, <1>4

\* The lockout key is set after a count that locks.
LEMMA CountedStep == ASSUME AInv, [Next]_vars PROVE CountedOK'
<1>1. req \in [Procs -> Request] /\ CountedOK
  BY DEF AInv, RequestsOK
<1>2. ASSUME UNCHANGED req PROVE CountedOK'
  BY <1>1, <1>2 DEF CountedOK, At
<1>3. ASSUME \A q \in Procs : \/ req'[q] = Idle
                              \/ req'[q].pc # "setLockout"
                              \/ req'[q].pc = req[q].pc /\ req'[q].readFailed = req[q].readFailed
      PROVE  CountedOK'
  BY <1>1, <1>3, IdleFine DEF CountedOK, At
<1>4. ASSUME NEW p \in Procs, Begin(p) PROVE CountedOK'
  <2>1. ASSUME NEW op, NEW l \in Labels \ {"setLockout"}, Start(p, op, l) PROVE CountedOK'
    <3>1. [Idle EXCEPT !.pc = l].pc = l
      BY DEF Idle
    <3> QED BY <2>1, <3>1, CountedElsewhere DEF Start
  <2>2. {"ttl", "activate", "resetRevoke", "softDelete", "restoreFind", "mfaGet"} \subseteq Labels \ {"setLockout"}
    BY DEF Labels
  <2> QED BY <1>4, <2>1, <2>2 DEF Begin, BeginLogin, BeginVerifyEmail, BeginReset, BeginDelete, BeginRestore,
     BeginMfaVerify
<1>5. ASSUME NEW p \in Procs, FailWrite(p) PROVE CountedOK'
  <2>1. CASE Finish(p)
    BY <2>1, CountedElsewhere
  <2>2. CASE /\ Become(p, [Idle EXCEPT !.pc = "setLockout", !.readFailed = req[p].readFailed])
             /\ OneMore(req[p].readFailed) >= First
    <3> DEFINE r == [Idle EXCEPT !.pc = "setLockout", !.readFailed = req[p].readFailed]
    <3>1. r.readFailed = req[p].readFailed
      BY DEF Idle
    <3>2. req'[p] = r /\ \A q \in Procs : q # p => req'[q] = req[q]
      BY <1>1, <2>2 DEF Become
    <3> QED BY <1>1, <2>2, <3>1, <3>2 DEF CountedOK, At
  <2> QED BY <1>5, <2>1, <2>2 DEF FailWrite
<1>6. ASSUME NEW p \in Procs, Continue(p) \/ Abort(p), ~FailWrite(p) PROVE CountedOK'
  <2>1. req[p] \in Request
    BY <1>1
  <2>2. CASE CheckLockout(p) \/ IncrAttempts(p) \/ ExpireAttempts(p) \/ SetLockout(p)
             \/ CreateSession(p) \/ PurgeCred(p) \/ Purge(p) \/ RevokeAll(p) \/ Abort(p)
             \/ DelAttempts(p)
    <3>1. {"find", "expire", "failRead", "delLockout", "purge"} \subseteq Labels \ {"setLockout"}
      BY DEF Labels
    <3> QED BY <2>2, <3>1, CountedElsewhere DEF CheckLockout, IncrAttempts, ExpireAttempts, SetLockout,
        CreateSession, PurgeCred, Purge, RevokeAll, Abort, DelAttempts
  <2>3. CASE FindUser(p) \/ VerifyPassword(p)
    <3>1. CASE Finish(p)
      BY <3>1, CountedElsewhere
    <3>2. CASE \E r : Become(p, r) /\ r.pc # "setLockout"
      BY <3>2, CountedElsewhere
    <3>3. ASSUME NEW l \in Labels \ {"setLockout"}, NEW w, NEW s, NEW g, NEW f,
                 Become(p, [req[p] EXCEPT !.pc = l, !.why = w, !.status = s, !.grace = g, !.fresh = f])
          PROVE  CountedOK'
      <4>1. [req[p] EXCEPT !.pc = l, !.why = w, !.status = s, !.grace = g, !.fresh = f].pc = l
        BY <2>1 DEF Request
      <4> QED BY <3>3, <4>1, CountedElsewhere
    <3>4. CASE FindUser(p)
      BY <3>1, <3>3, <3>4 DEF FindUser, Labels
    <3>5. CASE VerifyPassword(p)
      <4>1. /\ [Idle EXCEPT !.pc = "incr"].pc = "incr"
            /\ [Idle EXCEPT !.pc = "mfaFind", !.fresh = req[p].fresh].pc = "mfaFind"
            /\ [Idle EXCEPT !.pc = "purgeCred", !.fresh = req[p].fresh].pc = "purgeCred"
        BY DEF Idle
      <4> QED BY <3>1, <3>2, <3>5, <4>1 DEF VerifyPassword, Admit
    <3> QED BY <2>3, <3>4, <3>5
  <2>4. ASSUME NEW l \in {"failWrite", "clearWrite"}, NEW n, NEW b, Copy(p, l, n, b) PROVE CountedOK'
    <3> DEFINE r == [req[p] EXCEPT !.pc = l, !.readStatus = user.status, !.readFailed = n,
                       !.readLocked = b,
                       !.stale = user.verified /\ user.status = "pending_verification"]
    <3>1. r.pc = l /\ Become(p, r)
      BY <2>1, <2>4 DEF Request, Copy
    <3> QED BY <3>1, CountedElsewhere
  <2>5. ASSUME Proceed(p), req[p].pc \in {"clearRead", "clearWrite"} PROVE CountedOK'
    <3> DEFINE l == AfterClear(req[p].why)
               r == [req[p] EXCEPT !.pc = l, !.why = "none", !.stale = FALSE,
                       !.readStatus = "active", !.readFailed = 0, !.readLocked = FALSE]
    <3>1. CASE l = "idle"
      BY <2>5, <3>1, CountedElsewhere DEF Proceed
    <3>2. CASE l # "idle"
      <4>1. Become(p, r) /\ r.pc = l
        BY <2>1, <2>5, <3>2 DEF Proceed, Request
      <4>2. req[p].why \in {"expired", "success", "reset"}
        BY <2>1, <2>5 DEF Request, AInv, RequestsOK, CopyOK, CallerOK
      <4>3. l # "setLockout"
        BY <4>2 DEF AfterClear
      <4> HIDE DEF l, r
      <4> QED BY <4>1, <4>3, CountedElsewhere
    <3> QED BY <3>1, <3>2
  <2>6. CASE FailRead(p) \/ ClearRead(p) \/ ClearWrite(p)
    BY <2>4, <2>5, <2>6, CountedElsewhere DEF FailRead, ClearRead, ClearWrite, At
  <2>7. ASSUME NEW w, Become(p, [req[p] EXCEPT !.pc = "clearRead", !.why = w]) PROVE CountedOK'
    <3>1. [req[p] EXCEPT !.pc = "clearRead", !.why = w].pc = "clearRead"
      BY <2>1 DEF Request
    <3> QED BY <2>7, <3>1, CountedElsewhere
  <2>8. CASE DelLockout(p) \/ ResetRevoke(p)
    BY <2>7, <2>8 DEF DelLockout, ResetRevoke
  <2>9. CASE RestoreFind(p)
    <3>1. CASE Finish(p)
      BY <3>1, CountedElsewhere
    <3>2. ASSUME NEW l \in {"purgeCred", "restoreWrite"}, Become(p, [Idle EXCEPT !.pc = l])
          PROVE  CountedOK'
      <4>1. [Idle EXCEPT !.pc = l].pc = l
        BY DEF Idle
      <4> QED BY <3>2, <4>1, CountedElsewhere
    <3> QED BY <2>9, <3>1, <3>2 DEF RestoreFind
  <2>10. CASE Activate(p)
    <3>1. ASSUME NEW q \in Procs, q # p
          PROVE  req'[q].pc = req[q].pc /\ req'[q].readFailed = req[q].readFailed
      BY <1>1, <2>10, <3>1 DEF Activate, Request
    <3> QED BY <1>3, <2>10, <3>1 DEF Activate
  <2>11. ASSUME NEW r, Supersede(p, r), r.pc # "setLockout" PROVE CountedOK'
    <3>1. ASSUME NEW q \in Procs, q # p
          PROVE  req'[q].pc = req[q].pc /\ req'[q].readFailed = req[q].readFailed
      BY <1>1, <2>11, <3>1 DEF Supersede, Request
    <3>2. req'[p] = r
      BY <2>11 DEF Supersede
    <3> QED BY <1>3, <2>11, <3>1, <3>2
  <2>12. CASE SoftDelete(p) \/ RestoreWrite(p)
    <3>1. /\ [req[p] EXCEPT !.pc = "revokeAll"].pc = "revokeAll"
          /\ [req[p] EXCEPT !.pc = "session", !.fresh = TRUE].pc = "session"
      BY <2>1 DEF Request
    <3> QED BY <2>11, <2>12, <3>1 DEF SoftDelete, RestoreWrite
  <2>13. CASE MfaStatement(p)
    <3>1. {"delAttempts", "setTemp", "mfaDel", "mfaSession", "mfaUser"} \subseteq Labels \ {"setLockout"}
      BY DEF Labels
    <3>2. ASSUME NEW f, Become(p, [req[p] EXCEPT !.pc = "mfaCheck", !.fresh = f]) PROVE CountedOK'
      <4>1. [req[p] EXCEPT !.pc = "mfaCheck", !.fresh = f].pc = "mfaCheck"
        BY <2>1 DEF Request
      <4> QED BY <3>2, <4>1, CountedElsewhere
    <3> QED BY <2>13, <3>1, <3>2, CountedElsewhere DEF MfaStatement, MfaFind, SetTemp, MfaGet,
        MfaCheck, MfaDel, MfaSession, MfaUser
  <2> QED BY <1>6, <2>2, <2>3, <2>6, <2>8, <2>9, <2>10, <2>12, <2>13 DEF Continue, MfaStatement
<1>7. CASE Tick
  <2>1. ASSUME NEW q \in Procs PROVE req'[q].pc = req[q].pc /\ req'[q].readFailed = req[q].readFailed
    BY <1>1, <1>7 DEF Tick, Request
  <2> QED BY <1>3, <2>1
<1>8. CASE AttemptsExpire \/ TempExpires \/ UNCHANGED vars
  BY <1>2, <1>8 DEF AttemptsExpire, TempExpires, vars
<1> QED BY <1>4, <1>5, <1>6, <1>7, <1>8 DEF Next

\* The keys keep their types: bars are as long as the count asks, or count down.
LEMMA KeysStep == ASSUME AInv, [Next]_vars PROVE KeysOK'
<1>1. KeysOK /\ CountedOK /\ req \in [Procs -> Request]
  BY DEF AInv, RequestsOK
<1>2. ASSUME NEW p \in Procs, SetLockout(p) PROVE KeysOK'
  <2>1. req[p].readFailed \in 0..Second /\ OneMore(req[p].readFailed) >= First
    BY <1>1, <1>2 DEF SetLockout, CountedOK, Request
  <2>2. LockFor(OneMore(req[p].readFailed)) \in 1..LongLock
    BY <2>1, CountFine
  <2> QED BY <1>1, <1>2, <2>2 DEF SetLockout, KeysOK
<1>3. CASE Tick
  <2>1. lockout \in {Null} \cup 0..LongLock /\ LongLock \in Nat /\ lockout # Null
    BY <1>1, Bounds DEF KeysOK
  <2>2. Less(lockout) \in 0..LongLock
    BY <2>1, LessFine
  <2> QED BY <1>1, <1>3, <2>2 DEF Tick, KeysOK
<1>4. ASSUME NEW p \in Procs, DelLockout(p) PROVE KeysOK'
  BY <1>1, <1>4, Bounds DEF DelLockout, KeysOK
<1>5. ASSUME NEW p \in Procs, IncrAttempts(p) \/ ExpireAttempts(p) \/ DelAttempts(p) PROVE KeysOK'
  BY <1>1, <1>5 DEF IncrAttempts, ExpireAttempts, DelAttempts, KeysOK
<1>6. CASE AttemptsExpire
  BY <1>1, <1>6 DEF AttemptsExpire, KeysOK
<1>7. ASSUME UNCHANGED <<ops, attempts, lockout>> PROVE KeysOK'
  BY <1>1, <1>7, Unchanged
<1>8. ASSUME NEW p \in Procs, Begin(p) PROVE KeysOK'
  BY <1>7, <1>8 DEF Begin, BeginLogin, BeginVerifyEmail, BeginReset, BeginDelete, BeginRestore,
     BeginMfaVerify, redis
<1>9. ASSUME NEW p \in Procs,
             \/ CheckLockout(p) \/ FindUser(p) \/ VerifyPassword(p) \/ FailRead(p) \/ FailWrite(p)
             \/ ClearRead(p) \/ ClearWrite(p) \/ CreateSession(p) \/ PurgeCred(p) \/ Purge(p)
             \/ Activate(p) \/ ResetRevoke(p) \/ SoftDelete(p) \/ RevokeAll(p) \/ RestoreFind(p)
             \/ RestoreWrite(p) \/ Abort(p) \/ MfaStatement(p)
      PROVE  KeysOK'
  BY <1>7, <1>9, MfaKept DEF CheckLockout, FindUser, VerifyPassword, FailRead, FailWrite, ClearRead,
     ClearWrite, CreateSession, PurgeCred, Purge, Activate, ResetRevoke, SoftDelete, RevokeAll, RestoreFind, RestoreWrite,
     Abort, redis
<1>10. CASE UNCHANGED vars \/ TempExpires
  BY <1>7, <1>10 DEF vars, TempExpires
<1> QED BY <1>2, <1>3, <1>4, <1>5, <1>6, <1>8, <1>9, <1>10 DEF Next, Continue, MfaStatement

\* No deletion leaves a fresh token, and no login stores one after a deletion.
LEMMA TempsStep == ASSUME AInv, [Next]_vars PROVE TempsOK'
<1>1. TempsOK /\ RequestsOK /\ user \in UserRow
  BY DEF AInv, RowOK
<1>2. ASSUME temps' \subseteq temps, user'.there => user.there,
             user.there /\ user.grace = Null => user'.grace = Null
      PROVE  TempsOK'
  BY <1>1, <1>2 DEF TempsOK
<1>3. ASSUME NEW p \in Procs, SetTemp(p) PROVE TempsOK'
  <2>1. req[p].fresh /\ user.there => user.grace = Null
    BY <1>1, <1>3 DEF SetTemp, At, RequestsOK, CopyOK, FreshOK, FreshLabels, AliveOK, AliveLabels
  <2> QED BY <1>1, <1>3, <2>1 DEF SetTemp, TempsOK, Temps
<1>4. ASSUME NEW p \in Procs, SoftDelete(p) \/ RestoreWrite(p) PROVE TempsOK'
  BY <1>4 DEF SoftDelete, RestoreWrite, Supersede, TempsOK, Temps
<1>5. ASSUME NEW p \in Procs, FailWrite(p) \/ ClearWrite(p) \/ PurgeCred(p) PROVE TempsOK'
  <2>1. user'.there = user.there /\ user'.grace = user.grace
    BY <1>5, FailWriteStep, ClearWriteStep, PurgeCredStep
  <2> QED BY <1>2, <1>5, <2>1 DEF FailWrite, ClearWrite, PurgeCred, redis
<1>6. ASSUME NEW p \in Procs, Purge(p) \/ Activate(p) PROVE TempsOK'
  <2>1. (user'.there => user.there) /\ user'.grace = user.grace
    BY <1>1, <1>6 DEF Purge, Activate, UserRow
  <2> QED BY <1>2, <1>6, <2>1 DEF Purge, Activate, redis
<1>7. CASE Tick
  BY <1>2, <1>7, TickStep DEF Tick
<1>8. CASE TempExpires \/ AttemptsExpire \/ UNCHANGED vars
  BY <1>2, <1>8 DEF TempExpires, AttemptsExpire, vars
<1>9. ASSUME NEW p \in Procs, MfaStatement(p), ~SetTemp(p) PROVE TempsOK'
  <2>1. temps' \subseteq temps
    BY <1>9 DEF MfaStatement, MfaFind, MfaGet, MfaCheck, MfaDel, MfaSession, MfaUser, redis
  <2> QED BY <1>2, <1>9, <2>1, MfaKept
<1>10. ASSUME NEW p \in Procs, Begin(p) PROVE TempsOK'
  BY <1>2, <1>10 DEF Begin, BeginLogin, BeginVerifyEmail, BeginReset, BeginDelete, BeginRestore,
     BeginMfaVerify, redis
<1>11. ASSUME NEW p \in Procs,
              \/ CheckLockout(p) \/ FindUser(p) \/ VerifyPassword(p) \/ IncrAttempts(p)
              \/ ExpireAttempts(p) \/ FailRead(p) \/ SetLockout(p) \/ DelAttempts(p)
              \/ DelLockout(p) \/ ClearRead(p) \/ CreateSession(p) \/ ResetRevoke(p)
              \/ RevokeAll(p) \/ RestoreFind(p) \/ Abort(p)
       PROVE  TempsOK'
  BY <1>2, <1>11 DEF CheckLockout, FindUser, VerifyPassword, IncrAttempts, ExpireAttempts, FailRead,
     SetLockout, DelAttempts, DelLockout, ClearRead, CreateSession, ResetRevoke, RevokeAll,
     RestoreFind, Abort, redis
<1> QED BY <1>3, <1>4, <1>5, <1>6, <1>7, <1>8, <1>9, <1>10, <1>11 DEF Next, Continue, MfaStatement

LEMMA AInvInit == Init => AInv
<1> SUFFICES ASSUME Init PROVE AInv
  OBVIOUS
<1>1. RowOK
  BY Bounds DEF Init, RowOK, NoOrphanLock, UserRow, Statuses
<1>2. SessionsOK
  BY DEF Init, SessionsOK, NoSessionAfterDelete
<1>3. KeysOK /\ TempsOK /\ CountedOK
  BY IdleFine, Bounds DEF Init, KeysOK, TempsOK, CountedOK, At
<1>4. RequestsOK
  BY IdleFine DEF Init, RequestsOK
<1> QED BY <1>1, <1>2, <1>3, <1>4 DEF AInv

LEMMA AInvStep == AInv /\ [Next]_vars => AInv'
BY RowAndRequests, SessionsStep, KeysStep, TempsStep, CountedStep DEF AInv

\* AInv holds in every state of every behaviour.
THEOREM Invariance == Spec => []AInv
BY AInvInit, AInvStep, PTL DEF Spec

-----------------------------------------------------------------------------
(* The properties of the runs.                                             *)

\* Every reachable state of the row, the keys and the requests is of its type.
THEOREM AccountTypes == Spec => []TypeOK
BY Invariance, AInvGives, PTL

\* No interleaving of failed and successful logins, resets, verifications and
\* deletions leaves the status "locked" without a lockUntil.
THEOREM LocksHaveAnEnd == Spec => []NoOrphanLock
BY Invariance, AInvGives, PTL

\* After a completed deletion there are sessions only of requests it overlapped and
\* of temporary tokens that were handed out before it.
THEOREM DeletionEndsSessions == Spec => []NoSessionAfterDelete
BY Invariance, AInvGives, PTL

\* The steps by which the row's lock, verification and presence can change.
LEMMA Writers ==
  ASSUME AInv, [Next]_vars, user' # user
  PROVE  Tick \/ \E p \in Procs : \/ FailWrite(p) \/ ClearWrite(p) \/ PurgeCred(p) \/ Purge(p)
                                  \/ Activate(p) \/ SoftDelete(p) \/ RestoreWrite(p)
<1>1. ASSUME NEW p \in Procs, Begin(p) PROVE user' = user
  BY <1>1 DEF Begin, BeginLogin, BeginVerifyEmail, BeginReset, BeginDelete, BeginRestore,
     BeginMfaVerify
<1>2. ASSUME NEW p \in Procs,
             \/ CheckLockout(p) \/ FindUser(p) \/ VerifyPassword(p) \/ IncrAttempts(p)
             \/ ExpireAttempts(p) \/ FailRead(p) \/ SetLockout(p) \/ DelAttempts(p)
             \/ DelLockout(p) \/ ClearRead(p) \/ CreateSession(p) \/ ResetRevoke(p)
             \/ RevokeAll(p) \/ RestoreFind(p) \/ Abort(p) \/ MfaStatement(p)
      PROVE  user' = user
  BY <1>2, MfaKept DEF CheckLockout, FindUser, VerifyPassword, IncrAttempts, ExpireAttempts, FailRead,
     SetLockout, DelAttempts, DelLockout, ClearRead, CreateSession, ResetRevoke, RevokeAll,
     RestoreFind, Abort
<1>3. AttemptsExpire \/ TempExpires \/ UNCHANGED vars => user' = user
  BY DEF AttemptsExpire, TempExpires, vars
<1> QED BY <1>1, <1>2, <1>3 DEF Next, Continue, MfaStatement

\* A lock in force is lifted by nobody who saw it, but those who clear it.
THEOREM LocksAreSeen == Spec => NoBlindUnlock
<1> DEFINE A == user.lock > 0 /\ user'.lock <= 0 =>
                  \/ Tick
                  \/ \E p \in Procs : \/ ClearWrite(p)
                                      \/ FailWrite(p) /\ ~req[p].readLocked
<1>1. AInv /\ [Next]_vars => [A]_vars
  <2> SUFFICES ASSUME AInv, [Next]_vars, user.lock > 0, user'.lock <= 0, ~Tick,
                      \A p \in Procs : ~ClearWrite(p)
               PROVE  \E p \in Procs : FailWrite(p) /\ ~req[p].readLocked
    OBVIOUS
  <2>1. user \in UserRow /\ req \in [Procs -> Request] /\ \A p \in Procs : CopyOK(req[p], user)
    BY DEF AInv, RowOK, RequestsOK
  <2>2. user.lock \in {Null} \cup 0..LongLock /\ user' # user
    BY <2>1, Bounds DEF UserRow
  <2>3. PICK p \in Procs : \/ FailWrite(p) \/ PurgeCred(p) \/ Purge(p)
                           \/ Activate(p) \/ SoftDelete(p) \/ RestoreWrite(p)
    BY <2>2, Writers
  <2>4. PurgeCred(p) \/ Purge(p) \/ Activate(p) \/ SoftDelete(p) \/ RestoreWrite(p)
          => user'.lock = user.lock
    BY <2>1 DEF PurgeCred, Purge, Activate, SoftDelete, RestoreWrite, UserRow
  <2>5. FailWrite(p)
    BY <2>2, <2>3, <2>4, Bounds
  <2>6. ASSUME req[p].readLocked PROVE FALSE
    <3>1. req[p].readFailed \in 0..Second /\ req[p].readFailed >= First
      BY <2>1, <2>5, <2>6 DEF FailWrite, At, CopyOK, FailOK, Request
    <3>2. LockFor(OneMore(req[p].readFailed)) \in 1..LongLock
      BY <3>1, CountFine
    <3>3. user.there
      BY <2>2, <2>5 DEF FailWrite
    <3>4. user'.lock = LockFor(OneMore(req[p].readFailed))
      BY <2>1, <2>5, <3>3 DEF FailWrite, UserRow
    <3> QED BY <3>2, <3>4, Bounds
  <2> QED BY <2>5, <2>6
<1> QED BY <1>1, Invariance, PTL DEF Spec, NoBlindUnlock

\* A verification is only ever taken back by a write that read the row before it.
THEOREM VerificationsLast == Spec => VerificationKept
<1> DEFINE A == user.verified /\ user'.status = "pending_verification" =>
                  \/ user.status = "pending_verification"
                  \/ \E p \in Procs : req[p].stale /\ (FailWrite(p) \/ ClearWrite(p))
<1>1. AInv /\ [Next]_vars => [A]_vars
  <2> SUFFICES ASSUME AInv, [Next]_vars, user.verified, user'.status = "pending_verification",
                      user.status # "pending_verification"
               PROVE  \E p \in Procs : req[p].stale /\ (FailWrite(p) \/ ClearWrite(p))
    OBVIOUS
  <2>1. user \in UserRow /\ req \in [Procs -> Request] /\ \A p \in Procs : CopyOK(req[p], user)
    BY DEF AInv, RowOK, RequestsOK
  <2>2. ~Tick
    BY <2>1 DEF Tick, UserRow
  <2>3. PICK p \in Procs : \/ FailWrite(p) \/ ClearWrite(p) \/ PurgeCred(p) \/ Purge(p)
                           \/ Activate(p) \/ SoftDelete(p) \/ RestoreWrite(p)
    BY <2>2, Writers
  <2>4. ~(PurgeCred(p) \/ Purge(p) \/ Activate(p) \/ SoftDelete(p) \/ RestoreWrite(p))
    BY <2>1 DEF PurgeCred, Purge, Activate, SoftDelete, RestoreWrite, UserRow
  <2>5. FailWrite(p) \/ ClearWrite(p)
    BY <2>3, <2>4
  <2>6. user.there
    BY <2>5 DEF FailWrite, ClearWrite
  <2>7. req[p].readStatus = "pending_verification"
    <3>1. CASE FailWrite(p)
      BY <2>1, <2>6, <3>1 DEF FailWrite, UserRow
    <3>2. CASE ClearWrite(p)
      BY <2>1, <2>6, <3>2 DEF ClearWrite, UserRow
    <3> QED BY <2>5, <3>1, <3>2
  <2>8. StaleOK(req[p], user) /\ req[p].pc \in {"failWrite", "clearWrite"}
    BY <2>1, <2>5 DEF CopyOK, FailWrite, ClearWrite, At
  <2>9. req[p].stale
    BY <2>7, <2>8 DEF StaleOK
  <2> QED BY <2>5, <2>9
<1> QED BY <1>1, Invariance, PTL DEF Spec, VerificationKept

\* No row, and no credentials, are purged before their time unless the row changed
\* hands under the purge.
THEOREM PurgesAreDue == Spec => PurgeOnlyExpired
<1> DEFINE A == user.there /\ (~user'.there \/ (user.cred /\ ~user'.cred)) =>
                  \/ user.grace = 0
                  \/ \E p \in Procs : (At(p, "purgeCred") \/ At(p, "purge")) /\ ~req[p].fresh
<1>1. AInv /\ [Next]_vars => [A]_vars
  <2> SUFFICES ASSUME AInv, [Next]_vars, user.there, ~user'.there \/ (user.cred /\ ~user'.cred)
               PROVE  \/ user.grace = 0
                      \/ \E p \in Procs : (At(p, "purgeCred") \/ At(p, "purge")) /\ ~req[p].fresh
    OBVIOUS
  <2>1. user \in UserRow /\ req \in [Procs -> Request] /\ \A p \in Procs : CopyOK(req[p], user)
    BY DEF AInv, RowOK, RequestsOK
  <2>2. ~Tick
    BY <2>1 DEF Tick, UserRow
  <2>3. PICK p \in Procs : \/ FailWrite(p) \/ ClearWrite(p) \/ PurgeCred(p) \/ Purge(p)
                           \/ Activate(p) \/ SoftDelete(p) \/ RestoreWrite(p)
    BY <2>2, Writers
  <2>4. ~(FailWrite(p) \/ ClearWrite(p))
    BY <2>1 DEF FailWrite, ClearWrite, UserRow
  <2>5. ~(Activate(p) \/ SoftDelete(p) \/ RestoreWrite(p))
    BY <2>1 DEF Activate, SoftDelete, RestoreWrite, UserRow
  <2>6. At(p, "purgeCred") \/ At(p, "purge")
    BY <2>3, <2>4, <2>5 DEF Purge, PurgeCred
  <2>7. FreshOK(req[p], user)
    BY <2>1 DEF CopyOK
  <2>8. req[p].fresh => user.grace = 0
    BY <2>6, <2>7 DEF FreshOK, At, PurgeLabels
  <2> QED BY <2>6, <2>8
<1> QED BY <1>1, Invariance, PTL DEF Spec, PurgeOnlyExpired
=============================================================================
