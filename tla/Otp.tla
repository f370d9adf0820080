--------------------------------- MODULE Otp ---------------------------------
(***************************************************************************)
(* OtpService for one user and one purpose: generateOtp and verifyOtp over *)
(* five Redis keys and the otp_codes table.                                *)
(*                                                                         *)
(* Redis and PostgreSQL are written by separate awaited statements; any    *)
(* other request may run between two of them.  A key or a code that has an *)
(* expiry may reach it at any moment and in any order, which also covers a *)
(* Redis that evicts keys or restarts empty, and clocks that differ.       *)
(***************************************************************************)
EXTENDS RedisKeys, Sequences, SequencesExt, FiniteSets

CONSTANTS
  Procs,         \* request slots
  Ops,           \* operations that clients use, of {"generate", "verify"}
  MaxTries,      \* maxVerificationAttempts (5)
  MaxHourly,     \* maxHourlyRequests (3)
  Expiring,      \* bound: the keys that may reach their expiry, and "row" for the rows
  MaxDeaths,     \* bound: requests that die half-way
  MaxCodes       \* bound: codes ever generated

ASSUME ProcsAssumption == IsFiniteSet(Procs)
ASSUME LimitsAssumption == MaxTries \in Nat \ {0} /\ MaxHourly \in Nat \ {0}
ASSUME OpsAssumption == Ops \subseteq {"generate", "verify"}
ASSUME BoundAssumption ==
  /\ MaxCodes \in Nat /\ MaxDeaths \in Nat
  /\ Expiring \subseteq {"code", "attempts", "cooldown", "hourly", "suspend", "row"}

VARIABLES
  redis,         \* the keys otp:code, otp:attempts, otp:cooldown, ...
  rows,          \* otp_codes by createdAt
  lastCode,      \* codes generated so far; two codes never collide
  mailed,        \* codes sent to the user
  wrong,         \* per code: wrong tries that were compared with it
  spent,         \* codes whose verification succeeded and invalidated them
  overlapped,    \* codes some verification was in flight with when they were stored
  deaths,        \* requests that died so far
  req            \* local state of the requests in flight

vars == <<redis, rows, lastCode, mailed, wrong, spent, overlapped, deaths, req>>
history == <<mailed, wrong, spent, overlapped, deaths>>

-----------------------------------------------------------------------------
NoKeys == [code |-> Absent, attempts |-> Absent, cooldown |-> Absent,
           hourly |-> Absent, suspend |-> Absent]

-----------------------------------------------------------------------------
GenerateLabels == {"suspend?", "cooldown?", "hourly?", "setSuspend", "deleteRows",
                   "insertRow", "setCode", "resetAttempts", "setCooldown",
                   "incrHourly", "expireHourly", "mail"}
VerifyLabels == {"getCode", "getAttempts", "findRow", "setAttempts", "findBackup",
                 "readRow", "writeRow", "delCode", "delAttempts", "delRow"}

Request == [pc: {"idle"} \cup GenerateLabels \cup VerifyLabels,
            code: 0..MaxCodes,     \* generated, or presented (0 is a wrong one)
            cached: 0..MaxCodes,   \* the hash that is compared
            attempts: 0..MaxTries, \* wrong tries, as read
            row: 0..MaxCodes,      \* dbCode.id: the row used instead of Redis
            target: 0..MaxCodes,   \* the row incrementAttempts works on
            read: 0..MaxTries,
            matched: BOOLEAN,
            late: BOOLEAN]         \* the presented code was spent before

Idle == [pc |-> "idle", code |-> 0, cached |-> 0, attempts |-> 0, row |-> 0,
         target |-> 0, read |-> 0, matched |-> FALSE, late |-> FALSE]

Init ==
  /\ redis = NoKeys
  /\ rows = <<>>
  /\ lastCode = 0
  /\ mailed = {} /\ spent = {} /\ overlapped = {}
  /\ wrong = [c \in 1..MaxCodes |-> 0]
  /\ deaths = 0
  /\ req = [p \in Procs |-> Idle]

At(p, l) == req[p].pc = l
Become(p, r) == req' = [req EXCEPT ![p] = r]
Goto(p, l) == Become(p, [req[p] EXCEPT !.pc = l])
Finish(p) == Become(p, Idle)

Verifying == {p \in Procs : req[p].pc \in VerifyLabels}

\* Codes left for this request and those that may still generate one.
Room == lastCode + Cardinality({p \in Procs : At(p, "suspend?") \/ At(p, "cooldown?")
                                               \/ At(p, "hourly?")}) < MaxCodes

-----------------------------------------------------------------------------
(* generateOtp.                                                            *)

BeginGenerate(p) ==
  /\ At(p, "idle") /\ "generate" \in Ops /\ Room
  /\ Goto(p, "suspend?")
  /\ UNCHANGED <<redis, rows, lastCode, history>>

CheckSuspend(p) ==
  /\ At(p, "suspend?")
  /\ IF Present(redis.suspend) THEN Finish(p) ELSE Goto(p, "cooldown?")
  /\ UNCHANGED <<redis, rows, lastCode, history>>

CheckCooldown(p) ==
  /\ At(p, "cooldown?")
  /\ IF Present(redis.cooldown) THEN Finish(p) ELSE Goto(p, "hourly?")
  /\ UNCHANGED <<redis, rows, lastCode, history>>

\* MUTANT: an off-by-one in the comparison with maxHourlyRequests.
OverLimitOffByOne(n) == n > MaxHourly

OverLimit(n) == n >= MaxHourly

\* The code and expiresAt are computed in the same synchronous stretch.
CheckHourly(p) ==
  /\ At(p, "hourly?")
  /\ \/ /\ OverLimit(redis.hourly.val)
        /\ Goto(p, "setSuspend")
        /\ UNCHANGED lastCode
     \/ /\ ~OverLimit(redis.hourly.val)
        /\ lastCode' = lastCode + 1
        /\ Become(p, [Idle EXCEPT !.pc = "deleteRows", !.code = lastCode + 1])
  /\ UNCHANGED <<redis, rows, history>>

\* MUTANT: the suspension has no expiry.
SetSuspendForGood(p) ==
  /\ At(p, "setSuspend")
  /\ redis' = [redis EXCEPT !.suspend = [val |-> 1, ttl |-> "never"]]
  /\ Finish(p)
  /\ UNCHANGED <<rows, lastCode, history>>

SetSuspend(p) ==
  /\ At(p, "setSuspend")
  /\ redis' = [redis EXCEPT !.suspend = Key(1)]
  /\ Finish(p)
  /\ UNCHANGED <<rows, lastCode, history>>

DeleteRows(p) ==
  /\ At(p, "deleteRows")
  /\ rows' = <<>>
  /\ Goto(p, "insertRow")
  /\ UNCHANGED <<redis, lastCode, history>>

InsertRow(p) ==
  /\ At(p, "insertRow")
  /\ rows' = Append(rows, [code |-> req[p].code, attempts |-> 0, live |-> TRUE])
  /\ Goto(p, "setCode")
  /\ UNCHANGED <<redis, lastCode, history>>

SetCode(p) ==
  /\ At(p, "setCode")
  /\ redis' = [redis EXCEPT !.code = Key(req[p].code)]
  /\ overlapped' = overlapped \cup IF Verifying = {} THEN {} ELSE {req[p].code}
  /\ Goto(p, "resetAttempts")
  /\ UNCHANGED <<rows, lastCode, mailed, wrong, spent, deaths>>

\* MUTANT: the counter of the previous code is kept.
ResetAttemptsNot(p) ==
  /\ At(p, "resetAttempts")
  /\ Goto(p, "setCooldown")
  /\ UNCHANGED <<redis, rows, lastCode, history>>

ResetAttempts(p) ==
  /\ At(p, "resetAttempts")
  /\ redis' = [redis EXCEPT !.attempts = Key(0)]
  /\ Goto(p, "setCooldown")
  /\ UNCHANGED <<rows, lastCode, history>>

SetCooldown(p) ==
  /\ At(p, "setCooldown")
  /\ redis' = [redis EXCEPT !.cooldown = Key(1)]
  /\ Goto(p, "incrHourly")
  /\ UNCHANGED <<rows, lastCode, history>>

IncrHourly(p) ==
  /\ At(p, "incrHourly")
  /\ redis' = [redis EXCEPT !.hourly = Incr(@)]
  /\ Goto(p, IF Present(redis.hourly) THEN "mail" ELSE "expireHourly")
  /\ UNCHANGED <<rows, lastCode, history>>

ExpireHourly(p) ==
  /\ At(p, "expireHourly")
  /\ redis' = [redis EXCEPT !.hourly = Expire(@)]
  /\ Goto(p, "mail")
  /\ UNCHANGED <<rows, lastCode, history>>

\* A mail that cannot be sent is logged; the code stays unknown, as after Abort.
Mail(p) ==
  /\ At(p, "mail")
  /\ mailed' = mailed \cup {req[p].code}
  /\ Finish(p)
  /\ UNCHANGED <<redis, rows, lastCode, wrong, spent, overlapped, deaths>>

-----------------------------------------------------------------------------
(* verifyOtp.                                                              *)

\* Between SET otp:code and SET otp:attempts the counter is not yet the code's.
BeginVerify(p, c) ==
  /\ At(p, "idle") /\ "verify" \in Ops
  /\ Become(p, [Idle EXCEPT !.pc = "getCode", !.code = c, !.late = c \in spent])
  /\ overlapped' = overlapped \cup {req[q].code : q \in {q \in Procs : At(q, "resetAttempts")}}
  /\ UNCHANGED <<redis, rows, lastCode, mailed, wrong, spent, deaths>>

GetCode(p) ==
  /\ At(p, "getCode")
  /\ Become(p, [req[p] EXCEPT !.pc = "getAttempts", !.cached = redis.code.val])
  /\ UNCHANGED <<redis, rows, lastCode, history>>

\* MUTANT: one more wrong try than maxVerificationAttempts.
CompareOffByOne(p, h, n, row) ==
  \/ /\ n > MaxTries
     /\ Become(p, [Idle EXCEPT !.pc = "delCode", !.row = row])
     /\ UNCHANGED wrong
  \/ /\ n <= MaxTries /\ req[p].code = h
     /\ Become(p, [req[p] EXCEPT !.pc = "delCode", !.row = row, !.matched = TRUE])
     /\ UNCHANGED wrong
  \/ /\ n <= MaxTries /\ req[p].code # h
     /\ Become(p, [Idle EXCEPT !.pc = "setAttempts", !.row = row, !.attempts = n + 1])
     /\ wrong' = [wrong EXCEPT ![h] = IF @ < MaxTries THEN @ + 1 ELSE @]

\* The comparison with the code h after n wrong tries, and the decision it leads
\* to; row is 0 when h comes from Redis.
Compare(p, h, n, row) ==
  \/ /\ n >= MaxTries
     /\ Become(p, [Idle EXCEPT !.pc = "delCode", !.row = row])
     /\ UNCHANGED wrong
  \/ /\ n < MaxTries /\ req[p].code = h
     /\ Become(p, [req[p] EXCEPT !.pc = "delCode", !.row = row, !.matched = TRUE])
     /\ UNCHANGED wrong
  \/ /\ n < MaxTries /\ req[p].code # h
     /\ Become(p, [Idle EXCEPT !.pc = "setAttempts", !.row = row, !.attempts = n + 1])
     /\ wrong' = [wrong EXCEPT ![h] = IF @ < MaxTries THEN @ + 1 ELSE @]

GetAttempts(p) ==
  /\ At(p, "getAttempts")
  /\ IF req[p].cached = 0
     THEN Goto(p, "findRow") /\ UNCHANGED wrong
     ELSE Compare(p, req[p].cached, redis.attempts.val, 0)
  /\ UNCHANGED <<redis, rows, lastCode, mailed, spent, overlapped, deaths>>

\* findLatestActiveCode; rows that expired stay in the table.
FindRow(p) ==
  /\ At(p, "findRow")
  /\ IF rows = <<>> \/ ~Last(rows).live
     THEN Finish(p) /\ UNCHANGED wrong
     ELSE Compare(p, Last(rows).code, Last(rows).attempts, Last(rows).code)
  /\ UNCHANGED <<redis, rows, lastCode, mailed, spent, overlapped, deaths>>

\* A read-modify-write: the value comes from GetAttempts or from the row.
SetAttempts(p) ==
  /\ At(p, "setAttempts")
  /\ redis' = [redis EXCEPT !.attempts = SetKeepTtl(@, req[p].attempts)]
  /\ Become(p, [req[p] EXCEPT !.pc = IF req[p].row = 0 THEN "findBackup" ELSE "readRow",
                              !.target = req[p].row])
  /\ UNCHANGED <<rows, lastCode, history>>

AfterCount(p) == IF req[p].attempts >= MaxTries
                 THEN Become(p, [Idle EXCEPT !.pc = "delCode", !.row = req[p].row])
                 ELSE Finish(p)

FindBackup(p) ==
  /\ At(p, "findBackup")
  /\ IF rows = <<>> THEN AfterCount(p)
     ELSE Become(p, [req[p] EXCEPT !.pc = "readRow", !.target = Last(rows).code])
  /\ UNCHANGED <<redis, rows, lastCode, history>>

\* incrementAttempts: a read, then a write.  Counts from MaxTries on are not told
\* apart.
ReadRow(p) ==
  /\ At(p, "readRow")
  /\ \/ \E i \in DOMAIN rows :
          /\ rows[i].code = req[p].target
          /\ Become(p, [req[p] EXCEPT !.pc = "writeRow", !.read = rows[i].attempts])
     \/ /\ \A i \in DOMAIN rows : rows[i].code # req[p].target
        /\ AfterCount(p)
  /\ UNCHANGED <<redis, rows, lastCode, history>>

WriteRow(p) ==
  /\ At(p, "writeRow")
  /\ rows' = [i \in DOMAIN rows |->
                IF rows[i].code = req[p].target
                THEN [rows[i] EXCEPT !.attempts = IF req[p].read < MaxTries
                                                  THEN req[p].read + 1 ELSE MaxTries]
                ELSE rows[i]]
  /\ AfterCount(p)
  /\ UNCHANGED <<redis, lastCode, history>>

\* invalidateOtp: by key, whatever code is there by now.
DelCode(p) ==
  /\ At(p, "delCode")
  /\ redis' = [redis EXCEPT !.code = Absent]
  /\ Goto(p, "delAttempts")
  /\ UNCHANGED <<rows, lastCode, history>>

DelAttempts(p) ==
  /\ At(p, "delAttempts")
  /\ redis' = [redis EXCEPT !.attempts = Absent]
  /\ Goto(p, "delRow")
  /\ UNCHANGED <<rows, lastCode, history>>

\* MUTANT: the backup is removed only when it was what the code was compared with.
RemainingAfterRedisHit(row) ==
  IF row = 0 THEN rows ELSE RemoveFirstMatch(rows, LAMBDA r : r.code = row)

\* deleteOtpCode (a code has one row at most) or deleteAllUserOtpCodes.
Remaining(row) ==
  IF row = 0 THEN <<>> ELSE RemoveFirstMatch(rows, LAMBDA r : r.code = row)

DelRow(p) ==
  /\ At(p, "delRow")
  /\ rows' = Remaining(req[p].row)
  /\ spent' = spent \cup IF req[p].matched THEN {req[p].code} ELSE {}
  /\ Finish(p)
  /\ UNCHANGED <<redis, lastCode, mailed, wrong, overlapped, deaths>>

-----------------------------------------------------------------------------
\* A statement throws or the instance dies.
Abort(p) ==
  /\ ~At(p, "idle") /\ deaths < MaxDeaths
  /\ deaths' = deaths + 1
  /\ Finish(p)
  /\ UNCHANGED <<redis, rows, lastCode, mailed, wrong, spent, overlapped>>

KeyExpires(k) ==
  /\ k \in Expiring /\ redis[k].ttl = "expires"
  /\ redis' = [redis EXCEPT ![k] = Absent]
  /\ UNCHANGED <<rows, lastCode, history, req>>

RowExpires(i) ==
  /\ "row" \in Expiring /\ rows[i].live
  /\ rows' = [rows EXCEPT ![i].live = FALSE]
  /\ UNCHANGED <<redis, lastCode, history, req>>

Continue(p) ==
  \/ CheckSuspend(p) \/ CheckCooldown(p) \/ CheckHourly(p) \/ SetSuspend(p)
  \/ DeleteRows(p) \/ InsertRow(p) \/ SetCode(p) \/ ResetAttempts(p)
  \/ SetCooldown(p) \/ IncrHourly(p) \/ ExpireHourly(p) \/ Mail(p)
  \/ GetCode(p) \/ GetAttempts(p) \/ FindRow(p) \/ SetAttempts(p) \/ FindBackup(p)
  \/ ReadRow(p) \/ WriteRow(p) \/ DelCode(p) \/ DelAttempts(p) \/ DelRow(p)

Next ==
  \/ \E p \in Procs : \/ BeginGenerate(p)
                      \/ \E c \in {0} \cup mailed : BeginVerify(p, c)
                      \/ Continue(p) \/ Abort(p)
  \/ \E k \in DOMAIN redis : KeyExpires(k)
  \/ \E i \in DOMAIN rows : RowExpires(i)

Spec == Init /\ [][Next]_vars

\* Time goes on; an awaited statement returns or throws.
FairSpec ==
  /\ Spec
  /\ \A k \in DOMAIN NoKeys : WF_vars(KeyExpires(k))
  /\ \A p \in Procs : WF_vars(Continue(p) \/ Abort(p))

-----------------------------------------------------------------------------
(* Properties.                                                             *)

\* The keys, the rows and the requests hold values of their types; only the
\* counters can lack an expiry.
TypeOK ==
  /\ redis \in [{"code", "attempts", "cooldown", "hourly", "suspend"} -> RedisKey]
  /\ redis.code.val \in 0..MaxCodes /\ redis.attempts.val \in 0..MaxTries
  /\ \A k \in {"code", "cooldown", "suspend"} : redis[k].ttl # "never"
  /\ rows \in Seq([code: 1..MaxCodes, attempts: 0..MaxTries, live: BOOLEAN])
  /\ lastCode \in 0..MaxCodes
  /\ mailed \subseteq 1..lastCode /\ spent \subseteq 1..lastCode
  /\ overlapped \subseteq 1..lastCode
  /\ wrong \in [1..MaxCodes -> 0..MaxTries]
  /\ deaths \in 0..MaxDeaths
  /\ req \in [Procs -> Request]

\* A code that was accepted and invalidated is not accepted again, from Redis or
\* from the backup: a code is used twice only by verifications that overlap.
ReuseNeedsOverlap == \A p \in Procs : req[p].late => ~req[p].matched

\* A mailed code is deleted from Redis only after it was accepted or after
\* MaxTries wrong tries against it, unless a verification was in flight while
\* the code and its counter were being stored.
NoEarlyInvalidation ==
  [][\A p \in Procs :
       LET c == redis.code.val IN
       At(p, "delCode") /\ DelCode(p) /\ c \in mailed \ overlapped =>
         \/ wrong[c] = MaxTries
         \/ req[p].matched /\ req[p].code = c]_vars

\* Overlapping requests overrun the hourly limit by less than their number.
HourlyOvershoot == redis.hourly.val < MaxHourly + Cardinality(Procs)

\* Again and again a new code can be generated, unless a request died between
\* INCR and EXPIRE and left a counter without an expiry.
CanGenerate == /\ ~Present(redis.suspend) /\ ~Present(redis.cooldown)
               /\ ~OverLimit(redis.hourly.val)

OrphanCounter == redis.hourly.ttl = "never" /\ \A p \in Procs : ~At(p, "expireHourly")

SuspensionEnds == []<>CanGenerate \/ <>OrphanCounter
=============================================================================
