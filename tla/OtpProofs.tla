------------------------------ MODULE OtpProofs ------------------------------
(***************************************************************************)
(* A code that was accepted is not accepted again, a mailed code is not    *)
(* deleted before its tries are used up, and the hourly limit is overrun   *)
(* by less than the requests in flight, for any number of requests and     *)
(* codes, whatever expires and dies.                                       *)
(***************************************************************************)
EXTENDS Otp, FiniteSetTheorems, SequenceTheorems, TLAPS

\* Labels of a request that has a code of its own, from its draw to its mail.
CodeLabels == {"deleteRows", "insertRow", "setCode", "resetAttempts", "setCooldown",
               "incrHourly", "expireHourly", "mail"}

\* Once a verification deleted the code from Redis.
FinalLabels == {"delAttempts", "delRow"}

Codes(s) == {s[i].code : i \in DOMAIN s}
Distinct(s) == \A i, j \in DOMAIN s : s[i].code = s[j].code => i = j

\* What a request knows of the codes: k is the code in Redis, s the rows.
CodeOK(r, k, s, last, sent, used) ==
  /\ r.pc \in CodeLabels => r.code \in 1..last /\ r.code \notin sent
  /\ r.pc \in {"deleteRows", "insertRow"} => r.code \notin Codes(s)
  /\ r.pc \in VerifyLabels => r.code \in sent \cup {0}
  /\ r.matched => /\ r.pc \in {"delCode"} \cup FinalLabels
                  /\ r.code \in sent /\ r.row \in {0, r.code} /\ ~r.late
                  /\ r.pc \in FinalLabels => k # r.code
  /\ r.late => r.code \in used /\ r.cached # r.code

Row == [code: 1..MaxCodes, attempts: 0..MaxTries, live: BOOLEAN]

RequestsOK ==
  /\ req \in [Procs -> Request]
  /\ \A p \in Procs : CodeOK(req[p], redis.code.val, rows, lastCode, mailed, spent)
  /\ \A p, q \in Procs : req[p].pc \in CodeLabels /\ req[q].pc \in CodeLabels
                           /\ req[p].code = req[q].code => p = q

KeysOK ==
  /\ redis \in [{"code", "attempts", "cooldown", "hourly", "suspend"} -> RedisKey]
  /\ redis.code.val \in 0..MaxCodes /\ redis.attempts.val \in 0..MaxTries
  /\ \A k \in {"code", "cooldown", "suspend"} : redis[k].ttl # "never"
  /\ Present(redis.hourly) \/ redis.hourly.val = 0

RowsOK == rows \in Seq(Row) /\ Distinct(rows) /\ Codes(rows) \subseteq 1..lastCode

CodesOK ==
  /\ lastCode \in Nat
  /\ mailed \subseteq 1..lastCode /\ spent \subseteq mailed /\ overlapped \subseteq 1..lastCode
  /\ \A c \in spent : redis.code.val # c /\ c \notin Codes(rows)
  /\ wrong \in [1..MaxCodes -> 0..MaxTries] /\ deaths \in 0..MaxDeaths

\* Requests at one of the labels.
Crowd(labels) == Cardinality({p \in Procs : req[p].pc \in labels})

DrawingLabels == {"suspend?", "cooldown?", "hourly?"}
PassedLabels == {"deleteRows", "insertRow", "setCode", "resetAttempts", "setCooldown",
                 "incrHourly"}

\* There is a code for everyone who may draw one; who passed the check of the
\* hourly key will count, or die, once at most.
CountsOK ==
  /\ lastCode + Crowd(DrawingLabels) <= MaxCodes
  /\ redis.hourly.val + Crowd(PassedLabels) < MaxHourly + Cardinality(Procs)

OInv == RequestsOK /\ KeysOK /\ RowsOK /\ CodesOK /\ CountsOK

-----------------------------------------------------------------------------
(* The table.                                                              *)

\* A part of a sequence of rows.
LEMMA CutFine ==
  ASSUME NEW s \in Seq(Row), NEW m \in Nat, NEW n \in Nat, m >= 1, n <= Len(s), m <= n + 1
  PROVE  /\ SubSeq(s, m, n) \in Seq(Row) /\ Len(SubSeq(s, m, n)) = n - m + 1
         /\ \A i \in 1..n - m + 1 : SubSeq(s, m, n)[i] = s[m + i - 1]
<1>1. Len(s) \in Nat
  BY LenProperties
<1>2. \A i \in m..n : s[i] \in Row
  <2>1. m..n \subseteq 1..Len(s)
    BY <1>1
  <2> QED BY <2>1, ElementOfSeq
<1>3. /\ SubSeq(s, m, n) \in Seq(Row)
      /\ Len(SubSeq(s, m, n)) = IF m <= n THEN n - m + 1 ELSE 0
      /\ \A i \in 1..n - m + 1 : SubSeq(s, m, n)[i] = s[m + i - 1]
  BY <1>2, SubSeqProperties
<1>4. (IF m <= n THEN n - m + 1 ELSE 0) = n - m + 1
  OBVIOUS
<1> QED BY <1>3, <1>4

\* A sequence without its element n.
LEMMA RemoveAtFine ==
  ASSUME NEW s \in Seq(Row), NEW n \in 1..Len(s)
  PROVE  /\ RemoveAt(s, n) \in Seq(Row) /\ Len(RemoveAt(s, n)) = Len(s) - 1
         /\ \A i \in 1..Len(s) - 1 : RemoveAt(s, n)[i] = s[IF i < n THEN i ELSE i + 1]
<1> DEFINE a == SubSeq(s, 1, n - 1)
           b == SubSeq(s, n + 1, Len(s))
<1>1. Len(s) \in Nat /\ n \in Nat /\ n - 1 \in Nat /\ n + 1 \in Nat
  BY LenProperties
<1>2. a \in Seq(Row) /\ Len(a) = n - 1 - 1 + 1 /\ \A i \in 1..n - 1 - 1 + 1 : a[i] = s[1 + i - 1]
  <2>1. 1 \in Nat /\ 1 >= 1 /\ n - 1 <= Len(s) /\ 1 <= n - 1 + 1
    BY <1>1
  <2> QED BY <1>1, <2>1, CutFine
<1>3. b \in Seq(Row) /\ Len(b) = Len(s) - (n + 1) + 1
      /\ \A i \in 1..Len(s) - (n + 1) + 1 : b[i] = s[n + 1 + i - 1]
  <2>1. n + 1 >= 1 /\ Len(s) <= Len(s) /\ n + 1 <= Len(s) + 1
    BY <1>1
  <2> QED BY <1>1, <2>1, CutFine
<1>4. RemoveAt(s, n) = a \o b
  BY DEF RemoveAt
<1> HIDE DEF a, b
<1>5. Len(a) = n - 1 /\ \A i \in 1..n - 1 : a[i] = s[i]
  BY <1>1, <1>2
<1>6. Len(b) = Len(s) - n /\ \A i \in 1..Len(s) - n : b[i] = s[n + i]
  <2>1. Len(s) - (n + 1) + 1 = Len(s) - n /\ \A i \in Nat : n + 1 + i - 1 = n + i
    BY <1>1
  <2> QED BY <1>1, <1>3, <2>1
<1>7. /\ a \o b \in Seq(Row) /\ Len(a \o b) = Len(a) + Len(b)
      /\ \A i \in 1..Len(a) + Len(b) : (a \o b)[i] = IF i <= Len(a) THEN a[i] ELSE b[i - Len(a)]
  BY <1>2, <1>3, ConcatProperties
<1>8. Len(a) + Len(b) = Len(s) - 1
  BY <1>1, <1>5, <1>6
<1>9. ASSUME NEW i \in 1..Len(s) - 1
      PROVE  (a \o b)[i] = s[IF i < n THEN i ELSE i + 1]
  <2>1. (a \o b)[i] = IF i <= n - 1 THEN a[i] ELSE b[i - (n - 1)]
    BY <1>5, <1>7, <1>8
  <2>2. CASE i < n
    <3>1. i <= n - 1 /\ i \in 1..n - 1
      BY <1>1, <2>2
    <3> QED BY <1>5, <2>1, <2>2, <3>1
  <2>3. CASE ~(i < n)
    <3>1. ~(i <= n - 1) /\ i - (n - 1) \in 1..Len(s) - n /\ n + (i - (n - 1)) = i + 1
      BY <1>1, <2>3
    <3> QED BY <1>6, <2>1, <2>3, <3>1
  <2> QED BY <2>2, <2>3
<1> QED BY <1>4, <1>7, <1>8, <1>9

\* deleteOtpCode leaves no row of the code.
Without(s, c) == RemoveFirstMatch(s, LAMBDA r : r.code = c)

LEMMA RemoveFine ==
  ASSUME NEW s \in Seq(Row), NEW c, Distinct(s)
  PROVE  /\ Without(s, c) \in Seq(Row) /\ Distinct(Without(s, c)) /\ c \notin Codes(Without(s, c))
         /\ Codes(Without(s, c)) \subseteq Codes(s)
<1>1. Len(s) \in Nat /\ DOMAIN s = 1..Len(s)
  BY LenProperties
<1>2. CASE ~\E i \in 1..Len(s) : s[i].code = c
  BY <1>1, <1>2 DEF Without, RemoveFirstMatch, Codes
<1>3. CASE \E i \in 1..Len(s) : s[i].code = c
  <2> DEFINE I == {i \in 1..Len(s) : s[i].code = c}
  <2>1. PICK n \in 1..Len(s) : s[n].code = c
    BY <1>3
  <2>2. I = {n}
    BY <1>1, <2>1 DEF Distinct
  <2>3. Min(I) = n
    BY <1>1, <2>2 DEF Min
  <2> DEFINE t == RemoveAt(s, n)
             f(i) == IF i < n THEN i ELSE i + 1
  <2>4. Without(s, c) = t
    BY <1>3, <2>2, <2>3 DEF Without, RemoveFirstMatch, SelectInSeq
  <2>5. t \in Seq(Row) /\ Len(t) = Len(s) - 1 /\ \A i \in 1..Len(s) - 1 : t[i] = s[f(i)]
    BY <2>1, RemoveAtFine
  <2>6. DOMAIN t = 1..Len(s) - 1
    BY <2>5, LenProperties
  <2> HIDE DEF t
  <2>7. \A i \in 1..Len(s) - 1 : f(i) \in 1..Len(s) /\ f(i) # n
    BY <1>1
  <2>8. \A i, j \in 1..Len(s) - 1 : f(i) = f(j) => i = j
    BY <1>1
  <2> HIDE DEF f
  <2>9. \A i \in DOMAIN t : t[i] = s[f(i)] /\ f(i) \in DOMAIN s /\ s[f(i)].code # c
    BY <1>1, <2>1, <2>5, <2>6, <2>7 DEF Distinct
  <2>10. c \notin Codes(t) /\ Codes(t) \subseteq Codes(s)
    BY <2>9 DEF Codes
  <2>11. Distinct(t)
    <3> SUFFICES ASSUME NEW i \in DOMAIN t, NEW j \in DOMAIN t, t[i].code = t[j].code
                 PROVE  i = j
      BY DEF Distinct
    <3>1. f(i) = f(j)
      BY <2>9 DEF Distinct
    <3> QED BY <2>6, <2>8, <3>1
  <2> QED BY <2>4, <2>5, <2>10, <2>11
<1> QED BY <1>2, <1>3

-----------------------------------------------------------------------------
(* The counts.                                                             *)

\* The constants, as the proofs use them.
LEMMA Bounds ==
  /\ MaxTries \in Nat /\ MaxTries > 0 /\ MaxHourly \in Nat /\ MaxHourly > 0
  /\ MaxCodes \in Nat /\ MaxDeaths \in Nat /\ Cardinality(Procs) \in Nat
BY LimitsAssumption, BoundAssumption, ProcsAssumption, FS_CardinalityType

\* The number of requests at some labels changes with the one request that moves.
LEMMA CrowdFine ==
  ASSUME NEW labels
  PROVE  Crowd(labels) \in Nat /\ Crowd(labels) <= Cardinality(Procs) /\ Cardinality(Procs) \in Nat
         /\ \A p \in Procs : req[p].pc \in labels => Crowd(labels) >= 1
<1> DEFINE S == {p \in Procs : req[p].pc \in labels}
<1>1. S \in SUBSET Procs /\ IsFiniteSet(S) /\ Cardinality(S) <= Cardinality(Procs)
  BY ProcsAssumption, FS_Subset
<1>2. Cardinality(S) \in Nat /\ Cardinality(Procs) \in Nat
  BY <1>1, ProcsAssumption, FS_CardinalityType
<1>3. Cardinality(S) = 0 => S = {}
  BY <1>1, FS_EmptySet
<1> QED BY <1>1, <1>2, <1>3 DEF Crowd

LEMMA CrowdStep ==
  ASSUME NEW labels, NEW p \in Procs, \A q \in Procs \ {p} : req'[q].pc = req[q].pc
  PROVE  /\ Crowd(labels) \in Nat /\ Crowd(labels)' <= Cardinality(Procs)
         /\ (req'[p].pc \in labels <=> req[p].pc \in labels) => Crowd(labels)' = Crowd(labels)
         /\ req'[p].pc \in labels /\ req[p].pc \notin labels => Crowd(labels)' = Crowd(labels) + 1
         /\ req'[p].pc \notin labels /\ req[p].pc \in labels => Crowd(labels)' = Crowd(labels) - 1
<1> DEFINE S == {q \in Procs : req[q].pc \in labels}
           T == {q \in Procs : req'[q].pc \in labels}
<1>1. IsFiniteSet(S) /\ Cardinality(S) \in Nat /\ Cardinality(T) <= Cardinality(Procs)
  BY ProcsAssumption, FS_Subset, FS_CardinalityType
<1>2. CASE req'[p].pc \in labels
  <2>1. T = S \cup {p}
    BY <1>2
  <2>2. p \in S <=> req[p].pc \in labels
    OBVIOUS
  <2> HIDE DEF S, T
  <2>3. Cardinality(T) = IF p \in S THEN Cardinality(S) ELSE Cardinality(S) + 1
    BY <1>1, <2>1, FS_AddElement
  <2> QED BY <1>1, <1>2, <2>2, <2>3 DEF Crowd, S, T
<1>3. CASE req'[p].pc \notin labels
  <2>1. T = S \ {p}
    BY <1>3
  <2>2. p \in S <=> req[p].pc \in labels
    OBVIOUS
  <2> HIDE DEF S, T
  <2>3. Cardinality(T) = IF p \in S THEN Cardinality(S) - 1 ELSE Cardinality(S)
    BY <1>1, <2>1, FS_RemoveElement
  <2> QED BY <1>1, <1>3, <2>2, <2>3 DEF Crowd, S, T
<1> QED BY <1>2, <1>3

\* A request that moves and neither may draw a code nor passes a check.
LEMMA CountsKept ==
  ASSUME OInv, NEW p \in Procs, \A q \in Procs \ {p} : req'[q].pc = req[q].pc,
         lastCode' = lastCode, redis'.hourly.val = redis.hourly.val,
         req'[p].pc \in DrawingLabels => req[p].pc \in DrawingLabels,
         req'[p].pc \in PassedLabels => req[p].pc \in PassedLabels
  PROVE  CountsOK'
<1>1. /\ Crowd(DrawingLabels)' <= Crowd(DrawingLabels) /\ Crowd(DrawingLabels)' \in Int
      /\ Crowd(DrawingLabels) \in Nat
  BY CrowdStep, CrowdFine
<1>2. /\ Crowd(PassedLabels)' <= Crowd(PassedLabels) /\ Crowd(PassedLabels)' \in Int
      /\ Crowd(PassedLabels) \in Nat
  BY CrowdStep, CrowdFine
<1>3. redis.hourly.val \in Nat /\ lastCode \in Nat
  BY DEF OInv, KeysOK, RedisKey, CodesOK
<1> QED BY <1>1, <1>2, <1>3, Bounds DEF OInv, CountsOK

\* No code is drawn that the bound does not cover.
LEMMA LastCodeFine == ASSUME OInv PROVE lastCode \in 0..MaxCodes
<1>1. Crowd(DrawingLabels) \in Nat /\ lastCode \in Nat
  BY CrowdFine DEF OInv, CodesOK
<1> QED BY <1>1, Bounds DEF OInv, CountsOK

-----------------------------------------------------------------------------
(* What a step does to the requests.                                       *)

\* One request moves; the others keep what they know.
LEMMA RequestStep ==
  ASSUME OInv, NEW p \in Procs, NEW r \in Request, Become(p, r),
         CodeOK(r, redis'.code.val, rows', lastCode', mailed', spent'),
         lastCode' \in Nat, lastCode <= lastCode', mailed \subseteq mailed', spent \subseteq spent',
         \A q \in Procs \ {p} : req[q].pc \in CodeLabels =>
           /\ req[q].code \notin mailed' \ mailed /\ req[q].code \notin Codes(rows') \ Codes(rows)
           /\ r.pc \in CodeLabels => r.code # req[q].code,
         \A q \in Procs \ {p} : req[q].matched /\ req[q].pc \in FinalLabels =>
           redis'.code.val # req[q].code
  PROVE  RequestsOK' /\ req'[p] = r /\ \A q \in Procs \ {p} : req'[q] = req[q]
<1>1. /\ req' \in [Procs -> Request] /\ req'[p] = r
      /\ \A q \in Procs \ {p} : req'[q] = req[q]
  BY DEF OInv, RequestsOK, Become
<1>2. ASSUME NEW q \in Procs \ {p}
      PROVE  CodeOK(req[q], redis'.code.val, rows', lastCode', mailed', spent')
  <2>1. CodeOK(req[q], redis.code.val, rows, lastCode, mailed, spent) /\ lastCode \in Nat
    BY DEF OInv, RequestsOK, CodesOK
  <2>2. {"deleteRows", "insertRow"} \subseteq CodeLabels
    BY DEF CodeLabels
  <2> QED BY <1>2, <2>1, <2>2 DEF CodeOK
<1>3. \A q, u \in Procs : req'[q].pc \in CodeLabels /\ req'[u].pc \in CodeLabels
                           /\ req'[q].code = req'[u].code => q = u
  BY <1>1 DEF OInv, RequestsOK
<1> QED BY <1>1, <1>2, <1>3 DEF RequestsOK

\* A step that moves one request and changes no code.
LEMMA Quiet ==
  ASSUME OInv, NEW p \in Procs, NEW r \in Request, Become(p, r),
         CodeOK(r, redis.code.val, rows, lastCode, mailed, spent),
         KeysOK', redis'.code.val = redis.code.val, redis'.hourly.val = redis.hourly.val,
         rows' \in Seq(Row), Distinct(rows'), Codes(rows') = Codes(rows),
         UNCHANGED <<lastCode, mailed, spent>>, overlapped' \subseteq 1..lastCode,
         wrong' \in [1..MaxCodes -> 0..MaxTries], deaths' \in 0..MaxDeaths,
         r.pc \in CodeLabels => req[p].pc \in CodeLabels /\ r.code = req[p].code,
         r.pc \in DrawingLabels => req[p].pc \in DrawingLabels,
         r.pc \in PassedLabels => req[p].pc \in PassedLabels
  PROVE  OInv'
<1>1. CodeOK(r, redis'.code.val, rows', lastCode', mailed', spent')
  BY DEF CodeOK
<1>2. /\ lastCode' \in Nat /\ lastCode <= lastCode'
      /\ \A q \in Procs \ {p} : r.pc \in CodeLabels /\ req[q].pc \in CodeLabels => r.code # req[q].code
      /\ \A q \in Procs : req[q].matched /\ req[q].pc \in FinalLabels => redis.code.val # req[q].code
  BY DEF OInv, CodesOK, RequestsOK, CodeOK
<1>3. RequestsOK' /\ req'[p] = r /\ \A q \in Procs \ {p} : req'[q] = req[q]
  BY <1>1, <1>2, RequestStep
<1>4. RowsOK' /\ CodesOK'
  BY DEF OInv, RowsOK, CodesOK
<1>5. CountsOK'
  BY <1>3, CountsKept
<1> QED BY <1>3, <1>4, <1>5 DEF OInv

\* A request that is not in flight knows nothing.
LEMMA IdleFine ==
  /\ Idle \in Request /\ Idle.pc = "idle" /\ Idle.code = 0 /\ Idle.cached = 0 /\ Idle.row = 0
  /\ ~Idle.matched /\ ~Idle.late
  /\ \A k, s, last, sent, used : CodeOK(Idle, k, s, last, sent, used)
BY Bounds DEF Idle, Request, CodeOK, CodeLabels, FinalLabels, VerifyLabels

Labels == {"idle"} \cup GenerateLabels \cup VerifyLabels

LEMMA GotoFine ==
  ASSUME NEW c \in Request, NEW l \in Labels
  PROVE  LET r == [c EXCEPT !.pc = l]
         IN  /\ r \in Request /\ r.pc = l /\ r.code = c.code /\ r.cached = c.cached
             /\ r.row = c.row /\ r.attempts = c.attempts
             /\ r.late <=> c.late
             /\ r.matched <=> c.matched
BY DEF Request, Labels

LEMMA QuietFinish ==
  ASSUME OInv, NEW p \in Procs, Finish(p),
         KeysOK', redis'.code.val = redis.code.val, redis'.hourly.val = redis.hourly.val,
         UNCHANGED <<rows, lastCode, mailed, wrong, spent, overlapped>>, deaths' \in 0..MaxDeaths
  PROVE  OInv'
<1>1. Idle.pc \notin CodeLabels /\ Idle.pc \notin DrawingLabels /\ Idle.pc \notin PassedLabels
  BY IdleFine DEF CodeLabels, DrawingLabels, PassedLabels
<1> QED BY <1>1, IdleFine, Quiet DEF Finish, OInv, RowsOK, CodesOK

\* A request goes on with what it knows.
LEMMA QuietGoto ==
  ASSUME OInv, NEW p \in Procs, NEW l \in Labels, Goto(p, l),
         KeysOK', redis'.code.val = redis.code.val, redis'.hourly.val = redis.hourly.val,
         UNCHANGED <<rows, lastCode, history>>,
         \/ req[p].pc \in DrawingLabels /\ l \in DrawingLabels \cup {"setSuspend"}
         \/ req[p].pc \in CodeLabels /\ l \in CodeLabels \ {"deleteRows", "insertRow"}
            /\ (l \in PassedLabels => req[p].pc \in PassedLabels)
         \/ req[p].pc = "getAttempts" /\ l = "findRow"
  PROVE  OInv'
<1> DEFINE r == [req[p] EXCEPT !.pc = l]
<1>1. req[p] \in Request /\ CodeOK(req[p], redis.code.val, rows, lastCode, mailed, spent)
  BY DEF OInv, RequestsOK
<1>2. /\ r \in Request /\ r.pc = l /\ r.code = req[p].code /\ r.cached = req[p].cached
      /\ r.row = req[p].row
      /\ r.late <=> req[p].late
      /\ r.matched <=> req[p].matched
  BY <1>1, GotoFine
<1>3. Become(p, r)
  BY DEF Goto
<1> HIDE DEF r
<1>4. ~r.matched
  BY <1>1, <1>2 DEF CodeOK, DrawingLabels, CodeLabels, FinalLabels
<1>5. CodeOK(r, redis.code.val, rows, lastCode, mailed, spent)
  BY <1>1, <1>2, <1>4 DEF CodeOK, DrawingLabels, CodeLabels, VerifyLabels, FinalLabels
<1>6. /\ l \in CodeLabels => req[p].pc \in CodeLabels
      /\ l \in DrawingLabels => req[p].pc \in DrawingLabels
      /\ l \in PassedLabels => req[p].pc \in PassedLabels
  BY DEF CodeLabels, DrawingLabels, PassedLabels
<1> QED BY <1>2, <1>3, <1>5, <1>6, Quiet DEF OInv, RowsOK, CodesOK, history

\* A key other than the code and the hourly counter is written.
LEMMA KeyWritten ==
  ASSUME KeysOK, NEW k \in {"attempts", "cooldown", "suspend"}, NEW v \in RedisKey,
         redis' = [redis EXCEPT ![k] = v],
         k = "attempts" => v.val \in 0..MaxTries, k # "attempts" => v.ttl # "never"
  PROVE  KeysOK' /\ redis'.code = redis.code /\ redis'.hourly = redis.hourly
BY DEF KeysOK

LEMMA KeyFine ==
  ASSUME NEW v \in Nat
  PROVE  Key(v) \in RedisKey /\ Key(v).val = v /\ Key(v).ttl = "expires"
BY DEF Key, RedisKey

LEMMA GenerateQuiet ==
  ASSUME OInv, NEW p \in Procs,
         \/ CheckSuspend(p) \/ CheckCooldown(p) \/ SetSuspend(p) \/ ResetAttempts(p)
         \/ SetCooldown(p) \/ ExpireHourly(p)
  PROVE  OInv'
<1>1. KeysOK /\ 0 \in 0..MaxTries
  BY Bounds DEF OInv
<1>2. {"cooldown?", "hourly?", "setCooldown", "incrHourly", "mail"} \subseteq Labels
  BY DEF Labels, GenerateLabels
<1>3. CASE UNCHANGED <<redis, rows, lastCode, history>> /\ (CheckSuspend(p) \/ CheckCooldown(p))
  <2>1. KeysOK'
    BY <1>1, <1>3 DEF KeysOK
  <2> QED BY <1>2, <1>3, <2>1, QuietFinish, QuietGoto
          DEF CheckSuspend, CheckCooldown, At, DrawingLabels, history, OInv, CodesOK
<1>4. CASE SetSuspend(p)
  <2>1. redis' = [redis EXCEPT !["suspend"] = Key(1)] /\ Key(1) \in RedisKey
        /\ Key(1).val = 1 /\ Key(1).ttl = "expires"
    BY <1>4, KeyFine DEF SetSuspend
  <2>2. KeysOK' /\ redis'.code = redis.code /\ redis'.hourly = redis.hourly
    BY <1>1, <2>1, KeyWritten
  <2> QED BY <1>4, <2>2, QuietFinish DEF SetSuspend, history, OInv, CodesOK
<1>5. CASE ResetAttempts(p)
  <2>1. redis' = [redis EXCEPT !["attempts"] = Key(0)] /\ Key(0) \in RedisKey
        /\ Key(0).val = 0 /\ Key(0).ttl = "expires"
    BY <1>5, KeyFine DEF ResetAttempts
  <2>2. KeysOK' /\ redis'.code = redis.code /\ redis'.hourly = redis.hourly
    BY <1>1, <2>1, KeyWritten
  <2>3. /\ req[p].pc \in CodeLabels /\ "setCooldown" \in CodeLabels \ {"deleteRows", "insertRow"}
        /\ req[p].pc \in PassedLabels
    BY <1>5 DEF ResetAttempts, At, CodeLabels, PassedLabels
  <2> QED BY <1>2, <1>5, <2>2, <2>3, QuietGoto DEF ResetAttempts
<1>6. CASE SetCooldown(p)
  <2>1. redis' = [redis EXCEPT !["cooldown"] = Key(1)] /\ Key(1) \in RedisKey
        /\ Key(1).val = 1 /\ Key(1).ttl = "expires"
    BY <1>6, KeyFine DEF SetCooldown
  <2>2. KeysOK' /\ redis'.code = redis.code /\ redis'.hourly = redis.hourly
    BY <1>1, <2>1, KeyWritten
  <2>3. /\ req[p].pc \in CodeLabels /\ "incrHourly" \in CodeLabels \ {"deleteRows", "insertRow"}
        /\ req[p].pc \in PassedLabels
    BY <1>6 DEF SetCooldown, At, CodeLabels, PassedLabels
  <2> QED BY <1>2, <1>6, <2>2, <2>3, QuietGoto DEF SetCooldown, history
<1>7. CASE ExpireHourly(p)
  <2> DEFINE e == Expire(redis.hourly)
  <2>1. e \in RedisKey /\ e.val = redis.hourly.val /\ (Present(e) \/ e.val = 0)
    BY <1>1 DEF Expire, Key, Absent, RedisKey, KeysOK, Present
  <2>2. redis' = [redis EXCEPT !.hourly = e]
    BY <1>7 DEF ExpireHourly
  <2> HIDE DEF e
  <2>3. KeysOK' /\ redis'.code = redis.code /\ redis'.hourly.val = redis.hourly.val
    BY <1>1, <2>1, <2>2 DEF KeysOK
  <2>4. /\ req[p].pc \in CodeLabels /\ "mail" \in CodeLabels \ {"deleteRows", "insertRow"}
        /\ "mail" \notin PassedLabels
    BY <1>7 DEF ExpireHourly, At, CodeLabels, PassedLabels
  <2> QED BY <1>2, <1>7, <2>3, <2>4, QuietGoto DEF ExpireHourly
<1> QED BY <1>3, <1>4, <1>5, <1>6, <1>7 DEF CheckSuspend, CheckCooldown

\* A request that draws or stores a code.
LEMMA BeginGenerateFine == ASSUME OInv, NEW p \in Procs, BeginGenerate(p) PROVE OInv'
<1>1. At(p, "idle") /\ UNCHANGED <<redis, rows, lastCode, history>> /\ Room
  BY DEF BeginGenerate
<1>2. Idle \in Request /\ "suspend?" \in Labels
  BY IdleFine DEF Labels, GenerateLabels
<1>4. Become(p, [req[p] EXCEPT !.pc = "suspend?"])
  BY DEF BeginGenerate, Goto
<1> DEFINE t == [req[p] EXCEPT !.pc = "suspend?"]
<1>5. req[p] \in Request /\ CodeOK(req[p], redis.code.val, rows, lastCode, mailed, spent)
  BY DEF OInv, RequestsOK
<1>6. /\ t \in Request /\ t.pc = "suspend?" /\ t.code = req[p].code /\ t.cached = req[p].cached
      /\ t.late <=> req[p].late
  BY <1>2, <1>5, GotoFine
<1>7. ~t.matched
  <2>1. t.matched <=> req[p].matched
    BY <1>2, <1>5, GotoFine
  <2> QED BY <1>1, <1>5, <2>1 DEF At, CodeOK, FinalLabels
<1> HIDE DEF t
<1>8. CodeOK(t, redis'.code.val, rows', lastCode', mailed', spent')
  BY <1>1, <1>5, <1>6, <1>7 DEF CodeOK, CodeLabels, VerifyLabels, history
<1>9. lastCode \in Nat /\ \A q \in Procs : req[q].matched /\ req[q].pc \in FinalLabels => redis.code.val # req[q].code
  BY DEF OInv, CodesOK, RequestsOK, CodeOK
<1>10. "suspend?" \notin CodeLabels /\ "suspend?" \notin PassedLabels /\ "suspend?" \in DrawingLabels
       /\ "idle" \notin DrawingLabels
  BY DEF CodeLabels, PassedLabels, DrawingLabels
<1>11. RequestsOK' /\ req'[p] = t /\ \A q \in Procs \ {p} : req'[q] = req[q]
  <2>1. Become(p, t) /\ UNCHANGED <<redis, rows, lastCode, mailed, spent>>
    BY <1>1, <1>4 DEF history, t
  <2>2. lastCode' \in Nat /\ lastCode <= lastCode'
    BY <1>9, <2>1
  <2> QED BY <1>6, <1>8, <1>9, <1>10, <2>1, <2>2, RequestStep
<1>12. RowsOK' /\ CodesOK' /\ KeysOK'
  BY <1>1 DEF OInv, RowsOK, CodesOK, KeysOK, history
<1>13. CountsOK'
  <2>1. Crowd(DrawingLabels)' = Crowd(DrawingLabels) + 1 /\ Crowd(DrawingLabels) \in Nat
    BY <1>1, <1>6, <1>10, <1>11, CrowdStep DEF At
  <2>2. Crowd(PassedLabels)' <= Crowd(PassedLabels) /\ Crowd(PassedLabels)' \in Int
        /\ Crowd(PassedLabels) \in Nat
    BY <1>6, <1>10, <1>11, CrowdStep, CrowdFine
  <2>3. lastCode + Crowd(DrawingLabels) < MaxCodes
    <3>1. {q \in Procs : At(q, "suspend?") \/ At(q, "cooldown?") \/ At(q, "hourly?")}
            = {q \in Procs : req[q].pc \in DrawingLabels}
      BY DEF At, DrawingLabels
    <3> QED BY <1>1, <3>1 DEF Room, Crowd
  <2>4. redis.hourly.val \in Nat /\ UNCHANGED <<redis, lastCode>>
    BY <1>1 DEF OInv, KeysOK, RedisKey
  <2> QED BY <1>9, <2>1, <2>2, <2>3, <2>4, Bounds DEF OInv, CountsOK
<1> QED BY <1>11, <1>12, <1>13 DEF OInv

LEMMA CheckHourlyFine == ASSUME OInv, NEW p \in Procs, CheckHourly(p) PROVE OInv'
<1>1. At(p, "hourly?") /\ UNCHANGED <<redis, rows, history>> /\ KeysOK /\ KeysOK'
  BY DEF CheckHourly, OInv, KeysOK
<1>2. CASE Goto(p, "setSuspend") /\ UNCHANGED lastCode
  <2>1. "setSuspend" \in Labels /\ req[p].pc \in DrawingLabels
    BY <1>1 DEF Labels, GenerateLabels, At, DrawingLabels
  <2> QED BY <1>1, <1>2, <2>1, QuietGoto
<1>3. CASE /\ ~OverLimit(redis.hourly.val) /\ lastCode' = lastCode + 1
           /\ Become(p, [Idle EXCEPT !.pc = "deleteRows", !.code = lastCode + 1])
  <2> DEFINE r == [Idle EXCEPT !.pc = "deleteRows", !.code = lastCode + 1]
  <2>0. lastCode \in Nat /\ lastCode' \in Nat /\ redis.hourly.val \in Nat
        /\ Crowd(DrawingLabels) \in Nat /\ Crowd(DrawingLabels) >= 1
    BY <1>1, <1>3, CrowdFine DEF OInv, CodesOK, KeysOK, RedisKey, At, DrawingLabels
  <2>1. lastCode + 1 \in 0..MaxCodes
    BY <2>0, Bounds DEF OInv, CountsOK
  <2>2. r \in Request /\ r.pc = "deleteRows" /\ r.code = lastCode + 1
    BY <2>1, IdleFine DEF Request, GenerateLabels
  <2>3. ~r.matched /\ ~r.late
    BY IdleFine DEF Request
  <2> HIDE DEF r
  <2>4. "deleteRows" \notin VerifyLabels
    BY DEF VerifyLabels
  <2>5. mailed \subseteq 1..lastCode /\ Codes(rows) \subseteq 1..lastCode /\ UNCHANGED <<mailed, spent>>
    BY <1>1 DEF OInv, CodesOK, RowsOK, history
  <2>6. lastCode + 1 \notin mailed /\ lastCode + 1 \notin Codes(rows) /\ lastCode + 1 \in 1..lastCode'
    BY <1>3, <2>0, <2>5
  <2>7. CodeOK(r, redis'.code.val, rows', lastCode', mailed', spent')
    BY <1>1, <2>2, <2>3, <2>4, <2>5, <2>6 DEF CodeOK
  <2>8. \A q \in Procs : /\ req[q].pc \in CodeLabels => lastCode + 1 # req[q].code
                         /\ req[q].matched /\ req[q].pc \in FinalLabels => redis.code.val # req[q].code
    BY <2>0 DEF OInv, RequestsOK, CodeOK
  <2>9. RequestsOK' /\ req'[p] = r /\ \A q \in Procs \ {p} : req'[q] = req[q]
    <3>1. Become(p, r) /\ lastCode <= lastCode'
      BY <1>3, <2>0 DEF r
    <3> QED BY <1>1, <2>0, <2>2, <2>5, <2>7, <2>8, <3>1, RequestStep
  <2>10. 1..lastCode \subseteq 1..lastCode'
    BY <1>3, <2>0
  <2>11. RowsOK' /\ CodesOK'
    BY <1>1, <2>0, <2>10 DEF OInv, RowsOK, CodesOK, history
  <2>12. CountsOK'
    <3>1. /\ "hourly?" \in DrawingLabels /\ "deleteRows" \notin DrawingLabels
          /\ "hourly?" \notin PassedLabels /\ "deleteRows" \in PassedLabels
      BY DEF DrawingLabels, PassedLabels
    <3>2. Crowd(DrawingLabels)' = Crowd(DrawingLabels) - 1
      BY <1>1, <2>2, <2>9, <3>1, CrowdStep DEF At
    <3>3. Crowd(PassedLabels)' <= Cardinality(Procs) /\ Crowd(PassedLabels)' \in Int
      BY <1>1, <2>2, <2>9, <3>1, CrowdStep DEF At
    <3>4. redis.hourly.val < MaxHourly
      BY <1>3, <2>0, Bounds DEF OverLimit
    <3> QED BY <1>1, <1>3, <2>0, <3>2, <3>3, <3>4, Bounds DEF OInv, CountsOK
  <2> QED BY <1>1, <2>9, <2>11, <2>12 DEF OInv
<1> QED BY <1>1, <1>2, <1>3 DEF CheckHourly

\* A request that goes on with its code, and may have stored it.
LEMMA CodeGoto ==
  ASSUME OInv, NEW p \in Procs, NEW l \in CodeLabels \ {"deleteRows"}, Goto(p, l),
         req[p].pc \in CodeLabels, UNCHANGED <<lastCode, mailed, spent>>,
         Codes(rows') \ Codes(rows) \subseteq {req[p].code},
         l = "insertRow" => req[p].code \notin Codes(rows'),
         redis'.code.val \in {redis.code.val, req[p].code}
  PROVE  /\ RequestsOK' /\ req'[p].pc = l /\ \A q \in Procs \ {p} : req'[q].pc = req[q].pc
         /\ req[p].code \in 1..lastCode /\ req[p].code \notin mailed
<1> DEFINE r == [req[p] EXCEPT !.pc = l]
<1>1. /\ req[p] \in Request /\ CodeOK(req[p], redis.code.val, rows, lastCode, mailed, spent)
      /\ lastCode \in Nat
  BY DEF OInv, RequestsOK, CodesOK
<1>2. l \in Labels /\ l \notin VerifyLabels
  BY DEF Labels, GenerateLabels, CodeLabels, VerifyLabels
<1>3. /\ r \in Request /\ r.pc = l /\ r.code = req[p].code /\ r.cached = req[p].cached
      /\ r.late <=> req[p].late
      /\ r.matched <=> req[p].matched
  BY <1>1, <1>2, GotoFine
<1>4. Become(p, r)
  BY DEF Goto
<1> HIDE DEF r
<1>5. ~r.matched
  BY <1>1, <1>3 DEF CodeOK, CodeLabels, FinalLabels
<1>6. CodeOK(r, redis'.code.val, rows', lastCode', mailed', spent')
  BY <1>1, <1>2, <1>3, <1>5 DEF CodeOK
<1>7. \A q \in Procs \ {p} : req[q].pc \in CodeLabels => req[q].code # req[p].code
  BY DEF OInv, RequestsOK
<1>8. \A q \in Procs \ {p} : req[q].matched /\ req[q].pc \in FinalLabels =>
        redis.code.val # req[q].code /\ req[q].code # req[p].code
  BY <1>1 DEF OInv, RequestsOK, CodeOK
<1>9. RequestsOK' /\ req'[p] = r /\ \A q \in Procs \ {p} : req'[q] = req[q]
  BY <1>1, <1>3, <1>4, <1>6, <1>7, <1>8, RequestStep
<1> QED BY <1>1, <1>3, <1>9 DEF CodeOK

LEMMA DeleteRowsFine == ASSUME OInv, NEW p \in Procs, DeleteRows(p) PROVE OInv'
<1>1. /\ At(p, "deleteRows") /\ rows' = <<>> /\ Goto(p, "insertRow")
      /\ UNCHANGED <<redis, lastCode, mailed, wrong, spent, overlapped, deaths>>
  BY DEF DeleteRows, history
<1>2. /\ rows' \in Seq(Row) /\ Distinct(rows') /\ Codes(rows') = {}
  BY <1>1 DEF Distinct, Codes
<1>3. /\ "insertRow" \in CodeLabels \ {"deleteRows"} /\ req[p].pc \in CodeLabels
      /\ {"insertRow", "deleteRows"} \cap DrawingLabels = {}
      /\ {"insertRow", "deleteRows"} \subseteq PassedLabels
  BY <1>1 DEF CodeLabels, At, DrawingLabels, PassedLabels
<1>4. RequestsOK' /\ req'[p].pc = "insertRow" /\ \A q \in Procs \ {p} : req'[q].pc = req[q].pc
  BY <1>1, <1>2, <1>3, CodeGoto
<1>5. CountsOK'
  BY <1>1, <1>3, <1>4, CountsKept DEF At
<1> QED BY <1>1, <1>2, <1>4, <1>5 DEF OInv, RowsOK, CodesOK, KeysOK

LEMMA InsertRowFine == ASSUME OInv, NEW p \in Procs, InsertRow(p) PROVE OInv'
<1> DEFINE row == [code |-> req[p].code, attempts |-> 0, live |-> TRUE]
<1>1. /\ At(p, "insertRow") /\ rows' = Append(rows, row) /\ Goto(p, "setCode")
      /\ UNCHANGED <<redis, lastCode, mailed, wrong, spent, overlapped, deaths>>
  BY DEF InsertRow, history
<1>2. /\ req[p] \in Request /\ rows \in Seq(Row) /\ Distinct(rows) /\ Codes(rows) \subseteq 1..lastCode
      /\ req[p].code \in 1..lastCode /\ req[p].code \notin Codes(rows) /\ req[p].code \notin mailed
      /\ lastCode \in 0..MaxCodes
  BY <1>1, LastCodeFine DEF OInv, RequestsOK, RowsOK, CodeOK, At, CodeLabels
<1>3. row \in Row /\ row.code = req[p].code
  BY <1>2, Bounds DEF Row
<1> HIDE DEF row
<1>4. /\ rows' \in Seq(Row) /\ Len(rows') = Len(rows) + 1 /\ Len(rows) \in Nat
      /\ DOMAIN rows' = 1..Len(rows') /\ DOMAIN rows = 1..Len(rows)
      /\ \A i \in 1..Len(rows) : rows'[i] = rows[i]
      /\ rows'[Len(rows) + 1] = row
  BY <1>1, <1>2, <1>3, AppendProperties, LenProperties
<1>5. \A i \in DOMAIN rows' : (i \in DOMAIN rows /\ rows'[i] = rows[i]) \/ i = Len(rows) + 1
  BY <1>4
<1>6. Codes(rows') \subseteq Codes(rows) \cup {req[p].code}
  BY <1>3, <1>4, <1>5 DEF Codes
<1>7. Distinct(rows')
  <2>1. \A i \in DOMAIN rows : rows[i].code # req[p].code
    BY <1>2 DEF Codes
  <2> QED BY <1>2, <1>3, <1>4, <1>5, <2>1 DEF Distinct
<1>8. /\ "setCode" \in CodeLabels \ {"deleteRows"} /\ req[p].pc \in CodeLabels
      /\ {"insertRow", "setCode"} \cap DrawingLabels = {}
      /\ {"insertRow", "setCode"} \subseteq PassedLabels
  BY <1>1 DEF CodeLabels, At, DrawingLabels, PassedLabels
<1>9. RequestsOK' /\ req'[p].pc = "setCode" /\ \A q \in Procs \ {p} : req'[q].pc = req[q].pc
  <2>1. Codes(rows') \ Codes(rows) \subseteq {req[p].code}
    BY <1>6
  <2> QED BY <1>1, <1>8, <2>1, CodeGoto
<1>10. CountsOK'
  BY <1>1, <1>8, <1>9, CountsKept DEF At
<1>11. RowsOK' /\ CodesOK' /\ KeysOK'
  BY <1>1, <1>2, <1>4, <1>6, <1>7 DEF OInv, RowsOK, CodesOK, KeysOK
<1> QED BY <1>9, <1>10, <1>11 DEF OInv

LEMMA SetCodeFine == ASSUME OInv, NEW p \in Procs, SetCode(p) PROVE OInv'
<1>1. /\ At(p, "setCode") /\ redis' = [redis EXCEPT !.code = Key(req[p].code)]
      /\ overlapped' \subseteq overlapped \cup {req[p].code} /\ Goto(p, "resetAttempts")
      /\ UNCHANGED <<rows, lastCode, mailed, wrong, spent, deaths>>
  BY DEF SetCode
<1>2. /\ "resetAttempts" \in CodeLabels \ {"deleteRows"} /\ req[p].pc \in CodeLabels
      /\ {"resetAttempts", "setCode"} \cap DrawingLabels = {}
      /\ {"resetAttempts", "setCode"} \subseteq PassedLabels
  BY <1>1 DEF CodeLabels, At, DrawingLabels, PassedLabels
<1>3. /\ req[p] \in Request /\ req[p].code \in 0..MaxCodes
      /\ CodeOK(req[p], redis.code.val, rows, lastCode, mailed, spent)
  BY DEF OInv, RequestsOK, Request
<1>4. Key(req[p].code) \in RedisKey /\ Key(req[p].code).val = req[p].code /\ Key(req[p].code).ttl = "expires"
  BY <1>3, Bounds, KeyFine
<1>5. KeysOK' /\ redis'.code.val = req[p].code /\ redis'.hourly = redis.hourly
  BY <1>1, <1>3, <1>4 DEF OInv, KeysOK
<1>6. /\ RequestsOK' /\ req'[p].pc = "resetAttempts" /\ \A q \in Procs \ {p} : req'[q].pc = req[q].pc
      /\ req[p].code \in 1..lastCode /\ req[p].code \notin mailed
  BY <1>1, <1>2, <1>5, CodeGoto
<1>7. CountsOK'
  BY <1>1, <1>2, <1>5, <1>6, CountsKept DEF At
<1>8. RowsOK' /\ CodesOK'
  BY <1>1, <1>5, <1>6 DEF OInv, RowsOK, CodesOK
<1> QED BY <1>5, <1>6, <1>7, <1>8 DEF OInv

LEMMA IncrHourlyFine == ASSUME OInv, NEW p \in Procs, IncrHourly(p) PROVE OInv'
<1> DEFINE k == Incr(redis.hourly)
           l == IF Present(redis.hourly) THEN "mail" ELSE "expireHourly"
<1>1. /\ At(p, "incrHourly") /\ redis' = [redis EXCEPT !.hourly = k] /\ Goto(p, l)
      /\ UNCHANGED <<rows, lastCode, mailed, wrong, spent, overlapped, deaths>>
  BY DEF IncrHourly, history
<1>2. redis.hourly.val \in Nat /\ redis.hourly \in RedisKey /\ lastCode \in Nat
  BY DEF OInv, KeysOK, RedisKey, CodesOK
<1>3. k \in RedisKey /\ k.val = redis.hourly.val + 1 /\ Present(k)
  BY <1>2 DEF Incr, SetKeepTtl, RedisKey, Present
<1>4. /\ l \in CodeLabels \ {"deleteRows"} /\ req[p].pc \in CodeLabels /\ l # "insertRow"
      /\ l \notin DrawingLabels /\ l \notin PassedLabels
      /\ "incrHourly" \notin DrawingLabels /\ "incrHourly" \in PassedLabels
  BY <1>1 DEF CodeLabels, At, DrawingLabels, PassedLabels
<1> HIDE DEF k, l
<1>5. KeysOK' /\ redis'.code.val = redis.code.val /\ redis'.hourly.val = redis.hourly.val + 1
  BY <1>1, <1>3 DEF OInv, KeysOK
<1>6. RequestsOK' /\ req'[p].pc = l /\ \A q \in Procs \ {p} : req'[q].pc = req[q].pc
  BY <1>1, <1>4, <1>5, CodeGoto
<1>7. CountsOK'
  <2>1. Crowd(DrawingLabels)' = Crowd(DrawingLabels) /\ Crowd(DrawingLabels) \in Nat
    BY <1>1, <1>4, <1>6, CrowdStep DEF At
  <2>2. Crowd(PassedLabels)' = Crowd(PassedLabels) - 1 /\ Crowd(PassedLabels) \in Nat
    BY <1>1, <1>4, <1>6, CrowdStep DEF At
  <2> QED BY <1>1, <1>2, <1>5, <2>1, <2>2, Bounds DEF OInv, CountsOK
<1>8. RowsOK' /\ CodesOK'
  BY <1>1, <1>5 DEF OInv, RowsOK, CodesOK
<1> QED BY <1>5, <1>6, <1>7, <1>8 DEF OInv

LEMMA MailFine == ASSUME OInv, NEW p \in Procs, Mail(p) PROVE OInv'
<1>1. /\ At(p, "mail") /\ mailed' = mailed \cup {req[p].code} /\ Become(p, Idle)
      /\ UNCHANGED <<redis, rows, lastCode, wrong, spent, overlapped, deaths>>
  BY DEF Mail, Finish
<1>2. /\ req[p].pc \in CodeLabels /\ Idle.pc \notin CodeLabels
      /\ Idle.pc \notin DrawingLabels /\ Idle.pc \notin PassedLabels
  BY <1>1, IdleFine DEF CodeLabels, At, DrawingLabels, PassedLabels
<1>3. req[p].code \in 1..lastCode /\ lastCode \in Nat
  BY <1>2 DEF OInv, RequestsOK, CodeOK, CodesOK
<1>4. \A q \in Procs \ {p} : /\ req[q].pc \in CodeLabels => req[q].code # req[p].code
                             /\ req[q].matched /\ req[q].pc \in FinalLabels => redis.code.val # req[q].code
  BY <1>2 DEF OInv, RequestsOK, CodeOK
<1>5. CodeOK(Idle, redis'.code.val, rows', lastCode', mailed', spent')
  BY IdleFine
<1>6. RequestsOK' /\ req'[p] = Idle /\ \A q \in Procs \ {p} : req'[q] = req[q]
  BY <1>1, <1>2, <1>3, <1>4, <1>5, IdleFine, RequestStep
<1>7. CountsOK'
  BY <1>1, <1>2, <1>6, CountsKept
<1> QED BY <1>1, <1>3, <1>6, <1>7 DEF OInv, RowsOK, CodesOK, KeysOK

-----------------------------------------------------------------------------
(* verifyOtp.                                                              *)

\* Labels at which a request holds no code of its own.
LEMMA VerifyFine ==
  /\ VerifyLabels \subseteq Labels
  /\ VerifyLabels \cap CodeLabels = {} /\ VerifyLabels \cap DrawingLabels = {}
  /\ VerifyLabels \cap PassedLabels = {} /\ "idle" \notin CodeLabels
BY DEF Labels, VerifyLabels, CodeLabels, DrawingLabels, PassedLabels

\* A verification moves and writes neither Redis nor a code.
LEMMA VerifyQuiet ==
  ASSUME OInv, NEW p \in Procs, NEW r \in Request, Become(p, r), r.pc \in VerifyLabels,
         CodeOK(r, redis.code.val, rows, lastCode, mailed, spent),
         UNCHANGED <<redis, lastCode, mailed, spent, deaths>>, overlapped' \subseteq 1..lastCode,
         rows' \in Seq(Row), Distinct(rows'), Codes(rows') = Codes(rows),
         wrong' \in [1..MaxCodes -> 0..MaxTries]
  PROVE  OInv'
<1>1. KeysOK' /\ deaths' \in 0..MaxDeaths
  BY DEF OInv, KeysOK, CodesOK
<1>2. r.pc \notin CodeLabels /\ r.pc \notin DrawingLabels /\ r.pc \notin PassedLabels
  BY VerifyFine
<1> QED BY <1>1, <1>2, Quiet

LEMMA BeginVerifyFine ==
  ASSUME OInv, NEW p \in Procs, NEW c \in {0} \cup mailed, BeginVerify(p, c) PROVE OInv'
<1> DEFINE b == c \in spent
           r == [Idle EXCEPT !.pc = "getCode", !.code = c, !.late = b]
<1>1. Become(p, r) /\ UNCHANGED <<redis, rows, lastCode, mailed, wrong, spent, deaths>>
      /\ overlapped' = overlapped \cup {req[q].code : q \in {q \in Procs : At(q, "resetAttempts")}}
  BY DEF BeginVerify
<1>2. /\ lastCode \in 0..MaxCodes /\ mailed \subseteq 1..lastCode /\ spent \subseteq mailed
      /\ overlapped \subseteq 1..lastCode /\ MaxCodes \in Nat
  BY LastCodeFine, Bounds DEF OInv, CodesOK
<1>3. c \in 0..MaxCodes /\ b \in BOOLEAN
  BY <1>2
<1>4. r \in Request /\ r.pc = "getCode" /\ r.code = c /\ r.cached = 0 /\ ~r.matched
  BY <1>3, IdleFine DEF Request, VerifyLabels
<1>5. r.late <=> b
  BY <1>3, IdleFine DEF Request
<1> HIDE DEF r
<1>6. b => c # 0
  BY <1>2
<1>7. r.pc \in VerifyLabels /\ r.pc \notin CodeLabels
  BY <1>4 DEF VerifyLabels, CodeLabels
<1>8. CodeOK(r, redis.code.val, rows, lastCode, mailed, spent)
  BY <1>4, <1>5, <1>6, <1>7 DEF CodeOK, CodeLabels
<1>9. \A q \in Procs : At(q, "resetAttempts") => req[q].code \in 1..lastCode
  BY DEF OInv, RequestsOK, CodeOK, At, CodeLabels
<1>10. overlapped' \subseteq 1..lastCode
  BY <1>1, <1>2, <1>9
<1> QED BY <1>1, <1>4, <1>7, <1>8, <1>10, VerifyQuiet DEF OInv, RowsOK, CodesOK

LEMMA GetCodeFine == ASSUME OInv, NEW p \in Procs, GetCode(p) PROVE OInv'
<1> DEFINE r == [req[p] EXCEPT !.pc = "getAttempts", !.cached = redis.code.val]
<1>1. /\ At(p, "getCode") /\ Become(p, r)
      /\ UNCHANGED <<redis, rows, lastCode, mailed, wrong, spent, overlapped, deaths>>
  BY DEF GetCode, history
<1>2. /\ req[p] \in Request /\ CodeOK(req[p], redis.code.val, rows, lastCode, mailed, spent)
      /\ redis.code.val \in 0..MaxCodes /\ \A c \in spent : redis.code.val # c
  BY DEF OInv, RequestsOK, KeysOK, CodesOK
<1>3. r \in Request /\ r.pc = "getAttempts" /\ r.code = req[p].code /\ r.cached = redis.code.val
  BY <1>2 DEF Request, VerifyLabels
<1>4. /\ r.late <=> req[p].late
      /\ r.matched <=> req[p].matched
  BY <1>2 DEF Request
<1> HIDE DEF r
<1>5. r.pc \in VerifyLabels /\ req[p].pc \in VerifyLabels
  BY <1>1, <1>3 DEF VerifyLabels, At
<1>6. ~r.matched
  BY <1>1, <1>2, <1>4 DEF CodeOK, At, FinalLabels
<1>7. CodeOK(r, redis.code.val, rows, lastCode, mailed, spent)
  BY <1>2, <1>3, <1>4, <1>5, <1>6, VerifyFine DEF CodeOK, CodeLabels
<1> QED BY <1>1, <1>3, <1>5, <1>7, VerifyQuiet DEF OInv, RowsOK, CodesOK

\* A request that deletes the code without having matched one, or counts a wrong try.
GivesUp(r, l, row) == r = [Idle EXCEPT !.pc = l, !.row = row]
Counts(r, row, n) == r = [Idle EXCEPT !.pc = "setAttempts", !.row = row, !.attempts = n]

LEMMA GiveUpFine ==
  ASSUME NEW row \in 0..MaxCodes, NEW l \in VerifyLabels, NEW r, GivesUp(r, l, row)
  PROVE  /\ r \in Request /\ r.pc = l
         /\ \A k, s, last, sent, used : CodeOK(r, k, s, last, sent, used)
<1>1. r \in Request /\ r.pc = l /\ r.code = 0 /\ ~r.late /\ ~r.matched
  BY IdleFine, Bounds DEF Request, GivesUp
<1>2. r.pc \notin CodeLabels /\ "deleteRows" \notin VerifyLabels /\ "insertRow" \notin VerifyLabels
  BY <1>1, VerifyFine DEF CodeLabels, VerifyLabels
<1> QED BY <1>1, <1>2 DEF CodeOK

LEMMA CountFine ==
  ASSUME NEW row \in 0..MaxCodes, NEW n \in 0..MaxTries, NEW r, Counts(r, row, n)
  PROVE  /\ r \in Request /\ r.pc = "setAttempts"
         /\ \A k, s, last, sent, used : CodeOK(r, k, s, last, sent, used)
<1>1. r \in Request /\ r.pc = "setAttempts" /\ r.code = 0 /\ ~r.late /\ ~r.matched
  BY IdleFine DEF Request, VerifyLabels, Counts
<1>2. r.pc \notin CodeLabels /\ "deleteRows" \notin VerifyLabels /\ "insertRow" \notin VerifyLabels
  BY <1>1, VerifyFine DEF CodeLabels, VerifyLabels
<1> QED BY <1>1, <1>2 DEF CodeOK

LEMMA CompareFine ==
  ASSUME OInv, NEW p \in Procs, NEW h \in 1..MaxCodes, NEW n \in 0..MaxTries, NEW row \in {0, h},
         Compare(p, h, n, row), req[p].pc \in {"getAttempts", "findRow"},
         req[p].late => req[p].code # h,
         UNCHANGED <<redis, rows, lastCode, mailed, spent, overlapped, deaths>>
  PROVE  OInv'
<1>1. /\ req[p] \in Request /\ CodeOK(req[p], redis.code.val, rows, lastCode, mailed, spent)
      /\ RowsOK /\ CodesOK /\ row \in 0..MaxCodes /\ MaxTries \in Nat /\ 0 \in 0..MaxTries
  BY Bounds DEF OInv, RequestsOK
<1>2. {"delCode", "setAttempts", "getAttempts", "findRow"} \subseteq VerifyLabels
  BY DEF VerifyLabels
<1>3. CASE Become(p, [Idle EXCEPT !.pc = "delCode", !.row = row]) /\ UNCHANGED wrong
  <2> DEFINE r == [Idle EXCEPT !.pc = "delCode", !.row = row]
  <2>0. GivesUp(r, "delCode", row) /\ Become(p, r)
    BY <1>3 DEF GivesUp
  <2> HIDE DEF r
  <2>1. /\ r \in Request /\ r.pc = "delCode"
        /\ CodeOK(r, redis.code.val, rows, lastCode, mailed, spent)
    <3>1. row \in 0..MaxCodes /\ "delCode" \in VerifyLabels
      BY <1>1, <1>2
    <3> QED BY <2>0, <3>1, GiveUpFine
  <2> QED BY <1>1, <1>2, <1>3, <2>0, <2>1, VerifyQuiet DEF RowsOK, CodesOK
<1>4. CASE /\ req[p].code = h /\ UNCHANGED wrong
           /\ Become(p, [req[p] EXCEPT !.pc = "delCode", !.row = row, !.matched = TRUE])
  <2> DEFINE r == [req[p] EXCEPT !.pc = "delCode", !.row = row, !.matched = TRUE]
  <2>1. r \in Request /\ r.pc = "delCode" /\ r.code = h /\ r.row = row /\ r.cached = req[p].cached
    BY <1>1, <1>2, <1>4 DEF Request
  <2>2. r.late <=> req[p].late
    BY <1>1 DEF Request
  <2>3. Become(p, r)
    BY <1>4
  <2> HIDE DEF r
  <2>4. h \in mailed
    BY <1>1, <1>2, <1>4 DEF CodeOK
  <2>5. r.pc \notin CodeLabels /\ "delCode" \notin FinalLabels
    BY <2>1 DEF CodeLabels, FinalLabels
  <2>6. CodeOK(r, redis.code.val, rows, lastCode, mailed, spent)
    BY <1>1, <1>4, <2>1, <2>2, <2>4, <2>5 DEF CodeOK
  <2> QED BY <1>1, <1>2, <1>4, <2>1, <2>3, <2>6, VerifyQuiet DEF RowsOK, CodesOK
<1>5. CASE /\ n < MaxTries
           /\ Become(p, [Idle EXCEPT !.pc = "setAttempts", !.row = row, !.attempts = n + 1])
           /\ wrong' = [wrong EXCEPT ![h] = IF @ < MaxTries THEN @ + 1 ELSE @]
  <2> DEFINE r == [Idle EXCEPT !.pc = "setAttempts", !.row = row, !.attempts = n + 1]
  <2>1. n + 1 \in 0..MaxTries
    BY <1>1, <1>5
  <2>2. Counts(r, row, n + 1) /\ Become(p, r)
    BY <1>5 DEF Counts
  <2> HIDE DEF r
  <2>3. /\ r \in Request /\ r.pc = "setAttempts"
        /\ CodeOK(r, redis.code.val, rows, lastCode, mailed, spent)
    <3>1. row \in 0..MaxCodes
      BY <1>1
    <3> QED BY <2>1, <2>2, <3>1, CountFine
  <2>4. wrong' \in [1..MaxCodes -> 0..MaxTries]
    <3>1. wrong \in [1..MaxCodes -> 0..MaxTries] /\ wrong[h] \in 0..MaxTries
      BY <1>1 DEF CodesOK
    <3>2. (IF wrong[h] < MaxTries THEN wrong[h] + 1 ELSE wrong[h]) \in 0..MaxTries
      BY <1>1, <3>1
    <3> QED BY <1>5, <3>1, <3>2
  <2> QED BY <1>1, <1>2, <2>2, <2>3, <2>4, VerifyQuiet DEF RowsOK, CodesOK
<1> QED BY <1>3, <1>4, <1>5 DEF Compare

LEMMA LastFine ==
  ASSUME NEW s \in Seq(Row), s # <<>>
  PROVE  Last(s) \in Row /\ Last(s).code \in Codes(s) /\ Last(s).code \in 1..MaxCodes
         /\ Last(s).attempts \in 0..MaxTries
<1>1. Len(s) \in Nat /\ Len(s) # 0 /\ DOMAIN s = 1..Len(s)
  BY EmptySeq, LenProperties
<1>2. Len(s) \in 1..Len(s)
  BY <1>1
<1>3. s[Len(s)] \in Row
  BY <1>2, ElementOfSeq
<1> QED BY <1>1, <1>2, <1>3 DEF Last, Codes, Row

LEMMA GetAttemptsFine == ASSUME OInv, NEW p \in Procs, GetAttempts(p) PROVE OInv'
<1>1. /\ At(p, "getAttempts")
      /\ UNCHANGED <<redis, rows, lastCode, mailed, spent, overlapped, deaths>>
  BY DEF GetAttempts
<1>2. /\ req[p] \in Request /\ CodeOK(req[p], redis.code.val, rows, lastCode, mailed, spent)
      /\ redis.attempts.val \in 0..MaxTries /\ KeysOK'
  BY <1>1 DEF OInv, RequestsOK, KeysOK
<1>3. CASE req[p].cached = 0
  <2>1. "findRow" \in Labels
    BY DEF Labels, VerifyLabels
  <2> QED BY <1>1, <1>2, <1>3, <2>1, QuietGoto DEF GetAttempts, history, At
<1>4. CASE req[p].cached # 0
  <2>1. req[p].cached \in 1..MaxCodes
    BY <1>2, <1>4, Bounds DEF Request
  <2>2. req[p].late => req[p].code # req[p].cached
    BY <1>2 DEF CodeOK
  <2> QED BY <1>1, <1>2, <1>4, <2>1, <2>2, CompareFine DEF GetAttempts, At
<1> QED BY <1>3, <1>4

LEMMA FindRowFine == ASSUME OInv, NEW p \in Procs, FindRow(p) PROVE OInv'
<1>1. /\ At(p, "findRow")
      /\ UNCHANGED <<redis, rows, lastCode, mailed, spent, overlapped, deaths>>
  BY DEF FindRow
<1>2. /\ CodeOK(req[p], redis.code.val, rows, lastCode, mailed, spent)
      /\ rows \in Seq(Row) /\ \A c \in spent : c \notin Codes(rows)
      /\ KeysOK' /\ deaths' \in 0..MaxDeaths
  BY <1>1 DEF OInv, RequestsOK, RowsOK, CodesOK, KeysOK
<1>3. CASE Finish(p) /\ UNCHANGED wrong
  BY <1>1, <1>2, <1>3, QuietFinish
<1>4. CASE rows # <<>> /\ Compare(p, Last(rows).code, Last(rows).attempts, Last(rows).code)
  <2>1. /\ Last(rows).code \in Codes(rows) /\ Last(rows).code \in 1..MaxCodes
        /\ Last(rows).attempts \in 0..MaxTries
    BY <1>2, <1>4, LastFine
  <2>2. req[p].late => req[p].code # Last(rows).code
    BY <1>2, <2>1 DEF CodeOK
  <2> QED BY <1>1, <1>4, <2>1, <2>2, CompareFine DEF At
<1> QED BY <1>3, <1>4 DEF FindRow

\* A verification that goes on counting a wrong try.
LEMMA CountingStep ==
  ASSUME OInv, NEW p \in Procs, NEW l \in {"findBackup", "readRow", "writeRow"},
         NEW t \in 0..MaxCodes, NEW n \in 0..MaxTries,
         Become(p, [req[p] EXCEPT !.pc = l, !.target = t, !.read = n]),
         req[p].pc \in {"setAttempts", "findBackup", "readRow"},
         KeysOK', redis'.code = redis.code, redis'.hourly = redis.hourly,
         UNCHANGED <<rows, lastCode, history>>
  PROVE  OInv'
<1> DEFINE r == [req[p] EXCEPT !.pc = l, !.target = t, !.read = n]
<1>1. /\ req[p] \in Request /\ CodeOK(req[p], redis.code.val, rows, lastCode, mailed, spent)
  BY DEF OInv, RequestsOK
<1>2. l \in VerifyLabels /\ l \in Labels /\ req[p].pc \in VerifyLabels
      /\ req[p].pc \notin {"delCode"} \cup FinalLabels
  BY DEF VerifyLabels, Labels, FinalLabels
<1>3. r \in Request /\ r.pc = l /\ r.code = req[p].code /\ r.cached = req[p].cached
  BY <1>1, <1>2 DEF Request, Labels
<1>4. /\ r.late <=> req[p].late
      /\ r.matched <=> req[p].matched
  BY <1>1 DEF Request
<1>5. Become(p, r)
  OBVIOUS
<1> HIDE DEF r
<1>6. CodeOK(r, redis.code.val, rows, lastCode, mailed, spent)
  BY <1>1, <1>2, <1>3, <1>4, VerifyFine DEF CodeOK, CodeLabels
<1>7. r.pc \notin CodeLabels /\ r.pc \notin DrawingLabels /\ r.pc \notin PassedLabels
  BY <1>2, <1>3, VerifyFine
<1> QED BY <1>3, <1>5, <1>6, <1>7, Quiet DEF OInv, RowsOK, CodesOK, history

LEMMA AfterCountFine ==
  ASSUME OInv, NEW p \in Procs, AfterCount(p), UNCHANGED <<redis, lastCode, history>>,
         rows' \in Seq(Row), Distinct(rows'), Codes(rows') = Codes(rows)
  PROVE  OInv'
<1>1. /\ req[p] \in Request /\ req[p].row \in 0..MaxCodes /\ KeysOK'
      /\ overlapped' \subseteq 1..lastCode /\ UNCHANGED <<mailed, spent>> /\ deaths' \in 0..MaxDeaths
      /\ wrong' \in [1..MaxCodes -> 0..MaxTries] /\ UNCHANGED deaths
  BY DEF OInv, RequestsOK, Request, KeysOK, CodesOK, history
<1>2. CASE Finish(p)
  <2>1. Idle.pc \notin CodeLabels /\ Idle.pc \notin DrawingLabels /\ Idle.pc \notin PassedLabels
    BY IdleFine DEF CodeLabels, DrawingLabels, PassedLabels
  <2> QED BY <1>1, <1>2, <2>1, IdleFine, Quiet DEF Finish
<1>3. CASE Become(p, [Idle EXCEPT !.pc = "delCode", !.row = req[p].row])
  <2> DEFINE r == [Idle EXCEPT !.pc = "delCode", !.row = req[p].row]
  <2>1. GivesUp(r, "delCode", req[p].row) /\ Become(p, r)
    BY <1>3 DEF GivesUp
  <2> HIDE DEF r
  <2>2. "delCode" \in VerifyLabels
    BY DEF VerifyLabels
  <2>3. /\ r \in Request /\ r.pc = "delCode"
        /\ CodeOK(r, redis.code.val, rows, lastCode, mailed, spent)
    BY <1>1, <2>1, <2>2, GiveUpFine
  <2> QED BY <1>1, <2>1, <2>2, <2>3, VerifyQuiet
<1> QED BY <1>2, <1>3 DEF AfterCount

LEMMA SetAttemptsFine == ASSUME OInv, NEW p \in Procs, SetAttempts(p) PROVE OInv'
<1> DEFINE v == SetKeepTtl(redis.attempts, req[p].attempts)
           l == IF req[p].row = 0 THEN "findBackup" ELSE "readRow"
<1>1. /\ At(p, "setAttempts") /\ redis' = [redis EXCEPT !["attempts"] = v]
      /\ Become(p, [req[p] EXCEPT !.pc = l, !.target = req[p].row])
      /\ UNCHANGED <<rows, lastCode, history>>
  BY DEF SetAttempts
<1>2. /\ req[p] \in Request /\ req[p].attempts \in 0..MaxTries /\ req[p].row \in 0..MaxCodes
      /\ req[p].read \in 0..MaxTries /\ KeysOK /\ redis.attempts \in RedisKey
  BY DEF OInv, RequestsOK, Request, KeysOK
<1>3. v \in RedisKey /\ v.val \in 0..MaxTries
  BY <1>2, Bounds DEF SetKeepTtl, RedisKey
<1> HIDE DEF v
<1>4. KeysOK' /\ redis'.code = redis.code /\ redis'.hourly = redis.hourly
  BY <1>1, <1>2, <1>3, KeyWritten
<1>5. [req[p] EXCEPT !.pc = l, !.target = req[p].row]
        = [req[p] EXCEPT !.pc = l, !.target = req[p].row, !.read = req[p].read]
  BY <1>2 DEF Request
<1> QED BY <1>1, <1>2, <1>4, <1>5, CountingStep DEF At

LEMMA FindBackupFine == ASSUME OInv, NEW p \in Procs, FindBackup(p) PROVE OInv'
<1>1. /\ At(p, "findBackup") /\ UNCHANGED <<redis, rows, lastCode, history>>
      /\ req[p] \in Request /\ req[p].read \in 0..MaxTries
      /\ rows \in Seq(Row) /\ Distinct(rows) /\ KeysOK /\ KeysOK'
  BY DEF FindBackup, OInv, RequestsOK, Request, RowsOK, KeysOK
<1>2. CASE AfterCount(p)
  BY <1>1, <1>2, AfterCountFine
<1>3. CASE /\ rows # <<>>
           /\ Become(p, [req[p] EXCEPT !.pc = "readRow", !.target = Last(rows).code])
  <2>1. Last(rows).code \in 0..MaxCodes
    BY <1>1, <1>3, LastFine
  <2>2. [req[p] EXCEPT !.pc = "readRow", !.target = Last(rows).code]
          = [req[p] EXCEPT !.pc = "readRow", !.target = Last(rows).code, !.read = req[p].read]
    BY <1>1 DEF Request
  <2> QED BY <1>1, <1>3, <2>1, <2>2, CountingStep DEF At
<1> QED BY <1>2, <1>3 DEF FindBackup

LEMMA ReadRowFine == ASSUME OInv, NEW p \in Procs, ReadRow(p) PROVE OInv'
<1>1. /\ At(p, "readRow") /\ UNCHANGED <<redis, rows, lastCode, history>>
      /\ req[p] \in Request /\ req[p].target \in 0..MaxCodes
      /\ rows \in Seq(Row) /\ Distinct(rows) /\ KeysOK /\ KeysOK'
  BY DEF ReadRow, OInv, RequestsOK, Request, RowsOK, KeysOK
<1>2. CASE AfterCount(p)
  BY <1>1, <1>2, AfterCountFine
<1>3. ASSUME NEW i \in DOMAIN rows,
             Become(p, [req[p] EXCEPT !.pc = "writeRow", !.read = rows[i].attempts])
      PROVE  OInv'
  <2>1. rows[i].attempts \in 0..MaxTries
    <3>1. rows[i] \in Row
      BY <1>1, ElementOfSeq, LenProperties
    <3> QED BY <3>1 DEF Row
  <2>2. [req[p] EXCEPT !.pc = "writeRow", !.read = rows[i].attempts]
          = [req[p] EXCEPT !.pc = "writeRow", !.target = req[p].target, !.read = rows[i].attempts]
    BY <1>1 DEF Request
  <2> QED BY <1>1, <1>3, <2>1, <2>2, CountingStep DEF At
<1> QED BY <1>2, <1>3 DEF ReadRow

\* Rows that are changed and neither come, go nor change their code.
LEMMA RowsFine ==
  ASSUME NEW s \in Seq(Row), NEW t, Distinct(s), t \in [DOMAIN s -> Row],
         \A i \in DOMAIN s : t[i].code = s[i].code
  PROVE  t \in Seq(Row) /\ Distinct(t) /\ Codes(t) = Codes(s)
<1>1. DOMAIN s = 1..Len(s) /\ Len(s) \in Nat
  BY LenProperties
<1>2. t \in Seq(Row)
  BY <1>1
<1>3. DOMAIN t = DOMAIN s
  OBVIOUS
<1> QED BY <1>2, <1>3 DEF Distinct, Codes

LEMMA WriteRowFine == ASSUME OInv, NEW p \in Procs, WriteRow(p) PROVE OInv'
<1> DEFINE n == IF req[p].read < MaxTries THEN req[p].read + 1 ELSE MaxTries
<1>1. /\ At(p, "writeRow") /\ UNCHANGED <<redis, lastCode, history>> /\ AfterCount(p)
      /\ rows' = [i \in DOMAIN rows |-> IF rows[i].code = req[p].target
                                         THEN [rows[i] EXCEPT !.attempts = n] ELSE rows[i]]
  BY DEF WriteRow
<1>2. /\ req[p].read \in 0..MaxTries /\ rows \in Seq(Row) /\ Distinct(rows)
  BY DEF OInv, RequestsOK, Request, RowsOK
<1>3. n \in 0..MaxTries
  BY <1>2, Bounds
<1> HIDE DEF n
<1>4. \A i \in DOMAIN rows : rows[i] \in Row
  BY <1>2, ElementOfSeq, LenProperties
<1>5. ASSUME NEW i \in DOMAIN rows
      PROVE  rows'[i] \in Row /\ rows'[i].code = rows[i].code
  BY <1>1, <1>3, <1>4 DEF Row
<1>6. rows' \in [DOMAIN rows -> Row]
  <2>1. rows' = [i \in DOMAIN rows |-> rows'[i]]
    BY <1>1
  <2> QED BY <1>5, <2>1
<1>7. rows' \in Seq(Row) /\ Distinct(rows') /\ Codes(rows') = Codes(rows)
  BY <1>2, <1>5, <1>6, RowsFine
<1> QED BY <1>1, <1>7, AfterCountFine

\* A code disappears from Redis.
LEMMA DelCodeFine == ASSUME OInv, NEW p \in Procs, DelCode(p) PROVE OInv'
<1> DEFINE r == [req[p] EXCEPT !.pc = "delAttempts"]
<1>1. /\ At(p, "delCode") /\ redis' = [redis EXCEPT !.code = Absent] /\ Become(p, r)
      /\ UNCHANGED <<rows, lastCode, mailed, wrong, spent, overlapped, deaths>>
  BY DEF DelCode, Goto, history
<1>2. /\ req[p] \in Request /\ CodeOK(req[p], redis.code.val, rows, lastCode, mailed, spent)
      /\ "delAttempts" \in VerifyLabels /\ "delAttempts" \in Labels /\ req[p].pc \in VerifyLabels
      /\ lastCode \in Nat /\ mailed \subseteq 1..lastCode /\ spent \subseteq mailed
  BY <1>1 DEF OInv, RequestsOK, At, VerifyLabels, Labels, CodesOK
<1>3. /\ r \in Request /\ r.pc = "delAttempts" /\ r.code = req[p].code /\ r.cached = req[p].cached
      /\ r.row = req[p].row
      /\ r.late <=> req[p].late
      /\ r.matched <=> req[p].matched
  BY <1>2, GotoFine
<1> HIDE DEF r
<1>4. KeysOK' /\ redis'.code.val = 0 /\ redis'.hourly = redis.hourly
  BY <1>1, Bounds DEF OInv, KeysOK, Absent, RedisKey
<1>5. 0 \notin mailed
  BY <1>2
<1>6. "delAttempts" \in FinalLabels /\ r.pc \notin CodeLabels /\ r.pc \notin DrawingLabels
      /\ r.pc \notin PassedLabels /\ "deleteRows" # r.pc /\ "insertRow" # r.pc
  BY <1>2, <1>3, VerifyFine DEF FinalLabels
<1>7. CodeOK(r, redis'.code.val, rows', lastCode', mailed', spent')
  BY <1>1, <1>2, <1>3, <1>4, <1>5, <1>6 DEF CodeOK
<1>8. \A q \in Procs : req[q].matched => req[q].code \in mailed
  BY DEF OInv, RequestsOK, CodeOK
<1>9. RequestsOK' /\ req'[p] = r /\ \A q \in Procs \ {p} : req'[q] = req[q]
  <2>1. lastCode' \in Nat /\ lastCode <= lastCode'
    BY <1>1, <1>2
  <2> QED BY <1>1, <1>3, <1>4, <1>5, <1>6, <1>7, <1>8, <2>1, RequestStep
<1>10. CountsOK'
  BY <1>1, <1>4, <1>6, <1>9, CountsKept
<1>11. RowsOK' /\ CodesOK'
  BY <1>1, <1>2, <1>4, <1>5 DEF OInv, RowsOK, CodesOK
<1> QED BY <1>4, <1>9, <1>10, <1>11 DEF OInv

LEMMA DelAttemptsFine == ASSUME OInv, NEW p \in Procs, DelAttempts(p) PROVE OInv'
<1> DEFINE r == [req[p] EXCEPT !.pc = "delRow"]
<1>1. /\ At(p, "delAttempts") /\ redis' = [redis EXCEPT !["attempts"] = Absent] /\ Become(p, r)
      /\ UNCHANGED <<rows, lastCode, mailed, wrong, spent, overlapped, deaths>>
  BY DEF DelAttempts, Goto, history
<1>2. /\ req[p] \in Request /\ CodeOK(req[p], redis.code.val, rows, lastCode, mailed, spent)
      /\ "delRow" \in VerifyLabels /\ "delRow" \in Labels /\ req[p].pc \in VerifyLabels
      /\ Absent \in RedisKey /\ Absent.val \in 0..MaxTries /\ KeysOK
  BY <1>1, Bounds DEF OInv, RequestsOK, At, VerifyLabels, Labels, Absent, RedisKey
<1>3. /\ r \in Request /\ r.pc = "delRow" /\ r.code = req[p].code /\ r.cached = req[p].cached
      /\ r.row = req[p].row
      /\ r.late <=> req[p].late
      /\ r.matched <=> req[p].matched
  BY <1>2, GotoFine
<1> HIDE DEF r
<1>4. KeysOK' /\ redis'.code = redis.code /\ redis'.hourly = redis.hourly
  BY <1>1, <1>2, KeyWritten
<1>5. /\ "delRow" \in FinalLabels /\ req[p].pc \in FinalLabels /\ r.pc \notin CodeLabels
      /\ r.pc \notin DrawingLabels /\ r.pc \notin PassedLabels
      /\ "deleteRows" # r.pc /\ "insertRow" # r.pc
  BY <1>1, <1>2, <1>3, VerifyFine DEF FinalLabels, At
<1>6. CodeOK(r, redis.code.val, rows, lastCode, mailed, spent)
  BY <1>2, <1>3, <1>5 DEF CodeOK
<1> QED BY <1>1, <1>3, <1>4, <1>5, <1>6, Quiet DEF OInv, RowsOK, CodesOK

\* The code that was accepted is nowhere any more.
LEMMA DelRowFine == ASSUME OInv, NEW p \in Procs, DelRow(p) PROVE OInv'
<1>1. /\ At(p, "delRow") /\ rows' = Remaining(req[p].row) /\ Become(p, Idle)
      /\ spent' = spent \cup IF req[p].matched THEN {req[p].code} ELSE {}
      /\ UNCHANGED <<redis, lastCode, mailed, wrong, overlapped, deaths>>
  BY DEF DelRow, Finish
<1>2. /\ CodeOK(req[p], redis.code.val, rows, lastCode, mailed, spent)
      /\ rows \in Seq(Row) /\ Distinct(rows) /\ lastCode \in Nat /\ spent \subseteq mailed
      /\ \A c \in spent : redis.code.val # c /\ c \notin Codes(rows)
      /\ Codes(rows) \subseteq 1..lastCode /\ KeysOK' /\ KeysOK
  BY <1>1 DEF OInv, RequestsOK, RowsOK, CodesOK, KeysOK
<1>3. /\ rows' \in Seq(Row) /\ Distinct(rows') /\ Codes(rows') \subseteq Codes(rows)
      /\ req[p].row # 0 => req[p].row \notin Codes(rows')
      /\ req[p].row = 0 => Codes(rows') = {}
  <2>1. CASE req[p].row = 0
    BY <1>1, <1>2, <2>1 DEF Remaining, Distinct, Codes
  <2>2. CASE req[p].row # 0
    <3>1. rows' = Without(rows, req[p].row)
      BY <1>1, <2>2 DEF Remaining, Without
    <3> QED BY <1>2, <2>2, <3>1, RemoveFine
  <2> QED BY <2>1, <2>2
<1>4. req[p].matched => /\ req[p].code \in mailed /\ req[p].code # redis.code.val
                        /\ req[p].code \notin Codes(rows')
  BY <1>1, <1>2, <1>3 DEF CodeOK, At, FinalLabels
<1>5. spent' \subseteq mailed /\ spent \subseteq spent'
      /\ \A c \in spent' : redis.code.val # c /\ c \notin Codes(rows')
  BY <1>1, <1>2, <1>3, <1>4
<1>6. Idle.pc \notin CodeLabels /\ Idle.pc \notin DrawingLabels /\ Idle.pc \notin PassedLabels
  BY IdleFine DEF CodeLabels, DrawingLabels, PassedLabels
<1>7. \A q \in Procs : req[q].matched /\ req[q].pc \in FinalLabels => redis.code.val # req[q].code
  BY DEF OInv, RequestsOK, CodeOK
<1>8. RequestsOK' /\ req'[p] = Idle /\ \A q \in Procs \ {p} : req'[q] = req[q]
  <2>1. /\ lastCode' \in Nat /\ lastCode <= lastCode' /\ mailed \subseteq mailed'
        /\ Codes(rows') \ Codes(rows) = {} /\ mailed' \ mailed = {}
        /\ CodeOK(Idle, redis'.code.val, rows', lastCode', mailed', spent')
    BY <1>1, <1>2, <1>3, IdleFine
  <2> QED BY <1>1, <1>5, <1>6, <1>7, <2>1, IdleFine, RequestStep
<1>9. CountsOK'
  BY <1>1, <1>6, <1>8, CountsKept
<1>10. RowsOK' /\ CodesOK'
  BY <1>1, <1>2, <1>3, <1>5 DEF OInv, RowsOK, CodesOK
<1> QED BY <1>2, <1>8, <1>9, <1>10 DEF OInv

-----------------------------------------------------------------------------
(* What may happen at any moment.                                          *)

LEMMA AbortFine == ASSUME OInv, NEW p \in Procs, Abort(p) PROVE OInv'
<1>1. /\ deaths' \in 0..MaxDeaths /\ KeysOK' /\ Finish(p)
      /\ UNCHANGED <<redis, rows, lastCode, mailed, wrong, spent, overlapped>>
  BY Bounds DEF Abort, OInv, CodesOK, KeysOK
<1> QED BY <1>1, QuietFinish

LEMMA KeyExpiresFine ==
  ASSUME OInv, NEW k \in DOMAIN redis, KeyExpires(k) PROVE OInv'
<1>1. /\ redis' = [redis EXCEPT ![k] = Absent]
      /\ UNCHANGED <<rows, lastCode, mailed, wrong, spent, overlapped, deaths, req>>
      /\ KeysOK /\ lastCode \in Nat /\ mailed \subseteq 1..lastCode /\ spent \subseteq mailed
  BY DEF KeyExpires, history, OInv, CodesOK
<1>2. Absent \in RedisKey /\ Absent.val = 0 /\ Absent.ttl = "absent" /\ 0 \in 0..MaxCodes /\ 0 \in 0..MaxTries
  BY Bounds DEF Absent, RedisKey
<1>3. KeysOK' /\ redis'.code.val \in {redis.code.val, 0} /\ redis'.hourly.val \in {redis.hourly.val, 0}
  BY <1>1, <1>2 DEF KeysOK
<1>4. RequestsOK'
  <2>1. \A q \in Procs : req[q].matched => req[q].code # 0
    BY <1>1 DEF OInv, RequestsOK, CodeOK
  <2> QED BY <1>1, <1>3, <2>1 DEF OInv, RequestsOK, CodeOK
<1>5. RowsOK' /\ CodesOK'
  BY <1>1, <1>3 DEF OInv, RowsOK, CodesOK
<1>6. CountsOK'
  <2>1. Crowd(DrawingLabels)' = Crowd(DrawingLabels) /\ Crowd(PassedLabels)' = Crowd(PassedLabels)
        /\ Crowd(PassedLabels) \in Nat /\ redis.hourly.val \in Nat
    BY <1>1, CrowdFine DEF Crowd, KeysOK, RedisKey
  <2> QED BY <1>1, <1>3, <2>1, Bounds DEF OInv, CountsOK
<1> QED BY <1>3, <1>4, <1>5, <1>6 DEF OInv

LEMMA RowExpiresFine ==
  ASSUME OInv, NEW i \in DOMAIN rows, RowExpires(i) PROVE OInv'
<1>1. /\ rows' = [rows EXCEPT ![i].live = FALSE]
      /\ UNCHANGED <<redis, lastCode, mailed, wrong, spent, overlapped, deaths, req>>
      /\ rows \in Seq(Row) /\ Distinct(rows)
  BY DEF RowExpires, history, OInv, RowsOK
<1>2. \A j \in DOMAIN rows : rows[j] \in Row
  BY <1>1, ElementOfSeq, LenProperties
<1>3. DOMAIN rows' = DOMAIN rows
  BY <1>1
<1>4. ASSUME NEW j \in DOMAIN rows
      PROVE  rows'[j] \in Row /\ rows'[j].code = rows[j].code
  BY <1>1, <1>2 DEF Row
<1>5. rows' \in [DOMAIN rows -> Row]
  <2>1. rows \in [DOMAIN rows -> Row]
    BY <1>1, LenProperties
  <2> QED BY <1>1, <1>4, <2>1
<1>6. rows' \in Seq(Row) /\ Distinct(rows') /\ Codes(rows') = Codes(rows)
  BY <1>1, <1>4, <1>5, RowsFine
<1>7. RequestsOK'
  BY <1>1, <1>6 DEF OInv, RequestsOK, CodeOK
<1>8. RowsOK' /\ CodesOK' /\ KeysOK'
  BY <1>1, <1>6 DEF OInv, RowsOK, CodesOK, KeysOK
<1>9. CountsOK'
  BY <1>1 DEF OInv, CountsOK, Crowd
<1> QED BY <1>7, <1>8, <1>9 DEF OInv

-----------------------------------------------------------------------------
(* The theorems.                                                           *)

LEMMA OInit == Init => OInv
<1> SUFFICES ASSUME Init PROVE OInv
  OBVIOUS
<1>1. Absent \in RedisKey /\ Absent.val = 0 /\ Absent.ttl = "absent" /\ 0 \in 0..MaxCodes
      /\ 0 \in 0..MaxTries /\ 0 \in 0..MaxDeaths /\ rows = <<>> /\ req = [p \in Procs |-> Idle]
      /\ redis = NoKeys
  BY Bounds DEF Init, Absent, RedisKey
<1>2. RequestsOK
  BY <1>1, IdleFine DEF Init, RequestsOK, CodeLabels
<1>3. KeysOK
  BY <1>1 DEF KeysOK, NoKeys
<1>4. RowsOK
  BY <1>1 DEF RowsOK, Distinct, Codes
<1>5. CodesOK
  BY <1>1 DEF Init, CodesOK
<1>6. CountsOK
  <2>1. \A labels : "idle" \notin labels => {p \in Procs : req[p].pc \in labels} = {}
    BY <1>1, IdleFine
  <2>2. "idle" \notin DrawingLabels /\ "idle" \notin PassedLabels
    BY DEF DrawingLabels, PassedLabels
  <2>3. Crowd(DrawingLabels) = 0 /\ Crowd(PassedLabels) = 0
    BY <2>1, <2>2, FS_EmptySet DEF Crowd
  <2>4. redis.hourly.val = 0 /\ lastCode = 0
    BY <1>1 DEF Init, NoKeys
  <2> QED BY <2>3, <2>4, Bounds DEF CountsOK
<1> QED BY <1>2, <1>3, <1>4, <1>5, <1>6 DEF OInv

LEMMA ONext == OInv /\ [Next]_vars => OInv'
<1> SUFFICES ASSUME OInv, [Next]_vars PROVE OInv'
  OBVIOUS
<1>1. CASE UNCHANGED vars
  BY <1>1 DEF vars, OInv, RequestsOK, KeysOK, RowsOK, CodesOK, CountsOK, Crowd
<1>2. ASSUME NEW p \in Procs, Continue(p) PROVE OInv'
  BY <1>2, GenerateQuiet, CheckHourlyFine, DeleteRowsFine, InsertRowFine, SetCodeFine,
     IncrHourlyFine, MailFine, GetCodeFine, GetAttemptsFine, FindRowFine, SetAttemptsFine,
     FindBackupFine, ReadRowFine, WriteRowFine, DelCodeFine, DelAttemptsFine, DelRowFine
     DEF Continue
<1>3. ASSUME NEW p \in Procs, BeginGenerate(p) PROVE OInv'
  BY <1>3, BeginGenerateFine
<1>4. ASSUME NEW p \in Procs, NEW c \in {0} \cup mailed, BeginVerify(p, c) PROVE OInv'
  BY <1>4, BeginVerifyFine
<1>5. ASSUME NEW p \in Procs, Abort(p) PROVE OInv'
  BY <1>5, AbortFine
<1>6. ASSUME NEW k \in DOMAIN redis, KeyExpires(k) PROVE OInv'
  BY <1>6, KeyExpiresFine
<1>7. ASSUME NEW i \in DOMAIN rows, RowExpires(i) PROVE OInv'
  BY <1>7, RowExpiresFine
<1> QED BY <1>1, <1>2, <1>3, <1>4, <1>5, <1>6, <1>7 DEF Next

\* generateOtp, verifyOtp and the expiries keep the invariant the theorems rest on.
THEOREM OtpInvariance == Spec => []OInv
BY OInit, ONext, PTL DEF Spec

\* The keys, the rows and the requests keep their types, and no more codes are drawn
\* than there is room for.
THEOREM OtpTypes == Spec => []TypeOK
<1>1. ASSUME OInv PROVE TypeOK
  <2>1. lastCode \in 0..MaxCodes
    BY <1>1, LastCodeFine
  <2> QED BY <1>1, <2>1 DEF OInv, RequestsOK, KeysOK, RowsOK, CodesOK, TypeOK, Row
<1> QED BY <1>1, OtpInvariance, PTL

\* invalidateOtp after a match leaves the code neither in Redis nor in the table, so
\* that no verification that begins later accepts it.
THEOREM CodesServeOnce == Spec => []ReuseNeedsOverlap
<1>1. ASSUME OInv PROVE ReuseNeedsOverlap
  BY <1>1 DEF OInv, RequestsOK, CodeOK, ReuseNeedsOverlap
<1> QED BY <1>1, OtpInvariance, PTL

\* Requests that pass the check of the hourly key before the others count overrun
\* maxHourlyRequests by less than their number.
THEOREM OvershootIsBounded == Spec => []HourlyOvershoot
<1>1. ASSUME OInv PROVE HourlyOvershoot
  <2>1. Crowd(PassedLabels) \in Nat /\ redis.hourly.val \in Nat
    BY <1>1, CrowdFine DEF OInv, KeysOK, RedisKey
  <2> QED BY <1>1, <2>1, Bounds DEF OInv, CountsOK, HourlyOvershoot
<1> QED BY <1>1, OtpInvariance, PTL

-----------------------------------------------------------------------------
(* The tries of a code.                                                    *)

\* The counter was set back for the code: it was mailed, or soon will be.
StoredLabels == {"setCooldown", "incrHourly", "expireHourly", "mail"}
Settled(c) == c \in mailed \/ \E p \in Procs : req[p].pc \in StoredLabels /\ req[p].code = c

\* What a verification knows when c is the code in Redis and all verifications began
\* after its counter was set back: it works on c, and has counted no more tries than
\* were made of it.
TryOK(r, c, tries) ==
  /\ r.pc = "getAttempts" => r.cached = c
  /\ r.pc # "findRow"
  /\ r.pc \in {"setAttempts", "findBackup", "readRow", "writeRow"} => r.attempts <= tries
  /\ r.pc = "delCode" => tries = MaxTries \/ (r.matched /\ r.code = c)

TriesOK ==
  LET c == redis.code.val IN
  c # 0 /\ c \notin overlapped =>
    /\ \A p, q \in Procs : req[p].pc = "resetAttempts" /\ req[p].code = c =>
                             req[q].pc \notin VerifyLabels
    /\ Settled(c) => /\ redis.attempts.val <= wrong[c]
                     /\ \A p \in Procs : TryOK(req[p], c, wrong[c])

\* A code goes from one request to the next with what is known of its tries: neither
\* stored nor set back, and no try forgotten.
LEMMA TriesStep ==
  ASSUME OInv, TriesOK, NEW p \in Procs, NEW r, req' \in [Procs -> Request], Become(p, r),
         redis'.code.val \in {redis.code.val, 0}, overlapped \subseteq overlapped',
         mailed' = mailed \/ (req[p].pc \in StoredLabels /\ mailed' = mailed \cup {req[p].code}),
         r.pc \in StoredLabels => req[p].pc \in StoredLabels /\ r.code = req[p].code,
         r.pc # "resetAttempts",
         r.pc \in VerifyLabels =>
           \/ req[p].pc \in VerifyLabels
           \/ \A q \in Procs : req[q].pc = "resetAttempts" => req[q].code \in overlapped',
         wrong' \in [1..MaxCodes -> 0..MaxTries], \A c \in 1..MaxCodes : wrong[c] <= wrong'[c],
         \A c \in 1..MaxCodes :
           c = redis.code.val /\ TryOK(req[p], c, wrong[c]) /\ redis.attempts.val <= wrong[c] =>
             redis'.attempts.val <= wrong'[c] /\ TryOK(r, c, wrong'[c])
  PROVE  TriesOK'
<1> SUFFICES ASSUME NEW c, c = redis'.code.val, c # 0, c \notin overlapped'
             PROVE  /\ \A u, q \in Procs : req'[u].pc = "resetAttempts" /\ req'[u].code = c =>
                                             req'[q].pc \notin VerifyLabels
                    /\ Settled(c)' => /\ redis'.attempts.val <= wrong'[c]
                                      /\ \A q \in Procs : TryOK(req'[q], c, wrong'[c])
  BY DEF TriesOK
<1>1. c = redis.code.val /\ c \notin overlapped /\ c \in 1..MaxCodes /\ c # 0
  BY Bounds DEF OInv, KeysOK
<1>2. /\ \A u, q \in Procs : req[u].pc = "resetAttempts" /\ req[u].code = c =>
                               req[q].pc \notin VerifyLabels
      /\ Settled(c) => /\ redis.attempts.val <= wrong[c]
                       /\ \A q \in Procs : TryOK(req[q], c, wrong[c])
  BY <1>1 DEF TriesOK
<1>3. req'[p] = r /\ \A q \in Procs \ {p} : req'[q] = req[q]
  BY DEF Become, OInv, RequestsOK
<1>4. ASSUME NEW u \in Procs, NEW q \in Procs, req'[u].pc = "resetAttempts", req'[u].code = c
      PROVE  req'[q].pc \notin VerifyLabels
  BY <1>2, <1>3, <1>4
<1>5. ASSUME Settled(c)'
      PROVE  Settled(c)
  BY <1>3, <1>5 DEF Settled
<1>6. ASSUME Settled(c), NEW q \in Procs
      PROVE  redis'.attempts.val <= wrong'[c] /\ TryOK(req'[q], c, wrong'[c])
  <2>1. redis'.attempts.val <= wrong'[c] /\ TryOK(r, c, wrong'[c])
    BY <1>1, <1>2, <1>6
  <2>2. wrong[c] <= wrong'[c] /\ wrong[c] \in 0..MaxTries /\ wrong'[c] \in 0..MaxTries /\ MaxTries \in Nat
    BY <1>1, Bounds DEF OInv, CodesOK
  <2>3. req[q].attempts \in Nat /\ TryOK(req[q], c, wrong[c])
    BY <1>2, <1>6, Bounds DEF OInv, RequestsOK, Request
  <2>4. TryOK(req[q], c, wrong'[c])
    BY <2>2, <2>3 DEF TryOK
  <2> QED BY <1>3, <2>1, <2>4
<1> QED BY <1>4, <1>5, <1>6

\* A request that is over, or on its way to a code, knows nothing of tries.
LEMMA NoTry ==
  ASSUME NEW r, r.pc \notin VerifyLabels PROVE \A c, tries : TryOK(r, c, tries)
BY DEF TryOK, VerifyLabels

\* The steps of generateOtp that store no code and set no counter, deaths, and the
\* beginning of either operation.
LEMMA TriesPlain ==
  ASSUME OInv, OInv', TriesOK, NEW p \in Procs, NEW l \in Labels,
         Goto(p, l) \/ Finish(p) \/ (l = "deleteRows" /\ Become(p, [Idle EXCEPT !.pc = l, !.code = lastCode + 1])),
         l \notin VerifyLabels \cup {"resetAttempts"},
         l \in StoredLabels => req[p].pc \in StoredLabels,
         redis'.code = redis.code, redis'.attempts = redis.attempts, UNCHANGED <<overlapped, wrong>>,
         mailed' = mailed \/ (req[p].pc \in StoredLabels /\ mailed' = mailed \cup {req[p].code})
  PROVE  TriesOK'
<1>1. req' \in [Procs -> Request] /\ req[p] \in Request /\ req \in [Procs -> Request]
      /\ wrong \in [1..MaxCodes -> 0..MaxTries]
  BY DEF OInv, RequestsOK, CodesOK
<1>2. PICK r : /\ Become(p, r) /\ r.pc \in {l, "idle"}
               /\ r.pc \in StoredLabels => r.code = req[p].code
  <2>1. CASE Goto(p, l)
    <3> DEFINE r == [req[p] EXCEPT !.pc = l]
    <3>1. r.pc = l /\ r.code = req[p].code
      BY <1>1, GotoFine
    <3>2. Become(p, r)
      BY <2>1 DEF Goto
    <3> HIDE DEF r
    <3> QED BY <3>1, <3>2
  <2>2. CASE Finish(p)
    BY <2>2, IdleFine DEF Finish, StoredLabels
  <2>3. CASE l = "deleteRows" /\ Become(p, [Idle EXCEPT !.pc = l, !.code = lastCode + 1])
    <3> DEFINE r == [Idle EXCEPT !.pc = l, !.code = lastCode + 1]
    <3>1. r.pc = l /\ l \notin StoredLabels
      BY <2>3, IdleFine DEF Request, StoredLabels
    <3> HIDE DEF r
    <3> QED BY <2>3, <3>1 DEF r
  <2> QED BY <2>1, <2>2, <2>3
<1>3. "idle" \notin VerifyLabels \cup StoredLabels \cup {"resetAttempts"}
  BY DEF VerifyLabels, StoredLabels
<1>4. \A c, tries : TryOK(r, c, tries)
  BY <1>2, <1>3, NoTry
<1>5. \A c \in 1..MaxCodes : wrong[c] <= wrong'[c]
  BY <1>1, Bounds
<1> QED BY <1>1, <1>2, <1>3, <1>4, <1>5, TriesStep

\* A code is stored: nobody has counted a try of it, and its counter is set back next.
LEMMA SetCodeTries ==
  ASSUME OInv, OInv', NEW p \in Procs, SetCode(p) PROVE TriesOK'
<1> PICK c : c = req[p].code
  OBVIOUS
<1>1. /\ req[p].pc = "setCode" /\ Goto(p, "resetAttempts") /\ UNCHANGED <<mailed, wrong>>
      /\ overlapped' = overlapped \cup IF Verifying = {} THEN {} ELSE {c}
      /\ redis' = [redis EXCEPT !.code = Key(c)]
  BY DEF SetCode, At
<1>2. /\ c \in 1..lastCode /\ c \notin mailed /\ c \in Nat
      /\ \A q \in Procs : q # p /\ req[q].pc \in CodeLabels => req[q].code # c
  BY <1>1 DEF OInv, RequestsOK, CodeOK, CodeLabels
<1>3. req[p] \in Request /\ "resetAttempts" \in Labels
  BY DEF OInv, RequestsOK, Labels, GenerateLabels
<1>4. /\ req'[p].pc = "resetAttempts" /\ req'[p].code = c
      /\ \A q \in Procs \ {p} : req'[q] = req[q]
  BY <1>1, <1>3, GotoFine DEF Goto, Become, OInv, RequestsOK
<1>5. redis'.code.val = c
  BY <1>1, <1>2, KeyFine DEF OInv, KeysOK
<1>6. ~Settled(c)'
  BY <1>1, <1>2, <1>4 DEF Settled, StoredLabels, CodeLabels
<1>7. ASSUME c \notin overlapped', NEW q \in Procs PROVE req'[q].pc \notin VerifyLabels
  BY <1>1, <1>4, <1>7 DEF Verifying, VerifyLabels
<1> QED BY <1>5, <1>6, <1>7 DEF TriesOK

\* The counter is set back: from here on it is that of the code.
LEMMA ResetAttemptsTries ==
  ASSUME OInv, OInv', TriesOK, NEW p \in Procs, ResetAttempts(p) PROVE TriesOK'
<1> PICK c : c = redis.code.val
  OBVIOUS
<1>1. /\ req[p].pc = "resetAttempts" /\ Goto(p, "setCooldown")
      /\ UNCHANGED <<mailed, wrong, overlapped>>
      /\ redis' = [redis EXCEPT !.attempts = Key(0)]
  BY DEF ResetAttempts, At, history
<1>2. req[p] \in Request /\ "setCooldown" \in Labels
  BY DEF OInv, RequestsOK, Labels, GenerateLabels
<1>3. /\ req'[p].pc = "setCooldown" /\ req'[p].code = req[p].code
      /\ \A q \in Procs \ {p} : req'[q] = req[q]
  BY <1>1, <1>2, GotoFine DEF Goto, Become, OInv, RequestsOK
<1>4. redis'.code.val = c /\ redis'.attempts.val = 0 /\ c \in 0..MaxCodes
  BY <1>1, KeyFine DEF OInv, KeysOK
<1> SUFFICES ASSUME c # 0, c \notin overlapped
             PROVE  /\ \A u, q \in Procs : req'[u].pc = "resetAttempts" /\ req'[u].code = c =>
                                             req'[q].pc \notin VerifyLabels
                    /\ Settled(c)' => /\ redis'.attempts.val <= wrong'[c]
                                      /\ \A q \in Procs : TryOK(req'[q], c, wrong'[c])
  BY <1>1, <1>4 DEF TriesOK
<1>5. /\ \A u, q \in Procs : req[u].pc = "resetAttempts" /\ req[u].code = c =>
                               req[q].pc \notin VerifyLabels
      /\ Settled(c) => \A q \in Procs : TryOK(req[q], c, wrong[c])
  BY DEF TriesOK
<1>6. wrong[c] \in Nat /\ wrong' = wrong
  BY <1>1, <1>4, Bounds DEF OInv, CodesOK
<1>7. \A u, q \in Procs : req'[u].pc = "resetAttempts" /\ req'[u].code = c =>
                            req'[q].pc \notin VerifyLabels
  BY <1>3, <1>5 DEF VerifyLabels
<1>8. "setCooldown" \notin VerifyLabels
  BY DEF VerifyLabels
<1>9. ASSUME Settled(c)', NEW q \in Procs PROVE TryOK(req'[q], c, wrong'[c])
  <2>1. CASE q = p
    BY <1>3, <1>8, <2>1, NoTry
  <2>2. CASE q # p /\ req[p].code = c
    BY <1>1, <1>3, <1>5, <2>2, NoTry
  <2>3. CASE q # p /\ req[p].code # c
    <3>1. Settled(c)
      BY <1>1, <1>3, <1>9, <2>3 DEF Settled
    <3> QED BY <1>3, <1>5, <1>6, <2>3, <3>1
  <2> QED BY <2>1, <2>2, <2>3
<1> QED BY <1>4, <1>6, <1>7, <1>9

LEMMA GenerateTries ==
  ASSUME OInv, OInv', TriesOK, NEW p \in Procs,
         \/ BeginGenerate(p) \/ CheckSuspend(p) \/ CheckCooldown(p) \/ CheckHourly(p)
         \/ SetSuspend(p) \/ DeleteRows(p) \/ InsertRow(p) \/ SetCooldown(p)
         \/ IncrHourly(p) \/ ExpireHourly(p) \/ Mail(p) \/ Abort(p)
  PROVE  TriesOK'
<1>1. redis \in [{"code", "attempts", "cooldown", "hourly", "suspend"} -> RedisKey]
  BY DEF OInv, KeysOK
<1>2. redis'.code = redis.code /\ redis'.attempts = redis.attempts
  BY <1>1 DEF BeginGenerate, CheckSuspend, CheckCooldown, CheckHourly, SetSuspend, DeleteRows,
     InsertRow, SetCooldown, IncrHourly, ExpireHourly, Mail, Abort
<1>3. UNCHANGED <<overlapped, wrong>>
  BY DEF BeginGenerate, CheckSuspend, CheckCooldown, CheckHourly, SetSuspend, DeleteRows,
     InsertRow, SetCooldown, IncrHourly, ExpireHourly, Mail, Abort, history
<1>4. mailed' = mailed \/ (req[p].pc \in StoredLabels /\ mailed' = mailed \cup {req[p].code})
  BY DEF BeginGenerate, CheckSuspend, CheckCooldown, CheckHourly, SetSuspend, DeleteRows,
     InsertRow, SetCooldown, IncrHourly, ExpireHourly, Mail, Abort, history, At, StoredLabels
<1>5. PICK l \in {"suspend?", "cooldown?", "hourly?", "setSuspend", "deleteRows", "insertRow",
                  "setCode", "incrHourly", "expireHourly", "mail", "idle"} :
        /\ \/ Goto(p, l) \/ Finish(p)
           \/ l = "deleteRows" /\ Become(p, [Idle EXCEPT !.pc = l, !.code = lastCode + 1])
        /\ l \in StoredLabels => req[p].pc \in StoredLabels
  BY DEF BeginGenerate, CheckSuspend, CheckCooldown, CheckHourly, SetSuspend, DeleteRows,
     InsertRow, SetCooldown, IncrHourly, ExpireHourly, Mail, Abort, At, StoredLabels
<1>6. l \in Labels /\ l \notin VerifyLabels \cup {"resetAttempts"}
  BY DEF Labels, GenerateLabels, VerifyLabels
<1> QED BY <1>2, <1>3, <1>4, <1>5, <1>6, TriesPlain

\* A verification begins: a code whose counter is not its own yet is overlapped.
LEMMA BeginVerifyTries ==
  ASSUME OInv, OInv', TriesOK, NEW p \in Procs, NEW c \in {0} \cup mailed, BeginVerify(p, c)
  PROVE  TriesOK'
<1> DEFINE r == [Idle EXCEPT !.pc = "getCode", !.code = c, !.late = c \in spent]
<1>1. /\ Become(p, r) /\ UNCHANGED <<redis, mailed, wrong>>
      /\ overlapped' = overlapped \cup {req[q].code : q \in {q \in Procs : At(q, "resetAttempts")}}
  BY DEF BeginVerify
<1>2. r.pc = "getCode"
  BY IdleFine DEF Request
<1> HIDE DEF r
<1>3. r.pc \notin StoredLabels \cup {"resetAttempts"} /\ \A h, tries : TryOK(r, h, tries)
  BY <1>2 DEF StoredLabels, TryOK
<1>4. \A q \in Procs : req[q].pc = "resetAttempts" => req[q].code \in overlapped'
  BY <1>1 DEF At
<1>5. wrong' \in [1..MaxCodes -> 0..MaxTries] /\ req' \in [Procs -> Request]
      /\ \A h \in 1..MaxCodes : wrong[h] <= wrong'[h]
  BY <1>1, Bounds DEF OInv, CodesOK, RequestsOK
<1> QED BY <1>1, <1>3, <1>4, <1>5, TriesStep

\* A verification goes on, and counts no try.
LEMMA VerifyTries ==
  ASSUME OInv, OInv', TriesOK, NEW p \in Procs, NEW r, Become(p, r), req[p].pc \in VerifyLabels,
         r.pc \in VerifyLabels \cup {"idle"}, UNCHANGED <<mailed, overlapped, wrong>>,
         redis'.code.val \in {redis.code.val, 0},
         \A c \in 1..MaxCodes :
           c = redis.code.val /\ TryOK(req[p], c, wrong[c]) /\ redis.attempts.val <= wrong[c] =>
             redis'.attempts.val <= wrong[c] /\ TryOK(r, c, wrong[c])
  PROVE  TriesOK'
<1>1. wrong' \in [1..MaxCodes -> 0..MaxTries] /\ req' \in [Procs -> Request]
      /\ \A h \in 1..MaxCodes : wrong[h] <= wrong'[h]
  BY Bounds DEF OInv, CodesOK, RequestsOK
<1>2. r.pc \notin StoredLabels \cup {"resetAttempts"}
  BY DEF VerifyLabels, StoredLabels
<1> QED BY <1>1, <1>2, TriesStep

\* The code is compared with what its counter allows.
LEMMA CompareTries ==
  ASSUME OInv, OInv', TriesOK, NEW p \in Procs, req[p].pc = "getAttempts", NEW h \in 1..MaxCodes,
         h = req[p].cached, Compare(p, h, redis.attempts.val, 0),
         UNCHANGED <<redis, mailed, overlapped>>
  PROVE  TriesOK'
<1> DEFINE n == redis.attempts.val
<1>1. /\ req[p] \in Request /\ n \in 0..MaxTries /\ wrong[h] \in 0..MaxTries /\ MaxTries \in Nat
      /\ wrong \in [1..MaxCodes -> 0..MaxTries] /\ \A c \in 1..MaxCodes : wrong[c] \in 0..MaxTries
      /\ wrong' \in [1..MaxCodes -> 0..MaxTries] /\ req' \in [Procs -> Request]
  BY Bounds DEF OInv, RequestsOK, KeysOK, CodesOK
<1>2. "getAttempts" \in VerifyLabels /\ {"delCode", "setAttempts"} \subseteq VerifyLabels
      /\ {"delCode", "setAttempts"} \cap (StoredLabels \cup {"resetAttempts"}) = {}
  BY DEF VerifyLabels, StoredLabels
<1>3. CASE n >= MaxTries /\ UNCHANGED wrong /\ Become(p, [Idle EXCEPT !.pc = "delCode", !.row = 0])
  <2> DEFINE r == [Idle EXCEPT !.pc = "delCode", !.row = 0]
  <2>1. r.pc = "delCode"
    BY IdleFine DEF Request
  <2>2. Become(p, r)
    BY <1>3
  <2> HIDE DEF r
  <2>3. ASSUME NEW c \in 1..MaxCodes, n <= wrong[c] PROVE TryOK(r, c, wrong[c])
    BY <1>1, <1>3, <2>1, <2>3 DEF TryOK
  <2> QED BY <1>2, <1>3, <2>1, <2>2, <2>3, VerifyTries
<1>4. CASE /\ req[p].code = h /\ UNCHANGED wrong
           /\ Become(p, [req[p] EXCEPT !.pc = "delCode", !.row = 0, !.matched = TRUE])
  <2> DEFINE r == [req[p] EXCEPT !.pc = "delCode", !.row = 0, !.matched = TRUE]
  <2>1. r.pc = "delCode" /\ r.code = h /\ r.matched
    BY <1>1, <1>4 DEF Request
  <2>2. Become(p, r)
    BY <1>4
  <2> HIDE DEF r
  <2>3. ASSUME NEW c \in 1..MaxCodes, TryOK(req[p], c, wrong[c]) PROVE TryOK(r, c, wrong[c])
    BY <2>1, <2>3 DEF TryOK
  <2> QED BY <1>2, <1>4, <2>1, <2>2, <2>3, VerifyTries
<1>5. CASE /\ n < MaxTries
           /\ Become(p, [Idle EXCEPT !.pc = "setAttempts", !.row = 0, !.attempts = n + 1])
           /\ wrong' = [wrong EXCEPT ![h] = IF @ < MaxTries THEN @ + 1 ELSE @]
  <2> DEFINE r == [Idle EXCEPT !.pc = "setAttempts", !.row = 0, !.attempts = n + 1]
  <2>1. r.pc = "setAttempts" /\ r.attempts = n + 1
    BY IdleFine DEF Request
  <2>2. Become(p, r)
    BY <1>5
  <2> HIDE DEF r
  <2>3. wrong'[h] = (IF wrong[h] < MaxTries THEN wrong[h] + 1 ELSE wrong[h])
        /\ \A c \in 1..MaxCodes : c # h => wrong'[c] = wrong[c]
    BY <1>1, <1>5
  <2>4. \A c \in 1..MaxCodes : wrong[c] <= wrong'[c]
    BY <1>1, <2>3
  <2>5. ASSUME NEW c \in 1..MaxCodes, TryOK(req[p], c, wrong[c]), n <= wrong[c]
        PROVE  n <= wrong'[c] /\ TryOK(r, c, wrong'[c])
    <3>1. c = h
      BY <2>5 DEF TryOK
    <3>2. n + 1 <= wrong'[c]
      BY <1>1, <1>5, <2>3, <2>5, <3>1
    <3>3. n <= wrong'[c]
      BY <1>1, <2>4, <2>5
    <3> QED BY <2>1, <3>2, <3>3 DEF TryOK
  <2>6. redis'.attempts.val = n /\ redis'.code.val = redis.code.val
    OBVIOUS
  <2> QED BY <1>1, <1>2, <2>1, <2>2, <2>4, <2>5, <2>6, TriesStep
<1> QED BY <1>3, <1>4, <1>5 DEF Compare

LEMMA LookTries ==
  ASSUME OInv, OInv', TriesOK, NEW p \in Procs, GetCode(p) \/ GetAttempts(p) \/ FindRow(p)
  PROVE  TriesOK'
<1>1. UNCHANGED <<redis, mailed, overlapped>> /\ req[p] \in Request /\ redis.code.val \in 0..MaxCodes
  BY DEF GetCode, GetAttempts, FindRow, history, OInv, RequestsOK, KeysOK
<1>2. CASE GetCode(p)
  <2> DEFINE r == [req[p] EXCEPT !.pc = "getAttempts", !.cached = redis.code.val]
  <2>1. r.pc = "getAttempts" /\ r.cached = redis.code.val
    BY <1>1 DEF Request
  <2>2. Become(p, r) /\ UNCHANGED wrong /\ req[p].pc = "getCode"
    BY <1>2 DEF GetCode, At, history
  <2> HIDE DEF r
  <2>3. "getAttempts" \in VerifyLabels /\ "getCode" \in VerifyLabels
    BY DEF VerifyLabels
  <2>4. TryOK(r, redis.code.val, wrong[redis.code.val])
    BY <2>1 DEF TryOK
  <2> QED BY <1>1, <2>1, <2>2, <2>3, <2>4, VerifyTries
<1>3. CASE GetAttempts(p) /\ req[p].cached = 0
  <2> DEFINE r == [req[p] EXCEPT !.pc = "findRow"]
  <2>1. r.pc = "findRow"
    BY <1>1 DEF Request
  <2>2. Become(p, r) /\ UNCHANGED wrong /\ req[p].pc = "getAttempts"
    BY <1>3 DEF GetAttempts, At, Goto
  <2> HIDE DEF r
  <2>3. {"getAttempts", "findRow"} \subseteq VerifyLabels
    BY DEF VerifyLabels
  <2>4. \A c \in 1..MaxCodes : ~TryOK(req[p], c, wrong[c])
    BY <1>3, <2>2 DEF TryOK
  <2> QED BY <1>1, <2>1, <2>2, <2>3, <2>4, VerifyTries
<1>4. CASE GetAttempts(p) /\ req[p].cached # 0
  <2>1. req[p].cached \in 1..MaxCodes /\ req[p].pc = "getAttempts"
        /\ Compare(p, req[p].cached, redis.attempts.val, 0)
    BY <1>1, <1>4, Bounds DEF Request, GetAttempts, At
  <2> QED BY <1>1, <2>1, CompareTries
<1>5. CASE FindRow(p)
  <2>1. req[p].pc = "findRow" /\ "findRow" \in VerifyLabels
    BY <1>5 DEF FindRow, At, VerifyLabels
  <2>2. \A c, tries : ~TryOK(req[p], c, tries)
    BY <2>1 DEF TryOK
  <2>3. CASE Finish(p) /\ UNCHANGED wrong
    BY <1>1, <2>1, <2>2, <2>3, IdleFine, VerifyTries DEF Finish
  <2>4. CASE Compare(p, Last(rows).code, Last(rows).attempts, Last(rows).code) /\ rows # <<>>
    <3>1. PICK r : Become(p, r) /\ r.pc \in {"delCode", "setAttempts"}
      <4> DEFINE a == [Idle EXCEPT !.pc = "delCode", !.row = Last(rows).code]
                 b == [req[p] EXCEPT !.pc = "delCode", !.row = Last(rows).code, !.matched = TRUE]
                 d == [Idle EXCEPT !.pc = "setAttempts", !.row = Last(rows).code,
                                   !.attempts = Last(rows).attempts + 1]
      <4>1. a.pc = "delCode" /\ b.pc = "delCode" /\ d.pc = "setAttempts"
        BY <1>1, IdleFine DEF Request
      <4>2. Become(p, a) \/ Become(p, b) \/ Become(p, d)
        BY <2>4 DEF Compare
      <4> HIDE DEF a, b, d
      <4> QED BY <4>1, <4>2
    <3>2. r.pc \in VerifyLabels /\ r.pc \notin StoredLabels \cup {"resetAttempts"}
      BY <3>1 DEF VerifyLabels, StoredLabels
    <3>3. Last(rows).code \in 1..MaxCodes
      BY <2>4, LastFine DEF OInv, RowsOK
    <3>4. wrong' \in [1..MaxCodes -> 0..MaxTries] /\ req' \in [Procs -> Request]
          /\ \A c \in 1..MaxCodes : wrong[c] <= wrong'[c]
      <4>1. /\ wrong \in [1..MaxCodes -> 0..MaxTries] /\ MaxTries \in Nat
            /\ wrong' \in [1..MaxCodes -> 0..MaxTries] /\ req' \in [Procs -> Request]
        BY Bounds DEF OInv, CodesOK, RequestsOK
      <4>2. wrong' = wrong \/ wrong' = [wrong EXCEPT ![Last(rows).code] = IF @ < MaxTries THEN @ + 1 ELSE @]
        BY <2>4 DEF Compare
      <4> QED BY <3>3, <4>1, <4>2
    <3> QED BY <1>1, <2>1, <2>2, <3>1, <3>2, <3>4, TriesStep
  <2> QED BY <1>5, <2>3, <2>4 DEF FindRow
<1> QED BY <1>2, <1>3, <1>4, <1>5

\* A wrong try that was counted leads to the deletion of the code once it was the last.
LEMMA AfterCountTries ==
  ASSUME OInv, OInv', TriesOK, NEW p \in Procs, AfterCount(p),
         req[p].pc \in {"findBackup", "readRow", "writeRow"},
         UNCHANGED <<redis, mailed, wrong, overlapped>>
  PROVE  TriesOK'
<1>0. req[p].pc \in VerifyLabels /\ "delCode" \in VerifyLabels /\ "idle" \notin VerifyLabels
  BY DEF VerifyLabels
<1>1. /\ req[p].attempts \in Nat /\ MaxTries \in Nat
      /\ \A c \in 1..MaxCodes : wrong[c] \in 0..MaxTries
  <2>1. req[p].attempts \in 0..MaxTries /\ wrong \in [1..MaxCodes -> 0..MaxTries] /\ MaxTries \in Nat
    BY Bounds DEF OInv, RequestsOK, Request, CodesOK
  <2>2. 0..MaxTries \subseteq Nat
    BY <2>1
  <2> QED BY <2>1, <2>2
<1>2. CASE Finish(p)
  <2>1. \A c, tries : TryOK(Idle, c, tries)
    BY <1>0, IdleFine, NoTry
  <2> QED BY <1>0, <1>2, <2>1, IdleFine, VerifyTries DEF Finish
<1>3. CASE /\ req[p].attempts >= MaxTries
           /\ Become(p, [Idle EXCEPT !.pc = "delCode", !.row = req[p].row])
  <2> DEFINE r == [Idle EXCEPT !.pc = "delCode", !.row = req[p].row]
  <2>1. r.pc = "delCode" /\ Become(p, r)
    BY <1>3, IdleFine DEF Request
  <2> HIDE DEF r
  <2>2. ASSUME NEW c \in 1..MaxCodes, TryOK(req[p], c, wrong[c]) PROVE TryOK(r, c, wrong[c])
    <3>1. wrong[c] = MaxTries
      BY <1>1, <1>3, <2>2 DEF TryOK
    <3> QED BY <2>1, <3>1 DEF TryOK
  <2> QED BY <1>0, <2>1, <2>2, VerifyTries
<1> QED BY <1>2, <1>3 DEF AfterCount

LEMMA CountTries ==
  ASSUME OInv, OInv', TriesOK, NEW p \in Procs,
         SetAttempts(p) \/ FindBackup(p) \/ ReadRow(p) \/ WriteRow(p)
  PROVE  TriesOK'
<1>1. UNCHANGED <<mailed, wrong, overlapped>> /\ req[p] \in Request
      /\ req[p].pc \in {"setAttempts", "findBackup", "readRow", "writeRow"}
      /\ req[p].pc \in VerifyLabels
      /\ {"findBackup", "readRow", "writeRow"} \subseteq VerifyLabels
  BY DEF SetAttempts, FindBackup, ReadRow, WriteRow, history, OInv, RequestsOK, At, VerifyLabels
<1>2. ASSUME NEW r, r.attempts = req[p].attempts, r.pc \in {"findBackup", "readRow", "writeRow"},
             NEW c, NEW tries, TryOK(req[p], c, tries)
      PROVE  TryOK(r, c, tries)
  BY <1>1, <1>2 DEF TryOK
<1>3. CASE SetAttempts(p)
  <2> DEFINE r == [req[p] EXCEPT !.pc = IF req[p].row = 0 THEN "findBackup" ELSE "readRow",
                                 !.target = req[p].row]
  <2>1. r.attempts = req[p].attempts /\ r.pc \in {"findBackup", "readRow"}
    BY <1>1 DEF Request
  <2>2. /\ Become(p, r) /\ req[p].pc = "setAttempts"
        /\ redis' = [redis EXCEPT !.attempts = SetKeepTtl(@, req[p].attempts)]
    BY <1>3 DEF SetAttempts, At
  <2> HIDE DEF r
  <2>3. redis'.code = redis.code /\ redis'.attempts.val = req[p].attempts
    BY <2>2 DEF OInv, KeysOK, SetKeepTtl
  <2>4. ASSUME NEW c, NEW tries, TryOK(req[p], c, tries) PROVE req[p].attempts <= tries
    BY <2>2, <2>4 DEF TryOK
  <2> QED BY <1>1, <1>2, <2>1, <2>2, <2>3, <2>4, VerifyTries
<1>4. CASE FindBackup(p) \/ ReadRow(p) \/ WriteRow(p)
  <2>1. UNCHANGED redis /\ req[p].pc \in {"findBackup", "readRow", "writeRow"}
    BY <1>4 DEF FindBackup, ReadRow, WriteRow, At
  <2>2. CASE AfterCount(p)
    BY <1>1, <2>1, <2>2, AfterCountTries
  <2>3. CASE Become(p, [req[p] EXCEPT !.pc = "readRow", !.target = Last(rows).code])
    <3> DEFINE r == [req[p] EXCEPT !.pc = "readRow", !.target = Last(rows).code]
    <3>1. r.attempts = req[p].attempts /\ r.pc = "readRow" /\ Become(p, r)
      BY <1>1, <2>3 DEF Request
    <3> HIDE DEF r
    <3> QED BY <1>1, <1>2, <2>1, <3>1, VerifyTries
  <2>4. ASSUME NEW i \in DOMAIN rows,
               Become(p, [req[p] EXCEPT !.pc = "writeRow", !.read = rows[i].attempts])
        PROVE  TriesOK'
    <3> DEFINE r == [req[p] EXCEPT !.pc = "writeRow", !.read = rows[i].attempts]
    <3>1. r.attempts = req[p].attempts /\ r.pc = "writeRow" /\ Become(p, r)
      BY <1>1, <2>4 DEF Request
    <3> HIDE DEF r
    <3> QED BY <1>1, <1>2, <2>1, <3>1, VerifyTries
  <2> QED BY <1>4, <2>2, <2>3, <2>4 DEF FindBackup, ReadRow, WriteRow
<1> QED BY <1>3, <1>4

\* A code or a counter goes.
LEMMA DeleteTries ==
  ASSUME OInv, OInv', TriesOK, NEW p \in Procs, DelCode(p) \/ DelAttempts(p) \/ DelRow(p)
  PROVE  TriesOK'
<1>1. /\ UNCHANGED <<mailed, wrong, overlapped>> /\ req[p] \in Request
      /\ req[p].pc \in VerifyLabels /\ {"delAttempts", "delRow"} \subseteq VerifyLabels
      /\ {"delAttempts", "delRow"} \subseteq Labels /\ "idle" \notin VerifyLabels
  BY DEF DelCode, DelAttempts, DelRow, history, OInv, RequestsOK, At, VerifyLabels, Labels
<1>2. PICK r : Become(p, r) /\ r.pc \in {"delAttempts", "delRow", "idle"}
  <2>1. CASE \E l \in {"delAttempts", "delRow"} : Goto(p, l)
    <3>1. PICK l \in {"delAttempts", "delRow"} : Goto(p, l)
      BY <2>1
    <3> DEFINE r == [req[p] EXCEPT !.pc = l]
    <3>2. r.pc = l /\ Become(p, r)
      BY <1>1, <3>1, GotoFine DEF Goto
    <3> HIDE DEF r
    <3> QED BY <3>2
  <2>2. CASE Finish(p)
    BY <2>2, IdleFine DEF Finish
  <2> QED BY <2>1, <2>2 DEF DelCode, DelAttempts, DelRow
<1>3. \A c, tries : TryOK(r, c, tries)
  BY <1>2 DEF TryOK
<1>4. redis'.code.val \in {redis.code.val, 0} /\ redis'.attempts.val \in {redis.attempts.val, 0}
  BY DEF DelCode, DelAttempts, DelRow, OInv, KeysOK, Absent
<1>5. \A c \in 1..MaxCodes : wrong[c] \in Nat
  BY Bounds DEF OInv, CodesOK
<1> QED BY <1>1, <1>2, <1>3, <1>4, <1>5, VerifyTries

\* Keys and rows that expire, and steps of nobody.
LEMMA ExpiryTries ==
  ASSUME OInv, OInv', TriesOK, UNCHANGED <<mailed, wrong, overlapped, req>>,
         redis'.code.val \in {redis.code.val, 0}, redis'.attempts.val \in {redis.attempts.val, 0}
  PROVE  TriesOK'
<1>1. redis.code.val \in 0..MaxCodes /\ \A c \in 1..MaxCodes : wrong[c] \in Nat
  BY Bounds DEF OInv, CodesOK, KeysOK
<1>2. \A c : Settled(c)' <=> Settled(c)
  BY DEF Settled
<1> QED BY <1>1, <1>2, Bounds DEF TriesOK

LEMMA TriesNext == OInv /\ OInv' /\ TriesOK /\ [Next]_vars => TriesOK'
<1> SUFFICES ASSUME OInv, OInv', TriesOK, [Next]_vars PROVE TriesOK'
  OBVIOUS
<1>1. CASE UNCHANGED vars
  BY <1>1, ExpiryTries DEF vars
<1>2. ASSUME NEW p \in Procs, Continue(p) PROVE TriesOK'
  BY <1>2, GenerateTries, SetCodeTries, ResetAttemptsTries, LookTries, CountTries, DeleteTries
     DEF Continue
<1>3. ASSUME NEW p \in Procs, BeginGenerate(p) \/ Abort(p) PROVE TriesOK'
  BY <1>3, GenerateTries
<1>4. ASSUME NEW p \in Procs, NEW c \in {0} \cup mailed, BeginVerify(p, c) PROVE TriesOK'
  BY <1>4, BeginVerifyTries
<1>5. ASSUME NEW k \in DOMAIN redis, KeyExpires(k) PROVE TriesOK'
  <2>1. redis'.code.val \in {redis.code.val, 0} /\ redis'.attempts.val \in {redis.attempts.val, 0}
        /\ UNCHANGED <<mailed, wrong, overlapped, req>>
    BY <1>5 DEF KeyExpires, history, OInv, KeysOK, Absent
  <2> QED BY <2>1, ExpiryTries
<1>6. ASSUME NEW i \in DOMAIN rows, RowExpires(i) PROVE TriesOK'
  BY <1>6, ExpiryTries DEF RowExpires, history
<1> QED BY <1>1, <1>2, <1>3, <1>4, <1>5, <1>6 DEF Next

\* invalidateOtp deletes a code after MaxTries tries of that code or after a match: the
\* counter that verifyOtp reads next to the code is the code's own, unless a verification
\* was in flight while generateOtp stored the two.
THEOREM TriesAreKept == Spec => NoEarlyInvalidation
<1>1. Init => TriesOK
  BY DEF Init, NoKeys, Absent, TriesOK
<1>2. ASSUME OInv, TriesOK, NEW p \in Procs, At(p, "delCode"), redis.code.val \in mailed \ overlapped
      PROVE  \/ wrong[redis.code.val] = MaxTries
             \/ req[p].matched /\ req[p].code = redis.code.val
  <2>1. redis.code.val # 0 /\ Settled(redis.code.val)
    BY <1>2 DEF OInv, CodesOK, Settled
  <2> QED BY <1>2, <2>1 DEF TriesOK, TryOK, At
<1>3. OInv /\ TriesOK /\ [Next]_vars =>
        [\A p \in Procs :
           LET c == redis.code.val IN
           At(p, "delCode") /\ DelCode(p) /\ c \in mailed \ overlapped =>
             \/ wrong[c] = MaxTries
             \/ req[p].matched /\ req[p].code = c]_vars
  BY <1>2
<1> QED BY <1>1, <1>3, OtpInvariance, TriesNext, PTL DEF Spec, NoEarlyInvalidation
=============================================================================
