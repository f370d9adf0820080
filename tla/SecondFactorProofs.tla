------------------------- MODULE SecondFactorProofs -------------------------
(***************************************************************************)
(* What was spent grants nothing, an enabled factor has codes, and one     *)
(* factor is enabled beside the other, for any number of requests, secrets, *)
(* recovery codes and temporary tokens.                                    *)
(***************************************************************************)
EXTENDS SecondFactor, FiniteSetTheorems, TLAPS

BatchWhys == {"enableTotp", "enableEmail", "rotate"}
CheckLabels == {"settings", "otp", "findCodes", "markCode"}
SaveLabels == {"delCodes", "insertCodes"}
BeforeLabels == {"getTemp", "enabled?", "settings", "otp", "findCodes"}

\* Which operation is at which label.
WhyOK(r) ==
  /\ r.why \in {"none", "login", "verify", "disable"} \cup BatchWhys
  /\ r.pc = "idle" => r.why = "none"
  /\ r.pc = "getTemp" => r.why = "verify"
  /\ r.pc = "enabled?" => r.why = "disable"
  /\ r.pc = "getSetup" => r.why = "enableTotp"
  /\ r.pc \in {"readMfa", "setTemp"} => r.why = "login"
  /\ r.pc \in CheckLabels => r.why \in {"verify", "disable", "rotate"}
  /\ r.pc \in {"findRow", "writeRow"} => r.why \in {"enableTotp", "enableEmail", "disable"}
  /\ r.pc = "delCodes" => r.why \in BatchWhys \cup {"disable"}
  /\ r.pc = "insertCodes" => r.why \in BatchWhys

\* What a request presents: a code that had ended, or a token that is gone, stays so.
PresentOK(r, cs, ts, lastT, lastB) ==
  /\ r.code.kind = "recovery" => r.code.of \in 1..lastB
  /\ r.temp <= lastT
  /\ r.ended \subseteq 1..lastB
  /\ r.pc = "insertCodes" => \A b \in r.ended : cs[b] = "none"
  /\ r.late => r.pc \in BeforeLabels
  /\ r.late => \/ r.pc = "getTemp" /\ r.temp \notin ts
               \/ r.code.kind = "recovery" /\ cs[r.code.of] # "unused"

\* What it knows of the row: its copy is the row, unless another write came between.
CopyOK(r, row) ==
  /\ r.copy.totp => r.copy.there /\ r.copy.secret # 0
  /\ r.why = "enableTotp" /\ r.pc \in {"findRow", "writeRow"} => r.secret # 0
  /\ r.pc = "writeRow" /\ ~r.stale => r.copy = row
  /\ r.pc = "delCodes" /\ r.why = "disable" /\ ~r.crossed => ~row.totp

RequestsOK ==
  /\ req \in [Procs -> Request]
  /\ \A p \in Procs : /\ WhyOK(req[p])
                      /\ PresentOK(req[p], codes, temps, lastTemp, lastBatch)
                      /\ CopyOK(req[p], settings)

KeysOK ==
  /\ ops \in Mixes
  /\ lastSecret \in 0..MaxSecrets /\ lastTemp \in Nat /\ setup \in 0..lastSecret
  /\ temps \subseteq 1..lastTemp /\ mailed \in BOOLEAN /\ deaths \in 0..MaxDeaths

SettingsOK == settings \in Settings /\ (settings.totp => settings.there /\ settings.secret # 0)

BatchesOK ==
  /\ codes \in [1..MaxBatches -> RecoveryCode] /\ lastBatch \in Nat /\ torn \in BOOLEAN
  /\ \A b \in 1..MaxBatches : codes[b] # "none" => b <= lastBatch
  /\ dead \subseteq 1..lastBatch /\ \A b \in dead : codes[b] = "none"

\* There is a batch for every save under way, and a token for every login.
CountsOK ==
  /\ lastBatch + InFlight(BatchWhys) <= MaxBatches
  /\ lastTemp + InFlight({"login"}) <= MaxTemps

SInv == RequestsOK /\ KeysOK /\ SettingsOK /\ BatchesOK /\ CountsOK /\ EnabledHasCodes

-----------------------------------------------------------------------------
(* The counts.                                                             *)

\* The constants, as the proofs use them.
LEMMA Bounds ==
  MaxSecrets \in Nat /\ MaxBatches \in Nat /\ MaxTemps \in Nat /\ MaxDeaths \in Nat
BY BoundAssumption

\* The number of requests of some operations changes with the one request that moves.
LEMMA InFlightFine ==
  ASSUME NEW whys
  PROVE  InFlight(whys) \in Nat /\ InFlight(whys) <= Cardinality(Procs) /\ Cardinality(Procs) \in Nat
         /\ \A p \in Procs : req[p].why \in whys => InFlight(whys) >= 1
<1> DEFINE S == {p \in Procs : req[p].why \in whys}
<1>1. S \in SUBSET Procs /\ IsFiniteSet(S) /\ Cardinality(S) <= Cardinality(Procs)
  BY ProcsAssumption, FS_Subset
<1>2. Cardinality(S) \in Nat /\ Cardinality(Procs) \in Nat
  BY <1>1, ProcsAssumption, FS_CardinalityType
<1>3. Cardinality(S) = 0 => S = {}
  BY <1>1, FS_EmptySet
<1>4. \A p \in Procs : req[p].why \in whys => p \in S
  OBVIOUS
<1>5. InFlight(whys) = Cardinality(S)
  BY DEF InFlight
<1> HIDE DEF S
<1>6. ASSUME NEW p \in Procs, req[p].why \in whys PROVE Cardinality(S) >= 1
  <2>1. Cardinality(S) # 0
    BY <1>3, <1>4, <1>6
  <2> QED BY <1>2, <2>1
<1> QED BY <1>1, <1>2, <1>5, <1>6

LEMMA InFlightStep ==
  ASSUME NEW whys, NEW p \in Procs, \A q \in Procs \ {p} : req'[q].why = req[q].why
  PROVE  /\ InFlight(whys) \in Nat /\ InFlight(whys)' <= Cardinality(Procs)
         /\ (req'[p].why \in whys <=> req[p].why \in whys) => InFlight(whys)' = InFlight(whys)
         /\ req'[p].why \in whys /\ req[p].why \notin whys => InFlight(whys)' = InFlight(whys) + 1
         /\ req'[p].why \notin whys /\ req[p].why \in whys => InFlight(whys)' = InFlight(whys) - 1
<1> DEFINE S == {q \in Procs : req[q].why \in whys}
           T == {q \in Procs : req'[q].why \in whys}
<1>1. IsFiniteSet(S) /\ Cardinality(S) \in Nat /\ Cardinality(T) <= Cardinality(Procs)
  BY ProcsAssumption, FS_Subset, FS_CardinalityType
<1>2. CASE req'[p].why \in whys
  <2>1. T = S \cup {p}
    BY <1>2
  <2>2. p \in S <=> req[p].why \in whys
    OBVIOUS
  <2> HIDE DEF S, T
  <2>3. Cardinality(T) = IF p \in S THEN Cardinality(S) ELSE Cardinality(S) + 1
    BY <1>1, <2>1, FS_AddElement
  <2> QED BY <1>1, <1>2, <2>2, <2>3 DEF InFlight, S, T
<1>3. CASE req'[p].why \notin whys
  <2>1. T = S \ {p}
    BY <1>3
  <2>2. p \in S <=> req[p].why \in whys
    OBVIOUS
  <2> HIDE DEF S, T
  <2>3. Cardinality(T) = IF p \in S THEN Cardinality(S) - 1 ELSE Cardinality(S)
    BY <1>1, <2>1, FS_RemoveElement
  <2> QED BY <1>1, <1>3, <2>2, <2>3 DEF InFlight, S, T
<1> QED BY <1>2, <1>3

LEMMA NumbersFine ==
  ASSUME SInv
  PROVE  /\ lastBatch \in 0..MaxBatches /\ lastTemp \in 0..MaxTemps
         /\ \A p \in Procs : /\ req[p].why \in BatchWhys => lastBatch + 1 \in 1..MaxBatches
                             /\ req[p].why = "login" => lastTemp + 1 \in 1..MaxTemps
<1>1. /\ InFlight(BatchWhys) \in Nat /\ InFlight({"login"}) \in Nat
      /\ lastBatch \in Nat /\ lastTemp \in Nat
  BY InFlightFine DEF SInv, BatchesOK, KeysOK
<1>2. \A p \in Procs : /\ req[p].why \in BatchWhys => InFlight(BatchWhys) >= 1
                       /\ req[p].why = "login" => InFlight({"login"}) >= 1
  BY InFlightFine
<1> QED BY <1>1, <1>2, Bounds DEF SInv, CountsOK

\* A request that moves and begins neither a save nor a login.
LEMMA CountsKept ==
  ASSUME SInv, NEW p \in Procs, \A q \in Procs \ {p} : req'[q].why = req[q].why,
         UNCHANGED <<lastBatch, lastTemp>>, req'[p].why \in {req[p].why, "none", "verify", "disable"}
  PROVE  CountsOK'
<1>0. /\ "none" \notin BatchWhys /\ "verify" \notin BatchWhys /\ "disable" \notin BatchWhys
      /\ "none" \notin {"login"} /\ "verify" \notin {"login"} /\ "disable" \notin {"login"}
  BY DEF BatchWhys
<1>1. InFlight(BatchWhys)' <= InFlight(BatchWhys) /\ InFlight(BatchWhys)' \in Int /\ InFlight(BatchWhys) \in Nat
  <2>1. \/ req'[p].why \in BatchWhys <=> req[p].why \in BatchWhys
        \/ req'[p].why \notin BatchWhys /\ req[p].why \in BatchWhys
    BY <1>0
  <2> QED BY <2>1, InFlightStep, InFlightFine
<1>2. InFlight({"login"})' <= InFlight({"login"}) /\ InFlight({"login"})' \in Int
      /\ InFlight({"login"}) \in Nat
  BY <1>0, InFlightStep, InFlightFine
<1> QED BY <1>1, <1>2, Bounds DEF SInv, CountsOK, BatchesOK, KeysOK

\* A save or a login begins.
LEMMA CountsRise ==
  ASSUME SInv, NEW p \in Procs, \A q \in Procs \ {p} : req'[q].why = req[q].why,
         UNCHANGED <<lastBatch, lastTemp>>, req[p].why = "none",
         \/ req'[p].why \in BatchWhys /\ BatchLeft
         \/ req'[p].why = "login" /\ TempLeft
  PROVE  CountsOK'
<1>0. "none" \notin BatchWhys /\ "none" \notin {"login"} /\ "login" \notin BatchWhys
      /\ \A w \in BatchWhys : w \notin {"login"}
  BY DEF BatchWhys
<1>1. InFlight(BatchWhys) \in Nat /\ InFlight({"login"}) \in Nat /\ lastBatch \in Nat /\ lastTemp \in Nat
  BY InFlightFine DEF SInv, BatchesOK, KeysOK
<1>2. CASE req'[p].why \in BatchWhys /\ BatchLeft
  <2>1. InFlight(BatchWhys)' = InFlight(BatchWhys) + 1
    BY <1>0, <1>2, InFlightStep
  <2>2. InFlight({"login"})' = InFlight({"login"})
    BY <1>0, <1>2, InFlightStep
  <2>3. lastBatch + InFlight(BatchWhys) < MaxBatches
    BY <1>2 DEF BatchLeft, BatchWhys
  <2> QED BY <1>1, <2>1, <2>2, <2>3, Bounds DEF SInv, CountsOK
<1>3. CASE req'[p].why = "login" /\ TempLeft
  <2>1. InFlight(BatchWhys)' = InFlight(BatchWhys)
    BY <1>0, <1>3, InFlightStep
  <2>2. InFlight({"login"})' = InFlight({"login"}) + 1
    BY <1>0, <1>3, InFlightStep
  <2>3. lastTemp + InFlight({"login"}) < MaxTemps
    BY <1>3 DEF TempLeft
  <2> QED BY <1>1, <2>1, <2>2, <2>3, Bounds DEF SInv, CountsOK
<1> QED BY <1>2, <1>3

\* A batch or a token is stored.
LEMMA CountsFall ==
  ASSUME SInv, NEW p \in Procs, \A q \in Procs \ {p} : req'[q].why = req[q].why,
         req'[p].why = "none",
         \/ req[p].why \in BatchWhys /\ lastBatch' = lastBatch + 1 /\ lastTemp' = lastTemp
         \/ req[p].why = "login" /\ lastBatch' = lastBatch /\ lastTemp' = lastTemp + 1
  PROVE  CountsOK'
<1>0. "none" \notin BatchWhys /\ "none" \notin {"login"} /\ "login" \notin BatchWhys
      /\ \A w \in BatchWhys : w \notin {"login"}
  BY DEF BatchWhys
<1>1. InFlight(BatchWhys) \in Nat /\ InFlight({"login"}) \in Nat /\ lastBatch \in Nat /\ lastTemp \in Nat
  BY InFlightFine DEF SInv, BatchesOK, KeysOK
<1>2. CASE req[p].why \in BatchWhys /\ lastBatch' = lastBatch + 1 /\ lastTemp' = lastTemp
  <2>1. InFlight(BatchWhys)' = InFlight(BatchWhys) - 1
    BY <1>0, <1>2, InFlightStep
  <2>2. InFlight({"login"})' = InFlight({"login"})
    BY <1>0, <1>2, InFlightStep
  <2> QED BY <1>1, <1>2, <2>1, <2>2, Bounds DEF SInv, CountsOK
<1>3. CASE req[p].why = "login" /\ lastBatch' = lastBatch /\ lastTemp' = lastTemp + 1
  <2>1. InFlight(BatchWhys)' = InFlight(BatchWhys)
    BY <1>0, <1>3, InFlightStep
  <2>2. InFlight({"login"})' = InFlight({"login"}) - 1
    BY <1>0, <1>3, InFlightStep
  <2> QED BY <1>1, <1>3, <2>1, <2>2, Bounds DEF SInv, CountsOK
<1> QED BY <1>2, <1>3

-----------------------------------------------------------------------------
(* What a step does to the requests.                                       *)

Knows(r, cs, ts, lastT, lastB, row) ==
  WhyOK(r) /\ PresentOK(r, cs, ts, lastT, lastB) /\ CopyOK(r, row)

\* A request that is not in flight knows nothing.
LEMMA IdleFine ==
  /\ Idle \in Request /\ Idle.pc = "idle" /\ Idle.why = "none" /\ Idle.temp = 0
  /\ Idle.code = Wrong /\ Wrong \in Code /\ Idle.secret = 0 /\ Idle.ended = {} /\ ~Idle.copy.totp
  /\ ~Idle.late
  /\ \A cs, ts, row : \A lastT, lastB \in Nat : Knows(Idle, cs, ts, lastT, lastB, row)
BY Bounds DEF Idle, Request, Labels, Code, Wrong, Settings, NoSettings, AllOps, Knows, WhyOK,
   PresentOK, CopyOK, CheckLabels

\* A request goes on with what it has.
LEMMA GotoFine ==
  ASSUME NEW c \in Request, NEW l \in Labels
  PROVE  LET r == [c EXCEPT !.pc = l]
         IN  /\ r \in Request /\ r.pc = l /\ r.why = c.why /\ r.temp = c.temp /\ r.code = c.code
             /\ r.secret = c.secret /\ r.copy = c.copy /\ r.ended = c.ended
             /\ r.late <=> c.late
             /\ r.stale <=> c.stale
             /\ r.crossed <=> c.crossed
BY DEF Request

\* Codes and tokens are not given back.
Monotone ==
  /\ lastTemp \in Nat /\ lastTemp' \in Nat /\ lastTemp <= lastTemp'
  /\ lastBatch \in Nat /\ lastBatch' \in Nat /\ lastBatch <= lastBatch'
  /\ \A b \in 1..lastBatch : /\ codes[b] = "none" => codes'[b] = "none"
                             /\ codes[b] # "unused" => codes'[b] # "unused"
  /\ \A t \in Nat : t <= lastTemp /\ t \notin temps => t \notin temps'

LEMMA QuietMonotone ==
  ASSUME SInv, UNCHANGED <<codes, lastBatch, lastTemp>>, temps' \subseteq temps PROVE Monotone
BY DEF SInv, KeysOK, BatchesOK, Monotone

\* One request moves; the others keep what they know.
LEMMA RequestStep ==
  ASSUME RequestsOK, NEW p \in Procs, NEW r \in Request, Monotone,
         Knows(r, codes', temps', lastTemp', lastBatch', settings'),
         \/ Become(p, r) /\ settings' = settings
         \/ Cross(p, r)
  PROVE  /\ RequestsOK' /\ req'[p] = r
         /\ \A q \in Procs \ {p} : req'[q].pc = req[q].pc /\ req'[q].why = req[q].why
<1>1. ASSUME NEW c \in Request, Knows(c, codes, temps, lastTemp, lastBatch, settings)
      PROVE  WhyOK(c) /\ PresentOK(c, codes', temps', lastTemp', lastBatch')
  <2>1. c.temp \in Nat /\ c.ended \in SUBSET (1..MaxBatches) /\ 1..lastBatch \subseteq 1..lastBatch'
    BY Bounds DEF Request, Monotone
  <2>2. c.code.kind = "recovery" => c.code.of \in 1..lastBatch'
    BY <1>1, <2>1 DEF Knows, PresentOK
  <2>3. c.temp <= lastTemp' /\ c.ended \subseteq 1..lastBatch'
    BY <1>1, <2>1 DEF Knows, PresentOK, Monotone
  <2>4. c.pc = "insertCodes" => \A b \in c.ended : codes'[b] = "none"
    BY <1>1 DEF Knows, PresentOK, Monotone
  <2>5. c.late => \/ c.pc = "getTemp" /\ c.temp \notin temps'
                  \/ c.code.kind = "recovery" /\ codes'[c.code.of] # "unused"
    BY <1>1, <2>1 DEF Knows, PresentOK, Monotone
  <2> QED BY <1>1, <2>2, <2>3, <2>4, <2>5 DEF Knows, PresentOK
<1>2. \A q \in Procs : req[q] \in Request /\ Knows(req[q], codes, temps, lastTemp, lastBatch, settings)
  BY DEF RequestsOK, Knows
<1>3. CASE Become(p, r) /\ settings' = settings
  BY <1>1, <1>2, <1>3 DEF RequestsOK, Become, Knows
<1>4. CASE Cross(p, r)
  <2>1. ASSUME NEW q \in Procs, q # p
        PROVE  /\ req'[q] \in Request /\ req'[q].pc = req[q].pc /\ req'[q].why = req[q].why
               /\ WhyOK(req'[q]) /\ PresentOK(req'[q], codes', temps', lastTemp', lastBatch')
               /\ CopyOK(req'[q], settings')
    <3> DEFINE b == req[q].stale \/ req[q].pc = "writeRow"
               d == req[q].crossed \/ req[q].pc \in {"delCodes", "insertCodes"}
               c == [req[q] EXCEPT !.stale = b, !.crossed = d]
    <3>1. req'[q] = c
      BY <1>4, <2>1 DEF Cross
    <3>2. b \in BOOLEAN /\ d \in BOOLEAN
      BY <1>2 DEF Request
    <3>3. /\ c \in Request /\ c.pc = req[q].pc /\ c.why = req[q].why /\ c.temp = req[q].temp
          /\ c.code = req[q].code /\ c.secret = req[q].secret /\ c.copy = req[q].copy
          /\ c.ended = req[q].ended
      BY <1>2, <3>2 DEF Request
    <3>4. /\ c.late <=> req[q].late
          /\ c.stale <=> b
          /\ c.crossed <=> d
      BY <1>2, <3>2 DEF Request
    <3> HIDE DEF c
    <3>5. WhyOK(c) /\ PresentOK(c, codes, temps, lastTemp, lastBatch)
      BY <1>2, <3>3, <3>4 DEF Knows, WhyOK, PresentOK
    <3>6. CopyOK(c, settings) /\ CopyOK(c, settings')
      BY <1>2, <3>3, <3>4 DEF Knows, CopyOK
    <3>7. PresentOK(c, codes', temps', lastTemp', lastBatch')
      BY <1>1, <3>3, <3>5, <3>6 DEF Knows
    <3> QED BY <3>1, <3>3, <3>5, <3>6, <3>7
  <2>2. req'[p] = r
    BY <1>4 DEF Cross
  <2>3. req' \in [Procs -> Request]
    <3>1. req' = [q \in Procs |-> req'[q]]
      BY <1>4 DEF Cross
    <3> QED BY <2>1, <2>2, <3>1
  <2> QED BY <2>1, <2>2, <2>3 DEF RequestsOK, Knows
<1> QED BY <1>3, <1>4

\* A step that moves one request and writes no row: it was not saving codes.
LEMMA Quiet ==
  ASSUME SInv, NEW p \in Procs, NEW r \in Request, Become(p, r),
         Knows(r, codes, temps', lastTemp, lastBatch, settings),
         UNCHANGED <<settings, codes, lastBatch, dead, torn, lastTemp>>, temps' \subseteq temps,
         KeysOK', req[p].pc \notin SaveLabels,
         \/ r.why \in {req[p].why, "none", "verify", "disable"}
         \/ req[p].why = "none" /\ r.why \in BatchWhys /\ BatchLeft
         \/ req[p].why = "none" /\ r.why = "login" /\ TempLeft
  PROVE  SInv'
<1>1. Monotone
  BY QuietMonotone
<1>2. /\ RequestsOK' /\ req'[p] = r
      /\ \A q \in Procs \ {p} : req'[q].pc = req[q].pc /\ req'[q].why = req[q].why
  BY <1>1, RequestStep DEF SInv
<1>3. CountsOK'
  BY <1>2, CountsKept, CountsRise
<1>4. EnabledHasCodes'
  <2>1. \A q \in Procs : req[q].pc \in SaveLabels => req'[q].pc \in SaveLabels
    BY <1>2
  <2> QED BY <2>1 DEF SInv, EnabledHasCodes, Stored, SaveLabels
<1> QED BY <1>2, <1>3, <1>4 DEF SInv, SettingsOK, BatchesOK

\* A request ends, or dies, without having begun to save codes.
LEMMA QuietFinish ==
  ASSUME SInv, NEW p \in Procs, Finish(p), req[p].pc \notin SaveLabels,
         UNCHANGED <<settings, codes, lastBatch, dead, torn, lastTemp>>, temps' \subseteq temps,
         KeysOK'
  PROVE  SInv'
<1>1. lastTemp \in Nat /\ lastBatch \in Nat
  BY DEF SInv, KeysOK, BatchesOK
<1> QED BY <1>1, IdleFine, Quiet DEF Finish

\* A request passes on what it has to a label that asks no more of it.
LEMMA QuietGoto ==
  ASSUME SInv, NEW p \in Procs, NEW l \in Labels, Goto(p, l),
         UNCHANGED <<settings, codes, lastBatch, dead, torn, temps, lastTemp>>, KeysOK',
         \/ req[p].pc = "readMfa" /\ l = "setTemp"
         \/ req[p].pc = "getTemp" /\ l = "settings" /\ req[p].temp \in temps
         \/ req[p].pc = "enabled?" /\ l = "settings"
         \/ req[p].pc = "settings" /\ l = "otp"
         \/ req[p].pc = "otp" /\ l = "findCodes"
         \/ req[p].pc = "findCodes" /\ l = "markCode" /\ ~req[p].late
  PROVE  SInv'
<1> DEFINE r == [req[p] EXCEPT !.pc = l]
<1>1. req[p] \in Request /\ Knows(req[p], codes, temps, lastTemp, lastBatch, settings)
  BY DEF SInv, RequestsOK, Knows
<1>2. /\ r \in Request /\ r.pc = l /\ r.why = req[p].why /\ r.temp = req[p].temp
      /\ r.code = req[p].code /\ r.secret = req[p].secret /\ r.copy = req[p].copy
      /\ r.ended = req[p].ended
      /\ r.late <=> req[p].late
  BY <1>1, GotoFine
<1>3. Become(p, r)
  BY DEF Goto
<1> HIDE DEF r
<1>4. WhyOK(r)
  BY <1>1, <1>2 DEF Knows, WhyOK, CheckLabels
<1>5. PresentOK(r, codes, temps, lastTemp, lastBatch)
  BY <1>1, <1>2 DEF Knows, PresentOK, BeforeLabels
<1>6. CopyOK(r, settings)
  BY <1>1, <1>2 DEF Knows, CopyOK
<1>7. req[p].pc \notin SaveLabels
  BY DEF SaveLabels
<1> QED BY <1>2, <1>3, <1>4, <1>5, <1>6, <1>7, Quiet DEF Knows

\* What verifyMfaToken accepted goes on, whatever becomes of the codes.
LEMMA VerifiedFine ==
  ASSUME SInv, NEW p \in Procs, req[p].pc \in {"settings", "otp", "markCode"}, ~req[p].late
  PROVE  LET r == [req[p] EXCEPT !.pc = AfterVerified[req[p].why]]
         IN  /\ r \in Request /\ r.why = req[p].why /\ r.pc \in {"delTemp", "findRow", "delCodes"}
             /\ \A cs : Knows(r, cs, temps, lastTemp, lastBatch, settings)
<1> DEFINE l == AfterVerified[req[p].why]
           r == [req[p] EXCEPT !.pc = l]
<1>1. req[p] \in Request /\ Knows(req[p], codes, temps, lastTemp, lastBatch, settings)
  BY DEF SInv, RequestsOK, Knows
<1>2. req[p].why \in {"verify", "disable", "rotate"}
  BY <1>1 DEF Knows, WhyOK, CheckLabels
<1>3. /\ req[p].why = "verify" => l = "delTemp"
      /\ req[p].why = "disable" => l = "findRow"
      /\ req[p].why = "rotate" => l = "delCodes"
  BY DEF AfterVerified
<1>4. l \in Labels /\ l \in {"delTemp", "findRow", "delCodes"}
  BY <1>2, <1>3 DEF Labels
<1> HIDE DEF l
<1>5. /\ r \in Request /\ r.pc = l /\ r.why = req[p].why /\ r.temp = req[p].temp
      /\ r.code = req[p].code /\ r.secret = req[p].secret /\ r.copy = req[p].copy
      /\ r.ended = req[p].ended
      /\ r.late <=> req[p].late
  BY <1>1, <1>4, GotoFine
<1> HIDE DEF r
<1>6. WhyOK(r)
  BY <1>2, <1>3, <1>4, <1>5 DEF WhyOK, CheckLabels, BatchWhys
<1>7. CopyOK(r, settings)
  BY <1>1, <1>2, <1>3, <1>4, <1>5 DEF Knows, CopyOK
<1>8. \A cs : PresentOK(r, cs, temps, lastTemp, lastBatch)
  BY <1>1, <1>4, <1>5 DEF Knows, PresentOK
<1> QED BY <1>4, <1>5, <1>6, <1>7, <1>8 DEF Knows, r, l

LEMMA QuietVerified ==
  ASSUME SInv, NEW p \in Procs, req[p].pc \in {"settings", "otp"}, ~req[p].late, Verified(p),
         UNCHANGED <<settings, codes, lastBatch, dead, torn, temps, lastTemp>>, KeysOK'
  PROVE  SInv'
<1> DEFINE r == [req[p] EXCEPT !.pc = AfterVerified[req[p].why]]
<1>1. /\ r \in Request /\ r.why = req[p].why
      /\ \A cs : Knows(r, cs, temps, lastTemp, lastBatch, settings)
  BY VerifiedFine
<1>2. Become(p, r) /\ req[p].pc \notin SaveLabels
  BY DEF Verified, Goto, SaveLabels
<1> HIDE DEF r
<1> QED BY <1>1, <1>2, Quiet

LEMMA Checks ==
  ASSUME SInv, NEW p \in Procs,
         ReadMfa(p) \/ GetTemp(p) \/ ReadSettings(p) \/ TryOtp(p) \/ FindCodes(p) \/ CheckEnabled(p)
  PROVE  SInv'
<1>1. /\ UNCHANGED <<settings, codes, lastBatch, dead, torn, temps, lastTemp>>
      /\ req[p].pc \notin SaveLabels
  BY DEF ReadMfa, GetTemp, ReadSettings, TryOtp, FindCodes, CheckEnabled, At, SaveLabels, batches, keys
<1>2. KeysOK'
  <2>1. UNCHANGED <<ops, lastSecret, setup, deaths>> /\ mailed' \in {mailed, FALSE}
    BY DEF ReadMfa, GetTemp, ReadSettings, TryOtp, FindCodes, CheckEnabled, keys, bounds
  <2> QED BY <1>1, <2>1 DEF SInv, KeysOK
<1>3. req[p] \in Request /\ PresentOK(req[p], codes, temps, lastTemp, lastBatch)
  BY DEF SInv, RequestsOK
<1>4. {"setTemp", "settings", "otp", "findCodes", "markCode"} \subseteq Labels
  BY DEF Labels
<1>5. CASE Finish(p)
  BY <1>1, <1>2, <1>5, QuietFinish
<1>6. CASE ReadMfa(p) /\ Goto(p, "setTemp")
  BY <1>1, <1>2, <1>4, <1>6, QuietGoto DEF ReadMfa, At
<1>7. CASE GetTemp(p) /\ req[p].temp \in temps /\ Goto(p, "settings")
  BY <1>1, <1>2, <1>4, <1>7, QuietGoto DEF GetTemp, At
<1>8. CASE CheckEnabled(p) /\ Goto(p, "settings")
  BY <1>1, <1>2, <1>4, <1>8, QuietGoto DEF CheckEnabled, At
<1>9. CASE ReadSettings(p) /\ Goto(p, "otp")
  BY <1>1, <1>2, <1>4, <1>9, QuietGoto DEF ReadSettings, At
<1>10. CASE ReadSettings(p) /\ VerifyToken(settings.secret, req[p].code) /\ Verified(p)
  <2>1. ~req[p].late
    BY <1>3, <1>10 DEF ReadSettings, At, VerifyToken, PresentOK
  <2> QED BY <1>1, <1>2, <1>10, <2>1, QuietVerified DEF ReadSettings, At
<1>11. CASE TryOtp(p) /\ req[p].code.kind = "mail" /\ Verified(p)
  <2>1. ~req[p].late
    BY <1>3, <1>11 DEF TryOtp, At, PresentOK
  <2> QED BY <1>1, <1>2, <1>11, <2>1, QuietVerified DEF TryOtp, At
<1>12. CASE TryOtp(p) /\ Goto(p, "findCodes")
  BY <1>1, <1>2, <1>4, <1>12, QuietGoto DEF TryOtp, At
<1>13. CASE FindCodes(p) /\ Accepts(req[p].code) /\ Goto(p, "markCode")
  <2>1. ~req[p].late
    BY <1>3, <1>13 DEF FindCodes, At, Accepts, PresentOK
  <2> QED BY <1>1, <1>2, <1>4, <1>13, <2>1, QuietGoto DEF FindCodes, At
<1> QED BY <1>5, <1>6, <1>7, <1>8, <1>9, <1>10, <1>11, <1>12, <1>13
        DEF ReadMfa, GetTemp, ReadSettings, TryOtp, FindCodes, CheckEnabled

-----------------------------------------------------------------------------
(* Tokens and secrets.                                                     *)

LEMMA TokenSteps ==
  ASSUME SInv, NEW p \in Procs, DelTemp(p) \/ DelSetup(p) PROVE SInv'
<1>1. /\ UNCHANGED <<settings, codes, lastBatch, dead, torn, lastTemp>> /\ Finish(p)
      /\ temps' \subseteq temps /\ req[p].pc \notin SaveLabels
  BY DEF DelTemp, DelSetup, At, SaveLabels, batches
<1>2. KeysOK'
  <2>1. UNCHANGED <<ops, deaths, lastSecret, mailed>> /\ setup' \in {setup, 0}
    BY DEF DelTemp, DelSetup, bounds
  <2>2. lastSecret \in Nat
    BY Bounds DEF SInv, KeysOK
  <2> QED BY <1>1, <2>1, <2>2 DEF SInv, KeysOK
<1> QED BY <1>1, <1>2, QuietFinish

\* What upsertSettings reads is the row.
LEMMA FindRowFine == ASSUME SInv, NEW p \in Procs, FindRow(p) PROVE SInv'
<1> DEFINE r == [req[p] EXCEPT !.pc = "writeRow", !.copy = settings, !.stale = FALSE]
<1>1. /\ At(p, "findRow") /\ Become(p, r)
      /\ UNCHANGED <<settings, codes, lastBatch, dead, torn, temps, lastTemp>>
      /\ UNCHANGED <<ops, lastSecret, setup, mailed, deaths>>
  BY DEF FindRow, batches, keys, bounds
<1>2. /\ req[p] \in Request /\ Knows(req[p], codes, temps, lastTemp, lastBatch, settings)
      /\ SettingsOK /\ "writeRow" \in Labels
  BY DEF SInv, RequestsOK, Knows, Labels
<1>3. /\ r \in Request /\ r.pc = "writeRow" /\ r.why = req[p].why /\ r.temp = req[p].temp
      /\ r.code = req[p].code /\ r.secret = req[p].secret /\ r.copy = settings
      /\ r.ended = req[p].ended
  BY <1>2 DEF Request, SettingsOK
<1>4. r.late <=> req[p].late
  BY <1>2 DEF Request
<1> HIDE DEF r
<1>5. WhyOK(r) /\ PresentOK(r, codes, temps, lastTemp, lastBatch) /\ CopyOK(r, settings)
  BY <1>1, <1>2, <1>3, <1>4 DEF Knows, WhyOK, PresentOK, CopyOK, At, CheckLabels, BeforeLabels,
     SettingsOK
<1>6. KeysOK' /\ req[p].pc \notin SaveLabels
  BY <1>1 DEF SInv, KeysOK, At, SaveLabels
<1> QED BY <1>1, <1>3, <1>5, <1>6, Quiet DEF Knows

LEMMA GetSetupFine == ASSUME SInv, NEW p \in Procs, GetSetup(p) PROVE SInv'
<1> DEFINE r == [req[p] EXCEPT !.pc = "findRow", !.secret = setup]
<1>1. /\ At(p, "getSetup") /\ ((setup # 0 /\ Become(p, r)) \/ Finish(p))
      /\ UNCHANGED <<settings, codes, lastBatch, dead, torn, temps, lastTemp>>
      /\ UNCHANGED <<ops, lastSecret, setup, mailed, deaths>>
  BY DEF GetSetup, batches, keys, bounds
<1>2. /\ req[p] \in Request /\ Knows(req[p], codes, temps, lastTemp, lastBatch, settings)
      /\ setup \in 0..MaxSecrets /\ "findRow" \in Labels
  BY Bounds DEF SInv, RequestsOK, Knows, Labels, KeysOK
<1>3. KeysOK' /\ req[p].pc \notin SaveLabels
  BY <1>1 DEF SInv, KeysOK, At, SaveLabels
<1>4. CASE Finish(p)
  BY <1>1, <1>3, <1>4, QuietFinish
<1>5. CASE setup # 0 /\ Become(p, r)
  <2>1. /\ r \in Request /\ r.pc = "findRow" /\ r.why = req[p].why /\ r.temp = req[p].temp
        /\ r.code = req[p].code /\ r.secret = setup /\ r.copy = req[p].copy /\ r.ended = req[p].ended
    BY <1>2 DEF Request
  <2>2. r.late <=> req[p].late
    BY <1>2 DEF Request
  <2>3. Become(p, r)
    BY <1>5
  <2> HIDE DEF r
  <2>4. WhyOK(r)
    BY <1>1, <1>2, <2>1 DEF Knows, WhyOK, At, CheckLabels, BatchWhys
  <2>5. ~r.late
    BY <1>1, <1>2, <2>2 DEF Knows, PresentOK, At, BeforeLabels
  <2>6. PresentOK(r, codes, temps, lastTemp, lastBatch) /\ CopyOK(r, settings)
    BY <1>2, <1>5, <2>1, <2>5 DEF Knows, PresentOK, CopyOK
  <2> QED BY <1>1, <1>3, <2>1, <2>3, <2>4, <2>6, Quiet DEF Knows
<1> QED BY <1>1, <1>4, <1>5

LEMMA SetTempFine == ASSUME SInv, NEW p \in Procs, SetTemp(p) PROVE SInv'
<1>1. /\ At(p, "setTemp") /\ lastTemp' = lastTemp + 1 /\ temps' = temps \cup {lastTemp + 1}
      /\ Become(p, Idle)
      /\ UNCHANGED <<settings, codes, lastBatch, dead, torn, ops, lastSecret, setup, mailed, deaths>>
  BY DEF SetTemp, Finish, batches, bounds
<1>2. /\ lastTemp \in Nat /\ lastBatch \in Nat /\ temps \subseteq 1..lastTemp
      /\ req[p].why = "login" /\ req[p].pc \notin SaveLabels
  BY <1>1 DEF SInv, KeysOK, BatchesOK, RequestsOK, WhyOK, At, SaveLabels
<1>3. Monotone
  BY <1>1, <1>2 DEF Monotone
<1>4. /\ RequestsOK' /\ req'[p] = Idle
      /\ \A q \in Procs \ {p} : req'[q].pc = req[q].pc /\ req'[q].why = req[q].why
  <2>1. Knows(Idle, codes', temps', lastTemp', lastBatch', settings')
    BY <1>1, <1>2, IdleFine
  <2> QED BY <1>1, <1>3, <2>1, IdleFine, RequestStep DEF SInv
<1>5. KeysOK'
  <2>1. temps' \subseteq 1..lastTemp' /\ lastTemp' \in Nat
    BY <1>1, <1>2
  <2> QED BY <1>1, <2>1 DEF SInv, KeysOK
<1>6. CountsOK'
  BY <1>1, <1>2, <1>4, IdleFine, CountsFall
<1>7. EnabledHasCodes'
  BY <1>1, <1>2, <1>4 DEF SInv, EnabledHasCodes, Stored, SaveLabels
<1> QED BY <1>1, <1>4, <1>5, <1>6, <1>7 DEF SInv, SettingsOK, BatchesOK

\* Setups, mails and expiries move no request.
LEMMA KeySteps ==
  ASSUME SInv,
         \/ \E p \in Procs : InitiateSetup(p) \/ SendDisableOtp(p)
         \/ SetupExpires
         \/ \E t \in 1..MaxTemps : TempExpires(t)
  PROVE  SInv'
<1>1. /\ UNCHANGED <<settings, codes, lastBatch, dead, torn, lastTemp, req, ops, deaths>>
      /\ temps' \subseteq temps
  BY DEF InitiateSetup, SendDisableOtp, SetupExpires, TempExpires, batches, bounds
<1>2. KeysOK'
  <2>1. lastSecret \in Nat /\ mailed' \in BOOLEAN /\ temps' \subseteq 1..lastTemp'
    <3>1. mailed' = mailed \/ mailed' = TRUE
      BY DEF InitiateSetup, SendDisableOtp, SetupExpires, TempExpires
    <3>2. mailed' \in BOOLEAN
      BY <3>1 DEF SInv, KeysOK
    <3> QED BY <1>1, <3>2, Bounds DEF SInv, KeysOK
  <2>2. \/ lastSecret < MaxSecrets /\ lastSecret' = lastSecret + 1 /\ setup' = lastSecret + 1
        \/ lastSecret' = lastSecret /\ setup' \in {setup, 0}
    BY DEF InitiateSetup, SendDisableOtp, SetupExpires, TempExpires
  <2>3. lastSecret' \in 0..MaxSecrets /\ setup' \in 0..lastSecret'
    BY <2>1, <2>2, Bounds DEF SInv, KeysOK
  <2> QED BY <1>1, <2>1, <2>3 DEF SInv, KeysOK
<1>3. RequestsOK'
  BY <1>1 DEF SInv, RequestsOK, PresentOK
<1>4. CountsOK' /\ EnabledHasCodes'
  BY <1>1 DEF SInv, CountsOK, InFlight, EnabledHasCodes, Stored
<1> QED BY <1>1, <1>2, <1>3, <1>4 DEF SInv, SettingsOK, BatchesOK

-----------------------------------------------------------------------------
(* Rows.                                                                   *)

LEMMA MarkCodeFine == ASSUME SInv, NEW p \in Procs, MarkCode(p) PROVE SInv'
<1> DEFINE b == req[p].code.of
           r == [req[p] EXCEPT !.pc = AfterVerified[req[p].why]]
<1>1. /\ At(p, "markCode") /\ codes' = [codes EXCEPT ![b] = IF @ = "none" THEN @ ELSE "used"]
      /\ Become(p, r)
      /\ UNCHANGED <<settings, lastBatch, dead, torn, temps, lastTemp>>
      /\ UNCHANGED <<ops, lastSecret, setup, mailed, deaths>>
  BY DEF MarkCode, Verified, Goto, keys, bounds
<1>2. ~req[p].late /\ req[p].pc \notin SaveLabels
  BY <1>1 DEF SInv, RequestsOK, PresentOK, At, BeforeLabels, SaveLabels
<1>3. /\ r \in Request /\ r.why = req[p].why
      /\ \A cs : Knows(r, cs, temps, lastTemp, lastBatch, settings)
  BY <1>1, <1>2, VerifiedFine DEF At
<1> HIDE DEF r, b
<1>4. codes \in [1..MaxBatches -> RecoveryCode]
  BY DEF SInv, BatchesOK
<1>5. /\ codes' \in [1..MaxBatches -> RecoveryCode]
      /\ \A a \in 1..MaxBatches : /\ codes'[a] = "none" <=> codes[a] = "none"
                                  /\ codes'[a] \in {codes[a], "used"}
  BY <1>1, <1>4 DEF RecoveryCode
<1>6. lastBatch \in 0..MaxBatches /\ lastTemp \in Nat
  BY NumbersFine DEF SInv, KeysOK
<1>7. Monotone
  <2>1. 1..lastBatch \subseteq 1..MaxBatches
    BY <1>6, Bounds
  <2> QED BY <1>1, <1>5, <1>6, <2>1 DEF Monotone
<1>8. /\ RequestsOK' /\ req'[p] = r
      /\ \A q \in Procs \ {p} : req'[q].pc = req[q].pc /\ req'[q].why = req[q].why
  BY <1>1, <1>3, <1>7, RequestStep DEF SInv
<1>9. CountsOK'
  BY <1>1, <1>3, <1>8, CountsKept
<1>10. BatchesOK'
  <2>1. \A a \in dead : a \in 1..MaxBatches
    BY <1>6, Bounds DEF SInv, BatchesOK
  <2> QED BY <1>1, <1>5, <2>1 DEF SInv, BatchesOK
<1>11. EnabledHasCodes'
  <2>1. Stored' = Stored
    BY <1>5 DEF Stored
  <2>2. \A q \in Procs : req[q].pc \in SaveLabels => req'[q].pc \in SaveLabels
    BY <1>2, <1>8
  <2> QED BY <1>1, <2>1, <2>2 DEF SInv, EnabledHasCodes, SaveLabels
<1> QED BY <1>1, <1>8, <1>9, <1>10, <1>11 DEF SInv, SettingsOK, KeysOK

\* What is written is what it must be.
LEMMA MergeFine ==
  ASSUME NEW why \in {"enableTotp", "enableEmail", "disable"}, NEW secret \in 0..MaxSecrets,
         NEW copy \in Settings, why = "enableTotp" => secret # 0,
         copy.totp => copy.there /\ copy.secret # 0
  PROVE  LET m == Merge(why, secret, copy)
         IN  /\ m \in Settings
             /\ m.totp => m.there /\ m.secret # 0
             /\ why = "disable" => ~m.totp
             /\ why = "enableTotp" => (m.email <=> copy.email)
             /\ why = "enableEmail" => (m.totp <=> copy.totp) /\ m.secret = copy.secret
<1>1. CASE why = "enableTotp"
  <2>1. Merge(why, secret, copy) = [copy EXCEPT !.there = TRUE, !.totp = TRUE, !.secret = secret]
    BY <1>1 DEF Merge
  <2> QED BY <1>1, <2>1 DEF Settings
<1>2. CASE why = "enableEmail"
  <2>1. Merge(why, secret, copy) = [copy EXCEPT !.there = TRUE, !.email = TRUE]
    BY <1>2 DEF Merge
  <2> QED BY <1>2, <2>1 DEF Settings
<1>3. CASE why = "disable"
  <2> DEFINE m == [NoSettings EXCEPT !.there = TRUE]
  <2>1. Merge(why, secret, copy) = m
    BY <1>3 DEF Merge
  <2>2. NoSettings \in Settings /\ ~NoSettings.totp
    BY Bounds DEF NoSettings, Settings
  <2>3. m \in Settings /\ ~m.totp
    BY <2>2 DEF Settings
  <2> HIDE DEF m
  <2> QED BY <1>3, <2>1, <2>3
<1> QED BY <1>1, <1>2, <1>3

LEMMA WriteRowFine == ASSUME SInv, NEW p \in Procs, WriteRow(p) PROVE SInv'
<1> DEFINE r == [req[p] EXCEPT !.pc = "delCodes", !.copy = NoSettings, !.stale = FALSE]
           m == Merge(req[p].why, req[p].secret, req[p].copy)
<1>1. /\ At(p, "writeRow")
      /\ UNCHANGED <<codes, lastBatch, dead, torn, temps, lastTemp>>
      /\ UNCHANGED <<ops, lastSecret, setup, mailed, deaths>>
      /\ \/ UNCHANGED settings /\ Finish(p)
         \/ settings' = m /\ Cross(p, r)
  BY DEF WriteRow, batches, keys, bounds
<1>2. /\ req[p] \in Request /\ Knows(req[p], codes, temps, lastTemp, lastBatch, settings)
      /\ req[p].secret \in 0..MaxSecrets /\ req[p].copy \in Settings /\ "delCodes" \in Labels
      /\ NoSettings \in Settings
  BY Bounds DEF SInv, RequestsOK, Knows, Request, Labels, Settings, NoSettings
<1>3. KeysOK' /\ req[p].pc \notin SaveLabels
  BY <1>1 DEF SInv, KeysOK, At, SaveLabels
<1>4. CASE UNCHANGED settings /\ Finish(p)
  BY <1>1, <1>3, <1>4, QuietFinish
<1>5. CASE settings' = m /\ Cross(p, r)
  <2>1. req[p].why \in {"enableTotp", "enableEmail", "disable"}
    BY <1>1, <1>2 DEF Knows, WhyOK, At
  <2>2. /\ req[p].why = "enableTotp" => req[p].secret # 0
        /\ req[p].copy.totp => req[p].copy.there /\ req[p].copy.secret # 0
    BY <1>1, <1>2 DEF Knows, CopyOK, At
  <2>3. m \in Settings /\ (m.totp => m.there /\ m.secret # 0) /\ (req[p].why = "disable" => ~m.totp)
    BY <1>2, <2>1, <2>2, MergeFine
  <2> HIDE DEF m
  <2>4. /\ r \in Request /\ r.pc = "delCodes" /\ r.why = req[p].why /\ r.temp = req[p].temp
        /\ r.code = req[p].code /\ r.copy = NoSettings /\ r.ended = req[p].ended
    BY <1>2 DEF Request
  <2>5. r.late <=> req[p].late
    BY <1>2 DEF Request
  <2>6. Cross(p, r)
    BY <1>5
  <2> HIDE DEF r
  <2>7. WhyOK(r)
    BY <2>1, <2>4 DEF WhyOK, CheckLabels, BatchWhys
  <2>8. PresentOK(r, codes, temps, lastTemp, lastBatch)
    BY <1>1, <1>2, <2>4, <2>5 DEF Knows, PresentOK, At, BeforeLabels
  <2>9. CopyOK(r, settings')
    BY <1>5, <2>3, <2>4 DEF CopyOK, NoSettings
  <2>10. Monotone
    BY <1>1, QuietMonotone
  <2>11. /\ RequestsOK' /\ req'[p] = r
         /\ \A q \in Procs \ {p} : req'[q].pc = req[q].pc /\ req'[q].why = req[q].why
    BY <1>1, <2>4, <2>6, <2>7, <2>8, <2>9, <2>10, RequestStep DEF SInv, Knows
  <2>12. CountsOK'
    BY <1>1, <2>4, <2>11, CountsKept
  <2>13. EnabledHasCodes'
    BY <2>4, <2>11 DEF EnabledHasCodes
  <2> QED BY <1>1, <1>3, <1>5, <2>3, <2>11, <2>12, <2>13 DEF SInv, SettingsOK, BatchesOK
<1> QED BY <1>1, <1>4, <1>5

\* The codes are deleted: a disabling ends here, a save goes on.
LEMMA DelCodesFine == ASSUME SInv, NEW p \in Procs, DelCodes(p) PROVE SInv'
<1>1. /\ At(p, "delCodes") /\ codes' = [b \in DOMAIN codes |-> "none"]
      /\ UNCHANGED <<settings, lastBatch, temps, lastTemp, ops, lastSecret, setup, mailed, deaths>>
  BY DEF DelCodes, keys, bounds
<1>2. /\ codes' \in [1..MaxBatches -> RecoveryCode] /\ \A b \in 1..MaxBatches : codes'[b] = "none"
      /\ lastBatch \in 0..MaxBatches /\ lastTemp \in Nat /\ MaxBatches \in Nat
      /\ dead \subseteq 1..lastBatch
  BY <1>1, NumbersFine, Bounds DEF SInv, BatchesOK, RecoveryCode, KeysOK
<1>3. 1..lastBatch \subseteq 1..MaxBatches
  BY <1>2
<1>4. Monotone
  BY <1>1, <1>2, <1>3 DEF Monotone
<1>5. /\ req[p] \in Request /\ Knows(req[p], codes, temps, lastTemp, lastBatch, settings)
      /\ req[p].ended \subseteq 1..lastBatch /\ KeysOK'
  BY <1>1 DEF SInv, RequestsOK, Knows, PresentOK, KeysOK
<1>6. CASE /\ req[p].why = "disable" /\ dead' = dead \cup req[p].ended
           /\ torn' = (torn \/ req[p].crossed) /\ Finish(p)
  <2>1. /\ RequestsOK' /\ req'[p] = Idle
        /\ \A q \in Procs \ {p} : req'[q].pc = req[q].pc /\ req'[q].why = req[q].why
    <3>1. Knows(Idle, codes', temps', lastTemp', lastBatch', settings')
      BY <1>1, <1>2, IdleFine
    <3> QED BY <1>1, <1>4, <1>6, <3>1, IdleFine, RequestStep DEF SInv, Finish
  <2>2. CountsOK'
    BY <1>1, <2>1, IdleFine, CountsKept
  <2>3. req[p].crossed \in BOOLEAN /\ torn \in BOOLEAN
    BY <1>5 DEF Request, SInv, BatchesOK
  <2>4. BatchesOK'
    <3>1. torn' \in BOOLEAN
      BY <1>6, <2>3
    <3>2. dead' \subseteq 1..lastBatch /\ \A b \in dead' : codes'[b] = "none"
      BY <1>2, <1>3, <1>5, <1>6
    <3> QED BY <1>1, <1>2, <3>1, <3>2 DEF BatchesOK
  <2>5. ~settings.totp \/ torn'
    BY <1>1, <1>5, <1>6, <2>3 DEF Knows, CopyOK, At
  <2>6. EnabledHasCodes'
    BY <1>1, <2>5 DEF EnabledHasCodes
  <2> QED BY <1>1, <1>5, <2>1, <2>2, <2>4, <2>6 DEF SInv, SettingsOK
<1>7. CASE req[p].why # "disable" /\ UNCHANGED <<dead, torn>> /\ Goto(p, "insertCodes")
  <2> DEFINE r == [req[p] EXCEPT !.pc = "insertCodes"]
  <2>1. "insertCodes" \in Labels /\ Become(p, r)
    BY <1>7 DEF Labels, Goto
  <2>2. /\ r \in Request /\ r.pc = "insertCodes" /\ r.why = req[p].why /\ r.temp = req[p].temp
        /\ r.code = req[p].code /\ r.secret = req[p].secret /\ r.copy = req[p].copy
        /\ r.ended = req[p].ended
        /\ r.late <=> req[p].late
    BY <1>5, <2>1, GotoFine
  <2> HIDE DEF r
  <2>3. WhyOK(r)
    BY <1>1, <1>5, <1>7, <2>2 DEF Knows, WhyOK, At, CheckLabels
  <2>4. PresentOK(r, codes', temps', lastTemp', lastBatch')
    BY <1>1, <1>2, <1>3, <1>5, <2>2 DEF Knows, PresentOK, At, BeforeLabels
  <2>5. CopyOK(r, settings')
    BY <1>1, <1>5, <2>2 DEF Knows, CopyOK
  <2>6. /\ RequestsOK' /\ req'[p] = r
        /\ \A q \in Procs \ {p} : req'[q].pc = req[q].pc /\ req'[q].why = req[q].why
    BY <1>1, <1>4, <2>1, <2>2, <2>3, <2>4, <2>5, RequestStep DEF SInv, Knows
  <2>7. CountsOK'
    BY <1>1, <2>2, <2>6, CountsKept
  <2>8. EnabledHasCodes'
    BY <2>2, <2>6 DEF EnabledHasCodes
  <2>9. BatchesOK'
    BY <1>1, <1>2, <1>3, <1>7 DEF SInv, BatchesOK
  <2> QED BY <1>1, <1>5, <2>6, <2>7, <2>8, <2>9 DEF SInv, SettingsOK
<1> QED BY <1>6, <1>7 DEF DelCodes

\* A save ends with a new batch.
LEMMA InsertCodesFine == ASSUME SInv, NEW p \in Procs, InsertCodes(p) PROVE SInv'
<1> DEFINE r == IF req[p].why = "enableTotp" THEN [Idle EXCEPT !.pc = "delSetup"] ELSE Idle
<1>1. /\ At(p, "insertCodes") /\ lastBatch' = lastBatch + 1
      /\ codes' = [codes EXCEPT ![lastBatch + 1] = "unused"]
      /\ dead' = dead \cup req[p].ended /\ torn' = FALSE /\ Cross(p, r)
      /\ UNCHANGED <<settings, temps, lastTemp, ops, lastSecret, setup, mailed, deaths>>
  BY DEF InsertCodes, keys, bounds
<1>2. /\ req[p] \in Request /\ Knows(req[p], codes, temps, lastTemp, lastBatch, settings)
      /\ req[p].why \in BatchWhys /\ req[p].ended \subseteq 1..lastBatch
      /\ \A b \in req[p].ended : codes[b] = "none"
  BY <1>1 DEF SInv, RequestsOK, Knows, WhyOK, PresentOK, At
<1>3. /\ lastBatch \in 0..MaxBatches /\ lastBatch + 1 \in 1..MaxBatches /\ lastTemp \in Nat
      /\ MaxBatches \in Nat
  BY <1>2, NumbersFine, Bounds DEF SInv, KeysOK
<1>4. /\ codes \in [1..MaxBatches -> RecoveryCode] /\ dead \subseteq 1..lastBatch
      /\ \A b \in 1..MaxBatches : codes[b] # "none" => b <= lastBatch
      /\ \A b \in dead : codes[b] = "none"
  BY DEF SInv, BatchesOK
<1>5. /\ codes' \in [1..MaxBatches -> RecoveryCode] /\ codes'[lastBatch + 1] = "unused"
      /\ \A b \in 1..lastBatch : b \in 1..MaxBatches /\ b # lastBatch + 1 /\ codes'[b] = codes[b]
      /\ \A b \in 1..MaxBatches : codes'[b] # "none" => b <= lastBatch'
  BY <1>1, <1>3, <1>4 DEF RecoveryCode
<1>6. Monotone
  BY <1>1, <1>3, <1>5 DEF Monotone
<1>7. /\ r \in Request /\ r.why = "none" /\ Knows(r, codes', temps', lastTemp', lastBatch', settings')
  <2>1. lastBatch' \in Nat /\ lastTemp' \in Nat
    BY <1>1, <1>3
  <2>2. CASE r = Idle
    BY <2>1, <2>2, IdleFine
  <2>3. CASE r = [Idle EXCEPT !.pc = "delSetup"]
    <3> DEFINE c == [Idle EXCEPT !.pc = "delSetup"]
    <3>1. "delSetup" \in Labels /\ Idle \in Request
      BY IdleFine DEF Labels
    <3>2. /\ c \in Request /\ c.pc = "delSetup" /\ c.why = Idle.why /\ c.temp = Idle.temp
          /\ c.code = Idle.code /\ c.secret = Idle.secret /\ c.copy = Idle.copy
          /\ c.ended = Idle.ended
          /\ c.late <=> Idle.late
      BY <3>1, GotoFine
    <3> HIDE DEF c
    <3>3. Knows(c, codes', temps', lastTemp', lastBatch', settings')
      BY <2>1, <3>2, IdleFine DEF Knows, WhyOK, PresentOK, CopyOK, CheckLabels, Wrong
    <3> QED BY <2>3, <3>2, <3>3, IdleFine DEF c
  <2> QED BY <2>2, <2>3
<1> HIDE DEF r
<1>8. /\ RequestsOK' /\ req'[p] = r
      /\ \A q \in Procs \ {p} : req'[q].pc = req[q].pc /\ req'[q].why = req[q].why
  BY <1>1, <1>6, <1>7, RequestStep DEF SInv
<1>9. CountsOK'
  BY <1>1, <1>2, <1>7, <1>8, CountsFall
<1>10. BatchesOK'
  <2>1. 1..lastBatch \subseteq 1..lastBatch' /\ lastBatch' \in Nat
    BY <1>1, <1>3
  <2> QED BY <1>1, <1>2, <1>4, <1>5, <2>1 DEF BatchesOK
<1>11. EnabledHasCodes'
  BY <1>3, <1>5 DEF EnabledHasCodes, Stored
<1> QED BY <1>1, <1>8, <1>9, <1>10, <1>11 DEF SInv, SettingsOK, KeysOK

-----------------------------------------------------------------------------
(* Arrivals and deaths.                                                    *)

\* An arrival has read nothing yet, but for which codes and tokens there are.
LEMMA Arrival ==
  ASSUME SInv, NEW p \in Procs, At(p, "idle"), NEW r \in Request, Become(p, r),
         Knows(r, codes, temps, lastTemp, lastBatch, settings),
         UNCHANGED <<settings, batches, keys, bounds>>,
         \/ r.why \in {"verify", "disable"}
         \/ r.why \in BatchWhys /\ BatchLeft
         \/ r.why = "login" /\ TempLeft
  PROVE  SInv'
<1>1. UNCHANGED <<settings, codes, lastBatch, dead, torn, temps, lastTemp>> /\ KeysOK'
  BY DEF batches, keys, bounds, SInv, KeysOK
<1>2. req[p].pc \notin SaveLabels /\ req[p].why = "none"
  BY DEF At, SaveLabels, SInv, RequestsOK, WhyOK
<1>3. temps' = temps /\ temps' \subseteq temps
  BY <1>1
<1>4. Knows(r, codes, temps', lastTemp, lastBatch, settings)
  BY <1>3
<1>5. CASE r.why \in {"verify", "disable"}
  BY <1>1, <1>2, <1>3, <1>4, <1>5, Quiet
<1>6. CASE (r.why \in BatchWhys /\ BatchLeft) \/ (r.why = "login" /\ TempLeft)
  BY <1>1, <1>2, <1>3, <1>4, <1>6, Quiet
<1> QED BY <1>5, <1>6

LEMMA KnownFine ==
  ASSUME SInv, NEW c \in Known
  PROVE  /\ c \in Code
         /\ c.kind = "recovery" => c.of \in 1..lastBatch
         /\ Ended(c) => c.kind = "recovery" /\ codes[c.of] # "unused"
         /\ Ended(c) \in BOOLEAN
<1>1. lastBatch \in 0..MaxBatches /\ lastSecret \in 0..MaxSecrets
      /\ \A b \in dead : codes[b] = "none"
  BY NumbersFine DEF SInv, KeysOK, BatchesOK
<1> QED BY <1>1, Bounds DEF Known, Code, Wrong, Ended

LEMMA StoredFine == ASSUME SInv PROVE Stored \subseteq 1..lastBatch /\ Stored \subseteq 1..MaxBatches
BY NumbersFine, Bounds DEF SInv, BatchesOK, Stored

\* What a request knows that has just arrived at its first label.
LEMMA NewcomerFine ==
  ASSUME SInv, NEW r \in Request, r.copy = Idle.copy, r.temp \in 0..lastTemp,
         r.code = Wrong \/ r.code \in Known, r.ended = {} \/ r.ended = Stored,
         \/ r.pc = "readMfa" /\ r.why = "login" /\ ~r.late
         \/ /\ r.pc = "getTemp" /\ r.why = "verify"
            /\ r.late => (r.temp \notin temps \/ Ended(r.code))
         \/ r.pc = "getSetup" /\ r.why = "enableTotp" /\ ~r.late
         \/ r.pc = "findRow" /\ r.why = "enableEmail" /\ ~r.late
         \/ r.pc = "enabled?" /\ r.why = "disable" /\ (r.late => Ended(r.code))
         \/ r.pc = "settings" /\ r.why = "rotate" /\ (r.late => Ended(r.code))
  PROVE  Knows(r, codes, temps, lastTemp, lastBatch, settings)
<1>1. WhyOK(r)
  BY DEF WhyOK, CheckLabels, BatchWhys
<1>2. r.code.kind = "recovery" => r.code.of \in 1..lastBatch
  BY KnownFine DEF Wrong
<1>3. Ended(r.code) => r.code.kind = "recovery" /\ codes[r.code.of] # "unused"
  <2>1. r.code = Wrong => ~Ended(r.code)
    BY DEF Wrong, Ended
  <2> QED BY <2>1, KnownFine
<1>4. r.temp <= lastTemp /\ r.ended \subseteq 1..lastBatch
  BY StoredFine, NumbersFine
<1>5. PresentOK(r, codes, temps, lastTemp, lastBatch)
  BY <1>2, <1>3, <1>4 DEF PresentOK, BeforeLabels
<1>6. CopyOK(r, settings)
  BY IdleFine DEF CopyOK
<1> QED BY <1>1, <1>5, <1>6 DEF Knows

\* Each arrival.
LEMMA BeginLoginFine == ASSUME SInv, NEW p \in Procs, BeginLogin(p) PROVE SInv'
<1> DEFINE c0 == [Idle EXCEPT !.pc = "readMfa"]
           r == [c0 EXCEPT !.why = "login"]
<1>1. /\ At(p, "idle") /\ Become(p, r) /\ UNCHANGED <<settings, batches, keys, bounds>> /\ TempLeft
  BY DEF BeginLogin, Start
<1>2. /\ Idle \in Request /\ Idle.temp = 0 /\ Idle.code = Wrong /\ Idle.ended = {} /\ ~Idle.late
      /\ "readMfa" \in Labels /\ "login" \in AllOps /\ 0 \in 0..lastTemp /\ lastTemp \in 0..MaxTemps
  BY IdleFine, NumbersFine DEF Labels, AllOps
<1>3. /\ r \in Request /\ r.pc = "readMfa" /\ r.why = "login" /\ r.copy = Idle.copy
      /\ r.temp = 0 /\ r.code = Wrong /\ r.ended = {}
  BY <1>2 DEF Request
<1>4. r.late <=> FALSE
  BY <1>2 DEF Request
<1> HIDE DEF r
<1>5. Knows(r, codes, temps, lastTemp, lastBatch, settings)
  BY <1>2, <1>3, <1>4, NewcomerFine
<1> QED BY <1>1, <1>3, <1>5, Arrival DEF BatchWhys

LEMMA BeginVerifyFine == ASSUME SInv, NEW p \in Procs,
         NEW t \in 1..lastTemp, NEW c \in Known, BeginVerify(p, t, c) PROVE SInv'
<1> DEFINE c0 == [Idle EXCEPT !.pc = "getTemp", !.temp = t, !.code = c, !.late = t \notin temps \/ Ended(c)]
           r == [c0 EXCEPT !.why = "verify"]
<1>1. /\ At(p, "idle") /\ Become(p, r) /\ UNCHANGED <<settings, batches, keys, bounds>>
  BY DEF BeginVerify, Start
<1>2. /\ Idle \in Request /\ Idle.temp = 0 /\ Idle.code = Wrong /\ Idle.ended = {} /\ ~Idle.late
      /\ "getTemp" \in Labels /\ "verify" \in AllOps /\ 0 \in 0..lastTemp /\ lastTemp \in 0..MaxTemps
  BY IdleFine, NumbersFine DEF Labels, AllOps
<1>3. /\ c \in Code /\ Ended(c) \in BOOLEAN /\ (t \notin temps \/ Ended(c)) \in BOOLEAN
      /\ t \in 0..lastTemp /\ t \in 0..MaxTemps
  BY <1>2, KnownFine, Bounds
<1>4. /\ r \in Request /\ r.pc = "getTemp" /\ r.why = "verify" /\ r.copy = Idle.copy
      /\ r.temp = t /\ r.code = c /\ r.ended = {}
  BY <1>2, <1>3 DEF Request
<1>5. r.late <=> (t \notin temps \/ Ended(c))
  BY <1>2, <1>3 DEF Request
<1> HIDE DEF r
<1>6. Knows(r, codes, temps, lastTemp, lastBatch, settings)
  BY <1>2, <1>3, <1>4, <1>5, NewcomerFine
<1> QED BY <1>1, <1>4, <1>6, Arrival DEF BatchWhys

LEMMA BeginEnableTotpFine == ASSUME SInv, NEW p \in Procs, NEW c \in Known, BeginEnableTotp(p, c) PROVE SInv'
<1> DEFINE c0 == [Idle EXCEPT !.pc = "getSetup", !.code = c, !.ended = Stored]
           r == [c0 EXCEPT !.why = "enableTotp"]
<1>1. /\ At(p, "idle") /\ Become(p, r) /\ UNCHANGED <<settings, batches, keys, bounds>> /\ BatchLeft
  BY DEF BeginEnableTotp, Start
<1>2. /\ Idle \in Request /\ Idle.temp = 0 /\ Idle.code = Wrong /\ Idle.ended = {} /\ ~Idle.late
      /\ "getSetup" \in Labels /\ "enableTotp" \in AllOps /\ 0 \in 0..lastTemp /\ lastTemp \in 0..MaxTemps
  BY IdleFine, NumbersFine DEF Labels, AllOps
<1>3. c \in Code /\ Ended(c) \in BOOLEAN /\ Stored \subseteq 1..MaxBatches
  BY KnownFine, StoredFine
<1>4. /\ r \in Request /\ r.pc = "getSetup" /\ r.why = "enableTotp" /\ r.copy = Idle.copy
      /\ r.temp = 0 /\ r.code = c /\ r.ended = Stored
  BY <1>2, <1>3 DEF Request
<1>5. r.late <=> FALSE
  BY <1>2, <1>3 DEF Request
<1> HIDE DEF r
<1>6. Knows(r, codes, temps, lastTemp, lastBatch, settings)
  BY <1>2, <1>3, <1>4, <1>5, NewcomerFine
<1> QED BY <1>1, <1>4, <1>6, Arrival DEF BatchWhys

LEMMA BeginEnableEmailFine == ASSUME SInv, NEW p \in Procs, BeginEnableEmail(p) PROVE SInv'
<1> DEFINE c0 == [Idle EXCEPT !.pc = "findRow", !.ended = Stored]
           r == [c0 EXCEPT !.why = "enableEmail"]
<1>1. /\ At(p, "idle") /\ Become(p, r) /\ UNCHANGED <<settings, batches, keys, bounds>> /\ BatchLeft
  BY DEF BeginEnableEmail, Start
<1>2. /\ Idle \in Request /\ Idle.temp = 0 /\ Idle.code = Wrong /\ Idle.ended = {} /\ ~Idle.late
      /\ "findRow" \in Labels /\ "enableEmail" \in AllOps /\ 0 \in 0..lastTemp /\ lastTemp \in 0..MaxTemps
  BY IdleFine, NumbersFine DEF Labels, AllOps
<1>3. Stored \subseteq 1..MaxBatches
  BY StoredFine
<1>4. /\ r \in Request /\ r.pc = "findRow" /\ r.why = "enableEmail" /\ r.copy = Idle.copy
      /\ r.temp = 0 /\ r.code = Wrong /\ r.ended = Stored
  BY <1>2, <1>3 DEF Request
<1>5. r.late <=> FALSE
  BY <1>2, <1>3 DEF Request
<1> HIDE DEF r
<1>6. Knows(r, codes, temps, lastTemp, lastBatch, settings)
  BY <1>2, <1>3, <1>4, <1>5, NewcomerFine
<1> QED BY <1>1, <1>4, <1>6, Arrival DEF BatchWhys

LEMMA BeginDisableFine == ASSUME SInv, NEW p \in Procs, NEW c \in Known, BeginDisable(p, c) PROVE SInv'
<1> DEFINE c0 == [Idle EXCEPT !.pc = "enabled?", !.code = c, !.late = Ended(c), !.ended = Stored]
           r == [c0 EXCEPT !.why = "disable"]
<1>1. /\ At(p, "idle") /\ Become(p, r) /\ UNCHANGED <<settings, batches, keys, bounds>>
  BY DEF BeginDisable, Start
<1>2. /\ Idle \in Request /\ Idle.temp = 0 /\ Idle.code = Wrong /\ Idle.ended = {} /\ ~Idle.late
      /\ "enabled?" \in Labels /\ "disable" \in AllOps /\ 0 \in 0..lastTemp /\ lastTemp \in 0..MaxTemps
  BY IdleFine, NumbersFine DEF Labels, AllOps
<1>3. c \in Code /\ Ended(c) \in BOOLEAN /\ Stored \subseteq 1..MaxBatches
  BY KnownFine, StoredFine
<1>4. /\ r \in Request /\ r.pc = "enabled?" /\ r.why = "disable" /\ r.copy = Idle.copy
      /\ r.temp = 0 /\ r.code = c /\ r.ended = Stored
  BY <1>2, <1>3 DEF Request
<1>5. r.late <=> Ended(c)
  BY <1>2, <1>3 DEF Request
<1> HIDE DEF r
<1>6. Knows(r, codes, temps, lastTemp, lastBatch, settings)
  BY <1>2, <1>3, <1>4, <1>5, NewcomerFine
<1> QED BY <1>1, <1>4, <1>6, Arrival DEF BatchWhys

LEMMA BeginRotateFine == ASSUME SInv, NEW p \in Procs, NEW c \in Known, BeginRotate(p, c) PROVE SInv'
<1> DEFINE c0 == [Idle EXCEPT !.pc = "settings", !.code = c, !.late = Ended(c), !.ended = Stored]
           r == [c0 EXCEPT !.why = "rotate"]
<1>1. /\ At(p, "idle") /\ Become(p, r) /\ UNCHANGED <<settings, batches, keys, bounds>> /\ BatchLeft
  BY DEF BeginRotate, Start
<1>2. /\ Idle \in Request /\ Idle.temp = 0 /\ Idle.code = Wrong /\ Idle.ended = {} /\ ~Idle.late
      /\ "settings" \in Labels /\ "rotate" \in AllOps /\ 0 \in 0..lastTemp /\ lastTemp \in 0..MaxTemps
  BY IdleFine, NumbersFine DEF Labels, AllOps
<1>3. c \in Code /\ Ended(c) \in BOOLEAN /\ Stored \subseteq 1..MaxBatches
  BY KnownFine, StoredFine
<1>4. /\ r \in Request /\ r.pc = "settings" /\ r.why = "rotate" /\ r.copy = Idle.copy
      /\ r.temp = 0 /\ r.code = c /\ r.ended = Stored
  BY <1>2, <1>3 DEF Request
<1>5. r.late <=> Ended(c)
  BY <1>2, <1>3 DEF Request
<1> HIDE DEF r
<1>6. Knows(r, codes, temps, lastTemp, lastBatch, settings)
  BY <1>2, <1>3, <1>4, <1>5, NewcomerFine
<1> QED BY <1>1, <1>4, <1>6, Arrival DEF BatchWhys

\* A death while codes are saved tears them; elsewhere it is an end.
LEMMA AbortFine == ASSUME SInv, NEW p \in Procs, Abort(p) PROVE SInv'
<1>1. /\ Finish(p) /\ deaths < MaxDeaths /\ deaths' = deaths + 1
      /\ torn' = (torn \/ At(p, "delCodes") \/ At(p, "insertCodes"))
      /\ UNCHANGED <<ops, settings, codes, lastBatch, dead, setup, temps, mailed, lastSecret, lastTemp>>
  BY DEF Abort, keys
<1>2. KeysOK'
  <2>1. deaths' \in 0..MaxDeaths
    BY <1>1, Bounds DEF SInv, KeysOK
  <2> QED BY <1>1, <2>1 DEF SInv, KeysOK
<1>3. CASE req[p].pc \in SaveLabels
  <2>1. torn' = TRUE
    BY <1>1, <1>3 DEF At, SaveLabels
  <2>2. Knows(Idle, codes', temps', lastTemp', lastBatch', settings')
    <3>1. lastTemp' \in Nat /\ lastBatch' \in Nat
      BY <1>1 DEF SInv, KeysOK, BatchesOK
    <3> QED BY <3>1, IdleFine
  <2>3. Monotone
    BY <1>1, QuietMonotone
  <2>4. /\ RequestsOK' /\ req'[p] = Idle
        /\ \A q \in Procs \ {p} : req'[q].pc = req[q].pc /\ req'[q].why = req[q].why
    BY <1>1, <2>2, <2>3, IdleFine, RequestStep DEF SInv, Finish
  <2>5. CountsOK'
    BY <1>1, <2>4, IdleFine, CountsKept
  <2> QED BY <1>1, <1>2, <2>1, <2>4, <2>5 DEF SInv, SettingsOK, BatchesOK, EnabledHasCodes
<1>4. CASE req[p].pc \notin SaveLabels
  <2>1. ~At(p, "delCodes") /\ ~At(p, "insertCodes")
    BY <1>4 DEF At, SaveLabels
  <2>2. torn' = torn
    BY <1>1, <2>1 DEF SInv, BatchesOK
  <2>3. UNCHANGED <<settings, codes, lastBatch, dead, torn, lastTemp>> /\ temps' \subseteq temps
    BY <1>1, <2>2
  <2> QED BY <1>1, <1>2, <1>4, <2>3, QuietFinish
<1> QED BY <1>3, <1>4

-----------------------------------------------------------------------------
(* The theorems.                                                           *)

LEMMA SInit == Init => SInv
<1> SUFFICES ASSUME Init PROVE SInv
  OBVIOUS
<1>1. \A p \in Procs : req[p] = Idle
  BY DEF Init
<1>2. lastBatch = 0 /\ lastTemp = 0 /\ lastBatch \in Nat /\ lastTemp \in Nat
  BY DEF Init
<1>3. \A p \in Procs : Knows(req[p], codes, temps, lastTemp, lastBatch, settings)
  BY <1>1, <1>2, IdleFine
<1>4. RequestsOK
  BY <1>3, IdleFine DEF Init, RequestsOK, Knows
<1>5. KeysOK /\ SettingsOK
  <2>1. SettingsOK
    BY Bounds DEF Init, SettingsOK, Settings, NoSettings
  <2>2. 0 \in 0..MaxSecrets /\ 0 \in 0..MaxDeaths /\ 0 \in 0..0
    BY Bounds
  <2>3. ops \in Mixes /\ lastSecret = 0 /\ setup = 0 /\ temps = {} /\ mailed = FALSE /\ deaths = 0
    BY DEF Init
  <2> QED BY <1>2, <2>1, <2>2, <2>3 DEF KeysOK
<1>6. BatchesOK
  BY Bounds DEF Init, BatchesOK, RecoveryCode
<1>7. ASSUME NEW whys, "none" \notin whys PROVE InFlight(whys) = 0
  <2>1. {p \in Procs : req[p].why \in whys} = {}
    BY <1>1, <1>7, IdleFine
  <2> QED BY <2>1, FS_EmptySet DEF InFlight
<1>8. CountsOK
  BY <1>2, <1>7, Bounds DEF CountsOK, BatchWhys
<1>9. EnabledHasCodes
  BY DEF Init, EnabledHasCodes, NoSettings
<1> QED BY <1>4, <1>5, <1>6, <1>8, <1>9 DEF SInv

LEMMA SNext == SInv /\ [Next]_vars => SInv'
<1> SUFFICES ASSUME SInv, [Next]_vars PROVE SInv'
  OBVIOUS
<1>1. CASE UNCHANGED vars
  BY <1>1 DEF vars, SInv, RequestsOK, KeysOK, SettingsOK, BatchesOK, CountsOK, InFlight,
     EnabledHasCodes, Stored
<1>2. ASSUME NEW p \in Procs, Begin(p) PROVE SInv'
  <2>1. CASE InitiateSetup(p) \/ SendDisableOtp(p)
    BY <2>1, KeySteps
  <2>2. CASE BeginLogin(p) \/ BeginEnableEmail(p)
    BY <2>2, BeginLoginFine, BeginEnableEmailFine
  <2>3. ASSUME NEW c \in Known, NEW t \in 1..lastTemp, BeginVerify(p, t, c) PROVE SInv'
    BY <2>3, BeginVerifyFine
  <2>4. ASSUME NEW c \in Known, BeginEnableTotp(p, c) \/ BeginDisable(p, c) \/ BeginRotate(p, c)
        PROVE  SInv'
    BY <2>4, BeginEnableTotpFine, BeginDisableFine, BeginRotateFine
  <2> QED BY <1>2, <2>1, <2>2, <2>3, <2>4 DEF Begin
<1>3. ASSUME NEW p \in Procs, Continue(p) PROVE SInv'
  BY <1>3, Checks, TokenSteps, FindRowFine, GetSetupFine, SetTempFine, MarkCodeFine, WriteRowFine,
     DelCodesFine, InsertCodesFine DEF Continue
<1>4. ASSUME NEW p \in Procs, Abort(p) PROVE SInv'
  BY <1>4, AbortFine
<1>5. CASE SetupExpires \/ \E t \in 1..MaxTemps : TempExpires(t)
  BY <1>5, KeySteps
<1> QED BY <1>1, <1>2, <1>3, <1>4, <1>5 DEF Next

\* The inductive invariant holds of every behaviour.
THEOREM FactorInvariance == Spec => []SInv
BY SInit, SNext, PTL DEF Spec

\* The rows, the keys and the requests hold values of their types.
THEOREM FactorTypes == Spec => []TypeOK
<1>1. SInv => TypeOK
  BY NumbersFine DEF SInv, RequestsOK, KeysOK, SettingsOK, BatchesOK, TypeOK
<1> QED BY <1>1, FactorInvariance, PTL

\* A recovery code that was used or replaced, and a temporary token that was spent,
\* grant nothing to a request that presents them afterwards: a code that a completed
\* save replaced has no row any more, and none is ever given back.
THEOREM SpentIsSpent == Spec => []SpentGrantsNothing
<1>1. SInv => SpentGrantsNothing
  BY DEF SInv, RequestsOK, PresentOK, BeforeLabels, AcceptedLabels, SpentGrantsNothing
<1> QED BY <1>1, FactorInvariance, PTL

\* Whoever must present a TOTP has recovery codes, but while they are saved and after
\* a save that died or overlapped a disabling.
THEOREM FactorHasCodes == Spec => []EnabledHasCodes
<1>1. SInv => EnabledHasCodes
  BY DEF SInv
<1> QED BY <1>1, FactorInvariance, PTL

\* upsertSettings loses a factor only to a write that came between its two statements.
THEOREM FactorsKept == Spec => SettingsKept
<1>1. ASSUME SInv, NEW p \in Procs, WriteRow(p), settings' # settings
      PROVE  \/ req[p].stale
             \/ req[p].why = "disable"
             \/ req[p].why = "enableTotp" /\ settings'.email = settings.email
             \/ req[p].why = "enableEmail" /\ settings'.totp = settings.totp
                                           /\ settings'.secret = settings.secret
  <2> DEFINE m == Merge(req[p].why, req[p].secret, req[p].copy)
  <2>1. At(p, "writeRow") /\ settings' = m
    BY <1>1 DEF WriteRow
  <2>2. /\ WhyOK(req[p]) /\ CopyOK(req[p], settings) /\ req[p].secret \in 0..MaxSecrets
        /\ req[p].copy \in Settings
    BY <1>1 DEF SInv, RequestsOK, Request
  <2>3. /\ req[p].why \in {"enableTotp", "enableEmail", "disable"}
        /\ req[p].why = "enableTotp" => req[p].secret # 0
        /\ req[p].copy.totp => req[p].copy.there /\ req[p].copy.secret # 0
        /\ req[p].stale \/ req[p].copy = settings
    BY <2>1, <2>2 DEF WhyOK, CopyOK, At
  <2>4. /\ m \in Settings
        /\ req[p].why = "enableTotp" => (m.email <=> req[p].copy.email)
        /\ req[p].why = "enableEmail" => (m.totp <=> req[p].copy.totp)
        /\ req[p].why = "enableEmail" => m.secret = req[p].copy.secret
    BY <2>2, <2>3, MergeFine
  <2>5. m.email \in BOOLEAN /\ m.totp \in BOOLEAN
        /\ req[p].copy.email \in BOOLEAN /\ req[p].copy.totp \in BOOLEAN
    BY <2>2, <2>4 DEF Settings
  <2> HIDE DEF m
  <2>6. /\ req[p].why = "enableTotp" => m.email = req[p].copy.email
        /\ req[p].why = "enableEmail" => m.totp = req[p].copy.totp
    BY <2>4, <2>5
  <2> QED BY <2>1, <2>3, <2>4, <2>6
<1>2. SInv => (\A p \in Procs :
         WriteRow(p) /\ settings' # settings =>
           \/ req[p].stale
           \/ req[p].why = "disable"
           \/ req[p].why = "enableTotp" /\ settings'.email = settings.email
           \/ req[p].why = "enableEmail" /\ settings'.totp = settings.totp
                                         /\ settings'.secret = settings.secret)
  BY <1>1
<1> QED BY <1>2, FactorInvariance, PTL DEF SettingsKept
=============================================================================
