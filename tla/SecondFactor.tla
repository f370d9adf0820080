---------------------------- MODULE SecondFactor ----------------------------
(***************************************************************************)
(* The second factor of one account: enabling and disabling it, recovery   *)
(* codes, and the temporary token between the password and the code.       *)
(*                                                                         *)
(* The settings are one row that is read and written back; the recovery    *)
(* codes are rows deleted and inserted anew.  A batch of ten recovery      *)
(* codes is represented by one of them: each is looked up and marked on    *)
(* its own.  A granted sign-in continues in SessionTokens.                 *)
(***************************************************************************)
EXTENDS Integers, FiniteSets

CONSTANTS
  Procs,         \* request slots
  Mixes,         \* bound: sets of operations; clients use one of them
  MaxSecrets,    \* bound: TOTP secrets ever generated
  MaxBatches,    \* bound: batches of recovery codes
  MaxTemps,      \* bound: temporary login tokens
  MaxDeaths      \* bound: requests that die half-way

AllOps == {"login", "verify", "setup", "enableTotp", "enableEmail", "disable", "rotate",
           "mail"}

ASSUME ProcsAssumption == IsFiniteSet(Procs)
ASSUME MixAssumption == Mixes \subseteq SUBSET AllOps
ASSUME BoundAssumption ==
  MaxSecrets \in Nat /\ MaxBatches \in Nat /\ MaxTemps \in Nat /\ MaxDeaths \in Nat

VARIABLES
  ops,           \* the operations of this behaviour
  settings,      \* the row of mfa_settings
  codes,         \* recovery_codes: the row of each batch
  setup,         \* the secret in mfa:setup:totp, 0 when the key is absent
  temps,         \* temporary login tokens in Redis
  mailed,        \* an e-mailed code of purpose mfa_disable is outstanding
  lastSecret, lastBatch, lastTemp,    \* how many were generated
  dead,          \* batches that a completed save or disabling replaced
  torn,          \* saves overlapped or died since the last one that did not
  deaths,        \* requests that died so far
  req            \* local state of the requests in flight

vars == <<ops, settings, codes, setup, temps, mailed, lastSecret, lastBatch, lastTemp,
          dead, torn, deaths, req>>
keys == <<setup, temps, mailed, lastSecret, lastTemp>>
batches == <<codes, lastBatch, dead, torn>>
bounds == <<ops, deaths>>

-----------------------------------------------------------------------------
Settings == [there: BOOLEAN, totp: BOOLEAN, secret: 0..MaxSecrets, email: BOOLEAN]

\* The row of one code of a batch.
RecoveryCode == {"none", "unused", "used"}

NoSettings == [there |-> FALSE, totp |-> FALSE, secret |-> 0, email |-> FALSE]

\* What a user types: a TOTP of some secret within its window, a mailed code, a
\* recovery code, or none of these.
Code == [kind: {"wrong", "mail", "totp", "recovery"}, of: 0..MaxSecrets + MaxBatches]

Wrong == [kind |-> "wrong", of |-> 0]

Labels == {"idle", "readMfa", "setTemp", "getTemp", "getSetup", "enabled?", "settings",
           "otp", "findCodes", "markCode", "delTemp", "findRow", "writeRow", "delCodes",
           "insertCodes", "delSetup"}

\* Once what was presented is accepted.
AcceptedLabels == {"markCode", "delTemp", "findRow", "writeRow", "delCodes", "insertCodes"}

Request == [pc: Labels,
            why: {"none"} \cup AllOps,
            temp: 0..MaxTemps,
            code: Code,
            secret: 0..MaxSecrets,           \* read from Redis
            copy: Settings,                  \* what upsertSettings read
            stale: BOOLEAN,                  \* the row was written since
            late: BOOLEAN,                   \* what it presents had ended on arrival
            ended: SUBSET (1..MaxBatches),   \* batches stored on arrival
            crossed: BOOLEAN]                \* another request wrote since its own write

Idle == [pc |-> "idle", why |-> "none", temp |-> 0, code |-> Wrong, secret |-> 0,
         copy |-> NoSettings, stale |-> FALSE, late |-> FALSE, ended |-> {},
         crossed |-> FALSE]

Init ==
  /\ ops \in Mixes
  /\ settings = NoSettings
  /\ codes = [b \in 1..MaxBatches |-> "none"]
  /\ setup = 0 /\ temps = {} /\ mailed = FALSE
  /\ lastSecret = 0 /\ lastBatch = 0 /\ lastTemp = 0
  /\ dead = {} /\ torn = FALSE /\ deaths = 0
  /\ req = [p \in Procs |-> Idle]

-----------------------------------------------------------------------------
At(p, l) == req[p].pc = l
Become(p, r) == req' = [req EXCEPT ![p] = r]
Goto(p, l) == Become(p, [req[p] EXCEPT !.pc = l])
Finish(p) == Become(p, Idle)
Start(p, op, r) == /\ At(p, "idle") /\ op \in ops
                   /\ Become(p, [r EXCEPT !.why = op])

Stored == {b \in 1..MaxBatches : codes[b] # "none"}
Ended(c) == c.kind = "recovery" /\ (c.of \in dead \/ codes[c.of] = "used")

InFlight(whys) == Cardinality({p \in Procs : req[p].why \in whys})
BatchLeft == lastBatch + InFlight({"enableTotp", "enableEmail", "rotate"}) < MaxBatches
TempLeft == lastTemp + InFlight({"login"}) < MaxTemps

\* What somebody can present by now.
Known == {Wrong, [kind |-> "mail", of |-> 0]}
           \cup [kind: {"totp"}, of: 1..lastSecret] \cup [kind: {"recovery"}, of: 1..lastBatch]

-----------------------------------------------------------------------------
(* login, once the password matched and the address was verified.          *)

BeginLogin(p) ==
  /\ TempLeft
  /\ Start(p, "login", [Idle EXCEPT !.pc = "readMfa"])
  /\ UNCHANGED <<settings, batches, keys, bounds>>

\* Without TOTP the sign-in goes on at once.
ReadMfa(p) ==
  /\ At(p, "readMfa")
  /\ IF settings.there /\ settings.totp THEN Goto(p, "setTemp") ELSE Finish(p)
  /\ UNCHANGED <<settings, batches, keys, bounds>>

SetTemp(p) ==
  /\ At(p, "setTemp")
  /\ lastTemp' = lastTemp + 1
  /\ temps' = temps \cup {lastTemp + 1}
  /\ Finish(p)
  /\ UNCHANGED <<settings, batches, setup, mailed, lastSecret, bounds>>

-----------------------------------------------------------------------------
(* mfaVerify with a temporary token; a refused code leaves it in place.    *)

BeginVerify(p, t, c) ==
  /\ Start(p, "verify", [Idle EXCEPT !.pc = "getTemp", !.temp = t, !.code = c,
                           !.late = t \notin temps \/ Ended(c)])
  /\ UNCHANGED <<settings, batches, keys, bounds>>

GetTemp(p) ==
  /\ At(p, "getTemp")
  /\ IF req[p].temp \in temps THEN Goto(p, "settings") ELSE Finish(p)
  /\ UNCHANGED <<settings, batches, keys, bounds>>

\* The sign-in goes on.
DelTemp(p) ==
  /\ At(p, "delTemp")
  /\ temps' = temps \ {req[p].temp}
  /\ Finish(p)
  /\ UNCHANGED <<settings, batches, setup, mailed, lastSecret, lastTemp, bounds>>

-----------------------------------------------------------------------------
(* verifyMfaToken, for a login, for disableMfa and for rotateRecoveryCodes. *)

\* MUTANT: a disabling forgets the settings and deletes only the codes.
AfterVerifiedCodesOnly ==
  [verify |-> "delTemp", disable |-> "delCodes", rotate |-> "delCodes"]

AfterVerified == [verify |-> "delTemp", disable |-> "findRow", rotate |-> "delCodes"]

Verified(p) == Goto(p, AfterVerified[req[p].why])

\* Totp.verifyToken: no memory of the codes it accepted before.
VerifyToken(secret, c) == c = [kind |-> "totp", of |-> secret]

ReadSettings(p) ==
  /\ At(p, "settings")
  /\ IF ~settings.there THEN Finish(p)
     ELSE IF settings.totp /\ settings.secret # 0 /\ VerifyToken(settings.secret, req[p].code)
     THEN Verified(p)
     ELSE Goto(p, "otp")
  /\ UNCHANGED <<settings, batches, keys, bounds>>

\* verifyOtp of the purposes mfa_disable and mfa_auth (no code of the latter is
\* ever generated); any other code is a wrong try, and the last one invalidates.
TryOtp(p) ==
  /\ At(p, "otp")
  /\ \/ /\ mailed /\ req[p].code.kind = "mail"
        /\ mailed' = FALSE
        /\ Verified(p)
     \/ /\ ~(mailed /\ req[p].code.kind = "mail")
        /\ mailed' \in {mailed, FALSE}
        /\ Goto(p, "findCodes")
  /\ UNCHANGED <<settings, batches, setup, temps, lastSecret, lastTemp, bounds>>

\* MUTANT: isUsed is not looked at.
AcceptsUsed(c) == c.kind = "recovery" /\ codes[c.of] # "none"

Accepts(c) == c.kind = "recovery" /\ codes[c.of] = "unused"

FindCodes(p) ==
  /\ At(p, "findCodes")
  /\ IF Accepts(req[p].code) THEN Goto(p, "markCode") ELSE Finish(p)
  /\ UNCHANGED <<settings, batches, keys, bounds>>

MarkCode(p) ==
  /\ At(p, "markCode")
  /\ LET b == req[p].code.of IN
     codes' = [codes EXCEPT ![b] = IF @ = "none" THEN @ ELSE "used"]
  /\ Verified(p)
  /\ UNCHANGED <<settings, lastBatch, dead, torn, keys, bounds>>

-----------------------------------------------------------------------------
(* initiateTotpSetup, verifyAndEnableTotp, enableEmailMfa, disableMfa,      *)
(* rotateRecoveryCodes, sendMfaDisableOtp: of a signed-in user.             *)

InitiateSetup(p) ==
  /\ "setup" \in ops /\ lastSecret < MaxSecrets
  /\ At(p, "idle")
  /\ lastSecret' = lastSecret + 1
  /\ setup' = lastSecret + 1
  /\ UNCHANGED <<settings, batches, temps, mailed, lastTemp, bounds, req>>

BeginEnableTotp(p, c) ==
  /\ BatchLeft
  /\ Start(p, "enableTotp", [Idle EXCEPT !.pc = "getSetup", !.code = c, !.ended = Stored])
  /\ UNCHANGED <<settings, batches, keys, bounds>>

GetSetup(p) ==
  /\ At(p, "getSetup")
  /\ IF setup # 0 /\ VerifyToken(setup, req[p].code)
     THEN Become(p, [req[p] EXCEPT !.pc = "findRow", !.secret = setup])
     ELSE Finish(p)
  /\ UNCHANGED <<settings, batches, keys, bounds>>

BeginEnableEmail(p) ==
  /\ BatchLeft
  /\ Start(p, "enableEmail", [Idle EXCEPT !.pc = "findRow", !.ended = Stored])
  /\ UNCHANGED <<settings, batches, keys, bounds>>

BeginDisable(p, c) ==
  /\ Start(p, "disable", [Idle EXCEPT !.pc = "enabled?", !.code = c, !.late = Ended(c),
                            !.ended = Stored])
  /\ UNCHANGED <<settings, batches, keys, bounds>>

CheckEnabled(p) ==
  /\ At(p, "enabled?")
  /\ IF settings.totp \/ settings.email THEN Goto(p, "settings") ELSE Finish(p)
  /\ UNCHANGED <<settings, batches, keys, bounds>>

BeginRotate(p, c) ==
  /\ BatchLeft
  /\ Start(p, "rotate", [Idle EXCEPT !.pc = "settings", !.code = c, !.late = Ended(c),
                           !.ended = Stored])
  /\ UNCHANGED <<settings, batches, keys, bounds>>

\* generateOtp of purpose mfa_disable.
SendDisableOtp(p) ==
  /\ "mail" \in ops /\ At(p, "idle")
  /\ mailed' = TRUE
  /\ UNCHANGED <<settings, batches, setup, temps, lastSecret, lastTemp, bounds, req>>

-----------------------------------------------------------------------------
(* upsertSettings and saveRecoveryCodes.                                   *)

FindRow(p) ==
  /\ At(p, "findRow")
  /\ Become(p, [req[p] EXCEPT !.pc = "writeRow", !.copy = settings, !.stale = FALSE])
  /\ UNCHANGED <<settings, batches, keys, bounds>>

\* MUTANT: what the caller does not mention is written as off.
MergeDefaults(why, secret, copy) ==
  CASE why = "enableTotp"  -> [NoSettings EXCEPT !.there = TRUE, !.totp = TRUE,
                                                 !.secret = secret]
    [] why = "enableEmail" -> [NoSettings EXCEPT !.there = TRUE, !.email = TRUE]
    [] why = "disable"     -> [NoSettings EXCEPT !.there = TRUE]

\* MUTANT: a disabling clears the secret and leaves the factor on.
MergeSecretOnly(why, secret, copy) ==
  CASE why = "enableTotp"  -> [copy EXCEPT !.there = TRUE, !.totp = TRUE, !.secret = secret]
    [] why = "enableEmail" -> [copy EXCEPT !.there = TRUE, !.email = TRUE]
    [] why = "disable"     -> [copy EXCEPT !.there = TRUE, !.secret = 0, !.email = FALSE]

\* What the caller does not mention is written back as it was read.
Merge(why, secret, copy) ==
  CASE why = "enableTotp"  -> [copy EXCEPT !.there = TRUE, !.totp = TRUE, !.secret = secret]
    [] why = "enableEmail" -> [copy EXCEPT !.there = TRUE, !.email = TRUE]
    [] why = "disable"     -> [NoSettings EXCEPT !.there = TRUE]

\* The other requests' copies are stale, and those that wrote before are crossed.
Cross(p, r) ==
  req' = [q \in Procs |->
            IF q = p THEN r
            ELSE [req[q] EXCEPT !.stale = @ \/ req[q].pc = "writeRow",
                                !.crossed = @ \/ req[q].pc \in {"delCodes", "insertCodes"}]]

\* The unique index refuses a second row.
WriteRow(p) ==
  /\ At(p, "writeRow")
  /\ IF settings.there /\ ~req[p].copy.there
     THEN UNCHANGED settings /\ Finish(p)
     ELSE /\ settings' = Merge(req[p].why, req[p].secret, req[p].copy)
          /\ Cross(p, [req[p] EXCEPT !.pc = "delCodes", !.copy = NoSettings, !.stale = FALSE])
  /\ UNCHANGED <<batches, keys, bounds>>

\* The last step of a disabling, the first of a save.
DelCodes(p) ==
  /\ At(p, "delCodes")
  /\ codes' = [b \in DOMAIN codes |-> "none"]
  /\ \/ /\ req[p].why = "disable"
        /\ dead' = dead \cup req[p].ended
        /\ torn' = (torn \/ req[p].crossed)
        /\ Finish(p)
     \/ /\ req[p].why # "disable"
        /\ UNCHANGED <<dead, torn>>
        /\ Goto(p, "insertCodes")
  /\ UNCHANGED <<settings, lastBatch, keys, bounds>>

InsertCodes(p) ==
  /\ At(p, "insertCodes")
  /\ lastBatch' = lastBatch + 1
  /\ codes' = [codes EXCEPT ![lastBatch + 1] = "unused"]
  /\ dead' = dead \cup req[p].ended
  /\ torn' = FALSE
  /\ Cross(p, IF req[p].why = "enableTotp" THEN [Idle EXCEPT !.pc = "delSetup"] ELSE Idle)
  /\ UNCHANGED <<settings, keys, bounds>>

DelSetup(p) ==
  /\ At(p, "delSetup")
  /\ setup' = 0
  /\ Finish(p)
  /\ UNCHANGED <<settings, batches, temps, mailed, lastSecret, lastTemp, bounds>>

-----------------------------------------------------------------------------
\* A statement throws or the instance dies.
Abort(p) ==
  /\ ~At(p, "idle") /\ deaths < MaxDeaths
  /\ deaths' = deaths + 1
  /\ torn' = (torn \/ At(p, "delCodes") \/ At(p, "insertCodes"))
  /\ Finish(p)
  /\ UNCHANGED <<ops, settings, codes, lastBatch, dead, keys>>

SetupExpires ==
  /\ setup # 0
  /\ setup' = 0
  /\ UNCHANGED <<settings, batches, temps, mailed, lastSecret, lastTemp, bounds, req>>

TempExpires(t) ==
  /\ t \in temps
  /\ temps' = temps \ {t}
  /\ UNCHANGED <<settings, batches, setup, mailed, lastSecret, lastTemp, bounds, req>>

Begin(p) ==
  \/ BeginLogin(p) \/ InitiateSetup(p) \/ BeginEnableEmail(p) \/ SendDisableOtp(p)
  \/ \E c \in Known : \/ \E t \in 1..lastTemp : BeginVerify(p, t, c)
                      \/ BeginEnableTotp(p, c) \/ BeginDisable(p, c) \/ BeginRotate(p, c)

Continue(p) ==
  \/ ReadMfa(p) \/ SetTemp(p) \/ GetTemp(p) \/ DelTemp(p)
  \/ ReadSettings(p) \/ TryOtp(p) \/ FindCodes(p) \/ MarkCode(p)
  \/ GetSetup(p) \/ CheckEnabled(p) \/ FindRow(p) \/ WriteRow(p)
  \/ DelCodes(p) \/ InsertCodes(p) \/ DelSetup(p)

Next ==
  \/ \E p \in Procs : Begin(p) \/ Continue(p) \/ Abort(p)
  \/ SetupExpires
  \/ \E t \in 1..MaxTemps : TempExpires(t)

Spec == Init /\ [][Next]_vars

-----------------------------------------------------------------------------
(* Properties.                                                             *)

\* The rows, the keys and the requests hold values of their types.
TypeOK ==
  /\ ops \in Mixes
  /\ settings \in Settings /\ (settings.totp => settings.there /\ settings.secret # 0)
  /\ codes \in [1..MaxBatches -> RecoveryCode]
  /\ setup \in 0..lastSecret /\ temps \subseteq 1..lastTemp /\ mailed \in BOOLEAN
  /\ lastSecret \in 0..MaxSecrets /\ lastBatch \in 0..MaxBatches /\ lastTemp \in 0..MaxTemps
  /\ dead \subseteq 1..lastBatch /\ torn \in BOOLEAN
  /\ deaths \in 0..MaxDeaths
  /\ req \in [Procs -> Request]

\* A temporary token that was spent or expired when it was presented grants no
\* sign-in, and a recovery code that was used, or replaced by a completed save or
\* disabling, grants nothing: either works twice only for requests that overlap.
SpentGrantsNothing == \A p \in Procs : req[p].late => req[p].pc \notin AcceptedLabels

\* A request that enables one factor changes the settings of the other only by
\* writing back a copy that another request's write made stale.
SettingsKept ==
  [][\A p \in Procs :
       WriteRow(p) /\ settings' # settings =>
         \/ req[p].stale
         \/ req[p].why = "disable"
         \/ req[p].why = "enableTotp" /\ settings'.email = settings.email
         \/ req[p].why = "enableEmail" /\ settings'.totp = settings.totp
                                       /\ settings'.secret = settings.secret]_vars

\* Whoever must present a TOTP has recovery codes, unless they are just being
\* saved, or a save died half-way or met a disabling.
EnabledHasCodes ==
  settings.totp /\ ~torn => \/ Stored # {}
                            \/ \E p \in Procs : req[p].pc \in {"delCodes", "insertCodes"}
=============================================================================
