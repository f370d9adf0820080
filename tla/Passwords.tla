----------------------------- MODULE Passwords -----------------------------
(***************************************************************************)
(* The password of one account: forgotten and reset by a mailed token, or  *)
(* changed by its owner, with the history that forbids recent passwords.   *)
(*                                                                         *)
(* A hash stands for its password: every check of the code is an Argon2    *)
(* verification of a plain password against a stored hash.  What a reset   *)
(* or a change does to the sessions and to the lock of the account once    *)
(* the password is stored is in SessionTokens and Accounts.                *)
(***************************************************************************)
EXTENDS RedisKeys, Sequences, FiniteSets

CONSTANTS
  Procs,         \* request slots
  Passwords,     \* the passwords people choose
  Profile,       \* what validatePasswordPolicy looks at, for each of them
  None,          \* no row in `credentials`
  Mixes,         \* bound: one of them is what clients do, see Mix
  HistoryLimit,  \* passwordHistoryLimit (5)
  MaxDaily,      \* maxDailyRequests (5)
  MaxTokens,     \* bound: tokens ever generated, in any mix
  MaxDeaths      \* bound: requests that die half-way

AllOps == {"forgot", "reset", "change"}

\* The operations of clients, the tokens ever generated, the passwords chosen.
Mix == [ops: SUBSET AllOps, tokens: 0..MaxTokens, words: SUBSET Passwords]

ASSUME ProcsAssumption == IsFiniteSet(Procs)
ASSUME MixAssumption == Mixes \subseteq Mix
ASSUME LimitAssumption ==
  /\ HistoryLimit \in Nat \ {0} /\ MaxDaily \in Nat \ {0}
  /\ MaxTokens \in Nat /\ MaxDeaths \in Nat
ASSUME PasswordAssumption ==
  /\ None \notin Passwords
  /\ Profile \in [Passwords ->
       [length: Nat, common: BOOLEAN, upper: BOOLEAN, lower: BOOLEAN, digit: BOOLEAN,
        special: BOOLEAN, hasUsername: BOOLEAN, hasEmail: BOOLEAN]]

VARIABLES
  mix,           \* what clients do in this behaviour
  cred,          \* credentials.passwordHash
  hist,          \* password_history by createdAt; rows beyond the limit are never read
  tokens,        \* password_reset_tokens: the row of each token
  cooldown,      \* the key pwd:reset:cooldown
  daily,         \* the key pwd:reset:daily
  lastToken,     \* tokens generated so far
  past,          \* passwords that were replaced, the newest last
  doubt,         \* changes until the history is that of `past` again
  dead,          \* tokens that a completed reset or a newer token ended
  sent,          \* mails sent since the daily key last expired
  deaths,        \* requests that died so far
  req            \* local state of the requests in flight

vars == <<mix, cred, hist, tokens, cooldown, daily, lastToken, past, doubt, dead, sent,
          deaths, req>>
secrets == <<mix, cred, hist, past, doubt>>
limits == <<cooldown, daily, sent>>

-----------------------------------------------------------------------------
Credentials == Passwords \cup {None}

\* The rows that are read; addEntry keeps the order of createdAt.
History == {s \in Seq(Passwords) : Len(s) <= HistoryLimit}

TokenRow == [there: BOOLEAN, used: BOOLEAN, live: BOOLEAN]

NoRow == [there |-> FALSE, used |-> FALSE, live |-> FALSE]

ForgotLabels == {"cooldown?", "daily?", "deleteTokens", "insertToken", "mail",
                 "setCooldown", "incrDaily", "expireDaily"}
\* The statements between the first read of the secrets and their update.
ChangeLabels == {"history", "getCred", "addEntry", "update"}
Labels == {"idle", "findToken", "verifyOld", "markUsed"} \cup ForgotLabels \cup ChangeLabels

Request == [pc: Labels,
            token: 0..MaxTokens,             \* presented or generated, 0 for a change
            ended: SUBSET (1..MaxTokens),    \* tokens that were stored on arrival
            old: Credentials,      \* the owner's, later the stored one
            new: Credentials,
            crossed: BOOLEAN,                \* another change wrote in between
            late: BOOLEAN]                   \* the token had ended on arrival

Idle == [pc |-> "idle", token |-> 0, ended |-> {}, old |-> None, new |-> None,
         crossed |-> FALSE, late |-> FALSE]

\* What register stores after createUser, if it gets so far; an account that OAuth
\* created has no credentials.
Registered(w, h) ==
  \/ w = None /\ h = <<>>
  \/ w # None /\ h \in {<<>>, <<w>>}

Init ==
  /\ mix \in Mixes
  /\ cred \in mix.words \cup {None}
  /\ hist \in {<<>>} \cup {<<w>> : w \in mix.words}
  /\ Registered(cred, hist)
  /\ tokens = [t \in 1..MaxTokens |-> NoRow]
  /\ cooldown = Absent /\ daily = Absent
  /\ lastToken = 0
  /\ past = <<>> /\ doubt = 0
  /\ dead = {}
  /\ sent = 0 /\ deaths = 0
  /\ req = [p \in Procs |-> Idle]

-----------------------------------------------------------------------------
At(p, l) == req[p].pc = l
Become(p, r) == req' = [req EXCEPT ![p] = r]
Goto(p, l) == Become(p, [req[p] EXCEPT !.pc = l])
Finish(p) == Become(p, Idle)

Elements(s) == {s[i] : i \in DOMAIN s}

Newest(s, n) == IF Len(s) <= n THEN s ELSE SubSeq(s, Len(s) - n + 1, Len(s))

\* MUTANT: the entries that are compared are one fewer.
RecentOffByOne(s) == Newest(s, HistoryLimit - 1)

\* getRecentHashes.
Recent(s) == Newest(s, HistoryLimit)

\* validatePasswordPolicy, in its order.
PolicyAccepts(w) == LET f == Profile[w] IN
  /\ f.length >= 12 /\ f.length <= 128
  /\ ~f.common
  /\ f.upper /\ f.lower /\ f.digit /\ f.special
  /\ ~f.hasUsername
  /\ ~f.hasEmail

Stored == {t \in 1..MaxTokens : tokens[t].there}

-----------------------------------------------------------------------------
(* generateResetToken.                                                     *)

Generating == {p \in Procs : req[p].pc \in {"cooldown?", "daily?", "deleteTokens",
                                            "insertToken"}}

BeginForgot(p) ==
  /\ At(p, "idle") /\ "forgot" \in mix.ops
  /\ lastToken + Cardinality(Generating) < mix.tokens
  /\ Become(p, [Idle EXCEPT !.pc = "cooldown?", !.ended = Stored])
  /\ UNCHANGED <<secrets, tokens, limits, lastToken, dead, deaths>>

CheckCooldown(p) ==
  /\ At(p, "cooldown?")
  /\ IF Present(cooldown) THEN Finish(p) ELSE Goto(p, "daily?")
  /\ UNCHANGED <<secrets, tokens, limits, lastToken, dead, deaths>>

\* MUTANT: an off-by-one in the comparison with maxDailyRequests.
CheckDailyOffByOne(p) ==
  /\ At(p, "daily?")
  /\ IF daily.val > MaxDaily THEN Finish(p) ELSE Goto(p, "deleteTokens")
  /\ UNCHANGED <<secrets, tokens, limits, lastToken, dead, deaths>>

CheckDaily(p) ==
  /\ At(p, "daily?")
  /\ IF daily.val >= MaxDaily THEN Finish(p) ELSE Goto(p, "deleteTokens")
  /\ UNCHANGED <<secrets, tokens, limits, lastToken, dead, deaths>>

\* invalidateAllForUser.
DeleteTokens(p) ==
  /\ At(p, "deleteTokens")
  /\ tokens' = [t \in DOMAIN tokens |-> NoRow]
  /\ Goto(p, "insertToken")
  /\ UNCHANGED <<secrets, limits, lastToken, dead, deaths>>

InsertToken(p) ==
  /\ At(p, "insertToken")
  /\ lastToken' = lastToken + 1
  /\ tokens' = [tokens EXCEPT ![lastToken + 1] = [there |-> TRUE, used |-> FALSE, live |-> TRUE]]
  /\ Become(p, [req[p] EXCEPT !.pc = "mail", !.token = lastToken + 1])
  /\ UNCHANGED <<secrets, limits, dead, deaths>>

\* A mail that cannot be sent throws: Abort.
Mail(p) ==
  /\ At(p, "mail")
  /\ sent' = sent + 1
  /\ dead' = dead \cup req[p].ended
  /\ Become(p, [Idle EXCEPT !.pc = "setCooldown"])
  /\ UNCHANGED <<secrets, tokens, cooldown, daily, lastToken, deaths>>

SetCooldown(p) ==
  /\ At(p, "setCooldown")
  /\ cooldown' = Key(1)
  /\ Goto(p, "incrDaily")
  /\ UNCHANGED <<secrets, tokens, daily, sent, lastToken, dead, deaths>>

IncrDaily(p) ==
  /\ At(p, "incrDaily")
  /\ daily' = Incr(daily)
  /\ IF Present(daily) THEN Finish(p) ELSE Goto(p, "expireDaily")
  /\ UNCHANGED <<secrets, tokens, cooldown, sent, lastToken, dead, deaths>>

ExpireDaily(p) ==
  /\ At(p, "expireDaily")
  /\ daily' = Expire(daily)
  /\ Finish(p)
  /\ UNCHANGED <<secrets, tokens, cooldown, sent, lastToken, dead, deaths>>

-----------------------------------------------------------------------------
(* resetPassword, for whoever was mailed the token t.                      *)

BeginReset(p, t, w) ==
  /\ At(p, "idle") /\ "reset" \in mix.ops
  /\ t \in 1..lastToken
  /\ Become(p, [Idle EXCEPT !.pc = "findToken", !.token = t, !.new = w, !.late = t \in dead])
  /\ UNCHANGED <<secrets, tokens, limits, lastToken, dead, deaths>>

\* MUTANT: usedAt is not looked at.
UsableUnexpired(row) == row.there /\ row.live

Usable(row) == row.there /\ ~row.used /\ row.live

FindToken(p) ==
  /\ At(p, "findToken")
  /\ IF Usable(tokens[req[p].token]) /\ PolicyAccepts(req[p].new)
     THEN Goto(p, "history") ELSE Finish(p)
  /\ UNCHANGED <<secrets, tokens, limits, lastToken, dead, deaths>>

\* MUTANT: whether there are credentials is not asked.
GetCredUnasked(p) ==
  /\ At(p, "getCred")
  /\ Become(p, [req[p] EXCEPT !.pc = "addEntry", !.old = cred])
  /\ UNCHANGED <<secrets, tokens, limits, lastToken, dead, deaths>>

GetCred(p) ==
  /\ At(p, "getCred")
  /\ Become(p, [req[p] EXCEPT !.pc = IF cred = None THEN "update" ELSE "addEntry",
                              !.old = cred])
  /\ UNCHANGED <<secrets, tokens, limits, lastToken, dead, deaths>>

MarkUsed(p) ==
  /\ At(p, "markUsed")
  /\ LET t == req[p].token IN
     /\ tokens' = [tokens EXCEPT ![t].used = tokens[t].there]
     /\ dead' = dead \cup {t}
  /\ Finish(p)
  /\ UNCHANGED <<secrets, limits, lastToken, deaths>>

-----------------------------------------------------------------------------
(* changePassword.                                                         *)

BeginChange(p, v, w) ==
  /\ At(p, "idle") /\ "change" \in mix.ops
  /\ Become(p, [Idle EXCEPT !.pc = "verifyOld", !.old = v, !.new = w])
  /\ UNCHANGED <<secrets, tokens, limits, lastToken, dead, deaths>>

\* From here on `old` is the hash that was read.
VerifyOld(p) ==
  /\ At(p, "verifyOld")
  /\ IF cred # None /\ req[p].old = cred /\ PolicyAccepts(req[p].new)
     THEN Goto(p, "history") ELSE Finish(p)
  /\ UNCHANGED <<secrets, tokens, limits, lastToken, dead, deaths>>

-----------------------------------------------------------------------------
(* The steps that both have in common.                                     *)

\* p writes; the changes in flight are crossed by it.
Cross(p, r) ==
  req' = [q \in Procs |-> IF q = p THEN r
                          ELSE [req[q] EXCEPT !.crossed = @ \/ req[q].pc \in ChangeLabels]]

CheckHistory(p) ==
  /\ At(p, "history")
  /\ IF req[p].new \in Elements(Recent(hist)) THEN Finish(p)
     ELSE Goto(p, IF req[p].token = 0 THEN "addEntry" ELSE "getCred")
  /\ UNCHANGED <<secrets, tokens, limits, lastToken, dead, deaths>>

\* An entry added by a request that another one crossed repeats an older one.
AddEntry(p) ==
  /\ At(p, "addEntry")
  /\ hist' = Newest(Append(hist, req[p].old), HistoryLimit)
  /\ doubt' = IF req[p].crossed THEN HistoryLimit ELSE doubt
  /\ Cross(p, [req[p] EXCEPT !.pc = "update"])
  /\ UNCHANGED <<mix, cred, past, tokens, limits, lastToken, dead, deaths>>

\* updatePassword changes no row when there is none.
Update(p) ==
  /\ At(p, "update")
  /\ \/ /\ cred = None
        /\ UNCHANGED secrets
        /\ Become(p, [req[p] EXCEPT !.pc = "markUsed"])
     \/ /\ cred # None
        /\ cred' = req[p].new
        /\ past' = Newest(Append(past, cred), HistoryLimit)
        /\ doubt' = IF req[p].crossed \/ \E q \in Procs \ {p} : At(q, "update")
                    THEN HistoryLimit ELSE IF doubt > 0 THEN doubt - 1 ELSE 0
        /\ Cross(p, IF req[p].token = 0 THEN Idle
                    ELSE [req[p] EXCEPT !.pc = "markUsed"])
        /\ UNCHANGED <<mix, hist>>
  /\ UNCHANGED <<tokens, limits, lastToken, dead, deaths>>

-----------------------------------------------------------------------------
\* A statement throws or the instance dies; an entry whose update never comes is
\* one too many.
Abort(p) ==
  /\ ~At(p, "idle") /\ deaths < MaxDeaths
  /\ deaths' = deaths + 1
  /\ doubt' = IF At(p, "update") THEN HistoryLimit ELSE doubt
  /\ Finish(p)
  /\ UNCHANGED <<mix, cred, hist, past, tokens, limits, lastToken, dead>>

CooldownExpires ==
  /\ cooldown.ttl = "expires"
  /\ cooldown' = Absent
  /\ UNCHANGED <<secrets, tokens, daily, sent, lastToken, dead, deaths, req>>

DailyExpires ==
  /\ daily.ttl = "expires"
  /\ daily' = Absent /\ sent' = 0
  /\ UNCHANGED <<secrets, tokens, cooldown, lastToken, dead, deaths, req>>

\* The 15 minutes of a token are over; its row stays.
TokenExpires(t) ==
  /\ tokens[t].there /\ tokens[t].live
  /\ tokens' = [tokens EXCEPT ![t].live = FALSE]
  /\ UNCHANGED <<secrets, limits, lastToken, dead, deaths, req>>

Begin(p) ==
  \/ BeginForgot(p)
  \/ \E w \in mix.words : \/ \E t \in 1..MaxTokens : BeginReset(p, t, w)
                          \/ \E v \in mix.words : BeginChange(p, v, w)

Continue(p) ==
  \/ CheckCooldown(p) \/ CheckDaily(p) \/ DeleteTokens(p) \/ InsertToken(p) \/ Mail(p)
  \/ SetCooldown(p) \/ IncrDaily(p) \/ ExpireDaily(p)
  \/ FindToken(p) \/ GetCred(p) \/ MarkUsed(p) \/ VerifyOld(p)
  \/ CheckHistory(p) \/ AddEntry(p) \/ Update(p)

Next ==
  \/ \E p \in Procs : Begin(p) \/ Continue(p) \/ Abort(p)
  \/ CooldownExpires \/ DailyExpires
  \/ \E t \in 1..MaxTokens : TokenExpires(t)

Spec == Init /\ [][Next]_vars

-----------------------------------------------------------------------------
(* Properties.                                                             *)

\* The tables, the keys and the requests hold values of their types; the history
\* that is read is never longer than its limit.
TypeOK ==
  /\ mix \in Mixes
  /\ cred \in Credentials
  /\ {hist, past} \subseteq History
  /\ doubt \in 0..HistoryLimit
  /\ tokens \in [1..MaxTokens -> TokenRow]
  /\ cooldown \in RedisKey /\ daily \in RedisKey
  /\ lastToken \in 0..MaxTokens
  /\ dead \subseteq 1..lastToken
  /\ sent \in Nat /\ deaths \in 0..MaxDeaths
  /\ req \in [Procs -> Request]

\* A reset replaces no password if, when it arrived, its token had been marked as
\* used or a newer token had been mailed for which it was already stored.  So a token
\* works twice only for resets that overlap, or when a reset replaced the password and
\* died before it marked the token, and after its successor only for a reset or a
\* token that overlaps the request for that successor.
EndedTokenSetsNothing ==
  \A p \in Procs : req[p].late => req[p].pc \in {"idle", "findToken"}

\* A password that comes into force is none of the last HistoryLimit that were
\* replaced, unless changes overlapped or one died between its two writes since
\* then; HistoryLimit further changes put the history right again.
NoRecentReuse ==
  [][\A p \in Procs :
       Update(p) /\ cred # None /\ doubt = 0 /\ doubt' = 0 =>
         req[p].new \notin Elements(past)]_vars

\* The mails of a day exceed the daily limit by less than the requests that
\* overlap, and one more for each that died before it was counted.
MailsBounded == sent < MaxDaily + Cardinality(Procs) + deaths
=============================================================================
