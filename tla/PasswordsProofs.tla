-------------------------- MODULE PasswordsProofs --------------------------
(***************************************************************************)
(* A token that ended sets no password, a recent password does not come    *)
(* back, and the mails of a day stay within their bound, for any number of *)
(* requests, tokens and deaths.                                            *)
(***************************************************************************)
EXTENDS Passwords, FiniteSetTheorems, SequenceTheorems, TLAPS

BeforeMail == {"cooldown?", "daily?", "deleteTokens", "insertToken", "mail"}

\* What a request knows of the tokens: those it deleted stay deleted, and one that
\* had ended is not accepted.
TokenOK(r, rows, last, ends) ==
  /\ r.token <= last
  /\ r.pc \in {"findToken", "markUsed"} => r.token # 0
  /\ r.pc \in BeforeMail => r.ended \subseteq 1..last
  /\ r.pc \in {"insertToken", "mail"} => \A t \in r.ended : ~rows[t].there
  /\ r.late => r.token \in ends /\ r.pc \in {"idle", "findToken"}

\* What it knows of the password: a change has seen one.
SecretOK(r, c) ==
  /\ r.pc \in ChangeLabels \cup {"findToken", "verifyOld"} => r.new # None
  /\ r.pc \in ChangeLabels /\ r.token = 0 => c # None
  /\ r.pc = "addEntry" \/ (r.pc \in {"verifyOld", "history"} /\ r.token = 0) => r.old # None

RequestsOK ==
  /\ req \in [Procs -> Request]
  /\ \A p \in Procs : TokenOK(req[p], tokens, lastToken, dead) /\ SecretOK(req[p], cred)

SecretsOK == mix \in Mixes /\ cred \in Credentials /\ {hist, past} \subseteq History
             /\ doubt \in 0..HistoryLimit

TokensOK ==
  /\ tokens \in [1..MaxTokens -> TokenRow]
  /\ lastToken \in 0..MaxTokens
  /\ dead \subseteq 1..lastToken
  /\ \A t \in dead : tokens[t].there => tokens[t].used
  /\ \A t \in 1..MaxTokens : tokens[t].there => t <= lastToken

KeysOK ==
  /\ cooldown \in RedisKey /\ daily \in RedisKey /\ sent \in Nat /\ deaths \in 0..MaxDeaths
  /\ ~Present(daily) => daily.val = 0

\* Requests at one of the labels.
Crowd(labels) == Cardinality({p \in Procs : req[p].pc \in labels})

GeneratingLabels == {"cooldown?", "daily?", "deleteTokens", "insertToken"}
UncountedLabels == {"setCooldown", "incrDaily"}
PassedLabels == {"deleteTokens", "insertToken", "mail"} \cup UncountedLabels

\* There is a token for everyone who may store one; who passed the check of the
\* daily key will count, or die, once at most.
CountsOK ==
  /\ lastToken + Crowd(GeneratingLabels) <= mix.tokens
  /\ daily.val + Crowd(PassedLabels) < MaxDaily + Cardinality(Procs)
  /\ sent <= daily.val + Crowd(UncountedLabels) + deaths

PInv == RequestsOK /\ SecretsOK /\ TokensOK /\ KeysOK /\ CountsOK

-----------------------------------------------------------------------------
\* The constants, as the proofs use them.
LEMMA Bounds ==
  /\ HistoryLimit \in Nat /\ HistoryLimit > 0 /\ MaxDaily \in Nat /\ MaxDaily > 0
  /\ MaxTokens \in Nat /\ MaxDeaths \in Nat /\ None \notin Passwords
BY LimitAssumption, PasswordAssumption

LEMMA MixFine == ASSUME mix \in Mixes PROVE mix.words \subseteq Passwords /\ mix.tokens \in 0..MaxTokens
BY MixAssumption DEF Mix

\* A request that is not in flight knows nothing.
LEMMA IdleFine ==
  /\ Idle \in Request /\ Idle.pc = "idle" /\ Idle.token = 0 /\ Idle.new = None
  /\ ~Idle.late
  /\ \A rows, ends, c : \A last \in Nat : TokenOK(Idle, rows, last, ends) /\ SecretOK(Idle, c)
BY Bounds DEF Idle, Request, Labels, ForgotLabels, ChangeLabels, Credentials, TokenOK, SecretOK,
   BeforeMail

\* The last n elements of a sequence.
LEMMA NewestFine ==
  ASSUME NEW s \in Seq(Passwords), NEW n \in Nat
  PROVE  Newest(s, n) \in Seq(Passwords) /\ Len(Newest(s, n)) <= n
<1>1. Len(s) \in Nat /\ \A i \in 1..Len(s) : s[i] \in Passwords
  BY ElementOfSeq, LenProperties
<1>2. CASE Len(s) <= n
  BY <1>1, <1>2 DEF Newest
<1>3. CASE Len(s) > n
  <2> DEFINE m == Len(s) - n + 1
  <2>1. m \in Int /\ Len(s) \in Int /\ m >= 1
    BY <1>1, <1>3
  <2>2. \A i \in m..Len(s) : s[i] \in Passwords
    BY <1>1, <2>1
  <2>3. SubSeq(s, m, Len(s)) \in Seq(Passwords)
        /\ Len(SubSeq(s, m, Len(s))) = IF m <= Len(s) THEN Len(s) - m + 1 ELSE 0
    BY <2>1, <2>2, SubSeqProperties
  <2>4. Len(SubSeq(s, m, Len(s))) <= n
    BY <1>1, <1>3, <2>3
  <2> QED BY <1>1, <1>3, <2>3, <2>4 DEF Newest
<1> QED BY <1>1, <1>2, <1>3

\* The number of requests at some labels changes with the one request that moves.
LEMMA CrowdFine ==
  ASSUME NEW labels
  PROVE  Crowd(labels) \in Nat /\ Crowd(labels) <= Cardinality(Procs) /\ Cardinality(Procs) \in Nat
         /\ \A p \in Procs : req[p].pc \in labels => Crowd(labels) >= 1
<1> DEFINE S == {p \in Procs : req[p].pc \in labels}
<1>1. S \in SUBSET Procs /\ IsFiniteSet(S) /\ Cardinality(S) <= Cardinality(Procs)
  BY ProcsAssumption, FS_Subset
<1>2. Cardinality(S) \in Nat /\ Cardinality(Procs) \in Nat
  BY <1>1, ProcsAssumption, FS_CardinalityType
<1>3. Cardinality(S) = 0 => S = {}
  BY <1>1, FS_EmptySet
<1> QED BY <1>1, <1>2, <1>3 DEF Crowd

LEMMA CrowdStep ==
  ASSUME NEW labels, NEW p \in Procs, \A q \in Procs \ {p} : req'[q].pc = req[q].pc
  PROVE  /\ Crowd(labels) \in Nat /\ Crowd(labels)' <= Cardinality(Procs)
         /\ (req'[p].pc \in labels <=> req[p].pc \in labels) => Crowd(labels)' = Crowd(labels)
         /\ req'[p].pc \in labels /\ req[p].pc \notin labels => Crowd(labels)' = Crowd(labels) + 1
         /\ req'[p].pc \notin labels /\ req[p].pc \in labels => Crowd(labels)' = Crowd(labels) - 1
<1> DEFINE S == {q \in Procs : req[q].pc \in labels}
           T == {q \in Procs : req'[q].pc \in labels}
<1>1. IsFiniteSet(S) /\ Cardinality(S) \in Nat /\ Cardinality(T) <= Cardinality(Procs)
  BY ProcsAssumption, FS_Subset, FS_CardinalityType
<1>2. CASE req'[p].pc \in labels
  <2>1. T = S \cup {p}
    BY <1>2
  <2>2. p \in S <=> req[p].pc \in labels
    OBVIOUS
  <2> HIDE DEF S, T
  <2>3. Cardinality(T) = IF p \in S THEN Cardinality(S) ELSE Cardinality(S) + 1
    BY <1>1, <2>1, FS_AddElement
  <2> QED BY <1>1, <1>2, <2>2, <2>3 DEF Crowd, S, T
<1>3. CASE req'[p].pc \notin labels
  <2>1. T = S \ {p}
    BY <1>3
  <2>2. p \in S <=> req[p].pc \in labels
    OBVIOUS
  <2> HIDE DEF S, T
  <2>3. Cardinality(T) = IF p \in S THEN Cardinality(S) - 1 ELSE Cardinality(S)
    BY <1>1, <2>1, FS_RemoveElement
  <2> QED BY <1>1, <1>3, <2>2, <2>3 DEF Crowd, S, T
<1> QED BY <1>2, <1>3

-----------------------------------------------------------------------------
(* What a step does to the requests.                                       *)

\* What requests know is never taken back.
Monotone ==
  /\ lastToken \in Nat /\ lastToken' \in Nat /\ lastToken' >= lastToken
  /\ dead \subseteq dead'
  /\ cred # None => cred' # None
  /\ \A t \in 1..lastToken : tokens'[t].there => tokens[t].there

\* One request moves; the others keep what they know.
LEMMA RequestStep ==
  ASSUME RequestsOK, NEW p \in Procs, NEW r \in Request, Become(p, r) \/ Cross(p, r),
         TokenOK(r, tokens', lastToken', dead'), SecretOK(r, cred'), Monotone
  PROVE  RequestsOK' /\ req'[p].pc = r.pc /\ \A q \in Procs \ {p} : req'[q].pc = req[q].pc
<1>1. ASSUME NEW c \in Request, TokenOK(c, tokens, lastToken, dead), SecretOK(c, cred)
      PROVE  TokenOK(c, tokens', lastToken', dead') /\ SecretOK(c, cred')
  <2>1. c.token \in Nat
    BY Bounds DEF Request
  <2>2. c.ended \subseteq 1..lastToken => c.ended \subseteq 1..lastToken'
    BY DEF Monotone
  <2>3. {"insertToken", "mail"} \subseteq BeforeMail
    BY DEF BeforeMail
  <2>4. TokenOK(c, tokens', lastToken', dead')
    BY <1>1, <2>1, <2>2, <2>3 DEF TokenOK, Monotone
  <2> QED BY <1>1, <2>4 DEF SecretOK, Monotone
<1>2. CASE Become(p, r)
  BY <1>1, <1>2 DEF RequestsOK, Become
<1>3. CASE Cross(p, r)
  <2>1. ASSUME NEW q \in Procs, q # p
        PROVE  /\ req'[q] \in Request /\ req'[q].pc = req[q].pc
               /\ TokenOK(req'[q], tokens', lastToken', dead') /\ SecretOK(req'[q], cred')
    <3> DEFINE b == req[q].crossed \/ req[q].pc \in ChangeLabels
               c == [req[q] EXCEPT !.crossed = b]
    <3>1. req'[q] = c /\ req[q] \in Request
      BY <1>3, <2>1 DEF Cross, RequestsOK
    <3>2. b \in BOOLEAN
      BY <3>1 DEF Request
    <3>3. c \in Request
      BY <3>1, <3>2 DEF Request
    <3>4. /\ c.pc = req[q].pc /\ c.token = req[q].token /\ c.ended = req[q].ended
          /\ c.old = req[q].old /\ c.new = req[q].new
      BY <3>1 DEF Request
    <3>5. c.late <=> req[q].late
      BY <3>1 DEF Request
    <3> HIDE DEF c
    <3>6. TokenOK(c, tokens, lastToken, dead) /\ SecretOK(c, cred)
      BY <3>4, <3>5 DEF RequestsOK, TokenOK, SecretOK
    <3> QED BY <1>1, <3>1, <3>3, <3>4, <3>6
  <2>2. req'[p] = r
    BY <1>3 DEF Cross
  <2>3. req' \in [Procs -> Request]
    <3>1. req' = [q \in Procs |-> req'[q]]
      BY <1>3 DEF Cross
    <3> QED BY <2>1, <2>2, <3>1
  <2> QED BY <2>1, <2>2, <2>3 DEF RequestsOK
<1> QED BY <1>2, <1>3

\* A step that writes no password and no token.
LEMMA QuietMonotone ==
  ASSUME TokensOK, UNCHANGED <<cred, tokens, lastToken, dead>> PROVE Monotone
BY Bounds DEF TokensOK, Monotone

LEMMA QuietFinish ==
  ASSUME RequestsOK, NEW p \in Procs, Finish(p), Monotone
  PROVE  RequestsOK' /\ req'[p].pc = "idle" /\ \A q \in Procs \ {p} : req'[q].pc = req[q].pc
BY IdleFine, RequestStep DEF Finish, Monotone

\* A request that goes on with what it knows.
LEMMA GotoStep ==
  ASSUME RequestsOK, NEW p \in Procs, NEW l \in Labels, Goto(p, l), Monotone,
         TokenOK([req[p] EXCEPT !.pc = l], tokens', lastToken', dead'),
         SecretOK([req[p] EXCEPT !.pc = l], cred')
  PROVE  RequestsOK' /\ req'[p].pc = l /\ \A q \in Procs \ {p} : req'[q].pc = req[q].pc
<1> DEFINE r == [req[p] EXCEPT !.pc = l]
<1>1. r \in Request /\ r.pc = l
  BY DEF RequestsOK, Request
<1>2. Become(p, r)
  BY DEF Goto
<1> HIDE DEF r
<1> QED BY <1>1, <1>2, RequestStep DEF r

\* From Idle to a label of generateResetToken at which nothing was read yet.
LEMMA LaterStep ==
  ASSUME RequestsOK, NEW p \in Procs, NEW l \in {"setCooldown", "incrDaily", "expireDaily"},
         Goto(p, l) \/ Become(p, [Idle EXCEPT !.pc = l]), Monotone,
         req[p].pc \in {"mail", "setCooldown", "incrDaily"}
  PROVE  RequestsOK' /\ req'[p].pc = l /\ \A q \in Procs \ {p} : req'[q].pc = req[q].pc
<1>1. l \in Labels /\ req[p] \in Request /\ lastToken \in Nat /\ lastToken' \in Nat
      /\ lastToken' >= lastToken /\ TokenOK(req[p], tokens, lastToken, dead)
  BY DEF Labels, ForgotLabels, RequestsOK, Monotone
<1>2. CASE Become(p, [Idle EXCEPT !.pc = l])
  <2> DEFINE r == [Idle EXCEPT !.pc = l]
  <2>1. r \in Request /\ r.pc = l /\ r.token = 0
    BY <1>1, IdleFine DEF Request
  <2>2. ~r.late
    BY IdleFine DEF Request
  <2>3. Become(p, r)
    BY <1>2
  <2> HIDE DEF r
  <2>4. TokenOK(r, tokens', lastToken', dead') /\ SecretOK(r, cred')
    BY <1>1, <2>1, <2>2 DEF TokenOK, SecretOK, BeforeMail, ChangeLabels
  <2> QED BY <2>1, <2>3, <2>4, RequestStep
<1>3. CASE Goto(p, l)
  <2> DEFINE r == [req[p] EXCEPT !.pc = l]
  <2>1. r.pc = l /\ r.token = req[p].token /\ r.token \in Nat
    BY <1>1, Bounds DEF Request
  <2>2. ~r.late
    BY <1>1 DEF TokenOK, Request
  <2> HIDE DEF r
  <2>3. TokenOK(r, tokens', lastToken', dead') /\ SecretOK(r, cred')
    BY <1>1, <2>1, <2>2 DEF TokenOK, SecretOK, BeforeMail, ChangeLabels
  <2> QED BY <1>1, <1>3, <2>3, GotoStep DEF r
<1> QED BY <1>2, <1>3

LEMMA NumbersFine ==
  ASSUME PInv
  PROVE  /\ lastToken \in Nat /\ mix.tokens \in Nat /\ daily.val \in Nat
         /\ sent \in Nat /\ deaths \in Nat /\ MaxDaily \in Nat /\ Cardinality(Procs) \in Nat
<1>1. Cardinality(Procs) \in Nat
  BY ProcsAssumption, FS_CardinalityType
<1> QED BY <1>1, Bounds, MixFine DEF PInv, KeysOK, TokensOK, SecretsOK, RedisKey

-----------------------------------------------------------------------------
(* What a step does to the counts.                                         *)

\* A request that moves and neither may store, nor passes a check, nor counts.
LEMMA CountsKept ==
  ASSUME PInv, NEW p \in Procs, \A q \in Procs \ {p} : req'[q].pc = req[q].pc,
         UNCHANGED <<mix, lastToken, sent, deaths>>, daily'.val = daily.val,
         req'[p].pc \in GeneratingLabels => req[p].pc \in GeneratingLabels,
         req'[p].pc \in PassedLabels => req[p].pc \in PassedLabels,
         req[p].pc \in UncountedLabels => req'[p].pc \in UncountedLabels
  PROVE  CountsOK'
<1>1. /\ Crowd(GeneratingLabels)' <= Crowd(GeneratingLabels) /\ Crowd(GeneratingLabels)' \in Int
      /\ Crowd(GeneratingLabels) \in Nat
  BY CrowdStep, CrowdFine
<1>2. /\ Crowd(PassedLabels)' <= Crowd(PassedLabels) /\ Crowd(PassedLabels)' \in Int
      /\ Crowd(PassedLabels) \in Nat
  BY CrowdStep, CrowdFine
<1>3. /\ Crowd(UncountedLabels)' >= Crowd(UncountedLabels) /\ Crowd(UncountedLabels)' \in Int
      /\ Crowd(UncountedLabels) \in Nat
  BY CrowdStep, CrowdFine
<1> QED BY <1>1, <1>2, <1>3, NumbersFine DEF PInv, CountsOK

\* One more request that may store a token.
LEMMA CountsRise ==
  ASSUME PInv, NEW p \in Procs, \A q \in Procs \ {p} : req'[q].pc = req[q].pc,
         UNCHANGED <<mix, lastToken, daily, sent, deaths>>,
         At(p, "idle"), req'[p].pc = "cooldown?",
         lastToken + Crowd(GeneratingLabels) < mix.tokens
  PROVE  CountsOK'
<1>0. /\ "idle" \notin GeneratingLabels /\ "cooldown?" \in GeneratingLabels
      /\ "idle" \notin PassedLabels /\ "cooldown?" \notin PassedLabels
      /\ "idle" \notin UncountedLabels /\ "cooldown?" \notin UncountedLabels
  BY DEF GeneratingLabels, PassedLabels, UncountedLabels
<1>1. Crowd(GeneratingLabels)' = Crowd(GeneratingLabels) + 1 /\ Crowd(GeneratingLabels) \in Nat
  BY <1>0, CrowdStep DEF At
<1>2. Crowd(PassedLabels)' = Crowd(PassedLabels) /\ Crowd(PassedLabels) \in Nat
  BY <1>0, CrowdStep DEF At
<1>3. Crowd(UncountedLabels)' = Crowd(UncountedLabels) /\ Crowd(UncountedLabels) \in Nat
  BY <1>0, CrowdStep DEF At
<1> QED BY <1>1, <1>2, <1>3, NumbersFine DEF PInv, CountsOK

\* One more request that may mail.
LEMMA CountsPass ==
  ASSUME PInv, NEW p \in Procs, \A q \in Procs \ {p} : req'[q].pc = req[q].pc,
         UNCHANGED <<mix, lastToken, daily, sent, deaths>>,
         At(p, "daily?"), req'[p].pc = "deleteTokens", daily.val < MaxDaily
  PROVE  CountsOK'
<1>0. /\ "daily?" \in GeneratingLabels /\ "deleteTokens" \in GeneratingLabels
      /\ "daily?" \notin PassedLabels /\ "deleteTokens" \in PassedLabels
      /\ "daily?" \notin UncountedLabels /\ "deleteTokens" \notin UncountedLabels
  BY DEF GeneratingLabels, PassedLabels, UncountedLabels
<1>1. Crowd(GeneratingLabels)' = Crowd(GeneratingLabels) /\ Crowd(GeneratingLabels) \in Nat
  BY <1>0, CrowdStep DEF At
<1>2. /\ Crowd(PassedLabels)' = Crowd(PassedLabels) + 1 /\ Crowd(PassedLabels) \in Nat
      /\ Crowd(PassedLabels)' <= Cardinality(Procs)
  BY <1>0, CrowdStep DEF At
<1>3. Crowd(UncountedLabels)' = Crowd(UncountedLabels) /\ Crowd(UncountedLabels) \in Nat
  BY <1>0, CrowdStep DEF At
<1> QED BY <1>1, <1>2, <1>3, NumbersFine DEF PInv, CountsOK

\* A token is stored.
LEMMA CountsStore ==
  ASSUME PInv, NEW p \in Procs, \A q \in Procs \ {p} : req'[q].pc = req[q].pc,
         UNCHANGED <<mix, daily, sent, deaths>>, lastToken' = lastToken + 1,
         At(p, "insertToken"), req'[p].pc = "mail"
  PROVE  CountsOK'
<1>0. /\ "insertToken" \in GeneratingLabels /\ "mail" \notin GeneratingLabels
      /\ "insertToken" \in PassedLabels /\ "mail" \in PassedLabels
      /\ "insertToken" \notin UncountedLabels /\ "mail" \notin UncountedLabels
  BY DEF GeneratingLabels, PassedLabels, UncountedLabels
<1>1. Crowd(GeneratingLabels)' = Crowd(GeneratingLabels) - 1 /\ Crowd(GeneratingLabels) \in Nat
  BY <1>0, CrowdStep DEF At
<1>2. Crowd(PassedLabels)' = Crowd(PassedLabels) /\ Crowd(PassedLabels) \in Nat
  BY <1>0, CrowdStep DEF At
<1>3. Crowd(UncountedLabels)' = Crowd(UncountedLabels) /\ Crowd(UncountedLabels) \in Nat
  BY <1>0, CrowdStep DEF At
<1> QED BY <1>1, <1>2, <1>3, NumbersFine DEF PInv, CountsOK

\* A mail is sent, and not counted yet.
LEMMA CountsMail ==
  ASSUME PInv, NEW p \in Procs, \A q \in Procs \ {p} : req'[q].pc = req[q].pc,
         UNCHANGED <<mix, lastToken, daily, deaths>>, sent' = sent + 1,
         At(p, "mail"), req'[p].pc = "setCooldown"
  PROVE  CountsOK'
<1>0. /\ "mail" \notin GeneratingLabels /\ "setCooldown" \notin GeneratingLabels
      /\ "mail" \in PassedLabels /\ "setCooldown" \in PassedLabels
      /\ "mail" \notin UncountedLabels /\ "setCooldown" \in UncountedLabels
  BY DEF GeneratingLabels, PassedLabels, UncountedLabels
<1>1. Crowd(GeneratingLabels)' = Crowd(GeneratingLabels) /\ Crowd(GeneratingLabels) \in Nat
  BY <1>0, CrowdStep DEF At
<1>2. Crowd(PassedLabels)' = Crowd(PassedLabels) /\ Crowd(PassedLabels) \in Nat
  BY <1>0, CrowdStep DEF At
<1>3. Crowd(UncountedLabels)' = Crowd(UncountedLabels) + 1 /\ Crowd(UncountedLabels) \in Nat
  BY <1>0, CrowdStep DEF At
<1> QED BY <1>1, <1>2, <1>3, NumbersFine DEF PInv, CountsOK

\* A mail is counted.
LEMMA CountsCount ==
  ASSUME PInv, NEW p \in Procs, \A q \in Procs \ {p} : req'[q].pc = req[q].pc,
         UNCHANGED <<mix, lastToken, sent, deaths>>, daily'.val = daily.val + 1,
         At(p, "incrDaily"), req'[p].pc \in {"idle", "expireDaily"}
  PROVE  CountsOK'
<1>0. /\ "incrDaily" \notin GeneratingLabels /\ {"idle", "expireDaily"} \cap GeneratingLabels = {}
      /\ "incrDaily" \in PassedLabels /\ {"idle", "expireDaily"} \cap PassedLabels = {}
      /\ "incrDaily" \in UncountedLabels /\ {"idle", "expireDaily"} \cap UncountedLabels = {}
  BY DEF GeneratingLabels, PassedLabels, UncountedLabels
<1>1. Crowd(GeneratingLabels)' = Crowd(GeneratingLabels) /\ Crowd(GeneratingLabels) \in Nat
  BY <1>0, CrowdStep DEF At
<1>2. Crowd(PassedLabels)' = Crowd(PassedLabels) - 1 /\ Crowd(PassedLabels) \in Nat
  BY <1>0, CrowdStep DEF At
<1>3. Crowd(UncountedLabels)' = Crowd(UncountedLabels) - 1 /\ Crowd(UncountedLabels) \in Nat
  BY <1>0, CrowdStep DEF At
<1> QED BY <1>1, <1>2, <1>3, NumbersFine DEF PInv, CountsOK

\* A request dies: it was counted, or its death is.
LEMMA CountsAbort ==
  ASSUME PInv, NEW p \in Procs, \A q \in Procs \ {p} : req'[q].pc = req[q].pc,
         UNCHANGED <<mix, lastToken, daily, sent>>, deaths' = deaths + 1, req'[p].pc = "idle"
  PROVE  CountsOK'
<1>0. /\ "idle" \notin GeneratingLabels
      /\ "idle" \notin PassedLabels
      /\ "idle" \notin UncountedLabels
  BY DEF GeneratingLabels, PassedLabels, UncountedLabels
<1>1. Crowd(GeneratingLabels)' <= Crowd(GeneratingLabels) /\ Crowd(GeneratingLabels)' \in Int
      /\ Crowd(GeneratingLabels) \in Nat
  BY <1>0, CrowdStep DEF At
<1>2. Crowd(PassedLabels)' <= Crowd(PassedLabels) /\ Crowd(PassedLabels)' \in Int
      /\ Crowd(PassedLabels) \in Nat
  BY <1>0, CrowdStep DEF At
<1>3. Crowd(UncountedLabels)' >= Crowd(UncountedLabels) - 1 /\ Crowd(UncountedLabels)' \in Int
      /\ Crowd(UncountedLabels) \in Nat
  BY <1>0, CrowdStep DEF At
<1> QED BY <1>1, <1>2, <1>3, NumbersFine DEF PInv, CountsOK

-----------------------------------------------------------------------------
(* One lemma per group of statements.                                      *)

\* What an action leaves of RequestsOK and CountsOK when a request ends or goes on.
LEMMA QuietEnd ==
  ASSUME PInv, NEW p \in Procs, Finish(p), UNCHANGED <<cred, tokens, lastToken, dead>>,
         UNCHANGED <<mix, sent, deaths>>, daily'.val = daily.val,
         req[p].pc \notin UncountedLabels
  PROVE  RequestsOK' /\ CountsOK'
<1>1. RequestsOK' /\ req'[p].pc = "idle" /\ \A q \in Procs \ {p} : req'[q].pc = req[q].pc
  BY QuietMonotone, QuietFinish DEF PInv
<1> QED BY <1>1, CountsKept DEF GeneratingLabels, PassedLabels, UncountedLabels

LEMMA QuietGoto ==
  ASSUME PInv, NEW p \in Procs, NEW l \in Labels, Goto(p, l),
         UNCHANGED <<cred, tokens, lastToken, dead>>,
         UNCHANGED <<mix, sent, deaths>>, daily'.val = daily.val,
         \/ req[p].pc = "cooldown?" /\ l = "daily?"
         \/ req[p].pc \in {"findToken", "verifyOld"} /\ l = "history"
         \/ req[p].pc = "history" /\ l \in {"addEntry", "getCred"}
         \/ req[p].pc = "setCooldown" /\ l = "incrDaily",
         l = "history" => cred # None \/ req[p].token # 0,
         l = "history" => ~req[p].late,
         l \in {"addEntry", "getCred"} => (l = "addEntry" <=> req[p].token = 0)
  PROVE  RequestsOK' /\ CountsOK'
<1>1. /\ req[p] \in Request /\ Monotone /\ TokenOK(req[p], tokens, lastToken, dead)
      /\ SecretOK(req[p], cred)
  BY QuietMonotone DEF PInv, RequestsOK
<1> DEFINE r == [req[p] EXCEPT !.pc = l]
<1>2. /\ r.pc = l /\ r.token = req[p].token /\ r.ended = req[p].ended /\ r.old = req[p].old
      /\ r.new = req[p].new
  BY <1>1 DEF Request
<1>3. r.late <=> req[p].late
  BY <1>1 DEF Request
<1> HIDE DEF r
<1>4. TokenOK(r, tokens', lastToken', dead')
  BY <1>1, <1>2, <1>3 DEF TokenOK, BeforeMail
<1>5. SecretOK(r, cred')
  BY <1>1, <1>2 DEF SecretOK, TokenOK, ChangeLabels
<1>6. RequestsOK' /\ req'[p].pc = l /\ \A q \in Procs \ {p} : req'[q].pc = req[q].pc
  BY <1>1, <1>4, <1>5, GotoStep DEF r, PInv
<1> QED BY <1>6, CountsKept DEF GeneratingLabels, PassedLabels, UncountedLabels

LEMMA QuietSteps ==
  ASSUME PInv, NEW p \in Procs,
         \/ CheckCooldown(p) \/ SetCooldown(p) \/ ExpireDaily(p) \/ FindToken(p)
         \/ VerifyOld(p) \/ CheckHistory(p)
  PROVE  RequestsOK' /\ CountsOK'
<1>1. /\ req[p] \in Request /\ TokenOK(req[p], tokens, lastToken, dead) /\ SecretOK(req[p], cred)
      /\ TokensOK
  BY DEF PInv, RequestsOK
<1>2. {"daily?", "history", "addEntry", "getCred", "incrDaily"} \subseteq Labels
  BY DEF Labels, ForgotLabels, ChangeLabels
<1>3. CASE CheckCooldown(p)
  BY <1>2, <1>3, QuietEnd, QuietGoto DEF CheckCooldown, At, UncountedLabels, secrets, limits
<1>4. CASE SetCooldown(p)
  BY <1>2, <1>4, QuietGoto DEF SetCooldown, At, secrets
<1>5. CASE ExpireDaily(p)
  <2>1. daily'.val = daily.val
    BY <1>5 DEF ExpireDaily, Expire, Key, Absent, PInv, KeysOK
  <2> QED BY <1>5, <2>1, QuietEnd DEF ExpireDaily, At, UncountedLabels, secrets
<1>6. CASE FindToken(p)
  <2>1. Usable(tokens[req[p].token]) => ~req[p].late
    BY <1>1 DEF Usable, TokenOK, TokensOK
  <2>2. req[p].token # 0
    BY <1>1, <1>6 DEF FindToken, At, TokenOK
  <2> QED BY <1>2, <1>6, <2>1, <2>2, QuietEnd, QuietGoto
          DEF FindToken, At, UncountedLabels, secrets, limits
<1>7. CASE VerifyOld(p)
  <2>1. ~req[p].late
    BY <1>1, <1>7 DEF VerifyOld, At, TokenOK
  <2> QED BY <1>2, <1>7, <2>1, QuietEnd, QuietGoto DEF VerifyOld, At, UncountedLabels, secrets, limits
<1>8. CASE CheckHistory(p)
  BY <1>2, <1>8, QuietEnd, QuietGoto DEF CheckHistory, At, UncountedLabels, secrets, limits
<1> QED BY <1>3, <1>4, <1>5, <1>6, <1>7, <1>8

\* An arrival knows what it read.
LEMMA ArrivalStep ==
  ASSUME PInv, NEW p \in Procs, At(p, "idle"),
         UNCHANGED <<secrets, tokens, limits, lastToken, dead, deaths>>,
         NEW r \in Request, Become(p, r), TokenOK(r, tokens, lastToken, dead), SecretOK(r, cred),
         \/ r.pc \in {"findToken", "verifyOld"}
         \/ r.pc = "cooldown?" /\ lastToken + Crowd(GeneratingLabels) < mix.tokens
  PROVE  RequestsOK' /\ CountsOK'
<1>1. UNCHANGED <<cred, tokens, lastToken, dead>> /\ UNCHANGED <<mix, lastToken, daily, sent, deaths>>
  BY DEF secrets, limits
<1>2. Monotone
  BY <1>1, QuietMonotone DEF PInv
<1>3. RequestsOK' /\ req'[p].pc = r.pc /\ \A q \in Procs \ {p} : req'[q].pc = req[q].pc
  BY <1>1, <1>2, RequestStep DEF PInv
<1>4. CASE r.pc # "cooldown?"
  BY <1>1, <1>3, <1>4, CountsKept DEF At, GeneratingLabels, PassedLabels, UncountedLabels
<1>5. CASE r.pc = "cooldown?"
  BY <1>1, <1>3, <1>5, CountsRise
<1> QED BY <1>3, <1>4, <1>5

LEMMA Arrivals == ASSUME PInv, NEW p \in Procs, Begin(p) PROVE RequestsOK' /\ CountsOK'
<1>1. /\ tokens \in [1..MaxTokens -> TokenRow] /\ lastToken \in Nat /\ lastToken <= MaxTokens
      /\ \A t \in 1..MaxTokens : tokens[t].there => t <= lastToken
  BY Bounds DEF PInv, TokensOK
<1>2. None \notin Passwords /\ None \in Credentials /\ MaxTokens \in Nat
      /\ \A w \in mix.words : w \in Credentials /\ w # None
  BY Bounds, MixFine DEF PInv, SecretsOK, Credentials
<1>3. CASE BeginForgot(p)
  <2> DEFINE r == [Idle EXCEPT !.pc = "cooldown?", !.ended = Stored]
  <2>1. Stored \subseteq 1..MaxTokens /\ Stored \subseteq 1..lastToken
    BY <1>1 DEF Stored
  <2>2. r \in Request
    BY <2>1, IdleFine DEF Request, Labels, ForgotLabels
  <2>3. r.pc = "cooldown?" /\ r.ended = Stored /\ r.token = 0
    BY IdleFine DEF Request
  <2>4. ~r.late
    BY IdleFine DEF Request
  <2>5. Become(p, r)
    BY <1>3 DEF BeginForgot
  <2> HIDE DEF r
  <2>6. TokenOK(r, tokens, lastToken, dead) /\ SecretOK(r, cred)
    BY <1>1, <2>1, <2>3, <2>4 DEF TokenOK, SecretOK, ChangeLabels
  <2>7. Generating = {q \in Procs : req[q].pc \in GeneratingLabels}
    BY DEF Generating, GeneratingLabels
  <2>8. lastToken + Crowd(GeneratingLabels) < mix.tokens
    BY <1>3, <2>7 DEF BeginForgot, Crowd
  <2>9. At(p, "idle") /\ UNCHANGED <<secrets, tokens, limits, lastToken, dead, deaths>>
    BY <1>3 DEF BeginForgot
  <2> QED BY <2>2, <2>3, <2>5, <2>6, <2>8, <2>9, ArrivalStep
<1>4. ASSUME NEW w \in mix.words, NEW t \in 1..MaxTokens, BeginReset(p, t, w)
      PROVE  RequestsOK' /\ CountsOK'
  <2> DEFINE b == t \in dead
             r == [Idle EXCEPT !.pc = "findToken", !.token = t, !.new = w, !.late = b]
  <2>1. b \in BOOLEAN /\ "findToken" \in Labels /\ t \in 0..MaxTokens
    BY <1>2 DEF Labels
  <2>2. r \in Request
    BY <1>2, <2>1, IdleFine DEF Request
  <2>3. r.pc = "findToken" /\ r.token = t /\ r.new = w
    BY IdleFine DEF Request
  <2>4. r.late <=> b
    BY <2>1, IdleFine DEF Request
  <2>5. Become(p, r) /\ t \in 1..lastToken
    BY <1>4 DEF BeginReset
  <2> HIDE DEF r
  <2>6. TokenOK(r, tokens, lastToken, dead) /\ SecretOK(r, cred)
    BY <1>1, <1>2, <2>3, <2>4, <2>5 DEF TokenOK, SecretOK, ChangeLabels, BeforeMail
  <2>7. At(p, "idle") /\ UNCHANGED <<secrets, tokens, limits, lastToken, dead, deaths>>
    BY <1>4 DEF BeginReset
  <2> QED BY <2>2, <2>3, <2>5, <2>6, <2>7, ArrivalStep
<1>5. ASSUME NEW v \in mix.words, NEW w \in mix.words, BeginChange(p, v, w)
      PROVE  RequestsOK' /\ CountsOK'
  <2> DEFINE r == [Idle EXCEPT !.pc = "verifyOld", !.old = v, !.new = w]
  <2>1. r \in Request
    BY <1>2, IdleFine DEF Request, Labels
  <2>2. r.pc = "verifyOld" /\ r.token = 0 /\ r.new = w /\ r.old = v
    BY IdleFine DEF Request
  <2>3. ~r.late
    BY IdleFine DEF Request
  <2>4. Become(p, r)
    BY <1>5 DEF BeginChange
  <2> HIDE DEF r
  <2>5. TokenOK(r, tokens, lastToken, dead) /\ SecretOK(r, cred)
    BY <1>1, <1>2, <2>2, <2>3 DEF TokenOK, SecretOK, ChangeLabels, BeforeMail
  <2>6. At(p, "idle") /\ UNCHANGED <<secrets, tokens, limits, lastToken, dead, deaths>>
    BY <1>5 DEF BeginChange
  <2> QED BY <2>1, <2>2, <2>4, <2>5, <2>6, ArrivalStep
<1> QED BY <1>3, <1>4, <1>5 DEF Begin

\* The rest of a request for a token: what counts changes here.
LEMMA ForgotSteps ==
  ASSUME PInv, NEW p \in Procs, CheckDaily(p) \/ DeleteTokens(p) \/ InsertToken(p) \/ Mail(p) \/ IncrDaily(p)
  PROVE  RequestsOK' /\ CountsOK' /\ TokensOK'
<1>1. /\ req[p] \in Request /\ TokenOK(req[p], tokens, lastToken, dead) /\ SecretOK(req[p], cred)
      /\ TokensOK /\ RequestsOK /\ CountsOK
  BY DEF PInv, RequestsOK
<1>2. /\ tokens \in [1..MaxTokens -> TokenRow] /\ lastToken \in Nat /\ lastToken <= MaxTokens
      /\ MaxTokens \in Nat
  BY <1>1, Bounds DEF TokensOK
<1>3. CASE CheckDaily(p)
  <2>1. TokensOK' /\ Monotone
    BY <1>1, <1>3, QuietMonotone DEF CheckDaily, TokensOK, secrets
  <2>2. CASE Finish(p)
    BY <1>3, <2>1, <2>2, QuietEnd DEF CheckDaily, At, UncountedLabels, secrets, limits
  <2>3. CASE Goto(p, "deleteTokens") /\ daily.val < MaxDaily
    <3> DEFINE r == [req[p] EXCEPT !.pc = "deleteTokens"]
    <3>1. r.pc = "deleteTokens" /\ r.token = req[p].token /\ r.ended = req[p].ended
      BY <1>1 DEF Request
    <3>2. r.late <=> req[p].late
      BY <1>1 DEF Request
    <3> HIDE DEF r
    <3>3. TokenOK(r, tokens', lastToken', dead') /\ SecretOK(r, cred')
      BY <1>1, <1>3, <3>1, <3>2 DEF CheckDaily, At, TokenOK, SecretOK, ChangeLabels, BeforeMail
    <3>4. "deleteTokens" \in Labels
      BY DEF Labels, ForgotLabels
    <3>5. RequestsOK' /\ req'[p].pc = "deleteTokens" /\ \A q \in Procs \ {p} : req'[q].pc = req[q].pc
      BY <1>1, <2>1, <2>3, <3>3, <3>4, GotoStep DEF r
    <3>6. UNCHANGED <<mix, lastToken, daily, sent, deaths>> /\ At(p, "daily?")
      BY <1>3 DEF CheckDaily, secrets, limits
    <3> QED BY <2>1, <2>3, <3>5, <3>6, CountsPass
  <2> QED BY <1>3, <2>2, <2>3, NumbersFine DEF CheckDaily
<1>4. CASE DeleteTokens(p)
  <2>1. /\ tokens' \in [1..MaxTokens -> TokenRow]
        /\ \A t \in 1..MaxTokens : ~tokens'[t].there
        /\ UNCHANGED <<cred, lastToken, dead>> /\ UNCHANGED <<mix, lastToken, daily, sent, deaths>>
    BY <1>2, <1>4 DEF DeleteTokens, TokenRow, NoRow, secrets, limits
  <2>2. TokensOK'
    BY <1>1, <1>2, <2>1 DEF TokensOK
  <2>3. Monotone
    BY <1>2, <2>1 DEF Monotone
  <2> DEFINE r == [req[p] EXCEPT !.pc = "insertToken"]
  <2>4. r.pc = "insertToken" /\ r.token = req[p].token /\ r.ended = req[p].ended
        /\ r.ended \subseteq 1..MaxTokens
    BY <1>1 DEF Request
  <2>5. r.late <=> req[p].late
    BY <1>1 DEF Request
  <2>6. Goto(p, "insertToken") /\ At(p, "deleteTokens") /\ "insertToken" \in Labels
    BY <1>4 DEF DeleteTokens, Labels, ForgotLabels
  <2> HIDE DEF r
  <2>7. TokenOK(r, tokens', lastToken', dead') /\ SecretOK(r, cred')
    BY <1>1, <2>1, <2>4, <2>5, <2>6 DEF At, TokenOK, SecretOK, ChangeLabels, BeforeMail
  <2>8. RequestsOK' /\ req'[p].pc = "insertToken" /\ \A q \in Procs \ {p} : req'[q].pc = req[q].pc
    BY <1>1, <2>3, <2>6, <2>7, GotoStep DEF r
  <2> QED BY <2>1, <2>2, <2>6, <2>8, CountsKept
          DEF At, GeneratingLabels, PassedLabels, UncountedLabels
<1>5. CASE InsertToken(p)
  <2> DEFINE n == lastToken + 1
             row == [there |-> TRUE, used |-> FALSE, live |-> TRUE]
             r == [req[p] EXCEPT !.pc = "mail", !.token = n]
  <2>1. /\ tokens' = [tokens EXCEPT ![n] = row] /\ lastToken' = n /\ Become(p, r)
        /\ UNCHANGED <<cred, dead>> /\ UNCHANGED <<mix, daily, sent, deaths>>
        /\ At(p, "insertToken")
    BY <1>5 DEF InsertToken, secrets, limits
  <2>2. n \in 1..MaxTokens
    <3>1. Crowd(GeneratingLabels) >= 1 /\ Crowd(GeneratingLabels) \in Nat
      BY <2>1, CrowdFine DEF At, GeneratingLabels
    <3>2. mix.tokens \in 0..MaxTokens
      BY MixFine DEF PInv, SecretsOK
    <3> QED BY <1>1, <1>2, <3>1, <3>2 DEF CountsOK
  <2>3. row \in TokenRow
    BY DEF TokenRow
  <2>4. r.pc = "mail" /\ r.token = n /\ r.ended = req[p].ended /\ r \in Request
    <3>1. n \in 0..MaxTokens /\ "mail" \in Labels
      BY <2>2 DEF Labels, ForgotLabels
    <3> HIDE DEF n
    <3> QED BY <1>1, <3>1 DEF Request
  <2>5. r.late <=> req[p].late
    BY <1>1 DEF Request
  <2> HIDE DEF row, r
  <2>6. /\ tokens' \in [1..MaxTokens -> TokenRow]
        /\ \A t \in 1..MaxTokens : t # n => tokens'[t] = tokens[t]
        /\ lastToken' \in Nat /\ lastToken' >= lastToken
    BY <1>2, <2>1, <2>2, <2>3
  <2>7. TokensOK'
    BY <1>1, <1>2, <2>1, <2>2, <2>6 DEF TokensOK
  <2>8. Monotone
    BY <1>2, <2>1, <2>2, <2>6 DEF Monotone
  <2>9. TokenOK(r, tokens', lastToken', dead') /\ SecretOK(r, cred')
    BY <1>1, <1>2, <2>1, <2>2, <2>4, <2>5, <2>6 DEF At, TokenOK, SecretOK, ChangeLabels, BeforeMail
  <2>10. RequestsOK' /\ req'[p].pc = "mail" /\ \A q \in Procs \ {p} : req'[q].pc = req[q].pc
    BY <1>1, <2>1, <2>4, <2>8, <2>9, RequestStep
  <2> QED BY <2>1, <2>7, <2>10, CountsStore
<1>6. CASE Mail(p)
  <2>1. /\ UNCHANGED <<cred, tokens, lastToken>> /\ UNCHANGED <<mix, lastToken, daily, deaths>>
        /\ sent' = sent + 1 /\ dead' = dead \cup req[p].ended /\ At(p, "mail")
        /\ Become(p, [Idle EXCEPT !.pc = "setCooldown"])
    BY <1>6 DEF Mail, secrets
  <2>2. req[p].ended \subseteq 1..lastToken /\ \A t \in req[p].ended : ~tokens[t].there
    BY <1>1, <2>1 DEF At, TokenOK, BeforeMail
  <2>3. TokensOK' /\ Monotone
    BY <1>1, <1>2, <2>1, <2>2 DEF TokensOK, Monotone
  <2>4. RequestsOK' /\ req'[p].pc = "setCooldown" /\ \A q \in Procs \ {p} : req'[q].pc = req[q].pc
    BY <1>1, <2>1, <2>3, LaterStep DEF At
  <2> QED BY <2>1, <2>3, <2>4, CountsMail
<1>7. CASE IncrDaily(p)
  <2>1. /\ UNCHANGED <<cred, tokens, lastToken, dead>> /\ UNCHANGED <<mix, lastToken, sent, deaths>>
        /\ daily'.val = daily.val + 1 /\ At(p, "incrDaily")
    BY <1>7 DEF IncrDaily, Incr, SetKeepTtl, secrets
  <2>2. TokensOK' /\ Monotone
    BY <1>1, <2>1, QuietMonotone DEF TokensOK
  <2>3. /\ RequestsOK' /\ req'[p].pc \in {"idle", "expireDaily"}
        /\ \A q \in Procs \ {p} : req'[q].pc = req[q].pc
    BY <1>1, <1>7, <2>1, <2>2, LaterStep, QuietFinish DEF IncrDaily, At
  <2> QED BY <2>1, <2>2, <2>3, CountsCount
<1> QED BY <1>3, <1>4, <1>5, <1>6, <1>7

\* The statements that set the password: the history keeps its length, a change has
\* a password to replace, and the token is marked in the end.
LEMMA SetSteps ==
  ASSUME PInv, NEW p \in Procs, GetCred(p) \/ AddEntry(p) \/ Update(p) \/ MarkUsed(p)
  PROVE  RequestsOK' /\ CountsOK' /\ SecretsOK' /\ TokensOK'
<1>1. /\ req[p] \in Request /\ TokenOK(req[p], tokens, lastToken, dead) /\ SecretOK(req[p], cred)
      /\ TokensOK /\ RequestsOK /\ SecretsOK
  BY DEF PInv, RequestsOK
<1>2. /\ tokens \in [1..MaxTokens -> TokenRow] /\ lastToken \in Nat /\ lastToken <= MaxTokens
      /\ MaxTokens \in Nat /\ HistoryLimit \in Nat /\ HistoryLimit > 0
  BY <1>1, Bounds DEF TokensOK
<1>3. ASSUME NEW s \in History, NEW w \in Credentials, w # None
      PROVE  Newest(Append(s, w), HistoryLimit) \in History
  <2>1. Append(s, w) \in Seq(Passwords)
    BY <1>3, AppendProperties DEF History, Credentials
  <2> QED BY <1>2, <2>1, NewestFine DEF History
<1>4. CASE GetCred(p)
  <2> DEFINE l == IF cred = None THEN "update" ELSE "addEntry"
             r == [req[p] EXCEPT !.pc = l, !.old = cred]
  <2>1. /\ UNCHANGED <<cred, tokens, lastToken, dead>> /\ UNCHANGED <<mix, lastToken, sent, deaths>>
        /\ daily' = daily /\ At(p, "getCred") /\ Become(p, r)
    BY <1>4 DEF GetCred, secrets, limits
  <2>2. SecretsOK' /\ TokensOK' /\ Monotone
    BY <1>1, <1>4, QuietMonotone DEF GetCred, SecretsOK, TokensOK, secrets
  <2>3. (cred = None => l = "update") /\ (cred # None => l = "addEntry")
    OBVIOUS
  <2>4. cred \in Credentials /\ l \in Labels
    BY <1>1 DEF SecretsOK, Labels, ChangeLabels
  <2> HIDE DEF l
  <2>5. r.pc = l /\ r.token = req[p].token /\ r.old = cred /\ r.new = req[p].new /\ r \in Request
    BY <1>1, <2>4 DEF Request
  <2>6. r.late <=> req[p].late
    BY <1>1 DEF Request
  <2> HIDE DEF r
  <2>7. TokenOK(r, tokens', lastToken', dead') /\ SecretOK(r, cred')
    BY <1>1, <2>1, <2>3, <2>5, <2>6 DEF At, TokenOK, SecretOK, ChangeLabels, BeforeMail
  <2>8. RequestsOK' /\ req'[p].pc = l /\ \A q \in Procs \ {p} : req'[q].pc = req[q].pc
    BY <1>1, <2>1, <2>2, <2>5, <2>7, RequestStep
  <2>9. CountsOK'
    BY <2>1, <2>3, <2>8, CountsKept DEF At, GeneratingLabels, PassedLabels, UncountedLabels
  <2> QED BY <2>2, <2>8, <2>9
<1>5. CASE AddEntry(p)
  <2> DEFINE r == [req[p] EXCEPT !.pc = "update"]
  <2>1. /\ UNCHANGED <<cred, tokens, lastToken, dead>> /\ UNCHANGED <<mix, lastToken, sent, deaths>>
        /\ daily' = daily /\ At(p, "addEntry") /\ Cross(p, r) /\ past' = past
        /\ hist' = Newest(Append(hist, req[p].old), HistoryLimit)
    BY <1>5 DEF AddEntry, limits
  <2>2. TokensOK' /\ Monotone
    BY <1>1, <2>1, QuietMonotone DEF TokensOK
  <2>3. req[p].old \in Credentials /\ req[p].old # None
    BY <1>1, <2>1 DEF At, SecretOK, Request
  <2>4. hist' \in History /\ doubt' \in 0..HistoryLimit
    BY <1>1, <1>2, <1>3, <1>5, <2>1, <2>3 DEF SecretsOK, AddEntry
  <2>5. SecretsOK'
    BY <1>1, <2>1, <2>4 DEF SecretsOK
  <2>6. r.pc = "update" /\ r.token = req[p].token /\ r.new = req[p].new /\ r \in Request
    BY <1>1 DEF Request, Labels, ChangeLabels
  <2>7. r.late <=> req[p].late
    BY <1>1 DEF Request
  <2> HIDE DEF r
  <2>8. TokenOK(r, tokens', lastToken', dead') /\ SecretOK(r, cred')
    BY <1>1, <2>1, <2>6, <2>7 DEF At, TokenOK, SecretOK, ChangeLabels, BeforeMail
  <2>9. RequestsOK' /\ req'[p].pc = "update" /\ \A q \in Procs \ {p} : req'[q].pc = req[q].pc
    BY <1>1, <2>1, <2>2, <2>6, <2>8, RequestStep
  <2>10. CountsOK'
    BY <2>1, <2>9, CountsKept DEF At, GeneratingLabels, PassedLabels, UncountedLabels
  <2> QED BY <2>2, <2>5, <2>9, <2>10
<1>6. CASE Update(p)
  <2>1. /\ UNCHANGED <<tokens, lastToken, dead>> /\ UNCHANGED <<mix, lastToken, sent, deaths>>
        /\ daily' = daily /\ At(p, "update") /\ UNCHANGED hist
    BY <1>6 DEF Update, secrets, limits
  <2>2. req[p].new \in Credentials /\ req[p].new # None /\ (req[p].token = 0 => cred # None)
        /\ ~req[p].late
    BY <1>1, <2>1 DEF At, SecretOK, TokenOK, Request, ChangeLabels
  <2>3. SecretsOK' /\ TokensOK' /\ Monotone
    <3>1. CASE cred = None /\ UNCHANGED secrets
      BY <1>1, <1>2, <2>1, <3>1 DEF SecretsOK, TokensOK, Monotone, secrets
    <3>2. CASE /\ cred # None /\ cred' = req[p].new
               /\ past' = Newest(Append(past, cred), HistoryLimit)
               /\ doubt' = IF req[p].crossed \/ \E q \in Procs \ {p} : At(q, "update")
                           THEN HistoryLimit ELSE IF doubt > 0 THEN doubt - 1 ELSE 0
      <4>1. past' \in History
        BY <1>1, <1>3, <3>2 DEF SecretsOK
      <4>2. doubt' \in 0..HistoryLimit
        BY <1>1, <1>2, <3>2 DEF SecretsOK
      <4> QED BY <1>1, <1>2, <2>1, <2>2, <3>2, <4>1, <4>2 DEF SecretsOK, TokensOK, Monotone
    <3> QED BY <1>6, <3>1, <3>2 DEF Update
  <2> DEFINE r == [req[p] EXCEPT !.pc = "markUsed"]
  <2>4. r.pc = "markUsed" /\ r.token = req[p].token /\ r.new = req[p].new /\ r \in Request
    BY <1>1 DEF Request, Labels
  <2>5. r.late <=> req[p].late
    BY <1>1 DEF Request
  <2>6. \/ (Become(p, r) \/ Cross(p, r)) /\ req[p].token # 0
        \/ Cross(p, Idle)
    BY <1>6, <2>2 DEF Update
  <2> HIDE DEF r
  <2>7. req[p].token # 0 => TokenOK(r, tokens', lastToken', dead') /\ SecretOK(r, cred')
    BY <1>1, <2>1, <2>2, <2>4, <2>5 DEF TokenOK, SecretOK, ChangeLabels, BeforeMail
  <2>8. /\ RequestsOK' /\ req'[p].pc \in {"idle", "markUsed"}
        /\ \A q \in Procs \ {p} : req'[q].pc = req[q].pc
    BY <1>1, <1>2, <2>1, <2>3, <2>4, <2>6, <2>7, IdleFine, RequestStep
  <2>9. CountsOK'
    BY <2>1, <2>8, CountsKept DEF At, GeneratingLabels, PassedLabels, UncountedLabels
  <2> QED BY <2>3, <2>8, <2>9
<1>7. CASE MarkUsed(p)
  <2> DEFINE t == req[p].token
             b == tokens[t].there
  <2>1. /\ UNCHANGED <<cred, lastToken>> /\ UNCHANGED <<mix, lastToken, sent, deaths>>
        /\ daily' = daily /\ At(p, "markUsed") /\ dead' = dead \cup {t}
        /\ tokens' = [tokens EXCEPT ![t].used = b] /\ UNCHANGED secrets
    BY <1>7 DEF MarkUsed, secrets, limits
  <2>2. t \in 1..lastToken /\ t \in 1..MaxTokens
    BY <1>1, <1>2, <2>1 DEF At, TokenOK, Request
  <2>3. SecretsOK'
    BY <1>1, <2>1 DEF SecretsOK, secrets
  <2>4. tokens[t] \in TokenRow /\ b \in BOOLEAN
    BY <1>2, <2>2 DEF TokenRow
  <2>5. /\ tokens' \in [1..MaxTokens -> TokenRow]
        /\ \A u \in 1..MaxTokens : u # t => tokens'[u] = tokens[u]
        /\ (tokens'[t].there <=> b) /\ (tokens'[t].used <=> b)
    <3> DEFINE row == [tokens[t] EXCEPT !.used = b]
    <3>1. row \in TokenRow /\ (row.there <=> b) /\ (row.used <=> b)
      BY <2>4 DEF TokenRow
    <3>2. tokens' = [tokens EXCEPT ![t] = row]
      BY <2>1
    <3> HIDE DEF row
    <3> QED BY <1>2, <2>2, <3>1, <3>2
  <2> HIDE DEF t
  <2>6. TokensOK'
    BY <1>1, <1>2, <2>1, <2>2, <2>5 DEF TokensOK
  <2>7. Monotone
    BY <1>2, <2>1, <2>2, <2>5 DEF Monotone
  <2>8. RequestsOK' /\ req'[p].pc = "idle" /\ \A q \in Procs \ {p} : req'[q].pc = req[q].pc
    BY <1>1, <1>7, <2>7, QuietFinish DEF MarkUsed
  <2>9. CountsOK'
    BY <2>1, <2>8, CountsKept DEF At, GeneratingLabels, PassedLabels, UncountedLabels
  <2> QED BY <2>3, <2>6, <2>8, <2>9
<1> QED BY <1>4, <1>5, <1>6, <1>7

-----------------------------------------------------------------------------
(* The invariant.                                                          *)

\* The keys keep their types; only a death counts as one.
LEMMA KeysStep == ASSUME PInv, [Next]_vars PROVE KeysOK'
<1>1. KeysOK
  BY DEF PInv
<1>2. ASSUME UNCHANGED <<limits, deaths>> PROVE KeysOK'
  BY <1>1, <1>2 DEF KeysOK, limits
<1>3. ASSUME NEW p \in Procs, Begin(p) PROVE KeysOK'
  BY <1>2, <1>3 DEF Begin, BeginForgot, BeginReset, BeginChange
<1>4. ASSUME NEW p \in Procs,
             \/ CheckCooldown(p) \/ CheckDaily(p) \/ DeleteTokens(p) \/ InsertToken(p)
             \/ FindToken(p) \/ GetCred(p) \/ MarkUsed(p) \/ VerifyOld(p)
             \/ CheckHistory(p) \/ AddEntry(p) \/ Update(p)
      PROVE  KeysOK'
  BY <1>2, <1>4 DEF CheckCooldown, CheckDaily, DeleteTokens, InsertToken, FindToken, GetCred,
     MarkUsed, VerifyOld, CheckHistory, AddEntry, Update
<1>5. ASSUME NEW p \in Procs, Mail(p) \/ SetCooldown(p) PROVE KeysOK'
  BY <1>1, <1>5 DEF Mail, SetCooldown, KeysOK, Key, RedisKey
<1>6. ASSUME NEW p \in Procs, IncrDaily(p) \/ ExpireDaily(p) PROVE KeysOK'
  <2>1. Incr(daily) \in RedisKey /\ Present(Incr(daily))
    BY <1>1 DEF KeysOK, Incr, SetKeepTtl, Present, RedisKey
  <2>2. Expire(daily) \in RedisKey /\ (~Present(Expire(daily)) => Expire(daily).val = 0)
    BY <1>1 DEF KeysOK, Expire, Key, Absent, Present, RedisKey
  <2> QED BY <1>1, <1>6, <2>1, <2>2 DEF IncrDaily, ExpireDaily, KeysOK
<1>7. ASSUME NEW p \in Procs, Abort(p) PROVE KeysOK'
  BY <1>1, <1>7, Bounds DEF Abort, limits, KeysOK
<1>8. CASE CooldownExpires \/ DailyExpires
  BY <1>1, <1>8 DEF CooldownExpires, DailyExpires, KeysOK, Absent, RedisKey
<1>9. ASSUME NEW t \in 1..MaxTokens, TokenExpires(t) PROVE KeysOK'
  BY <1>2, <1>9 DEF TokenExpires
<1>10. CASE UNCHANGED vars
  BY <1>2, <1>10 DEF vars, limits
<1> QED BY <1>3, <1>4, <1>5, <1>6, <1>7, <1>8, <1>9, <1>10 DEF Next, Continue

\* A death and an expiry take nothing from what requests know.
LEMMA OtherSteps ==
  ASSUME PInv, \/ \E p \in Procs : Abort(p)
               \/ CooldownExpires \/ DailyExpires
               \/ \E t \in 1..MaxTokens : TokenExpires(t)
  PROVE  RequestsOK' /\ CountsOK' /\ SecretsOK' /\ TokensOK'
<1>1. TokensOK /\ RequestsOK /\ SecretsOK /\ CountsOK
  BY DEF PInv
<1>2. /\ tokens \in [1..MaxTokens -> TokenRow] /\ lastToken \in Nat /\ lastToken <= MaxTokens
      /\ MaxTokens \in Nat /\ HistoryLimit \in Nat
  BY <1>1, Bounds DEF TokensOK
<1>3. ASSUME NEW p \in Procs, Abort(p) PROVE RequestsOK' /\ CountsOK' /\ SecretsOK' /\ TokensOK'
  <2>1. UNCHANGED <<cred, tokens, lastToken, dead, mix, daily, sent, hist, past>> /\ Finish(p)
        /\ deaths' = deaths + 1 /\ (doubt' = HistoryLimit \/ doubt' = doubt)
    BY <1>3 DEF Abort, limits
  <2>2. SecretsOK' /\ TokensOK'
    BY <1>1, <1>2, <2>1 DEF SecretsOK, TokensOK
  <2>3. RequestsOK' /\ req'[p].pc = "idle" /\ \A q \in Procs \ {p} : req'[q].pc = req[q].pc
    BY <1>1, <2>1, QuietMonotone, QuietFinish
  <2> QED BY <2>1, <2>2, <2>3, CountsAbort
<1>4. CASE CooldownExpires
  BY <1>1, <1>4 DEF CooldownExpires, secrets, RequestsOK, CountsOK, SecretsOK, TokensOK, Crowd
<1>5. CASE DailyExpires
  <2>1. RequestsOK' /\ SecretsOK' /\ TokensOK'
    BY <1>1, <1>5 DEF DailyExpires, secrets, RequestsOK, SecretsOK, TokensOK
  <2>2. \A l : Crowd(l)' = Crowd(l)
    BY <1>5 DEF DailyExpires, Crowd
  <2>3. daily'.val = 0 /\ sent' = 0 /\ UNCHANGED <<mix, lastToken, deaths>>
    BY <1>5 DEF DailyExpires, Absent, secrets
  <2>4. Crowd(PassedLabels) \in Nat /\ Crowd(UncountedLabels) \in Nat
    BY CrowdFine
  <2>5. CountsOK'
    BY <1>1, <2>2, <2>3, <2>4, NumbersFine DEF CountsOK
  <2> QED BY <2>1, <2>5
<1>6. ASSUME NEW t \in 1..MaxTokens, TokenExpires(t)
      PROVE  RequestsOK' /\ CountsOK' /\ SecretsOK' /\ TokensOK'
  <2> DEFINE row == [tokens[t] EXCEPT !.live = FALSE]
  <2>1. row \in TokenRow /\ (row.there <=> tokens[t].there) /\ (row.used <=> tokens[t].used)
    BY <1>2 DEF TokenRow
  <2>2. tokens' = [tokens EXCEPT ![t] = row]
    BY <1>6 DEF TokenExpires
  <2> HIDE DEF row
  <2>3. /\ tokens' \in [1..MaxTokens -> TokenRow]
        /\ \A u \in 1..MaxTokens : /\ tokens'[u].there <=> tokens[u].there
                                   /\ tokens'[u].used <=> tokens[u].used
    BY <1>2, <2>1, <2>2
  <2>4. UNCHANGED <<secrets, limits, lastToken, dead, deaths, req>>
    BY <1>6 DEF TokenExpires
  <2>5. SecretsOK' /\ CountsOK'
    BY <1>1, <2>4 DEF SecretsOK, CountsOK, Crowd, secrets, limits
  <2>6. dead \subseteq 1..lastToken /\ 1..lastToken \subseteq 1..MaxTokens
    BY <1>1, <1>2 DEF TokensOK
  <2>7. TokensOK'
    BY <1>1, <2>3, <2>4, <2>6 DEF TokensOK
  <2>8. ASSUME NEW p \in Procs PROVE TokenOK(req[p], tokens', lastToken, dead)
    <3>1. TokenOK(req[p], tokens, lastToken, dead)
      BY <1>1 DEF RequestsOK
    <3>2. req[p].pc \in {"insertToken", "mail"} => req[p].ended \subseteq 1..MaxTokens
      BY <2>6, <3>1 DEF TokenOK, BeforeMail
    <3> QED BY <2>3, <3>1, <3>2 DEF TokenOK
  <2>9. RequestsOK'
    BY <1>1, <2>4, <2>8 DEF RequestsOK, secrets
  <2> QED BY <2>5, <2>7, <2>9
<1> QED BY <1>3, <1>4, <1>5, <1>6

LEMMA PInvStep == PInv /\ [Next]_vars => PInv'
<1> SUFFICES ASSUME PInv, [Next]_vars PROVE PInv'
  OBVIOUS
<1>1. SecretsOK /\ TokensOK
  BY DEF PInv
<1>2. ASSUME NEW p \in Procs, Begin(p) \/ Continue(p)
      PROVE  RequestsOK' /\ CountsOK' /\ SecretsOK' /\ TokensOK'
  <2>1. CASE Begin(p)
    BY <1>1, <2>1, Arrivals
       DEF Begin, BeginForgot, BeginReset, BeginChange, secrets, SecretsOK, TokensOK
  <2>2. CASE \/ CheckCooldown(p) \/ SetCooldown(p) \/ ExpireDaily(p) \/ FindToken(p)
             \/ VerifyOld(p) \/ CheckHistory(p)
    BY <1>1, <2>2, QuietSteps DEF CheckCooldown, SetCooldown, ExpireDaily, FindToken, VerifyOld,
       CheckHistory, secrets, SecretsOK, TokensOK
  <2>3. CASE CheckDaily(p) \/ DeleteTokens(p) \/ InsertToken(p) \/ Mail(p) \/ IncrDaily(p)
    BY <1>1, <2>3, ForgotSteps DEF CheckDaily, DeleteTokens, InsertToken, Mail, IncrDaily, secrets,
       SecretsOK
  <2>4. CASE GetCred(p) \/ AddEntry(p) \/ Update(p) \/ MarkUsed(p)
    BY <2>4, SetSteps
  <2> QED BY <1>2, <2>1, <2>2, <2>3, <2>4 DEF Continue
<1>3. CASE UNCHANGED vars
  BY <1>3 DEF PInv, vars, RequestsOK, CountsOK, SecretsOK, TokensOK, KeysOK, Crowd
<1> QED BY <1>2, <1>3, OtherSteps, KeysStep DEF Next, PInv

LEMMA PInvInit == Init => PInv
<1> SUFFICES ASSUME Init PROVE PInv
  OBVIOUS
<1>1. mix.words \subseteq Passwords /\ mix.tokens \in Nat /\ mix \in Mixes
  BY Bounds, MixFine DEF Init
<1>2. SecretsOK
  <2>1. <<>> \in History /\ \A w \in Passwords : <<w>> \in History
    BY Bounds DEF History
  <2>2. hist \in History /\ past \in History /\ cred \in Credentials /\ doubt \in 0..HistoryLimit
    BY <1>1, <2>1, Bounds DEF Init, Credentials
  <2> QED BY <1>1, <2>2 DEF SecretsOK
<1>3. TokensOK
  BY Bounds DEF Init, TokensOK, NoRow, TokenRow
<1>4. KeysOK
  BY Bounds DEF Init, KeysOK, Absent, RedisKey, Present
<1>5. RequestsOK
  BY IdleFine DEF Init, RequestsOK
<1>6. CountsOK
  <2>1. ASSUME NEW labels, "idle" \notin labels PROVE Crowd(labels) = 0
    <3>1. {p \in Procs : req[p].pc \in labels} = {}
      BY <2>1, IdleFine DEF Init
    <3> QED BY <3>1, FS_EmptySet DEF Crowd
  <2>2. "idle" \notin GeneratingLabels /\ "idle" \notin PassedLabels /\ "idle" \notin UncountedLabels
    BY DEF GeneratingLabels, PassedLabels, UncountedLabels
  <2>3. Cardinality(Procs) \in Nat
    BY ProcsAssumption, FS_CardinalityType
  <2> QED BY <1>1, <2>1, <2>2, <2>3, Bounds DEF Init, CountsOK, Absent
<1> QED BY <1>2, <1>3, <1>4, <1>5, <1>6 DEF PInv

\* PInv holds in every state of every behaviour.
THEOREM PasswordsInvariance == Spec => []PInv
BY PInvInit, PInvStep, PTL DEF Spec

\* Every reachable state of the tables, the keys and the requests is of its type;
\* the history never outgrows its limit.
THEOREM PasswordTypes == Spec => []TypeOK
<1>1. PInv => TypeOK
  BY DEF PInv, RequestsOK, SecretsOK, TokensOK, KeysOK, TypeOK
<1> QED BY <1>1, PasswordsInvariance, PTL

\* A token that was marked used, or whose successor was mailed, before a reset arrived
\* gets that reset nowhere; one whose reset died before markUsed was not marked.
THEOREM TokensEnd == Spec => []EndedTokenSetsNothing
<1>1. PInv => EndedTokenSetsNothing
  BY DEF PInv, RequestsOK, TokenOK, EndedTokenSetsNothing
<1> QED BY <1>1, PasswordsInvariance, PTL

\* Whatever overlaps and dies, fewer mails a day than the limit, the requests in
\* flight and the deaths together.
THEOREM MailsStayBounded == Spec => []MailsBounded
<1>1. PInv => MailsBounded
  <2> SUFFICES ASSUME PInv PROVE MailsBounded
    OBVIOUS
  <2>1. Crowd(UncountedLabels) <= Crowd(PassedLabels) /\ Crowd(UncountedLabels) \in Nat
        /\ Crowd(PassedLabels) \in Nat
    <3> DEFINE S == {p \in Procs : req[p].pc \in PassedLabels}
               T == {p \in Procs : req[p].pc \in UncountedLabels}
    <3>1. T \in SUBSET S
      BY DEF PassedLabels
    <3>2. IsFiniteSet(S)
      BY ProcsAssumption, FS_Subset
    <3>3. Cardinality(T) <= Cardinality(S)
      BY <3>1, <3>2, FS_Subset
    <3> QED BY <3>3, CrowdFine DEF Crowd
  <2> QED BY <2>1, NumbersFine DEF PInv, CountsOK, MailsBounded
<1> QED BY <1>1, PasswordsInvariance, PTL

-----------------------------------------------------------------------------
(* The history.                                                            *)

\* The newest n entries of s, as far as it goes, are the newest of h.
Agree(h, s, n) ==
  \A i \in 0..n - 1 : i < Len(s) => i < Len(h) /\ h[Len(h) - i] = s[Len(s) - i]

Updating == {p \in Procs : req[p].pc = "update"}

\* What a change knows that no other crossed: c is the password, h the history.
OldOK(r, c, h) ==
  ~r.crossed =>
    /\ r.pc = "addEntry" \/ (r.pc = "history" /\ r.token = 0) => r.old = c
    /\ r.pc = "update" => h # <<>> /\ h[Len(h)] = c

CheckedLabels == {"getCred", "addEntry", "update"}

\* While there is a password: the history is that of `past`, with the password on top
\* once the only change about to update has written its entry; and a change that
\* nobody crossed has looked at all of it.
HistoryOK ==
  cred # None =>
    /\ \A p \in Procs : OldOK(req[p], cred, hist)
    /\ Updating = {} => Agree(hist, past, HistoryLimit - doubt)
    /\ \A p \in Procs : Updating = {p} /\ ~req[p].crossed =>
         Agree(hist, Append(past, cred),
               IF doubt > 0 THEN HistoryLimit - doubt + 1 ELSE HistoryLimit)
    /\ \A p \in Procs :
         Updating \subseteq {p} /\ doubt = 0 /\ ~req[p].crossed /\ req[p].pc \in CheckedLabels =>
           req[p].new \notin Elements(past)

LEMMA NewestKeeps ==
  ASSUME NEW s \in Seq(Passwords), NEW n \in Nat
  PROVE  LET t == Newest(s, n) IN
         /\ t \in Seq(Passwords) /\ Len(t) \in Nat /\ Len(s) \in Nat
         /\ Len(t) = IF Len(s) <= n THEN Len(s) ELSE n
         /\ \A i \in 0..Len(t) - 1 : t[Len(t) - i] = s[Len(s) - i]
<1> DEFINE t == Newest(s, n)
           k == Len(s) - n
<1>1. Len(s) \in Nat /\ t \in Seq(Passwords) /\ Len(t) \in Nat
  BY NewestFine, LenProperties
<1>2. CASE Len(s) <= n
  BY <1>1, <1>2 DEF Newest
<1>3. CASE Len(s) > n
  <2>1. /\ k + 1 \in Int /\ Len(s) \in Int /\ \A i \in k + 1..Len(s) : i \in 1..Len(s)
        /\ Len(s) - (k + 1) + 1 = n
    BY <1>1, <1>3
  <2>2. \A i \in k + 1..Len(s) : s[i] \in Passwords
    BY <2>1, ElementOfSeq
  <2>3. /\ Len(SubSeq(s, k + 1, Len(s))) = IF k + 1 <= Len(s) THEN Len(s) - (k + 1) + 1 ELSE 0
        /\ \A i \in 1..Len(s) - (k + 1) + 1 : SubSeq(s, k + 1, Len(s))[i] = s[k + 1 + i - 1]
    BY <2>1, <2>2, SubSeqProperties
  <2>4. t = SubSeq(s, k + 1, Len(s))
    BY <1>1, <1>3 DEF Newest
  <2> HIDE DEF t
  <2>5. Len(t) = n
    BY <1>1, <1>3, <2>1, <2>3, <2>4
  <2>6. ASSUME NEW i \in 0..Len(t) - 1 PROVE t[Len(t) - i] = s[Len(s) - i]
    <3>1. n - i \in 1..n /\ k + 1 + (n - i) - 1 = Len(s) - i
      BY <1>1, <2>5
    <3>2. t[n - i] = s[k + 1 + (n - i) - 1]
      BY <2>1, <2>3, <2>4, <3>1
    <3> QED BY <2>5, <3>1, <3>2
  <2> QED BY <1>1, <1>3, <2>5, <2>6 DEF t
<1> QED BY <1>1, <1>2, <1>3

\* An entry on top of both.
LEMMA AgreeUp ==
  ASSUME NEW h \in Seq(Passwords), NEW s \in Seq(Passwords), NEW c \in Passwords,
         NEW n \in 0..HistoryLimit, NEW m \in 0..HistoryLimit, m <= n + 1, Agree(h, s, n)
  PROVE  LET t == Newest(Append(h, c), HistoryLimit) IN
         t # <<>> /\ t[Len(t)] = c /\ Agree(t, Append(s, c), m)
<1> DEFINE a == Append(h, c)
           b == Append(s, c)
           t == Newest(a, HistoryLimit)
<1>1. /\ a \in Seq(Passwords) /\ Len(a) = Len(h) + 1 /\ a[Len(h) + 1] = c
      /\ \A i \in 1..Len(h) : a[i] = h[i]
      /\ Len(b) = Len(s) + 1 /\ b[Len(s) + 1] = c /\ \A i \in 1..Len(s) : b[i] = s[i]
      /\ Len(h) \in Nat /\ Len(s) \in Nat
  BY AppendProperties, LenProperties
<1> HIDE DEF a, b
<1>2. /\ Len(t) \in Nat /\ Len(t) = IF Len(a) <= HistoryLimit THEN Len(a) ELSE HistoryLimit
      /\ \A i \in 0..Len(t) - 1 : t[Len(t) - i] = a[Len(a) - i]
      /\ t \in Seq(Passwords)
  BY <1>1, Bounds, NewestKeeps
<1> HIDE DEF t
<1>3. Len(t) >= 1 /\ t[Len(t)] = c
  <2>1. Len(t) >= 1
    BY <1>1, <1>2, Bounds
  <2>2. 0 \in 0..Len(t) - 1 /\ Len(t) - 0 = Len(t) /\ Len(a) - 0 = Len(h) + 1
    BY <1>1, <1>2, <2>1
  <2> QED BY <1>1, <1>2, <2>1, <2>2
<1>4. ASSUME NEW i \in 0..m - 1, i < Len(b)
      PROVE  i < Len(t) /\ t[Len(t) - i] = b[Len(b) - i]
  <2>1. CASE i = 0
    BY <1>1, <1>2, <1>3, <2>1
  <2>2. CASE i # 0
    <3>1. i - 1 \in 0..n - 1 /\ i - 1 < Len(s)
      BY <1>1, <1>4, <2>2
    <3>2. i - 1 < Len(h) /\ h[Len(h) - (i - 1)] = s[Len(s) - (i - 1)]
      BY <3>1 DEF Agree
    <3>3. i < Len(t) /\ i \in 0..Len(t) - 1
      BY <1>1, <1>2, <2>2, <3>2, Bounds
    <3>4. /\ Len(a) - i = Len(h) - (i - 1) /\ Len(h) - (i - 1) \in 1..Len(h)
          /\ Len(b) - i = Len(s) - (i - 1) /\ Len(s) - (i - 1) \in 1..Len(s)
      BY <1>1, <2>2, <3>1, <3>2
    <3> QED BY <1>1, <1>2, <3>2, <3>3, <3>4
  <2> QED BY <2>1, <2>2
<1>5. t # <<>>
  BY <1>2, <1>3, EmptySeq
<1> QED BY <1>3, <1>4, <1>5 DEF Agree, t, a, b

\* What is compared is no more than what is kept.
LEMMA AgreeNewest ==
  ASSUME NEW h, NEW s \in Seq(Passwords), NEW m \in 0..HistoryLimit, Agree(h, s, m)
  PROVE  Agree(h, Newest(s, HistoryLimit), m)
<1> DEFINE t == Newest(s, HistoryLimit)
<1>1. /\ Len(t) \in Nat /\ Len(s) \in Nat
      /\ Len(t) = IF Len(s) <= HistoryLimit THEN Len(s) ELSE HistoryLimit
      /\ \A i \in 0..Len(t) - 1 : t[Len(t) - i] = s[Len(s) - i]
  BY Bounds, NewestKeeps
<1> HIDE DEF t
<1>2. ASSUME NEW i \in 0..m - 1, i < Len(t) PROVE i < Len(h) /\ h[Len(h) - i] = t[Len(t) - i]
  <2>1. i \in 0..Len(t) - 1 /\ i < Len(s)
    BY <1>1, <1>2, Bounds
  <2> QED BY <1>1, <2>1 DEF Agree
<1> QED BY <1>2 DEF Agree, t

\* A history that agrees as far as it is read has every entry.
LEMMA AgreeAll ==
  ASSUME NEW h \in History, NEW s \in History, Agree(h, s, HistoryLimit)
  PROVE  Elements(s) \subseteq Elements(h)
<1>1. /\ Len(h) \in Nat /\ DOMAIN h = 1..Len(h) /\ Len(s) \in Nat /\ DOMAIN s = 1..Len(s)
      /\ Len(s) <= HistoryLimit
  BY LenProperties DEF History
<1>2. ASSUME NEW j \in 1..Len(s) PROVE \E k \in 1..Len(h) : h[k] = s[j]
  <2>1. Len(s) - j \in 0..HistoryLimit - 1 /\ Len(s) - j < Len(s) /\ Len(s) - (Len(s) - j) = j
    BY <1>1, Bounds
  <2>2. Len(s) - j < Len(h) /\ h[Len(h) - (Len(s) - j)] = s[j]
    BY <2>1 DEF Agree
  <2>3. Len(h) - (Len(s) - j) \in 1..Len(h)
    BY <1>1, <2>2
  <2> QED BY <2>2, <2>3
<1> QED BY <1>1, <1>2 DEF Elements

\* The password on top is what both have in common.
LEMMA AgreeTop ==
  ASSUME NEW h \in Seq(Passwords), NEW s \in Seq(Passwords), NEW c \in Passwords,
         h # <<>>, h[Len(h)] = c
  PROVE  Agree(h, Append(s, c), 1)
<1>1. Len(Append(s, c)) = Len(s) + 1 /\ Append(s, c)[Len(s) + 1] = c /\ Len(s) \in Nat
      /\ Len(h) \in Nat /\ Len(h) # 0
  BY AppendProperties, LenProperties, EmptySeq
<1>2. \A i \in 0..1 - 1 : i = 0
  OBVIOUS
<1> QED BY <1>1, <1>2 DEF Agree

\* How the history, the changes and the requests fit, from their types.
LEMMA ChangeFine ==
  ASSUME PInv
  PROVE  /\ hist \in Seq(Passwords) /\ past \in Seq(Passwords) /\ hist \in History /\ past \in History
         /\ doubt \in 0..HistoryLimit /\ req \in [Procs -> Request]
         /\ cred # None => cred \in Passwords
BY DEF PInv, SecretsOK, RequestsOK, History, Credentials

\* A request moves that is not about to update and will not be.
LEMMA HistoryQuiet ==
  ASSUME PInv, HistoryOK, NEW p \in Procs, NEW r, Become(p, r), UNCHANGED <<cred, hist, past, doubt>>,
         cred # None =>
           /\ req[p].pc # "update" /\ r.pc # "update" /\ OldOK(r, cred, hist)
           /\ Updating = {} /\ doubt = 0 /\ ~r.crossed /\ r.pc \in CheckedLabels =>
                r.new \notin Elements(past)
  PROVE  HistoryOK'
<1> SUFFICES ASSUME cred # None PROVE HistoryOK'
  BY DEF HistoryOK
<1>1. req'[p] = r /\ \A q \in Procs \ {p} : req'[q] = req[q]
  BY ChangeFine DEF Become
<1>2. Updating' = Updating /\ p \notin Updating
  BY <1>1 DEF Updating
<1>3. \A q \in Procs : OldOK(req'[q], cred, hist)
  BY <1>1 DEF HistoryOK
<1>4. ASSUME NEW q \in Procs, Updating = {q}, ~req'[q].crossed PROVE q # p /\ ~req[q].crossed
  BY <1>1, <1>2, <1>4
<1>5. ASSUME NEW q \in Procs, Updating \subseteq {q}, doubt = 0, ~req'[q].crossed,
             req'[q].pc \in CheckedLabels
      PROVE  req'[q].new \notin Elements(past)
  BY <1>1, <1>2, <1>5 DEF HistoryOK
<1> QED BY <1>2, <1>3, <1>4, <1>5 DEF HistoryOK

\* Labels of a request that knows nothing of passwords, or has not read any yet.
LEMMA PlainOld ==
  ASSUME NEW r, r.pc \notin {"history", "addEntry", "update", "getCred"}
  PROVE  \A c, h : OldOK(r, c, h) /\ r.pc \notin CheckedLabels
BY DEF OldOK, CheckedLabels

LEMMA HistoryPlain ==
  ASSUME PInv, HistoryOK, NEW p \in Procs, NEW r, Become(p, r), UNCHANGED <<cred, hist, past, doubt>>,
         cred # None => req[p].pc # "update",
         r.pc \notin {"history", "addEntry", "update", "getCred"}
  PROVE  HistoryOK'
BY PlainOld, HistoryQuiet

\* A label from which, and to which, nothing is known of the password.
LEMMA RequestsElsewhere ==
  ASSUME PInv, HistoryOK, NEW p \in Procs,
         \/ BeginForgot(p) \/ CheckCooldown(p) \/ CheckDaily(p) \/ DeleteTokens(p)
         \/ InsertToken(p) \/ Mail(p) \/ SetCooldown(p) \/ IncrDaily(p) \/ ExpireDaily(p)
         \/ MarkUsed(p)
         \/ \E t \in 1..MaxTokens, w \in mix.words : BeginReset(p, t, w)
         \/ \E v, w \in mix.words : BeginChange(p, v, w)
  PROVE  HistoryOK'
<1>1. UNCHANGED <<cred, hist, past, doubt>> /\ req[p].pc # "update" /\ req[p] \in Request
  BY ChangeFine DEF BeginForgot, CheckCooldown, CheckDaily, DeleteTokens, InsertToken, Mail,
     SetCooldown, IncrDaily, ExpireDaily, MarkUsed, BeginReset, BeginChange, secrets, At
<1> DEFINE Elsewhere(r) == r.pc \notin {"history", "addEntry", "update", "getCred"}
<1>2. ASSUME NEW l \in {"daily?", "deleteTokens", "insertToken", "incrDaily", "expireDaily"}, Goto(p, l)
      PROVE  \E r : Become(p, r) /\ Elsewhere(r)
  <2> DEFINE r == [req[p] EXCEPT !.pc = l]
  <2>1. r.pc = l /\ Become(p, r)
    BY <1>1, <1>2 DEF Goto, Request
  <2> HIDE DEF r
  <2> QED BY <2>1
<1>3. ASSUME Finish(p) PROVE \E r : Become(p, r) /\ Elsewhere(r)
  BY <1>3, IdleFine DEF Finish
<1>4. ASSUME BeginForgot(p) PROVE \E r : Become(p, r) /\ Elsewhere(r)
  <2> DEFINE r == [Idle EXCEPT !.pc = "cooldown?", !.ended = Stored]
  <2>1. r.pc = "cooldown?" /\ Become(p, r)
    BY <1>4, IdleFine DEF BeginForgot, Request
  <2> HIDE DEF r
  <2> QED BY <2>1
<1>5. ASSUME InsertToken(p) PROVE \E r : Become(p, r) /\ Elsewhere(r)
  <2> DEFINE r == [req[p] EXCEPT !.pc = "mail", !.token = lastToken + 1]
  <2>1. r.pc = "mail" /\ Become(p, r)
    BY <1>1, <1>5 DEF InsertToken, Request
  <2> HIDE DEF r
  <2> QED BY <2>1
<1>6. ASSUME Mail(p) PROVE \E r : Become(p, r) /\ Elsewhere(r)
  <2> DEFINE r == [Idle EXCEPT !.pc = "setCooldown"]
  <2>1. r.pc = "setCooldown" /\ Become(p, r)
    BY <1>6, IdleFine DEF Mail, Request
  <2> HIDE DEF r
  <2> QED BY <2>1
<1>7. ASSUME NEW t \in 1..MaxTokens, NEW w \in mix.words, BeginReset(p, t, w)
      PROVE  \E r : Become(p, r) /\ Elsewhere(r)
  <2> DEFINE r == [Idle EXCEPT !.pc = "findToken", !.token = t, !.new = w, !.late = t \in dead]
  <2>1. r.pc = "findToken" /\ Become(p, r)
    BY <1>7, IdleFine DEF BeginReset, Request
  <2> HIDE DEF r
  <2> QED BY <2>1
<1>8. ASSUME NEW v \in mix.words, NEW w \in mix.words, BeginChange(p, v, w)
      PROVE  \E r : Become(p, r) /\ Elsewhere(r)
  <2> DEFINE r == [Idle EXCEPT !.pc = "verifyOld", !.old = v, !.new = w]
  <2>1. r.pc = "verifyOld" /\ Become(p, r)
    BY <1>8, IdleFine DEF BeginChange, Request
  <2> HIDE DEF r
  <2> QED BY <2>1
<1>9. \E r : Become(p, r) /\ Elsewhere(r)
  BY <1>2, <1>3, <1>4, <1>5, <1>6, <1>7, <1>8
     DEF CheckCooldown, CheckDaily, DeleteTokens, SetCooldown, IncrDaily, ExpireDaily, MarkUsed
<1> QED BY <1>1, <1>9, HistoryPlain

\* The reads of a change: what it remembers is what is there.
LEMMA ReadsFine ==
  ASSUME PInv, HistoryOK, NEW p \in Procs,
         FindToken(p) \/ VerifyOld(p) \/ CheckHistory(p) \/ GetCred(p)
  PROVE  HistoryOK'
<1>1. /\ UNCHANGED <<cred, hist, past, doubt>> /\ req[p].pc # "update" /\ req[p] \in Request
      /\ TokenOK(req[p], tokens, lastToken, dead)
  BY ChangeFine DEF FindToken, VerifyOld, CheckHistory, GetCred, secrets, At, PInv, RequestsOK
<1>2. CASE Finish(p)
  BY <1>1, <1>2, IdleFine, HistoryPlain DEF Finish
<1>3. CASE Goto(p, "history") /\ (FindToken(p) \/ VerifyOld(p))
  <2> DEFINE r == [req[p] EXCEPT !.pc = "history"]
  <2>1. r.pc = "history" /\ r.old = req[p].old /\ r.token = req[p].token /\ Become(p, r)
    BY <1>1, <1>3 DEF Goto, Request
  <2> HIDE DEF r
  <2>2. req[p].token # 0 \/ req[p].old = cred \/ VerifyOld(p)
    BY <1>1, <1>3 DEF FindToken, At, TokenOK
  <2>3. OldOK(r, cred, hist) /\ r.pc \notin CheckedLabels
    <3>1. CASE FindToken(p)
      BY <1>1, <2>1, <3>1 DEF FindToken, At, TokenOK, OldOK, CheckedLabels
    <3>2. CASE VerifyOld(p) /\ req[p].old = cred
      BY <2>1, <3>2 DEF OldOK, CheckedLabels
    <3>3. CASE VerifyOld(p) /\ req[p].old # cred
      <4>1. Idle.pc = "idle" /\ req'[p] = Idle /\ req'[p] = r
        BY <2>1, <3>3, IdleFine, ChangeFine DEF VerifyOld, Finish, Become
      <4> QED BY <2>1, <4>1
    <3> QED BY <1>3, <3>1, <3>2, <3>3
  <2> QED BY <1>1, <2>1, <2>3, HistoryQuiet
<1>4. CASE /\ CheckHistory(p) /\ req[p].new \notin Elements(Recent(hist))
           /\ Goto(p, IF req[p].token = 0 THEN "addEntry" ELSE "getCred")
  <2> DEFINE l == IF req[p].token = 0 THEN "addEntry" ELSE "getCred"
             r == [req[p] EXCEPT !.pc = l]
  <2>1. /\ r.pc = l /\ r.old = req[p].old /\ r.token = req[p].token /\ r.new = req[p].new
        /\ Become(p, r) /\ req[p].pc = "history"
    BY <1>1, <1>4 DEF Goto, Request, CheckHistory, At
  <2>2. r.crossed <=> req[p].crossed
    BY <1>1 DEF Request
  <2> HIDE DEF r
  <2>3. ASSUME cred # None PROVE OldOK(r, cred, hist)
    <3>1. OldOK(req[p], cred, hist)
      BY <2>3 DEF HistoryOK
    <3> QED BY <2>1, <2>2, <3>1 DEF OldOK
  <2>4. ASSUME cred # None, Updating = {}, doubt = 0 PROVE r.new \notin Elements(past)
    <3>1. Agree(hist, past, HistoryLimit - 0) /\ HistoryLimit - 0 = HistoryLimit
      BY <2>4, Bounds DEF HistoryOK
    <3>2. Elements(past) \subseteq Elements(hist)
      BY <3>1, ChangeFine, AgreeAll
    <3>3. Recent(hist) = hist
      BY ChangeFine DEF Recent, Newest, History
    <3> QED BY <1>4, <2>1, <3>2, <3>3
  <2>5. r.pc # "update"
    BY <2>1
  <2> HIDE DEF l
  <2> QED BY <1>1, <2>1, <2>3, <2>4, <2>5, HistoryQuiet
<1>5. CASE GetCred(p)
  <2> DEFINE l == IF cred = None THEN "update" ELSE "addEntry"
             r == [req[p] EXCEPT !.pc = l, !.old = cred]
  <2>1. r.pc = l /\ r.old = cred /\ r.new = req[p].new /\ Become(p, r) /\ req[p].pc = "getCred"
    BY <1>1, <1>5 DEF GetCred, Request, At
  <2>2. r.crossed <=> req[p].crossed
    BY <1>1 DEF Request
  <2> HIDE DEF r
  <2>3. ASSUME cred # None PROVE OldOK(r, cred, hist) /\ r.pc # "update"
    BY <2>1, <2>3 DEF OldOK
  <2>4. ASSUME cred # None, Updating = {}, doubt = 0, ~r.crossed PROVE r.new \notin Elements(past)
    <3>1. Updating \subseteq {p} /\ req[p].pc \in CheckedLabels
      BY <2>1, <2>4 DEF CheckedLabels
    <3> QED BY <2>1, <2>2, <2>4, <3>1 DEF HistoryOK
  <2> QED BY <1>1, <2>1, <2>3, <2>4, HistoryQuiet
<1> QED BY <1>2, <1>3, <1>4, <1>5 DEF FindToken, VerifyOld, CheckHistory

\* What a write does to the other changes.
LEMMA CrossFine ==
  ASSUME PInv, NEW p \in Procs, NEW r, Cross(p, r)
  PROVE  /\ req'[p] = r
         /\ \A q \in Procs \ {p} : /\ req'[q].pc = req[q].pc
                                   /\ req[q].pc \in ChangeLabels => req'[q].crossed
<1>1. req'[p] = r
  BY DEF Cross
<1>2. ASSUME NEW q \in Procs \ {p}
      PROVE  req'[q].pc = req[q].pc /\ (req[q].pc \in ChangeLabels => req'[q].crossed)
  <2>1. req'[q] = [req[q] EXCEPT !.crossed = @ \/ req[q].pc \in ChangeLabels] /\ req[q] \in Request
    BY ChangeFine DEF Cross
  <2> QED BY <2>1 DEF Request
<1> QED BY <1>1, <1>2

\* A change that another one crossed claims nothing.
LEMMA CrossedOld ==
  ASSUME NEW r, r.pc \in ChangeLabels => r.crossed
  PROVE  \A c, h : OldOK(r, c, h) /\ (r.pc \in CheckedLabels => r.crossed)
BY DEF OldOK, CheckedLabels, ChangeLabels

LEMMA AddEntryHistory == ASSUME PInv, HistoryOK, NEW p \in Procs, AddEntry(p) PROVE HistoryOK'
<1> SUFFICES ASSUME cred # None PROVE HistoryOK'
  BY DEF AddEntry, HistoryOK
<1> DEFINE r == [req[p] EXCEPT !.pc = "update"]
<1>1. /\ req[p].pc = "addEntry" /\ Cross(p, r) /\ UNCHANGED <<cred, past>>
      /\ hist' = Newest(Append(hist, req[p].old), HistoryLimit)
      /\ doubt' = IF req[p].crossed THEN HistoryLimit ELSE doubt
      /\ req[p] \in Request
  BY ChangeFine DEF AddEntry, At
<1>2. r.pc = "update" /\ r.new = req[p].new
  BY <1>1 DEF Request
<1>3. r.crossed <=> req[p].crossed
  BY <1>1 DEF Request
<1> HIDE DEF r
<1>4. /\ req'[p] = r
      /\ \A q \in Procs \ {p} : /\ req'[q].pc = req[q].pc
                                /\ req[q].pc \in ChangeLabels => req'[q].crossed
  BY <1>1, CrossFine
<1>5. Updating' = Updating \cup {p} /\ p \notin Updating
  BY <1>1, <1>2, <1>4 DEF Updating
<1>6. OldOK(req[p], cred, hist) /\ (~req[p].crossed => req[p].old = cred)
  BY <1>1 DEF HistoryOK, OldOK
<1> DEFINE m == IF doubt > 0 THEN HistoryLimit - doubt + 1 ELSE HistoryLimit
<1>7. HistoryLimit - doubt \in 0..HistoryLimit /\ m \in 0..HistoryLimit /\ m <= HistoryLimit - doubt + 1
      /\ 0 \in 0..HistoryLimit /\ 0 <= 0 + 1
  BY ChangeFine, Bounds
<1>8. ASSUME ~r.crossed PROVE hist' # <<>> /\ hist'[Len(hist')] = cred
  <2>1. Agree(hist, past, 0)
    BY DEF Agree
  <2> QED BY <1>1, <1>3, <1>6, <1>7, <1>8, <2>1, ChangeFine, AgreeUp
<1>9. ASSUME NEW q \in Procs PROVE OldOK(req'[q], cred, hist')
  <2>1. CASE q = p
    BY <1>2, <1>4, <1>8, <2>1 DEF OldOK
  <2>2. CASE q # p
    BY <1>4, <2>2, CrossedOld
  <2> QED BY <2>1, <2>2
<1>10. ASSUME NEW q \in Procs, Updating' \subseteq {q} PROVE q = p /\ Updating = {}
  BY <1>5, <1>10
<1>11. ASSUME Updating = {}, ~r.crossed PROVE doubt' = doubt /\ Agree(hist', Append(past, cred), m)
  <2>1. Agree(hist, past, HistoryLimit - doubt)
    BY <1>11 DEF HistoryOK
  <2>2. doubt' = doubt /\ hist' = Newest(Append(hist, cred), HistoryLimit)
    BY <1>1, <1>3, <1>6, <1>11
  <2> HIDE DEF m
  <2> QED BY <1>7, <2>1, <2>2, ChangeFine, AgreeUp
<1>12. ASSUME Updating = {}, ~r.crossed, doubt' = 0 PROVE r.new \notin Elements(past)
  <2>1. Updating \subseteq {p} /\ req[p].pc \in CheckedLabels /\ doubt = 0
    BY <1>1, <1>11, <1>12 DEF CheckedLabels
  <2> QED BY <1>2, <1>3, <1>12, <2>1 DEF HistoryOK
<1>13. \A q \in Procs : Updating' = {q} /\ ~req'[q].crossed =>
         Agree(hist', Append(past, cred), IF doubt' > 0 THEN HistoryLimit - doubt' + 1 ELSE HistoryLimit)
  BY <1>4, <1>10, <1>11
<1>14. \A q \in Procs :
         Updating' \subseteq {q} /\ doubt' = 0 /\ ~req'[q].crossed /\ req'[q].pc \in CheckedLabels =>
           req'[q].new \notin Elements(past)
  BY <1>4, <1>10, <1>12
<1>15. Updating' # {}
  BY <1>5
<1> QED BY <1>1, <1>9, <1>13, <1>14, <1>15 DEF HistoryOK

LEMMA UpdateHistory == ASSUME PInv, PInv', HistoryOK, NEW p \in Procs, Update(p) PROVE HistoryOK'
<1>1. CASE cred = None
  BY <1>1 DEF Update, secrets, HistoryOK
<1>2. CASE cred # None
  <2>1. PICK r : Cross(p, r) /\ r.pc \in {"idle", "markUsed"}
    <3> DEFINE a == [req[p] EXCEPT !.pc = "markUsed"]
    <3>1. a.pc = "markUsed" /\ Idle.pc = "idle"
      BY IdleFine, ChangeFine DEF Request
    <3>2. Cross(p, Idle) \/ Cross(p, a)
      BY <1>2 DEF Update
    <3> HIDE DEF a
    <3> QED BY <3>1, <3>2
  <2>2. /\ req[p].pc = "update" /\ hist' = hist
        /\ past' = Newest(Append(past, cred), HistoryLimit)
        /\ doubt' = IF req[p].crossed \/ \E q \in Procs \ {p} : At(q, "update")
                    THEN HistoryLimit ELSE IF doubt > 0 THEN doubt - 1 ELSE 0
    BY <1>2 DEF Update, At
  <2>3. /\ req'[p] = r
        /\ \A q \in Procs \ {p} : /\ req'[q].pc = req[q].pc
                                  /\ req[q].pc \in ChangeLabels => req'[q].crossed
    BY <2>1, CrossFine
  <2>4. Updating' = Updating \ {p} /\ p \in Updating /\ r.pc \notin ChangeLabels
        /\ CheckedLabels \subseteq ChangeLabels /\ "update" \in ChangeLabels
    BY <2>1, <2>2, <2>3 DEF Updating, ChangeLabels, CheckedLabels
  <2>5. ASSUME NEW q \in Procs
        PROVE  /\ OldOK(req'[q], cred', hist')
               /\ req'[q].pc \in CheckedLabels => req'[q].crossed
               /\ q \in Updating' => req'[q].crossed
    <3>1. req'[q].pc \in ChangeLabels => req'[q].crossed
      BY <2>3, <2>4
    <3>2. q \in Updating' => req'[q].pc \in ChangeLabels
      BY <2>4 DEF Updating
    <3> QED BY <3>1, <3>2, CrossedOld
  <2>6. ASSUME Updating' = {} PROVE Agree(hist', past', HistoryLimit - doubt')
    <3>1. Updating = {p} /\ ~\E q \in Procs \ {p} : At(q, "update")
      BY <2>4, <2>6 DEF Updating, At
    <3>2. CASE req[p].crossed
      <4>1. doubt' = HistoryLimit /\ HistoryLimit - HistoryLimit = 0
        BY <2>2, <3>2, Bounds
      <4> QED BY <4>1 DEF Agree
    <3>3. CASE ~req[p].crossed
      <4> DEFINE m == IF doubt > 0 THEN HistoryLimit - doubt + 1 ELSE HistoryLimit
      <4>1. Agree(hist, Append(past, cred), m)
        BY <1>2, <3>1, <3>3 DEF HistoryOK
      <4>2. m \in 0..HistoryLimit /\ HistoryLimit - doubt' = m
        BY <2>2, <3>1, <3>3, ChangeFine, Bounds
      <4> HIDE DEF m
      <4>3. Append(past, cred) \in Seq(Passwords)
        BY <1>2, ChangeFine, AppendProperties
      <4> QED BY <2>2, <4>1, <4>2, <4>3, AgreeNewest
    <3> QED BY <3>2, <3>3
  <2>7. \A q \in Procs : ~(Updating' = {q} /\ ~req'[q].crossed)
    BY <2>5
  <2> QED BY <2>5, <2>6, <2>7 DEF HistoryOK
<1> QED BY <1>1, <1>2

LEMMA AbortHistory == ASSUME PInv, PInv', HistoryOK, NEW p \in Procs, Abort(p) PROVE HistoryOK'
<1>1. /\ UNCHANGED <<cred, hist, past>> /\ Become(p, Idle) /\ Idle.pc = "idle"
      /\ doubt' = IF At(p, "update") THEN HistoryLimit ELSE doubt
  BY IdleFine DEF Abort, Finish
<1>2. CASE ~At(p, "update")
  BY <1>1, <1>2, HistoryPlain DEF At
<1>3. CASE At(p, "update") /\ cred # None
  <2>1. req'[p] = Idle /\ \A q \in Procs \ {p} : req'[q] = req[q]
    BY <1>1, ChangeFine DEF Become
  <2>2. doubt' = HistoryLimit /\ HistoryLimit - HistoryLimit = 0 /\ doubt' > 0
        /\ HistoryLimit - HistoryLimit + 1 = 1
    BY <1>1, <1>3, Bounds
  <2>3. \A q \in Procs : OldOK(req'[q], cred, hist)
    BY <1>1, <1>3, <2>1, PlainOld DEF HistoryOK
  <2>4. Agree(hist, past, HistoryLimit - doubt')
    BY <2>2 DEF Agree
  <2>5. ASSUME NEW q \in Procs, Updating' = {q}, ~req'[q].crossed
        PROVE  Agree(hist, Append(past, cred), 1)
    <3>1. req'[q].pc = "update"
      BY <2>5 DEF Updating
    <3>2. hist # <<>> /\ hist[Len(hist)] = cred
      BY <2>3, <2>5, <3>1 DEF OldOK
    <3> QED BY <1>3, <3>2, ChangeFine, AgreeTop
  <2>6. \A q \in Procs : Updating' = {q} /\ ~req'[q].crossed =>
          Agree(hist, Append(past, cred), IF doubt' > 0 THEN HistoryLimit - doubt' + 1 ELSE HistoryLimit)
    BY <2>2, <2>5
  <2> QED BY <1>1, <2>2, <2>3, <2>4, <2>6 DEF HistoryOK
<1> QED BY <1>1, <1>2, <1>3 DEF HistoryOK

LEMMA HistoryInit == Init => HistoryOK
<1> SUFFICES ASSUME Init PROVE HistoryOK
  OBVIOUS
<1>1. req = [p \in Procs |-> Idle] /\ past = <<>> /\ doubt = 0 /\ Idle.pc = "idle" /\ Len(<<>>) = 0
  BY IdleFine DEF Init
<1>2. \A p \in Procs : req[p].pc = "idle"
  BY <1>1
<1>3. \A p \in Procs : req[p].pc \notin CheckedLabels /\ \A c, h : OldOK(req[p], c, h)
  BY <1>2, PlainOld
<1>4. \A h, n : Agree(h, past, n)
  BY <1>1 DEF Agree
<1>5. Updating = {}
  BY <1>2 DEF Updating
<1> QED BY <1>3, <1>4, <1>5 DEF HistoryOK

LEMMA HistoryNext == PInv /\ PInv' /\ HistoryOK /\ [Next]_vars => HistoryOK'
<1> SUFFICES ASSUME PInv, PInv', HistoryOK, [Next]_vars PROVE HistoryOK'
  OBVIOUS
<1>1. CASE UNCHANGED <<cred, hist, past, doubt, req>>
  BY <1>1 DEF HistoryOK, Updating
<1>2. ASSUME NEW p \in Procs, Begin(p) PROVE HistoryOK'
  BY <1>2, RequestsElsewhere DEF Begin
<1>3. ASSUME NEW p \in Procs, Continue(p) PROVE HistoryOK'
  BY <1>3, RequestsElsewhere, ReadsFine, AddEntryHistory, UpdateHistory DEF Continue
<1>4. ASSUME NEW p \in Procs, Abort(p) PROVE HistoryOK'
  BY <1>4, AbortHistory
<1>5. UNCHANGED vars \/ CooldownExpires \/ DailyExpires \/ (\E t \in 1..MaxTokens : TokenExpires(t))
      => UNCHANGED <<cred, hist, past, doubt, req>>
  BY DEF vars, CooldownExpires, DailyExpires, TokenExpires, secrets
<1> QED BY <1>1, <1>2, <1>3, <1>4, <1>5 DEF Next

\* resetPassword and changePassword look at getRecentHashes before they write the old
\* password to the history and the new one to its row, two statements apart: unless changes
\* cross or one dies in between, what comes into force was not replaced lately.
THEOREM RecentStaysOut == Spec => NoRecentReuse
<1>1. ASSUME PInv, HistoryOK, NEW p \in Procs, Update(p), cred # None, doubt = 0, doubt' = 0
      PROVE  req[p].new \notin Elements(past)
  <2>1. /\ req[p].pc = "update"
        /\ doubt' = IF req[p].crossed \/ \E q \in Procs \ {p} : At(q, "update")
                    THEN HistoryLimit ELSE IF doubt > 0 THEN doubt - 1 ELSE 0
    BY <1>1 DEF Update, At
  <2>2. ~req[p].crossed /\ ~\E q \in Procs \ {p} : At(q, "update")
    BY <1>1, <2>1, Bounds
  <2>3. Updating \subseteq {p} /\ req[p].pc \in CheckedLabels
    BY <2>1, <2>2 DEF Updating, At, CheckedLabels
  <2> QED BY <1>1, <2>2, <2>3 DEF HistoryOK
<1>2. PInv /\ HistoryOK /\ [Next]_vars =>
        [\A p \in Procs :
           Update(p) /\ cred # None /\ doubt = 0 /\ doubt' = 0 => req[p].new \notin Elements(past)]_vars
  BY <1>1
<1> QED BY <1>2, HistoryInit, HistoryNext, PasswordsInvariance, PTL DEF Spec, NoRecentReuse
=============================================================================
