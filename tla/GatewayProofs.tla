--------------------------- MODULE GatewayProofs ---------------------------
(***************************************************************************)
(* The circuit breaker keeps its types, and its status agrees with its     *)
(* count; the gateway's calls implement it, a session is taken for a       *)
(* replay for a cause, and access ends after a session: for any number of  *)
(* calls, threshold, cooldown, attempts, tokens and lives.                 *)
(***************************************************************************)
EXTENDS Gateway, FiniteSetTheorems, SequenceTheorems, TLAPS

-----------------------------------------------------------------------------
(* The circuit breaker.                                                    *)

\* What TypeOK says of requests, and what makes it inductive: a request that
\* ended left no attempts behind for the next one in its slot.
RequestsOK ==
  /\ req \in [Procs -> Request]
  /\ \A p \in Procs : /\ req[p].pc # "idle" => req[p].attempt >= 1
                      /\ req[p].pc = "backoff" => req[p].attempt < MaxAttempts
                      /\ req[p].pc = "idle" => req[p] = Idle

BreakerOK == breaker \in Breaker /\ StatusMatchesCount

BInv == BreakerOK /\ up \in BOOLEAN /\ RequestsOK

\* The invariant gives the type invariant.
LEMMA BInvTypes == BInv => TypeOK /\ StatusMatchesCount
BY DEF BInv, BreakerOK, RequestsOK, TypeOK

\* A request that is not in flight is well typed.
LEMMA IdleTyped == Idle \in Request /\ Idle.pc = "idle" /\ Idle.attempt = 0
BY BreakerAssumption DEF Idle, Request

\* Counting a failure keeps the entry typed, and opens the circuit exactly when
\* the count arrives at the threshold or was there already.
LEMMA RecordFailureStep == BreakerOK /\ RecordFailure => BreakerOK'
<1> SUFFICES ASSUME BreakerOK, RecordFailure PROVE BreakerOK'
  OBVIOUS
<1>1. /\ breaker.failures \in 0..Threshold
      /\ breaker.status \in {"CLOSED", "OPEN", "HALF_OPEN"}
      /\ Threshold \in Nat \ {0} /\ Cooldown \in Nat
      /\ breaker.status = "CLOSED" <=> breaker.failures < Threshold
  BY BreakerAssumption DEF BreakerOK, Breaker, StatusMatchesCount
<1>2. CASE breaker.failures + 1 >= Threshold
  <2>1. breaker' = [status |-> "OPEN", failures |-> Threshold, cooling |-> Cooldown + 1]
    BY <1>2 DEF RecordFailure
  <2> QED BY <1>1, <2>1 DEF BreakerOK, Breaker, StatusMatchesCount
<1>3. CASE ~(breaker.failures + 1 >= Threshold)
  <2>1. breaker' = [status |-> breaker.status, failures |-> breaker.failures + 1,
                    cooling |-> Cooldown + 1]
    BY <1>3 DEF RecordFailure
  <2> QED BY <1>1, <1>3, <2>1 DEF BreakerOK, Breaker, StatusMatchesCount
<1> QED BY <1>2, <1>3

\* Counting a success closes the circuit, whatever state it was in.
LEMMA RecordSuccessStep == BreakerOK /\ RecordSuccess => BreakerOK'
<1> SUFFICES ASSUME BreakerOK, RecordSuccess PROVE BreakerOK'
  OBVIOUS
<1>1. /\ breaker' = [status |-> "CLOSED", failures |-> 0, cooling |-> breaker.cooling]
      /\ breaker.cooling \in 0..Cooldown + 1
  BY DEF RecordSuccess, BreakerOK, Breaker
<1> QED BY <1>1, BreakerAssumption DEF BreakerOK, Breaker, StatusMatchesCount

\* Letting a request through moves the status between OPEN and HALF_OPEN only.
LEMMA CheckCircuitStep == BreakerOK /\ CheckCircuit => BreakerOK'
BY BreakerAssumption DEF BreakerOK, Breaker, StatusMatchesCount, CheckCircuit

\* A step gives one request a new local state.
LEMMA BecomeStep ==
  ASSUME RequestsOK, NEW p \in Procs, NEW r \in Request, req' = [req EXCEPT ![p] = r],
         r.pc # "idle" => r.attempt >= 1,
         r.pc = "backoff" => r.attempt < MaxAttempts,
         r.pc = "idle" => r = Idle
  PROVE  RequestsOK'
BY DEF RequestsOK

\* An attempt that is sent counts one more, and stays within MaxAttempts.
LEMMA SendStep ==
  ASSUME RequestsOK, up \in BOOLEAN, NEW p \in Procs, Send(p),
         req[p].attempt < MaxAttempts
  PROVE  RequestsOK'
<1> DEFINE r == [pc |-> "sent", attempt |-> req[p].attempt + 1, heard |-> up, lost |-> ~up]
<1>1. req[p].attempt \in 0..MaxAttempts /\ MaxAttempts \in Nat \ {0}
  BY BreakerAssumption DEF RequestsOK, Request
<1>2. (~up) \in BOOLEAN
  OBVIOUS
<1>3. r \in Request
  BY <1>1, <1>2 DEF Request
<1>4. r.pc = "sent" /\ r.attempt >= 1
  BY <1>1
<1>5. req' = [req EXCEPT ![p] = r]
  BY DEF Send
<1> HIDE DEF r
<1> QED BY <1>3, <1>4, <1>5, BecomeStep

\* A request that ended.
LEMMA FinishStep == ASSUME RequestsOK, NEW p \in Procs, Finish(p) PROVE RequestsOK'
BY IdleTyped, BecomeStep DEF Finish

-----------------------------------------------------------------------------
\* Every step preserves the agreement and the types.
LEMMA BInvStep == BInv /\ [Next]_vars => BInv'
<1> SUFFICES ASSUME BInv, [Next]_vars PROVE BInv'
  OBVIOUS
<1>1. /\ BreakerOK /\ up \in BOOLEAN /\ RequestsOK
      /\ MaxAttempts \in Nat \ {0} /\ Threshold \in Nat \ {0} /\ Cooldown \in Nat
  BY BreakerAssumption DEF BInv
<1>2. ASSUME UNCHANGED breaker PROVE BreakerOK'
  BY <1>1, <1>2 DEF BreakerOK, StatusMatchesCount
<1>3. ASSUME NEW p \in Procs, Admit(p) PROVE BInv'
  <2>1. req[p].attempt < MaxAttempts
    BY <1>1, <1>3, IdleTyped DEF Admit, RequestsOK
  <2> QED BY <1>1, <1>3, <2>1, CheckCircuitStep, SendStep DEF Admit, BInv
<1>4. ASSUME NEW p \in Procs, OnResponse(p) PROVE BInv'
  BY <1>1, <1>4, RecordSuccessStep, FinishStep DEF OnResponse, BInv
<1>5. ASSUME NEW p \in Procs, OnRetryableError(p) PROVE BInv'
  <2> DEFINE r == [Idle EXCEPT !.pc = "backoff", !.attempt = req[p].attempt]
  <2>1. /\ req' = [req EXCEPT ![p] = r]
        /\ req[p].pc = "sent" /\ req[p].attempt < MaxAttempts
        /\ UNCHANGED <<breaker, up>>
    BY <1>5 DEF OnRetryableError
  <2>2. req[p].attempt >= 1 /\ req[p].attempt \in 0..MaxAttempts
    BY <1>1, <2>1 DEF RequestsOK, Request
  <2>3. r \in Request /\ r.pc = "backoff" /\ r.attempt = req[p].attempt
    BY <2>2, IdleTyped DEF Request
  <2> HIDE DEF r
  <2> QED BY <1>1, <1>2, <2>1, <2>2, <2>3, BecomeStep DEF BInv
<1>6. ASSUME NEW p \in Procs, OnFinalError(p) PROVE BInv'
  BY <1>1, <1>6, RecordFailureStep, FinishStep DEF OnFinalError, BInv
<1>7. ASSUME NEW p \in Procs, Retry(p) PROVE BInv'
  <2>1. req[p].attempt < MaxAttempts
    BY <1>1, <1>7 DEF Retry, RequestsOK
  <2> QED BY <1>1, <1>2, <1>7, <2>1, SendStep DEF Retry, BInv
<1>8. ASSUME Tick PROVE BInv'
  BY <1>1, <1>8 DEF Tick, BInv, BreakerOK, Breaker, StatusMatchesCount, RequestsOK
<1>9. ASSUME Flip PROVE BInv'
  <2>1. /\ req' = [p \in Procs |-> IF req[p].pc # "sent" THEN req[p]
                    ELSE [req[p] EXCEPT !.heard = @ \/ up', !.lost = @ \/ ~up']]
        /\ up' = ~up /\ UNCHANGED breaker
    BY <1>9 DEF Flip
  <2>2. \A p \in Procs : /\ req'[p] \in Request
                         /\ req'[p].pc = req[p].pc /\ req'[p].attempt = req[p].attempt
                         /\ req'[p].pc = "idle" => req'[p] = req[p]
    <3> TAKE p \in Procs
    <3>1. /\ req[p].heard \in BOOLEAN /\ req[p].lost \in BOOLEAN /\ req[p] \in Request
      BY <1>1 DEF RequestsOK, Request
    <3>2. (req[p].heard \/ up') \in BOOLEAN /\ (req[p].lost \/ ~up') \in BOOLEAN
      OBVIOUS
    <3> QED BY <2>1, <3>1, <3>2 DEF Request
  <2>3. RequestsOK'
    BY <1>1, <2>1, <2>2 DEF RequestsOK
  <2>4. up' \in BOOLEAN
    BY <2>1
  <2> QED BY <1>2, <2>1, <2>3, <2>4 DEF BInv
<1>10. ASSUME Restart PROVE BInv'
  BY <1>1, <1>10, IdleTyped
  DEF Restart, BInv, BreakerOK, Breaker, NoFailure, StatusMatchesCount, RequestsOK
<1>11. ASSUME UNCHANGED vars PROVE BInv'
  BY <1>1, <1>2, <1>11 DEF vars, BInv, RequestsOK
<1> QED BY <1>3, <1>4, <1>5, <1>6, <1>7, <1>8, <1>9, <1>10, <1>11 DEF Next, Answer

\* No entry, no request.
LEMMA BInvInit == Init => BInv
BY BreakerAssumption, IdleTyped
DEF Init, NoFailure, BInv, BreakerOK, Breaker, StatusMatchesCount, RequestsOK

\* The breaker and its requests keep their types and the bound on attempts.
THEOREM BreakerTypes == Spec => []TypeOK
<1>1. BInv => TypeOK
  BY BInvTypes
<1> QED BY <1>1, BInvInit, BInvStep, PTL DEF Spec

\* Closed below the threshold, not closed from it on, in every interleaving of
\* answers, failures, retries and restarts.
THEOREM BreakerAgrees == Spec => []StatusMatchesCount
<1>1. BInv => StatusMatchesCount
  BY BInvTypes
<1> QED BY <1>1, BInvInit, BInvStep, PTL DEF Spec

-----------------------------------------------------------------------------
(* The calls of the gateway and their attempts in the service.             *)

\* A call is carried while the proxy has a request; a client sends tokens it was given.
CallsOK ==
  /\ mix \in Mixes
  /\ call \in [Procs -> Call]
  /\ \A p \in Procs : call[p] = NoCall <=> req[p].pc = "idle"
  /\ \A p \in Procs : {call[p].refresh, call[p].access} \subseteq given \cup {0}

\* One attempt, given how many tokens there are and which the client has: a new token
\* is a token that the client does not have yet.
JobOK(j, n, g) ==
  /\ {j.call.refresh, j.call.access} \subseteq g \cup {0}
  /\ j.new <= n
  /\ j.pc = "none" => j = NoJob
  /\ j.new # 0 => j.new \notin g /\ j.pc = "done"
  /\ j.pc \in {"rotate", "mint"} => j.call.route = "refresh" /\ j.call.refresh # 0
  /\ j.pc = "done" /\ j.ok /\ j.call.route = "refresh" => j.new # 0

JobsOK ==
  /\ job \in [Attempts -> Job]
  /\ \A a \in Attempts : JobOK(job[a], Len(life), given)
  /\ \A a, b \in Attempts : a # b /\ job[a].new = job[b].new => job[a].new = 0

\* Only tokens that were given are ever presented, and so spent.
TokensOK ==
  /\ active \in BOOLEAN /\ ghost \in Ghost
  /\ life \in Seq(0..AccessTTL) /\ Len(life) \in 1..MaxTokens
  /\ given \subseteq 1..Len(life) /\ spent \subseteq given /\ cookie \in given \cup {0}

\* When the session is over, what is left of an access token and the time since then
\* make up no more than a life, but for the tokens of refreshes that were overtaken.
EndsOK ==
  ~active =>
    /\ \A n \in 1..Len(life) : n \in ghost.late \/ life[n] + ghost.since <= AccessTTL
    /\ \A a \in Attempts : job[a].pc \in {"rotate", "mint"} => job[a].late

\* As long as nothing excuses a replay: the attempts of refreshes are those their calls
\* wait for, each call has a token of its own, and a token is spent by the attempt
\* that is still to be answered.
CarriedOK(a) ==
  job[a].call.route = "refresh" =>
    /\ Awaited(a) /\ call[a[1]].route = "refresh"
    /\ job[a].pc # "done" => job[a].call = call[a[1]]

Served(j) == /\ j.call.route = "refresh" /\ j.pc \in {"mint", "done"}
             /\ j.pc = "done" => j.ok

SpentOK(p) ==
  call[p].route = "refresh" /\ call[p].refresh \in spent =>
    req[p].pc = "sent" /\ Served(job[Current(p)])

ReplaysOK ==
  /\ ~ghost.replayed
  /\ ~ghost.excuse =>
       /\ \A a \in Attempts : CarriedOK(a)
       /\ \A p \in Procs : SpentOK(p)
       /\ \A p, q \in Procs : p # q /\ call[p].route = "refresh" /\ call[q].route = "refresh" =>
                                call[p].refresh # call[q].refresh
       /\ cookie \in spent => \E p \in Procs : call[p].route = "refresh" /\ call[p].refresh = cookie

GInv == BInv /\ CallsOK /\ JobsOK /\ TokensOK /\ EndsOK /\ ReplaysOK

-----------------------------------------------------------------------------
(* Values.                                                                 *)

\* The constants, as the proofs use them.
LEMMA Bounds ==
  /\ AccessTTL \in Nat /\ AccessTTL > 0 /\ MaxTokens \in Nat /\ MaxTokens > 0
  /\ Mixes \subseteq Mix /\ MaxAttempts \in Nat /\ MaxAttempts > 0
BY GatewayAssumption, BreakerAssumption

\* A slot without an attempt, and one without a call.
LEMMA NothingFine ==
  /\ NoCall \in Call /\ NoCall.route = "none" /\ NoCall.refresh = 0 /\ NoCall.access = 0
  /\ NoJob \in Job /\ NoJob.pc = "none" /\ NoJob.call = NoCall /\ NoJob.new = 0
  /\ \A n \in Nat : \A g : JobOK(NoJob, n, g)
<1>1. NoCall \in Call /\ NoCall.route = "none" /\ NoCall.refresh = 0 /\ NoCall.access = 0
  BY Bounds DEF NoCall, Call
<1> HIDE DEF NoCall
<1>2. NoJob \in Job /\ NoJob.pc = "none" /\ NoJob.call = NoCall /\ NoJob.new = 0
  BY <1>1, Bounds DEF NoJob, Job
<1> HIDE DEF NoJob
<1>3. \A n \in Nat : \A g : JobOK(NoJob, n, g)
  BY <1>1, <1>2 DEF JobOK
<1> QED BY <1>1, <1>2, <1>3

\* The lives of access tokens.
LEMMA LifeFine ==
  ASSUME TokensOK
  PROVE  /\ Len(life) \in Nat /\ DOMAIN life = 1..Len(life)
         /\ \A n \in 1..Len(life) : life[n] \in 0..AccessTTL
         /\ Len(life) <= MaxTokens /\ 0 \notin spent /\ 0 \notin given
<1>1. life \in Seq(0..AccessTTL) /\ Len(life) \in 1..MaxTokens /\ given \subseteq 1..Len(life)
      /\ spent \subseteq given
  BY DEF TokensOK
<1>2. DOMAIN life = 1..Len(life) /\ \A n \in 1..Len(life) : life[n] \in 0..AccessTTL
  BY <1>1, LenProperties, ElementOfSeq
<1> QED BY <1>1, <1>2, Bounds

\* A request in flight is at one of its attempts.
LEMMA Slots ==
  ASSUME BInv
  PROVE  /\ \A p \in Procs : req[p].pc # "idle" => Current(p) \in Attempts
         /\ \A p \in Procs : Current(p)[1] = p
         /\ \A a \in Attempts : /\ a[1] \in Procs /\ a[2] \in 1..MaxAttempts
                                /\ Awaited(a) <=> req[a[1]].pc = "sent" /\ a = Current(a[1])
         /\ \A p \in Procs : req[p].pc = "sent" => Awaited(Current(p))
<1>1. \A p \in Procs : /\ req[p].attempt \in 0..MaxAttempts
                       /\ req[p].pc # "idle" => req[p].attempt >= 1
  BY DEF BInv, RequestsOK, Request
<1>2. \A p \in Procs : Current(p) = <<p, req[p].attempt>>
  BY DEF Current
<1>3. \A p \in Procs : req[p].pc # "idle" => Current(p) \in Attempts
  BY <1>1, <1>2, Bounds DEF Attempts
<1>4. \A a \in Attempts : a[1] \in Procs /\ a[2] \in 1..MaxAttempts /\ a = <<a[1], a[2]>>
  BY DEF Attempts
<1>5. \A a \in Attempts : Awaited(a) <=> req[a[1]].pc = "sent" /\ a = Current(a[1])
  BY <1>2, <1>4 DEF Awaited
<1>6. ASSUME NEW p \in Procs
      PROVE  Current(p)[1] = p /\ (req[p].pc = "sent" => Awaited(Current(p)))
  <2>1. Current(p)[1] = p /\ Current(p)[2] = req[p].attempt
    BY <1>2
  <2> QED BY <2>1 DEF Awaited
<1> QED BY <1>3, <1>4, <1>5, <1>6

\* The name of the cookie's token, or none.
LEMMA TokenFine ==
  ASSUME TokensOK, NEW t \in given \cup {0} PROVE t \in 0..MaxTokens /\ t \in Nat
BY LifeFine, Bounds DEF TokensOK

-----------------------------------------------------------------------------
(* The calls implement the circuit breaker.                                *)

\* Each step of the composition is a step of the breaker and its requests, or none.
LEMMA StepSimulated == [GatewayNext]_gatewayVars => [Next]_vars
<1> SUFFICES ASSUME [GatewayNext]_gatewayVars PROVE [Next]_vars
  OBVIOUS
<1>1. ASSUME NEW p \in Procs, NEW route \in mix.routes, NEW token \in Bearers(route),
             AdmitCall(p, route, token)
      PROVE  Next
  BY <1>1 DEF AdmitCall, Next
<1>2. ASSUME NEW p \in Procs,
             CallAnswered(p) \/ AttemptFails(p) \/ CallFails(p) \/ RetryCall(p)
      PROVE  Next
  BY <1>2 DEF CallAnswered, AttemptFails, CallFails, RetryCall, Next, Answer
<1>3. ASSUME NEW a \in Attempts,
             \/ Refresh(a) \/ MarkUsed(a) \/ Mint(a) \/ Logout(a) \/ Throw(a)
             \/ Reject(a) \/ LogoutAll(a) \/ Me(a) \/ OAuth(a) \/ Die(a)
      PROVE  UNCHANGED vars
  <2>1. UNCHANGED proxy
    BY <1>3 DEF Refresh, MarkUsed, Mint, Logout, Throw, Reject, LogoutAll, Me, OAuth, Die
  <2> QED BY <2>1 DEF proxy, vars
<1>4. CASE RestartGateway
  BY <1>4 DEF RestartGateway, Next
<1>5. CASE ClocksTick
  BY <1>5 DEF ClocksTick, Next, vars
<1>6. CASE ServiceFlips
  BY <1>6 DEF ServiceFlips, Next
<1>7. CASE UNCHANGED gatewayVars
  BY <1>7 DEF gatewayVars, proxy, vars
<1> QED BY <1>1, <1>2, <1>3, <1>4, <1>5, <1>6, <1>7 DEF GatewayNext

LEMMA BreakerKept == ASSUME BInv, [GatewayNext]_gatewayVars PROVE BInv'
BY StepSimulated, BInvStep

-----------------------------------------------------------------------------
(* What a step leaves as it was.                                           *)

\* One slot gets a call or loses it with its request.
LEMMA CallMoves ==
  ASSUME CallsOK, NEW p \in Procs, NEW c \in Call, call' = [call EXCEPT ![p] = c],
         UNCHANGED mix, given \subseteq given',
         c = NoCall <=> req'[p].pc = "idle",
         \A q \in Procs \ {p} : req'[q].pc = req[q].pc,
         {c.refresh, c.access} \subseteq given \cup {0}
  PROVE  CallsOK' /\ call'[p] = c /\ \A q \in Procs \ {p} : call'[q] = call[q]
<1>1. call' \in [Procs -> Call] /\ call'[p] = c /\ \A q \in Procs \ {p} : call'[q] = call[q]
  BY DEF CallsOK
<1>2. \A q \in Procs : call'[q] = NoCall <=> req'[q].pc = "idle"
  BY <1>1 DEF CallsOK
<1>3. \A q \in Procs : {call'[q].refresh, call'[q].access} \subseteq given' \cup {0}
  BY <1>1 DEF CallsOK
<1> QED BY <1>1, <1>2, <1>3 DEF CallsOK

\* No slot gets a call or loses it.
LEMMA CallsKept ==
  ASSUME CallsOK, UNCHANGED <<mix, call, given>>,
         \A p \in Procs : req'[p].pc = "idle" <=> req[p].pc = "idle"
  PROVE  CallsOK'
BY DEF CallsOK

\* Attempts move and nobody gets a token.
LEMMA JobsStep ==
  ASSUME JobsOK, UNCHANGED given, job' \in [Attempts -> Job],
         \A a \in Attempts : JobOK(job'[a], Len(life'), given),
         \A a \in Attempts : job'[a].new \in {job[a].new, 0}
  PROVE  JobsOK'
<1>1. ASSUME NEW a \in Attempts, NEW b \in Attempts, a # b, job'[a].new = job'[b].new
      PROVE  job'[a].new = 0
  BY <1>1 DEF JobsOK
<1> QED BY <1>1 DEF JobsOK

\* A session that is over stays so, and nobody takes up a refresh of it.
LEMMA EndsKept ==
  ASSUME EndsOK, UNCHANGED <<active, life>>, UNCHANGED ghost.since, UNCHANGED ghost.late,
         \A a \in Attempts : job'[a].pc \in {"rotate", "mint"} =>
           job[a].pc \in {"rotate", "mint"} /\ (job[a].late => job'[a].late)
  PROVE  EndsOK'
<1> SUFFICES ASSUME ~active' PROVE EndsOK'
  BY DEF EndsOK
<1>1. \A n \in 1..Len(life') : n \in ghost'.late \/ life'[n] + ghost'.since <= AccessTTL
  BY DEF EndsOK
<1>2. \A a \in Attempts : job'[a].pc \in {"rotate", "mint"} => job'[a].late
  BY DEF EndsOK
<1> QED BY <1>1, <1>2 DEF EndsOK

\* An attempt at work does not become one of a refresh, or of another; a refresh that
\* was served stays so while it is waited for.
JobGoes(a) ==
  /\ job'[a].call.route = "refresh" =>
       /\ job[a].call.route = "refresh"
       /\ job'[a].pc # "done" => job[a].pc # "done" /\ job'[a].call = job[a].call
  /\ Awaited(a) /\ Served(job[a]) => Served(job'[a])

\* A step of the service that spends no token.
LEMMA ServiceStep ==
  ASSUME GInv, UNCHANGED <<proxy, call, client, spent>>, JobsOK', TokensOK', EndsOK',
         ~ghost'.replayed,
         ~ghost'.excuse => ~ghost.excuse /\ \A a \in Attempts : JobGoes(a)
  PROVE  GInv'
<1>1. /\ UNCHANGED <<mix, breaker, up, req, cookie, given>> /\ BInv /\ CallsOK /\ ReplaysOK
      /\ UNCHANGED vars /\ UNCHANGED <<call, spent>>
  BY DEF proxy, client, GInv, vars
<1>2. BInv'
  BY <1>1, BInvStep
<1>3. CallsOK'
  BY <1>1, CallsKept
<1>4. ReplaysOK'
  <2> SUFFICES ASSUME ~ghost'.excuse PROVE ReplaysOK'
    BY DEF ReplaysOK
  <2>1. \A p \in Procs : Current(p)' = Current(p)
    BY <1>1 DEF Current
  <2>2. \A a \in Attempts : Awaited(a)' = Awaited(a)
    BY <1>1 DEF Awaited
  <2>3. ASSUME NEW a \in Attempts PROVE CarriedOK(a)'
    <3>1. CarriedOK(a) /\ JobGoes(a) /\ a[1] \in Procs
      BY <1>1, Slots DEF ReplaysOK
    <3> QED BY <1>1, <2>2, <3>1 DEF CarriedOK, JobGoes
  <2>4. ASSUME NEW p \in Procs PROVE SpentOK(p)'
    <3> SUFFICES ASSUME call[p].route = "refresh", call[p].refresh \in spent
                 PROVE  req[p].pc = "sent" /\ Served(job'[Current(p)])
      BY <1>1, <2>1 DEF SpentOK, Served
    <3>1. req[p].pc = "sent" /\ Served(job[Current(p)])
      BY DEF ReplaysOK, SpentOK, GInv
    <3>2. Current(p) \in Attempts /\ Awaited(Current(p))
      BY <1>1, <3>1, Slots
    <3> QED BY <3>1, <3>2 DEF JobGoes
  <2> QED BY <1>1, <2>3, <2>4 DEF ReplaysOK
<1> QED BY <1>2, <1>3, <1>4 DEF GInv

-----------------------------------------------------------------------------
(* The answers of the service.                                             *)

\* What an attempt leaves that is answered: the tokens it answers with, if the gateway
\* waits for it.
LEMMA AnsweredFine ==
  ASSUME NEW a \in Attempts, job[a] \in Job, NEW n \in 0..MaxTokens, NEW g,
         NEW ok \in BOOLEAN, NEW new \in 0..n, new = 0 \/ new \notin g,
         new # 0 \/ ~ok \/ job[a].call.route # "refresh",
         NEW j, j = Answered(a, ok, new)
  PROVE  /\ j \in Job /\ JobOK(j, n, g) /\ j.new \in {new, 0}
         /\ j.pc \in {"none", "done"} /\ j.call.route \in {job[a].call.route, "none"}
         /\ j.pc = "none" => j = NoJob
         /\ Awaited(a) /\ ok => j.pc = "done" /\ j.call.route = job[a].call.route /\ j.ok
<1>0. n \in Nat /\ new \in 0..MaxTokens /\ MaxTokens \in Nat
  BY Bounds
<1>1. CASE ~Awaited(a)
  <2>1. j = NoJob
    BY <1>1 DEF Answered
  <2> QED BY <1>0, <1>1, <2>1, NothingFine
<1>2. CASE Awaited(a)
  <2> DEFINE c == [NoCall EXCEPT !.route = job[a].call.route]
  <2>1. j = [NoJob EXCEPT !.pc = "done", !.call = c, !.new = new, !.ok = ok]
    BY <1>2 DEF Answered
  <2>2. c \in Call /\ c.route = job[a].call.route /\ c.refresh = 0 /\ c.access = 0
    BY NothingFine DEF Job, Call
  <2> HIDE DEF c
  <2>3. /\ j \in Job /\ j.pc = "done" /\ j.call = c /\ j.new = new
        /\ j.ok <=> ok
    BY <1>0, <2>1, <2>2, NothingFine DEF Job
  <2>4. JobOK(j, n, g)
    BY <1>0, <2>2, <2>3, NothingFine DEF JobOK
  <2> QED BY <2>2, <2>3, <2>4
<1> QED BY <1>1, <1>2

\* An answer without tokens that changes nothing but the attempt; a refresh that had
\* marked its token used is an excuse.
LEMMA ReplyStep ==
  ASSUME GInv, NEW a \in Attempts, NEW ok \in BOOLEAN, Reply(a, ok), job[a].pc # "done",
         ok => job[a].call.route # "refresh", UNCHANGED <<proxy, call, session, client>>,
         ghost' \in Ghost, UNCHANGED ghost.since, UNCHANGED ghost.late,
         ghost'.replayed <=> ghost.replayed,
         ghost'.excuse <=> ghost.excuse \/ job[a].pc = "mint"
  PROVE  GInv'
<1> DEFINE j == Answered(a, ok, 0)
<1>1. /\ JobsOK /\ TokensOK /\ EndsOK /\ ReplaysOK /\ job \in [Attempts -> Job]
      /\ UNCHANGED <<active, spent, life, cookie, given>>
      /\ Len(life) \in 0..MaxTokens /\ 0 \in 0..Len(life)
  BY LifeFine, Bounds DEF GInv, JobsOK, session, client
<1>2. /\ j \in Job /\ JobOK(j, Len(life), given) /\ j.new \in {job[a].new, 0}
      /\ j.pc \in {"none", "done"} /\ j.call.route \in {job[a].call.route, "none"}
      /\ j.pc = "none" => j = NoJob
  <2>1. job[a] \in Job /\ Len(life) \in 0..MaxTokens /\ 0 \in 0..Len(life)
    BY <1>1
  <2> QED BY <2>1, AnsweredFine
<1>3. /\ job' \in [Attempts -> Job] /\ job'[a] = j
      /\ \A b \in Attempts \ {a} : job'[b] = job[b]
  BY <1>1, <1>2 DEF Reply
<1> HIDE DEF j
<1>4. JobsOK'
  <2>1. \A b \in Attempts : JobOK(job'[b], Len(life'), given) /\ job'[b].new \in {job[b].new, 0}
    BY <1>1, <1>2, <1>3 DEF JobsOK
  <2> QED BY <1>1, <1>3, <2>1, JobsStep
<1>5. TokensOK' /\ EndsOK'
  <2>1. TokensOK'
    BY <1>1 DEF TokensOK
  <2>2. \A b \in Attempts : job'[b].pc \in {"rotate", "mint"} => job'[b] = job[b]
    BY <1>2, <1>3
  <2> QED BY <1>1, <2>1, <2>2, EndsKept
<1>6. ASSUME ~ghost'.excuse, NEW b \in Attempts PROVE JobGoes(b)
  <2>1. CASE b = a
    <3>1. ~Served(job[a])
      BY <1>6 DEF Served
    <3>2. j.pc # "done" => j.call.route # "refresh"
      BY <1>2, NothingFine
    <3> QED BY <1>2, <1>3, <2>1, <3>1, <3>2, NothingFine DEF JobGoes
  <2>2. CASE b # a
    BY <1>3, <2>2 DEF JobGoes
  <2> QED BY <2>1, <2>2
<1> QED BY <1>1, <1>4, <1>5, <1>6, ServiceStep DEF ReplaysOK

\* The session ends: refreshes at work are late from now on, and the tokens that are
\* out have at most a life left.
LEMMA EndStep ==
  ASSUME GInv, NEW a \in Attempts, NEW ok \in BOOLEAN, NEW replay \in BOOLEAN, End(a, ok, replay),
         job[a].pc = "arrived", ok => job[a].call.route # "refresh",
         replay => ghost.excuse \/ ~active, UNCHANGED <<proxy, call, client>>
  PROVE  GInv'
<1> DEFINE j == Answered(a, ok, 0)
           late(b) == job[b].late \/ (active /\ job[b].pc \in {"rotate", "mint"})
           old(b) == [job[b] EXCEPT !.late = late(b)]
           since == IF active THEN 0 ELSE ghost.since
           rep == ghost.replayed \/ (replay /\ active /\ ~ghost.excuse)
<1>1. /\ JobsOK /\ TokensOK /\ EndsOK /\ ReplaysOK /\ job \in [Attempts -> Job]
      /\ UNCHANGED <<spent, life, cookie, given>> /\ Len(life) \in 0..MaxTokens
      /\ 0 \in 0..Len(life) /\ ghost \in Ghost /\ active' = FALSE /\ active \in BOOLEAN
  BY LifeFine, Bounds DEF GInv, JobsOK, TokensOK, client, End
<1>2. /\ j \in Job /\ JobOK(j, Len(life), given) /\ j.new \in {job[a].new, 0}
      /\ j.pc \in {"none", "done"} /\ j.call.route \in {job[a].call.route, "none"}
      /\ j.pc = "none" => j = NoJob
  <2>1. job[a] \in Job /\ Len(life) \in 0..MaxTokens /\ 0 \in 0..Len(life)
    BY <1>1
  <2> HIDE DEF late, old, since, rep
  <2> QED BY <2>1, AnsweredFine
<1>3. ASSUME NEW b \in Attempts
      PROVE  /\ old(b) \in Job /\ old(b).pc = job[b].pc /\ old(b).call = job[b].call
             /\ old(b).new = job[b].new
             /\ old(b).ok <=> job[b].ok
             /\ old(b).late <=> late(b)
             /\ job[b] = NoJob => old(b) = NoJob
  <2>1. job[b] \in Job /\ late(b) \in BOOLEAN
    BY <1>1 DEF Job
  <2>2. job[b] = NoJob => late(b) = FALSE
    BY DEF NoJob
  <2> HIDE DEF late
  <2> QED BY <2>1, <2>2 DEF Job, NoJob
<1>4. /\ job' = [b \in Attempts |-> IF b = a THEN j ELSE old(b)]
      /\ ghost' = [ghost EXCEPT !.since = since, !.replayed = rep]
  BY DEF End
<1>5. /\ since \in 0..AccessTTL /\ (active => since = 0) /\ (~active => since = ghost.since)
      /\ rep = FALSE
  BY <1>1, Bounds DEF Ghost, ReplaysOK
<1> HIDE DEF since, rep
<1>6. /\ ghost' \in Ghost /\ ghost'.since = since /\ ghost'.late = ghost.late /\ ~ghost'.replayed
      /\ ghost'.excuse <=> ghost.excuse
  BY <1>1, <1>4, <1>5 DEF Ghost
<1> HIDE DEF j, old
<1>7. /\ job' \in [Attempts -> Job] /\ job'[a] = j
      /\ \A b \in Attempts \ {a} : job'[b] = old(b)
  BY <1>2, <1>3, <1>4
<1>8. JobsOK'
  <2>1. ASSUME NEW b \in Attempts PROVE JobOK(job'[b], Len(life'), given) /\ job'[b].new \in {job[b].new, 0}
    <3>1. CASE b = a
      BY <1>1, <1>2, <1>7, <3>1
    <3>2. CASE b # a
      <4>1. JobOK(job[b], Len(life), given)
        BY <1>1 DEF JobsOK
      <4>2. old(b).pc = "none" => old(b) = NoJob
        BY <1>3, <4>1 DEF JobOK
      <4>3. JobOK(old(b), Len(life), given)
        BY <1>3, <4>1, <4>2 DEF JobOK
      <4> QED BY <1>1, <1>3, <1>7, <3>2, <4>3
    <3> QED BY <3>1, <3>2
  <2> QED BY <1>1, <1>7, <2>1, JobsStep
<1>9. TokensOK'
  BY <1>1, <1>6 DEF TokensOK
<1>10. EndsOK'
  <2>1. ASSUME NEW n \in 1..Len(life') PROVE n \in ghost'.late \/ life'[n] + ghost'.since <= AccessTTL
    <3>1. life[n] \in 0..AccessTTL /\ AccessTTL \in Nat
      BY <1>1, LifeFine, Bounds
    <3> QED BY <1>1, <1>5, <1>6, <3>1 DEF EndsOK
  <2>2. ASSUME NEW b \in Attempts, job'[b].pc \in {"rotate", "mint"} PROVE job'[b].late
    <3>1. b # a
      BY <1>2, <1>7, <2>2
    <3>2. job[b].pc \in {"rotate", "mint"} /\ (job'[b].late <=> late(b))
      BY <1>3, <1>7, <2>2, <3>1
    <3> QED BY <1>1, <3>2 DEF EndsOK
  <2> QED BY <2>1, <2>2 DEF EndsOK
<1>11. ASSUME NEW b \in Attempts PROVE JobGoes(b)
  <2>1. CASE b = a
    <3>1. ~Served(job[a])
      BY DEF Served
    <3>2. j.pc = "none" => j = NoJob
      BY <1>2 DEF JobOK
    <3> QED BY <1>2, <1>7, <2>1, <3>1, <3>2, NothingFine DEF JobGoes
  <2>2. CASE b # a
    BY <1>3, <1>7, <2>2 DEF JobGoes, Served
  <2> QED BY <2>1, <2>2
<1> QED BY <1>1, <1>6, <1>8, <1>9, <1>10, <1>11, ServiceStep

\* A refresh is refused, ends the session, or goes on while the session is active.
LEMMA RefreshStep == ASSUME GInv, NEW a \in Attempts, Refresh(a) PROVE GInv'
<1> DEFINE token == job[a].call.refresh
<1>1. /\ job[a].pc = "arrived" /\ job[a].call.route = "refresh" /\ UNCHANGED <<proxy, call, client>>
      /\ job[a] \in Job /\ JobsOK /\ TokensOK /\ EndsOK /\ ReplaysOK /\ BInv
  BY DEF Refresh, Arrived, GInv, JobsOK
<1>2. CASE Reply(a, FALSE) /\ UNCHANGED <<session, ghost>>
  BY <1>1, <1>2, ReplyStep DEF TokensOK
<1>3. CASE token \in spent /\ End(a, FALSE, TRUE)
  <2>1. ghost.excuse
    <3> SUFFICES ASSUME ~ghost.excuse PROVE FALSE
      OBVIOUS
    <3>1. /\ Awaited(a) /\ call[a[1]] = job[a].call /\ a[1] \in Procs /\ a = Current(a[1])
      BY <1>1, Slots DEF ReplaysOK, CarriedOK
    <3>2. Served(job[Current(a[1])])
      BY <1>1, <1>3, <3>1 DEF ReplaysOK, SpentOK
    <3> QED BY <1>1, <3>1, <3>2 DEF Served
  <2> QED BY <1>1, <1>3, <2>1, EndStep
<1>4. CASE /\ token # 0 /\ active /\ UNCHANGED <<session, ghost>>
           /\ job' = [job EXCEPT ![a].pc = "rotate"]
  <2> DEFINE j == [job[a] EXCEPT !.pc = "rotate"]
  <2>1. /\ j \in Job /\ j.pc = "rotate" /\ j.call = job[a].call /\ j.new = job[a].new
    BY <1>1 DEF Job
  <2>2. UNCHANGED <<active, spent, life, cookie, given, ghost>>
    BY <1>1, <1>4 DEF session, client
  <2> HIDE DEF j
  <2>3. job' \in [Attempts -> Job] /\ job'[a] = j /\ \A b \in Attempts \ {a} : job'[b] = job[b]
    BY <1>1, <1>4, <2>1 DEF JobsOK, j
  <2>4. JobsOK'
    <3>1. JobOK(job[a], Len(life), given)
      BY <1>1 DEF JobsOK
    <3>2. JobOK(j, Len(life), given) /\ j.new = job[a].new
      BY <1>1, <1>4, <2>1, <3>1 DEF JobOK
    <3>3. \A b \in Attempts : JobOK(job'[b], Len(life'), given) /\ job'[b].new \in {job[b].new, 0}
      BY <1>1, <2>2, <2>3, <3>2 DEF JobsOK
    <3> QED BY <1>1, <2>2, <2>3, <3>3, JobsStep
  <2>5. TokensOK' /\ EndsOK'
    BY <1>1, <1>4, <2>2 DEF TokensOK, EndsOK
  <2>6. \A b \in Attempts : JobGoes(b)
    BY <1>1, <2>1, <2>3 DEF JobGoes, Served
  <2> QED BY <1>1, <2>2, <2>4, <2>5, <2>6, ServiceStep DEF ReplaysOK
<1> QED BY <1>2, <1>3, <1>4 DEF Refresh

\* The presented token is spent, by the attempt its call waits for if nothing excuses a
\* replay.
LEMMA MarkUsedStep == ASSUME GInv, NEW a \in Attempts, MarkUsed(a) PROVE GInv'
<1> DEFINE token == job[a].call.refresh
           j == [job[a] EXCEPT !.pc = "mint"]
<1>1. /\ job[a].pc = "rotate" /\ spent' = spent \cup {token} /\ job' = [job EXCEPT ![a] = j]
      /\ UNCHANGED <<proxy, call, active, life, client, ghost>>
  BY DEF MarkUsed
<1>2. /\ BInv /\ CallsOK /\ JobsOK /\ TokensOK /\ EndsOK /\ ReplaysOK
      /\ UNCHANGED <<mix, breaker, up, req, cookie, given>> /\ UNCHANGED vars
      /\ job[a] \in Job /\ JobOK(job[a], Len(life), given)
  BY <1>1 DEF GInv, proxy, client, vars, JobsOK
<1>4. /\ j \in Job /\ j.pc = "mint" /\ j.call = job[a].call /\ j.new = job[a].new
      /\ j.late <=> job[a].late
  BY <1>2 DEF Job
<1> HIDE DEF j
<1>5. /\ job' \in [Attempts -> Job] /\ job'[a] = j
      /\ \A b \in Attempts \ {a} : job'[b] = job[b]
  BY <1>1, <1>2, <1>4 DEF JobsOK
<1>6. /\ job[a].call.route = "refresh" /\ token # 0 /\ token \in given
  BY <1>1, <1>2 DEF JobOK
<1>8. JobsOK'
  <2>1. JobOK(j, Len(life), given)
    BY <1>1, <1>2, <1>4 DEF JobOK
  <2>2. \A b \in Attempts : JobOK(job'[b], Len(life'), given) /\ job'[b].new \in {job[b].new, 0}
    BY <1>1, <1>2, <1>4, <1>5, <2>1 DEF JobsOK
  <2> QED BY <1>2, <1>5, <2>2, JobsStep
<1>9. CallsOK' /\ TokensOK' /\ BInv'
  <2>1. CallsOK'
    BY <1>1, <1>2, CallsKept
  <2>2. TokensOK'
    BY <1>1, <1>2, <1>6 DEF TokensOK
  <2> QED BY <1>2, <2>1, <2>2, BInvStep
<1>10. EndsOK'
  BY <1>1, <1>2, <1>4, <1>5, EndsKept
<1>11. ReplaysOK'
  <2> SUFFICES ASSUME ~ghost.excuse PROVE ReplaysOK'
    BY <1>1, <1>2 DEF ReplaysOK
  <2>1. \A p \in Procs : Current(p)' = Current(p)
    BY <1>2 DEF Current
  <2>2. \A b \in Attempts : Awaited(b)' = Awaited(b)
    BY <1>2 DEF Awaited
  <2> DEFINE own == a[1]
  <2>3. /\ Awaited(a) /\ own \in Procs /\ a = Current(own) /\ req[own].pc = "sent"
        /\ call[own] = job[a].call /\ call[own].route = "refresh"
    BY <1>1, <1>2, <1>6, Slots DEF ReplaysOK, CarriedOK
  <2>4. ASSUME NEW b \in Attempts PROVE CarriedOK(b)'
    <3>1. CarriedOK(b)
      BY <1>2 DEF ReplaysOK
    <3> QED BY <1>1, <1>2, <1>4, <1>5, <2>2, <2>3, <3>1 DEF CarriedOK
  <2>5. ASSUME NEW p \in Procs PROVE SpentOK(p)'
    <3> SUFFICES ASSUME call[p].route = "refresh", call[p].refresh \in spent'
                 PROVE  req[p].pc = "sent" /\ Served(job'[Current(p)])
      BY <1>1, <1>2, <2>1 DEF SpentOK, Served
    <3>1. CASE p = own
      BY <1>4, <1>5, <1>6, <2>3, <3>1 DEF Served
    <3>2. CASE p # own
      <4>1. call[p].refresh # token
        BY <1>2, <2>3, <3>2 DEF ReplaysOK
      <4>2. req[p].pc = "sent" /\ Served(job[Current(p)])
        BY <1>1, <1>2, <4>1 DEF ReplaysOK, SpentOK
      <4>3. Current(p) \in Attempts /\ Current(p) # a
        BY <1>2, <2>3, <3>2, <4>2, Slots
      <4> QED BY <1>5, <4>2, <4>3
    <3> QED BY <3>1, <3>2
  <2>6. cookie \in spent' => \E p \in Procs : call[p].route = "refresh" /\ call[p].refresh = cookie
    BY <1>1, <1>2, <2>3 DEF ReplaysOK
  <2> QED BY <1>1, <1>2, <2>4, <2>5, <2>6 DEF ReplaysOK
<1> QED BY <1>8, <1>9, <1>10, <1>11 DEF GInv

\* The new tokens are nobody's yet; if the session ended meanwhile they are late.
LEMMA MintStep == ASSUME GInv, NEW a \in Attempts, Mint(a) PROVE GInv'
<1> DEFINE n == Len(life) + 1
           j == Answered(a, TRUE, n)
           late == IF job[a].late THEN ghost.late \cup {n} ELSE ghost.late
<1>1. /\ job[a].pc = "mint" /\ n <= MaxTokens /\ life' = Append(life, AccessTTL)
      /\ ghost' = [ghost EXCEPT !.late = late]
      /\ job' = [job EXCEPT ![a] = j]
      /\ UNCHANGED <<proxy, call, active, spent, client>> /\ UNCHANGED <<cookie, given>>
  BY DEF Mint, client
<1>2. /\ BInv /\ JobsOK /\ TokensOK /\ EndsOK /\ ReplaysOK /\ job \in [Attempts -> Job]
      /\ job[a] \in Job /\ given \subseteq 1..Len(life)
      /\ life \in Seq(0..AccessTTL) /\ Len(life) \in 1..MaxTokens /\ ghost \in Ghost
      /\ Len(life) \in Nat
  BY LifeFine DEF GInv, JobsOK, TokensOK
<1>3. n \in 1..MaxTokens /\ n \in 0..MaxTokens /\ n # 0 /\ n \notin given /\ n \in 0..n
  BY <1>1, <1>2, Bounds
<1>4. /\ life' \in Seq(0..AccessTTL) /\ Len(life') = n /\ life'[n] = AccessTTL
      /\ \A k \in 1..Len(life) : life'[k] = life[k]
  <2>1. AccessTTL \in 0..AccessTTL
    BY Bounds
  <2> QED BY <1>1, <1>2, <2>1, AppendProperties
<1>5. /\ late \in SUBSET (1..MaxTokens) /\ ghost.late \subseteq late
      /\ job[a].late => n \in late
  BY <1>2, <1>3 DEF Ghost
<1> HIDE DEF late
<1>6. /\ ghost' \in Ghost /\ ghost'.late = late /\ ghost'.since = ghost.since
      /\ ghost'.excuse <=> ghost.excuse
      /\ ghost'.replayed <=> ghost.replayed
  BY <1>1, <1>2, <1>5 DEF Ghost
<1>7. /\ j \in Job /\ JobOK(j, n, given) /\ j.new \in {n, 0}
      /\ j.pc \in {"none", "done"} /\ j.call.route \in {job[a].call.route, "none"}
      /\ j.pc = "none" => j = NoJob
      /\ Awaited(a) => j.pc = "done" /\ j.call.route = job[a].call.route /\ j.ok
  <2>1. job[a] \in Job /\ TRUE \in BOOLEAN
    BY <1>2
  <2> HIDE DEF n
  <2> QED BY <1>3, <2>1, AnsweredFine
<1> HIDE DEF j
<1>8. /\ job' \in [Attempts -> Job] /\ job'[a] = j
      /\ \A b \in Attempts \ {a} : job'[b] = job[b]
  BY <1>1, <1>2, <1>7
<1>9. JobsOK'
  <2>1. ASSUME NEW b \in Attempts \ {a}
        PROVE  JobOK(job'[b], n, given) /\ job'[b].new # n /\ job'[b] = job[b]
    <3>1. JobOK(job[b], Len(life), given) /\ job[b].new \in 0..MaxTokens
      BY <1>2 DEF JobsOK, Job
    <3> QED BY <1>2, <1>8, <3>1, Bounds DEF JobOK
  <2>2. \A b \in Attempts : JobOK(job'[b], Len(life'), given')
    BY <1>1, <1>4, <1>7, <1>8, <2>1
  <2>3. ASSUME NEW b \in Attempts, NEW c \in Attempts, b # c, job'[b].new = job'[c].new
        PROVE  job'[b].new = 0
    BY <1>2, <1>7, <1>8, <2>1, <2>3 DEF JobsOK
  <2> QED BY <1>8, <2>2, <2>3 DEF JobsOK
<1>10. TokensOK'
  BY <1>1, <1>2, <1>3, <1>4, <1>6 DEF TokensOK
<1>11. EndsOK'
  <2>1. \A k \in 1..Len(life') : k \in 1..Len(life) \/ k = n
    BY <1>2, <1>4
  <2>2. ~active => \A k \in 1..Len(life') : k \in late \/ life'[k] + ghost.since <= AccessTTL
    BY <1>1, <1>2, <1>4, <1>5, <2>1 DEF EndsOK
  <2>3. ~active => \A b \in Attempts : job'[b].pc \in {"rotate", "mint"} => job'[b].late
    BY <1>2, <1>7, <1>8 DEF EndsOK
  <2> QED BY <1>1, <1>6, <2>2, <2>3 DEF EndsOK
<1>12. ASSUME NEW b \in Attempts PROVE JobGoes(b)
  <2>1. CASE b = a
    <3>1. Awaited(a) /\ Served(job[a]) => Served(j)
      BY <1>7 DEF Served
    <3> QED BY <1>1, <1>7, <1>8, <2>1, <3>1, NothingFine DEF JobGoes
  <2>2. CASE b # a
    BY <1>8, <2>2 DEF JobGoes
  <2> QED BY <2>1, <2>2
<1> QED BY <1>1, <1>2, <1>6, <1>9, <1>10, <1>11, <1>12, ServiceStep DEF ReplaysOK

-----------------------------------------------------------------------------
(* Attempts that die, and what nobody waits for any more.                  *)

\* An excuse is written down, nothing else of the history.
LEMMA ExcuseFine ==
  ASSUME ghost \in Ghost, NEW b \in BOOLEAN, ghost' = [ghost EXCEPT !.excuse = @ \/ b]
  PROVE  /\ ghost' \in Ghost /\ ghost'.since = ghost.since /\ ghost'.late = ghost.late
         /\ ghost'.replayed <=> ghost.replayed
         /\ ghost'.excuse <=> ghost.excuse \/ b
<1> DEFINE e == ghost.excuse \/ b
<1>1. e \in BOOLEAN /\ ghost' = [ghost EXCEPT !.excuse = e]
  OBVIOUS
<1>2. e <=> ghost.excuse \/ b
  OBVIOUS
<1> HIDE DEF e
<1> QED BY <1>1, <1>2 DEF Ghost

\* Attempts that go.
LEMMA JobsGone ==
  ASSUME GInv, UNCHANGED <<session, client>>, NEW b \in BOOLEAN,
         ghost' = [ghost EXCEPT !.excuse = @ \/ b], job' \in [Attempts -> Job],
         \A a \in Attempts : job'[a] = job[a] \/ job'[a] = NoJob
  PROVE  JobsOK' /\ TokensOK' /\ EndsOK'
<1>1. /\ JobsOK /\ TokensOK /\ EndsOK /\ Len(life) \in Nat
      /\ UNCHANGED <<active, spent, life, cookie, given>>
  BY LifeFine DEF GInv, session, client
<1>2. /\ ghost' \in Ghost /\ ghost'.since = ghost.since /\ ghost'.late = ghost.late
  BY <1>1, ExcuseFine DEF TokensOK
<1>3. TokensOK'
  BY <1>1, <1>2 DEF TokensOK
<1>4. \A a \in Attempts : JobOK(job'[a], Len(life'), given) /\ job'[a].new \in {job[a].new, 0}
  BY <1>1, NothingFine DEF JobsOK
<1>5. JobsOK'
  BY <1>1, <1>4, JobsStep
<1>6. EndsOK'
  BY <1>1, <1>2, NothingFine, EndsKept
<1> QED BY <1>3, <1>5, <1>6

LEMMA DieStep == ASSUME GInv, NEW a \in Attempts, Die(a) PROVE GInv'
<1> DEFINE b == job[a].call.route = "refresh"
<1>1. /\ UNCHANGED <<proxy, call, session, client>> /\ job' = [job EXCEPT ![a] = NoJob]
      /\ ghost' = [ghost EXCEPT !.excuse = @ \/ b] /\ b \in BOOLEAN
      /\ job \in [Attempts -> Job] /\ ghost \in Ghost /\ ReplaysOK /\ UNCHANGED spent
  BY DEF Die, GInv, JobsOK, TokensOK, session
<1>2. /\ job' \in [Attempts -> Job] /\ job'[a] = NoJob
      /\ \A c \in Attempts \ {a} : job'[c] = job[c]
  BY <1>1, NothingFine
<1>3. b <=> job[a].call.route = "refresh"
  OBVIOUS
<1> HIDE DEF b
<1>4. JobsOK' /\ TokensOK' /\ EndsOK'
  BY <1>1, <1>2, JobsGone
<1>5. /\ ghost'.replayed <=> ghost.replayed
      /\ ghost'.excuse <=> ghost.excuse \/ b
  BY <1>1, ExcuseFine
<1>6. ASSUME ~ghost'.excuse, NEW c \in Attempts PROVE JobGoes(c)
  <2>1. job[a].call.route # "refresh"
    BY <1>3, <1>5, <1>6
  <2> QED BY <1>2, <2>1, NothingFine DEF JobGoes, Served
<1> QED BY <1>1, <1>4, <1>5, <1>6, ServiceStep DEF ReplaysOK

\* A statement throws: behind markUsed that is an excuse.
LEMMA ThrowStep == ASSUME GInv, NEW a \in Attempts, Throw(a) PROVE GInv'
<1> DEFINE b == job[a].pc = "mint"
<1>1. /\ job[a].pc # "done" /\ Reply(a, FALSE) /\ UNCHANGED <<proxy, call, session, client>>
      /\ ghost' = [ghost EXCEPT !.excuse = @ \/ b] /\ b \in BOOLEAN /\ ghost \in Ghost
  BY DEF Throw, GInv, TokensOK
<1>2. b <=> job[a].pc = "mint"
  OBVIOUS
<1> HIDE DEF b
<1>3. /\ ghost' \in Ghost /\ ghost'.since = ghost.since /\ ghost'.late = ghost.late
      /\ ghost'.replayed <=> ghost.replayed
      /\ ghost'.excuse <=> ghost.excuse \/ b
  BY <1>1, ExcuseFine
<1> QED BY <1>1, <1>2, <1>3, ReplyStep

\* Some calls are given up, or one attempt of theirs: unless it was a refresh in the
\* service, the service still knows of every refresh what its call waits for.
LEMMA GiveUpStep ==
  ASSUME GInv, BInv', CallsOK', NEW P \in SUBSET Procs, NEW A \in SUBSET Attempts, GiveUp(A),
         UNCHANGED <<session, client>>,
         \A a \in A : Awaited(a) /\ a[1] \in P,
         \A p \in P : req[p].pc = "sent" => Current(p) \in A,
         \A p \in Procs \ P : req'[p] = req[p] /\ call'[p] = call[p],
         \A p \in P : call'[p] = NoCall \/ (call'[p] = call[p] /\ req[p].pc = "sent")
  PROVE  GInv'
<1> DEFINE b == \E a \in A : job[a].call.route = "refresh"
<1>1. /\ ghost' = [ghost EXCEPT !.excuse = @ \/ b] /\ b \in BOOLEAN
      /\ BInv /\ CallsOK /\ job \in [Attempts -> Job] /\ ghost \in Ghost /\ ReplaysOK
      /\ job' = [a \in Attempts |-> IF a \in A /\ job[a].pc = "done" THEN NoJob ELSE job[a]]
      /\ UNCHANGED <<spent, cookie>>
  BY DEF GiveUp, GInv, JobsOK, TokensOK, session, client
<1>2. /\ job' \in [Attempts -> Job] /\ \A a \in Attempts : job'[a] = job[a] \/ job'[a] = NoJob
      /\ \A a \in Attempts \ A : job'[a] = job[a]
  BY <1>1, NothingFine
<1>3. b <=> \E a \in A : job[a].call.route = "refresh"
  OBVIOUS
<1> HIDE DEF b
<1>4. JobsOK' /\ TokensOK' /\ EndsOK'
  BY <1>1, <1>2, JobsGone
<1>5. /\ ghost'.replayed <=> ghost.replayed
      /\ ghost'.excuse <=> ghost.excuse \/ b
  BY <1>1, ExcuseFine
<1>6. ReplaysOK'
  <2> SUFFICES ASSUME ~ghost'.excuse PROVE ReplaysOK'
    BY <1>1, <1>5 DEF ReplaysOK
  <2>1. ~ghost.excuse /\ \A a \in A : job[a].call.route # "refresh"
    BY <1>3, <1>5
  <2>2. ASSUME NEW a \in Attempts, job[a].call.route = "refresh"
        PROVE  a[1] \in Procs \ P /\ a \notin A /\ Awaited(a)
    <3>1. Awaited(a) /\ a[1] \in Procs /\ req[a[1]].pc = "sent" /\ a = Current(a[1])
      BY <1>1, <2>1, <2>2, Slots DEF ReplaysOK, CarriedOK
    <3>2. a \notin A
      BY <2>1, <2>2
    <3> QED BY <3>1, <3>2
  <2>3. ASSUME NEW p \in Procs, call[p].route = "refresh", call[p].refresh \in spent
        PROVE  /\ p \notin P /\ req[p].pc = "sent" /\ Served(job[Current(p)])
               /\ Current(p) \in Attempts \ A
    <3>1. req[p].pc = "sent" /\ Served(job[Current(p)])
      BY <1>1, <2>1, <2>3 DEF ReplaysOK, SpentOK
    <3>2. Current(p) \in Attempts /\ Current(p)[1] = p
      BY <1>1, <3>1, Slots
    <3> QED BY <2>2, <3>1, <3>2 DEF Served
  <2>4. ASSUME NEW a \in Attempts PROVE CarriedOK(a)'
    <3> SUFFICES ASSUME job'[a].call.route = "refresh" PROVE CarriedOK(a)'
      BY DEF CarriedOK
    <3>1. job'[a] = job[a]
      BY <1>2, NothingFine
    <3>2. CarriedOK(a) /\ a[1] \in Procs \ P /\ Awaited(a)
      BY <1>1, <2>1, <2>2, <3>1 DEF ReplaysOK
    <3>3. Awaited(a)'
      BY <3>2 DEF Awaited
    <3> QED BY <3>1, <3>2, <3>3 DEF CarriedOK
  <2>5. ASSUME NEW p \in Procs PROVE SpentOK(p)'
    <3> SUFFICES ASSUME call'[p].route = "refresh", call'[p].refresh \in spent PROVE SpentOK(p)'
      BY <1>1 DEF SpentOK
    <3>1. call'[p] = call[p]
      BY NothingFine
    <3>2. p \notin P /\ req[p].pc = "sent" /\ Served(job[Current(p)]) /\ Current(p) \in Attempts \ A
      BY <2>3, <3>1
    <3>3. Current(p)' = Current(p)
      BY <3>2 DEF Current
    <3> QED BY <1>2, <3>2, <3>3 DEF SpentOK, Served
  <2>6. \A p, q \in Procs : p # q /\ call'[p].route = "refresh" /\ call'[q].route = "refresh" =>
                              call'[p].refresh # call'[q].refresh
    <3>1. \A p \in Procs : call'[p].route = "refresh" => call'[p] = call[p]
      BY NothingFine
    <3> QED BY <1>1, <2>1, <3>1 DEF ReplaysOK
  <2>7. cookie \in spent => \E p \in Procs : call'[p].route = "refresh" /\ call'[p].refresh = cookie
    <3> SUFFICES ASSUME cookie \in spent
                 PROVE  \E p \in Procs : call'[p].route = "refresh" /\ call'[p].refresh = cookie
      OBVIOUS
    <3>1. PICK p \in Procs : call[p].route = "refresh" /\ call[p].refresh = cookie
      BY <1>1, <2>1 DEF ReplaysOK
    <3>2. call'[p] = call[p]
      BY <2>3, <3>1
    <3> QED BY <3>1, <3>2
  <2> QED BY <1>1, <1>5, <2>4, <2>5, <2>6, <2>7 DEF ReplaysOK
<1> QED BY <1>4, <1>6 DEF GInv

\* An attempt that failed, for now or for good, and a restart.
LEMMA FailSteps ==
  ASSUME GInv, [GatewayNext]_gatewayVars, NEW p \in Procs, AttemptFails(p) \/ CallFails(p)
  PROVE  GInv'
<1> DEFINE P == {p}
           A == {Current(p)}
<1>1. BInv /\ CallsOK /\ BInv' /\ req \in [Procs -> Request] /\ call \in [Procs -> Call]
  BY BreakerKept DEF GInv, BInv, RequestsOK, CallsOK
<1>2. /\ req[p].pc = "sent" /\ GiveUp(A) /\ UNCHANGED <<session, client>>
      /\ UNCHANGED mix /\ UNCHANGED given
  BY DEF AttemptFails, CallFails, OnRetryableError, OnFinalError, client
<1>3. Current(p) \in Attempts /\ Current(p)[1] = p /\ Awaited(Current(p))
  BY <1>1, <1>2, Slots
<1>4. P \in SUBSET Procs /\ A \in SUBSET Attempts
  BY <1>3
<1>5. CASE AttemptFails(p)
  <2> DEFINE r == [Idle EXCEPT !.pc = "backoff", !.attempt = req[p].attempt]
  <2>1. UNCHANGED call /\ req' = [req EXCEPT ![p] = r] /\ r.pc = "backoff"
    BY <1>5 DEF AttemptFails, OnRetryableError, Idle
  <2> HIDE DEF r
  <2>2. /\ req'[p].pc = "backoff" /\ \A q \in Procs \ {p} : req'[q] = req[q]
    BY <1>1, <2>1
  <2>3. CallsOK'
    BY <1>1, <1>2, <2>1, <2>2, CallsKept
  <2>4. /\ \A a \in A : Awaited(a) /\ a[1] \in P
        /\ \A q \in P : call'[q] = call[q] /\ req[q].pc = "sent" /\ Current(q) \in A
        /\ \A q \in Procs \ P : req'[q] = req[q] /\ call'[q] = call[q]
    BY <1>2, <1>3, <2>1, <2>2
  <2> HIDE DEF P, A
  <2> QED BY <1>4, <1>1, <1>2, <2>3, <2>4, GiveUpStep
<1>6. CASE CallFails(p)
  <2>1. call' = [call EXCEPT ![p] = NoCall] /\ req' = [req EXCEPT ![p] = Idle]
    BY <1>6 DEF CallFails, OnFinalError, Finish
  <2>2. /\ req'[p].pc = "idle" /\ \A q \in Procs \ {p} : req'[q] = req[q]
    BY <1>1, <2>1, IdleTyped
  <2>3. CallsOK' /\ call'[p] = NoCall /\ \A q \in Procs \ {p} : call'[q] = call[q]
    BY <1>1, <1>2, <2>1, <2>2, NothingFine, CallMoves
  <2>4. /\ \A a \in A : Awaited(a) /\ a[1] \in P
        /\ \A q \in P : call'[q] = NoCall /\ req[q].pc = "sent" /\ Current(q) \in A
        /\ \A q \in Procs \ P : req'[q] = req[q] /\ call'[q] = call[q]
    BY <1>2, <1>3, <2>2, <2>3
  <2> HIDE DEF P, A
  <2> QED BY <1>4, <1>1, <1>2, <2>3, <2>4, GiveUpStep
<1> QED BY <1>5, <1>6

LEMMA RestartStep == ASSUME GInv, [GatewayNext]_gatewayVars, RestartGateway PROVE GInv'
<1> DEFINE A == {a \in Attempts : Awaited(a)}
<1>1. BInv /\ CallsOK /\ BInv'
  BY BreakerKept DEF GInv
<1>2. /\ GiveUp(A) /\ UNCHANGED <<mix, session, client>> /\ call' = [p \in Procs |-> NoCall]
      /\ req' = [p \in Procs |-> Idle] /\ UNCHANGED given
  BY DEF RestartGateway, Restart, client
<1>3. CallsOK'
  BY <1>1, <1>2, NothingFine, IdleTyped DEF CallsOK
<1>4. /\ \A a \in A : Awaited(a) /\ a[1] \in Procs
      /\ \A p \in Procs : req[p].pc = "sent" => Current(p) \in A
  BY <1>1, Slots
<1>5. A \in SUBSET Attempts
  OBVIOUS
<1> HIDE DEF A
<1> QED BY <1>1, <1>2, <1>3, <1>4, <1>5, GiveUpStep

-----------------------------------------------------------------------------
(* Attempts that are sent.                                                 *)

\* An attempt is sent: if it is one of a refresh and nothing excuses a replay, its token
\* is not spent and no other call has it.
LEMMA DeliverStep ==
  ASSUME GInv, BInv', CallsOK', NEW p \in Procs, NEW k, NEW c \in Call, Deliver(p, k, c),
         <<p, k>> \in Attempts, {c.refresh, c.access} \subseteq given \cup {0},
         UNCHANGED <<session, client>>,
         ghost' \in Ghost, UNCHANGED ghost.since, UNCHANGED ghost.late, ~ghost'.replayed,
         ~ghost'.excuse =>
           /\ ~ghost.excuse
           /\ c.route = "refresh" =>
                /\ c.refresh \notin spent
                /\ \A q \in Procs \ {p} : call[q].route = "refresh" => call[q].refresh # c.refresh,
         req[p].pc # "sent", req'[p].pc = "sent", req'[p].attempt = k, call'[p] = c,
         \A q \in Procs \ {p} : req'[q] = req[q] /\ call'[q] = call[q],
         call[p].route = "refresh" => c = call[p]
  PROVE  GInv'
<1> DEFINE a == <<p, k>>
           j == [NoJob EXCEPT !.pc = "arrived", !.call = c]
<1>1. /\ BInv /\ JobsOK /\ TokensOK /\ EndsOK /\ ReplaysOK /\ job \in [Attempts -> Job]
      /\ UNCHANGED <<active, spent, life, cookie, given>> /\ Len(life) \in Nat
      /\ job[a] = NoJob
  BY LifeFine DEF GInv, JobsOK, session, client, Deliver
<1>2. /\ j \in Job /\ j.pc = "arrived" /\ j.call = c /\ j.new = 0
  BY NothingFine DEF Job
<1>3. \/ UNCHANGED job
      \/ job' = [job EXCEPT ![a] = j]
  BY DEF Deliver
<1> HIDE DEF j
<1>4. /\ job' \in [Attempts -> Job] /\ job'[a] \in {NoJob, j}
      /\ \A b \in Attempts \ {a} : job'[b] = job[b]
  BY <1>1, <1>2, <1>3
<1>5. JobsOK'
  <2>1. JobOK(j, Len(life), given)
    BY <1>1, <1>2 DEF JobOK
  <2>2. \A b \in Attempts : JobOK(job'[b], Len(life'), given) /\ job'[b].new \in {job[b].new, 0}
    BY <1>1, <1>2, <1>4, <2>1, NothingFine DEF JobsOK
  <2> QED BY <1>1, <1>4, <2>2, JobsStep
<1>6. TokensOK' /\ EndsOK'
  <2>1. TokensOK'
    BY <1>1 DEF TokensOK
  <2>2. \A b \in Attempts : job'[b].pc \in {"rotate", "mint"} => job'[b] = job[b]
    BY <1>2, <1>4, NothingFine
  <2> QED BY <1>1, <2>1, <2>2, EndsKept
<1>7. ReplaysOK'
  <2> SUFFICES ASSUME ~ghost'.excuse PROVE ReplaysOK'
    BY DEF ReplaysOK
  <2>1. ASSUME NEW b \in Attempts, b # a, job[b].call.route = "refresh"
        PROVE  b[1] \in Procs \ {p} /\ Awaited(b)
    BY <1>1, <2>1, Slots DEF ReplaysOK, CarriedOK
  <2>2. ASSUME NEW b \in Attempts PROVE CarriedOK(b)'
    <3> SUFFICES ASSUME job'[b].call.route = "refresh" PROVE CarriedOK(b)'
      BY DEF CarriedOK
    <3>1. CASE b # a
      <4>1. job'[b] = job[b] /\ b[1] \in Procs \ {p} /\ Awaited(b) /\ CarriedOK(b)
        BY <1>1, <1>4, <2>1, <3>1 DEF ReplaysOK
      <4>2. Awaited(b)'
        BY <4>1 DEF Awaited
      <4> QED BY <4>1, <4>2 DEF CarriedOK
    <3>2. CASE b = a
      <4>1. job'[b] = j /\ a[1] = p /\ a[2] = k
        BY <1>4, <3>2, NothingFine
      <4>2. Awaited(a)'
        BY <4>1 DEF Awaited
      <4> QED BY <1>2, <3>2, <4>1, <4>2 DEF CarriedOK
    <3> QED BY <3>1, <3>2
  <2>3. ASSUME NEW q \in Procs PROVE SpentOK(q)'
    <3> SUFFICES ASSUME call'[q].route = "refresh", call'[q].refresh \in spent PROVE SpentOK(q)'
      BY <1>1 DEF SpentOK
    <3>1. q # p /\ call'[q] = call[q] /\ req'[q] = req[q]
      OBVIOUS
    <3>2. req[q].pc = "sent" /\ Served(job[Current(q)]) /\ Current(q)' = Current(q)
      BY <1>1, <3>1 DEF ReplaysOK, SpentOK, Current
    <3>3. Current(q) \in Attempts /\ Current(q)[1] = q /\ a[1] = p
      BY <1>1, <3>2, Slots
    <3> QED BY <1>4, <3>1, <3>2, <3>3 DEF SpentOK, Served
  <2>4. \A q, r \in Procs : q # r /\ call'[q].route = "refresh" /\ call'[r].route = "refresh" =>
                              call'[q].refresh # call'[r].refresh
    BY <1>1 DEF ReplaysOK
  <2>5. cookie \in spent => \E q \in Procs : call'[q].route = "refresh" /\ call'[q].refresh = cookie
    <3> SUFFICES ASSUME cookie \in spent
                 PROVE  \E q \in Procs : call'[q].route = "refresh" /\ call'[q].refresh = cookie
      OBVIOUS
    <3>1. PICK q \in Procs : call[q].route = "refresh" /\ call[q].refresh = cookie
      BY <1>1 DEF ReplaysOK
    <3>2. call'[q] = call[q]
      BY <3>1
    <3> QED BY <3>1, <3>2
  <2> QED BY <1>1, <2>2, <2>3, <2>4, <2>5 DEF ReplaysOK
<1> QED BY <1>5, <1>6, <1>7 DEF GInv

\* What Send does to the requests.
LEMMA SendFine ==
  ASSUME BInv, NEW p \in Procs, Send(p)
  PROVE  /\ req'[p].pc = "sent" /\ req'[p].attempt = req[p].attempt + 1
         /\ \A q \in Procs \ {p} : req'[q] = req[q]
BY DEF Send, BInv, RequestsOK

LEMMA AdmitStep ==
  ASSUME GInv, [GatewayNext]_gatewayVars, NEW p \in Procs, NEW route \in mix.routes,
         NEW token \in Bearers(route), AdmitCall(p, route, token)
  PROVE  GInv'
<1> DEFINE c == [route |-> route,
                 refresh |-> IF route \in {"refresh", "logout"} THEN cookie ELSE 0,
                 access |-> IF route \in {"logoutAll", "me"} THEN token ELSE 0]
           b == route = "refresh" /\ Refreshing(cookie)
<1>1. /\ BInv /\ BInv' /\ CallsOK /\ TokensOK /\ ReplaysOK /\ ghost \in Ghost
      /\ mix \in Mix
  BY BreakerKept, Bounds DEF GInv, TokensOK, CallsOK
<1>2. /\ req[p].pc = "idle" /\ Send(p) /\ Deliver(p, 1, c) /\ call' = [call EXCEPT ![p] = c]
      /\ ghost' = [ghost EXCEPT !.excuse = @ \/ b] /\ UNCHANGED <<mix, session, client>>
      /\ UNCHANGED <<spent, given>>
  BY DEF AdmitCall, Admit, session, client
<1>3. route \in Routes /\ token \in given \cup {0} /\ cookie \in given \cup {0}
  BY <1>1 DEF Mix, Bearers, TokensOK
<1>4. /\ c \in Call /\ c.route = route /\ {c.refresh, c.access} \subseteq given \cup {0}
      /\ route = "refresh" => c.refresh = cookie
      /\ c # NoCall
  <2>1. {token, cookie, 0} \subseteq 0..MaxTokens
    BY <1>1, <1>3, TokenFine, Bounds
  <2>2. route # "none"
    BY <1>3 DEF Routes
  <2> QED BY <1>3, <2>1, <2>2, NothingFine DEF Call
<1>5. b \in BOOLEAN /\ (b <=> route = "refresh" /\ Refreshing(cookie))
  OBVIOUS
<1> HIDE DEF c, b
<1>6. /\ req'[p].pc = "sent" /\ req'[p].attempt = 1
      /\ \A q \in Procs \ {p} : req'[q] = req[q]
  BY <1>1, <1>2, SendFine, IdleTyped DEF BInv, RequestsOK
<1>7. CallsOK' /\ call'[p] = c /\ \A q \in Procs \ {p} : call'[q] = call[q]
  BY <1>1, <1>2, <1>4, <1>6, CallMoves
<1>8. /\ ghost' \in Ghost /\ ghost'.since = ghost.since /\ ghost'.late = ghost.late
      /\ ~ghost'.replayed
      /\ ghost'.excuse <=> ghost.excuse \/ b
  BY <1>1, <1>2, <1>5, ExcuseFine DEF ReplaysOK
<1>9. call[p].route # "refresh"
  BY <1>1, <1>2, NothingFine DEF CallsOK
<1>10. ASSUME ~ghost'.excuse, route = "refresh"
       PROVE  /\ cookie \notin spent
              /\ \A q \in Procs \ {p} : call[q].route = "refresh" => call[q].refresh # cookie
  <2>1. \A q \in Procs : ~(call[q].route = "refresh" /\ call[q].refresh = cookie)
    BY <1>5, <1>8, <1>10 DEF Refreshing
  <2> QED BY <1>1, <1>8, <1>10, <2>1 DEF ReplaysOK
<1>11. <<p, 1>> \in Attempts
  BY Bounds DEF Attempts
<1> QED BY <1>1, <1>2, <1>4, <1>6, <1>7, <1>8, <1>9, <1>10, <1>11, DeliverStep

LEMMA RetryStep ==
  ASSUME GInv, [GatewayNext]_gatewayVars, NEW p \in Procs, RetryCall(p)
  PROVE  GInv'
<1> DEFINE k == req[p].attempt + 1
           c == call[p]
<1>1. /\ BInv /\ BInv' /\ CallsOK /\ TokensOK /\ ReplaysOK /\ ghost \in Ghost
  BY BreakerKept DEF GInv, TokensOK
<1>2. /\ req[p].pc = "backoff" /\ Send(p) /\ Deliver(p, k, c)
      /\ UNCHANGED <<mix, call, session, client, ghost>> /\ UNCHANGED <<spent, given>>
  BY DEF RetryCall, Retry, session, client
<1>3. /\ req'[p].pc = "sent" /\ req'[p].attempt = k
      /\ \A q \in Procs \ {p} : req'[q] = req[q]
  BY <1>1, <1>2, SendFine
<1>4. CallsOK'
  BY <1>1, <1>2, <1>3, CallsKept
<1>5. <<p, k>> \in Attempts
  <2>1. req[p].attempt \in 0..MaxAttempts /\ req[p].attempt < MaxAttempts
    BY <1>1, <1>2 DEF BInv, RequestsOK, Request
  <2> QED BY <2>1, Bounds DEF Attempts
<1>6. c \in Call /\ {c.refresh, c.access} \subseteq given \cup {0}
  BY <1>1 DEF CallsOK
<1>7. ASSUME ~ghost.excuse, c.route = "refresh"
      PROVE  /\ c.refresh \notin spent
             /\ \A q \in Procs \ {p} : call[q].route = "refresh" => call[q].refresh # c.refresh
  BY <1>1, <1>2, <1>7 DEF ReplaysOK, SpentOK
<1>8. ~ghost.replayed
  BY <1>1 DEF ReplaysOK
<1> HIDE DEF k, c
<1>9. call'[p] = c /\ call[p] = c /\ \A q \in Procs : call'[q] = call[q]
  BY <1>2 DEF c
<1> QED BY <1>1, <1>2, <1>3, <1>4, <1>5, <1>6, <1>7, <1>8, <1>9, DeliverStep

-----------------------------------------------------------------------------
(* Answers that arrive, and time.                                          *)

\* What the client takes from an answer: a new token if the refresh was served, and then
\* it is the cookie.
LEMMA ReceiveFine ==
  ASSUME JobsOK, TokensOK, NEW a \in Attempts, job[a].pc = "done", Receive(job[a])
  PROVE  /\ given' \subseteq 1..Len(life) /\ cookie' \in given' \cup {0} /\ given \subseteq given'
         /\ \A b \in Attempts \ {a} : job[b].new # 0 => job[b].new \notin given'
         /\ cookie' \in spent => /\ cookie' = cookie
                                 /\ ~(job[a].ok /\ job[a].call.route = "refresh")
<1> DEFINE j == job[a]
<1>1. /\ given \subseteq 1..Len(life) /\ cookie \in given \cup {0} /\ spent \subseteq given
      /\ 0 \notin spent /\ 0 \notin given /\ Len(life) \in Nat
  BY LifeFine DEF TokensOK
<1>2. /\ j \in Job /\ JobOK(j, Len(life), given)
      /\ \A b \in Attempts \ {a} : /\ job[b].new # 0 => job[b].new \notin given
                                   /\ job[b].new # 0 => job[b].new # j.new
  BY DEF JobsOK, JobOK
<1>3. CASE j.ok /\ j.call.route = "refresh" /\ given' = given \cup {j.new} /\ cookie' = j.new
  <2>1. j.new # 0 /\ j.new \notin given /\ j.new \in 1..Len(life)
    BY <1>1, <1>2, <1>3, Bounds DEF JobOK, Job
  <2> QED BY <1>1, <1>2, <1>3, <2>1
<1>4. CASE j.ok /\ j.call.route \in {"logout", "logoutAll"} /\ cookie' = 0 /\ UNCHANGED given
  BY <1>1, <1>2, <1>4
<1>5. CASE (~j.ok \/ j.call.route \in {"me", "oauth"}) /\ UNCHANGED client
  BY <1>1, <1>2, <1>5 DEF client
<1> QED BY <1>3, <1>4, <1>5 DEF Receive

LEMMA AnswerStep ==
  ASSUME GInv, [GatewayNext]_gatewayVars, NEW p \in Procs, CallAnswered(p)
  PROVE  GInv'
<1> DEFINE a == Current(p)
<1>1. /\ BInv /\ BInv' /\ CallsOK /\ JobsOK /\ TokensOK /\ EndsOK /\ ReplaysOK
      /\ job \in [Attempts -> Job] /\ req \in [Procs -> Request]
  BY BreakerKept DEF GInv, JobsOK, BInv, RequestsOK
<1>2. /\ req[p].pc = "sent" /\ req' = [req EXCEPT ![p] = Idle] /\ job[a].pc = "done"
      /\ call' = [call EXCEPT ![p] = NoCall] /\ job' = [job EXCEPT ![a] = NoJob]
      /\ Receive(job[a]) /\ UNCHANGED <<mix, active, spent, life, ghost>>
  BY DEF CallAnswered, OnResponse, Finish, session
<1>3. a \in Attempts /\ Awaited(a) /\ a[1] = p
  BY <1>1, <1>2, Slots
<1>4. /\ req'[p].pc = "idle" /\ \A q \in Procs \ {p} : req'[q] = req[q]
      /\ job' \in [Attempts -> Job] /\ job'[a] = NoJob
      /\ \A b \in Attempts \ {a} : job'[b] = job[b]
  BY <1>1, <1>2, <1>3, IdleTyped, NothingFine
<1>5. /\ given' \subseteq 1..Len(life) /\ cookie' \in given' \cup {0} /\ given \subseteq given'
      /\ \A b \in Attempts \ {a} : job[b].new # 0 => job[b].new \notin given'
      /\ cookie' \in spent => /\ cookie' = cookie
                              /\ ~(job[a].ok /\ job[a].call.route = "refresh")
  BY <1>1, <1>2, <1>3, ReceiveFine
<1> HIDE DEF a
<1>6. CallsOK' /\ call'[p] = NoCall /\ \A q \in Procs \ {p} : call'[q] = call[q]
  BY <1>1, <1>2, <1>4, <1>5, NothingFine, CallMoves
<1>7. TokensOK'
  BY <1>1, <1>2, <1>5 DEF TokensOK
<1>8. JobsOK'
  <2>1. \A b \in Attempts : JobOK(job'[b], Len(life'), given')
    <3>1. JobOK(NoJob, Len(life'), given')
      BY <1>1, <1>2, LifeFine, NothingFine
    <3>2. ASSUME NEW b \in Attempts \ {a} PROVE JobOK(job[b], Len(life'), given')
      <4>1. JobOK(job[b], Len(life), given)
        BY <1>1 DEF JobsOK
      <4> QED BY <1>2, <1>5, <4>1 DEF JobOK
    <3> QED BY <1>4, <3>1, <3>2
  <2>2. \A b, c \in Attempts : b # c /\ job'[b].new = job'[c].new => job'[b].new = 0
    BY <1>1, <1>4, NothingFine DEF JobsOK
  <2> QED BY <1>4, <2>1, <2>2 DEF JobsOK
<1>9. EndsOK'
  BY <1>1, <1>2, <1>4, NothingFine, EndsKept
<1>10. ReplaysOK'
  <2> SUFFICES ASSUME ~ghost.excuse PROVE ReplaysOK'
    BY <1>1, <1>2 DEF ReplaysOK
  <2>1. ASSUME NEW b \in Attempts PROVE CarriedOK(b)'
    <3> SUFFICES ASSUME job'[b].call.route = "refresh" PROVE CarriedOK(b)'
      BY DEF CarriedOK
    <3>1. b # a /\ job'[b] = job[b]
      BY <1>4, NothingFine
    <3>2. CarriedOK(b) /\ Awaited(b) /\ b[1] \in Procs \ {p}
      BY <1>1, <3>1, Slots DEF ReplaysOK, CarriedOK, a
    <3>3. Awaited(b)'
      BY <1>4, <3>2 DEF Awaited
    <3> QED BY <1>6, <3>1, <3>2, <3>3 DEF CarriedOK
  <2>2. ASSUME NEW q \in Procs PROVE SpentOK(q)'
    <3> SUFFICES ASSUME call'[q].route = "refresh", call'[q].refresh \in spent PROVE SpentOK(q)'
      BY <1>2 DEF SpentOK
    <3>1. q # p /\ call'[q] = call[q] /\ req'[q] = req[q]
      BY <1>4, <1>6, NothingFine
    <3>2. req[q].pc = "sent" /\ Served(job[Current(q)]) /\ Current(q)' = Current(q)
      BY <1>1, <3>1 DEF ReplaysOK, SpentOK, Current
    <3>3. Current(q) \in Attempts /\ Current(q) # a
      BY <1>1, <1>3, <3>1, <3>2, Slots
    <3> QED BY <1>4, <3>1, <3>2, <3>3 DEF SpentOK, Served
  <2>3. \A q, r \in Procs : q # r /\ call'[q].route = "refresh" /\ call'[r].route = "refresh" =>
                              call'[q].refresh # call'[r].refresh
    BY <1>1, <1>6, NothingFine DEF ReplaysOK
  <2>4. cookie' \in spent => \E q \in Procs : call'[q].route = "refresh" /\ call'[q].refresh = cookie'
    <3> SUFFICES ASSUME cookie' \in spent
                 PROVE  \E q \in Procs : call'[q].route = "refresh" /\ call'[q].refresh = cookie'
      OBVIOUS
    <3>1. PICK q \in Procs : call[q].route = "refresh" /\ call[q].refresh = cookie
      BY <1>1, <1>5 DEF ReplaysOK
    <3>2. q # p
      <4> SUFFICES ASSUME q = p PROVE FALSE
        OBVIOUS
      <4>1. Served(job[a])
        BY <1>1, <1>5, <3>1 DEF ReplaysOK, SpentOK, a
      <4> QED BY <1>2, <1>5, <4>1 DEF Served
    <3> QED BY <1>5, <1>6, <3>1, <3>2
  <2> QED BY <1>1, <1>2, <2>1, <2>2, <2>3, <2>4 DEF ReplaysOK
<1> QED BY <1>1, <1>6, <1>7, <1>8, <1>9, <1>10 DEF GInv

\* The requests stand where they stood.
LEMMA ReplaysKept ==
  ASSUME BInv, ReplaysOK, UNCHANGED <<call, job, spent, cookie>>,
         ghost'.excuse <=> ghost.excuse,
         ghost'.replayed <=> ghost.replayed,
         \A p \in Procs : req'[p].pc = req[p].pc /\ req'[p].attempt = req[p].attempt
  PROVE  ReplaysOK'
<1> SUFFICES ASSUME ~ghost.excuse PROVE ReplaysOK'
  BY DEF ReplaysOK
<1>1. ASSUME NEW a \in Attempts PROVE CarriedOK(a)'
  <2>1. CarriedOK(a) /\ a[1] \in Procs
    BY Slots DEF ReplaysOK
  <2>2. Awaited(a)' <=> Awaited(a)
    BY <2>1 DEF Awaited
  <2> QED BY <2>1, <2>2 DEF CarriedOK
<1>2. ASSUME NEW p \in Procs PROVE SpentOK(p)'
  <2>1. SpentOK(p) /\ Current(p)' = Current(p)
    BY DEF ReplaysOK, Current
  <2> QED BY <2>1 DEF SpentOK, Served
<1> QED BY <1>1, <1>2 DEF ReplaysOK

LEMMA TickStep == ASSUME GInv, [GatewayNext]_gatewayVars, ClocksTick PROVE GInv'
<1> DEFINE since == IF active \/ ghost.since = AccessTTL THEN ghost.since ELSE ghost.since + 1
           N == Len(life)
<1>1. /\ BInv /\ BInv' /\ CallsOK /\ JobsOK /\ TokensOK /\ EndsOK /\ ReplaysOK
  BY BreakerKept DEF GInv
<1>2. /\ UNCHANGED <<req, mix, call, job, active, spent, cookie, given>>
      /\ life' = [n \in DOMAIN life |-> Lower(life[n])]
      /\ ghost' = [ghost EXCEPT !.since = since]
  BY DEF ClocksTick, Tick, client
<1>3. /\ N \in Nat /\ DOMAIN life = 1..N /\ \A n \in 1..N : life[n] \in 0..AccessTTL
      /\ AccessTTL \in Nat /\ AccessTTL > 0 /\ N \in 1..MaxTokens
      /\ ghost \in Ghost /\ ghost.since \in 0..AccessTTL
  BY <1>1, LifeFine, Bounds DEF TokensOK, Ghost
<1>4. /\ life' \in [1..N -> 0..AccessTTL]
      /\ \A n \in 1..N : life'[n] = Lower(life[n])
  BY <1>2, <1>3 DEF Lower
<1>5. life' \in Seq(0..AccessTTL) /\ Len(life') = N
  BY <1>3, <1>4
<1>6. since \in 0..AccessTTL /\ (~active => since <= ghost.since + 1)
  BY <1>3
<1>7. /\ ghost' \in Ghost /\ ghost'.since = since /\ ghost'.late = ghost.late
      /\ ghost'.excuse <=> ghost.excuse
      /\ ghost'.replayed <=> ghost.replayed
  <2> HIDE DEF since
  <2> QED BY <1>2, <1>3, <1>6 DEF Ghost
<1>8. CallsOK' /\ JobsOK' /\ TokensOK'
  BY <1>1, <1>2, <1>3, <1>5, <1>7 DEF CallsOK, JobsOK, TokensOK
<1>9. EndsOK'
  <2>1. ASSUME ~active, NEW n \in 1..N PROVE n \in ghost.late \/ life'[n] + since <= AccessTTL
    <3>1. n \in ghost.late \/ life[n] + ghost.since <= AccessTTL
      BY <1>1, <2>1 DEF EndsOK
    <3>2. CASE life[n] > 0
      BY <1>3, <1>4, <1>6, <2>1, <3>1, <3>2 DEF Lower
    <3>3. CASE ~(life[n] > 0)
      BY <1>3, <1>4, <1>6, <2>1, <3>3 DEF Lower
    <3> QED BY <3>2, <3>3
  <2>2. ~active => \A a \in Attempts : job[a].pc \in {"rotate", "mint"} => job[a].late
    BY <1>1 DEF EndsOK
  <2> QED BY <1>2, <1>5, <1>7, <2>1, <2>2 DEF EndsOK
<1>10. ReplaysOK'
  BY <1>1, <1>2, <1>7, ReplaysKept
<1> QED BY <1>1, <1>8, <1>9, <1>10 DEF GInv

LEMMA FlipStep == ASSUME GInv, [GatewayNext]_gatewayVars, ServiceFlips PROVE GInv'
<1>1. /\ BInv /\ BInv' /\ CallsOK /\ JobsOK /\ TokensOK /\ EndsOK /\ ReplaysOK
      /\ req \in [Procs -> Request]
  BY BreakerKept DEF GInv, BInv, RequestsOK
<1>2. /\ UNCHANGED <<mix, call, job, active, spent, life, cookie, given, ghost>>
      /\ req' = [p \in Procs |-> IF req[p].pc # "sent" THEN req[p]
                                 ELSE [req[p] EXCEPT !.heard = @ \/ up', !.lost = @ \/ ~up']]
  BY DEF ServiceFlips, Flip, session, client
<1>3. \A p \in Procs : req'[p].pc = req[p].pc /\ req'[p].attempt = req[p].attempt
  BY <1>1, <1>2 DEF Request
<1>4. CallsOK' /\ JobsOK' /\ TokensOK' /\ EndsOK'
  BY <1>1, <1>2, <1>3 DEF CallsOK, JobsOK, TokensOK, EndsOK
<1>5. ReplaysOK'
  BY <1>1, <1>2, <1>3, ReplaysKept
<1> QED BY <1>1, <1>4, <1>5 DEF GInv

-----------------------------------------------------------------------------
(* The induction.                                                          *)

LEMMA GInvInit == GatewayInit => GInv
<1> SUFFICES ASSUME GatewayInit PROVE GInv
  OBVIOUS
<1>1. /\ mix \in Mixes /\ Init /\ call = [p \in Procs |-> NoCall]
      /\ job = [a \in Attempts |-> NoJob] /\ active = TRUE /\ spent = {} /\ life = <<AccessTTL>>
      /\ cookie = 1 /\ given = {1}
      /\ ghost = [excuse |-> FALSE, replayed |-> FALSE, since |-> 0, late |-> {}]
  BY DEF GatewayInit
<1>2. BInv
  BY <1>1, BInvInit
<1>3. life \in Seq(0..AccessTTL) /\ Len(life) = 1 /\ 1 \in 1..MaxTokens
  <2>1. AccessTTL \in 0..AccessTTL
    BY Bounds
  <2> QED BY <1>1, <2>1, Bounds
<1>4. ghost \in Ghost
  BY <1>1, Bounds DEF Ghost
<1>5. TokensOK
  BY <1>1, <1>3, <1>4 DEF TokensOK
<1>6. \A p \in Procs : req[p].pc = "idle"
  BY <1>1, IdleTyped DEF Init
<1>7. CallsOK
  BY <1>1, <1>6, NothingFine DEF CallsOK
<1>8. JobsOK
  BY <1>1, <1>3, NothingFine DEF JobsOK
<1>9. EndsOK /\ ReplaysOK
  BY <1>1, NothingFine DEF EndsOK, ReplaysOK, CarriedOK, SpentOK
<1> QED BY <1>2, <1>5, <1>7, <1>8, <1>9 DEF GInv

\* The handlers of the service that only answer or end the session.
LEMMA HandlerSteps ==
  ASSUME GInv, NEW a \in Attempts, Logout(a) \/ Reject(a) \/ LogoutAll(a) \/ Me(a) \/ OAuth(a)
  PROVE  GInv'
<1>1. /\ job[a].pc = "arrived" /\ job[a].call.route # "refresh"
      /\ UNCHANGED <<proxy, call, client>>
  BY DEF Logout, Reject, LogoutAll, Me, OAuth, Arrived
<1>2. ASSUME NEW ok \in BOOLEAN, Reply(a, ok), UNCHANGED <<session, ghost>> PROVE GInv'
  <2>1. ghost \in Ghost
    BY DEF GInv, TokensOK
  <2> QED BY <1>1, <1>2, <2>1, ReplyStep
<1>3. ASSUME NEW ok \in BOOLEAN, End(a, ok, FALSE) PROVE GInv'
  BY <1>1, <1>3, EndStep
<1> QED BY <1>2, <1>3 DEF Logout, Reject, LogoutAll, Me, OAuth

LEMMA GInvStep == GInv /\ [GatewayNext]_gatewayVars => GInv'
<1> SUFFICES ASSUME GInv, [GatewayNext]_gatewayVars PROVE GInv'
  OBVIOUS
<1>1. ASSUME NEW p \in Procs, NEW route \in mix.routes, NEW token \in Bearers(route),
             AdmitCall(p, route, token)
      PROVE  GInv'
  BY <1>1, AdmitStep
<1>2. ASSUME NEW p \in Procs,
             CallAnswered(p) \/ AttemptFails(p) \/ CallFails(p) \/ RetryCall(p)
      PROVE  GInv'
  BY <1>2, AnswerStep, FailSteps, RetryStep
<1>3. ASSUME NEW a \in Attempts,
             \/ Refresh(a) \/ MarkUsed(a) \/ Mint(a) \/ Logout(a) \/ Throw(a)
             \/ Reject(a) \/ LogoutAll(a) \/ Me(a) \/ OAuth(a) \/ Die(a)
      PROVE  GInv'
  BY <1>3, RefreshStep, MarkUsedStep, MintStep, ThrowStep, HandlerSteps, DieStep
<1>4. CASE RestartGateway
  BY <1>4, RestartStep
<1>5. CASE ClocksTick
  BY <1>5, TickStep
<1>6. CASE ServiceFlips
  BY <1>6, FlipStep
<1>7. CASE UNCHANGED gatewayVars
  <2>1. UNCHANGED <<mix, breaker, up, req, call, job, active, spent, life, cookie, given, ghost>>
    BY <1>7 DEF gatewayVars, proxy, session, client
  <2>2. BInv' /\ BInv /\ ReplaysOK
    BY BreakerKept DEF GInv
  <2>3. CallsOK' /\ JobsOK' /\ TokensOK' /\ EndsOK'
    BY <2>1 DEF GInv, CallsOK, JobsOK, TokensOK, EndsOK
  <2>4. ReplaysOK'
    BY <2>1, <2>2, ReplaysKept
  <2> QED BY <2>2, <2>3, <2>4 DEF GInv
<1> QED BY <1>1, <1>2, <1>3, <1>4, <1>5, <1>6, <1>7 DEF GatewayNext

LEMMA GatewayInvariance == GatewaySpec => []GInv
BY GInvInit, GInvStep, PTL DEF GatewaySpec

-----------------------------------------------------------------------------
(* The theorems.                                                           *)

\* The gateway's calls, with their attempts at work in the service, are calls of the
\* circuit breaker: what is proved of it holds of them.
THEOREM ProxyImplemented == GatewaySpec => Spec
<1>1. GatewayInit => Init
  BY DEF GatewayInit
<1> QED BY <1>1, StepSimulated, PTL DEF GatewaySpec, Spec

\* With calls, attempts and tokens beside it, the status of the circuit agrees with its
\* count.
THEOREM GatewayBreakerAgrees == GatewaySpec => []StatusMatchesCount
BY ProxyImplemented, BreakerAgrees, PTL

\* A call is carried while the proxy has a request, and every token that was given or
\* spent exists.
THEOREM GatewayTypes == GatewaySpec => []GatewayTypeOK
<1>1. ASSUME GInv PROVE GatewayTypeOK
  <2>1. TypeOK /\ CallsOK /\ JobsOK /\ TokensOK
    BY <1>1, BInvTypes DEF GInv
  <2>2. DOMAIN life = 1..Len(life) /\ Len(life) <= MaxTokens
    BY <2>1, LifeFine
  <2> QED BY <2>1, <2>2 DEF GatewayTypeOK, CallsOK, JobsOK, TokensOK
<1> QED BY <1>1, GatewayInvariance, PTL

\* Through retries, late answers, errors, deaths and restarts the session of the client
\* ends as a replay only when an attempt of a refresh was given up or died, when one
\* failed behind markUsed, or when two overlapped.
THEOREM ReplaysHaveACause == GatewaySpec => []ReplayHasCause
<1>1. GInv => ReplayHasCause
  BY DEF GInv, ReplaysOK, ReplayHasCause
<1> QED BY <1>1, GatewayInvariance, PTL

\* A handler behind `authenticate` runs less than a life of a token after the session
\* ended, or with the token of a refresh that the end overtook.
THEOREM AccessHasAnEnd == GatewaySpec => AccessEnds
<1>1. ASSUME GInv, NEW a \in Attempts, LogoutAll(a) \/ Me(a), ~active,
             ~(ghost.since < AccessTTL)
      PROVE  job[a].call.access \in ghost.late
  <2> DEFINE n == job[a].call.access
  <2>1. /\ n # 0 /\ life[n] > 0
    BY <1>1 DEF LogoutAll, Me, Verifies
  <2>2. JobsOK /\ TokensOK /\ EndsOK
    BY <1>1 DEF GInv
  <2>3. n \in 1..Len(life)
    BY <2>1, <2>2 DEF JobsOK, JobOK, TokensOK
  <2>4. life[n] \in 0..AccessTTL /\ ghost.since \in 0..AccessTTL
    BY <2>2, <2>3, LifeFine DEF TokensOK, Ghost
  <2>5. n \in ghost.late \/ life[n] + ghost.since <= AccessTTL
    BY <1>1, <2>2, <2>3 DEF EndsOK
  <2> QED BY <1>1, <2>1, <2>4, <2>5, Bounds
<1>2. GInv => [\A a \in Attempts : LogoutAll(a) \/ Me(a) =>
                 active \/ ghost.since < AccessTTL
                   \/ job[a].call.access \in ghost.late]_gatewayVars
  BY <1>1
<1> QED BY <1>2, GatewayInvariance, PTL DEF AccessEnds
=============================================================================
