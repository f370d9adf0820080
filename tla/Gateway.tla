------------------------------ MODULE Gateway ------------------------------
(***************************************************************************)
(* One client, the gateway and the auth service: the checks a call passes, *)
(* the attempts CircuitBreaker makes of it, and what the service does with *)
(* each attempt that reaches it.  An attempt the gateway gave up may still *)
(* be at work in the service beside the one that replaced it.  The session *)
(* subsystem is reduced to one session; SessionTokens has its statements   *)
(* one by one.                                                             *)
(***************************************************************************)
EXTENDS CircuitBreaker, Sequences, FiniteSets

CONSTANTS
  AccessTTL,     \* expiresIn of an access token ('15m'), in ticks
  Mixes,         \* bound: one of them is what happens, see Mix
  MaxJobs,       \* bound: attempts at work in the service together
  MaxTokens      \* bound: tokens the session ever has

Routes == {"refresh", "logout", "logoutAll", "me", "oauth"}

\* The routes the client uses, and whether the service is ever down.
Mix == [routes: SUBSET Routes, outages: BOOLEAN]

ASSUME GatewayAssumption ==
  AccessTTL \in Nat \ {0} /\ MaxJobs \in Nat /\ MaxTokens \in Nat \ {0} /\ Mixes \subseteq Mix

VARIABLES
  mix,           \* what happens in this behaviour
  call,          \* the calls that the requests of CircuitBreaker carry
  job,           \* the attempts that reached the service
  active,        \* the session is active
  spent,         \* refresh tokens whose row is marked used
  life,          \* access token -> ticks until it expires; token n of either
                 \* kind comes from the same sign-in or refresh
  cookie,        \* the client's refresh token, 0 for none
  given,         \* tokens that were sent to the client
  ghost          \* history, see Ghost

proxy == <<mix, breaker, up, req>>
session == <<active, spent, life>>
client == <<cookie, given>>
gatewayVars == <<proxy, call, job, session, client, ghost>>

-----------------------------------------------------------------------------
(* The gateway's check of a bearer token.                                  *)

\* isPublicRoute.
PublicRoutes == {"refresh", "logoutAll", "oauth"}

\* authenticateRequest; token 0 stands for a missing or malformed header.
Authenticates(route, token) ==
  route \in PublicRoutes \/ (token # 0 /\ life[token] > 0)

-----------------------------------------------------------------------------
(* Calls and attempts.                                                     *)

Call == [route: Routes \cup {"none"},
         refresh: 0..MaxTokens,    \* the cookie, where the handler reads it
         access: 0..MaxTokens]     \* the bearer token, likewise

NoCall == [route |-> "none", refresh |-> 0, access |-> 0]

Job == [pc: {"none", "arrived", "rotate", "mint", "done"},
        call: Call,
        new: 0..MaxTokens,         \* the tokens its answer carries
        late: BOOLEAN,             \* the session ended behind its check
        ok: BOOLEAN]               \* it was answered with a success

NoJob == [pc |-> "none", call |-> NoCall, new |-> 0, late |-> FALSE, ok |-> FALSE]

Attempts == Procs \X (1..MaxAttempts)

\* excuse: an attempt of a refresh was given up, died or failed behind markUsed, or
\*   two refreshes with one token overlapped.
\* replayed: before that, the session was ended as a replay.
\* since: ticks since the session ended, up to AccessTTL.
\* late: access tokens of refreshes that had checked the session when it ended.
Ghost == [excuse: BOOLEAN, replayed: BOOLEAN, since: 0..AccessTTL,
          late: SUBSET (1..MaxTokens)]

GatewayInit ==
  /\ mix \in Mixes
  /\ Init /\ up
  /\ call = [p \in Procs |-> NoCall]
  /\ job = [a \in Attempts |-> NoJob]
  /\ active = TRUE
  /\ spent = {}
  /\ life = <<AccessTTL>>
  /\ cookie = 1
  /\ given = {1}
  /\ ghost = [excuse |-> FALSE, replayed |-> FALSE, since |-> 0, late |-> {}]

Current(p) == <<p, req[p].attempt>>

Awaited(a) == req[a[1]].pc = "sent" /\ req[a[1]].attempt = a[2]

\* A refresh with this token is in flight, or at work after it was given up.
Refreshing(token) ==
  \E c \in {call[p] : p \in Procs} \cup {job[a].call : a \in Attempts} :
    c.route = "refresh" /\ c.refresh = token

\* A client sends any access token it was given, where anyone reads it.
Bearers(route) == IF route \in {"refresh", "oauth"} THEN {0} ELSE given \cup {0}

-----------------------------------------------------------------------------
(* The gateway's side of one call.                                         *)

\* Attempt k of call c.  When the service does not answer it may have got it.
Deliver(p, k, c) ==
  /\ job[<<p, k>>] = NoJob
  /\ \/ /\ Cardinality({a \in Attempts : job[a] # NoJob}) < MaxJobs
        /\ job' = [job EXCEPT ![<<p, k>>] = [NoJob EXCEPT !.pc = "arrived", !.call = c]]
     \/ ~up /\ UNCHANGED job

\* A call that fails a check, that is over the rate limit (external) or finds the
\* circuit open is answered with an error, and nothing changes.
AdmitCall(p, route, token) ==
  LET c == [route |-> route,
            refresh |-> IF route \in {"refresh", "logout"} THEN cookie ELSE 0,
            access |-> IF route \in {"logoutAll", "me"} THEN token ELSE 0] IN
  /\ Authenticates(route, token)
  /\ Admit(p)
  /\ Deliver(p, 1, c)
  /\ call' = [call EXCEPT ![p] = c]
  /\ ghost' = [ghost EXCEPT !.excuse = @ \/ (route = "refresh" /\ Refreshing(cookie))]
  /\ UNCHANGED <<mix, session, client>>

\* MUTANT: the answer of a refresh does not carry the new cookie.
ReceiveNoCookie(j) ==
  \/ j.ok /\ j.call.route = "refresh" /\ given' = given \cup {j.new} /\ UNCHANGED cookie
  \/ j.ok /\ j.call.route \in {"logout", "logoutAll"} /\ cookie' = 0 /\ UNCHANGED given
  \/ (~j.ok \/ j.call.route \in {"me", "oauth"}) /\ UNCHANGED client

\* Set-Cookie of refresh, clearCookie of the two logouts.
Receive(j) ==
  \/ j.ok /\ j.call.route = "refresh" /\ given' = given \cup {j.new} /\ cookie' = j.new
  \/ j.ok /\ j.call.route \in {"logout", "logoutAll"} /\ cookie' = 0 /\ UNCHANGED given
  \/ (~j.ok \/ j.call.route \in {"me", "oauth"}) /\ UNCHANGED client

CallAnswered(p) ==
  /\ OnResponse(p)
  /\ job[Current(p)].pc = "done"
  /\ call' = [call EXCEPT ![p] = NoCall]
  /\ job' = [job EXCEPT ![Current(p)] = NoJob]
  /\ Receive(job[Current(p)])
  /\ UNCHANGED <<mix, session, ghost>>

\* Attempts nobody waits for: an answer already given goes nowhere, what is at
\* work in the service goes on.
GiveUp(A) ==
  /\ job' = [a \in Attempts |-> IF a \in A /\ job[a].pc = "done" THEN NoJob ELSE job[a]]
  /\ ghost' = [ghost EXCEPT !.excuse = @ \/ \E a \in A : job[a].call.route = "refresh"]

AttemptFails(p) ==
  /\ OnRetryableError(p)
  /\ GiveUp({Current(p)})
  /\ UNCHANGED <<mix, call, session, client>>

CallFails(p) ==
  /\ OnFinalError(p)
  /\ call' = [call EXCEPT ![p] = NoCall]
  /\ GiveUp({Current(p)})
  /\ UNCHANGED <<mix, session, client>>

RetryCall(p) ==
  /\ Retry(p)
  /\ Deliver(p, req[p].attempt + 1, call[p])
  /\ UNCHANGED <<mix, call, session, client, ghost>>

\* The process takes its circuits and calls with it.
RestartGateway ==
  /\ Restart
  /\ call' = [p \in Procs |-> NoCall]
  /\ GiveUp({a \in Attempts : Awaited(a)})
  /\ UNCHANGED <<mix, session, client>>

-----------------------------------------------------------------------------
(* The service's side of one attempt.                                      *)

\* What the attempt leaves when its handler has answered, with these tokens.
Answered(a, ok, new) ==
  IF Awaited(a) THEN [NoJob EXCEPT !.pc = "done", !.call = [NoCall EXCEPT !.route = job[a].call.route],
                                   !.new = new, !.ok = ok]
                ELSE NoJob

Reply(a, ok) == job' = [job EXCEPT ![a] = Answered(a, ok, 0)]

\* The session ends.  Refreshes that have checked it go on.
End(a, ok, replay) ==
  /\ active' = FALSE
  /\ job' = [b \in Attempts |->
               IF b = a THEN Answered(a, ok, 0)
               ELSE [job[b] EXCEPT !.late = @ \/ (active /\ job[b].pc \in {"rotate", "mint"})]]
  /\ ghost' = [ghost EXCEPT !.since = IF active THEN 0 ELSE @,
                            !.replayed = @ \/ (replay /\ active /\ ~ghost.excuse)]
  /\ UNCHANGED <<spent, life>>

Arrived(a, route) == job[a].pc = "arrived" /\ job[a].call.route = route

\* MUTANT: a refresh does not look at the session of its token.
RefreshSessionUnasked(a) ==
  LET token == job[a].call.refresh IN
  /\ Arrived(a, "refresh")
  /\ \/ token = 0 /\ Reply(a, FALSE) /\ UNCHANGED <<session, ghost>>
     \/ token \in spent /\ End(a, FALSE, TRUE)
     \/ /\ token \notin spent \cup {0}
        /\ job' = [job EXCEPT ![a].pc = "rotate"]
        /\ UNCHANGED <<session, ghost>>
  /\ UNCHANGED <<proxy, call, client>>

\* The token's row is read, and the session when it is unused.
Refresh(a) ==
  LET token == job[a].call.refresh IN
  /\ Arrived(a, "refresh")
  /\ \/ token = 0 /\ Reply(a, FALSE) /\ UNCHANGED <<session, ghost>>
     \/ token \in spent /\ End(a, FALSE, TRUE)
     \/ /\ token \notin spent \cup {0} /\ ~active
        /\ Reply(a, FALSE)
        /\ UNCHANGED <<session, ghost>>
     \/ /\ token \notin spent \cup {0} /\ active
        /\ job' = [job EXCEPT ![a].pc = "rotate"]
        /\ UNCHANGED <<session, ghost>>
  /\ UNCHANGED <<proxy, call, client>>

\* MUTANT: the new token is marked used, not the presented one.
MarkUsedNew(a) ==
  /\ job[a].pc = "rotate"
  /\ spent' = spent \cup {Len(life) + 1}
  /\ job' = [job EXCEPT ![a].pc = "mint"]
  /\ UNCHANGED <<proxy, call, active, life, client, ghost>>

MarkUsed(a) ==
  /\ job[a].pc = "rotate"
  /\ spent' = spent \cup {job[a].call.refresh}
  /\ job' = [job EXCEPT ![a].pc = "mint"]
  /\ UNCHANGED <<proxy, call, active, life, client, ghost>>

\* The child is stored and the session updated, an access token is generated, and
\* the answer carries both.
Mint(a) ==
  LET n == Len(life) + 1 IN
  /\ job[a].pc = "mint" /\ n <= MaxTokens
  /\ life' = Append(life, AccessTTL)
  /\ ghost' = [ghost EXCEPT !.late = IF job[a].late THEN @ \cup {n} ELSE @]
  /\ job' = [job EXCEPT ![a] = Answered(a, TRUE, n)]
  /\ UNCHANGED <<proxy, call, active, spent, client>>

\* A statement throws, in a service that goes on: the answer is an error, which the
\* gateway takes for a response and the client's cookie survives.  Behind markUsed
\* that is the cookie of a spent token.
Throw(a) ==
  /\ job[a].pc \in {"arrived", "rotate", "mint"}
  /\ Reply(a, FALSE)
  /\ ghost' = [ghost EXCEPT !.excuse = @ \/ job[a].pc = "mint"]
  /\ UNCHANGED <<proxy, call, session, client>>

\* Public in the service: the cookie alone names the session.  A statement behind
\* the one that ends it may throw.
Logout(a) ==
  /\ Arrived(a, "logout")
  /\ \/ job[a].call.refresh = 0 /\ Reply(a, TRUE) /\ UNCHANGED <<session, ghost>>
     \/ job[a].call.refresh # 0 /\ \E ok \in BOOLEAN : End(a, ok, FALSE)
  /\ UNCHANGED <<proxy, call, client>>

\* `authenticate`: verifyAccessToken, with the key and the claims (external).
Verifies(a) == job[a].call.access # 0 /\ life[job[a].call.access] > 0

Reject(a) ==
  /\ Arrived(a, "logoutAll") \/ Arrived(a, "me")
  /\ ~Verifies(a)
  /\ Reply(a, FALSE)
  /\ UNCHANGED <<proxy, call, session, client, ghost>>

LogoutAll(a) ==
  /\ Arrived(a, "logoutAll") /\ Verifies(a)
  /\ \E ok \in BOOLEAN : End(a, ok, FALSE)
  /\ UNCHANGED <<proxy, call, client>>

Me(a) ==
  /\ Arrived(a, "me") /\ Verifies(a)
  /\ Reply(a, TRUE)
  /\ UNCHANGED <<proxy, call, session, client, ghost>>

\* What the OAuth routes do is in Identities.
OAuth(a) ==
  /\ Arrived(a, "oauth")
  /\ Reply(a, TRUE)
  /\ UNCHANGED <<proxy, call, session, client, ghost>>

\* An attempt may die with a service that is down.
Die(a) ==
  /\ job[a] # NoJob /\ ~up
  /\ job' = [job EXCEPT ![a] = NoJob]
  /\ ghost' = [ghost EXCEPT !.excuse = @ \/ job[a].call.route = "refresh"]
  /\ UNCHANGED <<proxy, call, session, client>>

-----------------------------------------------------------------------------
(* Time and the service (external).                                        *)

Lower(n) == IF n > 0 THEN n - 1 ELSE 0

\* Clocks run together; an entry that is not cooling has nothing to lose.
ClocksTick ==
  /\ Tick \/ (breaker.cooling = 0 /\ UNCHANGED <<breaker, up, req>>)
  /\ life' = [n \in DOMAIN life |-> Lower(life[n])]
  /\ ghost' = [ghost EXCEPT !.since = IF active \/ @ = AccessTTL THEN @ ELSE @ + 1]
  /\ UNCHANGED <<mix, call, job, active, spent, client>>

ServiceFlips ==
  /\ mix.outages
  /\ Flip
  /\ UNCHANGED <<mix, call, job, session, client, ghost>>

GatewayNext ==
  \/ \E p \in Procs, route \in mix.routes : \E token \in Bearers(route) : AdmitCall(p, route, token)
  \/ \E p \in Procs : CallAnswered(p) \/ AttemptFails(p) \/ CallFails(p) \/ RetryCall(p)
  \/ \E a \in Attempts :
       \/ Refresh(a) \/ MarkUsed(a) \/ Mint(a) \/ Logout(a) \/ Throw(a)
       \/ Reject(a) \/ LogoutAll(a) \/ Me(a) \/ OAuth(a) \/ Die(a)
  \/ RestartGateway \/ ClocksTick \/ ServiceFlips

GatewaySpec == GatewayInit /\ [][GatewayNext]_gatewayVars

-----------------------------------------------------------------------------
(* Properties.                                                             *)

\* Everything holds values of its type; a call is carried exactly while the proxy
\* has a request, and tokens that were given or spent exist.
GatewayTypeOK ==
  /\ mix \in Mixes /\ TypeOK
  /\ call \in [Procs -> Call] /\ job \in [Attempts -> Job]
  /\ active \in BOOLEAN /\ ghost \in Ghost
  /\ life \in Seq(0..AccessTTL) /\ Len(life) <= MaxTokens
  /\ spent \subseteq DOMAIN life /\ given \subseteq DOMAIN life
  /\ cookie \in given \cup {0}
  /\ \A p \in Procs : call[p] = NoCall <=> req[p].pc = "idle"

\* A protected handler of the service runs for a session that is active or ended
\* less than the life of an access token ago, or with a token of a refresh that
\* the end of the session overtook.  Nothing else asks the session, so this is
\* all that a logout or a replay does to the access tokens that are out.
AccessEnds ==
  [][\A a \in Attempts : LogoutAll(a) \/ Me(a) =>
       active \/ ghost.since < AccessTTL \/ job[a].call.access \in ghost.late]_gatewayVars

\* Through retries, late answers, errors and restarts, the client's session is taken
\* for a replay only after an attempt of a refresh was given up or died, after one
\* failed when it had marked its token used, or after two refreshes with one token
\* overlapped.
ReplayHasCause == ~ghost.replayed
=============================================================================
