--------------------------- MODULE CircuitBreaker ---------------------------
(***************************************************************************)
(* The gateway's proxy to one downstream service: the in-memory circuit    *)
(* breaker of this gateway instance, shared by all requests it forwards,   *)
(* and each request's attempts.  checkCircuit, recordSuccess and           *)
(* recordFailure are synchronous, hence atomic; all else interleaves.      *)
(***************************************************************************)
EXTENDS Integers

CONSTANTS
  Procs,         \* request slots: requests forwarded together
  Threshold,     \* FAILURE_THRESHOLD (5)
  Cooldown,      \* COOLDOWN_PERIOD_MS, in ticks
  MaxAttempts    \* maxRetries (3), which counts the first attempt too

ASSUME BreakerAssumption ==
  /\ Threshold \in Nat \ {0}
  /\ Cooldown \in Nat
  /\ MaxAttempts \in Nat \ {0}

VARIABLES
  breaker,       \* circuitBreakers[serviceName]
  up,            \* the service answers
  req            \* local state of the requests in flight

vars == <<breaker, up, req>>

-----------------------------------------------------------------------------
\* `cooling` counts down to the moment Date.now() - lastFailureTime exceeds the
\* cooldown.  Failures from Threshold on are compared alike and not told apart.
Breaker == [status: {"CLOSED", "OPEN", "HALF_OPEN"},
            failures: 0..Threshold,
            cooling: 0..Cooldown + 1]

\* No entry, or the entry checkCircuit and recordFailure create.
NoFailure == [status |-> "CLOSED", failures |-> 0, cooling |-> 0]

Request == [pc: {"idle", "sent", "backoff"},
            attempt: 0..MaxAttempts,
            heard: BOOLEAN,    \* the service was up during this attempt
            lost: BOOLEAN]     \* the service was down during this attempt

Idle == [pc |-> "idle", attempt |-> 0, heard |-> FALSE, lost |-> FALSE]

Init ==
  /\ breaker = NoFailure
  /\ up \in BOOLEAN
  /\ req = [p \in Procs |-> Idle]

-----------------------------------------------------------------------------
Finish(p) == req' = [req EXCEPT ![p] = Idle]

Send(p) == req' = [req EXCEPT ![p] = [pc |-> "sent", attempt |-> req[p].attempt + 1,
                                      heard |-> up, lost |-> ~up]]

\* checkCircuit answers TRUE; when it answers FALSE nothing changes.
CheckCircuit ==
  \/ /\ breaker.status # "OPEN"
     /\ UNCHANGED breaker
  \/ /\ breaker.status = "OPEN" /\ breaker.cooling = 0
     /\ breaker' = [breaker EXCEPT !.status = "HALF_OPEN"]

\* MUTANT: a success closes the circuit and keeps the count.
RecordSuccessStatusOnly == breaker' = [breaker EXCEPT !.status = "CLOSED"]

\* MUTANT: only a closed circuit is reset, the probe's success is not counted.
RecordSuccessClosedOnly ==
  breaker' = IF breaker.status = "CLOSED" THEN [breaker EXCEPT !.failures = 0] ELSE breaker

RecordSuccess == breaker' = [breaker EXCEPT !.failures = 0, !.status = "CLOSED"]

RecordFailure ==
  LET n == breaker.failures + 1 IN
  breaker' = [status |-> IF n >= Threshold THEN "OPEN" ELSE breaker.status,
              failures |-> IF n >= Threshold THEN Threshold ELSE n,
              cooling |-> Cooldown + 1]

-----------------------------------------------------------------------------
(* One proxied request.                                                    *)

Admit(p) ==
  /\ req[p].pc = "idle"
  /\ CheckCircuit
  /\ Send(p)
  /\ UNCHANGED up

\* Any response, whatever its status code; also long after the circuit opened.
OnResponse(p) ==
  /\ req[p].pc = "sent" /\ req[p].heard
  /\ RecordSuccess
  /\ Finish(p)
  /\ UNCHANGED up

\* MUTANT: an off-by-one in the comparison with maxRetries.
OnRetryableErrorOffByOne(p) ==
  /\ req[p].pc = "sent" /\ req[p].lost
  /\ req[p].attempt <= MaxAttempts
  /\ req' = [req EXCEPT ![p] = [Idle EXCEPT !.pc = "backoff", !.attempt = req[p].attempt]]
  /\ UNCHANGED <<breaker, up>>

\* A retryable error below the limit: wait, without asking the breaker again.
OnRetryableError(p) ==
  /\ req[p].pc = "sent" /\ req[p].lost
  /\ req[p].attempt < MaxAttempts
  /\ req' = [req EXCEPT ![p] = [Idle EXCEPT !.pc = "backoff", !.attempt = req[p].attempt]]
  /\ UNCHANGED <<breaker, up>>

\* Another error, or the last attempt: one failure for the whole request.
OnFinalError(p) ==
  /\ req[p].pc = "sent" /\ req[p].lost
  /\ RecordFailure
  /\ Finish(p)
  /\ UNCHANGED up

Retry(p) ==
  /\ req[p].pc = "backoff"
  /\ Send(p)
  /\ UNCHANGED <<breaker, up>>

-----------------------------------------------------------------------------
(* Time, the service (external) and the gateway process.                   *)

Tick ==
  /\ breaker.cooling > 0
  /\ breaker' = [breaker EXCEPT !.cooling = @ - 1]
  /\ UNCHANGED <<up, req>>

\* The service goes down or comes back: an attempt in flight may then fare
\* either way.
Flip ==
  /\ up' = ~up
  /\ req' = [p \in Procs |-> IF req[p].pc # "sent" THEN req[p]
                             ELSE [req[p] EXCEPT !.heard = @ \/ up', !.lost = @ \/ ~up']]
  /\ UNCHANGED breaker

\* The breaker lives in the process: a restart forgets it.
Restart ==
  /\ breaker' = NoFailure
  /\ req' = [p \in Procs |-> Idle]
  /\ UNCHANGED up

Answer(p) == OnResponse(p) \/ OnRetryableError(p) \/ OnFinalError(p)

Next == \/ \E p \in Procs : Admit(p) \/ Answer(p) \/ Retry(p)
        \/ Tick \/ Flip \/ Restart

Spec == Init /\ [][Next]_vars

\* Time goes on; an attempt ends (undici times its headers and its body out) and
\* the timer of a back-off fires.  Nothing is owed by clients or the service.
FairSpec ==
  /\ Spec
  /\ WF_vars(Tick)
  /\ \A p \in Procs : WF_vars(Answer(p)) /\ WF_vars(Retry(p))

-----------------------------------------------------------------------------
(* Properties.                                                             *)

\* The breaker and the requests hold values of their types; a request in
\* flight made at least one and at most MaxAttempts attempts.
TypeOK ==
  /\ breaker \in Breaker
  /\ up \in BOOLEAN
  /\ req \in [Procs -> Request]
  /\ \A p \in Procs : req[p].pc # "idle" => req[p].attempt >= 1
  /\ \A p \in Procs : req[p].pc = "backoff" => req[p].attempt < MaxAttempts

\* Whatever order answers and failures of overlapping requests come in, the
\* status agrees with the count: below Threshold the circuit is closed, from
\* Threshold on it is not.  So the probe's failure reopens it at once, and a
\* closed circuit always needs Threshold more failures or fewer to open.
StatusMatchesCount == breaker.status = "CLOSED" <=> breaker.failures < Threshold

\* When the service is up for good and requests keep coming, the circuit ends
\* up closed and stays closed.
Demand == \E p \in Procs : Admit(p)

Recovers == <>[]up /\ WF_vars(Demand) => <>[](breaker.status = "CLOSED")
=============================================================================
