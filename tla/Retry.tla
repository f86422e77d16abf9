-------------------------------- MODULE Retry --------------------------------
(***************************************************************************)
(* ExecuteWithRetry (internal/retry/retry.go): the attempt loop, its checks *)
(* of the context and the wait between attempts.  The attempts themselves   *)
(* are the steps of HttpClient; "judge" is the code that follows client.Do. *)
(***************************************************************************)
EXTENDS HttpClient

shouldRetryStatusCode(s) == s \in {429, 500, 502, 503, 504}

\* Mutant: the method is not looked at.
shouldRetryAnyMethod(m, s) == shouldRetryStatusCode(s)

shouldRetry(m, s) ==
  /\ m \in {"GET", "HEAD", "OPTIONS", "PUT", "DELETE"}
  /\ shouldRetryStatusCode(s)

\* ExecuteWithRetry returns (r, e); the request's body and the history stay.
Return(r, e) ==
  /\ pc' = "return"
  /\ resp' = r
  /\ lastErr' = e
  /\ UNCHANGED <<req, service, ctx, body, attempt, delivered>>

\* Mutant: every finished context is a departed client.
ContextErrorCanceled == IF lastErr = "nil" THEN "canceled" ELSE lastErr

\* What a finished context makes of the call: the last attempt's error when
\* there is one, else the bare error of the context.
ContextError == IF lastErr = "nil" THEN ctx ELSE lastErr

\* Mutant: each attempt gets a fresh copy of the body.
StartAttemptRewound ==
  /\ pc = "check"
  /\ ctx = "live"
  /\ pc' = "do"
  /\ body' = "intact"
  /\ UNCHANGED <<req, service, ctx, attempt, resp, lastErr, delivered>>

\* The check at the head of the loop.
StartAttempt ==
  /\ pc = "check"
  /\ ctx = "live"
  /\ pc' = "do"
  /\ UNCHANGED <<req, service, ctx, body, attempt, resp, lastErr, delivered>>

StopAtCheck ==
  /\ pc = "check"
  /\ ctx # "live"
  /\ Return(NoResponse, ContextError)

Closed(r) == IF r = NoResponse THEN r ELSE [r EXCEPT !.open = FALSE]

\* Mutant: only success counts as an answer.
AcceptableSuccess == lastErr = "nil" /\ resp.status < 400

Acceptable == lastErr = "nil" /\ ~shouldRetry(req.method, resp.status)

GivesUp == resp # NoResponse /\ ~shouldRetryStatusCode(resp.status)

\* Mutants: the loop's bound off by one, either way.
LastAttemptEarly == attempt >= service.max - 2

LastAttemptLate == attempt >= service.max

LastAttempt == attempt >= service.max - 1

\* Mutant: the body is closed before the response is returned.
ReturnResponseClosed ==
  /\ pc = "judge"
  /\ Acceptable
  /\ Return(Closed(resp), lastErr)

ReturnResponse ==
  /\ pc = "judge"
  /\ Acceptable
  /\ Return(resp, lastErr)

\* Past this point the response body has been closed.
ReturnUnretriable ==
  /\ pc = "judge"
  /\ ~Acceptable
  /\ GivesUp
  /\ Return(Closed(resp), lastErr)

ReturnExhausted ==
  /\ pc = "judge"
  /\ ~Acceptable
  /\ ~GivesUp
  /\ LastAttempt
  /\ Return(Closed(resp), lastErr)

\* calculateBackoff, then the select.
EnterBackoff ==
  /\ pc = "judge"
  /\ ~Acceptable
  /\ ~GivesUp
  /\ ~LastAttempt
  /\ pc' = IF service.jitterable THEN "backoff" ELSE "panic"
  /\ resp' = Closed(resp)
  /\ UNCHANGED <<req, service, ctx, body, attempt, lastErr, delivered>>

\* With both channels ready the select takes either branch.
BackoffElapses ==
  /\ pc = "backoff"
  /\ pc' = "check"
  /\ attempt' = attempt + 1
  /\ UNCHANGED <<req, service, ctx, body, resp, lastErr, delivered>>

StopInBackoff ==
  /\ pc = "backoff"
  /\ ctx # "live"
  /\ Return(NoResponse, ContextError)

ExecuteWithRetry ==
  \/ StartAttempt \/ StopAtCheck
  \/ ReturnResponse \/ ReturnUnretriable \/ ReturnExhausted
  \/ EnterBackoff \/ BackoffElapses \/ StopInBackoff

=============================================================================
