---------------------------- MODULE ProxyHandler ----------------------------
(***************************************************************************)
(* ProxyHandler.ServeHTTP (internal/gateway/proxy.go) for one request that  *)
(* is not a WebSocket upgrade: serveWithRetry over ExecuteWithRetry, or     *)
(* serveDirect over httputil.ReverseProxy, and the answer the client gets.  *)
(* Requests share only the transport's idle connections, so one request     *)
(* with its backend and its context is the whole component.                 *)
(***************************************************************************)
EXTENDS Retry

CONSTANT NoAnswer

VARIABLE answer     \* what has been written to the client

vars == <<req, service, ctx, body, pc, attempt, resp, lastErr, delivered, answer>>

\* by: who chose the status.  body: the backend's body in full, cut off by a
\* failure while copying, or not sent at all; the gateway's own are "whole".
Answers == [status: 200..599, by: {"backend", "gateway"},
            body: {"whole", "cut", "missing"}]

ASSUME AnswerAssumption == NoAnswer \notin Answers

\* max_attempts of zero or one both mean one attempt, on the direct path.
AtLeastOne(n) == IF n > 1 THEN n ELSE 1

TypeOK ==
  /\ req \in Requests
  /\ service \in Services
  /\ ctx \in {"live", "deadline", "canceled"}
  /\ body \in {"intact", "drained", "closed"}
  /\ pc \in {"serve", "check", "do", "wait", "judge", "backoff", "return",
             "panic", "done"}
  /\ attempt \in 0..(AtLeastOne(service.max) - 1)
  /\ resp \in Responses \cup {NoResponse}
  /\ lastErr \in Errors
  /\ delivered \in [whole: Nat, short: Nat]
  /\ answer \in Answers \cup {NoAnswer}

Init ==
  /\ req \in Requests
  /\ service \in Services
  /\ ctx = "live"
  /\ body = "intact"
  /\ pc = "serve"
  /\ attempt = 0
  /\ resp = NoResponse
  /\ lastErr = "nil"
  /\ delivered = [whole |-> 0, short |-> 0]
  /\ answer = NoAnswer

Gateway(status) == [status |-> status, by |-> "gateway", body |-> "whole"]

Backend(status, b) == [status |-> status, by |-> "backend", body |-> b]

\* The handler returns having written a, or nothing when a is NoAnswer.
Answer(a) ==
  /\ answer' = a
  /\ pc' = "done"
  /\ UNCHANGED <<req, service, ctx, body, attempt, resp, lastErr, delivered>>

InvalidBackendURL ==
  /\ pc = "serve"
  /\ ~service.urlParses
  /\ Answer(Gateway(500))

ServeHTTP ==
  /\ pc = "serve"
  /\ service.urlParses
  /\ pc' = IF Retrying THEN "check" ELSE "do"
  /\ UNCHANGED <<req, service, ctx, body, attempt, resp, lastErr, delivered, answer>>

(***************************************************************************)
(* Both paths map an error the same way, comparing it with the two context  *)
(* errors by ==.                                                            *)
(***************************************************************************)
GatewayTimeout ==
  /\ pc = "return"
  /\ lastErr = "deadline"
  /\ Answer(Gateway(504))

ClientGone ==
  /\ pc = "return"
  /\ lastErr = "canceled"
  /\ Answer(NoAnswer)

BadGateway ==
  /\ pc = "return"
  /\ lastErr \notin {"nil", "deadline", "canceled"}
  /\ Answer(Gateway(502))

\* Headers, status and body of the backend's response.  io.Copy from a body
\* that ExecuteWithRetry has closed writes nothing.
Relay ==
  /\ pc = "return"
  /\ lastErr = "nil"
  /\ Answer(Backend(resp.status, IF resp.open THEN "whole" ELSE "missing"))

\* The backend, the client or the context ends while the body is copied:
\* serveWithRetry ignores the error of io.Copy, the reverse proxy panics with
\* http.ErrAbortHandler.
RelayCut ==
  /\ pc = "return"
  /\ lastErr = "nil"
  /\ resp.open
  /\ answer' = Backend(resp.status, "cut")
  /\ pc' = IF Retrying THEN "done" ELSE "panic"
  /\ UNCHANGED <<req, service, ctx, body, attempt, resp, lastErr, delivered>>

\* gin.Recovery writes a 500 unless the response is already under way.
Recovery ==
  /\ pc = "panic"
  /\ Answer(IF answer = NoAnswer THEN Gateway(500) ELSE answer)

Handle ==
  \/ InvalidBackendURL \/ ServeHTTP
  \/ GatewayTimeout \/ ClientGone \/ BadGateway
  \/ Relay \/ RelayCut \/ Recovery

Done == pc = "done" /\ UNCHANGED vars

Next ==
  \/ Handle
  \/ (ExecuteWithRetry \/ Attempt \/ ContextEnds) /\ UNCHANGED answer
  \/ Done

Spec == Init /\ [][Next]_vars

(***************************************************************************)
(* The handler's goroutine runs as long as it can, and the timer started    *)
(* with a positive timeout fires.  Nothing obliges the backend to answer.   *)
(***************************************************************************)
Fairness ==
  /\ WF_vars(Handle)
  /\ WF_vars(ExecuteWithRetry /\ UNCHANGED answer)
  /\ WF_vars(ContextEndsAttempt /\ UNCHANGED answer)
  /\ WF_vars(ContextEnds /\ UNCHANGED answer)

FairSpec == Spec /\ Fairness

-----------------------------------------------------------------------------

(***************************************************************************)
(* A method that is not idempotent is sent again only when the attempt      *)
(* before it brought no response: a POST the backend answered, whatever the *)
(* status, is never repeated (retry.go, shouldRetry before the loop goes    *)
(* round).                                                                  *)
(***************************************************************************)
ResentOnlyUnanswered ==
  /\ \/ pc = "backoff"
     \/ pc \in {"check", "do", "wait"} /\ attempt > 0
  /\ req.method \in {"POST", "PATCH"}
  => lastErr # "nil"

(***************************************************************************)
(* However often ExecuteWithRetry goes round, a request with a body reaches *)
(* the backend whole at most once: each attempt clones the request, not the *)
(* body, and the body is spent after one.                                   *)
(***************************************************************************)
BodyDeliveredOnce == req.framing # "none" => delivered.whole <= 1

(***************************************************************************)
(* A request is delivered with less than its body only when log_body has    *)
(* put an in-memory copy in its place and the body was chunked.             *)
(***************************************************************************)
ShortOnlyFromLoggedBody ==
  delivered.short > 0 => req.source # "stream" /\ req.framing = "chunked"

(***************************************************************************)
(* While the request context is live, the retrying path reports a failure   *)
(* (its own 502, or a retriable status to an idempotent request) only after *)
(* all of max_attempts attempts; a redirect loop is not retried.            *)
(***************************************************************************)
GivesUpOnlyAtTheEnd ==
  /\ pc = "done"
  /\ Retrying
  /\ ctx = "live"
  /\ lastErr # "redirects"
  /\ answer # NoAnswer
  /\ \/ answer.by = "gateway" /\ answer.status = 502
     \/ answer.by = "backend" /\ shouldRetry(req.method, answer.status)
  => attempt + 1 = service.max

(***************************************************************************)
(* A relayed response lacks its body only when it is the last one of an     *)
(* idempotent request whose attempts all failed: every response returned    *)
(* from inside the loop is still open when serveWithRetry copies it.        *)
(***************************************************************************)
BodyMissingOnlyWhenExhausted ==
  answer # NoAnswer /\ answer.body = "missing"
    => /\ shouldRetry(req.method, answer.status)
       /\ attempt + 1 = service.max

(***************************************************************************)
(* The handler ends without an answer only for a client that went away, and *)
(* says Gateway Timeout only when the request's deadline has passed.        *)
(***************************************************************************)
AnswerMatchesContext ==
  /\ pc = "done" /\ answer = NoAnswer => ctx = "canceled"
  /\ answer = Gateway(504) => ctx = "deadline"

(***************************************************************************)
(* ServeHTTP always comes to an end: whatever the backend does, the timeout *)
(* ends the attempt in progress and the loop stops at its next check.       *)
(***************************************************************************)
Termination == <>(pc = "done")

(***************************************************************************)
(* A response whose status is not to be retried reaches the client: once an *)
(* attempt brings one, no timeout, retry or later failure replaces it, and  *)
(* its body is still there to be copied.                                    *)
(***************************************************************************)
AcceptedResponseIsRelayed ==
  \A s \in BackendStatuses :
    (pc = "judge" /\ lastErr = "nil" /\ resp.status = s /\ ~shouldRetryStatusCode(s))
      ~> (pc = "done" /\ answer # NoAnswer /\ answer.by = "backend"
            /\ answer.status = s /\ answer.body # "missing")

(***************************************************************************)
(* ServeHTTP keeps the promise of module Exchange.                          *)
(***************************************************************************)
Promise == INSTANCE Exchange WITH
  budget  <- AtLeastOne(service.max),
  handed  <- delivered.whole + delivered.short,
  settled <- pc = "done" \/ answer # NoAnswer,
  verdict <- IF answer = NoAnswer THEN "none" ELSE answer.by

KeepsPromise == Promise!ExchangeSpec

-----------------------------------------------------------------------------
(* What the repository says of the program, and the program does not do.    *)

(***************************************************************************)
(* "Only retry idempotent methods by default" (retry.go) and "POST should   *)
(* not be retried" (proxy_retry_test.go): a request whose method is not     *)
(* idempotent is handed to the backend at most once.                        *)
(***************************************************************************)
NonIdempotentSentOnce ==
  req.method \in {"POST", "PATCH"} => delivered.whole + delivered.short <= 1

(***************************************************************************)
(* "Restore body for further reading" (proxy_logger.go): after LogRequest   *)
(* has logged the body, the backend still gets all of it.                   *)
(***************************************************************************)
DeliveredWhole == delivered.short = 0

(***************************************************************************)
(* "serveWithRetry proxies the request" and copies resp.Body (proxy.go): a  *)
(* backend's response relayed to the client has its body.                   *)
(***************************************************************************)
RelayedWithBody == answer # NoAnswer => answer.body # "missing"

=============================================================================
