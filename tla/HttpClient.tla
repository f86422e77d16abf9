----------------------------- MODULE HttpClient -----------------------------
(***************************************************************************)
(* One attempt of an outbound HTTP request, as the gateway's code meets it: *)
(* client.Do in internal/retry/retry.go and the RoundTrip below             *)
(* httputil.ReverseProxy in internal/gateway/proxy.go.  Both use the one    *)
(* pooled http.Transport.  The library itself is not under src/; what is    *)
(* modelled is what its callers can see of it:                              *)
(*                                                                          *)
(*  - an attempt hands the request to the backend at most once, and the     *)
(*    backend may have received it even when the attempt ends in an error;  *)
(*  - an attempt ends with a response, with a network error, or with the    *)
(*    error of a finished context;                                          *)
(*  - the transport always closes the request body, so a body read from     *)
(*    the client connection serves one attempt only.                        *)
(*                                                                          *)
(* A redirect that http.Client follows, and a bodiless request the          *)
(* transport replays on a fresh connection because the kept-alive one had   *)
(* just closed, are inside one attempt and are not counted apart.           *)
(***************************************************************************)
EXTENDS Naturals

CONSTANTS
  Methods,          \* request methods
  BackendStatuses,  \* status codes a backend may answer with
  Services,         \* service settings, see ServiceSettings
  NoResponse        \* a nil *http.Response

(***************************************************************************)
(* What the proxy reads of a service: the effective retry.max_attempts,     *)
(* whether every backoff of the policy leaves rand.Int63n a positive        *)
(* argument (module Backoff says which policies do), and whether url.Parse  *)
(* accepts the service URL.                                                 *)
(***************************************************************************)
ServiceSettings == [max: Nat, jitterable: BOOLEAN, urlParses: BOOLEAN]

ASSUME ConstantsAssumption ==
  /\ BackendStatuses \subseteq 200..599
  /\ Services \subseteq ServiceSettings
  /\ NoResponse \notin [status: 200..599, open: BOOLEAN]

(***************************************************************************)
(* framing: no body, a Content-Length, or chunked.  source: where the body  *)
(* is read from: the client connection ("stream"), or the in-memory copy    *)
(* LogRequest leaves in r.Body when log_body is on, holding the whole body  *)
(* ("copy") or only its first max_body_size bytes ("prefix").               *)
(***************************************************************************)
Requests == [method: Methods, framing: {"none", "sized", "chunked"},
             source: {"stream", "copy", "prefix"}]

VARIABLES
  req,        \* the request, fixed for the behaviour
  service,    \* the settings of the matched service, fixed
  ctx,        \* the request context: "live", or why it ended
  body,       \* what can still be read of the outgoing body
  pc,         \* where the handler is
  attempt,    \* attempts already finished
  resp,       \* the response of the latest attempt
  lastErr,    \* the error of the latest attempt
  delivered   \* history: requests handed to the backend, whole or short

clientVars == <<req, service, ctx, body, pc, attempt, resp, lastErr, delivered>>

Responses == [status: 200..599, open: BOOLEAN]

\* "wrapped" is a *url.Error around a context error; "deadline" and
\* "canceled" are context.DeadlineExceeded and context.Canceled themselves.
Errors == {"nil", "network", "redirects", "wrapped", "deadline", "canceled"}

\* MaxAttempts > 1 selects the retrying client over the reverse proxy.
Retrying == service.max > 1

Finish(r, e) ==
  /\ resp' = r
  /\ lastErr' = e
  /\ pc' = IF Retrying THEN "judge" ELSE "return"
  /\ UNCHANGED <<req, service, ctx, attempt>>

Whole ==
  \/ req.framing = "none"
  \/ body = "intact" /\ req.source # "prefix"

\* Mutant: a body that is gone is sent as an empty one.
WritableGone == Whole \/ req.framing = "chunked"

\* A body shorter than its Content-Length, or already closed, is an error
\* before the request leaves the write buffer; a chunked one is sent as it is.
Writable == Whole \/ (req.framing = "chunked" /\ body # "closed")

BodyAfterSend ==
  CASE req.framing = "none"    -> body
    [] req.framing # "none" /\ req.source = "stream" -> "closed"
    [] req.framing # "none" /\ req.source # "stream" -> "drained"

\* The request is on the wire in full.  A backend that answers before it has
\* read the whole body counts as having received it.
Deliver ==
  /\ pc = "do"
  /\ Writable
  /\ pc' = "wait"
  /\ body' = BodyAfterSend
  /\ delivered' = IF Whole THEN [delivered EXCEPT !.whole = @ + 1]
                           ELSE [delivered EXCEPT !.short = @ + 1]
  /\ UNCHANGED <<req, service, ctx, attempt, resp, lastErr>>

\* An attempt that ends early closes a body on the client connection all the
\* same; a copy may be untouched.
BodiesAfterFailure ==
  IF req.framing # "none" /\ req.source = "stream"
  THEN {"closed"} ELSE {body, BodyAfterSend}

\* No connection, or it broke before the request was through.
SendFails ==
  /\ pc = "do"
  /\ body' \in BodiesAfterFailure
  /\ Finish(NoResponse, "network")
  /\ UNCHANGED delivered

Respond ==
  /\ pc = "wait"
  /\ \E s \in BackendStatuses : Finish([status |-> s, open |-> TRUE], "nil")
  /\ UNCHANGED <<body, delivered>>

\* The connection breaks, or ResponseHeaderTimeout passes, after delivery.
AnswerLost ==
  /\ pc = "wait"
  /\ Finish(NoResponse, "network")
  /\ UNCHANGED <<body, delivered>>

\* http.Client gives up after ten redirects: an error and the last response,
\* its body closed.  The reverse proxy follows no redirect.
TooManyRedirects ==
  /\ pc = "wait"
  /\ Retrying
  /\ Finish([status |-> 302, open |-> FALSE], "redirects")
  /\ UNCHANGED <<body, delivered>>

\* The context ends the attempt.  http.Client wraps the context's error, the
\* transport alone returns it as it is.
ContextEndsAttempt ==
  /\ pc \in {"do", "wait"}
  /\ ctx # "live"
  /\ body' \in BodiesAfterFailure
  /\ Finish(NoResponse, IF Retrying THEN "wrapped" ELSE ctx)
  /\ UNCHANGED delivered

Attempt ==
  \/ Deliver \/ SendFails \/ Respond
  \/ AnswerLost \/ TooManyRedirects \/ ContextEndsAttempt

\* Mutant: the attempt is not bound to the context with the timeout.
ContextEndsBetween ==
  /\ ctx = "live"
  /\ pc \notin {"do", "wait", "done"}
  /\ ctx' \in IF pc = "serve" THEN {"canceled"} ELSE {"deadline", "canceled"}
  /\ UNCHANGED <<req, service, body, pc, attempt, resp, lastErr, delivered>>

\* The timeout of ServeHTTP fires, or the client goes away; the first cause
\* stays.  The timer does not run yet in "serve".
ContextEnds ==
  /\ ctx = "live"
  /\ pc # "done"
  /\ ctx' \in IF pc = "serve" THEN {"canceled"} ELSE {"deadline", "canceled"}
  /\ UNCHANGED <<req, service, body, pc, attempt, resp, lastErr, delivered>>

=============================================================================
