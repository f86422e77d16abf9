------------------------------ MODULE Gateway -------------------------------
(***************************************************************************)
(* The path of concurrent requests through the gateway: the middlewares     *)
(* app.go installs, Gateway.ProxyHandler (internal/gateway/gateway.go), and *)
(* the request contexts ProxyLogger keeps in a map the requests share       *)
(* (internal/middleware/proxy_logger.go).  Proxying itself is one step here *)
(* with the outcomes ProxyHandler has; finding the auth middleware is       *)
(* AuthCache.                                                               *)
(***************************************************************************)
EXTENDS Naturals

CONSTANTS
  Requests,       \* requests in flight, one goroutine each
  ClientIds,      \* X-Request-ID values clients send ...
  ConfiguredIds,  \* ... and headers.add of the settings or of a route gives
  Shapes,         \* what requests can look like, see RequestShapes
  Statuses,       \* statuses of backends
  AuthRefusals,   \* statuses of the auth service outside 2xx
  Nobody,         \* no request
  NoId,           \* no X-Request-ID, or an empty one
  Unset,          \* not among a route's headers.add
  NoEntry         \* no log entry

(***************************************************************************)
(* target: a probe, no route, or the effective forward auth of the matched  *)
(* route: none, enabled, or enabled without a URL.  sets: the ID in that     *)
(* route's headers.add.                                                     *)
(***************************************************************************)
RequestShapes ==
  [id: ClientIds \cup {NoId}, sets: ConfiguredIds \cup {NoId, Unset},
   preflight: BOOLEAN, upgrade: BOOLEAN,
   target: {"probe", "unrouted", "open", "guarded", "misconfigured"}]

\* Two calls of uuid.New() by one request.
FreshIds == Requests \X {1, 2}

Ids == ClientIds \cup ConfiguredIds \cup FreshIds

\* What net/http accepts in WriteHeader.
StatusCodes == 100..999

ASSUME ShapesAssumption == Shapes \subseteq RequestShapes /\ Nobody \notin Requests

\* No client sends, and no setting has, an ID the gateway is about to generate.
ASSUME IdsAssumption ==
  /\ (ClientIds \cup ConfiguredIds) \cap FreshIds = {}
  /\ NoId \notin Ids /\ Unset \notin Ids \cup {NoId}

ASSUME StatusesAssumption == Statuses \cup AuthRefusals \subseteq StatusCodes

VARIABLES
  logging,   \* LoggingSettings.Enabled, fixed
  removesId, \* headers.remove lists X-Request-ID, fixed
  addsId,    \* what headers.add gives for it, fixed
  shape,     \* what each request looks like, fixed
  pc,        \* where each request is
  id,        \* its X-Request-ID header
  logId,     \* what LogRequest returned
  allowed,   \* history: the auth service let it through
  outcome,   \* history: how proxying ended
  status,    \* the status of gin's response writer
  wrapped,   \* StatusCode of the wrapping responseWriter
  sent,      \* the status on the wire, 0 before there is one
  requests,  \* ProxyLogger.requests: request ID -> request
  entries    \* the entry logged at the end of each request

fixed == <<logging, removesId, addsId, shape>>

vars == <<fixed, pc, id, logId, allowed, outcome, status, wrapped, sent, requests, entries>>

TypeOK ==
  /\ logging \in BOOLEAN
  /\ removesId \in BOOLEAN /\ addsId \in ConfiguredIds \cup {NoId}
  /\ shape \in [Requests -> Shapes]
  /\ pc \in [Requests -> {"requestID", "cors", "probe", "match", "auth", "logFailure",
                          "headers", "logRequest", "proxy", "tunnel", "piped",
                          "logResponse", "recover", "flush", "done"}]
  /\ id \in [Requests -> Ids \cup {NoId}]
  /\ logId \in [Requests -> Ids \cup {NoId}]
  /\ allowed \in [Requests -> BOOLEAN]
  /\ outcome \in [Requests -> {"none", "answered", "interim", "silent", "cut",
                               "panicked", "tunnel", "noTunnel"}]
  /\ status \in [Requests -> StatusCodes]
  /\ wrapped \in [Requests -> StatusCodes]
  /\ sent \in [Requests -> {0} \cup StatusCodes]
  /\ DOMAIN requests \subseteq Ids /\ requests \in [DOMAIN requests -> Requests]
  /\ entries \in [Requests -> {NoEntry} \cup [of: Requests \cup {Nobody}, status: StatusCodes]]

\* gin presets 404 for a path no gin route matches.
Init ==
  /\ logging \in BOOLEAN
  /\ removesId \in BOOLEAN /\ addsId \in ConfiguredIds \cup {NoId}
  /\ shape \in [Requests -> Shapes]
  /\ pc = [r \in Requests |-> "requestID"]
  /\ id = [r \in Requests |-> shape[r].id]
  /\ logId = [r \in Requests |-> NoId]
  /\ allowed = [r \in Requests |-> FALSE]
  /\ outcome = [r \in Requests |-> "none"]
  /\ status = [r \in Requests |-> IF shape[r].target = "probe" THEN 200 ELSE 404]
  /\ wrapped = [r \in Requests |-> 200]
  /\ sent = [r \in Requests |-> 0]
  /\ requests = << >>
  /\ entries = [r \in Requests |-> NoEntry]

Goto(r, label) == pc' = [pc EXCEPT ![r] = label]

\* A status is set on gin's writer; headers go out with the first byte of a body.
Write(r, s, flushed) ==
  /\ status' = [status EXCEPT ![r] = s]
  /\ sent' = IF flushed THEN [sent EXCEPT ![r] = s] ELSE sent

\* Mutant: one ID for all requests that bring none.
FreshIdShared(r, n) == <<CHOOSE q \in Requests : TRUE, n>>

FreshId(r, n) == <<r, n>>

RequestID(r) ==
  /\ pc[r] = "requestID"
  /\ id' = [id EXCEPT ![r] = IF @ = NoId THEN FreshId(r, 1) ELSE @]
  /\ Goto(r, "cors")
  /\ UNCHANGED <<fixed, logId, allowed, outcome, status, wrapped, sent, requests, entries>>

\* Every OPTIONS request ends here, a preflight or not.
CORS(r) ==
  /\ pc[r] = "cors"
  /\ IF shape[r].preflight
     THEN Write(r, 204, TRUE) /\ Goto(r, "flush")
     ELSE /\ UNCHANGED <<status, sent>>
          /\ Goto(r, IF shape[r].target = "probe" THEN "probe" ELSE "match")
  /\ UNCHANGED <<fixed, id, logId, allowed, outcome, wrapped, requests, entries>>

\* Validate leaves no configuration without services: always ready.
Probe(r) ==
  /\ pc[r] = "probe"
  /\ Write(r, 200, TRUE)
  /\ Goto(r, "flush")
  /\ UNCHANGED <<fixed, id, logId, allowed, outcome, wrapped, requests, entries>>

\* Router.Match, IsForwardAuthEnabled and GetAuthServiceURL.
Match(r) ==
  /\ pc[r] = "match"
  /\ \/ shape[r].target = "unrouted" /\ Write(r, 404, TRUE) /\ Goto(r, "flush")
     \/ shape[r].target = "misconfigured" /\ Write(r, 500, TRUE) /\ Goto(r, "flush")
     \/ shape[r].target = "guarded" /\ Goto(r, "auth") /\ UNCHANGED <<status, sent>>
     \/ shape[r].target = "open" /\ Goto(r, "headers") /\ UNCHANGED <<status, sent>>
  /\ UNCHANGED <<fixed, id, logId, allowed, outcome, wrapped, requests, entries>>

AuthAccepts(r) ==
  /\ pc[r] = "auth"
  /\ allowed' = [allowed EXCEPT ![r] = TRUE]
  /\ Goto(r, "headers")
  /\ UNCHANGED <<fixed, id, logId, outcome, status, wrapped, sent, requests, entries>>

\* No answer in time (502), no request or no body to be made of it (500), or a
\* refusal that is passed on, with a body or without.
AuthRefuses(r) ==
  /\ pc[r] = "auth"
  /\ \/ \E s \in {500, 502} : Write(r, s, TRUE)
     \/ \E s \in AuthRefusals, body \in BOOLEAN : Write(r, s, body)
  /\ Goto(r, "logFailure")
  /\ UNCHANGED <<fixed, id, logId, allowed, outcome, wrapped, requests, entries>>

Log(r, of, s) ==
  entries' = IF logging THEN [entries EXCEPT ![r] = [of |-> of, status |-> s]] ELSE entries

\* Mutants: the handler goes on after the refusal; the wrapper's status is logged.
LogFailureGoesOn(r) ==
  /\ pc[r] = "logFailure"
  /\ Log(r, r, status[r])
  /\ Goto(r, "headers")
  /\ UNCHANGED <<fixed, id, logId, allowed, outcome, status, wrapped, sent, requests>>

LogFailureDefault(r) ==
  /\ pc[r] = "logFailure"
  /\ Log(r, r, wrapped[r])
  /\ Goto(r, "flush")
  /\ UNCHANGED <<fixed, id, logId, allowed, outcome, status, wrapped, sent, requests>>

LogFailure(r) ==
  /\ pc[r] = "logFailure"
  /\ Log(r, r, status[r])
  /\ Goto(r, "flush")
  /\ UNCHANGED <<fixed, id, logId, allowed, outcome, status, wrapped, sent, requests>>

\* HeaderManipulator.Apply, of which only the request ID matters here: removed,
\* added where it is absent, and set for the route.  What the auth service says
\* comes after it in the header, where nobody looks for the ID.
Apply(r) ==
  /\ pc[r] = "headers"
  /\ LET kept  == IF removesId THEN NoId ELSE id[r]
         added == IF kept = NoId THEN addsId ELSE kept
     IN id' = [id EXCEPT ![r] = IF shape[r].sets = Unset THEN added ELSE shape[r].sets]
  /\ Goto(r, "logRequest")
  /\ UNCHANGED <<fixed, logId, allowed, outcome, status, wrapped, sent, requests, entries>>

\* Mutant: no fallback for a missing ID.
LogIdOf(r) == id[r]

\* LogRequest's request ID.
LogId(r) == IF id[r] = NoId THEN FreshId(r, 2) ELSE id[r]

\* Store replaces whatever is under the ID.
Storing(i, r) ==
  [j \in DOMAIN requests \cup {i} |-> IF j = i THEN r ELSE requests[j]]

LogRequest(r) ==
  /\ pc[r] = "logRequest"
  /\ IF logging
     THEN /\ logId' = [logId EXCEPT ![r] = LogId(r)]
          /\ requests' = Storing(LogId(r), r)
     ELSE UNCHANGED <<logId, requests>>
  /\ Goto(r, IF shape[r].upgrade THEN "tunnel" ELSE "proxy")
  /\ UNCHANGED <<fixed, id, allowed, outcome, status, wrapped, sent, entries>>

\* ServeWebSocket without a tunnel, and the return that follows: nothing is logged.
TunnelFails(r) ==
  /\ pc[r] = "tunnel"
  /\ \E s \in {500, 502} : Write(r, s, TRUE)
  /\ outcome' = [outcome EXCEPT ![r] = "noTunnel"]
  /\ Goto(r, "flush")
  /\ UNCHANGED <<fixed, id, logId, allowed, wrapped, requests, entries>>

\* From here on gin's writer takes the response for written.
Hijack(r) ==
  /\ pc[r] = "tunnel"
  /\ outcome' = [outcome EXCEPT ![r] = "tunnel"]
  /\ Goto(r, "piped")
  /\ UNCHANGED <<fixed, id, logId, allowed, status, wrapped, sent, requests, entries>>

\* The status on the wire is the backend's, if it ever sends one.
BackendAnswers(r) ==
  /\ pc[r] = "piped"
  /\ sent[r] = 0
  /\ \E s \in Statuses \cup {101} : sent' = [sent EXCEPT ![r] = s]
  /\ UNCHANGED <<fixed, pc, id, logId, allowed, outcome, status, wrapped, requests, entries>>

\* Both pumps have ended, and ServeWebSocket returns.
TunnelEnds(r) ==
  /\ pc[r] = "piped"
  /\ Goto(r, "flush")
  /\ UNCHANGED <<fixed, id, logId, allowed, outcome, status, wrapped, sent, requests, entries>>

\* ServeHTTP writes a status.  The wrapper keeps the first it sees, which is an
\* informational one if the reverse proxy has forwarded one.
ProxyAnswers(r) ==
  /\ pc[r] = "proxy"
  /\ \E s \in Statuses, interim \in BOOLEAN, body \in BOOLEAN :
       /\ Write(r, s, body)
       /\ wrapped' = [wrapped EXCEPT ![r] = IF interim THEN 103 ELSE s]
       /\ outcome' = [outcome EXCEPT ![r] = IF interim THEN "interim" ELSE "answered"]
  /\ Goto(r, "logResponse")
  /\ UNCHANGED <<fixed, id, logId, allowed, requests, entries>>

\* ServeHTTP returns without a word to a client that went away.
ProxySilent(r) ==
  /\ pc[r] = "proxy"
  /\ outcome' = [outcome EXCEPT ![r] = "silent"]
  /\ Goto(r, "logResponse")
  /\ UNCHANGED <<fixed, id, logId, allowed, status, wrapped, sent, requests, entries>>

\* ServeHTTP panics: the response was cut off, or the backoff had no room for
\* a jitter.
ProxyPanics(r) ==
  /\ pc[r] = "proxy"
  /\ \/ /\ \E s \in Statuses :
             Write(r, s, TRUE) /\ wrapped' = [wrapped EXCEPT ![r] = s]
        /\ outcome' = [outcome EXCEPT ![r] = "cut"]
     \/ /\ outcome' = [outcome EXCEPT ![r] = "panicked"]
        /\ UNCHANGED <<status, wrapped, sent>>
  /\ Goto(r, "recover")
  /\ UNCHANGED <<fixed, id, logId, allowed, requests, entries>>

\* LoadAndDelete: whose context is under the ID, if there is one.
Stored(i) == IF i \in DOMAIN requests THEN requests[i] ELSE Nobody

Without(i) == [j \in DOMAIN requests \ {i} |-> requests[j]]

\* Mutant: Load instead of LoadAndDelete.
LogResponseKeeps(r) ==
  /\ pc[r] = "logResponse"
  /\ Log(r, Stored(logId[r]), wrapped[r])
  /\ Goto(r, "flush")
  /\ UNCHANGED <<fixed, id, logId, allowed, outcome, status, wrapped, sent, requests>>

LogResponse(r) ==
  /\ pc[r] = "logResponse"
  /\ Log(r, Stored(logId[r]), wrapped[r])
  /\ requests' = IF logging THEN Without(logId[r]) ELSE requests
  /\ Goto(r, "flush")
  /\ UNCHANGED <<fixed, id, logId, allowed, outcome, status, wrapped, sent>>

\* Mutant: the test for a response that has begun is missing.
RecoveryAnew(r) ==
  /\ pc[r] = "recover"
  /\ Write(r, 500, TRUE)
  /\ Goto(r, "flush")
  /\ UNCHANGED <<fixed, id, logId, allowed, outcome, wrapped, requests, entries>>

\* gin.Recovery: LogResponse has been skipped.
Recovery(r) ==
  /\ pc[r] = "recover"
  /\ status' = IF sent[r] = 0 THEN [status EXCEPT ![r] = 500] ELSE status
  /\ Goto(r, "flush")
  /\ UNCHANGED <<fixed, id, logId, allowed, outcome, wrapped, sent, requests, entries>>

\* Mutant: what is still unsent is not sent.
FlushNothing(r) ==
  /\ pc[r] = "flush"
  /\ Goto(r, "done")
  /\ UNCHANGED <<fixed, id, logId, allowed, outcome, status, wrapped, sent, requests, entries>>

\* gin sends the status when no handler did, for a 404 with a body of its own;
\* not on a connection that was hijacked.
Flush(r) ==
  /\ pc[r] = "flush"
  /\ sent' = IF sent[r] = 0 /\ outcome[r] # "tunnel"
             THEN [sent EXCEPT ![r] = status[r]] ELSE sent
  /\ Goto(r, "done")
  /\ UNCHANGED <<fixed, id, logId, allowed, outcome, status, wrapped, requests, entries>>

\* A goroutine on its own, with the auth service or with ServeHTTP.
Handle(r) ==
  \/ RequestID(r) \/ CORS(r) \/ Probe(r) \/ Match(r)
  \/ AuthAccepts(r) \/ AuthRefuses(r) \/ LogFailure(r)
  \/ Apply(r) \/ LogRequest(r)
  \/ ProxyAnswers(r) \/ ProxySilent(r) \/ ProxyPanics(r)
  \/ LogResponse(r) \/ Recovery(r) \/ Flush(r)

Tunnel(r) == TunnelFails(r) \/ Hijack(r) \/ BackendAnswers(r) \/ TunnelEnds(r)

Done == (\A r \in Requests : pc[r] = "done") /\ UNCHANGED vars

Next == (\E r \in Requests : Handle(r) \/ Tunnel(r)) \/ Done

Spec == Init /\ [][Next]_vars

\* A goroutine runs on: the auth client has a timeout, and ServeHTTP terminates
\* (ProxyHandler).  ServeWebSocket need not: tls.Dial has no timeout, and the
\* tunnel lasts as long as its ends like.
FairSpec == Spec /\ \A r \in Requests : WF_vars(Handle(r))

-----------------------------------------------------------------------------

InBackendsHands(r) == pc[r] \in {"proxy", "tunnel", "piped", "logResponse", "recover"}

(***************************************************************************)
(* Nothing gets to a backend, tunnels included, but a routed request that   *)
(* is not OPTIONS and, where the route is guarded, that the auth service    *)
(* has accepted: every refusal ends in ProxyHandler's early return.         *)
(***************************************************************************)
OnlyAdmittedReachBackend ==
  \A r \in Requests :
    InBackendsHands(r) \/ outcome[r] # "none"
      => /\ ~shape[r].preflight
         /\ \/ shape[r].target = "open"
            \/ shape[r].target = "guarded" /\ allowed[r]

\* The ID the client or a setting gives a request that is proxied, if one does.
Given(r) ==
  IF shape[r].sets # Unset THEN shape[r].sets
  ELSE IF removesId THEN addsId
  ELSE shape[r].id

\* It is no other request's: two clients may send the same, and headers.add gives
\* the same to all.
OwnId(r) == Given(r) = NoId \/ \A q \in Requests \ {r} : Given(q) # Given(r)

(***************************************************************************)
(* An entry names the method and path of the request it is about, however   *)
(* the requests interleave, if neither clients nor the header settings give *)
(* two of them the same ID: LogRequest of another request never replaces    *)
(* the stored context.  An ID that is removed is generated anew, and is     *)
(* again the request's own.                                                 *)
(***************************************************************************)
EntryNamesItsRequest ==
  \A r \in Requests : entries[r] # NoEntry /\ OwnId(r) => entries[r].of = r

(***************************************************************************)
(* A stored context outlives its request only after a WebSocket upgrade or  *)
(* a panic; in all other cases LogResponse has taken it out of the map, or  *)
(* a request with the same ID did.                                          *)
(***************************************************************************)
LeftOverOnlyUnlogged ==
  \A i \in DOMAIN requests :
    pc[requests[i]] = "done"
      => outcome[requests[i]] \in {"tunnel", "noTunnel", "cut", "panicked"}

(***************************************************************************)
(* The logged status is the one the client was sent, also where gin sends   *)
(* it after it was logged (a refusal or an answer without a body), except   *)
(* after an informational response and for a client that went away.         *)
(***************************************************************************)
LoggedStatusIsSent ==
  \A r \in Requests :
    /\ pc[r] = "done"
    /\ entries[r] # NoEntry
    /\ outcome[r] \notin {"interim", "silent"}
    => entries[r].status = sent[r]

\* A hijacked connection has no status but the backend's.
Answered(r) == pc[r] = "done" /\ (sent[r] # 0 \/ outcome[r] = "tunnel")

(***************************************************************************)
(* Every request comes to its end, with a status on the wire: silence, a    *)
(* panic and a refusal without a body are completed by gin.  Only an        *)
(* upgrade may stay where it dials or pipes, or end without a status.       *)
(***************************************************************************)
EveryRequestAnswered ==
  \A r \in Requests : <>[](Answered(r) \/ pc[r] \in {"tunnel", "piped"})

-----------------------------------------------------------------------------
(* What becomes of a request.                                               *)

Stage(r) ==
  CASE outcome[r] \in {"interim", "silent"} -> "unclear"
    [] outcome[r] \notin {"none", "interim", "silent"} -> "served"
    [] outcome[r] = "none" /\ pc[r] \in {"headers", "logRequest", "proxy", "tunnel"} -> "admitted"
    [] outcome[r] = "none" /\ pc[r] \in {"logFailure", "flush", "done"} -> "local"
    [] OTHER -> "arrived"

Stages == [r \in Requests |-> Stage(r)]

Owners == {r \in Requests : OwnId(r)}

Life == INSTANCE RequestLife WITH
  Statuses <- StatusCodes,
  own      <- Owners,
  stage    <- Stages,
  answer   <- sent,
  entry    <- entries

(***************************************************************************)
(* Concurrent requests lead the lives RequestLife allows: a status on the   *)
(* wire is never followed by another (the return after each refusal, the    *)
(* test for a written header in gin's Recovery and in Flush), what the      *)
(* gateway has answered itself is not proxied any more, and what is logged  *)
(* of a request, once, is what its client was or will be sent.              *)
(***************************************************************************)
LeadsItsLife == Life!LifeSpec

-----------------------------------------------------------------------------
(* What the repository says of the program, and the program does not do.    *)

(***************************************************************************)
(* "Store request context for later retrieval in LogResponse"               *)
(* (proxy_logger.go): the context of a finished request is not kept.        *)
(***************************************************************************)
ContextRetrieved == \A i \in DOMAIN requests : pc[requests[i]] # "done"

=============================================================================
