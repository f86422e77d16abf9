------------------------------- MODULE Headers -------------------------------
(***************************************************************************)
(* The headers of one request, from the client to the auth service, the     *)
(* backend and back: RequestID and CORS, ForwardAuth, HeaderManipulator     *)
(* (internal/middleware, middlewares), and the three ways of proxying       *)
(* (internal/gateway/proxy.go).                                             *)
(*                                                                          *)
(* A header map gives every name the sequence of its values, <<>> if it is  *)
(* absent.  X-Forwarded-For is the sequence of its addresses, however they  *)
(* are spread over lines, as its readers split and join them.  Connection   *)
(* is the sequence of the names of headers it lists; its other tokens, the  *)
(* other hop-by-hop headers and the other X-Forwarded-* headers, which are  *)
(* set where absent, are left out: no property is about them.               *)
(***************************************************************************)
EXTENDS Naturals, Sequences, SequencesExt

CONSTANTS
  Cases,            \* configurations and requests: [settings, client]; among
                    \* the settings, way (of proxying) is the one the route's
                    \* policy or an upgrade calls for
  AuthReplies,      \* header maps of the auth service ...
  BackendReplies,   \* ... and of the backend
  Values,           \* the values of headers
  Nil               \* no header map, or no value

ID == "X-Request-ID"
XFF == "X-Forwarded-For"
RealIP == "X-Real-IP"
User == "X-Auth-User"
Connection == "Connection"
AllowOrigin == "Access-Control-Allow-Origin"
AllowCredentials == "Access-Control-Allow-Credentials"
AllowMethods == "Access-Control-Allow-Methods"
AllowHeaders == "Access-Control-Allow-Headers"
ExposeHeaders == "Access-Control-Expose-Headers"

corsResponseHeaders ==
  {AllowOrigin, AllowCredentials, AllowMethods, AllowHeaders, ExposeHeaders}

Names == {ID, XFF, RealIP, User, Connection, "Origin", "Vary"} \cup corsResponseHeaders

HeaderMaps == [Names -> Seq(Values)]

NoHeaders == [n \in Names |-> <<>>]

\* Values the gateway makes up.
ASSUME ValuesAssumption ==
  /\ {"generated", "peer", "*", "Origin", "true", "methods", "headers", "exposed"} \subseteq Values
  /\ Nil \notin Values

ASSUME RepliesAssumption == AuthReplies \cup BackendReplies \subseteq HeaderMaps

ASSUME CasesAssumption ==
  \A c \in Cases :
    /\ c.client.headers \in HeaderMaps
    /\ c.settings.way \in {"direct", "retry", "ws"}
    /\ c.settings.origins \subseteq Values
    /\ c.settings.responseHeaders \subseteq Names
    /\ \A n \in DOMAIN c.settings.add : c.settings.add[n] \in Values
    /\ \A n \in DOMAIN c.settings.routeAdd : c.settings.routeAdd[n] \in Values

VARIABLES
  settings,     \* the configuration in effect for the route, fixed
  client,       \* the request as it came in: [method, headers], fixed
  pc,           \* the step that comes next
  request,      \* c.Request.Header
  response,     \* the headers of gin's writer
  id,           \* "request_id" in gin's context
  clientIP,     \* what GetClientIP returned
  interim,      \* history: the backend has sent an interim (1xx) response
  identity,     \* history: the reply by which the auth service let it through
  authSaw,      \* history: what the auth service was sent ...
  backendSaw,   \* ... what the backend was sent ...
  clientSaw,    \* ... and the headers of the answer the client got ...
  answeredBy    \* ... and whose answer that was

fixed == <<settings, client>>
seen == <<authSaw, backendSaw, clientSaw, answeredBy>>
vars == <<fixed, pc, request, response, id, clientIP, interim, identity, seen>>

Init ==
  /\ \E c \in Cases : settings = c.settings /\ client = c.client
  /\ pc = "requestID"
  /\ request = client.headers
  /\ response = NoHeaders
  /\ id = Nil /\ clientIP = Nil /\ interim = FALSE /\ identity = NoHeaders
  /\ authSaw = Nil /\ backendSaw = Nil /\ clientSaw = Nil /\ answeredBy = Nil

\* Header.Get, Set, and Add of all of another map's values.
First(h, n) == IF h[n] = <<>> THEN Nil ELSE Head(h[n])
With(h, n, v) == [h EXCEPT ![n] = <<v>>]
AddAll(h, more) == [n \in Names |-> h[n] \o more[n]]

\* The client gets an answer: the last step.
Answer(headers, by) ==
  /\ clientSaw' = headers
  /\ answeredBy' = by
  /\ pc' = "done"

-----------------------------------------------------------------------------
(* RequestID and CORS.                                                      *)

\* Mutant: an ID that came in is left alone.
RequestIDKept ==
  /\ pc = "requestID"
  /\ id' = IF First(request, ID) = Nil THEN "generated" ELSE First(request, ID)
  /\ request' = IF First(request, ID) = Nil THEN With(request, ID, id') ELSE request
  /\ response' = With(response, ID, id')
  /\ pc' = "cors"
  /\ UNCHANGED <<fixed, clientIP, interim, identity, seen>>

RequestID ==
  /\ pc = "requestID"
  /\ id' = IF First(request, ID) = Nil THEN "generated" ELSE First(request, ID)
  /\ request' = With(request, ID, id')
  /\ response' = With(response, ID, id')
  /\ pc' = "cors"
  /\ UNCHANGED <<fixed, clientIP, interim, identity, seen>>

\* The headers CORS sets; "*" among the origins allows all.
CORSHeaders(origin) ==
  LET listed == "*" \notin settings.origins /\ origin \in settings.origins
      allow == CASE "*" \in settings.origins -> <<"*">>
                 [] listed -> <<origin>>
                 [] OTHER -> <<>>
  IN [NoHeaders EXCEPT
        ![AllowOrigin]      = allow,
        !["Vary"]           = IF listed THEN <<"Origin">> ELSE <<>>,
        ![AllowCredentials] = IF listed /\ settings.credentials THEN <<"true">> ELSE <<>>,
        ![AllowMethods]     = <<"methods">>,
        ![AllowHeaders]     = <<"headers">>,
        ![ExposeHeaders]    = <<"exposed">>]

CORS ==
  /\ pc = "cors"
  /\ response' = AddAll(response, CORSHeaders(First(request, "Origin")))
  /\ IF client.method = "OPTIONS"
     THEN Answer(response', "gateway")
     ELSE pc' = "match" /\ UNCHANGED <<clientSaw, answeredBy>>
  /\ UNCHANGED <<fixed, request, id, clientIP, interim, identity, authSaw, backendSaw>>

\* A probe, an unknown path, or an auth service without a URL.
AnswerItself ==
  /\ pc = "match"
  /\ Answer(response, "gateway")
  /\ UNCHANGED <<fixed, request, response, id, clientIP, interim, identity, authSaw, backendSaw>>

Matched ==
  /\ pc = "match"
  /\ pc' = IF settings.auth THEN "auth" ELSE "apply"
  /\ UNCHANGED <<fixed, request, response, id, clientIP, interim, identity, seen>>

-----------------------------------------------------------------------------
(* ForwardAuth.                                                             *)

DefaultForwardHeaders == {ID, XFF}

\* buildForwardAuthConfig: a list that is not given is the default one.
ForwardHeaders ==
  IF settings.forwardHeaders = {} THEN DefaultForwardHeaders ELSE settings.forwardHeaders

\* getClientIP of forward_auth.go: first the chain, then X-Real-IP.
AuthClientIP(h) ==
  CASE h[XFF] # <<>> -> Head(h[XFF])
    [] h[XFF] = <<>> /\ h[RealIP] # <<>> -> Head(h[RealIP])
    [] OTHER -> "peer"

forwardHeaders(h) ==
  LET copied == [n \in Names |-> IF n \in ForwardHeaders THEN h[n] ELSE <<>>]
  IN IF settings.trust /\ copied[XFF] = <<>> THEN With(copied, XFF, AuthClientIP(h)) ELSE copied

AskAuth ==
  /\ pc = "auth"
  /\ authSaw' = forwardHeaders(request)
  /\ pc' = "asked"
  /\ UNCHANGED <<fixed, request, response, id, clientIP, interim, identity,
                 backendSaw, clientSaw, answeredBy>>

\* Mutant: Set in place of Add keeps the last of several values.
copyAuthHeadersLast(reply) ==
  [n \in Names |-> IF n \in settings.responseHeaders /\ reply[n] # <<>>
                   THEN <<Last(reply[n])>> ELSE request[n]]

copyAuthHeaders(reply) ==
  [n \in Names |-> IF n \in settings.responseHeaders THEN request[n] \o reply[n] ELSE request[n]]

AuthAccepts ==
  /\ pc = "asked"
  /\ \E reply \in AuthReplies : request' = copyAuthHeaders(reply) /\ identity' = reply
  /\ pc' = "apply"
  /\ UNCHANGED <<fixed, response, id, clientIP, interim, seen>>

\* c.Header replaces, so of several values the client gets the last; they are
\* set even where the reply's body then breaks off.
AuthRefuses ==
  /\ pc = "asked"
  /\ \E reply \in AuthReplies :
       response' = [n \in Names |-> IF reply[n] = <<>> THEN response[n] ELSE <<Last(reply[n])>>]
  /\ Answer(response', "auth")
  /\ UNCHANGED <<fixed, request, id, clientIP, interim, identity, authSaw, backendSaw>>

\* No request to be made of the URL, or no reply.
AuthUnavailable ==
  /\ pc \in {"auth", "asked"}
  /\ Answer(response, "gateway")
  /\ UNCHANGED <<fixed, request, response, id, clientIP, interim, identity, authSaw, backendSaw>>

-----------------------------------------------------------------------------
(* HeaderManipulator.                                                       *)

\* GetClientIP of header_manipulator.go: first X-Real-IP, then the chain.
GetClientIP(h) ==
  CASE h[RealIP] # <<>> -> Head(h[RealIP])
    [] h[RealIP] = <<>> /\ h[XFF] # <<>> -> Head(h[XFF])
    [] OTHER -> "peer"

Removed(h) == [n \in Names |-> IF n \in settings.remove THEN <<>> ELSE h[n]]

\* Mutant: the chain so far is replaced.
addForwardedHeadersAnew(h, ip) == IF settings.xForwarded THEN With(h, XFF, ip) ELSE h

addForwardedHeaders(h, ip) == IF settings.xForwarded THEN [h EXCEPT ![XFF] = Append(@, ip)] ELSE h

\* Where absent ...
WithGlobal(h) ==
  [n \in Names |-> IF n \in DOMAIN settings.add /\ h[n] = <<>> THEN <<settings.add[n]>> ELSE h[n]]

\* ... and whatever there is.
WithRoute(h) ==
  [n \in Names |-> IF n \in DOMAIN settings.routeAdd THEN <<settings.routeAdd[n]>> ELSE h[n]]

Apply ==
  /\ pc = "apply"
  /\ clientIP' = GetClientIP(request)
  /\ request' = WithRoute(WithGlobal(addForwardedHeaders(Removed(request), clientIP')))
  /\ pc' = "proxy"
  /\ UNCHANGED <<fixed, response, id, interim, identity, seen>>

-----------------------------------------------------------------------------
(* Proxying.                                                                *)

\* httputil.ReverseProxy removes the headers that Connection lists, and itself.
Listed(h) == Range(h[Connection])

removeHopByHopHeaders(h) ==
  [n \in Names |-> IF n \in Listed(h) \cup {Connection} THEN <<>> ELSE h[n]]

\* After that it adds the address of the connection's other end; the retrying
\* path and the handshake send the headers as they are.
Outbound ==
  IF settings.way = "direct"
  THEN [removeHopByHopHeaders(request) EXCEPT ![XFF] = Append(@, "peer")]
  ELSE request

Forward ==
  /\ pc = "proxy"
  /\ backendSaw' = Outbound
  /\ pc' = "sent"
  /\ UNCHANGED <<fixed, request, response, id, clientIP, interim, identity,
                 authSaw, clientSaw, answeredBy>>

\* Vary, split at its commas.
OtherThanOrigin(vary) ==
  LET remaining[n \in 0..Len(vary)] ==
        IF n = 0 THEN <<>>
        ELSE IF vary[n] = "Origin" THEN remaining[n - 1]
        ELSE Append(remaining[n - 1], vary[n])
  IN remaining[Len(vary)]

\* Mutant: Vary is left alone.
ModifyResponseButVary(reply) ==
  [n \in Names |-> IF n \in corsResponseHeaders THEN <<>> ELSE reply[n]]

\* ModifyResponse of the direct path.
ModifyResponse(reply) ==
  [n \in Names |-> CASE n \in corsResponseHeaders -> <<>>
                     [] n = "Vary" -> OtherThanOrigin(reply[n])
                     [] OTHER -> reply[n]]

\* An interim response clears the header map of gin's writer: the ReverseProxy
\* takes it to be sent and starts anew, but gin's writer only records its status.
\* On the other two ways nothing looks at one.
Interim ==
  /\ pc = "sent"
  /\ settings.way = "direct"
  /\ response' = NoHeaders
  /\ interim' = TRUE
  /\ UNCHANGED <<fixed, pc, request, id, clientIP, identity, seen>>

\* A switch to another protocol is answered with the headers as they came; an
\* upgrade to WebSocket is answered past gin's writer.
Relayed(reply, switched) ==
  CASE settings.way = "direct" ->
         AddAll(response, ModifyResponse(IF switched THEN reply ELSE removeHopByHopHeaders(reply)))
    [] settings.way = "retry"  -> AddAll(response, reply)
    [] settings.way = "ws"     -> reply

Relay ==
  /\ pc = "sent"
  /\ \E reply \in BackendReplies, switched \in BOOLEAN :
       Answer(Relayed(reply, switched), "backend")
  /\ UNCHANGED <<fixed, request, response, id, clientIP, interim, identity, authSaw, backendSaw>>

\* http.Error, before or after the backend has seen anything.
ProxyError ==
  /\ pc \in {"proxy", "sent"}
  /\ Answer(response, "gateway")
  /\ UNCHANGED <<fixed, request, response, id, clientIP, interim, identity, authSaw, backendSaw>>

Done == pc = "done" /\ UNCHANGED vars

Next ==
  \/ RequestID \/ CORS \/ AnswerItself \/ Matched
  \/ AskAuth \/ AuthAccepts \/ AuthRefuses \/ AuthUnavailable
  \/ Apply
  \/ Forward \/ Interim \/ Relay \/ ProxyError
  \/ Done

Spec == Init /\ [][Next]_vars

-----------------------------------------------------------------------------

\* Headers a setting removes or sets itself.
Overruled == settings.remove \cup DOMAIN settings.routeAdd

\* What CORS sets for the client.
CORSSet == CORSHeaders(First(client.headers, "Origin"))

\* Headers the direct path does not send, as Connection lists them.
Withheld == IF settings.way = "direct" THEN Listed(request) \cup {Connection} ELSE {}

(***************************************************************************)
(* "sets it as X-Request-ID header. This flows to all downstream services"  *)
(* (app.go): auth service, backend and client are told one ID, the client's *)
(* own if it sent one.  Excepted are settings that keep it from the auth    *)
(* service or overrule it, a Connection header that lists it, upon which    *)
(* the direct path sends the backend none, an interim response, after which *)
(* the gateway tells the client none, and answers others give: a refusal    *)
(* with an ID of its own, and the handshake of an upgrade.                  *)
(***************************************************************************)
OneRequestID ==
  /\ id # Nil => id = First(client.headers, ID) \/ client.headers[ID] = <<>>
  /\ authSaw # Nil /\ ID \in ForwardHeaders => authSaw[ID] = <<id>>
  /\ backendSaw # Nil /\ ID \notin Overruled =>
       First(backendSaw, ID) = IF ID \in Withheld THEN Nil ELSE id
  /\ clientSaw # Nil /\ (answeredBy = "backend" => settings.way # "ws") =>
       First(clientSaw, ID) = id \/ answeredBy = "auth" \/ interim

(***************************************************************************)
(* "the gateway's own CORS middleware remains the single source of truth    *)
(* for the client" (serveDirect): whatever the backend answers, each CORS   *)
(* header is there once and as CORS sets it for the client's origin, and    *)
(* Vary names Origin once.  A refusal of the auth service replaces the      *)
(* values, but does not add any; after an interim response of the backend   *)
(* the client gets none of these headers, the backend's own neither.        *)
(***************************************************************************)
CORSHeadersOnce ==
  clientSaw # Nil /\ (answeredBy = "backend" => settings.way = "direct") =>
    /\ \A n \in corsResponseHeaders :
         /\ Len(clientSaw[n]) <= 1
         /\ answeredBy # "auth" =>
              clientSaw[n] = IF interim THEN <<>> ELSE CORSSet[n]
    /\ \A i, j \in DOMAIN clientSaw["Vary"] :
         clientSaw["Vary"][i] = "Origin" /\ clientSaw["Vary"][j] = "Origin" => i = j

(***************************************************************************)
(* "These will be forwarded to the backend service" (copyAuthHeaders): what *)
(* the auth service says of the user reaches the backend, all of it and     *)
(* after anything else under that name, through removal, global and route   *)
(* headers and whichever way the request is sent, unless a setting          *)
(* overrules it or Connection lists it on the direct path.  X-Forwarded-For *)
(* is excepted: there the address of the client goes behind what the auth   *)
(* service says.                                                            *)
(***************************************************************************)
IdentityReachesBackend ==
  backendSaw # Nil =>
    \A n \in settings.responseHeaders \ (Overruled \cup Withheld \cup {XFF}) :
      IsSuffix(identity[n], backendSaw[n])

(***************************************************************************)
(* The chain of addresses the client sent reaches the backend, with what    *)
(* addForwardedHeaders and the ReverseProxy add behind it, unless a setting *)
(* overrules it or Connection lists it on the direct path; and auth service *)
(* and backend are told the same address, unless the client names two,      *)
(* which the two functions that look for it take in a different order, or   *)
(* the auth service names one of its own.                                   *)
(***************************************************************************)
ClientAddressKept ==
  /\ backendSaw # Nil /\ XFF \notin Overruled \cup Withheld =>
       IsPrefix(client.headers[XFF], backendSaw[XFF])
  /\ authSaw # Nil /\ clientIP # Nil =>
       \/ First(authSaw, XFF) \in {clientIP, Nil}
       \/ client.headers[XFF] # <<>> /\ client.headers[RealIP] # <<>>
       \/ \E n \in settings.responseHeaders \cap {XFF, RealIP} : identity[n] # <<>>

-----------------------------------------------------------------------------
(* What the repository says of the program, and the program does not do.    *)

(***************************************************************************)
(* CORS headers are "stripped from backend responses so they don't          *)
(* duplicate the ones set by the gateway's CORS middleware"                 *)
(* (corsResponseHeaders).                                                   *)
(***************************************************************************)
CORSNeverDuplicated ==
  clientSaw # Nil /\ settings.way # "ws" =>
    \A n \in corsResponseHeaders : Len(clientSaw[n]) <= 1

=============================================================================
