# Entriq in TLA+

Entriq is an API gateway in Go: it matches a request to a configured backend
service, asks an authentication service about it where the route wants that,
rewrites it, proxies it, retries it if the backend fails, and logs what
happened. This directory holds TLA+ modules that model the gateway's control,
TLC configurations that model-check them on small instances, and proofs checked
by TLAPS that hold for every value of the constants.

`PROJECT.json` relates every definition to the lines it models, every run to
its properties, and every hazard of the code to the properties that watch it.

Paths below are relative to the repository's `internal/` unless they start with
a slash.

## Inventory

| Component | State | Operations | Talks to |
|---|---|---|---|
| Router, `gateway/router.go` | tables of exact and prefix routes, fixed after start | `NewRouter`, `Match` | called by the pipeline |
| Gateway pipeline, `gateway/gateway.go` | none of its own per request | `ProxyHandler`: match, authenticate, rewrite headers, log, proxy, log | everything below |
| Auth middleware cache, `gateway/gateway.go` | a map under a `sync.RWMutex` | `getOrCreateAuthMiddleware` | all request goroutines |
| Forward auth, `middleware/forward_auth.go` | an `http.Client` per configuration | the handler: ask, then continue or abort with the refusal | auth service, gin context |
| Header manipulator, `middleware/header_manipulator.go` | none | `Apply`, `GetClientIP` | the request |
| Proxy logger, `middleware/proxy_logger.go` | a `sync.Map` from request ID to request | `LogRequest`, `LogResponse`, `LogFailure`, the wrapping `responseWriter` | all request goroutines |
| Request ID, `middleware/request_id.go` | none | `RequestID` | request and response headers |
| CORS, `/middlewares/cors.go` | none | `CORS` | ends every OPTIONS request |
| Proxy handler, `gateway/proxy.go` | a context with a timeout per request | `ServeHTTP`, `serveWithRetry`, `serveDirect` | backend, retry loop |
| WebSocket tunnel, `gateway/proxy.go` | two connections, two pumps | `ServeWebSocket`, `copyUntilDone` | backend, client connection |
| Retry loop, `retry/retry.go` | attempt, last response, last error | `ExecuteWithRetry`, `shouldRetry`, `calculateBackoff` | `http.Client` |
| Configuration, `config/` | the configuration, read once | `MergeDefaults`, `Validate`, effective getters | everybody |
| Start and probes, `/app.go`, `/routes.go` | none | `main`, `/probes/*` | gin |

One goroutine serves a request. Goroutines share four things: the auth
middleware cache, the logger's map, the transport's idle connections and the
configuration, which nobody writes once it has been loaded.

What is hard here, and what makes each part correct:

* **Retry loop and proxy handler.** A timeout or a departing client may strike
  at any point of an attempt, between attempts or while the answer is copied;
  a lost answer does not tell whether the backend got the request; the request
  body can be sent once only; the response may be closed before it is copied.
  Correct means: what has been answered is not repeated against the rules, no
  body arrives twice, the handler gives up neither early nor late, ends always,
  and tells the client what happened.
* **Auth middleware cache.** Double-checked locking. Correct means: no access to
  the map races with a write, one instance per configuration, nobody waits for
  ever.
* **Pipeline and logger.** A refusal must stop the request; the two halves of a
  log entry meet in a map keyed by an ID that clients and settings can choose; several ways
  out of the handler skip the second half; the status is logged before gin
  sends it. Correct means: nothing unauthenticated reaches a backend, an entry
  is about its own request, nothing is left in the map, the logged status is
  the one sent.
* **Backoff.** Conversion and multiplication of durations, a random jitter whose
  range must not be empty. Correct means: growing waits within the documented
  range, and no panic.
* **WebSocket tunnel.** Two pumps, half-closed connections, waiting for both.
  Correct means: a stream is not ended before all of it has been passed on, and
  a tunnel does not outlive its peers.
* **Router and configuration.** Defaults are merged before validation, some
  sections get none and some are not validated; routes tie. Correct means: what
  is refused is refused for a reason, what is loaded is usable by the modules
  that rely on it, and every request gets the best of the routes that fit it.
* **Rewriting.** Three copies of one computation on paths, over a URL that keeps
  a path twice, decoded and as it was sent. Correct means: they agree.
* **Headers.** Six steps rewrite the same two header maps in a fixed order, in
  three ways of proxying, one of which removes what the client's `Connection`
  header lists. Correct means: everyone is told the same request ID, the auth
  service's word reaches the backend, the client's address is kept, and CORS
  headers are the gateway's.

## Modules

| Module | Models | Used by |
|---|---|---|
| `HttpClient` | one attempt of an outbound request as its callers see it (external: `net/http`) and the request context | `Retry` |
| `Retry` | `ExecuteWithRetry` | `ProxyHandler` |
| `ProxyHandler` | `ServeHTTP` with both of its paths | |
| `Exchange` | abstract: what proxying one request promises | refined by `ProxyHandler` |
| `RetryPolicy` | the policy and `RetryPolicy.Validate` | `Backoff`, `Config` |
| `Backoff` | `calculateBackoff` | |
| `AuthCache` | `getOrCreateAuthMiddleware` under `sync.RWMutex` | |
| `Registry` | abstract: values built once a key, lazily, and bound for good | refined by `AuthCache` |
| `Gateway` | concurrent requests through `Gateway.ProxyHandler`, the middlewares around it and the logger | |
| `RequestLife` | abstract: what the gateway promises of each of its concurrent requests | refined by `Gateway` |
| `WebSocketTunnel` | `ServeWebSocket`, `copyUntilDone` | |
| `Config` | defaults, validation, what is in effect | `Router` |
| `PathRewrite` | the three rewritings of a path | `Router` |
| `Router` | from the configuration file to the route and the path of a request | |
| `Headers` | the headers of one request from the client to the auth service, the backend and back | |
| `ProxyHandlerProofs`, `AuthCacheProofs`, `BackoffProofs`, `GatewayProofs`, `WebSocketTunnelProofs`, `RouterProofs`, `HeadersProofs` | theorems and proofs, a module for each specification | |
| `Induction` | induction and recursion over the naturals, for the proofs about recursive functions | `BackoffProofs`, `HeadersProofs`, `RouterProofs` |
| `MC*` | constants for TLC | |

### ProxyHandler, Retry, HttpClient

One request with its context and its backend; requests share only idle
connections, so nothing is lost by looking at one. `pc` is the point the
goroutine has reached: `serve` (entry of `ServeHTTP`), `check` (head of the
retry loop), `do` and `wait` (in `client.Do` or `RoundTrip`, before and after
the backend has the request), `judge` (after `client.Do`), `backoff` (the
`select`), `return` (the error mapping and the copy), `panic`, `done`.
`attempt`, `resp`, `lastErr` are the loop's variables, `ctx` the state of the
request context. `resp.open` says whether the response body can still be read.

`body` is what remains of the outgoing body, and `req.source` where it comes
from: the client connection, which the transport closes after one use, or the
copy `LogRequest` leaves behind when `log_body` is on and `include` lists
`request_body` (the default list does not), which holds the whole body or its
first `max_body_size` bytes. `delivered` is history: how often the
backend was handed the request whole or short. `http.Transport` refuses to
finish a request whose body is shorter than its Content-Length or whose body is
closed; a chunked body is sent as far as it goes.

Errors are classed by what the code can tell apart: it compares with
`context.DeadlineExceeded` and `context.Canceled` by `==`, and an error that
`http.Client` has wrapped is equal to neither. That is why a deadline in the
middle of an attempt is a 502 on the retrying path and a 504 on the direct one;
the model has this and no property forbids it, because the code promises
nothing else.

A redirect that `http.Client` follows, and the transport's own replay of a
request on a new connection because the kept-alive one had just closed, happen
inside one attempt and are not counted as further deliveries.

### Backoff

Durations are integers of `Width` bits counting ticks, multipliers are
fractions. The float64 product is exact; what is kept is the conversion of a
product too large for a `time.Duration`, which Go leaves to the platform: the
smallest integer on amd64, the largest on arm64. `Power` stands for `math.Pow`
and is a recursive function, so that its growth can be proved. A policy is any
that passes `RetryPolicy.Validate`, which `RetryPolicy` states once for this
module and for `Config`.

### AuthCache

Every access to the lock and to the map is a step. `sync.RWMutex` is modelled
by what it does: a writer announces itself (`Announce`), waits for the readers
it found (`Drained`), and when it unlocks lets in all readers parked meanwhile
before the next writer. A middleware is known by the caller that built it, and
`built` counts per key. `KeepsRegistry` maps `built`, `key`, `cache` and what a
caller in `use` has got to `Registry`, whose steps are `Call` (asks), `Create`
(builds), `Store` (binds), the step that returns (obtains) and `Finish` (gives back).

### Gateway

Each request has a shape (the ID it brings, whether it is OPTIONS or an upgrade,
what its path matches and which ID the matched route's `headers.add` gives) and
walks through the handlers: request ID, CORS, probes or `ProxyHandler`, and what
gin does after the handlers return (`Flush`). `Apply` may remove the ID, add the
configured one (`addsId`) where there is none, and set the route's, so the
logger's key is the gateway's own, the client's, or one that a setting gives to
every request: `Given` is the ID from outside, `OwnId` says that nobody else has it.

Proxying is one step, whose outcomes are those of `ProxyHandler`'s `answer`
(`ProxyAnswers`, `ProxySilent`, `ProxyPanics`). An upgrade ends in an error
(`TunnelFails`) or in a hijacked connection (`Hijack`, then `piped`), on which the
status is the one the backend sends, if it sends any (`BackendAnswers`), until
`ServeWebSocket` returns (`TunnelEnds`). `status` is the status of gin's
writer, `wrapped` the one the logger's wrapper captured, `sent` what is on the
wire. `requests` is the logger's `sync.Map`; each of its operations is atomic.

`LeadsItsLife` maps all this to `RequestLife`, which knows no middleware, no gin and no
map: a request is `arrived`, then `local` (the gateway answers it itself) or
`admitted`, and once the backend has had its turn `served`, or `unclear` where the
logger and the client may hear different things (an informational response, a
client that has gone). It is sent one status, at any of these steps, and gets one
entry at most, after it or before it. The entry says the status sent, and is about
the request itself, or, where clients or settings give an ID to several, about
another admitted request or about none. `Stage` reads the stage off `pc` and `outcome`.

### WebSocketTunnel

One upgrade. `pc` is the handler's point; after the hijack the work is done by
the two pumps, each known by the peer whose stream it copies. The goroutine
`copyUntilDone` starts and the one that waits for it are one pump: the second
only closes both connections when the context ends (`Abort`). Chunks are
counted where they are: `sent` by a peer, `taken` by the gateway, `passed` to the
other connection, `got` by the other peer; `lost` are those net/http had read
from the client before the hijack, which the handler drops with the
`bufio.ReadWriter`. A peer may close its write side, close, or break off at any
moment; the first write to a peer that has closed succeeds and the next fails;
a write waits while `Window` chunks are on their way to a peer that does not read.
`CloseWrite` works on a `*net.TCPConn`; a backend reached over TLS is a
`*tls.Conn`, which the type assertion passes by (`HalfCloses`).

### Config, PathRewrite, Router

`Config` holds the pure part: `MergeDefaults`, the `Validate` methods and the
getters, over records with the fields they look at. `PathRewrite` has
`applyDirector` behind the ReverseProxy's own director (`DirectPath`), behind
`buildBackendRequest` (`RetryPath`), and the code of `ServeWebSocket`
(`WebSocketPath`). A path is sent as a sequence of characters, each
percent-encoded or not; `net/url` keeps it decoded (`Path`), and as it was sent
(`RawPath`) where encoding `Path` anew would not give that back. `Parsed`,
`EscapedPath` and `joinURLPath` do as the library does with the two, and
`applyDirector` sets `Path` alone, so that a `RawPath` that no longer stands for it is
ignored. `ServeWebSocket` writes the decoded path into the handshake, and the
router matches it too. `Router` runs through all of these: a
file is refused or loaded, `NewRouter` goes through services and routes one by one
(`AddRoute`, with `next` the place its loops have reached) and sorts the prefixes
(`SortPrefixes`), and requests are looked up one after the other, since nothing
is written once the gateway serves. `sort.Slice` is any permutation that is
sorted; of routes with one path and method in the exact table the last wins, as
the map's assignment has it.

### Headers

One request, with the settings in effect for its route and one of three ways of
proxying. `request` and `response` are the two header maps every step works on;
`authSaw`, `backendSaw` and `clientSaw` keep what each party was shown. A header
has a sequence of values, which tells `Add` from `Set` and a duplicated CORS
header from a single one. The auth service and the backend answer anything from
small sets of header maps, an ID and CORS headers of their own among them.
`Connection` holds the names of headers it lists, which `httputil.ReverseProxy`
removes in both directions on the direct path (`removeHopByHopHeaders`), except from
an answer that switches protocols; an interim response clears gin's header map
there (`Interim`), since the library takes those headers to be sent.

## Runs

"Violation" runs check one sentence of the repository that the code does not
keep; `PROJECT.json` quotes it.

| Run | Configuration | Shows |
|---|---|---|
| `proxy_handler` | `ProxyHandler.cfg` | the invariants of `ServeHTTP`, that it implements `Exchange`, that it ends, and that a final response is relayed |
| `proxy_post_resent` | `ProxyPostResent.cfg` | violation: a POST is sent twice after a lost answer |
| `proxy_body_cut` | `ProxyBodyCut.cfg` | violation: logging a chunked body cuts it |
| `proxy_body_missing` | `ProxyBodyMissing.cfg` | violation: the last response of an exhausted retry has no body |
| `auth_cache` | `AuthCache.cfg` | no race on the map, refinement of `Registry` (one middleware per key, for good), every caller is served |
| `backoff` | `Backoff.cfg` | jitter within a quarter, schedule never shrinks, when it panics |
| `gateway` | `Gateway.cfg` | admission, log entries, leftovers, logged status, refinement of `RequestLife`; every request but one in a tunnel ends with a status sent |
| `gateway_leak` | `GatewayLeak.cfg` | violation: an upgrade leaves its context in the map |
| `tunnel` | `WebSocketTunnel.cfg` | streams ended only after all of them; a TCP tunnel ends with either side, any tunnel when both are gone |
| `routing` | `Router.cfg` | which files are refused, what a loaded one guarantees, the best route, which rewritings are equal, encoded paths included |
| `headers` | `Headers.cfg` | one request ID, CORS headers once, identity and client address kept, with the cases in which the direct path drops them |
| `headers_duplicated` | `HeadersDuplicated.cfg` | violation: a retried service's CORS headers are doubled |

Other disagreements between the code and what is said of it are the exceptions
of a property that holds, each named in its comment:

* A wait may exceed `max_interval` by the jitter, which is added after the cap
  (`JitterWithinQuarter`).
* A validated policy can make `rand.Int63n` panic: an initial interval of one
  nanosecond, or an exponential schedule that outgrows `time.Duration`, on amd64
  (`PanicsOnlyTinyOrOutgrown`).
* Concurrent requests with the same `X-Request-ID` mix up their log entries, though
  `/app.go` speaks of "a unique UUID for each request" (`EntryNamesItsRequest`): their
  clients sent the same one, or `headers.add` gives one to all, which it does for a
  route whatever came in, and globally after `headers.remove`.
* The logged status is not the one sent after an informational response or for a
  client that went away (`LoggedStatusIsSent`).
* A tunnel to a TLS backend outlives a client that closes for as long as the
  backend stays and is silent, though `ServeWebSocket` pumps "until either side
  closes" (`EndsWithEitherSide`). Nor does a shutdown of the server end it:
  `Router.Run` has none, and net/http cancels the context of a hijacked request
  only when its handler has returned.
* What a client sends behind its upgrade request, before the 101, may be lost
  (`EndOnlyAfterAll`).
* A service's own retry policy gets no defaults, so the one of
  `/config/entriq.example.yaml`, which leaves out the multiplier, is refused; and an
  `initial_interval` above two seconds, or a `max_interval` below a tenth of a
  second, given alone contradicts the default of the other (`RefusedForCause`).
* Global forward auth settings that are disabled are used unvalidated when a route
  enables forward auth (`AuthConfigured`).
* With `strip_path`, a backend URL that has a path of its own gets another path
  from the retrying than from the direct way, which takes the prefix off that path
  and not off the request's; so does the request path `*`. Without `strip_path` it
  is the same path in another encoding, if the client's was not the one `net/url`
  would choose: joining the paths makes a `RawPath` that does not stand for the
  `Path` set after it (`SameRewriting`).
* A prefix that ends in a slash, or in the middle of a segment, leaves a path
  without a leading slash. On the direct way it may be a segment of the backend's
  own path that is cut: `/users` off `/users2` leaves `2` (`StartsWithSlashMostly`).
* The upgrade's handshake carries the path decoded, so that a client's `%2F` is a
  slash there, and an empty path as it is, where HTTP requests get a slash
  (`SameRewriting`).
* Auth service and backend are told different addresses of the client if the
  client names two, or if the auth service names one of its own, which
  `GetClientIP` then reads (`ClientAddressKept`). An identity the auth service puts in
  `X-Forwarded-For` is followed by the client's address (`IdentityReachesBackend`).
* A header that the client's `Connection` header lists does not reach the backend
  on the direct path, though `/app.go` says that the ID "flows to all downstream
  services" and `copyAuthHeaders` that the identity "will be forwarded": the request
  ID (`OneRequestID`), the auth service's headers (`IdentityReachesBackend`) and the
  chain of addresses (`ClientAddressKept`) may all be listed.
* After an interim response on the direct path the client's final answer has
  neither the request ID, "set in response header so client can track their
  request" (`OneRequestID`), nor CORS headers (`CORSHeadersOnce`).
* A refusal keeps the last of several values of a header, though `ForwardAuth`
  "returns the auth service response directly to client" (`AuthRefuses`).
* The example file says that without `forward_headers` all headers are forwarded;
  `buildForwardAuthConfig` keeps the default list then (`ForwardHeaders`).

### Bounds, and why they are enough

* **Proxy**: `max_attempts` 0 to 3. Zero and one take the direct path, two has a
  first and a last attempt, three one in between; the theorems cover the rest.
  A method that is idempotent and one that is not (the code asks nothing else
  of a method), a status that is success, one that is final and one that is
  retried; one service whose URL does not parse, and one whose backoff panics.
* **Auth cache**: three callers, so that there are a writer, a reader parked
  behind it and a second writer queued; two keys. Callers go round for ever.
* **Backoff**: ten-bit durations with a timeout of 40 ticks keep the proportion
  that matters: a linear schedule cannot overflow before the request times out
  (five minutes against 2^63 ns), an exponential one can, because its waits stop
  growing at `max_interval` while the product goes on. `max_attempts` up to 12
  (80 for linear schedules, enough to overflow if there were no timeout),
  intervals of 0 (refused by `Validate`), 1 and 2 ticks, around the
  cap, and as long as the assumption allows.
* **Gateway**: two requests. The only shared state is one map, and one request
  meets another in it only through an ID they share. (Three requests of the shapes
  that reach the logger keep the same invariants, in five million states; the theorems
  cover any number.) One ID from outside beside the generated ones, which a client may
  send and a setting may give, so that requests collide in each of the two ways and
  across them. A 404
  among the statuses, since gin treats a 404 of its own differently.
* **Tunnel**: two chunks a peer and a window of one, so that a write can block, a
  pump can hold a chunk while the peer goes away, and one write to a closed
  connection succeeds before the next one fails. All three kinds of backend URL.
* **Routing**: some 6900 files in families that vary one part of a plain file:
  retry settings (global and of a service), timeouts at all three levels with a
  negative one and one above the maximum, forward auth at both levels, broken
  files, and three routes out of four paths (a prefix of another, one with a slash
  at its end, the root), two method lists and both match types, with
  `strip_path` and six backend URLs, one of which the prefix cuts in a segment and
  one of which has a `RawPath` of its own. Requests ask for each path, for one that a
  prefix cuts in a segment, for `*`, and for none; for paths with an encoded slash,
  with a character that is encoded as a rule but is not here, and with one that
  `validEncoded` does not let pass, encoded and not; with a method some routes lack.
  Two characters stand for those `escape` encodes, one of either kind
  (`MCEscaped`, `MCUnfit`).
* **Headers**: header maps with up to two values, drawn from `Values`; client IDs, chains, addresses
  and identities present or absent; settings that remove, add or overrule the
  headers the properties are about; a client's `Connection` that lists all of these
  or none, a backend's that lists the ID; any number of interim responses, which is as
  good as one; the CORS settings vary on their own.

Deadlock is checked in every run: the ends of a behaviour are `Done` steps.

### Fairness

* `ProxyHandler`: the handler's goroutine runs on, and the timer of its context,
  started with a positive timeout (`Validate` and the defaults see to that),
  fires. Nothing is assumed of the backend. The client is assumed to go on
  reading its answer: `Router.Run` sets no write timeout, so one that stalls
  holds `io.Copy` and the handler with it.
* `AuthCache`: each goroutine runs on (weak fairness), and gets the mutex among
  writers at last (strong fairness), which `sync.Mutex` gives by handing itself
  to the longest waiter once one has starved for a millisecond.
* `Gateway`: each request's goroutine runs on (`Handle`). That its long steps end
  is `Termination` of `ProxyHandler` and the auth client's timeout. Nothing is assumed
  of an upgrade (`Tunnel`): `tls.Dial` has no timeout, and a tunnel lasts as long as
  its peers like. So `EveryRequestAnswered` leaves a request where it dials or
  pipes, and does not ask for a status of one whose connection was hijacked, which
  only the backend can send.
* `WebSocketTunnel`: the handler and the pumps run on, except that `tls.Dial`, which
  has no timeout, may not return. The peers go on reading and close once they
  have received the end of the stream: the code sets no deadline on either
  connection, so nothing else ends a tunnel, and the two liveness properties
  say what is left to the code, which is to pass the end on and to leave no pump
  behind. Which peer starts to close, and whether any does, is free.

## Proofs

**`ProxyHandlerProofs`** proves for all methods, statuses and services, so for
every `max_attempts`: the type invariant, all six other invariants of
`proxy_handler`, and that `Spec` implements `Exchange`. None of the properties is
inductive: each speaks of one point of the loop and depends on what the earlier
points did. `LoopInv` says it: at each `pc` what is known of `resp` and
`lastErr` (a response under judgement is open, a closed one is retriable or
came with an error), that a body from the client is closed or spent once the
first attempt is over, that the attempts are counted within bounds, and that a
loop that goes on does so for a reason. `Inv == TypeOK /\ LoopInv /\ Properties`
is proved inductive action by action, one theorem then takes out each property,
and the refinement follows from `Inv` with one lemma per kind of step: a
delivery is a `Hand`, an answer a `Settle`, all else stutters.

**`AuthCacheProofs`** proves for any number of goroutines and keys: types, no
overlapping access to the map, one middleware per key, and the refinement of
`Registry`. The inductive invariant adds what the locks guarantee (who is in
`readers`, that a writer past `drain` is alone) and what each caller knows (from
`recheck` to `store` its key is still unbound, and what has been built for a key
is what the cache holds or its writer is about to store). `BuiltOnce` is no property
of a run, since `KeepsRegistry` says it too: `Registry` builds once a key. Nor is
`NoDeadlock`, the safety half of `EveryoneServed`: behind every goroutine the lock
blocks is one that runs. TLC's deadlock check is its counterpart for three callers.
`Blocked` spells out where no step of a goroutine is possible, as ENABLED is out of
reach of the provers.

**`GatewayProofs`** proves all five invariants of `gateway`, and that `Spec`
implements `RequestLife`, for any number of requests, shapes, IDs that clients or
settings choose, and statuses. Admission needs to know at
each `pc` which middleware has let the request through (`AdmissionInv`).
`EntryNamesItsRequest` and `LeftOverOnlyUnlogged` rest on what the shared map says:
a stored context is that of a request still on its way or of one that leaves by
an exit without `LogResponse`, under that request's ID (`ContextInv`), and a
request whose ID nobody else can have is stored from `LogRequest` to
`LogResponse` (`IdInv`). `StatusInv` follows the status through gin's writer and
the logger's wrapper to the wire, and `OutcomeInv` says where a request has been
proxied and where not. The refinement (`Implements`) goes handler by handler: one
that writes a status to a client is a `Keep`, `Serve` or `Reply`, for which the wire
must still be silent; one that logs is a `Record`, for which there must be no entry
yet and, by `ContextInv` and `IdInv`, the context under the ID must be that of an
admitted request, the right one if the ID is not shared; all else decides on admission
or stutters. Assumed: shapes and statuses are well-formed
(`ShapesAssumption`, `StatusesAssumption`: what net/http's `WriteHeader` takes), and
no client sends, and no setting gives, an ID `uuid.New` is yet to make
(`IdsAssumption`).

**`WebSocketTunnelProofs`** proves the types and `EndOnlyAfterAll` for any number
of chunks and any window. The type invariant says that no count of chunks
overtakes the one before it, which holds only because of what each pump has in
its hands at each point: `PumpInv` relates `taken`, `passed` and `lost` there, and
says what must have happened for a pump to end; `HandlerInv` says that pumps
run between the hijack and the return, which waits for both.

**`BackoffProofs`** proves for every width, timeout and policy the types, that
jitter stays within a quarter, when `rand.Int63n` panics, and that no wait before
jitter is shorter than the last (an action property). The invariant remembers
which attempt's interval `base` came from, and `TimeInv` how much must have
passed: three quarters of the waits of a linear schedule at least, which is why
it times out before it can overflow. The lemmas under it are about powers (a
multiplier of at least one never shrinks the truncated product), about
wrap-around and about integer division. `BackoffAssumption` allows intervals up to
four fifths of the largest duration (233 years) and timeouts of at most three
twentieths of it (43 years, where the code allows five minutes).

**`RouterProofs`** proves for any files, requests and permutation the sort leaves
the types, `MatchIsBest`, and the five properties of what is loaded, refused
and rewritten. `MatchIsBest` is the long one: `ExactInv` and `PrefixInv` say that
the tables hold exactly the routes the loops of `NewRouter` have visited, in the
exact table the last of those with one key; in a sorted table the first hit of
`Match` is then a best one (`Least`). `LoadInv` says that the configuration
in use is a validated one, with defaults that no later step undoes; from it
`LoadedIsUsable` and `AuthConfigured` follow by what `Validate` looks at.
`RefusedForCause` takes each rule of `Validate` in turn: had it refused, a given value
would be unreasonable. The rewritings are proved about any path in any encoding,
any URL and prefix, from lemmas on what `net/url` does with a path that is joined,
cut or replaced. Assumed: files have the fields and the types YAML gives them,
requests are sequences, `Nil` is none of them, and of the characters only which kinds
of them there are (`EscapedAssumption`: a slash is never encoded by `escape`, and what
`validEncoded` refuses `escape` encodes).

**`HeadersProofs`** proves the four invariants of `headers` for any settings,
clients and answers, interim ones and any `Connection` header included. Each needs
to be known of the header maps after every step (`IDInv`, `CORSInv`, `IdentityInv`,
`AddressInv`); the lemmas say what each helper of the code (`AddAll`, `Removed`,
`WithGlobal`, `WithRoute`, `removeHopByHopHeaders`, `OtherThanOrigin`, ...) does to one
header name. Assumed: values, replies and cases are well-formed.

**`Induction`** states induction over sets of numbers and functions defined by
recursion. The library's theorems take an operator, which the provers
here cannot instantiate; a set of numbers they can, so `Power` and
`OtherThanOrigin` can be reasoned about.

What the proofs corrected. `SameRewriting` and `StartsWithSlashMostly` once said
more than the code does, for the request path `*` and for a backend URL like
`/users2`, and `ClientAddressKept` and `IdentityReachesBackend` for an auth service
that names an address of its own; no run had an input of the kind, and now each
run has one.

Only model-checked: liveness (`Termination`, `AcceptedResponseIsRelayed`,
`EveryoneServed`, `EveryRequestAnswered`, `EndsWithEitherSide`,
`EndsWhenBothGone`), which TLAPS cannot prove under fairness. Every other property of
a passing run is a theorem. TLC checks what the theorems assume: it
evaluates the assumptions on the constants of each run.

## Not modelled

YAML and file reading, log formatting and the level and field filters of the
logger, the version string, connection pooling, and the functions without a
caller (`IsRetriableError`, `GetRequestID`, `GetStats`). Of the configuration, the
defaults of the CORS, logging and header sections, which nothing validates. Of a
URL, the query, which every way takes over from the request; percent-encodings that
differ in the case of their digits are one. Of the headers, the hop-by-hop ones other
than `Connection`, its tokens that are not among the headers modelled, and the
`X-Forwarded-Host`, `-Proto` and `-Uri` that are set where absent. A client that
stops reading its answer: nothing in the code ends that wait.

An upgrade that `IsWebSocketUpgrade` does not recognise (it compares the whole
`Connection` header with "Upgrade") is proxied like any request; what
`httputil.ReverseProxy` then makes of it is the library's.

## Plan

1. Done: `HttpClient`, `Retry`, `ProxyHandler` over `Exchange`; `Backoff`;
   `AuthCache` over `Registry`; `Gateway`; `WebSocketTunnel`; `Config`,
   `PathRewrite`, `Router`; `Headers`.
2. Done: every safety property of these, and the three refinements, as theorems.
3. Left: a `Registry`-like specification of the tunnel, two lossless pipes, which
   `WebSocketTunnel` implements only as far as the client sends nothing before the
   101. `Router` has no abstract specification of its own: `MatchIsBest` is one,
   stated over the routes of the configuration instead of the tables.
