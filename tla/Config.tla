------------------------------- MODULE Config -------------------------------
(***************************************************************************)
(* The configuration (internal/config): defaults, validation, and what is   *)
(* in effect for a route; times are in milliseconds.  Zero, Nil, "unset"    *)
(* and the empty set are what YAML leaves in a field the file does not      *)
(* give.  CORS, logging and header settings, which Validate does not look   *)
(* at, are left out, and the three settings of the connection pool are one. *)
(***************************************************************************)
EXTENDS RetryPolicy, Sequences, SequencesExt

CONSTANT Nil   \* an empty string, or an absent section

DefaultTimeout == 30000
MaxTimeout == 300000
DefaultAuthTimeout == 5000
DefaultPool == 100

ValidMethods == {"GET", "POST", "PUT", "DELETE", "PATCH", "HEAD", "OPTIONS"}

DefaultRetry ==
  [maxAttempts |-> 3, backoff |-> "exponential", initialInterval |-> 100,
   maxInterval |-> 2000, multiplier |-> <<2, 1>>]

Unset ==
  [maxAttempts |-> 0, backoff |-> "unset", initialInterval |-> 0,
   maxInterval |-> 0, multiplier |-> <<0, 1>>]

\* An auth service's URL, by its scheme.
URLs == {"http", "other"}

AuthSettings == [enabled: BOOLEAN, url: {Nil} \cup URLs, timeout: Int]

RouteSettings ==
  [path: Seq(STRING), methods: SUBSET (ValidMethods \cup {"other"}),
   matchType: {"prefix", "exact", "other", "unset"}, strip: BOOLEAN,
   timeout: Int, auth: {"unset", "on", "off"}, authURL: {Nil} \cup URLs]

\* Of a service's URL, its path as it is written (PathRewrite).
ServiceSettings ==
  [name: {Nil} \cup STRING, url: {Nil} \cup Seq([char: STRING, escaped: BOOLEAN]), timeout: Int,
   retry: {Nil} \cup PolicySettings, routes: Seq(RouteSettings)]

FileSettings ==
  [timeout: Int, retry: PolicySettings, pool: Int, auth: {Nil} \cup AuthSettings,
   services: Seq(ServiceSettings)]

-----------------------------------------------------------------------------
(* MergeDefaults.                                                           *)

\* Mutant: no default for the multiplier.
FilledButMultiplier(p) ==
  [field \in DOMAIN p |->
     IF field # "multiplier" /\ p[field] = Unset[field] THEN DefaultRetry[field] ELSE p[field]]

Filled(p) ==
  [field \in DOMAIN p |-> IF p[field] = Unset[field] THEN DefaultRetry[field] ELSE p[field]]

RouteFilled(r) ==
  [r EXCEPT !.matchType = IF @ = "unset" THEN "prefix" ELSE @,
            !.methods   = IF @ = {} THEN ValidMethods ELSE @]

ServiceFilled(s) == [s EXCEPT !.routes = [j \in DOMAIN @ |-> RouteFilled(@[j])]]

MergeDefaults(c) ==
  [c EXCEPT !.timeout  = IF @ = 0 THEN DefaultTimeout ELSE @,
            !.retry    = Filled(@),
            !.pool     = IF @ = 0 THEN DefaultPool ELSE @,
            !.services = [i \in DOMAIN @ |-> ServiceFilled(@[i])]]

-----------------------------------------------------------------------------
(* Validate.                                                                *)

ValidAuth(a) ==
  a # Nil /\ a.enabled => a.url = "http" /\ a.timeout \in 0..MaxTimeout

\* Mutant: methods are not looked at.
ValidRouteAnyMethod(r) ==
  /\ r.path # <<>>
  /\ r.matchType \in {"prefix", "exact"}
  /\ r.timeout <= MaxTimeout

ValidRoute(r) ==
  /\ r.path # <<>>
  /\ r.matchType \in {"prefix", "exact"}
  /\ r.methods \subseteq ValidMethods
  /\ r.timeout <= MaxTimeout

ValidService(s) ==
  /\ s.name # Nil
  /\ s.url # Nil
  /\ s.timeout <= MaxTimeout
  /\ s.routes # <<>>
  /\ s.retry # Nil => Valid(s.retry)
  /\ \A j \in DOMAIN s.routes : ValidRoute(s.routes[j])

ValidConfig(c) ==
  /\ c.timeout \in 1..MaxTimeout
  /\ Valid(c.retry)
  /\ c.pool >= 0
  /\ ValidAuth(c.auth)
  /\ c.services # <<>>
  /\ \A i \in DOMAIN c.services :
       /\ ValidService(c.services[i])
       /\ \A k \in 1..(i - 1) : c.services[k].name # c.services[i].name

\* ForwardAuth.Validate also sets a missing timeout.
Validated(c) ==
  IF c.auth # Nil /\ c.auth.enabled /\ c.auth.timeout = 0
  THEN [c EXCEPT !.auth.timeout = DefaultAuthTimeout]
  ELSE c

-----------------------------------------------------------------------------
(* What is in effect.                                                       *)

\* Mutant: any timeout that is given counts.
GetTimeoutGiven(r, s, c) ==
  CASE r.timeout # 0 -> r.timeout
    [] r.timeout = 0 /\ s.timeout # 0 -> s.timeout
    [] OTHER -> c.timeout

GetTimeout(r, s, c) ==
  CASE r.timeout > 0 -> r.timeout
    [] r.timeout <= 0 /\ s.timeout > 0 -> s.timeout
    [] OTHER -> c.timeout

GetRetryPolicy(s, c) == IF s.retry # Nil THEN s.retry ELSE c.retry

\* A route switches forward auth on or off, or leaves it to the global setting.
IsForwardAuthEnabled(r, c) ==
  IF r.auth # "unset" THEN r.auth = "on" ELSE c.auth # Nil /\ c.auth.enabled

GetAuthServiceURL(r, c) ==
  CASE r.authURL # Nil -> r.authURL
    [] r.authURL = Nil /\ c.auth # Nil -> c.auth.url
    [] OTHER -> Nil

\* Mutant: no default of its own.
AuthTimeoutAsGiven(c) == IF c.auth # Nil THEN c.auth.timeout ELSE DefaultAuthTimeout

\* The timeout of the auth service's http.Client, for which 0 is none.
AuthTimeout(c) ==
  IF c.auth # Nil /\ c.auth.timeout > 0 THEN c.auth.timeout ELSE DefaultAuthTimeout

=============================================================================
