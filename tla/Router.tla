------------------------------- MODULE Router -------------------------------
(***************************************************************************)
(* From the configuration file to a route: LoadConfig                       *)
(* (internal/config/loader.go) refuses the file or hands the configuration  *)
(* to NewRouter (internal/gateway/router.go), which goes through the routes *)
(* one by one and fills the tables Match looks requests up in.  Nothing     *)
(* writes configuration or tables afterwards, so requests are looked at one *)
(* after the other.                                                         *)
(***************************************************************************)
EXTENDS Config, PathRewrite

CONSTANTS
  Files,      \* configuration files: what YAML makes of them
  Lookups     \* requests: [method, path], the path as it is sent

ASSUME FilesAssumption == Files \subseteq FileSettings

ASSUME LookupsAssumption ==
  Lookups \subseteq [method: STRING, path: Seq([char: STRING, escaped: BOOLEAN])]

ASSUME NilAssumption ==
  /\ Nil \notin URLs \cup AuthSettings \cup FileSettings
  /\ Nil \notin Lookups
  /\ Nil \notin Nat \X Nat

VARIABLES
  file,       \* the file, fixed
  config,     \* the configuration, Nil until loaded
  phase,      \* "load", "refused", "build", or "serve"
  next,       \* <<i, j>>, the service and the route the loops of NewRouter are at
  exact,      \* exactRoutes: <<path, method>> -> <<service, route>>
  prefixes,   \* prefixRoutes, a sequence of <<service, route>>
  lookup,     \* the latest request, Nil before the first
  found       \* what Match returned for it, Nil for ErrNoRouteMatch

vars == <<file, config, phase, next, exact, prefixes, lookup, found>>

ServiceOf(m) == config.services[m[1]]
RouteOf(m) == config.services[m[1]].routes[m[2]]

\* A route is known by its place in the configuration.
Routes ==
  IF config = Nil THEN {}
  ELSE UNION {{<<i, j>> : j \in DOMAIN config.services[i].routes} :
                i \in DOMAIN config.services}

TypeOK ==
  /\ phase \in {"load", "refused", "build", "serve"}
  /\ config = Nil <=> phase \in {"load", "refused"}
  /\ next \in Nat \X Nat
  /\ \A k \in DOMAIN exact : k[2] \in ValidMethods /\ exact[k] \in Routes
  /\ prefixes \in Seq(Routes)
  /\ lookup \in Lookups \cup {Nil}
  /\ found \in Routes \cup {Nil}

Init ==
  /\ file \in Files
  /\ config = Nil
  /\ phase = "load"
  /\ next = <<1, 1>>
  /\ exact = <<>>
  /\ prefixes = <<>>
  /\ lookup = Nil
  /\ found = Nil

Refuse ==
  /\ phase = "load"
  /\ ~ValidConfig(MergeDefaults(file))
  /\ phase' = "refused"
  /\ UNCHANGED <<file, config, next, exact, prefixes, lookup, found>>

LoadConfig ==
  /\ phase = "load"
  /\ ValidConfig(MergeDefaults(file))
  /\ config' = Validated(MergeDefaults(file))
  /\ phase' = "build"
  /\ UNCHANGED <<file, next, exact, prefixes, lookup, found>>

\* The keys a route is filed under if it asks for an exact match.
Keys(m) == {RouteOf(m).path} \X RouteOf(m).methods

\* Of two routes for one path and method the later one stays.
addExactRoute(table, m) ==
  [k \in DOMAIN table \cup Keys(m) |-> IF k \in Keys(m) THEN m ELSE table[k]]

\* The loops: on to the next route of the service, or to the next service.
Following(m) ==
  IF m[2] < Len(ServiceOf(m).routes) THEN <<m[1], m[2] + 1>> ELSE <<m[1] + 1, 1>>

(***************************************************************************)
(* A prefix route is listed once per method in the code; the copies have    *)
(* the same methods, so one does.                                           *)
(***************************************************************************)
AddRoute ==
  /\ phase = "build"
  /\ next \in Routes
  /\ next' = Following(next)
  /\ \/ /\ RouteOf(next).matchType = "exact"
        /\ exact' = addExactRoute(exact, next)
        /\ UNCHANGED prefixes
     \/ /\ RouteOf(next).matchType # "exact"
        /\ prefixes' = Append(prefixes, next)
        /\ UNCHANGED exact
  /\ UNCHANGED <<file, config, phase, lookup, found>>

\* Longer paths first.
Sorted(table) ==
  \A n, k \in DOMAIN table :
    n < k => Len(RouteOf(table[n]).path) >= Len(RouteOf(table[k]).path)

(***************************************************************************)
(* sort.Slice keeps no order among paths of one length, so any arrangement  *)
(* of the table that is sorted may come out.  No route is in it twice.      *)
(***************************************************************************)
SortPrefixes ==
  /\ phase = "build"
  /\ next \notin Routes
  /\ prefixes' \in {t \in [DOMAIN prefixes -> Range(prefixes)] :
                     Range(t) = Range(prefixes) /\ Sorted(t)}
  /\ phase' = "serve"
  /\ UNCHANGED <<file, config, next, exact, lookup, found>>

\* Match adds a slash that is missing; the rewriting does not.
Normalized(path) == IF StartsWith(path, Slash) THEN path ELSE <<Slash>> \o path

\* The path that is looked up: the decoded one.
Requested(l) == Normalized(Decoded(l.path))

prefixMatches(m, path, method) ==
  IsPrefix(RouteOf(m).path, path) /\ method \in RouteOf(m).methods

Hits(path, method) == {n \in DOMAIN prefixes : prefixMatches(prefixes[n], path, method)}

\* Mutant: a path in the exact table is looked for nowhere else.
MatchExactOnly(path, method) ==
  LET hits == Hits(path, method)
  IN CASE <<path, method>> \in DOMAIN exact -> exact[<<path, method>>]
       [] <<path, method>> \notin DOMAIN exact
            /\ path \notin {k[1] : k \in DOMAIN exact} /\ hits # {} -> prefixes[Min(hits)]
       [] OTHER -> Nil

\* First the exact table, then the first prefix that fits.
Match(path, method) ==
  LET hits == Hits(path, method)
  IN CASE <<path, method>> \in DOMAIN exact -> exact[<<path, method>>]
       [] <<path, method>> \notin DOMAIN exact /\ hits # {} -> prefixes[Min(hits)]
       [] OTHER -> Nil

Serve ==
  /\ phase = "serve"
  /\ lookup' \in Lookups
  /\ found' = Match(Requested(lookup'), lookup'.method)
  /\ UNCHANGED <<file, config, phase, next, exact, prefixes>>

\* log.Fatal after a refusal.
Exited == phase = "refused" /\ UNCHANGED vars

Next == Refuse \/ LoadConfig \/ AddRoute \/ SortPrefixes \/ Serve \/ Exited

Spec == Init /\ [][Next]_vars

-----------------------------------------------------------------------------
(* Routing.                                                                 *)

Fits(m, l) ==
  /\ l.method \in RouteOf(m).methods
  /\ IF RouteOf(m).matchType = "exact"
     THEN RouteOf(m).path = Requested(l)
     ELSE IsPrefix(RouteOf(m).path, Requested(l))

\* The later of two services, or of two routes of one service.
After(m, n) == m[1] > n[1] \/ (m[1] = n[1] /\ m[2] > n[2])

Better(m, n) ==
  LET exactly(k) == RouteOf(k).matchType = "exact" IN
  \/ exactly(m) /\ (~exactly(n) \/ After(m, n))
  \/ ~exactly(m) /\ ~exactly(n) /\ Len(RouteOf(m).path) > Len(RouteOf(n).path)

(***************************************************************************)
(* "Priority: exact matches first, then longest prefix match" (Match), for  *)
(* a method the route allows: a request is answered with 404 only when no   *)
(* configured route fits it, and otherwise goes to one that no other fits   *)
(* better; of two equal exact routes the last counts, of two equal prefixes *)
(* any, since the sort is not stable.                                       *)
(***************************************************************************)
MatchIsBest ==
  lookup # Nil =>
    LET fitting == {m \in Routes : Fits(m, lookup)} IN
    IF fitting = {} THEN found = Nil
    ELSE found \in fitting /\ ~\E m \in fitting : Better(m, found)

-----------------------------------------------------------------------------
(* Configuration.                                                           *)

(***************************************************************************)
(* Whatever the file says, a configuration that was loaded gives every      *)
(* route methods, a timeout within bounds, and a retry policy that is valid *)
(* (Validate after MergeDefaults, GetTimeout, GetRetryPolicy): a negative   *)
(* timeout, which Validate lets through, never takes effect.                *)
(***************************************************************************)
LoadedIsUsable ==
  \A m \in Routes :
    /\ RouteOf(m).methods # {}
    /\ GetTimeout(RouteOf(m), ServiceOf(m), config) \in 1..MaxTimeout
    /\ Valid(GetRetryPolicy(ServiceOf(m), config))

(***************************************************************************)
(* A route that wants forward auth has an auth service and a client for it  *)
(* with a timeout of at most MaxTimeout.  There are two ways out: only the  *)
(* route enables it and nobody names a URL, which the handler answers with  *)
(* 500; and global settings that are disabled, which Validate skips and     *)
(* buildForwardAuthConfig uses all the same.                                *)
(***************************************************************************)
AuthConfigured ==
  \A m \in Routes :
    IsForwardAuthEnabled(RouteOf(m), config) =>
      /\ GetAuthServiceURL(RouteOf(m), config) = Nil => RouteOf(m).auth = "on"
      /\ AuthTimeout(config) > 0
      /\ AuthTimeout(config) > MaxTimeout => ~config.auth.enabled

-----------------------------------------------------------------------------

\* The values of a retry policy that are given are valid by themselves.
ReasonableRetry(p) ==
  /\ p.maxAttempts >= 0
  /\ p.backoff \in Growths \cup {"unset"}
  /\ p.initialInterval >= 0 /\ p.maxInterval >= 0
  /\ p.maxInterval # 0 => p.maxInterval >= p.initialInterval
  /\ p.backoff \in {"exponential", "unset"} /\ p.multiplier # Unset.multiplier
       => p.multiplier[1] > p.multiplier[2]

ReasonableService(s) ==
  /\ s.name # Nil /\ s.url # Nil /\ s.timeout <= MaxTimeout /\ s.routes # <<>>
  /\ s.retry # Nil => ReasonableRetry(s.retry)
  /\ \A j \in DOMAIN s.routes :
       /\ s.routes[j].path # <<>>
       /\ s.routes[j].matchType \in {"prefix", "exact", "unset"}
       /\ s.routes[j].methods \subseteq ValidMethods
       /\ s.routes[j].timeout <= MaxTimeout

ReasonableFile(c) ==
  /\ c.timeout \in 0..MaxTimeout
  /\ ReasonableRetry(c.retry)
  /\ c.pool >= 0
  /\ c.auth # Nil /\ c.auth.enabled => c.auth.url = "http" /\ c.auth.timeout \in 0..MaxTimeout
  /\ c.services # <<>>
  /\ \A i \in DOMAIN c.services :
       /\ ReasonableService(c.services[i])
       /\ \A k \in DOMAIN c.services : c.services[k].name = c.services[i].name => k = i

\* "unset", no interval, or an exponential schedule without a multiplier.
Incomplete(p) ==
  \/ p.backoff = "unset" \/ p.initialInterval = 0 \/ p.maxInterval = 0
  \/ p.backoff = "exponential" /\ p.multiplier[1] = 0

(***************************************************************************)
(* "User-supplied values always take precedence; defaults are only applied  *)
(* to zero/empty fields" (MergeDefaults): a file each of whose given values *)
(* is acceptable is refused for two reasons only.  A service's own retry    *)
(* policy gets no defaults, so it must be complete; and one of the two      *)
(* intervals alone may disagree with the default of the other.              *)
(***************************************************************************)
RefusedForCause ==
  phase = "refused" =>
    \/ ~ReasonableFile(file)
    \/ \E i \in DOMAIN file.services :
         file.services[i].retry # Nil /\ Incomplete(file.services[i].retry)
    \/ file.retry.maxInterval = 0
         /\ file.retry.initialInterval > DefaultRetry.maxInterval
    \/ file.retry.initialInterval = 0
         /\ file.retry.maxInterval \in 1..(DefaultRetry.initialInterval - 1)

-----------------------------------------------------------------------------
(* Rewriting.                                                               *)

\* net/http lets through "*" besides; it takes a missing path for an empty one.
Rooted(sent) == sent = <<>> \/ StartsWith(sent, BareSlash)

\* What ServeHTTP and ServeWebSocket ask the backend of the latest request for.
Rewritings ==
  LET base == ServiceOf(found).url
      route == RouteOf(found)
  IN [direct |-> DirectPath(route, base, lookup.path),
      retry  |-> RetryPath(route, base, lookup.path),
      ws     |-> WebSocketPath(route, base, lookup.path)]

(***************************************************************************)
(* buildBackendRequest applies "the same path rewriting and header          *)
(* forwarding as the Director": whether a policy retries does not change    *)
(* the path the backend sees, and not one character of it where no prefix   *)
(* is stripped.  It may if the backend's URL has a path of its own or the   *)
(* request's path is "*", and then where a prefix is stripped, or where the *)
(* request does not encode its path as net/url would, so that RawPath gets  *)
(* lost under the backend's path.  An upgrade is sent the same characters,  *)
(* but none encoded, and an empty path as it is.                            *)
(***************************************************************************)
SameRewriting ==
  found # Nil =>
    LET stripped == RouteOf(found).strip
        ownPath == ServiceOf(found).url \notin {<<>>, <<BareSlash>>}
    IN /\ \/ Rewritings.direct = Rewritings.retry
          \/ /\ ownPath \/ ~Rooted(lookup.path)
             /\ stripped \/ ~Usual(lookup.path)
       /\ stripped \/ Decoded(Rewritings.direct) = Decoded(Rewritings.retry)
       /\ Rewritings.ws = Bare(Decoded(Rewritings.retry)) \/ lookup.path = <<>>

\* Where the prefix ends, a segment of the path ends.
CutBetween(prefix, path) ==
  IsPrefix(prefix, path) /\ Len(prefix) < Len(path) => path[Len(prefix) + 1] = Slash

(***************************************************************************)
(* A backend is asked for a path that starts with a slash, except where the *)
(* stripped prefix ends in the middle of a segment, for an upgrade of an    *)
(* empty path, and for the path "*" (TrimPrefix and the test for an empty   *)
(* path).  On the direct way the prefix is taken off the path of the        *)
(* backend's URL, if it has one, so that path has a segment to cut as well. *)
(***************************************************************************)
StartsWithSlashMostly ==
  found # Nil /\ Rooted(lookup.path) /\ Rooted(ServiceOf(found).url) =>
    LET route == RouteOf(found)
        path == Parsed(lookup.path).path
        joined == joinURLPath(Parsed(ServiceOf(found).url), Parsed(lookup.path)).path
        rooted(sent) == StartsWith(sent, BareSlash)
    IN /\ ~route.strip \/ CutBetween(route.path, joined) => rooted(Rewritings.direct)
       /\ ~route.strip \/ CutBetween(route.path, path) => rooted(Rewritings.retry)
       /\ route.strip /\ CutBetween(route.path, path) => rooted(Rewritings.ws)

=============================================================================
