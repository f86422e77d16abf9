------------------------------ MODULE MCRouter -------------------------------
(* Constants for TLC: families of files that vary one part of the           *)
(* configuration around a plain one, and requests for the paths they list.  *)
EXTENDS Router

MCEscaped == {"*", "^"}
MCUnfit == {"^"}

Root == <<"/">>
Users == <<"/", "users">>
UsersSlash == <<"/", "users", "/">>
User == <<"/", "users", "/", "1">>
Users2 == <<"/", "users", "2">>

\* Paths as they are sent.
Encoded(path) == [i \in DOMAIN path |-> [char |-> path[i], escaped |-> TRUE]]
BareRoot == Bare(Root)
BareUsers == Bare(Users)

AllRoutes ==
  [path: {Root, Users, UsersSlash, User}, methods: {{"GET"}, {}}, matchType: {"prefix", "exact"},
   strip: BOOLEAN, timeout: {0}, auth: {"unset"}, authURL: {Nil}]

PlainRoute ==
  [path |-> Users, methods |-> {}, matchType |-> "unset", strip |-> FALSE,
   timeout |-> 0, auth |-> "unset", authURL |-> Nil]

PlainService ==
  [name |-> "a", url |-> <<>>, timeout |-> 0, retry |-> Nil, routes |-> <<PlainRoute>>]

PlainFile ==
  [timeout |-> 0, retry |-> Unset, pool |-> 0, auth |-> Nil, services |-> <<PlainService>>]

RouteFile(r) == [PlainFile EXCEPT !.services = <<[PlainService EXCEPT !.routes = <<r>>]>>]

Retries ==
  [maxAttempts: {-1, 0, 2}, backoff: {"unset", "exponential", "linear", "other"},
   initialInterval: {-1, 0, 50, 3000}, maxInterval: {0, 50, 4000},
   multiplier: {<<0, 1>>, <<1, 1>>, <<3, 2>>}]

RetryFiles ==
  {[PlainFile EXCEPT !.retry = p] : p \in Retries}
  \cup {[PlainFile EXCEPT !.services = <<[PlainService EXCEPT !.retry = p]>>] : p \in Retries}

Times == {-1, 0, 10000, MaxTimeout + 1}

TimeoutFiles ==
  {[timeout |-> g, retry |-> Unset, pool |-> pool, auth |-> Nil,
    services |-> <<[PlainService EXCEPT !.timeout = s,
                      !.routes = <<[PlainRoute EXCEPT !.timeout = r]>>]>>] :
     g \in Times, s \in Times, r \in Times, pool \in {-1, 0}}

AuthFiles ==
  {[RouteFile([PlainRoute EXCEPT !.auth = enabled, !.authURL = url]) EXCEPT !.auth = global] :
     enabled \in {"unset", "on", "off"}, url \in {Nil, "http", "other"},
     global \in {Nil} \cup [enabled: BOOLEAN, url: {Nil, "http", "other"}, timeout: Times]}

BrokenFiles ==
  {[PlainFile EXCEPT !.services = <<>>],
   [PlainFile EXCEPT !.services = <<[PlainService EXCEPT !.name = Nil]>>],
   [PlainFile EXCEPT !.services = <<[PlainService EXCEPT !.url = Nil]>>],
   [PlainFile EXCEPT !.services = <<[PlainService EXCEPT !.routes = <<>>]>>],
   [PlainFile EXCEPT !.services = <<PlainService, PlainService>>],
   RouteFile([PlainRoute EXCEPT !.path = <<>>]),
   RouteFile([PlainRoute EXCEPT !.path = <<"users">>]),
   RouteFile([PlainRoute EXCEPT !.matchType = "other"]),
   RouteFile([PlainRoute EXCEPT !.matchType = "exact", !.methods = {"other"}])}

\* Two routes of one service and one of another, or two services of one route.
RouteFiles ==
  {[PlainFile EXCEPT !.services =
      <<[PlainService EXCEPT !.url = base, !.routes = <<r>>],
        [PlainService EXCEPT !.name = "b", !.routes = <<s>>]>>] :
     base \in {<<>>, BareRoot, BareUsers}
              \cup {Bare(p) : p \in {<<"/", "api">>, Users2, <<"/", "*">>}},
     r \in AllRoutes, s \in AllRoutes}
  \cup
  {[PlainFile EXCEPT !.services =
      <<[PlainService EXCEPT !.routes = <<r, s>>],
        [PlainService EXCEPT !.name = "b",
           !.routes = <<[PlainRoute EXCEPT !.matchType = type, !.path = User]>>]>>] :
     r \in {q \in AllRoutes : q.strip}, s \in {q \in AllRoutes : ~q.strip},
     type \in {"exact", "prefix"}}

MCFiles ==
  RetryFiles \cup TimeoutFiles \cup AuthFiles \cup BrokenFiles \cup RouteFiles

MCLookups ==
  [method: {"GET", "POST"},
   path: {Bare(p) : p \in {<<>>, Root, Users, UsersSlash, User, Users2, <<Star>>}}
         \cup {BareUsers \o more : more \in
                 {Encoded(<<"/", "1">>), Bare(<<"/", "*">>), Bare(<<"/", "^">>),
                  Bare(Root) \o Encoded(<<"^">>)}}]

=============================================================================
