----------------------------- MODULE MCHeaders -------------------------------
(* Constants for TLC.  The settings of one part vary while the others keep  *)
(* a plain value; the way of proxying and forward auth vary in all of them. *)
EXTENDS Headers

NoAdd == [n \in {} |-> Nil]
Added(n, v) == [m \in {n} |-> v]

Ways == {"direct", "retry", "ws"}

CorsSettings ==
  [origins: {{"*"}, {"app"}}, credentials: BOOLEAN, way: Ways, auth: BOOLEAN,
   forwardHeaders: {{}}, responseHeaders: {{User}}, trust: {TRUE},
   remove: {{}}, xForwarded: {FALSE}, add: {NoAdd}, routeAdd: {NoAdd}]

RewriteSettings ==
  [origins: {{"app"}}, credentials: {TRUE}, way: Ways, auth: BOOLEAN,
   forwardHeaders: {{}, {User}}, responseHeaders: {{User}, {ID, User, XFF}}, trust: BOOLEAN,
   remove: {{}, {ID}, {XFF}, {User, RealIP}}, xForwarded: BOOLEAN,
   add: {NoAdd, Added(User, "anonymous"), Added(ID, "fixed")},
   routeAdd: {NoAdd, Added(User, "route"), Added(XFF, "route")}]

Headers(ids, chains, realIPs, users, lists, origins) ==
  {[NoHeaders EXCEPT ![ID] = i, ![XFF] = c, ![RealIP] = r, ![User] = u,
                     ![Connection] = l, !["Origin"] = o] :
     i \in ids, c \in chains, r \in realIPs, u \in users, l \in lists, o \in origins}

CorsClients ==
  [method: {"GET", "OPTIONS"},
   headers: Headers({<<>>, <<"c">>}, {<<>>}, {<<>>}, {<<>>}, {<<>>},
                    {<<>>, <<"app">>, <<"other">>})]

RewriteClients ==
  [method: {"GET"},
   headers: Headers({<<>>, <<"c", "d">>}, {<<>>, <<"one", "two">>}, {<<>>, <<"real">>},
                    {<<>>, <<"guest">>}, {<<>>, <<ID, User, XFF>>}, {<<>>})]

MCCases ==
  [settings: CorsSettings, client: CorsClients]
  \cup [settings: RewriteSettings, client: RewriteClients]

MCAuthReplies ==
  {NoHeaders,
   [NoHeaders EXCEPT ![User] = <<"u", "v">>, ![ID] = <<"a">>, ![XFF] = <<"named">>,
                     ![AllowOrigin] = <<"x", "y">>]}

MCBackendReplies ==
  {NoHeaders,
   [NoHeaders EXCEPT ![ID] = <<"b">>, ![AllowOrigin] = <<"*">>, ![AllowMethods] = <<"GET">>,
                     !["Vary"] = <<"Origin", "Accept">>, ![Connection] = <<ID>>]}

\* What the gateway says, what settings say, and what clients and services say.
MCValues ==
  {"generated", "peer", "*", "Origin", "true", "methods", "headers", "exposed"}
  \cup {ID, User, XFF, "anonymous", "fixed", "route", "app"}
  \cup {"c", "d", "one", "two", "real", "guest", "other",
        "u", "v", "a", "b", "x", "y", "named", "GET", "Accept"}

=============================================================================
