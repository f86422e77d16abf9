---------------------------- MODULE HeadersProofs ----------------------------
(***************************************************************************)
(* Proofs about Headers, for any configuration and any header map of the    *)
(* client, the auth service and the backend.                                *)
(***************************************************************************)
EXTENDS Headers, Induction, SequenceTheorems

(***************************************************************************)
(* What ModifyResponse leaves of Vary has no "Origin" in it, however many   *)
(* values there were.                                                       *)
(***************************************************************************)
LEMMA NoOriginLeft ==
  ASSUME NEW vary \in Seq(Values)
  PROVE  /\ OtherThanOrigin(vary) \in Seq(Values)
         /\ \A i \in DOMAIN OtherThanOrigin(vary) : OtherThanOrigin(vary)[i] # "Origin"
PROOF
  <1> DEFINE last == Len(vary)
             Good == {s \in Seq(Values) : \A i \in 1..Len(s) : s[i] # "Origin"}
             next(n, s) == IF vary[n] = "Origin" THEN s ELSE Append(s, vary[n])
             Kept(f) == f = [n \in 0..last |-> IF n = 0 THEN <<>> ELSE next(n, f[n - 1])]
             step == [c \in (1..last) \X Good |-> next(c[1], c[2])]
  <1>1. last \in Nat /\ <<>> \in Good /\ \A n \in 1..last : vary[n] \in Values
    OBVIOUS
  <1>2. ASSUME NEW n \in 1..last, NEW s \in Good  PROVE  next(n, s) \in Good
    <2>1. CASE vary[n] = "Origin"
      BY <2>1
    <2>2. CASE vary[n] # "Origin"
      <3>1. /\ Append(s, vary[n]) \in Seq(Values)
            /\ \A i \in 1..Len(Append(s, vary[n])) : Append(s, vary[n])[i] # "Origin"
        BY <1>1, <2>2, AppendProperties
      <3> QED
        BY <2>2, <3>1
    <2> QED
      BY <2>1, <2>2
  <1>3. \E f : Kept(f)
    <2>1. step \in Steps(last, Good)
      BY <1>2 DEF Steps
    <2>2. PICK f \in [0..last -> Good] : FollowsSteps(f, <<>>, step, last)
      <3>1. last \in Nat /\ <<>> \in Good
        BY <1>1
      <3> HIDE DEF last, Good, step
      <3> QED
        BY <2>1, <3>1, Recursion
    <2>3. ASSUME NEW n \in 1..last  PROVE  f[n] = next(n, f[n - 1])
      <3>1. <<n, f[n - 1]>> \in (1..last) \X Good
        <4>1. n - 1 \in 0..last
          BY <1>1
        <4> HIDE DEF last, Good
        <4> QED
          BY <4>1
      <3>2. step[<<n, f[n - 1]>>] = next(n, f[n - 1])
        <4> HIDE DEF last, Good, next
        <4> QED
          BY <3>1
      <3> QED
        BY <2>2, <3>2 DEF FollowsSteps
    <2>4. Kept(f)
      <3> HIDE DEF Good, next
      <3> QED
        BY <1>1, <2>2, <2>3 DEF FollowsSteps
    <2> HIDE DEF Kept
    <2> QED
      BY <2>4
  <1> DEFINE remaining == CHOOSE f : Kept(f)
  <1>4. Kept(remaining)
    <2> HIDE DEF Kept
    <2> QED
      BY <1>3
  <1>5. \A n \in 0..last : remaining[n] \in Good
    <2> DEFINE T == {n \in 0..last : remaining[n] \in Good}
    <2> HIDE DEF remaining, last, Good, next
    <2>1. 0 \in T
      BY <1>1, <1>4
    <2>2. ASSUME NEW n \in 1..last, n - 1 \in T  PROVE  n \in T
      BY <1>1, <1>2, <1>4, <2>2
    <2>3. 0..last \subseteq T
      <3> HIDE DEF T
      <3> QED
        BY <1>1, <2>1, <2>2, BoundedInduction
    <2> QED
      BY <2>3
  <1>6. OtherThanOrigin(vary) = remaining[last]
    BY DEF OtherThanOrigin
  <1>7. remaining[last] \in Good
    <2> HIDE DEF remaining, Good
    <2> QED
      BY <1>1, <1>5
  <1> QED
    <2> HIDE DEF remaining
    <2> QED
      BY <1>6, <1>7

-----------------------------------------------------------------------------
(* Header maps.                                                             *)

\* Every name has its values.
LEMMA MapsGiveValues ==
  ASSUME NEW h \in HeaderMaps, NEW n \in Names
  PROVE  h[n] \in Seq(Values)
BY DEF HeaderMaps

\* Header.Get returns the first of the values, if there are any.
LEMMA FirstIsValue ==
  ASSUME NEW s \in Seq(Values), s # <<>>
  PROVE  Head(s) \in Values /\ Last(s) \in Values
BY HeadTailProperties DEF Last

\* Values added come after those that are there.
LEMMA AddedBehind ==
  ASSUME NEW s \in Seq(Values), NEW t \in Seq(Values)
  PROVE  /\ s \o t \in Seq(Values)
         /\ s # <<>> => s \o t # <<>> /\ Head(s \o t) = Head(s)
         /\ IsPrefix(s, s \o t)
         /\ IsSuffix(t, s \o t)
PROOF
  <1>1. s \o t \in Seq(Values) /\ Len(s \o t) = Len(s) + Len(t)
    BY ConcatProperties
  <1>2. s # <<>> => s \o t # <<>> /\ Head(s \o t) = Head(s)
    BY <1>1, ConcatProperties
  <1>3. IsPrefix(s, s \o t)
    BY <1>1, ConcatProperties DEF IsPrefix
  <1>4. IsSuffix(t, s \o t)
    BY <1>1, ConcatProperties DEF IsSuffix, IsPrefix, Reverse
  <1> QED
    BY <1>1, <1>2, <1>3, <1>4

\* A prefix stays one when a value is appended.
LEMMA PrefixOfAppended ==
  ASSUME NEW s \in Seq(Values), NEW t \in Seq(Values), NEW v \in Values, IsPrefix(s, t)
  PROVE  IsPrefix(s, Append(t, v)) /\ Append(t, v) \in Seq(Values)
BY AppendProperties DEF IsPrefix

\* Nothing is the end of everything.
LEMMA EmptyIsSuffix ==
  ASSUME NEW s \in Seq(Values)
  PROVE  IsSuffix(<<>>, s) /\ IsPrefix(<<>>, s) /\ IsPrefix(s, s)
BY DEF IsSuffix, IsPrefix, Reverse

\* The first of one value is that value.
LEMMA FirstOfOne ==
  ASSUME NEW v  PROVE  <<v>> # <<>> /\ Head(<<v>>) = v /\ Len(<<v>>) = 1
OBVIOUS

\* The names are all different.
LEMMA NamesDiffer ==
  /\ ID \in Names /\ XFF \in Names /\ RealIP \in Names /\ "Vary" \in Names
  /\ ID # XFF /\ ID # RealIP /\ ID # "Vary" /\ XFF # RealIP
  /\ corsResponseHeaders \subseteq Names \ {ID, "Vary"}
BY DEF Names, corsResponseHeaders, ID, XFF, RealIP, Connection, AllowOrigin, AllowCredentials, AllowMethods,
       AllowHeaders, ExposeHeaders

\* Only nothing is the end of nothing.
LEMMA SuffixOfNothing ==
  ASSUME NEW s \in Seq(Values), IsSuffix(s, <<>>)
  PROVE  s = <<>>
BY DEF IsSuffix, IsPrefix, Reverse

\* A prefix of a prefix is one.
LEMMA PrefixOfPrefix ==
  ASSUME NEW s \in Seq(Values), NEW t \in Seq(Values), NEW u \in Seq(Values),
         IsPrefix(s, t), IsPrefix(t, u)
  PROVE  IsPrefix(s, u)
BY DEF IsPrefix

-----------------------------------------------------------------------------
(* The invariant, in parts.                                                 *)

Chosen == \E c \in Cases : settings = c.settings /\ client = c.client

Typing ==
  /\ Chosen
  /\ pc \in {"requestID", "cors", "match", "auth", "asked", "apply", "proxy", "sent", "done"}
  /\ request \in HeaderMaps /\ response \in HeaderMaps /\ identity \in HeaderMaps
  /\ authSaw \in HeaderMaps \cup {Nil}
  /\ backendSaw \in HeaderMaps \cup {Nil}
  /\ clientSaw \in HeaderMaps \cup {Nil}
  /\ pc # "requestID" => id \in Values
  /\ interim \in BOOLEAN

\* Who has seen anything yet.
SeenInv ==
  /\ pc \in {"requestID", "cors", "match", "auth"} => authSaw = Nil
  /\ pc \notin {"sent", "done"} => backendSaw = Nil
  /\ pc # "done" => clientSaw = Nil
  /\ pc \notin {"apply", "proxy", "sent", "done"} => identity = NoHeaders
  /\ pc \notin {"proxy", "sent", "done"} => clientIP = Nil
  /\ pc \notin {"sent", "done"} => ~interim
  /\ interim => settings.way = "direct" /\ response = NoHeaders

\* The request's ID is the first everywhere, the response's the only one.
IDInv ==
  /\ pc = "requestID" => id = Nil /\ request = client.headers
  /\ pc \in {"cors", "match", "auth"} => request[ID] = <<id>>
  /\ pc \in {"asked", "apply", "proxy", "sent"} =>
       \/ request[ID] # <<>> /\ Head(request[ID]) = id
       \/ pc \in {"proxy", "sent"} /\ ID \in Overruled
  /\ pc \notin {"requestID", "done"} /\ ~interim => response[ID] = <<id>>

\* Each header of CORS is on the response once.
CORSInv ==
  /\ pc = "requestID" => response = NoHeaders
  /\ pc = "cors" =>
       /\ \A n \in Names \ {ID} : response[n] = <<>>
       /\ request["Origin"] = client.headers["Origin"]
  /\ pc \notin {"requestID", "cors", "done"} /\ ~interim =>
       \A n \in corsResponseHeaders \cup {"Vary"} : response[n] = CORSSet[n]

\* What the auth service said ends each header it is for.
IdentityInv ==
  pc \in {"apply", "proxy", "sent"} =>
    \A n \in settings.responseHeaders :
      \/ IsSuffix(identity[n], request[n])
      \/ pc # "apply" /\ n \in Overruled \cup {XFF}

\* The client's chain begins the chain, and both who look for its address look
\* at what the client sent.
AddressInv ==
  /\ pc \in {"requestID", "cors", "match", "auth", "asked"} =>
       \A n \in {XFF, RealIP} : request[n] = client.headers[n]
  /\ pc = "apply" =>
       \A n \in {XFF, RealIP} :
         request[n] = client.headers[n] \o
                      (IF n \in settings.responseHeaders THEN identity[n] ELSE <<>>)
  /\ pc \in {"proxy", "sent"} =>
       IsPrefix(client.headers[XFF], request[XFF]) \/ XFF \in Overruled
  /\ backendSaw # Nil =>
       IsPrefix(client.headers[XFF], backendSaw[XFF]) \/ XFF \in Overruled \cup Withheld
  /\ authSaw # Nil => First(authSaw, XFF) \in {Nil, AuthClientIP(client.headers)}
  /\ clientIP # Nil =>
       \/ clientIP = GetClientIP(client.headers)
       \/ \E n \in settings.responseHeaders \cap {XFF, RealIP} : identity[n] # <<>>

Inv ==
  /\ Typing /\ SeenInv
  /\ IDInv /\ OneRequestID
  /\ CORSInv /\ CORSHeadersOnce
  /\ IdentityInv /\ IdentityReachesBackend
  /\ AddressInv

-----------------------------------------------------------------------------
(* What the operators make of header maps.                                  *)

\* Settings and client are those of a case.
LEMMA ChosenFacts ==
  ASSUME Chosen
  PROVE  /\ client.headers \in HeaderMaps
         /\ settings.way \in {"direct", "retry", "ws"}
         /\ settings.origins \subseteq Values
         /\ settings.responseHeaders \subseteq Names
         /\ \A n \in DOMAIN settings.add : settings.add[n] \in Values
         /\ \A n \in DOMAIN settings.routeAdd : settings.routeAdd[n] \in Values
BY CasesAssumption DEF Chosen

\* Header.Set changes the one name.
LEMMA WithType ==
  ASSUME NEW h \in HeaderMaps, NEW n \in Names, NEW v \in Values
  PROVE  /\ With(h, n, v) \in HeaderMaps /\ With(h, n, v)[n] = <<v>>
         /\ \A m \in Names \ {n} : With(h, n, v)[m] = h[m]
BY DEF With, HeaderMaps

\* Header.Add of all values concatenates, name by name.
LEMMA AddAllType ==
  ASSUME NEW h \in HeaderMaps, NEW more \in HeaderMaps
  PROVE  AddAll(h, more) \in HeaderMaps /\ \A n \in Names : AddAll(h, more)[n] = h[n] \o more[n]
BY ConcatProperties DEF AddAll, HeaderMaps

\* The same, said of what is there already.
LEMMA AddedBy ==
  ASSUME NEW h \in HeaderMaps, NEW more \in HeaderMaps
  PROVE  /\ AddAll(h, more) \in HeaderMaps
         /\ \A n \in Names : \E s \in Seq(Values) : AddAll(h, more)[n] = h[n] \o s
PROOF
  <1>1. ASSUME NEW n \in Names  PROVE  \E s \in Seq(Values) : AddAll(h, more)[n] = h[n] \o s
    <2>1. more[n] \in Seq(Values) /\ AddAll(h, more)[n] = h[n] \o more[n]
      BY AddAllType, MapsGiveValues
    <2> QED
      BY <2>1
  <1> QED
    BY <1>1, AddAllType

\* CORS sets each of its headers at most once, and no other.
LEMMA CORSHeadersType ==
  ASSUME Chosen, NEW origin
  PROVE  /\ CORSHeaders(origin) \in HeaderMaps
         /\ \A n \in Names : Len(CORSHeaders(origin)[n]) <= 1
         /\ CORSHeaders(origin)[ID] = <<>>
PROOF
  <1> DEFINE listed == "*" \notin settings.origins /\ origin \in settings.origins
             allow == CASE "*" \in settings.origins -> <<"*">>
                        [] listed -> <<origin>>
                        [] OTHER -> <<>>
             Few == {s \in Seq(Values) : Len(s) <= 1}
  <1>1. /\ \A v \in Values : <<v>> \in Few
        /\ <<>> \in Few
    OBVIOUS
  <1>2. allow \in Few
    <2>1. listed => origin \in Values
      BY ChosenFacts
    <2>2. "*" \in Values
      BY ValuesAssumption
    <2> HIDE DEF Few
    <2> QED
      BY <1>1, <2>1, <2>2
  <1>3. /\ (IF listed THEN <<"Origin">> ELSE <<>>) \in Few
        /\ (IF listed /\ settings.credentials THEN <<"true">> ELSE <<>>) \in Few
        /\ <<"methods">> \in Few /\ <<"headers">> \in Few /\ <<"exposed">> \in Few
    <2> HIDE DEF Few, listed
    <2> QED
      BY <1>1, ValuesAssumption
  <1>4. NoHeaders \in [Names -> Few]
    BY <1>1 DEF NoHeaders
  <1>5. CORSHeaders(origin) \in [Names -> Few] /\ CORSHeaders(origin)[ID] = <<>>
    <2> HIDE DEF Few, allow, listed
    <2> QED
      BY <1>2, <1>3, <1>4 DEF CORSHeaders, NoHeaders, allow, listed, Names, corsResponseHeaders,
         ID, XFF, RealIP, User, Connection, AllowOrigin, AllowCredentials, AllowMethods, AllowHeaders,
         ExposeHeaders
  <1> QED
    BY <1>5 DEF HeaderMaps

\* Either function that looks for the client's address finds one.
LEMMA AddressIsValue ==
  ASSUME NEW h \in HeaderMaps
  PROVE  AuthClientIP(h) \in Values /\ GetClientIP(h) \in Values
PROOF
  <1>1. h[XFF] \in Seq(Values) /\ h[RealIP] \in Seq(Values) /\ "peer" \in Values
    BY MapsGiveValues, ValuesAssumption DEF Names, XFF, RealIP
  <1> QED
    BY <1>1, FirstIsValue DEF AuthClientIP, GetClientIP

\* What the auth service is sent: its ID, and an address the client names.
LEMMA AuthSeesClient ==
  ASSUME NEW h \in HeaderMaps
  PROVE  /\ forwardHeaders(h) \in HeaderMaps
         /\ ID \in ForwardHeaders => forwardHeaders(h)[ID] = h[ID]
         /\ First(forwardHeaders(h), XFF) \in {Nil, AuthClientIP(h)}
PROOF
  <1> DEFINE copied == [n \in Names |-> IF n \in ForwardHeaders THEN h[n] ELSE <<>>]
  <1>1. copied \in HeaderMaps /\ XFF \in Names /\ ID \in Names /\ ID # XFF
    BY DEF HeaderMaps, Names, XFF, ID
  <1>2. AuthClientIP(h) \in Values
    BY AddressIsValue
  <1>3. CASE settings.trust /\ copied[XFF] = <<>>
    <2>1. forwardHeaders(h) = With(copied, XFF, AuthClientIP(h))
      BY <1>3 DEF forwardHeaders
    <2>2. First(forwardHeaders(h), XFF) = AuthClientIP(h)
      <3>1. forwardHeaders(h)[XFF] = <<AuthClientIP(h)>>
        <4> HIDE DEF copied
        <4> QED
          BY <1>1, <1>2, <2>1, WithType
      <3>2. \A v : <<v>> # <<>> /\ Head(<<v>>) = v
        OBVIOUS
      <3> QED
        BY <3>1, <3>2 DEF First
    <2> QED
      BY <1>1, <1>2, <2>1, <2>2, WithType
  <1>4. CASE ~(settings.trust /\ copied[XFF] = <<>>)
    <2>1. forwardHeaders(h) = copied
      BY <1>4 DEF forwardHeaders
    <2>2. First(copied, XFF) \in {Nil, AuthClientIP(h)}
      BY <1>1 DEF First, AuthClientIP
    <2> QED
      BY <1>1, <2>1, <2>2
  <1> QED
    BY <1>3, <1>4

\* copyAuthHeaders adds what the reply says behind what there is.
LEMMA AuthHeadersBehind ==
  ASSUME request \in HeaderMaps, NEW reply \in HeaderMaps
  PROVE  /\ copyAuthHeaders(reply) \in HeaderMaps
         /\ \A n \in Names : copyAuthHeaders(reply)[n] =
              request[n] \o (IF n \in settings.responseHeaders THEN reply[n] ELSE <<>>)
BY ConcatProperties, ConcatEmptySeq DEF copyAuthHeaders, HeaderMaps

\* Apply leaves every header that no setting overrules, the chain apart.
LEMMA ApplyKeeps ==
  ASSUME Chosen, NEW h \in HeaderMaps, NEW ip \in Values,
         NEW k, k = WithRoute(WithGlobal(addForwardedHeaders(Removed(h), ip)))
  PROVE  /\ k \in HeaderMaps
         /\ \A n \in Names \ (Overruled \cup {XFF}) : k[n] = h[n] \/ h[n] = <<>>
         /\ XFF \notin Overruled => IsPrefix(h[XFF], k[XFF])
PROOF
  <1> DEFINE h1 == Removed(h)
             h2 == addForwardedHeaders(h1, ip)
             h3 == WithGlobal(h2)
  <1>0. XFF \in Names
    BY DEF Names
  <1>1. h1 \in HeaderMaps /\ \A n \in Names \ Overruled : h1[n] = h[n]
    BY DEF Removed, HeaderMaps, Overruled
  <1>2. h2 \in HeaderMaps /\ \A n \in Names \ {XFF} : h2[n] = h1[n]
    BY <1>0, <1>1, AppendProperties DEF addForwardedHeaders, HeaderMaps
  <1>3. h2[XFF] \in {h1[XFF], Append(h1[XFF], ip)}
    BY <1>0, <1>1 DEF addForwardedHeaders, HeaderMaps
  <1>4. h3 \in HeaderMaps /\ \A n \in Names : h3[n] = h2[n] \/ h2[n] = <<>>
    BY <1>2, ChosenFacts DEF WithGlobal, HeaderMaps
  <1>5. k \in HeaderMaps /\ \A n \in Names \ Overruled : k[n] = h3[n]
    <2>1. k = WithRoute(h3)
      OBVIOUS
    <2> HIDE DEF h3
    <2>2. \A n \in Names : k[n] \in Seq(Values)
      BY <1>4, <2>1, ChosenFacts DEF WithRoute, HeaderMaps
    <2> QED
      BY <2>1, <2>2 DEF WithRoute, HeaderMaps, Overruled
  <1>6. \A n \in Names \ (Overruled \cup {XFF}) : k[n] = h[n] \/ h[n] = <<>>
    <2> HIDE DEF h1, h2, h3
    <2> QED
      BY <1>1, <1>2, <1>4, <1>5
  <1>7. ASSUME XFF \notin Overruled  PROVE  IsPrefix(h[XFF], k[XFF])
    <2> HIDE DEF h1, h2, h3
    <2>1. k[XFF] = h3[XFF] /\ h1[XFF] = h[XFF]
      BY <1>0, <1>1, <1>5, <1>7
    <2>2. /\ h[XFF] \in Seq(Values) /\ h2[XFF] \in Seq(Values) /\ h3[XFF] \in Seq(Values)
      BY <1>0, <1>2, <1>4, MapsGiveValues
    <2>3. IsPrefix(h[XFF], h2[XFF])
      BY <1>3, <2>1, <2>2, PrefixOfAppended, EmptyIsSuffix
    <2>4. CASE h3[XFF] = h2[XFF]
      BY <2>1, <2>3, <2>4
    <2>5. CASE h2[XFF] = <<>>
      <3>1. h[XFF] = <<>>
        BY <2>2, <2>3, <2>5 DEF IsPrefix
      <3> QED
        BY <2>1, <2>2, <3>1, EmptyIsSuffix
    <2> QED
      BY <1>0, <1>4, <2>4, <2>5
  <1> QED
    BY <1>5, <1>6, <1>7

\* removeHopByHopHeaders leaves a header as it is or removes it.
LEMMA HopByHopRemoved ==
  ASSUME NEW h \in HeaderMaps
  PROVE  /\ removeHopByHopHeaders(h) \in HeaderMaps
         /\ \A n \in Names : removeHopByHopHeaders(h)[n] =
              IF n \in Listed(h) \cup {Connection} THEN <<>> ELSE h[n]
PROOF
  <1>1. \A n \in Names : h[n] \in Seq(Values) /\ <<>> \in Seq(Values)
    BY MapsGiveValues
  <1> QED
    BY <1>1 DEF removeHopByHopHeaders, HeaderMaps

\* The backend is sent the request's headers but those Connection lists, and
\* the chain with what the ReverseProxy appends.
LEMMA OutboundKeeps ==
  ASSUME request \in HeaderMaps
  PROVE  /\ Outbound \in HeaderMaps
         /\ \A n \in Names \ {XFF} :
              Outbound[n] = IF n \in Withheld THEN <<>> ELSE request[n]
         /\ XFF \notin Withheld => Outbound[XFF] \in {request[XFF], Append(request[XFF], "peer")}
PROOF
  <1> DEFINE left == removeHopByHopHeaders(request)
  <1>1. CASE settings.way = "direct"
    <2>1. left \in HeaderMaps /\ XFF \in Names /\ "peer" \in Values
      BY HopByHopRemoved, NamesDiffer, ValuesAssumption
    <2>2. Outbound = [left EXCEPT ![XFF] = Append(@, "peer")]
      BY <1>1 DEF Outbound
    <2>3. \A n \in Names : left[n] = IF n \in Withheld THEN <<>> ELSE request[n]
      BY <1>1, HopByHopRemoved DEF Withheld
    <2>4. left[XFF] \in Seq(Values)
      BY <2>1, MapsGiveValues
    <2>5. Append(left[XFF], "peer") \in Seq(Values)
      BY <2>1, <2>4, AppendProperties
    <2> HIDE DEF left
    <2>6. Outbound \in HeaderMaps
      BY <2>1, <2>2, <2>5 DEF HeaderMaps
    <2> QED
      BY <2>1, <2>2, <2>3, <2>6 DEF HeaderMaps
  <1>2. CASE settings.way # "direct"
    BY <1>2 DEF Outbound, Withheld
  <1> QED
    BY <1>1, <1>2

\* ModifyResponse leaves no header of CORS and no "Origin" in Vary.
LEMMA ModifiedResponse ==
  ASSUME NEW reply \in HeaderMaps
  PROVE  /\ ModifyResponse(reply) \in HeaderMaps
         /\ \A n \in corsResponseHeaders : ModifyResponse(reply)[n] = <<>>
         /\ \A i \in DOMAIN ModifyResponse(reply)["Vary"] :
              ModifyResponse(reply)["Vary"][i] # "Origin"
PROOF
  <1>1. \A n \in Names : reply[n] \in Seq(Values) /\ OtherThanOrigin(reply[n]) \in Seq(Values)
    BY MapsGiveValues, NoOriginLeft
  <1>2. ModifyResponse(reply) \in HeaderMaps
    BY <1>1 DEF ModifyResponse, HeaderMaps
  <1>3. \A n \in corsResponseHeaders : n \in Names /\ n # "Vary"
    BY DEF Names, corsResponseHeaders, AllowOrigin, AllowCredentials, AllowMethods,
           AllowHeaders, ExposeHeaders
  <1>4. \A n \in corsResponseHeaders : ModifyResponse(reply)[n] = <<>>
    BY <1>3 DEF ModifyResponse
  <1>5. ModifyResponse(reply)["Vary"] = OtherThanOrigin(reply["Vary"])
    BY <1>3 DEF ModifyResponse, Names
  <1>6. "Vary" \in Names
    BY DEF Names
  <1> QED
    BY <1>1, <1>2, <1>4, <1>5, <1>6, NoOriginLeft

\* What the client gets of the backend's answer begins with what is set
\* already, but for an upgrade.
LEMMA RelayedBehind ==
  ASSUME Chosen, response \in HeaderMaps, NEW reply \in HeaderMaps, NEW switched \in BOOLEAN
  PROVE  /\ Relayed(reply, switched) \in HeaderMaps
         /\ settings.way # "ws" =>
              \A n \in Names : \E s \in Seq(Values) :
                Relayed(reply, switched)[n] = response[n] \o s
PROOF
  <1> DEFINE came == IF switched THEN reply ELSE removeHopByHopHeaders(reply)
  <1>1. ModifyResponse(came) \in HeaderMaps
    BY ModifiedResponse, HopByHopRemoved
  <1>2. CASE settings.way = "direct"
    <2>1. Relayed(reply, switched) = AddAll(response, ModifyResponse(came))
      BY <1>2 DEF Relayed
    <2> HIDE DEF came
    <2> QED
      BY <1>1, <2>1, AddedBy
  <1>3. CASE settings.way = "retry"
    <2>1. Relayed(reply, switched) = AddAll(response, reply)
      BY <1>3 DEF Relayed
    <2> QED
      BY <2>1, AddedBy
  <1>4. CASE settings.way = "ws"
    <2>1. Relayed(reply, switched) = reply
      BY <1>4 DEF Relayed
    <2> QED
      BY <1>4, <2>1
  <1> QED
    BY <1>2, <1>3, <1>4, ChosenFacts

\* CORS adds its headers to a response that has only the ID.
LEMMA CORSSets ==
  ASSUME Typing, SeenInv, IDInv, CORSInv, CORS
  PROVE  /\ response' \in HeaderMaps
         /\ response'[ID] = <<id>>
         /\ \A n \in Names \ {ID} :
              response'[n] = CORSSet[n]
PROOF
  <1>1. CORSSet \in HeaderMaps /\ CORSSet[ID] = <<>>
    BY CORSHeadersType DEF Typing, CORSSet
  <1>2. response \in HeaderMaps /\ response' = AddAll(response, CORSSet)
    <2>1. First(request, "Origin") = First(client.headers, "Origin")
      BY DEF CORS, CORSInv, First
    <2> QED
      BY <2>1 DEF Typing, CORS, CORSSet
  <1>3. response' \in HeaderMaps /\ \A n \in Names : response'[n] = response[n] \o CORSSet[n]
    BY <1>1, <1>2, AddAllType
  <1>4. response'[ID] = <<id>>
    <2>1. response[ID] = <<id>> /\ response[ID] \in Seq(Values)
      BY <1>2, NamesDiffer, MapsGiveValues DEF CORS, IDInv, SeenInv
    <2> QED
      BY <1>1, <1>3, <2>1, NamesDiffer, ConcatEmptySeq
  <1>5. ASSUME NEW n \in Names \ {ID}  PROVE  response'[n] = CORSSet[n]
    <2>1. response[n] = <<>> /\ CORSSet[n] \in Seq(Values)
      BY <1>1, MapsGiveValues DEF CORS, CORSInv
    <2> QED
      BY <1>3, <2>1, ConcatEmptySeq
  <1> QED
    BY <1>3, <1>4, <1>5

-----------------------------------------------------------------------------
(* Each part of the invariant is kept by every step.                        *)

\* History variables and the client's address are set once, at their step.
LEMMA SeenStep ==
  ASSUME Typing, SeenInv, [Next]_vars
  PROVE  SeenInv'
PROOF
  <1> USE DEF SeenInv
  <1>1. CASE RequestID
    BY <1>1 DEF RequestID, First, With, fixed, seen
  <1>2. CASE CORS
    BY <1>2 DEF CORS, Answer, fixed, seen
  <1>3. CASE AnswerItself
    BY <1>3 DEF AnswerItself, Answer, fixed, seen
  <1>4. CASE Matched
    BY <1>4 DEF Matched, fixed, seen
  <1>5. CASE AskAuth
    BY <1>5 DEF AskAuth, fixed, seen
  <1>6. CASE AuthAccepts
    BY <1>6 DEF AuthAccepts, copyAuthHeaders, fixed, seen
  <1>7. CASE AuthRefuses
    BY <1>7 DEF AuthRefuses, Answer, fixed, seen
  <1>8. CASE AuthUnavailable
    BY <1>8 DEF AuthUnavailable, Answer, fixed, seen
  <1>9. CASE Apply
    BY <1>9 DEF Apply, fixed, seen
  <1>10. CASE Forward
    BY <1>10 DEF Forward, Outbound, fixed, seen
  <1>11. CASE Relay
    BY <1>11 DEF Relay, Answer, fixed, seen
  <1>12. CASE Interim
    BY <1>12 DEF Interim, fixed, seen
  <1>13. CASE ProxyError
    BY <1>13 DEF ProxyError, Answer, fixed, seen
  <1>14. CASE UNCHANGED vars
    BY <1>14 DEF vars, fixed, seen
  <1> QED
    BY <1>1, <1>2, <1>3, <1>4, <1>5, <1>6, <1>7, <1>8, <1>9, <1>10, <1>11,
       <1>12, <1>13, <1>14 DEF Next, Done

\* Every map stays a header map.
LEMMA TypeStep ==
  ASSUME Typing, [Next]_vars
  PROVE  Typing'
PROOF
  <1> USE DEF Typing, Chosen
  <1>1. CASE RequestID
    <2>1. id' \in Values /\ ID \in Names
      BY <1>1, MapsGiveValues, FirstIsValue, ValuesAssumption DEF RequestID, First, Names
    <2>2. request' = With(request, ID, id') /\ response' = With(response, ID, id')
      BY <1>1 DEF RequestID
    <2> QED
      BY <1>1, <2>1, <2>2, WithType DEF RequestID, fixed, seen
  <1>2. CASE CORS
    <2>1. response' \in HeaderMaps
      BY <1>2, CORSHeadersType, AddAllType DEF CORS, Chosen
    <2> QED
      BY <1>2, <2>1 DEF CORS, Answer, fixed
  <1>3. CASE AnswerItself
    BY <1>3 DEF AnswerItself, Answer, fixed, seen
  <1>4. CASE Matched
    BY <1>4 DEF Matched, fixed, seen
  <1>5. CASE AskAuth
    <2>1. authSaw' \in HeaderMaps
      BY <1>5, AuthSeesClient DEF AskAuth
    <2> QED
      BY <1>5, <2>1 DEF AskAuth, fixed
  <1>6. CASE AuthAccepts
    <2>1. request' \in HeaderMaps /\ identity' \in HeaderMaps
      BY <1>6, AuthHeadersBehind, RepliesAssumption DEF AuthAccepts
    <2> QED
      BY <1>6, <2>1 DEF AuthAccepts, fixed, seen
  <1>7. CASE AuthRefuses
    <2>1. PICK reply \in AuthReplies : response' =
            [n \in Names |-> IF reply[n] = <<>> THEN response[n] ELSE <<Last(reply[n])>>]
      BY <1>7 DEF AuthRefuses
    <2>2. reply \in HeaderMaps
      BY RepliesAssumption
    <2>3. response' \in HeaderMaps
      BY <2>1, <2>2, FirstIsValue DEF HeaderMaps
    <2> QED
      BY <1>7, <2>3 DEF AuthRefuses, Answer, fixed
  <1>8. CASE AuthUnavailable
    BY <1>8 DEF AuthUnavailable, Answer, fixed, seen
  <1>9. CASE Apply
    <2>1. clientIP' \in Values
      BY <1>9, AddressIsValue DEF Apply
    <2>2. request' \in HeaderMaps
      BY <1>9, <2>1, ApplyKeeps DEF Apply, Chosen
    <2> QED
      BY <1>9, <2>2 DEF Apply, fixed, seen
  <1>10. CASE Forward
    <2>1. backendSaw' \in HeaderMaps
      BY <1>10, OutboundKeeps DEF Forward
    <2> QED
      BY <1>10, <2>1 DEF Forward, fixed
  <1>11. CASE Relay
    <2>1. clientSaw' \in HeaderMaps
      BY <1>11, RelayedBehind, RepliesAssumption DEF Relay, Answer, Chosen
    <2> QED
      BY <1>11, <2>1 DEF Relay, Answer, fixed
  <1>12. CASE Interim
    <2>1. response' \in HeaderMaps
      BY <1>12 DEF Interim, NoHeaders, HeaderMaps
    <2> QED
      BY <1>12, <2>1 DEF Interim, fixed, seen
  <1>13. CASE ProxyError
    BY <1>13 DEF ProxyError, Answer, fixed, seen
  <1>14. CASE UNCHANGED vars
    BY <1>14 DEF vars, fixed, seen
  <1> QED
    BY <1>1, <1>2, <1>3, <1>4, <1>5, <1>6, <1>7, <1>8, <1>9, <1>10, <1>11,
       <1>12, <1>13, <1>14 DEF Next, Done

\* The ID stays where RequestID put it, unless a setting overrules it.
LEMMA IDStep ==
  ASSUME Typing, SeenInv, IDInv, CORSInv, [Next]_vars
  PROVE  IDInv'
PROOF
  <1> USE FirstOfOne, NamesDiffer DEF Typing, IDInv, Overruled
  <1>1. CASE RequestID
    <2>1. id' \in Values /\ ID \in Names
      BY <1>1, MapsGiveValues, FirstIsValue, ValuesAssumption DEF RequestID, First
    <2>2. request'[ID] = <<id'>> /\ response'[ID] = <<id'>>
      BY <1>1, <2>1, WithType DEF RequestID
    <2> QED
      BY <1>1, <2>2 DEF RequestID
  <1>2. CASE CORS
    <2>1. response'[ID] = <<id>>
      BY <1>2, CORSSets
    <2> QED
      BY <1>2, <2>1 DEF CORS, Answer
  <1>3. CASE AnswerItself
    BY <1>3 DEF AnswerItself, Answer, fixed, seen
  <1>4. CASE Matched
    BY <1>4 DEF Matched, fixed, seen
  <1>5. CASE AskAuth
    BY <1>5 DEF AskAuth, fixed, seen
  <1>6. CASE AuthAccepts
    <2>1. PICK reply \in AuthReplies : request' = copyAuthHeaders(reply)
      BY <1>6 DEF AuthAccepts
    <2> DEFINE more == IF ID \in settings.responseHeaders THEN reply[ID] ELSE <<>>
    <2>2. request[ID] \in Seq(Values) /\ reply \in HeaderMaps /\ more \in Seq(Values)
      BY RepliesAssumption, MapsGiveValues
    <2>3. request'[ID] = request[ID] \o more
      BY <2>1, <2>2, AuthHeadersBehind
    <2>4. request[ID] # <<>> /\ Head(request[ID]) = id
      BY <1>6 DEF AuthAccepts
    <2> HIDE DEF more
    <2>5. request'[ID] # <<>> /\ Head(request'[ID]) = id
      BY <2>2, <2>3, <2>4, AddedBehind
    <2> QED
      BY <1>6, <2>5 DEF AuthAccepts
  <1>7. CASE AuthRefuses
    BY <1>7 DEF AuthRefuses, Answer, fixed, seen
  <1>8. CASE AuthUnavailable
    BY <1>8 DEF AuthUnavailable, Answer, fixed, seen
  <1>9. CASE Apply
    <2>1. clientIP' \in Values
      BY <1>9, AddressIsValue DEF Apply
    <2>2. \A n \in Names \ (Overruled \cup {XFF}) : request'[n] = request[n] \/ request[n] = <<>>
      BY <1>9, <2>1, ApplyKeeps DEF Apply
    <2>3. request[ID] # <<>> /\ Head(request[ID]) = id
      BY <1>9 DEF Apply
    <2> QED
      BY <1>9, <2>2, <2>3 DEF Apply, fixed
  <1>10. CASE Forward
    BY <1>10 DEF Forward, Outbound, fixed, seen
  <1>11. CASE Relay
    BY <1>11 DEF Relay, Answer, fixed, seen
  <1>12. CASE Interim
    BY <1>12 DEF Interim, fixed, seen
  <1>13. CASE ProxyError
    BY <1>13 DEF ProxyError, Answer, fixed, seen
  <1>14. CASE UNCHANGED vars
    BY <1>14 DEF vars, fixed, seen
  <1> QED
    BY <1>1, <1>2, <1>3, <1>4, <1>5, <1>6, <1>7, <1>8, <1>9, <1>10, <1>11,
       <1>12, <1>13, <1>14 DEF Next, Done

\* Auth service, backend and client are told the ID as the maps have it.
LEMMA OneIDStep ==
  ASSUME Typing, SeenInv, IDInv, CORSInv, OneRequestID, [Next]_vars
  PROVE  OneRequestID'
PROOF
  <1> USE NamesDiffer DEF Typing, SeenInv, IDInv, OneRequestID, Overruled, Withheld, ForwardHeaders
  <1>1. CASE RequestID
    <2>1. client.headers[ID] \in Seq(Values)
      BY ChosenFacts, MapsGiveValues
    <2>2. client.headers[ID] # <<>> => First(client.headers, ID) # Nil
      BY <2>1, FirstIsValue, ValuesAssumption DEF First
    <2>3. id' = First(client.headers, ID) \/ client.headers[ID] = <<>>
      BY <1>1, <2>2 DEF RequestID
    <2> QED
      BY <1>1, <2>3 DEF RequestID, First, fixed, seen
  <1>2. CASE CORS
    <2>1. First(response', ID) = id
      BY <1>2, CORSSets, FirstOfOne DEF First
    <2> QED
      BY <1>2, <2>1 DEF CORS, Answer, fixed
  <1>3. CASE AnswerItself
    <2>1. First(response, ID) = id
      BY <1>3, FirstOfOne DEF AnswerItself, First
    <2> QED
      BY <1>3, <2>1 DEF AnswerItself, Answer, fixed
  <1>4. CASE Matched
    BY <1>4 DEF Matched, fixed, seen
  <1>5. CASE AskAuth
    <2>1. ID \in ForwardHeaders => authSaw'[ID] = <<id>>
      BY <1>5, AuthSeesClient DEF AskAuth
    <2> QED
      BY <1>5, <2>1 DEF AskAuth, fixed
  <1>6. CASE AuthAccepts
    BY <1>6 DEF AuthAccepts, copyAuthHeaders, fixed, seen
  <1>7. CASE AuthRefuses
    BY <1>7 DEF AuthRefuses, Answer, fixed, seen
  <1>8. CASE AuthUnavailable
    <2>1. First(response, ID) = id
      BY <1>8, FirstOfOne DEF AuthUnavailable, First
    <2> QED
      BY <1>8, <2>1 DEF AuthUnavailable, Answer, fixed
  <1>9. CASE Apply
    BY <1>9 DEF Apply, fixed, seen
  <1>10. CASE Forward
    <2>1. Outbound[ID] = IF ID \in Withheld THEN <<>> ELSE request[ID]
      BY OutboundKeeps
    <2> QED
      BY <1>10, <2>1 DEF Forward, First, fixed
  <1>11. CASE Relay
    <2>1. PICK reply \in BackendReplies, switched \in BOOLEAN :
            clientSaw' = Relayed(reply, switched)
      BY <1>11 DEF Relay, Answer
    <2>2. settings.way # "ws" =>
            \E s \in Seq(Values) : clientSaw'[ID] = response[ID] \o s
      <3>1. reply \in HeaderMaps
        BY RepliesAssumption
      <3>2. settings.way # "ws" =>
              \A n \in Names : \E s \in Seq(Values) :
                Relayed(reply, switched)[n] = response[n] \o s
        BY <3>1, RelayedBehind
      <3> QED
        BY <2>1, <3>2
    <2>3. response[ID] \in Seq(Values) /\ (~interim => response[ID] = <<id>>)
      BY <1>11, MapsGiveValues DEF Relay
    <2>4. settings.way # "ws" /\ ~interim => First(clientSaw', ID) = id
      BY <2>2, <2>3, AddedBehind, FirstOfOne DEF First
    <2> QED
      BY <1>11, <2>4 DEF Relay, Answer, fixed
  <1>12. CASE Interim
    BY <1>12 DEF Interim, fixed, seen
  <1>13. CASE ProxyError
    <2>1. ~interim => First(response, ID) = id
      BY <1>13, FirstOfOne DEF ProxyError, First
    <2> QED
      BY <1>13, <2>1 DEF ProxyError, Answer, fixed
  <1>14. CASE UNCHANGED vars
    BY <1>14 DEF vars, fixed, seen
  <1> QED
    BY <1>1, <1>2, <1>3, <1>4, <1>5, <1>6, <1>7, <1>8, <1>9, <1>10, <1>11,
       <1>12, <1>13, <1>14 DEF Next, Done

\* Configuration and request stay what they are.
LEMMA FixedStep ==
  ASSUME [Next]_vars
  PROVE  settings' = settings /\ client' = client
BY DEF Next, vars, fixed, RequestID, CORS, AnswerItself, Matched, AskAuth, AuthAccepts, AuthRefuses,
       AuthUnavailable, Apply, Forward, Interim, Relay, ProxyError, Done

\* After CORS, nothing writes a response but the step that answers.
LEMMA CORSStep ==
  ASSUME Typing, SeenInv, IDInv, CORSInv, [Next]_vars
  PROVE  CORSInv'
PROOF
  <1>0. CORSSet' = CORSSet
    BY FixedStep DEF CORSSet, CORSHeaders, First
  <1> USE <1>0, NamesDiffer DEF Typing, SeenInv, CORSInv
  <1>1. CASE RequestID
    <2>1. id' \in Values
      BY <1>1, MapsGiveValues, FirstIsValue, ValuesAssumption DEF RequestID, First
    <2>2. \A n \in Names \ {ID} : response'[n] = <<>>
      <3>1. response' = With(response, ID, id')
        BY <1>1 DEF RequestID
      <3>2. \A n \in Names \ {ID} : With(response, ID, id')[n] = response[n]
        <4>1. response \in HeaderMaps
          OBVIOUS
        <4> QED
          BY <2>1, <4>1, WithType
      <3>3. response = NoHeaders
        BY <1>1 DEF RequestID
      <3> QED
        BY <3>1, <3>2, <3>3 DEF NoHeaders
    <2>3. request'["Origin"] = client.headers["Origin"]
      <3>1. request' = With(request, ID, id') /\ request = client.headers
        BY <1>1 DEF RequestID, IDInv
      <3>2. client.headers \in HeaderMaps
        BY ChosenFacts
      <3>3. \A n \in Names \ {ID} : With(client.headers, ID, id')[n] = client.headers[n]
        BY <2>1, <3>2, WithType
      <3> QED
        BY <3>1, <3>3 DEF Names, ID
    <2> QED
      BY <1>1, <2>2, <2>3 DEF RequestID, fixed
  <1>2. CASE CORS
    BY <1>2, CORSSets DEF CORS, Answer
  <1>3. CASE AnswerItself
    BY <1>3 DEF AnswerItself, Answer, fixed, seen
  <1>4. CASE Matched
    BY <1>4 DEF Matched, fixed, seen
  <1>5. CASE AskAuth
    BY <1>5 DEF AskAuth, fixed, seen
  <1>6. CASE AuthAccepts
    BY <1>6 DEF AuthAccepts, copyAuthHeaders, fixed, seen
  <1>7. CASE AuthRefuses
    BY <1>7 DEF AuthRefuses, Answer, fixed, seen
  <1>8. CASE AuthUnavailable
    BY <1>8 DEF AuthUnavailable, Answer, fixed, seen
  <1>9. CASE Apply
    BY <1>9 DEF Apply, fixed, seen
  <1>10. CASE Forward
    BY <1>10 DEF Forward, Outbound, fixed, seen
  <1>11. CASE Relay
    BY <1>11 DEF Relay, Answer, fixed, seen
  <1>12. CASE Interim
    BY <1>12 DEF Interim, fixed, seen
  <1>13. CASE ProxyError
    BY <1>13 DEF ProxyError, Answer, fixed, seen
  <1>14. CASE UNCHANGED vars
    BY <1>14 DEF vars, fixed, seen
  <1> QED
    BY <1>1, <1>2, <1>3, <1>4, <1>5, <1>6, <1>7, <1>8, <1>9, <1>10, <1>11,
       <1>12, <1>13, <1>14 DEF Next, Done

\* Each header of CORS is there at most once where headers are as CORS sets
\* them, and where there are none.
LEMMA SetOnce ==
  ASSUME Chosen, NEW origin, NEW h \in HeaderMaps,
         \/ \A n \in corsResponseHeaders \cup {"Vary"} : h[n] = CORSHeaders(origin)[n]
         \/ h = NoHeaders
  PROVE  /\ \A n \in corsResponseHeaders \cup {"Vary"} : Len(h[n]) <= 1
         /\ \A i, j \in DOMAIN h["Vary"] : i = j
PROOF
  <1>1. \A n \in corsResponseHeaders \cup {"Vary"} : n \in Names
    BY NamesDiffer
  <1>2. \A n \in corsResponseHeaders \cup {"Vary"} : Len(h[n]) <= 1
    <2>1. \A n \in Names : Len(CORSHeaders(origin)[n]) <= 1 /\ Len(NoHeaders[n]) <= 1
      BY CORSHeadersType DEF NoHeaders
    <2> QED
      BY <1>1, <2>1
  <1>3. DOMAIN h["Vary"] = 1..Len(h["Vary"]) /\ Len(h["Vary"]) \in Nat
    <2>1. h["Vary"] \in Seq(Values)
      BY MapsGiveValues, NamesDiffer
    <2> QED
      BY <2>1, LenProperties
  <1> QED
    BY <1>2, <1>3

\* The response to the client has what CORS put there, once.
LEMMA CORSOnceStep ==
  ASSUME Typing, SeenInv, IDInv, CORSInv, CORSHeadersOnce, [Next]_vars
  PROVE  CORSHeadersOnce'
PROOF
  <1>0. CORSSet' = CORSSet
    BY FixedStep DEF CORSSet, CORSHeaders, First
  <1> USE <1>0, NamesDiffer DEF Typing, SeenInv, CORSInv, CORSHeadersOnce
  <1>1. CASE RequestID
    BY <1>1 DEF RequestID, First, With, fixed, seen
  <1>2. CASE CORS
    <2>1. /\ response' \in HeaderMaps
          /\ \A n \in corsResponseHeaders \cup {"Vary"} : response'[n] = CORSSet[n]
      BY <1>2, CORSSets
    <2>2. /\ \A n \in corsResponseHeaders : Len(response'[n]) <= 1
          /\ \A i, j \in DOMAIN response'["Vary"] : i = j
      BY <2>1, SetOnce DEF CORSSet
    <2> QED
      BY <1>2, <2>1, <2>2 DEF CORS, Answer
  <1>3. CASE AnswerItself
    <2>1. /\ \A n \in corsResponseHeaders : Len(response[n]) <= 1 /\ response[n] = CORSSet[n]
          /\ \A i, j \in DOMAIN response["Vary"] : i = j
      BY <1>3, SetOnce DEF AnswerItself, CORSSet
    <2> QED
      BY <1>3, <2>1 DEF AnswerItself, Answer, fixed
  <1>4. CASE Matched
    BY <1>4 DEF Matched, fixed, seen
  <1>5. CASE AskAuth
    BY <1>5 DEF AskAuth, fixed, seen
  <1>6. CASE AuthAccepts
    BY <1>6 DEF AuthAccepts, copyAuthHeaders, fixed, seen
  <1>7. CASE AuthRefuses
    <2>1. PICK reply \in AuthReplies : response' =
            [n \in Names |-> IF reply[n] = <<>> THEN response[n] ELSE <<Last(reply[n])>>]
      BY <1>7 DEF AuthRefuses
    <2>2. \A n \in Names : response[n] \in Seq(Values)
      BY MapsGiveValues
    <2>3. \A n \in corsResponseHeaders \cup {"Vary"} :
            Len(response'[n]) <= 1 /\ DOMAIN response'[n] = 1..Len(response'[n])
      <3>1. \A n \in corsResponseHeaders \cup {"Vary"} : n \in Names /\ Len(response[n]) <= 1
        BY <1>7, SetOnce DEF AuthRefuses, CORSSet
      <3>2. \A v : DOMAIN <<v>> = 1..Len(<<v>>) /\ Len(<<v>>) = 1
        OBVIOUS
      <3>3. \A n \in corsResponseHeaders \cup {"Vary"} :
              response'[n] = response[n] \/ response'[n] = <<Last(reply[n])>>
        BY <2>1, <3>1
      <3>4. \A n \in Names : DOMAIN response[n] = 1..Len(response[n])
        BY <2>2, LenProperties
      <3> TAKE n \in corsResponseHeaders \cup {"Vary"}
      <3>5. CASE response'[n] = response[n]
        BY <3>1, <3>4, <3>5
      <3>6. CASE response'[n] = <<Last(reply[n])>>
        BY <3>2, <3>6
      <3> QED
        BY <3>3, <3>5, <3>6
    <2>4. \A i, j \in DOMAIN response'["Vary"] : i = j
      BY <2>3
    <2> QED
      BY <1>7, <2>3, <2>4 DEF AuthRefuses, Answer
  <1>8. CASE AuthUnavailable
    <2>1. /\ \A n \in corsResponseHeaders : Len(response[n]) <= 1 /\ response[n] = CORSSet[n]
          /\ \A i, j \in DOMAIN response["Vary"] : i = j
      BY <1>8, SetOnce DEF AuthUnavailable, CORSSet
    <2> QED
      BY <1>8, <2>1 DEF AuthUnavailable, Answer, fixed
  <1>9. CASE Apply
    BY <1>9 DEF Apply, fixed, seen
  <1>10. CASE Forward
    BY <1>10 DEF Forward, Outbound, fixed, seen
  <1>11. CASE Relay
    <2>1. PICK reply \in BackendReplies, switched \in BOOLEAN :
            clientSaw' = Relayed(reply, switched)
      BY <1>11 DEF Relay, Answer
    <2>2. SUFFICES ASSUME settings.way = "direct"
                   PROVE  /\ \A n \in corsResponseHeaders :
                               /\ Len(clientSaw'[n]) <= 1
                               /\ clientSaw'[n] = IF interim THEN <<>> ELSE CORSSet[n]
                          /\ \A i, j \in DOMAIN clientSaw'["Vary"] :
                               clientSaw'["Vary"][i] = "Origin" /\ clientSaw'["Vary"][j] = "Origin"
                               => i = j
      BY <1>11 DEF Relay, Answer, fixed
    <2> DEFINE came == IF switched THEN reply ELSE removeHopByHopHeaders(reply)
               modified == ModifyResponse(came)
    <2>3. /\ modified \in HeaderMaps
          /\ \A n \in corsResponseHeaders : modified[n] = <<>>
          /\ \A i \in DOMAIN modified["Vary"] : modified["Vary"][i] # "Origin"
      <3>1. came \in HeaderMaps
        BY HopByHopRemoved, RepliesAssumption
      <3> HIDE DEF came
      <3> QED
        BY <3>1, ModifiedResponse
    <2>4. clientSaw' = AddAll(response, modified)
      BY <2>1, <2>2 DEF Relayed
    <2> HIDE DEF modified, came
    <2>5. \A n \in Names : /\ clientSaw'[n] = response[n] \o modified[n]
                           /\ response[n] \in Seq(Values) /\ modified[n] \in Seq(Values)
      BY <2>3, <2>4, AddAllType, MapsGiveValues
    <2>6. \A n \in corsResponseHeaders \cup {"Vary"} : Len(response[n]) <= 1
      BY <1>11, SetOnce DEF Relay, CORSSet
    <2>7. \A n \in corsResponseHeaders :
            Len(clientSaw'[n]) <= 1 /\ clientSaw'[n] = IF interim THEN <<>> ELSE CORSSet[n]
      <3>1. \A n \in corsResponseHeaders : response[n] = IF interim THEN <<>> ELSE CORSSet[n]
        BY <1>11 DEF Relay, NoHeaders
      <3>2. \A n \in corsResponseHeaders : clientSaw'[n] = response[n]
        <4>1. \A s \in Seq(Values) : s \o <<>> = s
          BY ConcatEmptySeq
        <4>2. \A n \in corsResponseHeaders :
                n \in Names /\ clientSaw'[n] = response[n] \o <<>> /\ response[n] \in Seq(Values)
          BY <2>3, <2>5
        <4> QED
          BY <4>1, <4>2
      <3> QED
        BY <2>6, <3>1, <3>2
    <2>8. Len(response["Vary"]) <= 1
      BY <2>6
    <2>9. ASSUME NEW i \in DOMAIN clientSaw'["Vary"], clientSaw'["Vary"][i] = "Origin"
          PROVE  i = 1
      <3>1. clientSaw'["Vary"] = response["Vary"] \o modified["Vary"]
            /\ response["Vary"] \in Seq(Values) /\ modified["Vary"] \in Seq(Values)
        BY <2>5
      <3>2. /\ i \in 1..(Len(response["Vary"]) + Len(modified["Vary"]))
            /\ Len(response["Vary"]) \in Nat /\ Len(modified["Vary"]) \in Nat
            /\ DOMAIN modified["Vary"] = 1..Len(modified["Vary"])
        <4> HIDE <2>9
        <4>1. \A s, t \in Seq(Values) : /\ DOMAIN (s \o t) = 1..(Len(s) + Len(t))
                                       /\ Len(s) \in Nat /\ DOMAIN t = 1..Len(t)
          BY ConcatProperties, LenProperties
        <4> QED
          BY <3>1, <4>1
      <3>3. i <= Len(response["Vary"])
        <4> SUFFICES ASSUME i > Len(response["Vary"])  PROVE  FALSE
          BY <3>1, <3>2
        <4>1. /\ i - Len(response["Vary"]) \in DOMAIN modified["Vary"]
              /\ clientSaw'["Vary"][i] = modified["Vary"][i - Len(response["Vary"])]
          <5>1. \A s, t \in Seq(Values) : \A k \in 1..(Len(s) + Len(t)) :
                  k > Len(s) => (s \o t)[k] = t[k - Len(s)]
            BY ConcatProperties
          <5>2. i - Len(response["Vary"]) \in DOMAIN modified["Vary"]
            <6>1. \A m, n \in Nat : \A k \in 1..(m + n) : k > m => k - m \in 1..n
              OBVIOUS
            <6> QED
              BY <3>2, <6>1
          <5>3. (response["Vary"] \o modified["Vary"])[i]
                  = modified["Vary"][i - Len(response["Vary"])]
            BY <3>1, <3>2, <5>1
          <5> QED
            BY <3>1, <5>2, <5>3
        <4> QED
          BY <2>3, <2>9, <4>1
      <3> QED
        BY <2>8, <3>1, <3>2, <3>3
    <2> QED
      BY <2>7, <2>9
  <1>12. CASE Interim
    BY <1>12 DEF Interim, fixed, seen
  <1>13. CASE ProxyError
    <2>1. /\ \A n \in corsResponseHeaders :
               Len(response[n]) <= 1 /\ response[n] = IF interim THEN <<>> ELSE CORSSet[n]
          /\ \A i, j \in DOMAIN response["Vary"] : i = j
      <3>1. /\ \A n \in corsResponseHeaders : Len(response[n]) <= 1
            /\ \A i, j \in DOMAIN response["Vary"] : i = j
        BY <1>13, SetOnce DEF ProxyError, CORSSet
      <3> QED
        BY <1>13, <3>1 DEF ProxyError, NoHeaders
    <2> QED
      BY <1>13, <2>1 DEF ProxyError, Answer, fixed
  <1>14. CASE UNCHANGED vars
    BY <1>14 DEF vars, fixed, seen
  <1> QED
    BY <1>1, <1>2, <1>3, <1>4, <1>5, <1>6, <1>7, <1>8, <1>9, <1>10, <1>11,
       <1>12, <1>13, <1>14 DEF Next, Done

\* copyAuthHeaders puts the identity last, and Apply keeps what is there.
LEMMA IdentityStep ==
  ASSUME Typing, SeenInv, IdentityInv, [Next]_vars
  PROVE  IdentityInv'
PROOF
  <1> USE ChosenFacts, NamesDiffer DEF Typing, SeenInv, IdentityInv, Overruled
  <1>1. CASE RequestID
    BY <1>1 DEF RequestID, First, With, fixed, seen
  <1>2. CASE CORS
    BY <1>2 DEF CORS, Answer, fixed, seen
  <1>3. CASE AnswerItself
    BY <1>3 DEF AnswerItself, Answer, fixed, seen
  <1>4. CASE Matched
    <2>1. \A n \in Names : IsSuffix(NoHeaders[n], request[n])
      BY EmptyIsSuffix, MapsGiveValues DEF NoHeaders
    <2> QED
      BY <1>4, <2>1 DEF Matched, fixed
  <1>5. CASE AskAuth
    BY <1>5 DEF AskAuth, fixed, seen
  <1>6. CASE AuthAccepts
    <2>1. PICK reply \in AuthReplies : request' = copyAuthHeaders(reply) /\ identity' = reply
      BY <1>6 DEF AuthAccepts
    <2>2. reply \in HeaderMaps
      BY RepliesAssumption
    <2>3. ASSUME NEW n \in settings.responseHeaders  PROVE  IsSuffix(reply[n], request'[n])
      <3>1. request'[n] = request[n] \o reply[n]
        BY <2>1, <2>2, AuthHeadersBehind
      <3>2. request[n] \in Seq(Values) /\ reply[n] \in Seq(Values)
        BY <2>2, MapsGiveValues
      <3> QED
        BY <3>1, <3>2, AddedBehind
    <2> QED
      BY <1>6, <2>1, <2>3 DEF AuthAccepts, fixed
  <1>7. CASE AuthRefuses
    BY <1>7 DEF AuthRefuses, Answer, fixed, seen
  <1>8. CASE AuthUnavailable
    BY <1>8 DEF AuthUnavailable, Answer, fixed, seen
  <1>9. CASE Apply
    <2>1. clientIP' \in Values
      BY <1>9, AddressIsValue DEF Apply
    <2>2. /\ request' \in HeaderMaps
          /\ \A n \in Names \ (Overruled \cup {XFF}) : request'[n] = request[n] \/ request[n] = <<>>
      BY <1>9, <2>1, ApplyKeeps DEF Apply
    <2>3. ASSUME NEW n \in settings.responseHeaders, n \notin Overruled \cup {XFF}
          PROVE  IsSuffix(identity[n], request'[n])
      <3>1. n \in Names /\ IsSuffix(identity[n], request[n])
        BY <1>9, <2>3 DEF Apply
      <3>2. CASE request[n] = <<>>
        <4>1. identity[n] \in Seq(Values) /\ request'[n] \in Seq(Values)
          BY <2>2, <3>1, MapsGiveValues
        <4>2. identity[n] = <<>>
          BY <3>1, <3>2, <4>1, SuffixOfNothing
        <4> QED
          BY <4>1, <4>2, EmptyIsSuffix
      <3>3. CASE request'[n] = request[n]
        BY <3>1, <3>3
      <3> QED
        BY <2>2, <2>3, <3>1, <3>2, <3>3
    <2> QED
      BY <1>9, <2>3 DEF Apply, fixed
  <1>10. CASE Forward
    BY <1>10 DEF Forward, Outbound, fixed, seen
  <1>11. CASE Relay
    BY <1>11 DEF Relay, Answer, fixed, seen
  <1>12. CASE Interim
    BY <1>12 DEF Interim, fixed, seen
  <1>13. CASE ProxyError
    BY <1>13 DEF ProxyError, Answer, fixed, seen
  <1>14. CASE UNCHANGED vars
    BY <1>14 DEF vars, fixed, seen
  <1> QED
    BY <1>1, <1>2, <1>3, <1>4, <1>5, <1>6, <1>7, <1>8, <1>9, <1>10, <1>11,
       <1>12, <1>13, <1>14 DEF Next, Done

\* The backend is sent the identity with the request.
LEMMA IdentitySeenStep ==
  ASSUME Typing, SeenInv, IdentityInv, IdentityReachesBackend, [Next]_vars
  PROVE  IdentityReachesBackend'
PROOF
  <1> USE DEF Typing, SeenInv, IdentityInv, IdentityReachesBackend, Overruled, Withheld
  <1>1. CASE RequestID
    BY <1>1 DEF RequestID, First, With, fixed, seen
  <1>2. CASE CORS
    BY <1>2 DEF CORS, Answer, fixed, seen
  <1>3. CASE AnswerItself
    BY <1>3 DEF AnswerItself, Answer, fixed, seen
  <1>4. CASE Matched
    BY <1>4 DEF Matched, fixed, seen
  <1>5. CASE AskAuth
    BY <1>5 DEF AskAuth, fixed, seen
  <1>6. CASE AuthAccepts
    BY <1>6 DEF AuthAccepts, copyAuthHeaders, fixed, seen
  <1>7. CASE AuthRefuses
    BY <1>7 DEF AuthRefuses, Answer, fixed, seen
  <1>8. CASE AuthUnavailable
    BY <1>8 DEF AuthUnavailable, Answer, fixed, seen
  <1>9. CASE Apply
    BY <1>9 DEF Apply, fixed, seen
  <1>10. CASE Forward
    <2>1. \A n \in Names \ (Withheld \cup {XFF}) : Outbound[n] = request[n]
      BY OutboundKeeps
    <2>2. settings.responseHeaders \subseteq Names
      BY ChosenFacts
    <2> QED
      BY <1>10, <2>1, <2>2 DEF Forward, fixed
  <1>11. CASE Relay
    BY <1>11 DEF Relay, Answer, fixed, seen
  <1>12. CASE Interim
    BY <1>12 DEF Interim, fixed, seen
  <1>13. CASE ProxyError
    BY <1>13 DEF ProxyError, Answer, fixed, seen
  <1>14. CASE UNCHANGED vars
    BY <1>14 DEF vars, fixed, seen
  <1> QED
    BY <1>1, <1>2, <1>3, <1>4, <1>5, <1>6, <1>7, <1>8, <1>9, <1>10, <1>11,
       <1>12, <1>13, <1>14 DEF Next, Done

\* The chain the client sent stays the beginning of the chain.
LEMMA AddressStep ==
  ASSUME Typing, SeenInv, AddressInv, [Next]_vars
  PROVE  AddressInv'
PROOF
  <1> USE NamesDiffer DEF Typing, SeenInv, AddressInv, Overruled, Withheld
  <1>1. CASE RequestID
    <2>1. id' \in Values
      BY <1>1, MapsGiveValues, FirstIsValue, ValuesAssumption DEF RequestID, First
    <2>2. \A n \in {XFF, RealIP} : request'[n] = request[n]
      BY <1>1, <2>1, WithType DEF RequestID
    <2> QED
      BY <1>1, <2>2 DEF RequestID, fixed, seen, First, AuthClientIP, GetClientIP
  <1>2. CASE CORS
    BY <1>2 DEF CORS, Answer, fixed, seen
  <1>3. CASE AnswerItself
    BY <1>3 DEF AnswerItself, Answer, fixed, seen
  <1>4. CASE Matched
    <2>1. \A n \in {XFF, RealIP} : client.headers[n] \in Seq(Values) /\ NoHeaders[n] = <<>>
      BY ChosenFacts, MapsGiveValues DEF NoHeaders
    <2>2. \A n \in {XFF, RealIP} : client.headers[n] \o <<>> = client.headers[n]
      BY <2>1, ConcatEmptySeq
    <2> QED
      BY <1>4, <2>1, <2>2 DEF Matched, fixed, seen, First, AuthClientIP, GetClientIP
  <1>5. CASE AskAuth
    <2>1. AuthClientIP(request) = AuthClientIP(client.headers)
      BY <1>5 DEF AskAuth, AuthClientIP
    <2>2. First(authSaw', XFF) \in {Nil, AuthClientIP(client.headers)}
      BY <1>5, <2>1, AuthSeesClient DEF AskAuth
    <2> QED
      BY <1>5, <2>2 DEF AskAuth, fixed, AuthClientIP, GetClientIP
  <1>6. CASE AuthAccepts
    <2>1. PICK reply \in AuthReplies : request' = copyAuthHeaders(reply) /\ identity' = reply
      BY <1>6 DEF AuthAccepts
    <2>2. reply \in HeaderMaps
      BY RepliesAssumption
    <2>3. \A n \in {XFF, RealIP} : request'[n] = client.headers[n] \o
            (IF n \in settings.responseHeaders THEN reply[n] ELSE <<>>)
      <3>1. \A n \in Names : request'[n] = request[n] \o
              (IF n \in settings.responseHeaders THEN reply[n] ELSE <<>>)
        BY <2>1, <2>2, AuthHeadersBehind
      <3>2. \A n \in {XFF, RealIP} : request[n] = client.headers[n]
        BY <1>6 DEF AuthAccepts
      <3> QED
        BY <3>1, <3>2
    <2> QED
      BY <1>6, <2>1, <2>3 DEF AuthAccepts, fixed, seen, First, AuthClientIP, GetClientIP
  <1>7. CASE AuthRefuses
    BY <1>7 DEF AuthRefuses, Answer, fixed, seen
  <1>8. CASE AuthUnavailable
    BY <1>8 DEF AuthUnavailable, Answer, fixed, seen
  <1>9. CASE Apply
    <2>1. clientIP' \in Values
      BY <1>9, AddressIsValue DEF Apply
    <2>2. XFF \notin Overruled => IsPrefix(request[XFF], request'[XFF]) /\ request' \in HeaderMaps
      BY <1>9, <2>1, ApplyKeeps DEF Apply
    <2> DEFINE said(n) == IF n \in settings.responseHeaders THEN identity[n] ELSE <<>>
    <2>3. \A n \in {XFF, RealIP} :
            /\ client.headers[n] \in Seq(Values) /\ said(n) \in Seq(Values)
            /\ request[n] = client.headers[n] \o said(n)
      <3>1. \A n \in {XFF, RealIP} :
              client.headers[n] \in Seq(Values) /\ identity[n] \in Seq(Values)
        BY ChosenFacts, MapsGiveValues
      <3>2. \A n \in {XFF, RealIP} : said(n) \in Seq(Values)
        BY <3>1
      <3>3. \A n \in {XFF, RealIP} : request[n] = client.headers[n] \o said(n)
        BY <1>9 DEF Apply
      <3> QED
        BY <3>1, <3>2, <3>3
    <2>4. XFF \notin Overruled => IsPrefix(client.headers[XFF], request'[XFF])
      <3>1. IsPrefix(client.headers[XFF], request[XFF]) /\ request[XFF] \in Seq(Values)
        <4> HIDE DEF said
        <4>1. /\ client.headers[XFF] \in Seq(Values) /\ said(XFF) \in Seq(Values)
              /\ request[XFF] = client.headers[XFF] \o said(XFF)
          BY <2>3
        <4> QED
          BY <4>1, AddedBehind
      <3>2. request' \in HeaderMaps => request'[XFF] \in Seq(Values)
        BY MapsGiveValues
      <3> QED
        BY <2>2, <2>3, <3>1, <3>2, PrefixOfPrefix
    <2>5. \/ clientIP' = GetClientIP(client.headers)
          \/ \E n \in settings.responseHeaders \cap {XFF, RealIP} : identity[n] # <<>>
      <3> SUFFICES ASSUME \A n \in {XFF, RealIP} : said(n) = <<>>
                   PROVE  clientIP' = GetClientIP(client.headers)
        OBVIOUS
      <3>1. request[XFF] = client.headers[XFF] /\ request[RealIP] = client.headers[RealIP]
        BY <2>3, ConcatEmptySeq
      <3> QED
        BY <1>9, <3>1 DEF Apply, GetClientIP
    <2> HIDE DEF said
    <2> QED
      BY <1>9, <2>4, <2>5 DEF Apply, fixed, seen, First, AuthClientIP, GetClientIP
  <1>10. CASE Forward
    <2>1. IsPrefix(client.headers[XFF], request[XFF]) /\ XFF \notin Withheld
            => IsPrefix(client.headers[XFF], Outbound[XFF])
      <3>1. /\ client.headers[XFF] \in Seq(Values) /\ request[XFF] \in Seq(Values)
            /\ "peer" \in Values
        BY ChosenFacts, MapsGiveValues, ValuesAssumption
      <3>2. XFF \notin Withheld => Outbound[XFF] \in {request[XFF], Append(request[XFF], "peer")}
        BY OutboundKeeps
      <3>3. IsPrefix(client.headers[XFF], request[XFF])
              => IsPrefix(client.headers[XFF], Append(request[XFF], "peer"))
        BY <3>1, PrefixOfAppended
      <3> QED
        BY <3>2, <3>3
    <2> QED
      BY <1>10, <2>1 DEF Forward, fixed, seen, First, AuthClientIP, GetClientIP
  <1>11. CASE Relay
    BY <1>11 DEF Relay, Answer, fixed, seen
  <1>12. CASE Interim
    BY <1>12 DEF Interim, fixed, seen
  <1>13. CASE ProxyError
    BY <1>13 DEF ProxyError, Answer, fixed, seen
  <1>14. CASE UNCHANGED vars
    BY <1>14 DEF vars, fixed, seen
  <1> QED
    BY <1>1, <1>2, <1>3, <1>4, <1>5, <1>6, <1>7, <1>8, <1>9, <1>10, <1>11,
       <1>12, <1>13, <1>14 DEF Next, Done

\* What the two functions that look for the client's address find.
LEMMA SameAddress ==
  ASSUME Typing, AddressInv  PROVE  ClientAddressKept
PROOF
  <1>1. ~(client.headers[XFF] # <<>> /\ client.headers[RealIP] # <<>>)
          => AuthClientIP(client.headers) = GetClientIP(client.headers)
    BY DEF AuthClientIP, GetClientIP
  <1> QED
    BY <1>1 DEF AddressInv, ClientAddressKept

-----------------------------------------------------------------------------

\* All of it holds in the beginning.
LEMMA InitInv == Init => Inv
PROOF
  <1> SUFFICES ASSUME Init  PROVE  Inv
    OBVIOUS
  <1>1. Chosen /\ client.headers \in HeaderMaps
    BY ChosenFacts DEF Init, Chosen
  <1>2. NoHeaders \in HeaderMaps
    BY DEF NoHeaders, HeaderMaps
  <1>3. Typing
    BY <1>1, <1>2 DEF Init, Typing
  <1>4. SeenInv /\ IDInv /\ CORSInv /\ IdentityInv /\ AddressInv
    BY DEF Init, SeenInv, IDInv, CORSInv, IdentityInv, AddressInv
  <1>5. OneRequestID /\ CORSHeadersOnce /\ IdentityReachesBackend
    BY DEF Init, OneRequestID, CORSHeadersOnce, IdentityReachesBackend
  <1> QED
    BY <1>3, <1>4, <1>5 DEF Inv

\* The invariant holds of a request from the client to the answer.
THEOREM Invariance == Spec => []Inv
PROOF
  <1>1. Inv /\ [Next]_vars => Inv'
    BY TypeStep, SeenStep, IDStep, OneIDStep, CORSStep, CORSOnceStep, IdentityStep,
       IdentitySeenStep, AddressStep DEF Inv
  <1> QED
    BY <1>1, InitInv, PTL DEF Spec

\* One ID, whatever ID the client sent and whatever IDs auth service and backend
\* answer with, also where Connection lists it, when the backend gets none, and
\* after an interim response, when the client gets none (RequestID,
\* forwardHeaders, copyAuthHeaders, Apply, serveDirect, serveWithRetry).
THEOREM OneID == Spec => []OneRequestID
BY Invariance, PTL DEF Inv

\* The backend adds nothing to the headers of CORS and no second "Origin" to
\* Vary, however many values it sends and whether or not it sends an interim
\* response, which only takes them away (ModifyResponse of serveDirect).
THEOREM CORSOnce == Spec => []CORSHeadersOnce
BY Invariance, PTL DEF Inv

\* The identity is what the backend reads last under each name it is for that
\* Connection does not list (copyAuthHeaders, Apply, and the three ways of
\* proxying).
THEOREM IdentityArrives == Spec => []IdentityReachesBackend
BY Invariance, PTL DEF Inv

\* The chain of addresses is only ever added to, unless Connection lists it on
\* the direct path, and getClientIP and GetClientIP agree unless two addresses are named.
THEOREM AddressKept == Spec => []ClientAddressKept
PROOF
  <1>1. Inv => ClientAddressKept
    BY SameAddress DEF Inv
  <1> QED
    BY <1>1, Invariance, PTL

=============================================================================
