--------------------------- MODULE GatewayProofs ----------------------------
(***************************************************************************)
(* Proofs about Gateway, for any number of requests, any IDs clients send   *)
(* and any statuses: admission, the log entries and what is left in the     *)
(* logger's map.                                                            *)
(***************************************************************************)
EXTENDS Gateway, TLAPS

\* Admission: which points a refused or misplaced request never reaches.
Admitted(r) ==
  /\ ~shape[r].preflight
  /\ shape[r].target = "open" \/ (shape[r].target = "guarded" /\ allowed[r])

AdmissionInv ==
  \A r \in Requests :
    /\ pc[r] \in {"probe", "match", "auth", "logFailure"} => ~shape[r].preflight
    /\ pc[r] = "auth" => shape[r].target = "guarded"
    /\ pc[r] \in {"headers", "logRequest", "proxy", "tunnel", "piped", "logResponse", "recover"}
         => Admitted(r)
    /\ outcome[r] # "none" => Admitted(r)

Unlogged == {"tunnel", "noTunnel", "cut", "panicked"}

\* A stored context is that of a request on its way to the backend or back, or
\* of one that LogResponse has passed by; it is stored under that request's ID.
ContextInv ==
  /\ ~logging => DOMAIN requests = {}
  /\ \A i \in DOMAIN requests :
       /\ logId[requests[i]] = i
       /\ \/ pc[requests[i]] \in {"proxy", "tunnel", "piped", "logResponse", "recover"}
          \/ pc[requests[i]] \in {"flush", "done"} /\ outcome[requests[i]] \in Unlogged
  /\ \A r \in Requests :
       /\ pc[r] = "recover" => outcome[r] \in {"cut", "panicked"}
       /\ pc[r] = "piped" => outcome[r] = "tunnel"

\* The IDs a request can be logged under: the one it is given, RequestID's,
\* LogRequest's.
IdsOf(r) == {Given(r), FreshId(r, 1), FreshId(r, 2)} \ {NoId}

\* Between LogRequest and LogResponse a request whose ID is its own is stored.
IdInv ==
  \A r \in Requests :
    /\ pc[r] = "requestID" => id[r] = shape[r].id
    /\ pc[r] \in {"cors", "probe", "match", "auth", "headers"}
         => id[r] \in {shape[r].id, FreshId(r, 1)} \ {NoId}
    /\ pc[r] = "logRequest" => id[r] \in IdsOf(r) \cup {NoId}
    /\ logging /\ pc[r] \in {"proxy", "logResponse"} => logId[r] \in IdsOf(r)
    /\ logging /\ pc[r] \in {"proxy", "logResponse"} /\ OwnId(r)
         => logId[r] \in DOMAIN requests /\ requests[logId[r]] = r
    /\ entries[r] # NoEntry /\ OwnId(r) => entries[r].of = r

\* There is no entry before the end, and what it will say is gin's status, sent
\* already or still to be sent.
StatusInv ==
  \A r \in Requests :
    /\ pc[r] \notin {"flush", "done"} \/ outcome[r] = "tunnel" => entries[r] = NoEntry
    /\ pc[r] \in {"requestID", "cors", "probe", "match", "auth", "headers", "logRequest",
                  "proxy", "tunnel"} => sent[r] = 0
    /\ pc[r] = "logFailure" => sent[r] \in {0, status[r]}
    /\ pc[r] = "logResponse" /\ outcome[r] \notin {"interim", "silent"}
         => wrapped[r] = status[r] /\ sent[r] \in {0, status[r]}
    /\ pc[r] = "flush" /\ entries[r] # NoEntry /\ outcome[r] \notin {"interim", "silent"}
         => entries[r].status = status[r] /\ sent[r] \in {0, status[r]}

\* Proxying has an outcome when it is over, not before.
OutcomeInv ==
  \A r \in Requests :
    /\ pc[r] \in {"requestID", "cors", "probe", "match", "auth", "logFailure",
                 "headers", "logRequest", "proxy", "tunnel"} => outcome[r] = "none"
    /\ pc[r] = "piped" => outcome[r] = "tunnel"
    /\ pc[r] \in {"logResponse", "recover"} => outcome[r] \notin {"none", "tunnel"}

Inv ==
  /\ TypeOK /\ AdmissionInv /\ ContextInv /\ IdInv /\ OutcomeInv
  /\ StatusInv /\ LoggedStatusIsSent

-----------------------------------------------------------------------------

\* The statuses the gateway and gin write themselves.
LEMMA KnownStatuses == {101, 103, 200, 204, 404, 500, 502} \subseteq StatusCodes
  BY DEF StatusCodes

\* Every step keeps the types.
LEMMA TypeStep == TypeOK /\ [Next]_vars => TypeOK'
  <1> SUFFICES ASSUME TypeOK, [Next]_vars PROVE TypeOK'
    OBVIOUS
  <1> USE ShapesAssumption, IdsAssumption, StatusesAssumption, KnownStatuses
      DEF TypeOK, Ids, FreshIds
  <1>1. ASSUME NEW r \in Requests, Handle(r) \/ Tunnel(r) PROVE TypeOK'
    <2>1. CASE RequestID(r)
      BY <2>1 DEF RequestID, Goto, fixed, FreshId
    <2>2. CASE CORS(r)
      BY <2>2 DEF CORS, Goto, fixed, Write
    <2>3. CASE Probe(r)
      BY <2>3 DEF Probe, Goto, fixed, Write
    <2>4. CASE Match(r)
      BY <2>4 DEF Match, Goto, fixed, Write
    <2>5. CASE AuthAccepts(r)
      BY <2>5 DEF AuthAccepts, Goto, fixed
    <2>6. CASE AuthRefuses(r)
      BY <2>6 DEF AuthRefuses, Goto, fixed, Write
    <2>7. CASE LogFailure(r)
      BY <2>7 DEF LogFailure, Goto, fixed, Log
    <2>8. CASE Apply(r)
      <3>1. shape[r].sets \in ConfiguredIds \cup {NoId, Unset}
        BY DEF RequestShapes
      <3> QED
        BY <2>8, <3>1 DEF Apply, Goto, fixed
    <2>9. CASE LogRequest(r)
      BY <2>9 DEF LogRequest, Goto, fixed, LogId, FreshId, Storing
    <2>10. CASE TunnelFails(r)
      BY <2>10 DEF TunnelFails, Goto, fixed, Write
    <2>11. CASE Hijack(r)
      BY <2>11 DEF Hijack, Goto, fixed
    <2>12. CASE BackendAnswers(r)
      BY <2>12 DEF BackendAnswers, fixed
    <2>13. CASE TunnelEnds(r)
      BY <2>13 DEF TunnelEnds, Goto, fixed
    <2>14. CASE ProxyAnswers(r)
      BY <2>14 DEF ProxyAnswers, Goto, fixed, Write
    <2>15. CASE ProxySilent(r)
      BY <2>15 DEF ProxySilent, Goto, fixed
    <2>16. CASE ProxyPanics(r)
      BY <2>16 DEF ProxyPanics, Goto, fixed, Write
    <2>17. CASE LogResponse(r)
      BY <2>17 DEF LogResponse, Goto, fixed, Log, Stored, Without
    <2>18. CASE Recovery(r)
      BY <2>18 DEF Recovery, Goto, fixed
    <2>19. CASE Flush(r)
      BY <2>19 DEF Flush, Goto, fixed
    <2> QED
      BY <1>1, <2>1, <2>2, <2>3, <2>4, <2>5, <2>6, <2>7, <2>8, <2>9, <2>10,
         <2>11, <2>12, <2>13, <2>14, <2>15, <2>16, <2>17, <2>18, <2>19 DEF Handle, Tunnel
  <1>2. CASE UNCHANGED vars
    BY <1>2 DEF vars, fixed
  <1> QED
    BY <1>1, <1>2 DEF Next, Done

\* No step lets a request past admission but those that admit it.
LEMMA AdmissionStep == TypeOK /\ AdmissionInv /\ [Next]_vars => AdmissionInv'
  <1> SUFFICES ASSUME TypeOK, AdmissionInv, [Next]_vars PROVE AdmissionInv'
    OBVIOUS
  <1> USE DEF TypeOK, AdmissionInv, Admitted
  <1>1. ASSUME NEW r \in Requests, Handle(r) \/ Tunnel(r) PROVE AdmissionInv'
    <2>1. CASE RequestID(r)
      BY <2>1 DEF RequestID, Goto, fixed, FreshId
    <2>2. CASE CORS(r)
      BY <2>2 DEF CORS, Goto, fixed, Write
    <2>3. CASE Probe(r)
      BY <2>3 DEF Probe, Goto, fixed, Write
    <2>4. CASE Match(r)
      BY <2>4 DEF Match, Goto, fixed, Write
    <2>5. CASE AuthAccepts(r)
      BY <2>5 DEF AuthAccepts, Goto, fixed
    <2>6. CASE AuthRefuses(r)
      BY <2>6 DEF AuthRefuses, Goto, fixed, Write
    <2>7. CASE LogFailure(r)
      BY <2>7 DEF LogFailure, Goto, fixed, Log
    <2>8. CASE Apply(r)
      BY <2>8 DEF Apply, Goto, fixed
    <2>9. CASE LogRequest(r)
      BY <2>9 DEF LogRequest, Goto, fixed, LogId, FreshId, Storing
    <2>10. CASE TunnelFails(r)
      BY <2>10 DEF TunnelFails, Goto, fixed, Write
    <2>11. CASE Hijack(r)
      BY <2>11 DEF Hijack, Goto, fixed
    <2>12. CASE BackendAnswers(r)
      BY <2>12 DEF BackendAnswers, fixed
    <2>13. CASE TunnelEnds(r)
      BY <2>13 DEF TunnelEnds, Goto, fixed
    <2>14. CASE ProxyAnswers(r)
      BY <2>14 DEF ProxyAnswers, Goto, fixed, Write
    <2>15. CASE ProxySilent(r)
      BY <2>15 DEF ProxySilent, Goto, fixed
    <2>16. CASE ProxyPanics(r)
      BY <2>16 DEF ProxyPanics, Goto, fixed, Write
    <2>17. CASE LogResponse(r)
      BY <2>17 DEF LogResponse, Goto, fixed, Log, Stored, Without
    <2>18. CASE Recovery(r)
      BY <2>18 DEF Recovery, Goto, fixed
    <2>19. CASE Flush(r)
      BY <2>19 DEF Flush, Goto, fixed
    <2> QED
      BY <1>1, <2>1, <2>2, <2>3, <2>4, <2>5, <2>6, <2>7, <2>8, <2>9, <2>10,
         <2>11, <2>12, <2>13, <2>14, <2>15, <2>16, <2>17, <2>18, <2>19 DEF Handle, Tunnel
  <1>2. CASE UNCHANGED vars
    BY <1>2 DEF vars, fixed
  <1> QED
    BY <1>1, <1>2 DEF Next, Done

\* Only proxying gives a request its outcome.
LEMMA OutcomeStep == TypeOK /\ OutcomeInv /\ [Next]_vars => OutcomeInv'
  <1> SUFFICES ASSUME TypeOK, OutcomeInv, [Next]_vars PROVE OutcomeInv'
    OBVIOUS
  <1> USE DEF TypeOK, OutcomeInv
  <1>1. ASSUME NEW r \in Requests, Handle(r) \/ Tunnel(r) PROVE OutcomeInv'
    <2>1. CASE RequestID(r)
      BY <2>1 DEF RequestID, Goto, fixed, FreshId
    <2>2. CASE CORS(r)
      BY <2>2 DEF CORS, Goto, fixed, Write
    <2>3. CASE Probe(r)
      BY <2>3 DEF Probe, Goto, fixed, Write
    <2>4. CASE Match(r)
      BY <2>4 DEF Match, Goto, fixed, Write
    <2>5. CASE AuthAccepts(r)
      BY <2>5 DEF AuthAccepts, Goto, fixed
    <2>6. CASE AuthRefuses(r)
      BY <2>6 DEF AuthRefuses, Goto, fixed, Write
    <2>7. CASE LogFailure(r)
      BY <2>7 DEF LogFailure, Goto, fixed, Log
    <2>8. CASE Apply(r)
      BY <2>8 DEF Apply, Goto, fixed
    <2>9. CASE LogRequest(r)
      BY <2>9 DEF LogRequest, Goto, fixed, LogId, FreshId, Storing
    <2>10. CASE TunnelFails(r)
      BY <2>10 DEF TunnelFails, Goto, fixed, Write
    <2>11. CASE Hijack(r)
      BY <2>11 DEF Hijack, Goto, fixed
    <2>12. CASE BackendAnswers(r)
      BY <2>12 DEF BackendAnswers, fixed
    <2>13. CASE TunnelEnds(r)
      BY <2>13 DEF TunnelEnds, Goto, fixed
    <2>14. CASE ProxyAnswers(r)
      BY <2>14 DEF ProxyAnswers, Goto, fixed, Write
    <2>15. CASE ProxySilent(r)
      BY <2>15 DEF ProxySilent, Goto, fixed
    <2>16. CASE ProxyPanics(r)
      BY <2>16 DEF ProxyPanics, Goto, fixed, Write
    <2>17. CASE LogResponse(r)
      BY <2>17 DEF LogResponse, Goto, fixed, Log, Stored, Without
    <2>18. CASE Recovery(r)
      BY <2>18 DEF Recovery, Goto, fixed
    <2>19. CASE Flush(r)
      BY <2>19 DEF Flush, Goto, fixed
    <2> QED
      BY <1>1, <2>1, <2>2, <2>3, <2>4, <2>5, <2>6, <2>7, <2>8, <2>9, <2>10,
         <2>11, <2>12, <2>13, <2>14, <2>15, <2>16, <2>17, <2>18, <2>19 DEF Handle, Tunnel
  <1>2. CASE UNCHANGED vars
    BY <1>2 DEF vars, fixed
  <1> QED
    BY <1>1, <1>2 DEF Next, Done

\* Every step leaves contexts only of requests that LogResponse will still
\* see or has passed by.
LEMMA ContextStep == TypeOK /\ ContextInv /\ [Next]_vars => ContextInv'
  <1> SUFFICES ASSUME TypeOK, ContextInv, [Next]_vars PROVE ContextInv'
    OBVIOUS
  <1> USE IdsAssumption DEF TypeOK, ContextInv, Unlogged
  <1>1. ASSUME NEW r \in Requests, Handle(r) \/ Tunnel(r) PROVE ContextInv'
    <2>1. CASE RequestID(r)
      BY <2>1 DEF RequestID, Goto, fixed, FreshId
    <2>2. CASE CORS(r)
      BY <2>2 DEF CORS, Goto, fixed, Write
    <2>3. CASE Probe(r)
      BY <2>3 DEF Probe, Goto, fixed, Write
    <2>4. CASE Match(r)
      BY <2>4 DEF Match, Goto, fixed, Write
    <2>5. CASE AuthAccepts(r)
      BY <2>5 DEF AuthAccepts, Goto, fixed
    <2>6. CASE AuthRefuses(r)
      BY <2>6 DEF AuthRefuses, Goto, fixed, Write
    <2>7. CASE LogFailure(r)
      BY <2>7 DEF LogFailure, Goto, fixed, Log
    <2>8. CASE Apply(r)
      BY <2>8 DEF Apply, Goto, fixed
    <2>9. CASE LogRequest(r)
      BY <2>9 DEF LogRequest, Goto, fixed, LogId, FreshId, Storing
    <2>10. CASE TunnelFails(r)
      BY <2>10 DEF TunnelFails, Goto, fixed, Write
    <2>11. CASE Hijack(r)
      BY <2>11 DEF Hijack, Goto, fixed
    <2>12. CASE BackendAnswers(r)
      BY <2>12 DEF BackendAnswers, fixed
    <2>13. CASE TunnelEnds(r)
      BY <2>13 DEF TunnelEnds, Goto, fixed
    <2>14. CASE ProxyAnswers(r)
      BY <2>14 DEF ProxyAnswers, Goto, fixed, Write
    <2>15. CASE ProxySilent(r)
      BY <2>15 DEF ProxySilent, Goto, fixed
    <2>16. CASE ProxyPanics(r)
      BY <2>16 DEF ProxyPanics, Goto, fixed, Write
    <2>17. CASE LogResponse(r)
      <3>1. ASSUME NEW i \in DOMAIN requests'
            PROVE  i \in DOMAIN requests /\ requests'[i] = requests[i] /\ requests[i] # r
        BY <2>17 DEF LogResponse, Without
      <3>2. /\ \A q \in Requests \ {r} : pc'[q] = pc[q]
            /\ pc'[r] = "flush"
            /\ UNCHANGED <<logging, logId, outcome>>
        BY <2>17 DEF LogResponse, Goto, fixed
      <3>3. \A i \in DOMAIN requests' : requests[i] \in Requests \ {r}
        BY <3>1
      <3>4. \A q \in Requests :
              /\ pc'[q] = "recover" => outcome'[q] \in {"cut", "panicked"}
              /\ pc'[q] = "piped" => outcome'[q] = "tunnel"
        BY <3>2
      <3>5. ~logging' => DOMAIN requests' = {}
        BY <3>1, <3>2
      <3>6. ASSUME NEW i \in DOMAIN requests'
            PROVE  /\ logId'[requests'[i]] = i
                   /\ \/ pc'[requests'[i]] \in {"proxy", "tunnel", "piped", "logResponse", "recover"}
                      \/ /\ pc'[requests'[i]] \in {"flush", "done"}
                         /\ outcome'[requests'[i]] \in Unlogged
        BY <3>1, <3>2, <3>3, <3>6
      <3> QED
        BY <3>4, <3>5, <3>6
    <2>18. CASE Recovery(r)
      BY <2>18 DEF Recovery, Goto, fixed
    <2>19. CASE Flush(r)
      BY <2>19 DEF Flush, Goto, fixed
    <2> QED
      BY <1>1, <2>1, <2>2, <2>3, <2>4, <2>5, <2>6, <2>7, <2>8, <2>9, <2>10,
         <2>11, <2>12, <2>13, <2>14, <2>15, <2>16, <2>17, <2>18, <2>19 DEF Handle, Tunnel
  <1>2. CASE UNCHANGED vars
    BY <1>2 DEF vars, fixed
  <1> QED
    BY <1>1, <1>2 DEF Next, Done

\* A request with an ID of its own is known by none of another's.
LEMMA IdsDisjoint ==
  ASSUME TypeOK, NEW q \in Requests, NEW r \in Requests, q # r, OwnId(q)
  PROVE  IdsOf(q) \cap IdsOf(r) = {}
  <1>1. \A s \in {q, r} : Given(s) \in ClientIds \cup ConfiguredIds \cup {NoId}
    BY ShapesAssumption DEF TypeOK, RequestShapes, Given
  <1>2. Given(q) = NoId \/ Given(q) # Given(r)
    BY DEF OwnId
  <1> QED
    BY <1>1, <1>2, IdsAssumption DEF IdsOf, FreshId, FreshIds

\* Which IDs they are is fixed.
LEMMA IdsFixed ==
  UNCHANGED fixed =>
    \A q \in Requests : IdsOf(q)' = IdsOf(q) /\ (OwnId(q)' <=> OwnId(q))
  BY DEF fixed, IdsOf, OwnId, Given, FreshId

\* No step replaces or takes the context of a request with an ID of its own but
\* that request's LogResponse.
LEMMA IdStep == TypeOK /\ IdInv /\ [Next]_vars => IdInv'
  <1> SUFFICES ASSUME TypeOK, IdInv, [Next]_vars PROVE IdInv'
    OBVIOUS
  <1> USE ShapesAssumption, IdsAssumption DEF TypeOK, IdInv, IdsOf, OwnId, Given, FreshIds, Ids
  <1>1. ASSUME NEW r \in Requests, Handle(r) \/ Tunnel(r) PROVE IdInv'
    <2>1. CASE RequestID(r)
      BY <2>1 DEF RequestID, Goto, fixed, FreshId
    <2>2. CASE CORS(r)
      BY <2>2 DEF CORS, Goto, fixed, Write
    <2>3. CASE Probe(r)
      BY <2>3 DEF Probe, Goto, fixed, Write
    <2>4. CASE Match(r)
      BY <2>4 DEF Match, Goto, fixed, Write
    <2>5. CASE AuthAccepts(r)
      BY <2>5 DEF AuthAccepts, Goto, fixed
    <2>6. CASE AuthRefuses(r)
      BY <2>6 DEF AuthRefuses, Goto, fixed, Write
    <2>7. CASE LogFailure(r)
      BY <2>7 DEF LogFailure, Goto, fixed, Log
    <2>8. CASE Apply(r)
      BY <2>8 DEF Apply, Goto, fixed
    <2>9. CASE LogRequest(r)
      <3>1. /\ \A q \in Requests \ {r} : pc'[q] = pc[q]
            /\ pc[r] = "logRequest"
            /\ UNCHANGED <<fixed, id, entries>>
        BY <2>9 DEF LogRequest, Goto, fixed
      <3>2. LogId(r) \in IdsOf(r)
        <4> HIDE DEF OwnId, Given
        <4> QED
          BY <3>1 DEF LogId, FreshId
      <3>3. CASE logging
        <4>1. /\ logId' = [logId EXCEPT ![r] = LogId(r)]
              /\ requests' = [j \in DOMAIN requests \cup {LogId(r)} |->
                                IF j = LogId(r) THEN r ELSE requests[j]]
              /\ pc'[r] \in {"tunnel", "proxy"}
          BY <2>9, <3>3 DEF LogRequest, Storing, Goto
        <4> HIDE DEF IdsOf, OwnId, Given
        <4>2. \A q \in Requests \ {r} :
                logId[q] \in IdsOf(q) /\ OwnId(q) => logId[q] # LogId(r)
          BY <3>2, IdsDisjoint DEF TypeOK
        <4>3. \A q \in Requests : IdsOf(q)' = IdsOf(q) /\ (OwnId(q)' <=> OwnId(q))
          BY <3>1, IdsFixed
        <4>4. UNCHANGED <<logging, shape>>
          BY <3>1 DEF fixed
        <4>5. \A q \in Requests : FreshId(q, 1)' = FreshId(q, 1)
          BY DEF FreshId
        <4> QED
          BY <3>1, <3>2, <3>3, <4>1, <4>2, <4>3, <4>4, <4>5
      <3>4. CASE ~logging
        BY <2>9, <3>4 DEF LogRequest, Goto, fixed, FreshId
      <3> QED
        BY <3>3, <3>4
    <2>10. CASE TunnelFails(r)
      BY <2>10 DEF TunnelFails, Goto, fixed, Write
    <2>11. CASE Hijack(r)
      BY <2>11 DEF Hijack, Goto, fixed
    <2>12. CASE BackendAnswers(r)
      BY <2>12 DEF BackendAnswers, fixed
    <2>13. CASE TunnelEnds(r)
      BY <2>13 DEF TunnelEnds, Goto, fixed
    <2>14. CASE ProxyAnswers(r)
      BY <2>14 DEF ProxyAnswers, Goto, fixed, Write
    <2>15. CASE ProxySilent(r)
      BY <2>15 DEF ProxySilent, Goto, fixed
    <2>16. CASE ProxyPanics(r)
      BY <2>16 DEF ProxyPanics, Goto, fixed, Write
    <2>17. CASE LogResponse(r)
      <3>1. /\ \A q \in Requests \ {r} : pc'[q] = pc[q] /\ entries'[q] = entries[q]
            /\ pc[r] = "logResponse" /\ pc'[r] = "flush"
            /\ UNCHANGED <<fixed, id, logId>>
        BY <2>17 DEF LogResponse, Log, Goto, fixed
      <3>2. \A q \in Requests : IdsOf(q)' = IdsOf(q) /\ (OwnId(q)' <=> OwnId(q))
        BY <3>1, IdsFixed
      <3>3. logging => requests' = [j \in DOMAIN requests \ {logId[r]} |-> requests[j]]
        BY <2>17 DEF LogResponse, Without
      <3>4. logging =>
              \A q \in Requests \ {r} :
                logId[q] \in IdsOf(q) /\ OwnId(q) => logId[q] # logId[r]
        <4> HIDE DEF IdsOf, OwnId, Given
        <4> QED
          BY <3>1, IdsDisjoint DEF TypeOK
      <3>5. entries'[r] # NoEntry => logging \/ entries'[r] = entries[r]
        BY <2>17 DEF LogResponse, Log
      <3>6. logging /\ OwnId(r) => entries'[r].of = r
        BY <2>17 DEF LogResponse, Log, Stored
      <3>7. UNCHANGED <<logging, shape>>
        BY <3>1 DEF fixed
      <3>8. \A q \in Requests : FreshId(q, 1)' = FreshId(q, 1)
        BY DEF FreshId
      <3> HIDE DEF IdsOf, OwnId, Given
      <3> QED
        BY <3>1, <3>2, <3>3, <3>4, <3>5, <3>6, <3>7, <3>8
    <2>18. CASE Recovery(r)
      BY <2>18 DEF Recovery, Goto, fixed
    <2>19. CASE Flush(r)
      BY <2>19 DEF Flush, Goto, fixed
    <2> QED
      BY <1>1, <2>1, <2>2, <2>3, <2>4, <2>5, <2>6, <2>7, <2>8, <2>9, <2>10,
         <2>11, <2>12, <2>13, <2>14, <2>15, <2>16, <2>17, <2>18, <2>19 DEF Handle, Tunnel
  <1>2. CASE UNCHANGED vars
    BY <1>2 DEF vars, fixed
  <1> QED
    BY <1>1, <1>2 DEF Next, Done

\* Every step keeps the status in an entry, or to be put in one, at gin's.
LEMMA StatusStep == TypeOK /\ OutcomeInv /\ StatusInv /\ [Next]_vars => StatusInv'
  <1> SUFFICES ASSUME TypeOK, OutcomeInv, StatusInv, [Next]_vars PROVE StatusInv'
    OBVIOUS
  <1> USE StatusesAssumption DEF TypeOK, OutcomeInv, StatusInv, StatusCodes
  <1>1. ASSUME NEW r \in Requests, Handle(r) \/ Tunnel(r) PROVE StatusInv'
    <2>1. CASE RequestID(r)
      BY <2>1 DEF RequestID, Goto, fixed, FreshId
    <2>2. CASE CORS(r)
      BY <2>2 DEF CORS, Goto, fixed, Write
    <2>3. CASE Probe(r)
      BY <2>3 DEF Probe, Goto, fixed, Write
    <2>4. CASE Match(r)
      BY <2>4 DEF Match, Goto, fixed, Write
    <2>5. CASE AuthAccepts(r)
      BY <2>5 DEF AuthAccepts, Goto, fixed
    <2>6. CASE AuthRefuses(r)
      BY <2>6 DEF AuthRefuses, Goto, fixed, Write
    <2>7. CASE LogFailure(r)
      BY <2>7 DEF LogFailure, Goto, fixed, Log
    <2>8. CASE Apply(r)
      BY <2>8 DEF Apply, Goto, fixed
    <2>9. CASE LogRequest(r)
      BY <2>9 DEF LogRequest, Goto, fixed, LogId, FreshId, Storing
    <2>10. CASE TunnelFails(r)
      BY <2>10 DEF TunnelFails, Goto, fixed, Write
    <2>11. CASE Hijack(r)
      BY <2>11 DEF Hijack, Goto, fixed
    <2>12. CASE BackendAnswers(r)
      BY <2>12 DEF BackendAnswers, fixed
    <2>13. CASE TunnelEnds(r)
      BY <2>13 DEF TunnelEnds, Goto, fixed
    <2>14. CASE ProxyAnswers(r)
      BY <2>14 DEF ProxyAnswers, Goto, fixed, Write
    <2>15. CASE ProxySilent(r)
      BY <2>15 DEF ProxySilent, Goto, fixed
    <2>16. CASE ProxyPanics(r)
      BY <2>16 DEF ProxyPanics, Goto, fixed, Write
    <2>17. CASE LogResponse(r)
      BY <2>17 DEF LogResponse, Goto, fixed, Log, Stored, Without
    <2>18. CASE Recovery(r)
      BY <2>18 DEF Recovery, Goto, fixed
    <2>19. CASE Flush(r)
      BY <2>19 DEF Flush, Goto, fixed
    <2> QED
      BY <1>1, <2>1, <2>2, <2>3, <2>4, <2>5, <2>6, <2>7, <2>8, <2>9, <2>10,
         <2>11, <2>12, <2>13, <2>14, <2>15, <2>16, <2>17, <2>18, <2>19 DEF Handle, Tunnel
  <1>2. CASE UNCHANGED vars
    BY <1>2 DEF vars, fixed
  <1> QED
    BY <1>1, <1>2 DEF Next, Done

\* Flush sends what was logged.
LEMMA LoggedStep == TypeOK /\ StatusInv /\ LoggedStatusIsSent /\ [Next]_vars => LoggedStatusIsSent'
  <1> SUFFICES ASSUME TypeOK, StatusInv, LoggedStatusIsSent, [Next]_vars PROVE LoggedStatusIsSent'
    OBVIOUS
  <1> USE DEF TypeOK, StatusInv, LoggedStatusIsSent, StatusCodes
  <1>1. ASSUME NEW r \in Requests, Handle(r) \/ Tunnel(r) PROVE LoggedStatusIsSent'
    <2>1. CASE RequestID(r)
      BY <2>1 DEF RequestID, Goto, fixed, FreshId
    <2>2. CASE CORS(r)
      BY <2>2 DEF CORS, Goto, fixed, Write
    <2>3. CASE Probe(r)
      BY <2>3 DEF Probe, Goto, fixed, Write
    <2>4. CASE Match(r)
      BY <2>4 DEF Match, Goto, fixed, Write
    <2>5. CASE AuthAccepts(r)
      BY <2>5 DEF AuthAccepts, Goto, fixed
    <2>6. CASE AuthRefuses(r)
      BY <2>6 DEF AuthRefuses, Goto, fixed, Write
    <2>7. CASE LogFailure(r)
      BY <2>7 DEF LogFailure, Goto, fixed, Log
    <2>8. CASE Apply(r)
      BY <2>8 DEF Apply, Goto, fixed
    <2>9. CASE LogRequest(r)
      BY <2>9 DEF LogRequest, Goto, fixed, LogId, FreshId, Storing
    <2>10. CASE TunnelFails(r)
      BY <2>10 DEF TunnelFails, Goto, fixed, Write
    <2>11. CASE Hijack(r)
      BY <2>11 DEF Hijack, Goto, fixed
    <2>12. CASE BackendAnswers(r)
      BY <2>12 DEF BackendAnswers, fixed
    <2>13. CASE TunnelEnds(r)
      BY <2>13 DEF TunnelEnds, Goto, fixed
    <2>14. CASE ProxyAnswers(r)
      BY <2>14 DEF ProxyAnswers, Goto, fixed, Write
    <2>15. CASE ProxySilent(r)
      BY <2>15 DEF ProxySilent, Goto, fixed
    <2>16. CASE ProxyPanics(r)
      BY <2>16 DEF ProxyPanics, Goto, fixed, Write
    <2>17. CASE LogResponse(r)
      BY <2>17 DEF LogResponse, Goto, fixed, Log, Stored, Without
    <2>18. CASE Recovery(r)
      BY <2>18 DEF Recovery, Goto, fixed
    <2>19. CASE Flush(r)
      BY <2>19 DEF Flush, Goto, fixed
    <2> QED
      BY <1>1, <2>1, <2>2, <2>3, <2>4, <2>5, <2>6, <2>7, <2>8, <2>9, <2>10,
         <2>11, <2>12, <2>13, <2>14, <2>15, <2>16, <2>17, <2>18, <2>19 DEF Handle, Tunnel
  <1>2. CASE UNCHANGED vars
    BY <1>2 DEF vars, fixed
  <1> QED
    BY <1>1, <1>2 DEF Next, Done

-----------------------------------------------------------------------------

\* The initial states satisfy the invariant.
LEMMA InitInv == Init => Inv
  <1> SUFFICES ASSUME Init PROVE Inv
    OBVIOUS
  <1>1. TypeOK
    BY ShapesAssumption, KnownStatuses DEF Init, TypeOK, RequestShapes, Ids
  <1>2. AdmissionInv /\ OutcomeInv
    BY DEF Init, AdmissionInv, OutcomeInv
  <1>3. ContextInv
    BY DEF Init, ContextInv
  <1>4. IdInv
    BY ShapesAssumption, IdsAssumption DEF Init, IdInv
  <1>5. StatusInv /\ LoggedStatusIsSent
    BY DEF Init, StatusInv, LoggedStatusIsSent
  <1> QED
    BY <1>1, <1>2, <1>3, <1>4, <1>5 DEF Inv

(***************************************************************************)
(* The inductive invariant of the gateway: types, and at each point of a    *)
(* request whether it is admitted, whose context is stored under its ID,    *)
(* and which status gin holds, has sent and will find logged.               *)
(***************************************************************************)
THEOREM Invariance == Spec => []Inv
  <1>1. Inv /\ [Next]_vars => Inv'
    BY TypeStep, AdmissionStep, OutcomeStep, ContextStep, IdStep, StatusStep, LoggedStep DEF Inv
  <1> QED
    BY <1>1, InitInv, PTL DEF Spec

\* Every variable keeps its type: IDs, statuses and entries are what they seem.
THEOREM TypeCorrect == Spec => []TypeOK
  <1>1. Inv => TypeOK
    BY DEF Inv
  <1> QED
    BY <1>1, Invariance, PTL

(***************************************************************************)
(* However many requests interleave, no request gets to a backend that is   *)
(* OPTIONS, has no route, or is refused by the auth service its route asks: *)
(* the early return of ProxyHandler is on every such path.                  *)
(***************************************************************************)
THEOREM AdmissionHolds == Spec => []OnlyAdmittedReachBackend
  <1>1. Inv => OnlyAdmittedReachBackend
    BY DEF Inv, AdmissionInv, Admitted, OnlyAdmittedReachBackend, InBackendsHands
  <1> QED
    BY <1>1, Invariance, PTL

(***************************************************************************)
(* A log entry is about its own request for any number of requests and      *)
(* whatever headers.remove and headers.add do to the ID, if neither they    *)
(* nor the clients give another the same, and none guesses a generated one. *)
(***************************************************************************)
THEOREM EntriesCorrect == Spec => []EntryNamesItsRequest
  <1>1. Inv => EntryNamesItsRequest
    BY DEF Inv, IdInv, EntryNamesItsRequest
  <1> QED
    BY <1>1, Invariance, PTL

(***************************************************************************)
(* Whatever IDs the requests share, a context is left behind in the map     *)
(* only by an upgrade or a panic.                                           *)
(***************************************************************************)
THEOREM LeftOvers == Spec => []LeftOverOnlyUnlogged
  <1>1. Inv => LeftOverOnlyUnlogged
    BY DEF Inv, ContextInv, Unlogged, LeftOverOnlyUnlogged
  <1> QED
    BY <1>1, Invariance, PTL

(***************************************************************************)
(* The logged status is the one sent, but for informational responses and   *)
(* clients that went away.                                                  *)
(***************************************************************************)
THEOREM LoggedStatusCorrect == Spec => []LoggedStatusIsSent
  <1>1. Inv => LoggedStatusIsSent
    BY DEF Inv
  <1> QED
    BY <1>1, Invariance, PTL

-----------------------------------------------------------------------------
(* The life of a request.                                                   *)

\* A step of one request leaves the stages of the others alone.
LEMMA StagesStep ==
  ASSUME TypeOK, NEW r \in Requests, UNCHANGED fixed,
         pc' = [pc EXCEPT ![r] = pc'[r]],
         outcome' = [outcome EXCEPT ![r] = outcome'[r]]
  PROVE  /\ Owners' = Owners
         /\ Stages' = [Stages EXCEPT ![r] = Stages'[r]]
         /\ Stages[r] = Stage(r) /\ Stages'[r] = Stage(r)'
  <1>1. \A q \in Requests \ {r} : Stage(q)' = Stage(q)
    BY DEF TypeOK, Stage
  <1>2. Owners' = Owners
    BY DEF Owners, OwnId, Given, fixed
  <1> QED
    BY <1>1, <1>2 DEF Stages

\* The stages in terms of pc, where the handlers are.
Located ==
  \A r \in Requests :
    /\ pc[r] \in {"requestID", "cors", "probe", "match", "auth"} => Stage(r) = "arrived"
    /\ pc[r] \in {"headers", "logRequest", "proxy", "tunnel"} => Stage(r) = "admitted"
    /\ pc[r] = "logFailure" => Stage(r) = "local"
    /\ pc[r] = "piped" => Stage(r) = "served"
    /\ pc[r] \in {"logResponse", "recover"} => Stage(r) \in {"served", "unclear"}
    /\ pc[r] \in {"flush", "done"} /\ outcome[r] = "none" => Stage(r) = "local"
    /\ outcome[r] \in {"interim", "silent"} <=> Stage(r) = "unclear"
    /\ outcome[r] \notin {"none", "interim", "silent"} => Stage(r) = "served"

LEMMA StageFacts == OutcomeInv => Located
  BY DEF OutcomeInv, Stage, Located

\* A handler moves its own request.
LEMMA OneMoves ==
  ASSUME TypeOK, NEW r \in Requests, Handle(r) \/ Tunnel(r)
  PROVE  /\ UNCHANGED fixed
         /\ pc' = [pc EXCEPT ![r] = pc'[r]]
         /\ outcome' = [outcome EXCEPT ![r] = outcome'[r]]
  <1> USE DEF TypeOK, fixed, Goto
  <1>1. CASE RequestID(r) \/ CORS(r) \/ Probe(r) \/ Match(r)
    BY <1>1 DEF RequestID, CORS, Probe, Match
  <1>2. CASE AuthAccepts(r) \/ AuthRefuses(r) \/ LogFailure(r)
    BY <1>2 DEF AuthAccepts, AuthRefuses, LogFailure
  <1>3. CASE Apply(r) \/ LogRequest(r)
    BY <1>3 DEF Apply, LogRequest
  <1>4. CASE Tunnel(r)
    BY <1>4 DEF Tunnel, TunnelFails, Hijack, BackendAnswers, TunnelEnds, Write
  <1>5. CASE ProxyAnswers(r) \/ ProxySilent(r) \/ ProxyPanics(r)
    BY <1>5 DEF ProxyAnswers, ProxySilent, ProxyPanics
  <1>6. CASE LogResponse(r) \/ Recovery(r) \/ Flush(r)
    BY <1>6 DEF LogResponse, Recovery, Flush
  <1> QED
    BY <1>1, <1>2, <1>3, <1>4, <1>5, <1>6 DEF Handle

(***************************************************************************)
(* Every step of a request is a step of its life, or none.                  *)
(***************************************************************************)
LEMMA HandleImplements ==
  ASSUME Inv, Inv', NEW r \in Requests, Handle(r) \/ Tunnel(r)
  PROVE  Life!LifeNext \/ UNCHANGED Life!lifeVars
  <1> DEFINE Heard == /\ sent[r] = 0 /\ sent'[r] \in StatusCodes
                      /\ sent' = [sent EXCEPT ![r] = sent'[r]]
             Goal == Life!LifeNext \/ UNCHANGED Life!lifeVars
  <1>1. Located /\ Located'
    BY StageFacts, PTL DEF Inv
  <1>2. /\ Owners' = Owners
        /\ Stages' = [Stages EXCEPT ![r] = Stages'[r]]
        /\ Stages[r] = Stage(r) /\ Stages'[r] = Stage(r)'
        /\ Stages = [q \in Requests |-> Stage(q)]
    BY OneMoves, StagesStep DEF Inv, Stages
  <1>3. TypeOK /\ StatusInv /\ ContextInv /\ IdInv /\ OutcomeInv
    BY DEF Inv
  \* How the steps of a life show.
  <1>4. ASSUME Stage(r)' = Stage(r), UNCHANGED <<sent, entries>>  PROVE  Goal
    <2>1. Stages' = Stages
      BY <1>2, <1>4
    <2> QED
      BY <1>2, <1>4, <2>1 DEF Life!lifeVars
  <1>5. ASSUME Stage(r) = "arrived", Stage(r)' = "local", Heard \/ UNCHANGED sent,
               UNCHANGED entries
        PROVE  Goal
    BY <1>2, <1>5 DEF Life!LifeNext, Life!Keep, Life!Enter, Life!Hear, Life!OnlyFor
  <1>6. ASSUME Stage(r) = "arrived", Stage(r)' = "admitted", UNCHANGED <<sent, entries>>
        PROVE  Goal
    BY <1>2, <1>6 DEF Life!LifeNext, Life!Admit, Life!Enter
  <1>7. ASSUME Stage(r) = "admitted", Stage(r)' \in {"served", "unclear"},
               Heard \/ UNCHANGED sent, UNCHANGED entries
        PROVE  Goal
    BY <1>2, <1>7 DEF Life!LifeNext, Life!Serve, Life!Enter, Life!Hear, Life!OnlyFor
  <1>8. ASSUME Stage(r)' = Stage(r), Stage(r) \in {"local", "served", "unclear"},
               Heard, UNCHANGED entries,
               Stage(r) # "unclear" /\ entries[r] # NoEntry => entries[r].status = sent'[r]
        PROVE  Goal
    <2>1. Stages' = Stages
      BY <1>2, <1>8
    <2>2. Life!Reply(r)
      BY <1>2, <1>8, <2>1 DEF Life!Reply, Life!Carried, Life!Hear, Life!OnlyFor, Life!Agree
    <2> QED
      BY <2>2 DEF Life!LifeNext
  <1>9. ASSUME NEW of, NEW s \in StatusCodes,
               Stage(r)' = Stage(r), Stage(r) \in {"local", "served", "unclear"},
               UNCHANGED sent,
               entries[r] = NoEntry,
               entries' = [entries EXCEPT ![r] = [of |-> of, status |-> s]],
               \/ of = r
               \/ /\ ~OwnId(r) /\ Stage(r) # "local"
                  /\ of = Nobody \/ (of \in Requests /\ Stage(of) \notin {"arrived", "local"}),
               Stage(r) # "unclear" /\ sent[r] # 0 => s = sent[r]
        PROVE  Goal
    <2>1. Stages' = Stages
      BY <1>2, <1>9
    <2>2. entries'[r] = [of |-> of, status |-> s]
      BY <1>3, <1>9 DEF TypeOK
    <2>3. of \in {r} \cup Life!Subjects(r)
      BY <1>2, <1>9 DEF Life!Subjects, Owners
    <2>4. entries'[r] \in [of : {r} \cup Life!Subjects(r), status : StatusCodes]
      BY <2>2, <2>3
    <2>5. entries'[r].status = s
      BY <2>2
    <2>6. Life!Agree(r)'
      BY <1>2, <1>9, <2>1, <2>5 DEF Life!Agree
    <2>7. Life!OnlyFor(r, entries) /\ Life!Carried(r) /\ UNCHANGED <<Owners, Stages, sent>>
      BY <1>2, <1>9, <2>1, <2>2 DEF Life!OnlyFor, Life!Carried
    <2>8. Life!Record(r)
      BY <1>9, <2>4, <2>6, <2>7 DEF Life!Record
    <2> QED
      BY <2>8 DEF Life!LifeNext
  <1> SUFFICES Goal
    OBVIOUS
  <1> HIDE DEF Goal
  \* The handlers, one by one.
  <1>10. CASE RequestID(r)
    <2>1. /\ pc[r] = "requestID" /\ pc'[r] = "cors"
          /\ UNCHANGED <<sent, entries, outcome>>
      BY <1>3, <1>10 DEF RequestID, TypeOK, Goto, fixed
    <2>2. Stage(r)' = Stage(r)
      BY <1>1, <2>1 DEF Located
    <2> QED
      BY <1>4, <2>1, <2>2
  <1>11. CASE CORS(r)
    <2>1. CASE shape[r].preflight
      <3>1. /\ pc[r] = "cors" /\ pc'[r] = "flush" /\ outcome'[r] = "none"
            /\ Heard /\ UNCHANGED entries
        BY <1>3, <1>11, <2>1, KnownStatuses
        DEF CORS, Write, Goto, TypeOK, StatusInv, OutcomeInv
      <3>2. Stage(r) = "arrived" /\ Stage(r)' = "local"
        BY <1>1, <3>1 DEF Located
      <3> QED
        BY <1>5, <3>1, <3>2
    <2>2. CASE ~shape[r].preflight
      <3>1. pc[r] = "cors" /\ pc'[r] \in {"probe", "match"} /\ UNCHANGED <<sent, entries>>
        BY <1>3, <1>11, <2>2 DEF CORS, Goto, TypeOK
      <3>2. Stage(r)' = Stage(r)
        BY <1>1, <3>1 DEF Located
      <3> QED
        BY <1>4, <3>1, <3>2
    <2> QED
      BY <2>1, <2>2
  <1>12. CASE Probe(r)
    <2>1. /\ pc[r] = "probe" /\ pc'[r] = "flush" /\ outcome'[r] = "none"
          /\ Heard /\ UNCHANGED entries
      BY <1>3, <1>12, KnownStatuses DEF Probe, Write, Goto, TypeOK, StatusInv, OutcomeInv
    <2>2. Stage(r) = "arrived" /\ Stage(r)' = "local"
      BY <1>1, <2>1 DEF Located
    <2> QED
      BY <1>5, <2>1, <2>2
  <1>13. CASE Match(r)
    <2>1. CASE shape[r].target \in {"unrouted", "misconfigured"}
      <3>1. /\ pc[r] = "match" /\ pc'[r] = "flush" /\ outcome'[r] = "none"
            /\ Heard /\ UNCHANGED entries
        BY <1>3, <1>13, <2>1, KnownStatuses
        DEF Match, Write, Goto, TypeOK, StatusInv, OutcomeInv
      <3>2. Stage(r) = "arrived" /\ Stage(r)' = "local"
        BY <1>1, <3>1 DEF Located
      <3> QED
        BY <1>5, <3>1, <3>2
    <2>2. CASE shape[r].target = "guarded"
      <3>1. pc[r] = "match" /\ pc'[r] = "auth" /\ UNCHANGED <<sent, entries>>
        BY <1>3, <1>13, <2>2 DEF Match, Goto, TypeOK
      <3>2. Stage(r)' = Stage(r)
        BY <1>1, <3>1 DEF Located
      <3> QED
        BY <1>4, <3>1, <3>2
    <2>3. CASE shape[r].target = "open"
      <3>1. pc[r] = "match" /\ pc'[r] = "headers" /\ UNCHANGED <<sent, entries>>
        BY <1>3, <1>13, <2>3 DEF Match, Goto, TypeOK
      <3>2. Stage(r) = "arrived" /\ Stage(r)' = "admitted"
        BY <1>1, <3>1 DEF Located
      <3> QED
        BY <1>6, <3>1, <3>2
    <2> QED
      BY <1>13, <2>1, <2>2, <2>3 DEF Match
  <1>14. CASE AuthAccepts(r)
    <2>1. pc[r] = "auth" /\ pc'[r] = "headers" /\ UNCHANGED <<sent, entries>>
      BY <1>3, <1>14 DEF AuthAccepts, Goto, TypeOK
    <2>2. Stage(r) = "arrived" /\ Stage(r)' = "admitted"
      BY <1>1, <2>1 DEF Located
    <2> QED
      BY <1>6, <2>1, <2>2
  <1>15. CASE AuthRefuses(r)
    <2>1. pc[r] = "auth" /\ pc'[r] = "logFailure" /\ UNCHANGED entries
      BY <1>3, <1>15 DEF AuthRefuses, Goto, TypeOK
    <2>2. Heard \/ UNCHANGED sent
      BY <1>3, <1>15, KnownStatuses, StatusesAssumption
      DEF AuthRefuses, Write, TypeOK, StatusInv
    <2>3. Stage(r) = "arrived" /\ Stage(r)' = "local"
      BY <1>1, <2>1 DEF Located
    <2> QED
      BY <1>5, <2>1, <2>2, <2>3
  <1>16. CASE LogFailure(r)
    <2>1. /\ pc[r] = "logFailure" /\ pc'[r] = "flush" /\ outcome'[r] = "none"
          /\ UNCHANGED sent
      BY <1>3, <1>16 DEF LogFailure, Goto, TypeOK, OutcomeInv
    <2>2. Stage(r) = "local" /\ Stage(r)' = "local"
      BY <1>1, <2>1 DEF Located
    <2>3. CASE logging
      <3>1. entries' = [entries EXCEPT ![r] = [of |-> r, status |-> status[r]]]
        BY <1>16, <2>3 DEF LogFailure, Log
      <3>2. /\ status[r] \in StatusCodes /\ entries[r] = NoEntry
            /\ sent[r] # 0 => status[r] = sent[r]
        BY <1>3, <2>1 DEF TypeOK, StatusInv
      <3> QED
        BY <1>9, <2>1, <2>2, <3>1, <3>2
    <2>4. CASE ~logging
      BY <1>4, <1>16, <2>1, <2>2, <2>4 DEF LogFailure, Log
    <2> QED
      BY <2>3, <2>4
  <1>17. CASE Apply(r)
    <2>1. pc[r] = "headers" /\ pc'[r] = "logRequest" /\ UNCHANGED <<sent, entries>>
      BY <1>3, <1>17 DEF Apply, Goto, TypeOK
    <2>2. Stage(r)' = Stage(r)
      BY <1>1, <2>1 DEF Located
    <2> QED
      BY <1>4, <2>1, <2>2
  <1>18. CASE LogRequest(r)
    <2>1. pc[r] = "logRequest" /\ pc'[r] \in {"tunnel", "proxy"} /\ UNCHANGED <<sent, entries>>
      BY <1>3, <1>18 DEF LogRequest, Goto, TypeOK
    <2>2. Stage(r)' = Stage(r)
      BY <1>1, <2>1 DEF Located
    <2> QED
      BY <1>4, <2>1, <2>2
  <1>19. CASE TunnelFails(r)
    <2>1. pc[r] = "tunnel" /\ outcome'[r] = "noTunnel" /\ UNCHANGED entries
      BY <1>3, <1>19 DEF TunnelFails, TypeOK
    <2>2. Heard
      BY <1>3, <1>19, KnownStatuses DEF TunnelFails, Write, TypeOK, StatusInv
    <2>3. Stage(r) = "admitted" /\ Stage(r)' = "served"
      BY <1>1, <2>1 DEF Located
    <2> QED
      BY <1>7, <2>1, <2>2, <2>3
  <1>20. CASE Hijack(r)
    <2>1. pc[r] = "tunnel" /\ outcome'[r] = "tunnel" /\ UNCHANGED <<sent, entries>>
      BY <1>3, <1>20 DEF Hijack, TypeOK
    <2>2. Stage(r) = "admitted" /\ Stage(r)' = "served"
      BY <1>1, <2>1 DEF Located
    <2> QED
      BY <1>7, <2>1, <2>2
  <1>21. CASE BackendAnswers(r)
    <2>1. pc[r] = "piped" /\ UNCHANGED <<pc, outcome, entries>> /\ entries[r] = NoEntry
      BY <1>3, <1>21 DEF BackendAnswers, StatusInv
    <2>2. Heard
      BY <1>3, <1>21, KnownStatuses, StatusesAssumption DEF BackendAnswers, TypeOK
    <2>3. Stage(r)' = Stage(r) /\ Stage(r) = "served"
      BY <1>1, <2>1 DEF Located
    <2> QED
      BY <1>8, <2>1, <2>2, <2>3
  <1>22. CASE TunnelEnds(r)
    <2>1. pc[r] = "piped" /\ outcome[r] = "tunnel" /\ UNCHANGED <<outcome, sent, entries>>
      BY <1>3, <1>22 DEF TunnelEnds, OutcomeInv
    <2>2. Stage(r)' = Stage(r)
      BY <1>1, <2>1 DEF Located
    <2> QED
      BY <1>4, <2>1, <2>2
  <1>23. CASE ProxyAnswers(r)
    <2>1. /\ pc[r] = "proxy" /\ outcome'[r] \in {"interim", "answered"}
          /\ UNCHANGED entries
      BY <1>3, <1>23 DEF ProxyAnswers, TypeOK
    <2>2. Heard \/ UNCHANGED sent
      <3>1. sent[r] = 0
        BY <1>3, <2>1 DEF StatusInv
      <3>2. PICK s \in Statuses, body \in BOOLEAN : Write(r, s, body)
        BY <1>23 DEF ProxyAnswers
      <3> QED
        BY <1>3, <3>1, <3>2, StatusesAssumption DEF Write, TypeOK
    <2>3. Stage(r) = "admitted" /\ Stage(r)' \in {"served", "unclear"}
      BY <1>1, <2>1 DEF Located
    <2> QED
      BY <1>7, <2>1, <2>2, <2>3
  <1>24. CASE ProxySilent(r)
    <2>1. pc[r] = "proxy" /\ outcome'[r] = "silent" /\ UNCHANGED <<sent, entries>>
      BY <1>3, <1>24 DEF ProxySilent, TypeOK
    <2>2. Stage(r) = "admitted" /\ Stage(r)' = "unclear"
      BY <1>1, <2>1 DEF Located
    <2> QED
      BY <1>7, <2>1, <2>2
  <1>25. CASE ProxyPanics(r)
    <2>1. /\ pc[r] = "proxy" /\ outcome'[r] \in {"cut", "panicked"}
          /\ UNCHANGED entries
      BY <1>3, <1>25 DEF ProxyPanics, TypeOK
    <2>2. Heard \/ UNCHANGED sent
      BY <1>3, <1>25, StatusesAssumption DEF ProxyPanics, Write, TypeOK, StatusInv
    <2>3. Stage(r) = "admitted" /\ Stage(r)' = "served"
      BY <1>1, <2>1 DEF Located
    <2> QED
      BY <1>7, <2>1, <2>2, <2>3
  <1>26. CASE LogResponse(r)
    <2>1. /\ pc[r] = "logResponse" /\ pc'[r] = "flush"
          /\ outcome[r] # "none" /\ UNCHANGED <<outcome, sent>>
      BY <1>3, <1>26 DEF LogResponse, Goto, TypeOK, OutcomeInv
    <2>2. Stage(r)' = Stage(r) /\ Stage(r) \in {"served", "unclear"}
      BY <1>1, <2>1 DEF Located
    <2>3. CASE logging
      <3> DEFINE of == Stored(logId[r])
      <3>1. entries' = [entries EXCEPT ![r] = [of |-> of, status |-> wrapped[r]]]
        BY <1>26, <2>3 DEF LogResponse, Log
      <3>2. wrapped[r] \in StatusCodes /\ entries[r] = NoEntry
        BY <1>3, <2>1 DEF TypeOK, StatusInv
      <3>3. Stage(r) # "unclear" /\ sent[r] # 0 => wrapped[r] = sent[r]
        BY <1>1, <1>3, <2>1 DEF Located, StatusInv
      <3>4. of = Nobody \/ (of \in Requests /\ Stage(of) \notin {"arrived", "local"})
        <4>1. CASE logId[r] \in DOMAIN requests
          <5>1. of = requests[logId[r]] /\ of \in Requests
            BY <1>3, <4>1 DEF Stored, TypeOK
          <5>2. \/ pc[of] \in {"proxy", "tunnel", "piped", "logResponse", "recover"}
                \/ outcome[of] \in Unlogged
            BY <1>3, <4>1, <5>1 DEF ContextInv
          <5> QED
            BY <1>1, <5>1, <5>2 DEF Located, Unlogged
        <4>2. CASE logId[r] \notin DOMAIN requests
          BY <4>2 DEF Stored
        <4> QED
          BY <4>1, <4>2
      <3>5. OwnId(r) => of = r
        BY <1>3, <2>1, <2>3 DEF IdInv, Stored
      <3> HIDE DEF of
      <3> QED
        BY <1>9, <2>1, <2>2, <3>1, <3>2, <3>3, <3>4, <3>5
    <2>4. CASE ~logging
      BY <1>4, <1>26, <2>1, <2>2, <2>4 DEF LogResponse, Log
    <2> QED
      BY <2>3, <2>4
  <1>27. CASE Recovery(r)
    <2>1. /\ pc[r] = "recover" /\ outcome[r] \in {"cut", "panicked"}
          /\ UNCHANGED <<outcome, sent, entries>>
      BY <1>3, <1>27 DEF Recovery, ContextInv
    <2>2. Stage(r)' = Stage(r)
      BY <1>1, <2>1 DEF Located
    <2> QED
      BY <1>4, <2>1, <2>2
  <1>28. CASE Flush(r)
    <2>1. pc[r] = "flush" /\ pc'[r] = "done" /\ UNCHANGED <<outcome, entries>>
      BY <1>3, <1>28 DEF Flush, Goto, TypeOK
    <2>2. /\ Stage(r)' = Stage(r) /\ Stage(r) \in {"local", "served", "unclear"}
          /\ Stage(r) # "unclear" => outcome[r] \notin {"interim", "silent"}
      BY <1>1, <1>3, <2>1 DEF Located
    <2>3. CASE sent[r] = 0 /\ outcome[r] # "tunnel"
      <3>1. Heard /\ sent'[r] = status[r]
        BY <1>3, <1>28, <2>3 DEF Flush, TypeOK
      <3>2. Stage(r) # "unclear" /\ entries[r] # NoEntry => entries[r].status = status[r]
        BY <1>3, <2>1, <2>2 DEF StatusInv
      <3> QED
        BY <1>8, <2>1, <2>2, <3>1, <3>2
    <2>4. CASE sent[r] # 0 \/ outcome[r] = "tunnel"
      BY <1>4, <1>28, <2>1, <2>2, <2>4 DEF Flush
    <2> QED
      BY <2>3, <2>4
  <1> QED
    BY <1>10, <1>11, <1>12, <1>13, <1>14, <1>15, <1>16, <1>17, <1>18, <1>19, <1>20,
       <1>21, <1>22, <1>23, <1>24, <1>25, <1>26, <1>27, <1>28 DEF Handle, Tunnel

(***************************************************************************)
(* For any number of requests the gateway leads them through the lives of   *)
(* RequestLife: one status, one entry, and no backend for what the gateway  *)
(* answers itself, however the requests share the logger's map.             *)
(***************************************************************************)
THEOREM Implements == Spec => LeadsItsLife
  <1>1. ASSUME Init  PROVE  Life!LifeInit
    BY <1>1 DEF Init, Life!LifeInit, Owners, Stages, Stage
  <1>2. Inv /\ Inv' /\ [Next]_vars => [Life!LifeNext]_(Life!lifeVars)
    <2> SUFFICES ASSUME Inv, Inv', [Next]_vars
                 PROVE  Life!LifeNext \/ UNCHANGED Life!lifeVars
      OBVIOUS
    <2>1. CASE UNCHANGED vars
      BY <2>1 DEF vars, fixed, Life!lifeVars, Owners, OwnId, Given, Stages, Stage
    <2> QED
      BY <2>1, HandleImplements DEF Next, Done
  <1> QED
    BY Invariance, <1>1, <1>2, PTL DEF Spec, LeadsItsLife, Life!LifeSpec

=============================================================================
