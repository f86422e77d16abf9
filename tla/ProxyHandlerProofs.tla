------------------------- MODULE ProxyHandlerProofs -------------------------
(***************************************************************************)
(* Proofs about ProxyHandler, for every set of methods, statuses and        *)
(* service settings.  One inductive invariant, Inv, carries all the safety  *)
(* properties and the refinement of Exchange: the properties speak of the   *)
(* answer, Inv says what the retry loop knows before there is one.          *)
(***************************************************************************)
EXTENDS ProxyHandler, TLAPS

Deliveries == delivered.whole + delivered.short

\* The loop runs only for policies of two attempts or more.
InLoop == pc \in {"check", "judge", "backoff"} => Retrying

FirstAttempt == pc = "serve" => attempt = 0

\* The wait between attempts is entered only if there is another attempt.
RoomForAnother == pc = "backoff" => attempt + 1 < service.max

\* One delivery for each finished attempt, and one for the current attempt.
DeliveriesBounded ==
  Deliveries <= attempt + (IF pc \in {"serve", "check", "do"} THEN 0 ELSE 1)

\* A body that is still intact has not been delivered.
BodySpent ==
  req.framing # "none" => delivered.whole + (IF body = "intact" THEN 1 ELSE 0) <= 1

\* A body on the client connection is all there, or closed.
StreamedBody ==
  req.framing # "none" /\ req.source = "stream" => body \in {"intact", "closed"}

AnsweredAfterDelivery == pc = "wait" \/ resp # NoResponse => Deliveries > 0

ResponseInHand ==
  lastErr = "nil" =>
    /\ pc \in {"judge", "return"} => resp # NoResponse
    /\ pc = "judge" => resp.open

\* A response that comes with an error is a redirect too many.
ErrorWithResponse ==
  pc = "judge" /\ resp # NoResponse => lastErr \in {"nil", "redirects"}

\* A context error that comes back bare is the context's own.
ErrorIsContexts == lastErr \in {"deadline", "canceled"} => ctx = lastErr

WrappedAfterEnd == lastErr = "wrapped" => ctx # "live"

\* What the loop returns: a closed response or a failure only at the end.
ReturnedClosed ==
  pc = "return" /\ lastErr = "nil" /\ ~resp.open
    => shouldRetry(req.method, resp.status) /\ attempt + 1 = service.max

ReturnedFailure ==
  pc = "return" /\ Retrying /\ ctx = "live" /\ lastErr # "redirects"
    /\ (lastErr # "nil" \/ shouldRetry(req.method, resp.status))
  => attempt + 1 = service.max

\* Only the reverse proxy panics with a response under way.
UnansweredBefore ==
  answer # NoAnswer => pc = "done" \/ (pc = "panic" /\ ~Retrying)

LoopInv ==
  /\ InLoop /\ FirstAttempt /\ RoomForAnother
  /\ DeliveriesBounded /\ BodySpent /\ StreamedBody /\ AnsweredAfterDelivery
  /\ ResponseInHand /\ ErrorWithResponse /\ ErrorIsContexts /\ WrappedAfterEnd
  /\ ReturnedClosed /\ ReturnedFailure /\ UnansweredBefore

Properties ==
  /\ ResentOnlyUnanswered
  /\ ShortOnlyFromLoggedBody
  /\ GivesUpOnlyAtTheEnd
  /\ BodyMissingOnlyWhenExhausted
  /\ AnswerMatchesContext

Inv == TypeOK /\ LoopInv /\ Properties

-----------------------------------------------------------------------------

(***************************************************************************)
(* Closing a response's body leaves its status, and nil is left nil         *)
(* (retry.go: the checks of resp and resp.Body before the Close).           *)
(***************************************************************************)
LEMMA ClosedResponse ==
  ASSUME NEW r \in Responses \cup {NoResponse}
  PROVE  /\ Closed(r) \in Responses \cup {NoResponse}
         /\ Closed(r) = NoResponse <=> r = NoResponse
         /\ r # NoResponse => Closed(r).status = r.status /\ ~Closed(r).open
  <1>1. CASE r = NoResponse
    BY <1>1 DEF Closed
  <1>2. CASE r # NoResponse
    <2>1. r \in Responses /\ Closed(r) = [r EXCEPT !.open = FALSE]
      BY <1>2 DEF Closed
    <2>2. Closed(r) \in Responses /\ Closed(r).status = r.status /\ ~Closed(r).open
      BY <2>1 DEF Responses
    <2> QED
      BY <1>2, <2>2, ConstantsAssumption DEF Responses
  <1> QED
    BY <1>1, <1>2

(* A backend's response arrives with its body open. *)
LEMMA OpenResponse ==
  ASSUME NEW s \in BackendStatuses
  PROVE  LET r == [status |-> s, open |-> TRUE]
         IN  r \in Responses /\ r # NoResponse /\ r.open
  <1> DEFINE r == [status |-> s, open |-> TRUE]
  <1>1. r \in Responses
    BY ConstantsAssumption DEF Responses
  <1>2. r # NoResponse
    BY <1>1, ConstantsAssumption DEF Responses
  <1> QED
    BY <1>1, <1>2

(***************************************************************************)
(* Every step keeps the types: in particular attempt stays below            *)
(* max_attempts, the bound of the loop in ExecuteWithRetry.                 *)
(***************************************************************************)
LEMMA TypeStep == TypeOK /\ LoopInv /\ [Next]_vars => TypeOK'
  <1> SUFFICES ASSUME TypeOK, LoopInv, [Next]_vars PROVE TypeOK'
    OBVIOUS
  <1> USE ConstantsAssumption, AnswerAssumption
      DEF TypeOK, LoopInv, InLoop, FirstAttempt, RoomForAnother, ResponseInHand,
          ServiceSettings, Responses, Errors, Answers, Retrying, AtLeastOne
  <1>1. CASE InvalidBackendURL
    BY <1>1 DEF InvalidBackendURL, Answer, Gateway
  <1>2. CASE ServeHTTP
    BY <1>2 DEF ServeHTTP
  <1>3. CASE GatewayTimeout
    BY <1>3 DEF GatewayTimeout, Answer, Gateway
  <1>4. CASE ClientGone
    BY <1>4 DEF ClientGone, Answer
  <1>5. CASE BadGateway
    BY <1>5 DEF BadGateway, Answer, Gateway
  <1>6. CASE Relay
    BY <1>6 DEF Relay, Answer, Backend
  <1>7. CASE RelayCut
    BY <1>7 DEF RelayCut, Backend
  <1>8. CASE Recovery
    BY <1>8 DEF Recovery, Answer, Gateway
  <1>9. CASE StartAttempt /\ UNCHANGED answer
    BY <1>9 DEF StartAttempt
  <1>10. CASE StopAtCheck /\ UNCHANGED answer
    BY <1>10 DEF StopAtCheck, Return, ContextError
  <1>11. CASE ReturnResponse /\ UNCHANGED answer
    BY <1>11 DEF ReturnResponse, Return, Acceptable
  <1>12. CASE ReturnUnretriable /\ UNCHANGED answer
    BY <1>12, ClosedResponse DEF ReturnUnretriable, Return, Acceptable, GivesUp
  <1>13. CASE ReturnExhausted /\ UNCHANGED answer
    BY <1>13, ClosedResponse DEF ReturnExhausted, Return, Acceptable, LastAttempt
  <1>14. CASE EnterBackoff /\ UNCHANGED answer
    BY <1>14, ClosedResponse DEF EnterBackoff, Acceptable, LastAttempt
  <1>15. CASE BackoffElapses /\ UNCHANGED answer
    BY <1>15 DEF BackoffElapses
  <1>16. CASE StopInBackoff /\ UNCHANGED answer
    BY <1>16 DEF StopInBackoff, Return, ContextError
  <1>17. CASE Deliver /\ UNCHANGED answer
    BY <1>17 DEF Deliver, Writable, Whole, BodyAfterSend
  <1>18. CASE SendFails /\ UNCHANGED answer
    BY <1>18 DEF SendFails, Finish, BodiesAfterFailure, BodyAfterSend
  <1>19. CASE Respond /\ UNCHANGED answer
    BY <1>19 DEF Respond, Finish
  <1>20. CASE AnswerLost /\ UNCHANGED answer
    BY <1>20 DEF AnswerLost, Finish
  <1>21. CASE TooManyRedirects /\ UNCHANGED answer
    BY <1>21 DEF TooManyRedirects, Finish
  <1>22. CASE ContextEndsAttempt /\ UNCHANGED answer
    BY <1>22 DEF ContextEndsAttempt, Finish, BodiesAfterFailure, BodyAfterSend
  <1>23. CASE ContextEnds /\ UNCHANGED answer
    BY <1>23 DEF ContextEnds
  <1>24. CASE UNCHANGED vars
    BY <1>24 DEF vars
  <1>25. QED
    BY <1>1, <1>2, <1>3, <1>4, <1>5, <1>6, <1>7, <1>8, <1>9, <1>10,
        <1>11, <1>12, <1>13, <1>14, <1>15, <1>16, <1>17, <1>18, <1>19,
        <1>20, <1>21, <1>22, <1>23, <1>24
    DEF Next, Handle, ExecuteWithRetry, Attempt, Done

(***************************************************************************)
(* Every step keeps what the loop knows.                                    *)
(***************************************************************************)
LEMMA LoopStep == TypeOK /\ LoopInv /\ [Next]_vars => LoopInv'
  <1> SUFFICES ASSUME TypeOK, LoopInv, [Next]_vars PROVE LoopInv'
    OBVIOUS
  <1> USE ConstantsAssumption, AnswerAssumption
      DEF TypeOK, LoopInv, InLoop, FirstAttempt, RoomForAnother, DeliveriesBounded,
          BodySpent, StreamedBody, AnsweredAfterDelivery, ResponseInHand,
          ErrorWithResponse, ErrorIsContexts, WrappedAfterEnd, ReturnedClosed,
          ReturnedFailure, UnansweredBefore, Deliveries, ServiceSettings,
          Responses, Requests, Errors, Answers, Retrying, AtLeastOne, shouldRetry
  <1>1. CASE InvalidBackendURL
    BY <1>1 DEF InvalidBackendURL, Answer, Gateway
  <1>2. CASE ServeHTTP
    BY <1>2 DEF ServeHTTP
  <1>3. CASE GatewayTimeout
    BY <1>3 DEF GatewayTimeout, Answer, Gateway
  <1>4. CASE ClientGone
    BY <1>4 DEF ClientGone, Answer
  <1>5. CASE BadGateway
    BY <1>5 DEF BadGateway, Answer, Gateway
  <1>6. CASE Relay
    BY <1>6 DEF Relay, Answer, Backend
  <1>7. CASE RelayCut
    BY <1>7 DEF RelayCut, Backend
  <1>8. CASE Recovery
    BY <1>8 DEF Recovery, Answer, Gateway
  <1>9. CASE StartAttempt /\ UNCHANGED answer
    BY <1>9 DEF StartAttempt
  <1>10. CASE StopAtCheck /\ UNCHANGED answer
    BY <1>10 DEF StopAtCheck, Return, ContextError
  <1>11. CASE ReturnResponse /\ UNCHANGED answer
    BY <1>11 DEF ReturnResponse, Return, Acceptable
  <1>12. CASE ReturnUnretriable /\ UNCHANGED answer
    BY <1>12, ClosedResponse DEF ReturnUnretriable, Return, Acceptable, GivesUp
  <1>13. CASE ReturnExhausted /\ UNCHANGED answer
    BY <1>13, ClosedResponse DEF ReturnExhausted, Return, Acceptable, LastAttempt
  <1>14. CASE EnterBackoff /\ UNCHANGED answer
    BY <1>14, ClosedResponse DEF EnterBackoff, Acceptable, LastAttempt
  <1>15. CASE BackoffElapses /\ UNCHANGED answer
    BY <1>15 DEF BackoffElapses
  <1>16. CASE StopInBackoff /\ UNCHANGED answer
    BY <1>16 DEF StopInBackoff, Return, ContextError
  <1>17. CASE Deliver /\ UNCHANGED answer
    BY <1>17 DEF Deliver, Writable, Whole, BodyAfterSend
  <1>18. CASE SendFails /\ UNCHANGED answer
    BY <1>18 DEF SendFails, Finish, BodiesAfterFailure, BodyAfterSend
  <1>19. CASE Respond /\ UNCHANGED answer
    <2>1. PICK s \in BackendStatuses : Finish([status |-> s, open |-> TRUE], "nil")
      BY <1>19 DEF Respond
    <2>2. resp' \in Responses /\ resp' # NoResponse /\ resp'.open /\ lastErr' = "nil"
      BY <2>1, OpenResponse DEF Finish
    <2>3. pc = "wait" /\ pc' \in {"judge", "return"} /\ (Retrying <=> pc' = "judge")
      BY <1>19, <2>1 DEF Respond, Finish
    <2>4. UNCHANGED <<req, service, ctx, attempt, body, delivered, answer>>
      BY <1>19, <2>1 DEF Respond, Finish
    <2> QED
      BY <2>2, <2>3, <2>4
  <1>20. CASE AnswerLost /\ UNCHANGED answer
    BY <1>20 DEF AnswerLost, Finish
  <1>21. CASE TooManyRedirects /\ UNCHANGED answer
    BY <1>21 DEF TooManyRedirects, Finish
  <1>22. CASE ContextEndsAttempt /\ UNCHANGED answer
    BY <1>22 DEF ContextEndsAttempt, Finish, BodiesAfterFailure, BodyAfterSend
  <1>23. CASE ContextEnds /\ UNCHANGED answer
    BY <1>23 DEF ContextEnds
  <1>24. CASE UNCHANGED vars
    BY <1>24 DEF vars
  <1>25. QED
    BY <1>1, <1>2, <1>3, <1>4, <1>5, <1>6, <1>7, <1>8, <1>9, <1>10,
       <1>11, <1>12, <1>13, <1>14, <1>15, <1>16, <1>17, <1>18, <1>19,
       <1>20, <1>21, <1>22, <1>23, <1>24
    DEF Next, Handle, ExecuteWithRetry, Attempt, Done

(***************************************************************************)
(* Every step keeps the properties of what has been sent and answered.      *)
(***************************************************************************)
LEMMA PropertiesStep == Inv /\ [Next]_vars => Properties'
  <1> SUFFICES ASSUME Inv, [Next]_vars PROVE Properties'
    OBVIOUS
  <1> USE ConstantsAssumption, AnswerAssumption
      DEF Inv, TypeOK, LoopInv, InLoop, FirstAttempt, StreamedBody, ResponseInHand,
          ErrorIsContexts, WrappedAfterEnd, ReturnedClosed, ReturnedFailure,
          UnansweredBefore, Properties, ResentOnlyUnanswered,
          ShortOnlyFromLoggedBody, GivesUpOnlyAtTheEnd,
          BodyMissingOnlyWhenExhausted, AnswerMatchesContext, ServiceSettings,
          Responses, Requests, Errors, Answers, Gateway, Retrying, AtLeastOne,
          shouldRetry
  <1>1. CASE InvalidBackendURL
    BY <1>1 DEF InvalidBackendURL, Answer
  <1>2. CASE ServeHTTP
    BY <1>2 DEF ServeHTTP
  <1>3. CASE GatewayTimeout
    BY <1>3 DEF GatewayTimeout, Answer
  <1>4. CASE ClientGone
    BY <1>4 DEF ClientGone, Answer
  <1>5. CASE BadGateway
    BY <1>5 DEF BadGateway, Answer
  <1>6. CASE Relay
    BY <1>6 DEF Relay, Answer, Backend
  <1>7. CASE RelayCut
    BY <1>7 DEF RelayCut, Backend
  <1>8. CASE Recovery
    BY <1>8 DEF Recovery, Answer
  <1>9. CASE StartAttempt /\ UNCHANGED answer
    BY <1>9 DEF StartAttempt
  <1>10. CASE StopAtCheck /\ UNCHANGED answer
    BY <1>10 DEF StopAtCheck, Return, ContextError
  <1>11. CASE ReturnResponse /\ UNCHANGED answer
    BY <1>11 DEF ReturnResponse, Return, Acceptable
  <1>12. CASE ReturnUnretriable /\ UNCHANGED answer
    BY <1>12, ClosedResponse DEF ReturnUnretriable, Return, Acceptable, GivesUp
  <1>13. CASE ReturnExhausted /\ UNCHANGED answer
    BY <1>13, ClosedResponse DEF ReturnExhausted, Return, Acceptable, LastAttempt
  <1>14. CASE EnterBackoff /\ UNCHANGED answer
    BY <1>14, ClosedResponse DEF EnterBackoff, Acceptable, LastAttempt
  <1>15. CASE BackoffElapses /\ UNCHANGED answer
    BY <1>15 DEF BackoffElapses
  <1>16. CASE StopInBackoff /\ UNCHANGED answer
    BY <1>16 DEF StopInBackoff, Return, ContextError
  <1>17. CASE Deliver /\ UNCHANGED answer
    BY <1>17 DEF Deliver, Writable, Whole, BodyAfterSend
  <1>18. CASE SendFails /\ UNCHANGED answer
    BY <1>18 DEF SendFails, Finish, BodiesAfterFailure, BodyAfterSend
  <1>19. CASE Respond /\ UNCHANGED answer
    BY <1>19 DEF Respond, Finish
  <1>20. CASE AnswerLost /\ UNCHANGED answer
    BY <1>20 DEF AnswerLost, Finish
  <1>21. CASE TooManyRedirects /\ UNCHANGED answer
    BY <1>21 DEF TooManyRedirects, Finish
  <1>22. CASE ContextEndsAttempt /\ UNCHANGED answer
    BY <1>22 DEF ContextEndsAttempt, Finish, BodiesAfterFailure, BodyAfterSend
  <1>23. CASE ContextEnds /\ UNCHANGED answer
    BY <1>23 DEF ContextEnds
  <1>24. CASE UNCHANGED vars
    BY <1>24 DEF vars
  <1>25. QED
    BY <1>1, <1>2, <1>3, <1>4, <1>5, <1>6, <1>7, <1>8, <1>9, <1>10,
       <1>11, <1>12, <1>13, <1>14, <1>15, <1>16, <1>17, <1>18, <1>19,
       <1>20, <1>21, <1>22, <1>23, <1>24
    DEF Next, Handle, ExecuteWithRetry, Attempt, Done

\* A request starts with nothing delivered and nothing answered.
LEMMA InitInv == Init => Inv
  <1> SUFFICES ASSUME Init PROVE Inv
    OBVIOUS
  <1> USE ConstantsAssumption, AnswerAssumption DEF Init
  <1>1. TypeOK
    BY DEF TypeOK, Errors, ServiceSettings, AtLeastOne
  <1>2. LoopInv
    BY DEF LoopInv, InLoop, FirstAttempt, RoomForAnother, DeliveriesBounded,
           BodySpent, StreamedBody, AnsweredAfterDelivery, ResponseInHand,
           ErrorWithResponse, ErrorIsContexts, WrappedAfterEnd, ReturnedClosed,
           ReturnedFailure, UnansweredBefore, Deliveries
  <1>3. Properties
    <2>1. NoAnswer # Gateway(504)
      BY DEF Gateway, Answers
    <2> QED
      BY <2>1 DEF Properties, ResentOnlyUnanswered, ShortOnlyFromLoggedBody,
             GivesUpOnlyAtTheEnd, BodyMissingOnlyWhenExhausted, AnswerMatchesContext
  <1> QED
    BY <1>1, <1>2, <1>3 DEF Inv

(***************************************************************************)
(* Inv holds throughout ServeHTTP; what follows is read off it.             *)
(***************************************************************************)
THEOREM Invariance == Spec => []Inv
  <1>1. Inv /\ [Next]_vars => Inv'
    BY TypeStep, LoopStep, PropertiesStep DEF Inv
  <1> QED
    BY InitInv, <1>1, PTL DEF Spec

(***************************************************************************)
(* The loop's counter and everything else stay within their types.          *)
(***************************************************************************)
THEOREM TypeCorrect == Spec => []TypeOK
  <1>1. Inv => TypeOK
    BY DEF Inv
  <1> QED
    BY Invariance, <1>1, PTL

(***************************************************************************)
(* Whatever the policy, a request with a body reaches the backend whole at  *)
(* most once (retry.go clones the request, not its body).                   *)
(***************************************************************************)
THEOREM BodyOnce == Spec => []BodyDeliveredOnce
  <1>1. Inv => BodyDeliveredOnce
    BY DEF Inv, TypeOK, LoopInv, BodySpent, BodyDeliveredOnce
  <1> QED
    BY Invariance, <1>1, PTL

(***************************************************************************)
(* A POST or PATCH is repeated only after an attempt without a response.    *)
(***************************************************************************)
THEOREM AnsweredPostNotResent == Spec => []ResentOnlyUnanswered
  <1>1. Inv => ResentOnlyUnanswered
    BY DEF Inv, Properties
  <1> QED
    BY Invariance, <1>1, PTL

(***************************************************************************)
(* Only log_body can make the proxy deliver part of a body.                 *)
(***************************************************************************)
THEOREM ShortOnlyWhenLogged == Spec => []ShortOnlyFromLoggedBody
  <1>1. Inv => ShortOnlyFromLoggedBody
    BY DEF Inv, Properties
  <1> QED
    BY Invariance, <1>1, PTL

(***************************************************************************)
(* The retrying path reports a failure only when max_attempts is used up,   *)
(* the context has ended or redirects loop.                                 *)
(***************************************************************************)
THEOREM TriesToTheEnd == Spec => []GivesUpOnlyAtTheEnd
  <1>1. Inv => GivesUpOnlyAtTheEnd
    BY DEF Inv, Properties
  <1> QED
    BY Invariance, <1>1, PTL

(***************************************************************************)
(* A relayed response has lost its body only after exhausted retries.       *)
(***************************************************************************)
THEOREM BodyKeptUntilExhausted == Spec => []BodyMissingOnlyWhenExhausted
  <1>1. Inv => BodyMissingOnlyWhenExhausted
    BY DEF Inv, Properties
  <1> QED
    BY Invariance, <1>1, PTL

(***************************************************************************)
(* Silence is for departed clients, 504 for passed deadlines.               *)
(***************************************************************************)
THEOREM AnswersFitContext == Spec => []AnswerMatchesContext
  <1>1. Inv => AnswerMatchesContext
    BY DEF Inv, Properties
  <1> QED
    BY Invariance, <1>1, PTL

\* The variables of Exchange as ProxyHandler refines them.
Settled == pc = "done" \/ answer # NoAnswer

Verdict == IF answer = NoAnswer THEN "none" ELSE answer.by

\* The backend's answer is an answer.
LEMMA BackendAnswer ==
  ASSUME NEW r \in Responses, NEW b \in {"whole", "cut", "missing"}
  PROVE  Backend(r.status, b) # NoAnswer /\ Backend(r.status, b).by = "backend"
  <1>1. Backend(r.status, b) \in Answers
    BY DEF Backend, Answers, Responses
  <1> QED
    BY <1>1, AnswerAssumption DEF Backend

(***************************************************************************)
(* ServeHTTP implements Exchange: Deliver is the only step that hands the   *)
(* request over, the steps that write or give up the answer settle it, and  *)
(* all the others stutter.                                                  *)
(***************************************************************************)
LEMMA StepImplements == Inv /\ Inv' /\ [Next]_vars => [Promise!ExchangeNext]_(Promise!exchangeVars)
  <1> SUFFICES ASSUME Inv, Inv', [Next]_vars
               PROVE  Promise!ExchangeNext \/ UNCHANGED Promise!exchangeVars
    OBVIOUS
  <1>1. service.max \in Nat /\ delivered \in [whole: Nat, short: Nat]
    BY ConstantsAssumption DEF Inv, TypeOK, ServiceSettings
  <1>2. CASE Deliver /\ UNCHANGED answer
    <2>1. ~(pc = "done" \/ answer # NoAnswer) /\ ~(pc' = "done" \/ answer' # NoAnswer)
      BY <1>2 DEF Deliver, Inv, LoopInv, UnansweredBefore
    <2>2. Deliveries < AtLeastOne(service.max)
      BY <1>1, <1>2 DEF Deliver, Inv, TypeOK, LoopInv, DeliveriesBounded, Deliveries, AtLeastOne
    <2>3. Deliveries' = Deliveries + 1
      BY <1>1, <1>2 DEF Deliver, Deliveries
    <2> QED
      BY <1>2, <2>1, <2>2, <2>3
      DEF Deliver, Deliveries, Promise!ExchangeNext, Promise!Hand
  <1>3. CASE InvalidBackendURL \/ GatewayTimeout \/ ClientGone \/ BadGateway \/ Relay \/ RelayCut
    <2>1. ~Settled
      BY <1>3
      DEF InvalidBackendURL, GatewayTimeout, ClientGone, BadGateway, Relay, RelayCut,
          Inv, LoopInv, UnansweredBefore, Settled
    <2>2. CASE Relay \/ RelayCut
      <3>1. lastErr = "nil" /\ pc = "return" /\ UNCHANGED <<service, delivered>>
        BY <2>2 DEF Relay, RelayCut, Answer
      <3>2. resp \in Responses /\ Deliveries > 0
        BY <3>1 DEF Inv, TypeOK, LoopInv, ResponseInHand, AnsweredAfterDelivery
      <3>3. \E b \in {"whole", "cut", "missing"} : answer' = Backend(resp.status, b)
        BY <2>2 DEF Relay, RelayCut, Answer
      <3>4. Settled' /\ Verdict' = "backend"
        BY <3>2, <3>3, BackendAnswer DEF Settled, Verdict
      <3> QED
        BY <2>1, <3>1, <3>2, <3>4 DEF Settled, Verdict, Deliveries, Promise!ExchangeNext, Promise!Settle
    <2>3. CASE InvalidBackendURL \/ GatewayTimeout \/ ClientGone \/ BadGateway
      <3>1. Settled' /\ Verdict' \in {"none", "gateway"} /\ UNCHANGED <<service, delivered>>
        BY <2>3 DEF InvalidBackendURL, GatewayTimeout, ClientGone, BadGateway,
                    Answer, Gateway, Settled, Verdict
      <3> QED
        BY <2>1, <3>1 DEF Settled, Verdict, Promise!ExchangeNext, Promise!Settle
    <2> QED
      BY <1>3, <2>2, <2>3
  <1>4. CASE Recovery
    <2>1. CASE answer = NoAnswer
      <3>1. ~Settled /\ Settled' /\ Verdict' \in {"none", "gateway"}
        BY <1>4, <2>1 DEF Recovery, Answer, Gateway, Settled, Verdict
      <3>2. UNCHANGED <<service, delivered>>
        BY <1>4 DEF Recovery, Answer
      <3> QED
        BY <3>1, <3>2 DEF Settled, Verdict, Promise!ExchangeNext, Promise!Settle
    <2>2. CASE answer # NoAnswer
      BY <1>4, <2>2 DEF Recovery, Answer, Promise!exchangeVars
    <2> QED
      BY <2>1, <2>2
  <1>5. CASE \/ ServeHTTP
             \/ (ExecuteWithRetry \/ SendFails \/ Respond \/ AnswerLost \/ TooManyRedirects
                   \/ ContextEndsAttempt \/ ContextEnds) /\ UNCHANGED answer
    <2>1. UNCHANGED <<service, delivered, answer>>
      BY <1>5 DEF ServeHTTP, ExecuteWithRetry, StartAttempt, StopAtCheck, ReturnResponse,
                  ReturnUnretriable, ReturnExhausted, EnterBackoff, BackoffElapses,
                  StopInBackoff, Return, SendFails, Respond, AnswerLost,
                  TooManyRedirects, ContextEndsAttempt, ContextEnds, Finish
    <2>2. pc # "done" /\ pc' # "done"
      BY <1>5 DEF ServeHTTP, ExecuteWithRetry, StartAttempt, StopAtCheck, ReturnResponse,
                  ReturnUnretriable, ReturnExhausted, EnterBackoff, BackoffElapses,
                  StopInBackoff, Return, SendFails, Respond, AnswerLost,
                  TooManyRedirects, ContextEndsAttempt, ContextEnds, Finish
    <2> QED
      BY <2>1, <2>2 DEF Promise!exchangeVars
  <1>6. CASE UNCHANGED vars
    BY <1>6 DEF vars, Promise!exchangeVars
  <1> QED
    BY <1>2, <1>3, <1>4, <1>5, <1>6 DEF Next, Handle, Attempt, Done

\* The initial states of a request are initial states of Exchange.
LEMMA InitImplements == Init => Promise!ExchangeInit
  <1> SUFFICES ASSUME Init PROVE Promise!ExchangeInit
    OBVIOUS
  <1>1. AtLeastOne(service.max) \in Nat \ {0}
    BY ConstantsAssumption DEF Init, ServiceSettings, AtLeastOne
  <1> QED
    BY <1>1 DEF Init, Promise!ExchangeInit

(***************************************************************************)
(* For every policy the backend is handed the request at most               *)
(* max(1, max_attempts) times and never after the answer, which is one and  *)
(* final, and the backend's only if the backend had the request.            *)
(***************************************************************************)
THEOREM Implements == Spec => KeepsPromise
  <1> QED
    BY Invariance, InitImplements, StepImplements, PTL
    DEF Spec, KeepsPromise, Promise!ExchangeSpec

=============================================================================
