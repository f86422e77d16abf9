SPECIFICATION FairSpec
CONSTANTS
  Methods = {"PUT", "POST"}
  BackendStatuses = {200, 404, 503}
  Services <- MCServices
  NoResponse = NoResponse
  NoAnswer = NoAnswer
INVARIANTS
  TypeOK
  ResentOnlyUnanswered
  BodyDeliveredOnce
  ShortOnlyFromLoggedBody
  GivesUpOnlyAtTheEnd
  BodyMissingOnlyWhenExhausted
  AnswerMatchesContext
PROPERTIES
  KeepsPromise
  Termination
  AcceptedResponseIsRelayed
