SPECIFICATION Spec
CONSTANTS
  Methods = {"PUT", "POST"}
  BackendStatuses = {200, 404, 503}
  Services <- MCServices
  NoResponse = NoResponse
  NoAnswer = NoAnswer
INVARIANT DeliveredWhole
