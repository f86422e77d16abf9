SPECIFICATION Spec
CONSTANTS
  Cases <- MCCases
  AuthReplies <- MCAuthReplies
  BackendReplies <- MCBackendReplies
  Values <- MCValues
  Nil = Nil
INVARIANTS
  OneRequestID
  CORSHeadersOnce
  IdentityReachesBackend
  ClientAddressKept
