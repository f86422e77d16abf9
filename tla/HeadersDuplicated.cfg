SPECIFICATION Spec
CONSTANTS
  Cases <- MCCases
  AuthReplies <- MCAuthReplies
  BackendReplies <- MCBackendReplies
  Values <- MCValues
  Nil = Nil
INVARIANT CORSNeverDuplicated
