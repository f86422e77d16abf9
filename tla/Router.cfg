SPECIFICATION Spec
CONSTANTS
  Nil = Nil
  Files <- MCFiles
  Lookups <- MCLookups
  Escaped <- MCEscaped
  Unfit <- MCUnfit
INVARIANTS
  TypeOK
  MatchIsBest
  LoadedIsUsable
  AuthConfigured
  RefusedForCause
  SameRewriting
  StartsWithSlashMostly
