SPECIFICATION FairSpec
CONSTANTS
  Requests = {r1, r2}
  ClientIds = {a}
  ConfiguredIds = {a}
  Shapes <- AllShapes
  Statuses = {200, 404}
  AuthRefusals = {401, 404}
  Nobody = Nobody
  NoId = NoId
  Unset = Unset
  NoEntry = NoEntry
INVARIANTS
  TypeOK
  OnlyAdmittedReachBackend
  EntryNamesItsRequest
  LeftOverOnlyUnlogged
  LoggedStatusIsSent
PROPERTIES
  LeadsItsLife
  EveryRequestAnswered
