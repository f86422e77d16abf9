SPECIFICATION Spec
CONSTANTS
  Requests = {r1, r2}
  ClientIds = {a}
  ConfiguredIds = {a}
  Shapes <- LoggedShapes
  Statuses = {200, 404}
  AuthRefusals = {401, 404}
  Nobody = Nobody
  NoId = NoId
  Unset = Unset
  NoEntry = NoEntry
INVARIANT ContextRetrieved
