SPECIFICATION Spec
CONSTANTS
  Width = 10
  Timeout = 40
  Policies <- MCPolicies
INVARIANTS
  TypeOK
  JitterWithinQuarter
  PanicsOnlyTinyOrOutgrown
PROPERTY ScheduleNeverShrinks
