SPECIFICATION FairSpec
CONSTANTS
  Callers = {c1, c2, c3}
  Keys = {k1, k2}
  Nobody = Nobody
INVARIANTS
  TypeOK
  MapExclusion
PROPERTIES
  KeepsRegistry
  EveryoneServed
