SPECIFICATION Spec
CONSTANTS
  MaxChunks = 2
  Window = 1
INVARIANTS
  TypeOK
  EndOnlyAfterAll
PROPERTIES
  EndsWithEitherSide
  EndsWhenBothGone
