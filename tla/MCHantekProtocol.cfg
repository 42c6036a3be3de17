CONSTANTS
  MaxLate = 2
  MaxBehind = 2
  MaxPolls = 2
  MaxChunks = 1
SPECIFICATION Spec
INVARIANTS TakenIsOurs
PROPERTIES JobsEnd
