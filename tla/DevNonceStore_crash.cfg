CONSTANTS
  NonceMod = 5
  None = None
  Torn = Torn
  MaxSessions = 4
SPECIFICATION Spec
INVARIANTS TypeOK SpentNeverAsked AsksSameOrNext
PROPERTY TornIsFinal
CHECK_DEADLOCK FALSE
