SPECIFICATION Spec
CONSTANTS
  MaxMessages = 3
  MaxReceives = 3
INVARIANTS PopNeverEmpty TokensMatchMessages
PROPERTY MessageMeetsReceiver
CHECK_DEADLOCK FALSE
