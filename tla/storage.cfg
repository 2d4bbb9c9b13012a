SPECIFICATION Spec
SYMMETRY Alike
CONSTANTS
  c1 = c1
  c2 = c2
  None = None
  Calls <- MCCalls
  Requests <- MCRequests
  Legacy <- MCLegacy
  KindOf <- MCKindOf
  Backends = {"indexedDB", "sqlite", "realm", "memory"}
  MaxAsked = 2
  MaxFails = 1
  MaxKills = 1
  MaxDisposals = 2
  MaxTroubles = 2
INVARIANTS AcknowledgedSurvives HandleIsOpen AnswersAgree
PROPERTY DoneIsComplete
CHECK_DEADLOCK FALSE
