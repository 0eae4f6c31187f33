SPECIFICATION FairSpec
CONSTANTS
  p1 = p1
  p2 = p2
  Commands = {p1}
  Listeners = {p2}
  None = None
  MaxWorld = 1
  MaxFaults = 1
  MaxPending = 1
INVARIANTS TypeOK AbsenceSeen ListFollows
PROPERTIES AssistantReturns RightsRecognised
