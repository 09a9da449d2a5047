SPECIFICATION Spec
CONSTANTS
  c1 = c1
  c2 = c2
  Calls <- MCCalls
  COOLDOWN = 2
PROPERTIES
  AttemptsAreSpaced
