SPECIFICATION Spec
CONSTANTS
  w1 = w1
  p1 = p1
  p2 = p2
  Wizards <- OneWizard
  Pushers <- TwoPushers
  Backends = {1}
  Connections = {1, 2}
  Configurations <- AnyConfiguration
  CaseMayBeDeleted = FALSE
  MaxStamps = 4
SYMMETRY SymmetricPushers
INVARIANT HeldIsOneHistory
CHECK_DEADLOCK FALSE
