SPECIFICATION FairSpec
CONSTANTS
  w1 = w1
  p1 = p1
  p2 = p2
  Wizards <- OneWizard
  Pushers <- OnePusher
  Backends = {1}
  Connections = {1, 2}
  Configurations <- AllConfigured
  CaseMayBeDeleted = TRUE
  MaxStamps = 3
INVARIANTS
  SentIsHeld StoredRecordIsQueued
PROPERTIES
  EverythingIsDelivered
CHECK_DEADLOCK FALSE
