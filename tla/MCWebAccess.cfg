SPECIFICATION Spec
CONSTANTS
  p1 = p1
  p2 = p2
  Accounts = {"a"}
  Requests = {p1, p2}
  Rows = {1, 2, 3}
  Limit = 1
  RegistrationLimit = 1
  AdminWindow = 1
  LoginSlots = 1
  HashSlots = 1
  AdminMaxClock = 1
  Visits = {p1, p2}
  MaxFailures = 1
  LockoutWindow = 1
  DeliveryCap = 1
  DeliveryWindow = 0
  CodeExpiry = 1
  MaxReveals = 2
  MaxFailed = 3
  SubjectMaxClock = 1
  Events = {1, 2}
  Texts = {"t"}
  Writers = {"w1"}
  Migrations = {p1, p2}
  Readers = {"r1"}
  MaxKeys = 2
  CaseSeals = {1, 2}
  CaseEvents = {1, 2}
  Applicants = {p1, p2}
  Applications <- MCApplications
  Dialects = {"sqlite", "mariadb"}
  MaxAttempts = 2
  Starters = {p1, p2}
  AddedColumns = {"registered_by"}
  ShareSlots = {1, 4}
  ShareGenerations = {0, 1}
  Engines = {"sqlite", "mariadb"}
  MaxShareIds = 3
SYMMETRY Symmetry
INVARIANTS
  WebTypeOK
  AttemptsAreCounted
  DeliveriesWithinCap CodeCanBeTriedOnce FailuresNearLimit
  OneKeyPerSeal StoredIsReceived DoneIsClean
  SealsAreRegisteredOnce SharesSurviveUpgrade
CHECK_DEADLOCK FALSE
