SPECIFICATION Spec
CONSTANTS
  s1 = s1
  s2 = s2
  Sources <- MCSources
  NameOf <- MCOneName
  Units = 5
  ChunkSizes = {2}
  MaxVersions = 1
  MaxSessions = 2
  MaxNonces = 6
  MaxCells = 9
  SealOutputs = {"o1", "o2"}
  Inputs = {"plain", "strict"}
  StrictInputs = {"strict"}
  PolicySigner = FALSE
  Cases = {"c", "legacy"}
  LegacyCases = {"legacy"}
  MaxWizards = 2
  MaxAttempts = 2
  Files = {"a", "b"}
  OriginalFiles = {"a"}
  StemOf <- EachItsStem
  MaxProcesses = 2
  MaxChanges = 1
  MaxOtherEvents = 1
  MaxPolicyGeneration = 3
  MaxVerifications = 3
  MaxUnsealWizards = 2
  DrawnIds = {"x", "y"}
  MaxEvents = 3
  Applications = {"a1"}
  OtherAuthorities <- OneOther
  Hashes = {"h"}
  TsaAttempts = 2
  CertificateLife = 0
  CALife = 1
  MaxCalls = 2
  MaxIssued = 2
  MaxTsaClock = 1
  CAKeys = {"k1", "k2"}
  Seals = {"s"}
  Unlocks = {2}
  AnchorLife = 2
  SignerLife = 3
  Window = 1
  MaxAnchors = 2
  MaxSigners = 2
  MaxPolicyClock = 3
  ShareNames = {"n1", "n2"}
  Prime = 5
  Ways = {"move", "claim"}
  MaxSplits = 2
SYMMETRY Swap
INVARIANTS
  DesktopTypeOK
  CompletedContainerDecrypts
  SharesReachTheirHolders SealedAsReviewed
  HandedOutIsRecorded ResealRecordHolds
  UnsealedAsVerified AcceptedAnswersItsCall StaysVerifiable
  SharesAreSavedApart
PROPERTIES RowKeepsItsSeal
CHECK_DEADLOCK FALSE
