SPECIFICATION ResumeSpec
CONSTANTS
  s1 = s1
  s2 = s2
  Sources <- OneSource
  NameOf <- OneSourceName
  Units = 3
  ChunkSizes = {1, 3}
  MaxVersions = 0
  MaxSessions = 1
  MaxNonces = 5
  MaxCells = 6
INVARIANTS
  CompletedContainerDecrypts
CHECK_DEADLOCK FALSE
