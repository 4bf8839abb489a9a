SPECIFICATION GateSpec
CONSTANTS
  None = None
  first = first
  firstB = firstB
  second = second
  plain = plain
  P1 = P1
  P1b = P1b
  P2 = P2
  h1 = h1
  g1 = g1
  g2 = g2
  Records = {first, firstB, second, plain}
  Policies = {P1, P1b, P2}
  Wraps = {}
  PolicyOf <- MCPolicyOf
  Generation <- MCGeneration
  Standing <- MCStanding
  MaxGeneration = 2
  MaxEvent = 2
  Handlers = {h1}
  Readers = {g1, g2}
  Nonces = {}
  Offers <- AllOffers
  SigRequired = FALSE
  CaMayBeUnpinned = FALSE
  Window = 0
  Retention = 0
  Skew = 0
  Patience = 1
  MaxClock = 0
  TopGeneration = 1
  Slots = {1, 4}
  Strict = FALSE
  Unlock <- MCUnlock
  Accuracy = 1
  Uploads = {"u1"}
  MaxRows = 2
  ReleaseMaxClock = 1
SYMMETRY ReaderSymmetry
INVARIANTS
  MarkIsStoredMaximum SelectionNotStale
  RightKeyIsReleased TimelockNeverEarly KeyIsAudited
PROPERTIES SharesChangeAsShown
