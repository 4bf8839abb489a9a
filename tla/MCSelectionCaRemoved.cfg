SPECIFICATION BoundedSpec
CONSTANTS
  None = None
  first = first
  firstB = firstB
  second = second
  plain = plain
  P1 = P1
  P1b = P1b
  P2 = P2
  w1 = w1
  w2 = w2
  h1 = h1
  h2 = h2
  g1 = g1
  g2 = g2
  Records = {first, firstB, second, plain}
  Policies = {P1, P1b, P2}
  Wraps = {w1, w2}
  PolicyOf <- MCPolicyOf
  Generation <- MCGeneration
  Standing <- MCStanding
  MaxGeneration = 2
  MaxEvent = 2
  Handlers = {h1, h2}
  Readers = {g1, g2}
  MaxInProgress = 3
  Nonces = {}
  Offers <- WrappedOffers
  SigRequired = FALSE
  CaMayBeUnpinned = TRUE
  Window = 0
  Retention = 0
  Skew = 0
  Patience = 1
  MaxClock = 0
SYMMETRY Symmetry
INVARIANT ProtectedNeverFallsBack
PROPERTIES MarkNeverLowered AuthenticRecordsStay EnrolledSealStaysAuthenticated
