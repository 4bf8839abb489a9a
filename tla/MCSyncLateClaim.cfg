SPECIFICATION Spec
CONSTANTS
  None = None
  first = first
  firstB = firstB
  second = second
  plain = plain
  tampered = tampered
  P1 = P1
  P1b = P1b
  P2 = P2
  PX = PX
  w1 = w1
  w2 = w2
  h1 = h1
  h2 = h2
  n1 = n1
  n2 = n2
  n3 = n3
  Records = {first, firstB, second, plain, tampered}
  Policies = {P1, P1b, P2, PX}
  Wraps = {w1, w2}
  PolicyOf <- MCPolicyOf
  Generation <- MCGeneration
  Standing <- MCStanding
  MaxGeneration = 2
  Handlers = {h1, h2}
  MaxEvent = 2
  Nonces = {n1, n2}
  Offers <- OneOffer
  SigRequired = TRUE
  CaMayBeUnpinned = FALSE
  Window = 2
  Retention = 2
  Skew = 0
  Patience = 1
  MaxClock = 5
SYMMETRY Symmetry
INVARIANT EnvelopeAdmittedOnce
