SPECIFICATION BridgeSpec
CONSTANTS
  A = A
  B = B
  C = C
  D = D
  a1 = a1
  b1 = b1
  b2 = b2
  c1 = c1
  d1 = d1
  Chains = {A, B, C, D}
  Bridges = {a1, b1, b2, c1, d1}
  NoBridge = NoBridge
  Home <- HomeOf
  Lanes <- LanesOf
  Attestations = {att}
  Positions = {pos}
  Decisions = {release}
  Shares = {few}
  Blank = Blank
  DefaultInterval = 1
  Intervals = {1, 2}
  Tuned = {a1}
  MaxMessages = 2
INVARIANT SupportedMatchesAllowed
PROPERTY ImplementsRelay
