SPECIFICATION Spec
CONSTANTS
  c1 = c1
  d1 = d1
  d2 = d2
  ep0 = ep0
  bulk = bulk
  NoUrb = NoUrb
  Urbs = {d1, d2}
  NumSlots = 2
  Endpoints <- MCEndpoints
  Control = ep0
  Ep <- MCEp
  Prompt <- MCEndpoints
  Replug = FALSE
INVARIANTS
  InFlightOwned
  HonestReply
  StallClearedUnlessUnlinked
PROPERTIES
  SessionEnds
  Implements
