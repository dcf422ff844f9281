SPECIFICATION SafeSpec
CONSTANTS
  c1 = c1
  d1 = d1
  d2 = d2
  ep0 = ep0
  bulk = bulk
  NoUrb = NoUrb
  Urbs = {c1, d1}
  NumSlots = 2
  Endpoints <- MCEndpoints
  Control = ep0
  Ep <- MCEp
  Prompt = {}
  Replug = TRUE
INVARIANTS
  TypeOK
  OneAnswer
  NoneForgotten
  TableDrained
PROPERTIES
  ImplementsSafety
