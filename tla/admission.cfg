SPECIFICATION Spec
CONSTANTS
  a1 = a1  a2 = a2  a3 = a3
  c1 = c1  c2 = c2
  Addresses = {a1, a2, a3}
  NoAddress = none
  Capacity = 2
  NoBody = nobody
  NoClient = noclient
  Clients = {c1, c2}
  MaxPosts = 2
  Bodies <- MCBodies
  Address <- MCAddress
INVARIANTS TypeOK AnsweredLasts RestartFindsPart OnlyListedPass ExactAtRest NoDescriptorLeak
PROPERTY EveryoneDecided
