SPECIFICATION MCSpec
CONSTANTS
  f1 = f1
  Capacity = 2
  Devices = {d1, d2}
  NoDevice = NoDevice
  Clients = {}
  NoClient = NoClient
  NumEntries = 2
  Fds = {f1, f2, f3}
  Zero = Zero
  NoFd = NoFd
  MaxClients = 2
  LogLines = 2
  Timer = TRUE
  Events = {1, 2, 3}
  MaxFailures = 1
INVARIANTS
  TypeOK
  RegisteredIsOpen
  OneSlotEach
  ChangeIsListed
PROPERTIES
  ImplementsRecentEvents
  FeedArrives
