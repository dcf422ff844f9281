SPECIFICATION Spec
CONSTANTS
  e1 = e1
  e2 = e2
  e3 = e3
  k1 = k1
  k2 = k2
  k3 = k3
  x = x
  y = y
  z = z
  port1 = port1
  port2 = port2
  NoDevice = NoDevice
  NoClient = NoClient
  Devices = {e1, e2}
  Clients = {x, y, z}
  NumEntries = 2
  Conns = {k1, k2, k3}
  Ip <- Shared
  Path <- TwoPorts
  WebUi = FALSE
  Reuse = FALSE
INVARIANTS
  AvailableMeansFree
