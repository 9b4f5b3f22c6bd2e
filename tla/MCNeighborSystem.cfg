SPECIFICATION Spec
CONSTANTS
  arp4 = arp4
  ndp6 = ndp6
  arpd = arpd
  ndpd = ndpd
  NextHop = {arp4, ndp6}
  Client = {arpd, ndpd}
  Owner <- MCOwner
  m1 = m1
  m2 = m2
  Mac = {m1, m2}
  Port = {e1, e2}
  None = None
  MacsOf <- MovingMac
  Seen = {m1}
  Routed = {arp4}
  MaxListed = 2
  MaxRef = 1
CHECK_DEADLOCK FALSE
SYMMETRY Symmetry
INVARIANTS
  HwNeighborsHeld
  KeysExact
