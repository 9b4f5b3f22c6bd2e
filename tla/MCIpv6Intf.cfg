SPECIFICATION Spec
CONSTANTS
  p1 = p1
  p2 = p2
  g1 = g1
  g2 = g2
  g3 = g3
  l1 = l1
  l2 = l2
  l3 = l3
  auto1 = auto1
  auto2 = auto2
  Port = {p1, p2}
  Global = {g1, g2, g3}
  LinkLocal = {l1, l2, l3, auto1, auto2}
  AutoAddr <- MCAuto
  Scenes <- MCScenes
  MaxCount = 2
  None = None
INVARIANTS
  KernelFollows
  ObjectsConfigured
  PoolAgrees
PROPERTY
  RestoreComplete
