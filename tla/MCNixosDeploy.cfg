SPECIFICATION Spec
CONSTANTS
  h1 = h1
  h2 = h2
  c1 = c1
  c2 = c2
  a1 = a1
  a10 = a10
  b1 = b1
  x1 = x1
  w1 = w1
  Clis = {c1, c2}
  Hosts = {h1, h2}
  Addrs = {a1, a10, b1, x1, w1}
  NoAddr = NoAddr
  Absent = Absent
  Torn = Torn
  Manifests <- MCManifests
  DeployIps <- MCDeployIps
  Live <- MCLive
  Overrides <- MCOverrides
  Occurs <- MCOccurs
SYMMETRY MCSymmetry
INVARIANTS
  TypeOK
  OverlapIsARace
  CopiesWhereDeclared
  AddressesOwned
CHECK_DEADLOCK FALSE
