SPECIFICATION XoaSpec
CONSTANTS
  g = g
  h = h
  ha = ha
  gx = gx
  hx = hx
  other = other
  v1 = v1
  v2 = v2
  d1 = d1
  d2 = d2
  d3 = d3
  d4 = d4
  d5 = d5
  root = root
  data = data
  swap = swap
  Terms = {t1}
  Vms = {v1, v2}
  Hosts = {g, h}
  Labels = {g, h, ha, gx, hx, other}
  Disks = {d1, d2, d3, d4, d5}
  VdiNames = {root, data, swap}
  VdiName <- MCVdiName
  NoVm = NoVm
  MaxSize = 2
  On <- MCOn
  Dotted <- MCDotted
  Worlds <- MCWorlds
INVARIANT CleanRunBoots
CHECK_DEADLOCK FALSE
