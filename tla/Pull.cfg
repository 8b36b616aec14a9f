SPECIFICATION Spec
CONSTANTS
  c1 = c1  c2 = c2  mine = mine  f = f  g = g  d = d  l = l
  full = full  s = s  t = t
  Client = {c1, c2}
  Fallible = {c1}
  Account = {mine}
  AccountOf <- One
  Name = {f, g, d, l}
  Dir = {d}
  Lnk = {l}
  Inode = {1, 2, 3}
  Homes <- MCHomes
  Piece = {full, s, t}
  Full = {full}
  Content <- MCContent
  Contents <- MCContents
  MaxPushes = 2
  None = None
INVARIANTS Pulled
PROPERTY LoginEnds
CHECK_DEADLOCK FALSE
