SPECIFICATION FairSpec
CONSTANTS
  c1 = c1  c2 = c2  a = a  b = b  z = z  d = d  l = l
  Client = {c1, c2}
  Path = {a, d, l, z}
  Dir = {d}
  Lnk = {l}
  Own <- MCOwn
  Inode <- MCInode
  Version = {1, 3}
  Blocks <- MCBlocks
  Ragged <- MCRagged
  Homes <- PlainHomes
  Data0 <- MCData0
  None = None
  Junk = Junk
  Edits = {"delete", "link", "rmdir"}
  EarlyEdits = TRUE
  MaxEdits = 2
  Faults = {"crash", "lock", "signal"}
  Fallible = {c1}
INVARIANTS Framing WholeFiles
CHECK_DEADLOCK FALSE
