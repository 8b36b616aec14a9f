SPECIFICATION FairSpec
CONSTANTS
  c1 = c1  c2 = c2  a = a  b = b  z = z  d = d  l = l
  Client = {c1}
  Path = {a, b, d}
  Dir = {d}
  Lnk = {}
  Own <- MCOwn
  Inode <- MCInode
  Version = {0, 1, 3}
  Blocks <- MCBlocks
  Ragged <- MCRagged
  Homes <- PlainHomes
  Data0 <- MCData0
  None = None
  Junk = Junk
  Edits = {"create", "write", "touch", "delete"}
  EarlyEdits = FALSE
  MaxEdits = 3
  Faults = {}
  Fallible = {}
INVARIANTS Mirror
