SPECIFICATION FairSpec
CONSTANTS
  c1 = c1  c2 = c2  a = a  b = b  z = z  d = d  l = l
  Client = {c1, c2}
  Path = {a, b, z}
  Dir = {}
  Lnk = {}
  Own <- MCOwn
  Inode <- MCInode
  Version = {0, 1, 2, 3, 4}
  Blocks <- MCBlocks
  Ragged <- MCRagged
  Homes <- AllHomes
  Data0 <- MCData0
  None = None
  Junk = Junk
  Edits = {"write", "touch"}
  EarlyEdits = FALSE
  MaxEdits = 1
  Faults = {}
  Fallible = {}
INVARIANTS TypeOK Mirror LinksKept
PROPERTIES Answered
