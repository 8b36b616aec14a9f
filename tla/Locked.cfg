SPECIFICATION FairSpec
CONSTANTS
  c1 = c1  c2 = c2  a = a  b = b  z = z  d = d  l = l
  Client = {c1, c2}
  Path = {a, z}
  Dir = {}
  Lnk = {}
  Own <- MCOwn
  Inode <- MCInode
  Version = {0, 1, 2, 3, 4}
  Blocks <- MCBlocks
  Ragged <- MCRagged
  Homes <- PlainHomes
  Data0 <- MCData0
  None = None
  Junk = Junk
  Edits = {"touch"}
  EarlyEdits = FALSE
  MaxEdits = 1
  Faults = {"lock"}
  Fallible = {c1}
PROPERTIES Answered
CHECK_DEADLOCK FALSE
