SPECIFICATION FairSpec
CONSTANTS
  c1 = c1  c2 = c2  a = a  b = b  z = z  d = d  l = l
  Client = {c1, c2}
  Path = {a, b}
  Dir = {}
  Lnk = {}
  Own <- Shared
  Inode <- MCInode
  Version = {0, 1, 3}
  Blocks <- MCBlocks
  Ragged <- MCRagged
  Homes <- PlainHomes
  Data0 <- MCData0
  None = None
  Junk = Junk
  Edits = {"create", "write", "touch", "delete", "link"}
  EarlyEdits = FALSE
  MaxEdits = 1
  Faults = {}
  Fallible = {}
INVARIANTS SomeonesCopy
PROPERTIES Settles
