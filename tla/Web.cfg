CONSTANTS
  Pid = {1, 2}
  Shows <- NameOfFirst
  Tab = {t1, t2}
  Orphan = orphan
  NoPid = NoPid
  Lost = lost
SPECIFICATION Spec
INVARIANTS TypeOK TitleIsSource
PROPERTIES   PollEnds
