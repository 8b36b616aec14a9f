SPECIFICATION Spec
CONSTANTS
  u1 = u1 u2 = u2 u3 = u3
  User = {u1, u2, u3}
  Code <- MCCode
  Buckets = 2
  LastPort = 4
  Foreign = {2}
  Client = {c1}
  Prompt = TRUE
  NoPort = NoPort
INVARIANTS RightServer
PROPERTIES Reclaimed
