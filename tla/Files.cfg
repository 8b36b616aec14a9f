CONSTANTS
  Reader = {r1}
  Writer = {w1, w2}
  Upload = {u1, u2}
  Download = {d1}
  File = {f}
  Name = {n}
  FileOf <- Names
  MaxData = 2
  Old = old
  Hole = hole
  None = none
SPECIFICATION Spec
INVARIANTS TypeOK OneWriter Uploaded 
PROPERTY Served
CHECK_DEADLOCK FALSE
