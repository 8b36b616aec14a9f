SPECIFICATION Spec
CONSTANTS
  Script = {s}
  Page = {p}
  MaxClients = 1
  MaxUnread = 2
 
PROPERTIES BackToLoop
CHECK_DEADLOCK FALSE
