SPECIFICATION MCSpec
CONSTANTS
  Devices = {d1, d2}
  Logicals = {l1, l2}
  Callers = {c1, c2}
  driver = driver
  None = None
  Windows = {}
  First = d1
  MaxStimuli = 4
CHECK_DEADLOCK FALSE
INVARIANTS
  
  
  ServedWhileOpen
PROPERTIES
  CallsReturn
