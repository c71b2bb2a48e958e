SPECIFICATION Spec
CONSTANTS
  d1 = d1
  d2 = d2
  l1 = l1
  l2 = l2
  s1 = s1
  s2 = s2
  None = None
  Devices = {d1, d2}
  Logicals = {l1, l2}
  Streams = {s1, s2}
  Callers = {t1, t2}
  Uses <- AllUses
CHECK_DEADLOCK FALSE

  
  
PROPERTIES
  MixedListStable
  
