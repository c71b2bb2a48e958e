\* Two threads, two results, one local storage id: every order of creation,
\* exit, join and detach.
SPECIFICATION ThreadSpec
CONSTANTS
  Threads = {t1, t2}
  Values = {v1, v2}
  Unset = Unset
  TLSIDs = {1}
\* Every thread may be gone, and released.
CHECK_DEADLOCK FALSE
INVARIANTS
  FreedByOne
PROPERTIES
  ReleaseCompletes
