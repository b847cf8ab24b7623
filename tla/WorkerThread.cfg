CONSTANTS
  Threads = {t1, t2, t3}
  Callers = {c1}
  Nobody = Nobody

SPECIFICATION FairThreadSpec

INVARIANTS
  OneThreadDrains

PROPERTIES
  StoppedThreadsEnd
