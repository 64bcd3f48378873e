SPECIFICATION Spec
CONSTANTS
  p1 = p1 p2 = p2 p3 = p3 t1 = t1 t2 = t2
  Count = 2
  Pids = {p1, p2, p3}
  DumpThreads = {t1}
  PipeLines = 0
  MaxCount = 0
  Copies = 1
  Faults <- AllFaults
SYMMETRY AnyPid
INVARIANT TypeOK
INVARIANT OneInstance
INVARIANT NoUseAfterClose
VIEW Steering
