SPECIFICATION FairSpec
CONSTANTS
  p1 = p1 p2 = p2 p3 = p3 t1 = t1 t2 = t2
  Count = 1
  Pids = {p1, p2}
  DumpThreads = {}
  PipeLines = 1
  MaxCount = 1
  Copies = 2
  Faults <- ExecFault
PROPERTY ExecFailureDisables
