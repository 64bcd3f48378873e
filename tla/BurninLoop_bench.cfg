SPECIFICATION FairSpec
CONSTANTS
  p1 = p1 p2 = p2 p3 = p3 t1 = t1 t2 = t2
  Count = 2
  Pids = {p1, p2, p3}
  DumpThreads = {t1}
  PipeLines = 1
  MaxCount = 0
  Copies = 0
  Faults <- NoFault
INVARIANT NoStreamLeak
INVARIANT OwnChild
INVARIANT OneInstance
PROPERTY QuitMeansNever
PROPERTY ImplementsBench
PROPERTY ImplementsBenchFully
PROPERTY DumpEnds
