SPECIFICATION FairSpec
CONSTANTS
  Tasks = {1, 2}
  Scheduled = {2}
  Demo = {}
  Workers = {w1}
  NoWorker = NoWorker
  Supports <- AllSupported
  Schedulers = {s1}
  WebThreads = {}
  MaxRuns = 2
  FaultKinds = {"silence"}
  MaxFaults = 1
PROPERTY EveryTaskIsDecided
