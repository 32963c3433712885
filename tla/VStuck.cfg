SPECIFICATION FairSpec
CONSTANTS
  Tasks = {1}
  Scheduled = {}
  Demo = {}
  Workers = {w1}
  NoWorker = NoWorker
  Supports <- AllSupported
  Schedulers = {s1}
  WebThreads = {}
  MaxRuns = 1
  FaultKinds = {}
  MaxFaults = 0
PROPERTY ResultSettlesStatus
