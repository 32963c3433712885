SPECIFICATION FairSpec
CONSTANTS
  Tasks = {1}
  Scheduled = {}
  Demo = {}
  Workers = {w1, w2}
  NoWorker = NoWorker
  Supports <- AllSupported
  Schedulers = {s1}
  WebThreads = {}
  MaxRuns = 2
  FaultKinds = {"crash", "callback", "silence"}
  MaxFaults = 1
PROPERTIES PendingIsDelivered RowFollowsAgent
