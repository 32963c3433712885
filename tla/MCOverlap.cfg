SPECIFICATION Spec
CONSTANTS
  Tasks = {1}
  Scheduled = {}
  Demo = {1}
  Workers = {w1}
  NoWorker = NoWorker
  Supports <- AllSupported
  Schedulers = {s1}
  WebThreads = {h1}
  MaxRuns = 3
  FaultKinds = {}
  MaxFaults = 0
INVARIANTS TypeOK BoundedDuplication
PROPERTY ImplementsOutcome
