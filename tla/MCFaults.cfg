SPECIFICATION Spec
CONSTANTS
  Tasks = {1}
  Scheduled = {}
  Demo = {}
  Workers = {w1, w2}
  NoWorker = NoWorker
  Supports <- AllSupported
  Schedulers = {s1}
  WebThreads = {}
  MaxRuns = 3
  FaultKinds = {"abort", "crash", "timeout", "callback", "exception", "silence"}
  MaxFaults = 1
SYMMETRY Symmetry
INVARIANTS VerdictRecorded DeliveredBeforeDispatched ActiveCountExact ErrorIsOfTheRun
PROPERTY NoRunningAfterResult
