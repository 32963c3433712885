SPECIFICATION Spec
CONSTANTS
  r1 = r1
  r2 = r2
  Runs = {r1, r2}
  Scripts <- AllScripts
  Counts <- BoundaryCounts
  Sizes <- BoundarySizes
  Delays <- BoundaryDelays
  Messages = {"hello", "world"}
  SEED_ROWS = 5
  MAX_TOTAL_ROWS = 7
  MAX_PAGE_SIZE = 50
  MAX_DOWNLOAD_KB = 512
  MAX_UPLOAD_BYTES = 262144
  MAX_FILE_KB = 256
  MAX_FILE_MANIFEST_COUNT = 20
  MAX_ARCHIVE_FILE_COUNT = 10
  MAX_ARCHIVE_KB_PER_FILE = 64
  MAX_SELECTIVE_FETCH_COUNT = 8
  MAX_EVENT_COUNT = 100
  MAX_INTERVAL_MS = 5000
  MAX_PROGRESS_HEAVY_STEPS = 60
  MAX_DELAY_MS = 5000
  MAX_CPU_ITERATIONS = 2000000
  MAX_REPEAT = 8
  MaxIterations = 2
  MaxLost = 2
  MaxRestarts = 1
CHECK_DEADLOCK FALSE
SYMMETRY Symmetry
INVARIANTS TypeOK ChecksHold VerdictIsSettings PassMeansChecked ErrorsCountFailures
