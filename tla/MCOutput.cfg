SPECIFICATION Spec
CONSTANTS
  Runs = {r1, r2}
  NoResult = NoResult
  MaxRows = 2
SYMMETRY Symmetry
CHECK_DEADLOCK FALSE
INVARIANTS TypeOK OwnSamples ArtifactsOfResult AvailableIsBacked StreamsAgree
PROPERTY NeverBackToPlanned
