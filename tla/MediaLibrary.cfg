SPECIFICATION Spec
CONSTANTS
  Contents = {x, y}
  Tokens = {"t"}
  Requests = {"q"}
  Calls = {c1, c2}
  Assets = {1, 2}
  MaxRevision = 2
  PageSize = 1
  MaxTime = 1
  MaxGrants = 1
  MaxFaults = 1
  MaxBusy = 2
SYMMETRY Alike
CHECK_DEADLOCK FALSE
INVARIANTS LibraryIsBacked OneAssetPerRequest WalksShowWhatStood
PROPERTIES PreviewsShowTheirMedia
