SPECIFICATION FetchSpec
CONSTANTS
  Ladder <- MCLadder
  Promoted <- MCPromoted
  Solver = "byparr"
  HasHop = TRUE
CHECK_DEADLOCK FALSE
INVARIANTS
  RequestIsSound
PROPERTIES
  DispatchIsDue
  KeepsFetchPromise
