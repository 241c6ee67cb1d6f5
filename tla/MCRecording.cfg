SPECIFICATION FairSpec
CONSTANTS
  Layouts = {"small", "large"}
  PoolLimit = 1
  MaxTakes = 2
  MaxPictures = 2
  MaxSessions = 2
  MaxFaults = 1
INVARIANTS TypeOK StagedIntact MoviesInOrder  ScreenIsRecorded
PROPERTIES FinishedMoviesStay StopEnds
CHECK_DEADLOCK FALSE
