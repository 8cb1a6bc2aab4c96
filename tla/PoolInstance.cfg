SPECIFICATION PoolSpec
CONSTANTS
  NTracks = 3
  MaxThreads = 2
  MaxMsgs = 1
INVARIANT ClaimedExactlyOnce
INVARIANT ReportIsExact
INVARIANT PoolOutlivesWorkers
PROPERTY CountsNeverGoBack
PROPERTY BatchEnds
