SPECIFICATION FinderSpec
CONSTANTS
  Quality = {"hi-res-max", "lossless", "low"}
  Worlds <- FewLive
  Answers <- Lists
  TrackRetries = 1
  MaxLost = 2
INVARIANTS GivenUpOnlyForLosses LossyOnlyAsLastResort RightSongChosen
CHECK_DEADLOCK FALSE
