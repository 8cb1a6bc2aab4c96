SPECIFICATION FairSpec
CONSTANTS
  Worker = {w1, w2}
  Track = {t1, t2}
  Name = {t1, t2}
  Media = {flac, mp3}
  Expected = flac
  NotMedia = page
  None = None
  MaxCopies = 2
  Parts = 2
  TrackRetries = 1
  Settings <- Few
INVARIANT SavedIsWhole
INVARIANT NamesTellTypes
INVARIANT NothingLeftBehind
PROPERTY NothingOverwritten
PROPERTY EveryTrackEnds
