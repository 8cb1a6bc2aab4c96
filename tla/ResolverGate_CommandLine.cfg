SPECIFICATION FairSpec
CONSTANTS
  Worker = {w1}
  NoWorker = NoWorker
  Interactive = FALSE
  Gap = 1
  MaxGap = 5
  Relief = 1
  Response <- MCResponse
  Bump <- MCBump
  Cooldown <- MCCooldown
  RetryAfter = {1, 4}
  MinBump = 1
  RetryDelay = 1
  MaxDelay = 7
  Retries = 2
PROPERTY SpacedAndCool
PROPERTY RetryAwaitsCooldown
PROPERTY TrackEnds
