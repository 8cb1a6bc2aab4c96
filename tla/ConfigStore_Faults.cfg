SPECIFICATION Spec
CONSTANTS
  Dir = {music, songs}
  Url = {u1, u2, u3}
  Cut = Cut
  NoDir = NoDir
  Absent = Absent
  QualityCount = 2
  MaxPlaylists = 2
  Windows = TRUE
  DiskMayFill = TRUE
INVARIANT TypeOK
PROPERTY OnlyFromMemory
