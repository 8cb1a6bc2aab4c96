SPECIFICATION Spec
CONSTANTS
  Dir = {music, songs}
  Url = {u1, u2, u3}
  Cut = Cut
  NoDir = NoDir
  Absent = Absent
  QualityCount = 3
  MaxPlaylists = 2
  Windows = FALSE
  DiskMayFill = FALSE
PROPERTY SettingsSurvive
PROPERTY ImplementsRegister
