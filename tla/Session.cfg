SPECIFICATION Spec
CONSTANTS
  Url = {u1, u2, u3}
  NoUrl = NoUrl
  Torn = Torn
  MaxResults = 2
  MaxPlaylists = 2
  Capacity = 1
  Page = 1
  MaxTasks = 3
SYMMETRY Symmetry
INVARIANT TypeOK
INVARIANT SelectionHonoured
INVARIANT PickerNamesItsPlaylist
