SPECIFICATION Spec
CONSTANTS
  Stroke = {"text", "tab", "enter", "erase", "clear", "up", "pgdn", "quit"}
  Height = {3, 6}
  MaxList = 2
  Kept = {0, 1}
  MaxQuery = 1
  MaxStrokes = 3
  MaxEvents = 4
INVARIANTS  ScreenTrue
PROPERTIES CursorUsable SelectionVisible Settles
CHECK_DEADLOCK FALSE
