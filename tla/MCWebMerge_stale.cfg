CONSTANTS
  Branch = {main, dev}
  Main = main
  NoBranch = NoBranch
  Editable = {main}
  MaxRevs = 4
  MaxDialogues = 2
SPECIFICATION WebSpec
PROPERTIES DialoguesKeepHistory
ACTION_CONSTRAINT WebBounds
CHECK_DEADLOCK FALSE
