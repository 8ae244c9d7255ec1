CONSTANTS
  Branch = {main, dev}
  Main = main
  NoBranch = NoBranch
  Editable = {main}
  MaxRevs = 4
  MaxDialogues = 2
SPECIFICATION WebSpec
INVARIANTS WebTypeOK HeadsResolve FreshFiles
PROPERTIES FreshHistory
VIEW WebView
ACTION_CONSTRAINT WebBounds
CHECK_DEADLOCK FALSE
