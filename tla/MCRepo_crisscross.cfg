CONSTANTS
  Branch = {main, dev, feat}
  Main = main
  NoBranch = NoBranch
  Editable = {}
  MaxRevs = 6
SPECIFICATION Spec
INVARIANTS MergesHadOneBase
VIEW HistoryView
ACTION_CONSTRAINT CrissCrossBounds
