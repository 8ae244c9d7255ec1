CONSTANTS
  Branch = {main, dev}
  Main = main
  NoBranch = NoBranch
  Proc = {p1, p2}
  Op = {"init", "create", "migrate", "merge"}
  Torn = Torn
  Mixed = Mixed
  MaxRevs = 3
  MaxCrashes = 0
SPECIFICATION Spec
INVARIANTS TypeOK HeadsFileResolves QuiescentLoads
VIEW ViewWithoutUnread
SYMMETRY Symmetry
