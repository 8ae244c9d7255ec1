CONSTANTS
  Branch = {main, dev}
  Main = main
  NoBranch = NoBranch
  Proc = {p1}
  Op = {"init", "create", "delete", "rollback", "checkout", "migrate", "sync", "merge"}
  Torn = Torn
  Mixed = Mixed
  MaxRevs = 4
  MaxCrashes = 1
SPECIFICATION Spec
INVARIANTS SchemaFollowsHeads
PROPERTIES RefsSpec
VIEW CrashView
ACTION_CONSTRAINT LastIsMerge
