CONSTANTS
  Target = main
  Source = dev
  Name = {"c"}
  Type = {"int"}
  Verb = {"DropTable"}
  Base <- OneColumn
  MaxOps = 1
  MaxMerges = 1
SPECIFICATION Spec
INVARIANTS HeadsReplay
ACTION_CONSTRAINT TargetFirst
CHECK_DEADLOCK FALSE
