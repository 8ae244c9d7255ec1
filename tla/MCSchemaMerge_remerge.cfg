CONSTANTS
  Target = main
  Source = dev
  Name = {"c", "d", "e"}
  Type = {"int", "text"}
  Verb = {"RenameColumn", "AlterColumnType"}
  Base <- OneColumn
  MaxOps = 2
  MaxMerges = 2
SPECIFICATION Spec
INVARIANTS ContradictionsAsked
ACTION_CONSTRAINT TargetFirst
CHECK_DEADLOCK FALSE
