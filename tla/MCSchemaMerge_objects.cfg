CONSTANTS
  Target = main
  Source = dev
  Name = {"d"}
  Type = {"int"}
  Verb = {"AddColumn", "DropColumn", "AddIndex", "DropIndex", "AddConstraint", "DropConstraint", "DropTable"}
  Base <- TwoTables
  MaxOps = 2
  MaxMerges = 1
SPECIFICATION Spec
INVARIANTS NothingNeedsDropped AdditionsAndDropsKept NamesStayUnique TableDropsComeLast
ACTION_CONSTRAINT TargetFirst
CHECK_DEADLOCK FALSE
