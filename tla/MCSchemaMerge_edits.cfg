CONSTANTS
  Target = main
  Source = dev
  Name = {"c", "d", "e"}
  Type = {"int", "text"}
  Verb = {"CreateTable", "AddColumn", "DropColumn", "RenameColumn", "AlterColumnType", "AlterColumnNullability", "AlterColumnDefault", "AddIndex", "DropIndex", "RenameIndex", "AddConstraint", "DropConstraint"}
  Base <- OneIndex
  MaxOps = 2
  MaxMerges = 1
SPECIFICATION Spec
INVARIANTS TypeOK OneReplay FieldsThreeWay ContradictionsAsked AnswersRespected EmissionIsReplay EmittedUnlessBeside
ACTION_CONSTRAINTS TargetFirst PairsSetFields UpToMerge
CHECK_DEADLOCK FALSE
