CONSTANTS
  Name <- Names
  Type = {}
  Verb = {}
  Grain = 60
  Tracked <- TrackedSchemas
  Files <- EditedFiles
SPECIFICATION Spec
INVARIANTS FileReproduced ColumnsOnce DistanceIsEdits
PROPERTIES QuestionsEnd
CHECK_DEADLOCK FALSE
