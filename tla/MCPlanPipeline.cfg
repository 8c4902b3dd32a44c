SPECIFICATION Spec
CONSTANTS
  MaxSteps = 1
  MaxEffects = 1
  Files = {"main.py", "notes.json"}
  Named = {"main.py"}
  Probed = {"main.py"}
  Tasks <- MCTasks
  MaxTasks = 1
INVARIANTS
  TypeOK
  ContextTellsResults
  RequestedFilesAreFilled
  SuccessCoversPlan
PROPERTY
  PipelineEnds
CHECK_DEADLOCK FALSE
