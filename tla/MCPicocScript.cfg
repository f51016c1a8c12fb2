SPECIFICATION PicocSpec
CONSTANTS
  Segments = 4
  SegSize = 1
  WordMod = 8
  Requests = {1}
  Tasks <- MCTasks
  Lines <- MCLines
  MaxItems = 1
INVARIANT ScriptUndisturbed
