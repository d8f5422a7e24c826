SPECIFICATION HttpSpec
CONSTANTS
  Requests = {q1, q2, q3}
  RunIDs = {}
  RecorderGiven = FALSE
  Bodies = {{}}
  MaxEvents = 2
INVARIANTS SequenceIdentifiesEvent
