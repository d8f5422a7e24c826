SPECIFICATION HttpSpec
CONSTANTS
  Requests = {q1, q2, q3}
  RunIDs = {r1}
  RecorderGiven = TRUE
  Bodies <- MCBodies
  MaxEvents = 2
INVARIANTS SequenceIdentifiesEvent
