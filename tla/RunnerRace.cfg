SPECIFICATION Spec
CONSTANTS
  None = None
  n1 = n1 n2 = n2 n3 = n3 n4 = n4 n5 = n5 bad = bad
  v1 = v1 v2 = v2
  NodeIDs <- MCNodeIDs
  Registered <- MCRegistered
  StartNode = n1
  FinishNodes = {n3}
  Fixed <- MCFixed
  Routed <- MCRouted
  Whens <- MCWhens
  Otherwise <- MCOtherwise
  Values = {v1, v2}
  Commands <- RaceCommands
  Invokers = {c1}
  Resumers = {c2, c3}
  RunIDs = {r1}
  Answers = {yes, no}
  MaxSteps = 2
  EventContext = FALSE
  MaxFaults = 1
  MaxEmits = 0
  Cancellable = {c2}
  StartAt = {n1}
  Inputs = {v1}
  Replayers = {}
  NodeErrors = {}
SYMMETRY Symmetry
INVARIANTS AnswerUsedOnce
