SPECIFICATION Spec
CONSTANTS
  None = None
  n1 = n1 n2 = n2 n3 = n3 n4 = n4 n5 = n5 bad = bad
  v1 = v1 v2 = v2
  NodeIDs <- MCNodeIDs
  Registered <- MCRegistered
  StartNode = n1
  FinishNodes = {n3}
  Fixed <- MCFixed
  Routed <- MCRouted
  Whens <- MCWhens
  Otherwise <- MCOtherwise
  Values = {v1, v2}
  Commands <- ReplayCommands
  Invokers = {c1}
  Resumers = {c2}
  RunIDs = {r1}
  Answers = {yes}
  MaxSteps = 1
  EventContext = FALSE
  MaxFaults = 1
  MaxEmits = 0
  Cancellable = {}
  StartAt = {n1}
  Inputs = {v1}
  Replayers = {c3}
  NodeErrors = {}
INVARIANTS InterruptLeadsBack CheckpointAtCompletion
