SPECIFICATION FairSpec
CONSTANTS
  None = None
  n1 = n1 n2 = n2 n3 = n3 n4 = n4 n5 = n5 bad = bad
  v1 = v1 v2 = v2
  NodeIDs <- MCNodeIDs
  Registered <- MCRegistered
  StartNode = n1
  FinishNodes = {n3}
  Fixed <- MCFixed
  Routed <- MCRouted
  Whens <- MCWhens
  Otherwise <- MCOtherwise
  Values = {v1, v2}
  Commands <- AllCommands
  Invokers = {c1}
  Resumers = {}
  RunIDs = {r1}
  Answers = {yes}
  MaxSteps = 3
  EventContext = TRUE
  MaxFaults = 2
  MaxEmits = 1
  Cancellable = {c1}
  StartAt = {n1, n4, n5, bad}
  Inputs = {v1}
  Replayers = {}
  NodeErrors = {TRUE, FALSE}
INVARIANTS TypeOK OutcomeMatchesTrace TraceReplaysPath OutcomeCheckpointed StopsInTime
PROPERTIES Termination
