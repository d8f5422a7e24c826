SPECIFICATION Spec
CONSTANTS
  None = None
  NCalls = 3
  Plans <- MCPlans
  Specs <- MCSpecs
  MaxTicks = 1
  MaxFaults = 1
  Cancellable = TRUE
INVARIANTS EventOrder ApprovalFirst OutputComplete CauseReported WithinWidth
PROPERTIES KeepsContract NodeReturns
