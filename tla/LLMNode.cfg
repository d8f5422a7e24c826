SPECIFICATION Spec
CONSTANTS
  None = None
  Specs <- MCSpecs
  Items <- MCItems
  MaxItems = 4
  MaxFaults = 1
  MaxResumes = 1
INVARIANTS EventProtocol StreamFaithful
