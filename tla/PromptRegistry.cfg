SPECIFICATION Spec
CONSTANTS
  None = None
  p1 = p1
  p2 = p2
  Paths = {p1, p2}
  Identifier <- MCIdentifier
  InitialFile <- MCInitialFile
  Drafts <- MCDrafts
  MaxCommits = 3
  MaxCrashes = 2
INVARIANTS DiskAgrees
PROPERTIES CommitKeepsView
