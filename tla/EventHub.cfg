SPECIFICATION Spec
CONSTANTS
  None = None
  c1 = c1 c2 = c2 r1 = r1 r2 = r2 n1 = n1 n2 = n2 s1 = s1 s2 = s2
  Calls = {c1, c2}
  Goroutines = {}
  CallOf <- MCCallOf
  RunIDs = {r1, r2}
  RunOf <- MCRunOf
  MaxEmits = 1
  Connections = {s1, s2}
  Filters <- MCFilters
  Label <- MCLabel
  Buffer = 1
  Cancellable = {s2}
  Breakable = {s2}
INVARIANTS SameOrder EachMatchOffered
PROPERTIES IsFeed BrokenUnsubscribed
