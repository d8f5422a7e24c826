SPECIFICATION StartupSpec
CONSTANTS
  None = None
  Empty = Empty
  a = a
  b = b
  p1 = p1
  s1 = s1 s2 = s2 s3 = s3 s4 = s4
  k1 = k1 k2 = k2 k3 = k3 k4 = k4
  Names = {a, b}
  Links <- MCLinks
  MaxErrors = 1
  Servers = {s1, s2, s3, s4}
  Tokens = {k1, k2, k3, k4}
  TokenOf <- MCTokenOf
  Self = s1
  Sources <- MCSources
  Providers = {p1}
  Tools <- MCTools
  Packages <- MCPackages
  Paths = {"", "guide", "all", "linked", "leak"}
  PromptDirs = {"loads", "broken"}
  Adjusters = {{}, {"llm", "tool"}}
  Disk <- MCDisk
  MaxApps = 2
  MaxGraphCalls = 6
  MaxCalls = 5
VIEW Rest
CHECK_DEADLOCK FALSE
INVARIANTS TokenAgreed AcceptedGraphRuns
PROPERTIES BuiltAppFrozen BuildComplete
