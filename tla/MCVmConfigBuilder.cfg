SPECIFICATION Spec
CONSTANTS
  there = there
  missing = missing
  host = host
  quiet = quiet
  home = home
  work = work
  None = None
  Path <- Paths
  Present <- ThePresent
  Parentless <- TheParentless
  CommandLine <- CommandLines
  Count <- Counts
  Tag <- Tags
  Spelled <- Texts
  Seed <- Seeds
  HashOf <- Hash
  MaxCalls = 4
INVARIANT TypeOK
INVARIANT BootIsAsCalled
INVARIANT DevicesAreAsCalled
INVARIANT MacIsReadBack
INVARIANT AcceptedFilesArePresent
