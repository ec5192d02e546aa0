SPECIFICATION Spec
CONSTANTS
  Clusters = {k1, k2}
  MaxVersions = 2
  Followers = {f1}
  Resyncers = {s1, s2}
  MaxSaves = 2
  MaxResyncs = 3
  MaxRestarts = 1
INVARIANTS ViewIsCurrent QuietResyncIsExact
PROPERTIES NothingGoesBack ImplementsFeed
SYMMETRY Symmetry
