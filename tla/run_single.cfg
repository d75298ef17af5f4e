\* One run in one directory, with restarts and failing writes.
SPECIFICATION FairSpec
CONSTANTS
  Runs = {r1}
  d1 = d1
  Dirs = {d1}
  DirOf <- SameDir
  Texts = {t1}
  None = None
  MaxSections = 2
  MaxTasks = 2
  MaxFaults = 2
INVARIANTS CommittedIsOnDisk OneActiveTask StatusIsTrue
PROPERTIES CancelSticks ImplementsPlan TasksEnd
