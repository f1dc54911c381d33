SPECIFICATION Spec
CONSTANTS
  first = first
  again = again
  other = other
  shared = shared
  own = own
  Runs = {first, again, other}
  Tasks = {"edit", "read"}
  Dirs = {shared, own}
  States = {"seed", "edited"}
  Loaders = {"reader"}
  NoFile = NoFile
  NoRun = NoRun
  NoState = NoState
  dir_of <- MCdir_of
  task_of <- MCtask_of
  initial_of <- MCinitial_of
INVARIANTS
  TypeOK
  IndexedRunsStored
  LoadsNotStale
PROPERTIES
  StoreLeavesOneRun
  ImplementsArchive
