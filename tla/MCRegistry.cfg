CONSTANTS
  Procs <- Four
  Env <- FourEnv
  File <- FourFile
  HostOf <- FourHost
  Names = {1, 2}
  Unset = Unset
  None = None
  Restarts = 1
SPECIFICATION FairSpec
INVARIANTS TypeOK NoStranger Reached Known
PROPERTIES DirectorySpec Settles
