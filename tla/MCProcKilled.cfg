SPECIFICATION Spec
CONSTANTS
  NPROC = 2
  NCPU = 1
  Chan <- MCNoChan
  KillPids = {0}
  MaxPid = 4
PROPERTY
  FreshNotKilled
