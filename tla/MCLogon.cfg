CONSTANTS
  Logons = {l1, l2}
  Names = {n1}
  LOGON_TIMEOUT = 3
  CheckDelay = 1
  DestructDelay = 2
SPECIFICATION Spec
INVARIANT TypeOK
PROPERTY EldersSpared
PROPERTY LogonsEnd
