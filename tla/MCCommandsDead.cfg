CONSTANTS
  MaxUsers = 1
  MaxText = 2
  MinSpace = 1
  MaxTyped = 4
  Callers = {"self", "other"}
  NoUser = NoUser
SPECIFICATION FairSpec
PROPERTIES
  DeadLinksLeave
