CONSTANTS
  MaxUsers = 2
  MaxText = 2
  MinSpace = 1
  MaxTyped = 4
  Callers = {"self", "other"}
  NoUser = NoUser
SPECIFICATION FairSpec
INVARIANTS
  TypeOK
  FlagMatchesText
  WholeLines
PROPERTIES
  RoundDrains
  
