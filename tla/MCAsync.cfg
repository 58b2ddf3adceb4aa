CONSTANTS
  Kinds = {"plain", "gz"}
  MaxAsks = 3
  None = None
SPECIFICATION Spec
INVARIANTS
  TypeOK
  OneOwner
  ExitLosesNothing
PROPERTY
  JobsSpec
